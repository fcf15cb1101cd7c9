---------------------------- MODULE CertbotIssuer ----------------------------
(***************************************************************************)
(* The certbot executor as an implementation of CertIssuer.  To say that   *)
(* an answer is not older than what was in place when the call was made, a *)
(* history variable is added to CertbotExecutor; it restricts no step.     *)
(***************************************************************************)
EXTENDS CertbotExecutor

VARIABLE floor   \* the version in place when each run under way was begun

\* The version whole in live/<d>: while the links are moved, the one certbot
\* would go back to.
InPlace(d) == IF rollback[d] # None THEN rollback[d] ELSE link[d]["cert"]

Remember ==
    floor' = [r \in Runs |-> IF ~InFlight(r)' THEN 0
                             ELSE IF InFlight(r) THEN floor[r] ELSE InPlace(req'[r].name)]

IssuerInit == Init /\ floor = [r \in Runs |-> 0]
IssuerNext == Next /\ Remember
IssuerSpec == IssuerInit /\ [][IssuerNext]_<<vars, floor>>

\* What CertificateService sees of the state.
Live ==
    [d \in Names |-> IF conf[d] = None THEN None ELSE [of |-> conf[d].name, ver |-> InPlace(d)]]

Status(r) ==
    IF pc[r] \in {"idle", "over"} THEN pc[r] ELSE IF pc[r] = "ok" THEN "answered" ELSE "busy"

CallOf(r) ==
    [status |-> Status(r), name |-> IF req[r] = None THEN None ELSE req[r].name,
     floor |-> floor[r], alone |-> met[r] = {},
     answer |-> IF pc[r] = "ok" THEN got[r] ELSE NoFiles]

CallStates == [r \in Runs |-> CallOf(r)]

Issuer == INSTANCE CertIssuer WITH
    Calls <- Runs, rehearsal <- dryRun, live <- Live, call <- CallStates

\* The executor keeps the promise of its port: whatever overlaps, is killed or
\* repaired, certificates in place are replaced by newer ones of their lineage,
\* by runs for their directory, and a run answers with files that are not older
\* than what was in place when it began, undisturbed with exactly what is in place
\* (executor.go, Issue and Renew; ports.go, CertIssuer).
RefinesIssuer == Issuer!Spec

-----------------------------------------------------------------------------
(* The invariant behind the proof.                                         *)

\* Links are never moved behind the version in place, there is a newer one to
\* move them to, certbot starts with a lineage that is whole, and nothing is
\* obtained or read in a rehearsal.
Grounded ==
    /\ \A d \in Names :
          /\ conf[d] # None => InPlace(d) > 0
          /\ \A part \in Parts : link[d][part] >= InPlace(d)
          /\ rollback[d] # None => rollback[d] < archive[d]
    /\ \A r \in Runs :
          /\ pc[r] = "certbot" /\ Lineage(r) # None => rollback[Lineage(r)] = None
          /\ pc[r] \in {"switch", "cert", "chain", "privkey", "ok"} => ~dryRun

\* What was in place when a run began is so still, or a newer version is, and the
\* run has read nothing older.
NoneOlder ==
    /\ floor \in [Runs -> Nat]
    /\ \A r \in Runs :
          /\ ~InFlight(r) => req[r] = None /\ floor[r] = 0
          /\ InFlight(r) => floor[r] <= InPlace(req[r].name)
          /\ \A part \in Parts : got[r][part] # None => got[r][part].ver >= floor[r]

IssuerInv == IInv /\ Grounded /\ NoneOlder
=============================================================================
