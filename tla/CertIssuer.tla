------------------------------ MODULE CertIssuer ------------------------------
(***************************************************************************)
(* What CertificateService takes the port CertIssuer (domain/ports.go,     *)
(* Issue and Renew) for: a call may put a newer certificate in place for   *)
(* its domain, and answers with what is in place or with an error.  The    *)
(* answer is never older than what was in place when the call was made,    *)
(* and a call that no other for the same directory has met answers with    *)
(* exactly what is in place.  How files are written, linked, repaired and  *)
(* read one after the other is no part of the promise.                     *)
(***************************************************************************)
EXTENDS Naturals

CONSTANTS Calls,   \* calls of Issue and Renew
          Names,   \* names of domains and of directories
          Stem,    \* the directory of a name
          Parts,   \* the files of a certificate
          None

VARIABLES rehearsal,  \* does this process run certbot with --dry-run?
          live,       \* the certificate in place in a directory, or None
          call        \* the state of each call

issuervars == <<rehearsal, live, call>>

Nothing == [p \in Parts |-> None]

\* What a call is for, the version in place when it was made, whether it has met
\* no other for its directory, and the files it has answered with.
Call(s, n, v, a, files) == [status |-> s, name |-> n, floor |-> v, alone |-> a, answer |-> files]

Idle == Call("idle", None, 0, TRUE, Nothing)
Over == Call("over", None, 0, TRUE, Nothing)

\* The call after it has met another, and after it has answered.
Joined(c)          == Call(call[c].status, call[c].name, call[c].floor, FALSE, call[c].answer)
Answered(c, files) == Call("answered", call[c].name, call[c].floor, call[c].alone, files)

Under(c)   == call[c].status \in {"busy", "answered"}
Kin(n)     == {c \in Calls : Under(c) /\ Stem[call[c].name] = Stem[n]}
Version(d) == IF live[d] = None THEN 0 ELSE live[d].ver

Init ==
    /\ rehearsal \in BOOLEAN
    /\ \E old \in SUBSET {d \in Names : Stem[d] = d} :
          live = [d \in Names |-> IF d \in old THEN [of |-> d, ver |-> 1] ELSE None]
    /\ call = [c \in Calls |-> Idle]

Make(c, n) ==
    /\ call[c].status = "idle"
    /\ call' = [o \in Calls |->
                  IF o = c THEN Call("busy", n, Version(n), Kin(n) = {}, Nothing)
                  ELSE IF o \in Kin(n) THEN Joined(o) ELSE call[o]]
    /\ UNCHANGED <<rehearsal, live>>

\* A certificate is replaced by a call for its directory, by a newer one.
Replace(c) ==
    /\ call[c].status = "busy" /\ ~rehearsal
    /\ UNCHANGED <<rehearsal, call>>
    /\ LET d == Stem[call[c].name]
       IN /\ live'[d] # None /\ live'[d].ver > Version(d)
          /\ IF live[d] = None THEN Stem[live'[d].of] = d ELSE live'[d].of = live[d].of
          /\ live' = [live EXCEPT ![d] = live'[d]]

\* A rehearsal has no certificate to answer with.
Answer(c) ==
    /\ call[c].status = "busy" /\ ~rehearsal
    /\ LET files == call'[c].answer
       IN /\ call' = [call EXCEPT ![c] = Answered(c, files)]
          /\ \A p \in Parts :
                files[p].ver >= call[c].floor /\ Stem[files[p].of] = call[c].name
          /\ call[c].alone => files = [p \in Parts |-> live[call[c].name]]
    /\ UNCHANGED <<rehearsal, live>>

\* The caller has its answer or an error.
End(c) ==
    /\ Under(c)
    /\ call' = [call EXCEPT ![c] = Over]
    /\ UNCHANGED <<rehearsal, live>>

\* A restart ends the calls and may come with an empty data directory.
Restart ==
    /\ call' = [c \in Calls |-> IF Under(c) THEN Over ELSE call[c]]
    /\ rehearsal' \in BOOLEAN
    /\ live' \in {live, [d \in Names |-> None]}

Next ==
    \/ Restart
    \/ \E c \in Calls : Replace(c) \/ Answer(c) \/ End(c) \/ \E n \in Names : Make(c, n)

Spec == Init /\ [][Next]_issuervars
=============================================================================
