------------------------------ MODULE RenewalLog ------------------------------
(***************************************************************************)
(* What the certificate service promises about its records, whatever it    *)
(* does in between: each request leaves at most one job and at most one    *)
(* certificate, a job succeeds only after its certificate is on record, a  *)
(* settled job and a stored certificate never change, and both go only     *)
(* with their domain, for good.                                            *)
(***************************************************************************)
EXTENDS Sequences, SequencesExt

CONSTANTS Runs, DomainIds, Rehearsals, NoEntry

VARIABLES open,      \* the ids of the domains that exist
          retired,   \* the ids of the domains that have been deleted
          log,       \* the job of each run: its domain and status, or NoEntry
          history    \* the runs whose certificates a domain has, oldest first

logvars == <<open, retired, log, history>>

Recorded(r, d) == r \in ToSet(history[d])

Init ==
    /\ open    = {}
    /\ retired = {}
    /\ log     = [r \in Runs |-> NoEntry]
    /\ history = [d \in DomainIds |-> <<>>]

AddDomain(d) ==
    /\ d \notin open \cup retired
    /\ open' = open \cup {d}
    /\ UNCHANGED <<retired, log, history>>

Drop(d) ==
    /\ d \in open
    /\ open' = open \ {d}
    /\ retired' = retired \cup {d}
    /\ log' = [r \in Runs |-> IF log[r] # NoEntry /\ log[r].dom = d
                              THEN NoEntry ELSE log[r]]
    /\ history' = [history EXCEPT ![d] = <<>>]

Begin(r, d) ==
    /\ d \in open
    /\ log[r] = NoEntry
    /\ log' = [log EXCEPT ![r] = [dom |-> d, status |-> "running"]]
    /\ UNCHANGED <<open, retired, history>>

Record(r, d) ==
    /\ log[r] = [dom |-> d, status |-> "running"]
    /\ ~Recorded(r, d)
    /\ history' = [history EXCEPT ![d] = Append(@, r)]
    /\ UNCHANGED <<open, retired, log>>

Settle(r, d, status) ==
    /\ log[r] = [dom |-> d, status |-> "running"]
    /\ status = "success" => r \in Rehearsals \/ Recorded(r, d)
    /\ log' = [log EXCEPT ![r].status = status]
    /\ UNCHANGED <<open, retired, history>>

Next ==
    \E d \in DomainIds :
        \/ AddDomain(d)
        \/ Drop(d)
        \/ \E r \in Runs :
              \/ Begin(r, d)
              \/ Record(r, d)
              \/ \E status \in {"success", "failed"} : Settle(r, d, status)

Spec == Init /\ [][Next]_logvars
=============================================================================
