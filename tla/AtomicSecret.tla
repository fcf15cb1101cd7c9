----------------------------- MODULE AtomicSecret -----------------------------
(***************************************************************************)
(* What CertService.PushSecret takes UpsertTLSSecret for: each call puts   *)
(* its certificate into the Secret at one moment, or returns an error,     *)
(* having done so or not.  Others may replace or delete the Secret.        *)
(***************************************************************************)
CONSTANTS Calls, Foreign, None

VARIABLES held,    \* whose certificate the Secret holds
          status   \* what each call has returned

Init == held = None /\ status = [c \in Calls |-> "pending"]

Return(c, answer) ==
    /\ status[c] = "pending"
    /\ status' = [status EXCEPT ![c] = answer]

Put(c)  == Return(c, "ok") /\ held' = c
Fail(c) == Return(c, "failed") /\ held' \in {held, c}

Others == held' \in {Foreign, None} /\ UNCHANGED status

Next == Others \/ \E c \in Calls : Put(c) \/ Fail(c)

Spec == Init /\ [][Next]_<<held, status>>
=============================================================================
