---------------------------- MODULE SchedulerProofs ----------------------------
(***************************************************************************)
(* Theorems about Scheduler for every value of its constants, checked by   *)
(* the TLA+ proof system: types, that a domain has its first certificate   *)
(* in time, and that a tick skips no domain it has listed.                 *)
(***************************************************************************)
EXTENDS Scheduler, TLAPS

LEMMA OlderIsLife ==
  ASSUME NEW life \in Life \cup {None}
  PROVE  Older(life) \in Life \cup {None}
BY NoneAssumption, TimeAssumption DEF Older, Life

LEMMA ObtainedIsLife ==
  ASSUME NEW n \in Names, line \in [Names -> Life \cup {None}]
  PROVE  Obtained(n) \in Life /\ Obtained(n) # None
BY NoneAssumption, TimeAssumption DEF Obtained, Life

\* The history of one domain.
LEMMA NoteFacts ==
  ASSUME TypeOK, NEW S, NEW t \in Nat, Note(S, t)
  PROVE  /\ owed' \in [DomainIds -> 0 .. Patience + 1]
         /\ lost' \in [DomainIds -> 0 .. MaxLost + 1]
         /\ \A d \in DomainIds :
               /\ ~Waits(d) /\ Waits(d)' => owed'[d] = 0 /\ lost'[d] = 0
               /\ Waits(d) /\ Waits(d)' =>
                     /\ owed'[d] <= owed[d] + t
                     /\ lost'[d] = IF d \in S THEN UpTo(MaxLost + 1, lost[d] + Interval)
                                              ELSE lost[d]
<1>. DEFINE Still(d) == Waits(d) /\ Waits(d)'
<1>1. /\ owed' = [d \in DomainIds |-> IF Still(d) THEN UpTo(Patience + 1, owed[d] + t) ELSE 0]
      /\ lost' = [d \in DomainIds |-> IF ~Still(d) THEN 0
                                      ELSE IF d \in S THEN UpTo(MaxLost + 1, lost[d] + Interval)
                                      ELSE lost[d]]
  BY DEF Note
<1>2. ASSUME NEW d \in DomainIds
      PROVE  /\ UpTo(Patience + 1, owed[d] + t) \in 0 .. Patience + 1
             /\ UpTo(Patience + 1, owed[d] + t) <= owed[d] + t
             /\ UpTo(MaxLost + 1, lost[d] + Interval) \in 0 .. MaxLost + 1
             /\ lost[d] \in 0 .. MaxLost + 1
             /\ 0 \in 0 .. Patience + 1 /\ 0 \in 0 .. MaxLost + 1
  BY TimeAssumption DEF TypeOK, UpTo, Patience
<1>. HIDE DEF Still
<1>3. owed' \in [DomainIds -> 0 .. Patience + 1]
  BY <1>1, <1>2
<1>4. lost' \in [DomainIds -> 0 .. MaxLost + 1]
  BY <1>1, <1>2
<1>. QED
  BY <1>1, <1>2, <1>3, <1>4 DEF Still

-----------------------------------------------------------------------------
\* Layer 1: types.  A worker in a run has a job.
Typing == TypeOK /\ \A w \in Workers : pc[w] = "run" => job[w] # None

LEMMA TypingInit == Init => Typing
BY TimeAssumption DEF Init, Typing, TypeOK, Patience

LEMMA BeginTyped ==
  ASSUME Typing, NEW w \in Workers, NEW d \in DomainIds, row[d] # None,
         NEW trigger \in {"scheduled", "manual"}, NEW op \in {"issue", "renew"},
         Begin(w, d, trigger, op)
  PROVE  /\ pc' \in [Workers -> {"idle", "list", "loop", "run"}]
         /\ job' \in [Workers -> Job \cup {None}]
         /\ \A v \in Workers : pc'[v] = "run" => job'[v] # None
<1>1. [dom |-> d, trigger |-> trigger, op |-> op, row |-> row[d]] \in Job
  BY DEF Typing, TypeOK, Job
<1>. QED
  BY <1>1, NoneAssumption DEF Typing, TypeOK, Begin

LEMMA TypingTick ==
  ASSUME Typing, NEW w \in Workers,
         \/ Fire(w) \/ ListDue(w) \/ ListFails(w) \/ EndTick(w)
         \/ \E d \in DomainIds : Visit(w, d)
  PROVE  Typing'
<1>. USE TimeAssumption DEF Typing, TypeOK, domainVars, lives, workerVars, history
<1>1. CASE Fire(w)
  BY <1>1 DEF Fire
<1>2. CASE ListDue(w)
  BY <1>2 DEF ListDue
<1>3. CASE ListFails(w)
  BY <1>3, NoteFacts DEF ListFails
<1>4. CASE EndTick(w)
  BY <1>4 DEF EndTick
<1>5. ASSUME NEW d \in DomainIds, Visit(w, d) PROVE Typing'
  <2>1. CASE row[d] = None
    BY <1>5, <2>1 DEF Visit
  <2>2. CASE row[d] # None
    <3>1. PICK op \in {"issue", "renew"} : Begin(w, d, "scheduled", op)
      BY <1>5, <2>2 DEF Visit
    <3>. QED
      BY <1>5, <2>2, <3>1, BeginTyped DEF Visit
  <2>. QED
    BY <2>1, <2>2
<1>. QED
  BY <1>1, <1>2, <1>3, <1>4, <1>5

\* Every end of a run.
RunEnds(w) == RunSucceeds(w) \/ RunUnpushed(w) \/ RunFails(w)

LEMMA TypingRun ==
  ASSUME Typing, NEW w \in Workers, RunEnds(w)
  PROVE  Typing'
<1>0. pc[w] = "run" /\ job[w] \in Job
  BY DEF RunEnds, RunSucceeds, RunUnpushed, Stores, RunFails, Typing, TypeOK
<1>1. /\ job[w].dom \in DomainIds /\ job[w].row \in DomainRow
      /\ job[w].row.name \in Names
  BY <1>0 DEF Job, DomainRow
<1>2. Obtained(job[w].row.name) \in Life
  BY <1>1, ObtainedIsLife DEF Typing, TypeOK
<1>3. line' \in [Names -> Life \cup {None}]
  BY <1>1, <1>2 DEF RunEnds, RunSucceeds, RunUnpushed, Stores, RunFails, CertbotRuns, Typing, TypeOK
<1>4. row' \in [DomainIds -> DomainRow \cup {None}]
  BY <1>1 DEF RunEnds, RunSucceeds, RunUnpushed, Stores, RunFails, WriteBack, Typing, TypeOK
<1>5. latest' \in [DomainIds -> Life \cup {None}]
  BY <1>1, <1>2 DEF RunEnds, RunSucceeds, RunUnpushed, Stores, RunFails, Typing, TypeOK
<1>6. /\ pc' \in [Workers -> {"idle", "list", "loop", "run"}]
      /\ job' \in [Workers -> Job \cup {None}] /\ due' = due
      /\ \A v \in Workers : pc'[v] = "run" => job'[v] # None
  BY DEF RunEnds, RunSucceeds, RunUnpushed, Stores, RunFails, AfterFailure, Continue, Typing, TypeOK
<1>7. \E S : Note(S, 0)
  BY DEF RunEnds, RunSucceeds, RunUnpushed, Stores, RunFails
<1>8. gone' = gone /\ wait' = wait
  BY DEF RunEnds, RunSucceeds, RunUnpushed, Stores, RunFails
<1>. QED
  BY <1>3, <1>4, <1>5, <1>6, <1>7, <1>8, NoteFacts DEF Typing, TypeOK

\* The actions of users.
Users ==
  \/ \E d \in DomainIds, n \in Names, auto \in BOOLEAN : CreateDomain(d, n, auto)
  \/ \E d \in DomainIds : DeleteDomain(d)
  \/ \E d \in DomainIds, auto \in BOOLEAN : SetAuto(d, auto)
  \/ \E d \in DomainIds, n \in Names : Rename(d, n)

LEMMA TypingUser == ASSUME Typing, Users PROVE Typing'
<1>1. /\ UNCHANGED <<line, wait, workerVars>>
      /\ Note({}, 0)
  BY DEF Users, CreateDomain, DeleteDomain, SetAuto, Rename, lives
<1>2. /\ row' \in [DomainIds -> DomainRow \cup {None}]
      /\ latest' \in [DomainIds -> Life \cup {None}]
      /\ gone' \subseteq DomainIds
  BY DEF Users, CreateDomain, DeleteDomain, SetAuto, Rename, lives, DomainRow, Typing, TypeOK
<1>. QED
  BY <1>1, <1>2, NoteFacts DEF Typing, TypeOK, workerVars

LEMMA TypingManual ==
  ASSUME Typing, NEW w \in Workers, NEW d \in DomainIds, NEW op \in {"issue", "renew"},
         Manual(w, d, op)
  PROVE  Typing'
BY BeginTyped DEF Manual, Typing, TypeOK, domainVars, lives, history

LEMMA TypingTime == ASSUME Typing, Restart \/ Advance PROVE Typing'
<1>1. CASE Restart
  BY <1>1, NoteFacts, TimeAssumption DEF Restart, Typing, TypeOK, domainVars, lives
<1>2. CASE Advance
  <2>1. /\ latest' \in [DomainIds -> Life \cup {None}]
        /\ line' \in [Names -> Life \cup {None}]
    BY <1>2, OlderIsLife DEF Advance, Typing, TypeOK
  <2>2. wait' \in 0 .. Interval
    BY <1>2, TimeAssumption DEF Advance, Typing, TypeOK
  <2>3. Note({}, 1) /\ UNCHANGED <<domainVars, workerVars>>
    BY <1>2 DEF Advance
  <2>. QED
    BY <2>1, <2>2, <2>3, NoteFacts DEF Typing, TypeOK, domainVars, workerVars
<1>. QED
  BY <1>1, <1>2

\* Types, and that a worker in a run has a job.
THEOREM TypingInvariant == Spec => []Typing
<1>1. Typing /\ [Next]_vars => Typing'
  <2>. SUFFICES ASSUME Typing, Next \/ UNCHANGED vars PROVE Typing'
    OBVIOUS
  <2>1. CASE \E w \in Workers : Fire(w) \/ Step(w)
    BY <2>1, TypingTick, TypingRun DEF Step, RunEnds
  <2>2. CASE UNCHANGED vars
    BY <2>2 DEF vars, Typing, TypeOK
  <2>. QED
    BY <2>1, <2>2, TypingUser, TypingManual, TypingTime DEF Next, Users
<1>. QED
  BY <1>1, TypingInit, PTL DEF Spec

\* Every variable keeps its type, for any number of domains and workers and
\* whatever the durations are.
THEOREM TypeCorrect == Spec => []TypeOK
BY TypingInvariant, PTL DEF Typing

-----------------------------------------------------------------------------
\* Layer 2: is a tick under way that has still to deal with d?
Turn(d) ==
    \E w \in Workers :
        \/ pc[w] = "list"
        \/ pc[w] \in {"loop", "run"} /\ d \in due[w]
        \/ pc[w] = "run" /\ job[w].dom = d /\ job[w].trigger = "scheduled"

\* What a domain has waited leaves room for the time until the next tick, or a tick
\* is about to deal with it.
OnTime(d) ==
    lost[d] <= MaxLost =>
        \/ owed[d] + wait <= Interval + lost[d]
        \/ Turn(d) /\ owed[d] <= Interval + lost[d]

Punctual == \A d \in DomainIds : Waits(d) => OnTime(d)

\* A step that takes no time leaves a domain on time, if it charges the domain for
\* the turn or the time until the next tick that it takes away.
LEMMA NotedInTime ==
  ASSUME Typing, Punctual, NEW S, Note(S, 0), NEW d \in DomainIds, Waits(d)',
         wait' \in 0 .. Interval,
         d \notin S => wait' = wait /\ (Waits(d) /\ Turn(d) => Turn(d)')
  PROVE  OnTime(d)'
<1>. USE TimeAssumption
<1>0. /\ owed'[d] \in Nat /\ lost'[d] \in Nat /\ owed[d] \in Nat /\ lost[d] \in Nat
      /\ wait \in Nat /\ wait <= Interval
  BY NoteFacts DEF Typing, TypeOK, Patience
<1>1. CASE ~Waits(d)
  BY <1>0, <1>1, NoteFacts DEF OnTime, Typing
<1>2. CASE Waits(d)
  <2>1. OnTime(d) /\ owed'[d] <= owed[d] + 0
    BY <1>2, NoteFacts DEF Punctual, Typing
  <2>2. CASE d \in S
    <3>1. lost'[d] = UpTo(MaxLost + 1, lost[d] + Interval)
      BY <1>2, <2>2, NoteFacts DEF Typing
    <3>. QED
      BY <1>0, <2>1, <3>1 DEF OnTime, UpTo
  <2>3. CASE d \notin S
    <3>1. lost'[d] = lost[d]
      BY <1>2, <2>3, NoteFacts DEF Typing
    <3>. QED
      BY <1>0, <1>2, <2>1, <2>3, <3>1 DEF OnTime
  <2>. QED
    BY <2>2, <2>3
<1>. QED
  BY <1>1, <1>2

LEMMA PunctualTick ==
  ASSUME Typing, Punctual, NEW w \in Workers,
         \/ Fire(w) \/ ListDue(w) \/ ListFails(w) \/ EndTick(w)
         \/ \E d \in DomainIds : Visit(w, d)
  PROVE  Punctual'
<1>. SUFFICES ASSUME NEW d \in DomainIds, Waits(d)' PROVE OnTime(d)'
  BY DEF Punctual
<1>0. Waits(d) /\ OnTime(d) /\ wait \in Nat /\ wait <= Interval
  BY TimeAssumption
  DEF Fire, ListDue, ListFails, EndTick, Visit, domainVars, lives, Waits, Punctual, Typing, TypeOK
<1>1. CASE ListFails(w)
  <2>1. Note(DomainIds, 0) /\ wait' \in 0 .. Interval
    BY <1>1 DEF ListFails, Typing, TypeOK
  <2>. QED
    BY <2>1, NotedInTime
<1>2. CASE Fire(w)
  <2>1. wait = 0 /\ Turn(d)' /\ UNCHANGED history
    BY <1>2 DEF Fire, Turn, Typing, TypeOK
  <2>2. owed[d] \in Nat /\ lost[d] \in Nat
    BY TimeAssumption DEF Typing, TypeOK, Patience
  <2>. QED
    BY <1>0, <2>1, <2>2, TimeAssumption DEF OnTime, history
<1>3. CASE ListDue(w) \/ EndTick(w) \/ \E e \in DomainIds : Visit(w, e)
  <2>1. UNCHANGED <<wait, history>>
    BY <1>3 DEF ListDue, EndTick, Visit
  <2>2. Turn(d) => Turn(d)'
    <3>1. CASE ListDue(w)
      <4>1. d \in due'[w] /\ pc'[w] = "loop"
        BY <1>0, <3>1 DEF ListDue, Due, Waits, Typing, TypeOK
      <4>. QED
        BY <4>1 DEF Turn
    <3>2. CASE EndTick(w)
      BY <3>2 DEF EndTick, Turn, Typing, TypeOK
    <3>3. ASSUME NEW e \in DomainIds, Visit(w, e) PROVE Turn(d) => Turn(d)'
      <4>1. CASE row[e] = None
        BY <1>0, <3>3, <4>1 DEF Visit, Turn, Waits, Typing, TypeOK
      <4>2. CASE row[e] # None
        <5>1. PICK op : Begin(w, e, "scheduled", op)
          BY <3>3, <4>2 DEF Visit
        <5>2. /\ pc'[w] = "run" /\ job'[w].dom = e /\ job'[w].trigger = "scheduled"
              /\ due'[w] = due[w] \ {e} /\ pc[w] = "loop"
              /\ \A v \in Workers \ {w} : /\ pc'[v] = pc[v] /\ due'[v] = due[v]
                                          /\ job'[v] = job[v]
          BY <3>3, <5>1 DEF Visit, Begin, Typing, TypeOK
        <5>. QED
          BY <5>2 DEF Turn
      <4>. QED
        BY <4>1, <4>2
    <3>. QED
      BY <1>3, <3>1, <3>2, <3>3
  <2>. QED
    BY <1>0, <2>1, <2>2 DEF OnTime, history
<1>. QED
  BY <1>1, <1>2, <1>3

\* The end of a run takes no turn from a domain that still waits, except for the one
\* whose scheduled run has failed.
LEMMA PunctualRun ==
  ASSUME Typing, Punctual, NEW w \in Workers, RunEnds(w)
  PROVE  Punctual'
<1>. SUFFICES ASSUME NEW d \in DomainIds, Waits(d)' PROVE OnTime(d)'
  BY DEF Punctual
<1>0. pc[w] = "run" /\ job[w] \in Job /\ wait' = wait /\ wait' \in 0 .. Interval
  BY DEF RunEnds, RunSucceeds, RunUnpushed, Stores, RunFails, Typing, TypeOK
<1>1. /\ pc'[w] = "loop" /\ due' = due
      /\ \A v \in Workers \ {w} : pc'[v] = pc[v] /\ job'[v] = job[v]
  BY <1>0 DEF RunEnds, RunSucceeds, RunUnpushed, Stores, RunFails, AfterFailure, Continue, Typing, TypeOK
<1>2. ~(job[w].dom = d /\ job[w].trigger = "scheduled") /\ Turn(d) => Turn(d)'
  BY <1>0, <1>1 DEF Turn
<1>3. CASE RunFails(w)
  <2>. DEFINE S == IF job[w].trigger = "scheduled" THEN {job[w].dom} ELSE {}
  <2>1. Note(S, 0)
    BY <1>3 DEF RunFails
  <2>2. d \notin S => ~(job[w].dom = d /\ job[w].trigger = "scheduled")
    OBVIOUS
  <2>. HIDE DEF S
  <2>. QED
    BY <1>0, <1>2, <2>1, <2>2, NotedInTime
<1>4. CASE RunSucceeds(w) \/ RunUnpushed(w)
  <2>1. Note({}, 0)
    BY <1>4 DEF RunSucceeds, RunUnpushed, Stores
  <2>2. job[w].dom # d
    <3>1. latest' = [latest EXCEPT ![job[w].dom] = Obtained(job[w].row.name)]
      BY <1>4 DEF RunSucceeds, RunUnpushed, Stores
    <3>2. Obtained(job[w].row.name) # None
      BY <1>0, ObtainedIsLife DEF Job, DomainRow, Typing, TypeOK
    <3>. QED
      BY <3>1, <3>2 DEF Waits, Typing, TypeOK
  <2>. QED
    BY <1>0, <1>2, <2>1, <2>2, NotedInTime
<1>. QED
  BY <1>3, <1>4 DEF RunEnds

LEMMA PunctualUser ==
  ASSUME Typing, Punctual, Users
  PROVE  Punctual'
<1>. SUFFICES ASSUME NEW d \in DomainIds, Waits(d)' PROVE OnTime(d)'
  BY DEF Punctual
<1>1. Note({}, 0) /\ wait' = wait /\ wait' \in 0 .. Interval /\ UNCHANGED workerVars
  BY DEF Users, CreateDomain, DeleteDomain, SetAuto, Rename, Typing, TypeOK
<1>2. Turn(d) => Turn(d)'
  BY <1>1 DEF workerVars, Turn
<1>. QED
  BY <1>1, <1>2, NotedInTime

LEMMA PunctualManual ==
  ASSUME Typing, Punctual, NEW w \in Workers, NEW e \in DomainIds,
         NEW op \in {"issue", "renew"}, Manual(w, e, op)
  PROVE  Punctual'
<1>. SUFFICES ASSUME NEW d \in DomainIds, Waits(d)' PROVE OnTime(d)'
  BY DEF Punctual
<1>1. Waits(d) /\ OnTime(d) /\ UNCHANGED <<wait, history>>
  BY DEF Manual, Waits, domainVars, lives, Punctual
<1>2. pc[w] = "idle" /\ due' = due
      /\ \A v \in Workers \ {w} : pc'[v] = pc[v] /\ job'[v] = job[v]
  BY DEF Manual, Begin, Typing, TypeOK
<1>3. Turn(d) => Turn(d)'
  BY <1>2 DEF Turn
<1>. QED
  BY <1>1, <1>3 DEF OnTime, history

LEMMA PunctualTime ==
  ASSUME Prompt, Typing, Punctual, Restart \/ Advance
  PROVE  Punctual'
<1>. SUFFICES ASSUME NEW d \in DomainIds, Waits(d)' PROVE OnTime(d)'
  BY DEF Punctual
<1>1. CASE Restart
  <2>1. Note(DomainIds, 0) /\ wait' \in 0 .. Interval
    BY <1>1, TimeAssumption DEF Restart
  <2>. QED
    BY <2>1, NotedInTime
<1>2. CASE Advance
  <2>1. /\ Note({}, 1) /\ wait' = wait - 1 /\ wait \in Nat
        /\ \A w \in Workers : pc[w] = "idle"
    BY <1>2, TimeAssumption DEF Advance, Typing, TypeOK
  <2>2. Waits(d)
    <3>1. row' = row /\ latest'[d] = Older(latest[d])
      BY <1>2 DEF Advance, domainVars
    <3>2. latest[d] # None => Older(latest[d]) # None
      BY NoneAssumption, TimeAssumption DEF Older, Life, Typing, TypeOK
    <3>. QED
      BY <3>1, <3>2 DEF Waits
  <2>3. lost[d] <= MaxLost => owed[d] + wait <= Interval + lost[d]
    BY <2>1, <2>2 DEF Punctual, OnTime, Turn
  <2>4. owed'[d] <= owed[d] + 1 /\ lost'[d] = lost[d]
    BY <2>1, <2>2, NoteFacts DEF Typing
  <2>5. owed[d] \in Nat /\ lost[d] \in Nat /\ owed'[d] \in Nat
    BY <2>1, NoteFacts, TimeAssumption DEF Typing, TypeOK, Patience
  <2>. QED
    BY <2>1, <2>3, <2>4, <2>5, TimeAssumption DEF OnTime
<1>. QED
  BY <1>1, <1>2

\* A domain with auto_renew on has its first certificate in time, for any number of
\* domains, names, ticks and manual runs, any durations and any order of failures,
\* restarts, edits, deletions and rows written back.
THEOREM FirstInTimeEver == Spec => []FirstInTime
<1>1. Typing /\ (Prompt => Punctual) /\ [Next]_vars => (Prompt => Punctual)'
  <2>. SUFFICES ASSUME Prompt, Typing, Punctual, Next \/ UNCHANGED vars
                PROVE  Punctual'
    OBVIOUS
  <2>1. CASE Next
    BY <2>1, PunctualTick, PunctualRun, PunctualUser, PunctualManual, PunctualTime
    DEF Next, Step, RunEnds, Users
  <2>2. CASE UNCHANGED vars
    BY <2>2 DEF vars, Punctual, OnTime, Turn, Waits
  <2>. QED
    BY <2>1, <2>2
<1>2. Init => (Prompt => Punctual)
  BY DEF Init, Punctual, Waits
<1>3. Typing /\ (Prompt => Punctual) => FirstInTime
  <2>. SUFFICES ASSUME Typing, Punctual,
                       NEW d \in DomainIds, Waits(d), lost[d] <= MaxLost
                PROVE  owed[d] <= Interval + lost[d]
    BY DEF FirstInTime
  <2>. QED
    BY TimeAssumption DEF Punctual, OnTime, Typing, TypeOK, Patience
<1>. QED
  BY <1>1, <1>2, <1>3, TypingInvariant, PTL DEF Spec

-----------------------------------------------------------------------------
\* Only a worker in a tick has a list; manual runs have an empty one.
ListsHeld == \A w \in Workers : pc[w] \in {"idle", "list"} => due[w] = {}

LEMMA ListsHeldNext ==
  ASSUME Typing, ListsHeld, [Next]_vars
  PROVE  ListsHeld'
<1>. USE DEF Typing, TypeOK, ListsHeld, workerVars
<1>1. ASSUME NEW w \in Workers, Fire(w) \/ Step(w)
      PROVE  ListsHeld'
  <2>1. CASE Fire(w)
    BY <2>1 DEF Fire
  <2>2. CASE ListDue(w) \/ ListFails(w) \/ EndTick(w)
    BY <2>2 DEF ListDue, ListFails, EndTick
  <2>3. CASE \E d \in DomainIds : Visit(w, d)
    BY <2>3 DEF Visit, Begin
  <2>4. CASE RunSucceeds(w) \/ RunUnpushed(w) \/ RunFails(w)
    BY <2>4 DEF RunSucceeds, RunUnpushed, Stores, RunFails, AfterFailure, Continue
  <2>. QED
    BY <1>1, <2>1, <2>2, <2>3, <2>4 DEF Step
<1>2. CASE \E w \in Workers, d \in DomainIds, op \in {"issue", "renew"} : Manual(w, d, op)
  BY <1>2 DEF Manual, Begin
<1>3. CASE Restart
  BY <1>3 DEF Restart
<1>4. CASE UNCHANGED <<pc, due>>
  BY <1>4
<1>. QED
  BY <1>1, <1>2, <1>3, <1>4
  DEF Next, CreateDomain, DeleteDomain, SetAuto, Rename, Advance, vars

\* What a tick has on its list when the worker's step is over.
LEMMA ListShrinks ==
  ASSUME Typing, ListsHeld, NEW w \in Workers, Step(w), NEW d \in due[w], row[d] # None
  PROVE  \/ pc'[w] # "idle" /\ d \in due'[w]
         \/ pc'[w] = "run" /\ job'[w].dom = d
<1>. USE DEF Typing, TypeOK, ListsHeld
<1>1. CASE ListDue(w) \/ ListFails(w) \/ EndTick(w)
  BY <1>1 DEF ListDue, ListFails, EndTick
<1>2. ASSUME NEW e \in DomainIds, Visit(w, e)
      PROVE  \/ pc'[w] # "idle" /\ d \in due'[w]
             \/ pc'[w] = "run" /\ job'[w].dom = d
  <2>1. pc[w] = "loop" /\ due'[w] = due[w] \ {e}
    BY <1>2 DEF Visit
  <2>2. CASE row[e] = None
    BY <1>2, <2>1, <2>2 DEF Visit
  <2>3. CASE row[e] # None
    <3>1. PICK op : Begin(w, e, "scheduled", op)
      BY <1>2, <2>3 DEF Visit
    <3>2. pc'[w] = "run" /\ job'[w].dom = e
      BY <3>1 DEF Begin
    <3>. QED
      BY <2>1, <3>2
  <2>. QED
    BY <2>2, <2>3
<1>3. CASE RunSucceeds(w) \/ RunUnpushed(w) \/ RunFails(w)
  BY <1>3 DEF RunSucceeds, RunUnpushed, Stores, RunFails, AfterFailure, Continue
<1>. QED
  BY <1>1, <1>2, <1>3 DEF Step

\* The other workers and the users leave the list of a worker in a tick alone.
LEMMA ListKept ==
  ASSUME Typing, ListsHeld, [Next]_vars, ~Restart,
         NEW w \in Workers, ~Step(w), NEW d \in due[w], row[d] # None
  PROVE  pc'[w] # "idle" /\ d \in due'[w]
<1>. USE DEF Typing, TypeOK, ListsHeld, workerVars
<1>1. pc[w] \notin {"idle", "list"}
  OBVIOUS
<1>2. ASSUME NEW v \in Workers, v # w, Fire(v) \/ Step(v)
      PROVE  pc'[w] = pc[w] /\ due'[w] = due[w]
  <2>1. CASE Fire(v)
    BY <1>2, <2>1 DEF Fire
  <2>2. CASE ListDue(v) \/ ListFails(v) \/ EndTick(v)
    BY <1>2, <2>2 DEF ListDue, ListFails, EndTick
  <2>3. CASE \E e \in DomainIds : Visit(v, e)
    BY <1>2, <2>3 DEF Visit, Begin
  <2>4. CASE RunSucceeds(v) \/ RunUnpushed(v) \/ RunFails(v)
    BY <1>2, <2>4 DEF RunSucceeds, RunUnpushed, Stores, RunFails, AfterFailure, Continue
  <2>. QED
    BY <1>2, <2>1, <2>2, <2>3, <2>4 DEF Step
<1>3. ~Fire(w)
  BY <1>1 DEF Fire
<1>4. CASE \E v \in Workers, e \in DomainIds, op \in {"issue", "renew"} : Manual(v, e, op)
  <2>1. PICK v \in Workers, e \in DomainIds, op \in {"issue", "renew"} : Manual(v, e, op)
    BY <1>4
  <2>2. v # w /\ pc'[w] = pc[w] /\ due' = due
    BY <1>1, <2>1 DEF Manual, Begin
  <2>. QED
    BY <1>1, <2>2
<1>5. CASE UNCHANGED <<pc, due>>
  BY <1>1, <1>5
<1>. QED
  BY <1>1, <1>2, <1>3, <1>4, <1>5
  DEF Next, CreateDomain, DeleteDomain, SetAuto, Rename, Advance, vars

\* Tick serves every domain it has listed, for any number of domains, ticks that
\* overlap and manual runs: what is missing for Attended is only that each step
\* is taken.
THEOREM NoneSkippedEver == Spec => NoneSkipped
<1>1. Typing /\ ListsHeld /\ [Next]_vars
      => [\A w \in Workers, d \in DomainIds : d \in due[w] /\ row[d] # None =>
             \/ pc'[w] # "idle" /\ d \in due'[w]
             \/ pc'[w] = "run" /\ job'[w].dom = d
             \/ Restart]_vars
  BY ListShrinks, ListKept
<1>2. Init => ListsHeld
  BY DEF Init, ListsHeld
<1>3. Typing /\ ListsHeld /\ [Next]_vars => ListsHeld'
  BY ListsHeldNext
<1>. QED
  BY <1>1, <1>2, <1>3, TypingInvariant, PTL DEF Spec, NoneSkipped
=============================================================================
