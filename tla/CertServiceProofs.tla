-------------------------- MODULE CertServiceProofs --------------------------
(***************************************************************************)
(* Theorems about CertService for every value of its constants, checked by *)
(* the TLA+ proof system.  The inductive invariant IInv is stated in       *)
(* CertService; it is proved in layers, each using the ones before it.     *)
(***************************************************************************)
EXTENDS CertService, TLAPS

\* Layer 1: types, and which locals are set at which point of a run.
Typing == TypeOK /\ Shape

LEMMA TypingInit == Init => Typing
<1>. SUFFICES ASSUME Init PROVE Typing
  OBVIOUS
<1>1. live \in [Names -> Nat]
  BY LineagesAssumption DEF Init
<1>. QED
  BY <1>1, NoneAssumption
  DEF Init, Typing, TypeOK, Shape, RowsKnown, EditState, Pipeline, JobStatuses

LEMMA TypingStart ==
  ASSUME Typing, NEW r \in Runs, NEW d \in DomainIds, NEW o \in {"none", "issue", "renew"},
         NEW label \in {"choose", "get"}, Start(r, d, o, label)
  PROVE  Typing'
BY NoneAssumption
DEF Typing, TypeOK, Shape, RowsKnown, Pipeline, Start, Goto, tables, outside

LEMMA TypingStep ==
  ASSUME Typing, NEW r \in Runs, Step(r)
  PROVE  Typing'
<1>. USE NoneAssumption DEF Typing, Pipeline, tables, outside, locals, Goto
<1>0. CASE EnsureCertificate(r)
  <2>1. TypeOK'
    BY <1>0 DEF EnsureCertificate, TypeOK
  <2>2. Shape'
    BY <1>0 DEF EnsureCertificate, TypeOK, Shape, RowsKnown
  <2>. QED
    BY <2>1, <2>2
<1>1. CASE GetDomain(r)
  <2>1. dom[r] \in DomainIds /\ domains[dom[r]] \in DomainRow \cup {None}
    BY <1>1 DEF GetDomain, TypeOK, Shape
  <2>2. TypeOK'
    BY <1>1, <2>1 DEF GetDomain, TypeOK
  <2>3. Shape'
    BY <1>1, <2>1 DEF GetDomain, TypeOK, Shape, RowsKnown
  <2>. QED
    BY <2>2, <2>3
<1>2. CASE CreateJob(r)
  <2>1. TypeOK'
    BY <1>2 DEF CreateJob, TypeOK, JobStatuses
  <2>2. Shape'
    BY <1>2 DEF CreateJob, TypeOK, Shape, RowsKnown
  <2>. QED
    BY <2>1, <2>2
<1>3. CASE CallCertbot(r)
  <2>1. snap[r].name \in Names
    BY <1>3 DEF CallCertbot, TypeOK, Shape, DomainRow
  <2>2. live' \in [Names -> Nat]
    <3>1. \A n \in Names : live[n] + 1 \in Nat
      BY DEF TypeOK
    <3>2. \/ UNCHANGED live
          \/ live' = [live EXCEPT ![snap[r].name] = @ + 1]
      BY <1>3 DEF CallCertbot
    <3>. QED
      BY <2>1, <3>1, <3>2 DEF TypeOK
  <2>3. /\ pc' \in [Runs -> Pipeline \cup {"idle", "done", "killed"}]
        /\ outcome' \in [Runs -> {"none", "success", "failed"}]
    BY <1>3 DEF CallCertbot, Decide, TypeOK
  <2>4. TypeOK'
    BY <1>3, <2>2, <2>3 DEF CallCertbot, TypeOK
  <2>5. Shape'
    BY <1>3 DEF CallCertbot, Decide, TypeOK, Shape, RowsKnown
  <2>. QED
    BY <2>4, <2>5
<1>4. CASE LoadResult(r)
  <2>1. snap[r] \in DomainRow /\ snap[r].name \in Names /\ live[snap[r].name] \in Nat
    BY <1>4 DEF LoadResult, TypeOK, Shape, DomainRow
  <2>2. [run |-> r, name |-> snap[r].name, ver |-> live[snap[r].name]] \in CertRow
    BY <2>1 DEF CertRow
  <2>3. TypeOK'
    <3>1. cert' \in [Runs -> CertRow \cup {None}]
      BY <1>4, <2>2 DEF LoadResult, TypeOK
    <3>2. /\ pc' \in [Runs -> Pipeline \cup {"idle", "done", "killed"}]
          /\ outcome' \in [Runs -> {"none", "success", "failed"}]
      BY <1>4 DEF LoadResult, Decide, TypeOK
    <3>. QED
      BY <1>4, <3>1, <3>2 DEF LoadResult, TypeOK
  <2>4. cert'[r] # cert[r] => r \notin Rehearsals
    BY <1>4 DEF LoadResult, ResultEmpty
  <2>5. Shape'
    BY <1>4, <2>2, <2>4 DEF LoadResult, Decide, TypeOK, Shape, RowsKnown
  <2>. QED
    BY <2>3, <2>5
<1>5. CASE SaveCert(r)
  <2>1. dom[r] \in DomainIds /\ cert[r] \in CertRow /\ certs[dom[r]] \in Seq(CertRow)
    BY <1>5 DEF SaveCert, TypeOK, Shape
  <2>2. Append(certs[dom[r]], cert[r]) \in Seq(CertRow)
    BY <2>1
  <2>3. certs' \in [DomainIds -> Seq(CertRow)]
    BY <1>5, <2>2 DEF SaveCert, TypeOK
  <2>4. TypeOK'
    BY <1>5, <2>3 DEF SaveCert, Decide, TypeOK
  <2>5. Shape'
    BY <1>5 DEF SaveCert, Decide, TypeOK, Shape, RowsKnown
  <2>. QED
    BY <2>4, <2>5
<1>6. CASE PushSecret(r)
  <2>1. cert[r] \in CertRow /\ snap[r] \in DomainRow
    BY <1>6 DEF PushSecret, TypeOK, Shape
  <2>2. snap[r].secret \in Secrets
    BY <2>1 DEF DomainRow
  <2>3. cluster' \in [Secrets -> CertRow \cup {None}]
    BY <1>6, <2>1, <2>2 DEF PushSecret, Upsert, TypeOK
  <2>4. writes' \in [Secrets -> Seq(Runs)]
    <3>1. writes[snap[r].secret] \in Seq(Runs)
      BY <2>2 DEF TypeOK
    <3>2. Append(writes[snap[r].secret], r) \in Seq(Runs)
      BY <3>1
    <3>. QED
      BY <1>6, <2>2, <3>2 DEF PushSecret, Upsert, TypeOK
  <2>5. TypeOK'
    BY <1>6, <2>3, <2>4 DEF PushSecret, Decide, TypeOK
  <2>6. Shape'
    BY <1>6 DEF PushSecret, Decide, TypeOK, Shape, RowsKnown
  <2>. QED
    BY <2>5, <2>6
<1>7. CASE FinishJob(r)
  <2>1. TypeOK'
    BY <1>7 DEF FinishJob, TypeOK, Shape, JobStatuses
  <2>2. Shape'
    BY <1>7 DEF FinishJob, TypeOK, Shape, RowsKnown
  <2>. QED
    BY <2>1, <2>2
<1>8. CASE WriteStatus(r)
  <2>1. dom[r] \in DomainIds /\ snap[r] \in DomainRow
    BY <1>8 DEF WriteStatus, TypeOK, Shape
  <2>2. StatusRow(r) \in DomainRow
    BY <2>1 DEF StatusRow, DomainRow, Statuses
  <2>3. TypeOK'
    <3>1. domains' \in [DomainIds -> DomainRow \cup {None}]
      BY <1>8, <2>1, <2>2 DEF WriteStatus, RowUpdated, TypeOK
    <3>2. pc' \in [Runs -> Pipeline \cup {"idle", "done", "killed"}]
      BY <1>8 DEF WriteStatus, TypeOK
    <3>. QED
      BY <1>8, <3>1, <3>2 DEF WriteStatus, TypeOK
  <2>4. Shape'
    BY <1>8, <2>1, <2>2 DEF WriteStatus, RowUpdated, TypeOK, Shape, RowsKnown
  <2>. QED
    BY <2>3, <2>4
<1>. QED
  BY <1>0, <1>1, <1>2, <1>3, <1>4, <1>5, <1>6, <1>7, <1>8 DEF Step
LEMMA TypingDomain ==
  ASSUME Typing, NEW d \in DomainIds,
         \/ \E n \in Names, s \in Secrets : CreateDomain(d, n, s)
         \/ DeleteDomain(d)
  PROVE  Typing'
<1>. USE NoneAssumption DEF Typing, tables, outside, locals
<1>1. CASE \E n \in Names, s \in Secrets : CreateDomain(d, n, s)
  <2>1. PICK n \in Names, s \in Secrets : CreateDomain(d, n, s)
    BY <1>1
  <2>2. [name |-> n, secret |-> s, status |-> "pending"] \in DomainRow
    BY DEF DomainRow, Statuses
  <2>3. TypeOK'
    BY <2>1, <2>2 DEF CreateDomain, TypeOK
  <2>4. Shape'
    BY <2>1, <2>2 DEF CreateDomain, TypeOK, Shape, RowsKnown
  <2>. QED
    BY <2>3, <2>4
<1>2. CASE DeleteDomain(d)
  <2>1. <<>> \in Seq(CertRow)
    OBVIOUS
  <2>2. TypeOK'
    BY <1>2, <2>1 DEF DeleteDomain, TypeOK
  <2>3. Shape'
    BY <1>2 DEF DeleteDomain, TypeOK, Shape, RowsKnown
  <2>. QED
    BY <2>2, <2>3
<1>. QED
  BY <1>1, <1>2

LEMMA TypingEdit ==
  ASSUME Typing, NEW e \in Edits,
         \/ \E d \in DomainIds, n \in Names, s \in Secrets : EditRead(e, d, n, s)
         \/ EditCheck(e)
         \/ EditWrite(e)
  PROVE  Typing'
<1>. USE NoneAssumption DEF Typing, tables, outside, locals
<1>1. CASE \E d \in DomainIds, n \in Names, s \in Secrets : EditRead(e, d, n, s)
  <2>1. PICK d \in DomainIds, n \in Names, s \in Secrets : EditRead(e, d, n, s)
    BY <1>1
  <2>2. domains[d] \in DomainRow
    BY <2>1 DEF EditRead, TypeOK
  <2>3. [name |-> n, secret |-> s, status |-> domains[d].status] \in DomainRow
    BY <2>2 DEF DomainRow
  <2>4. edit'[e] \in EditState /\ edit'[e].dom # None /\ edit'[e].row # None
    BY <2>1, <2>3 DEF EditRead, TypeOK, EditState
  <2>5. TypeOK'
    BY <2>1, <2>4 DEF EditRead, TypeOK
  <2>6. Shape'
    BY <2>1, <2>4 DEF EditRead, TypeOK, Shape, RowsKnown
  <2>. QED
    BY <2>5, <2>6
<1>2. CASE EditCheck(e)
  <2>1. /\ edit[e] \in EditState /\ edit[e].dom # None /\ edit[e].row # None
        /\ edit' = [edit EXCEPT ![e].pc = edit'[e].pc]
        /\ edit'[e].pc \in {"write", "rejected"}
    BY <1>2 DEF EditCheck, TypeOK, Shape
  <2>2. TypeOK'
    BY <1>2, <2>1 DEF EditCheck, TypeOK, EditState
  <2>3. Shape'
    BY <1>2, <2>1 DEF EditCheck, TypeOK, Shape, RowsKnown, EditState
  <2>. QED
    BY <2>2, <2>3
<1>3. CASE EditWrite(e)
  <2>1. /\ edit[e] \in EditState
        /\ edit[e].dom \in DomainIds /\ edit[e].row \in DomainRow
    BY <1>3 DEF EditWrite, TypeOK, Shape, EditState
  <2>2. /\ domains' \in [DomainIds -> DomainRow \cup {None}]
        /\ edit' \in [Edits -> EditState]
    <3>1. domains' \in [DomainIds -> DomainRow \cup {None}]
      BY <1>3, <2>1 DEF EditWrite, TypeOK
    <3>2. /\ [edit[e] EXCEPT !.pc = "ok"] \in EditState
          /\ [edit[e] EXCEPT !.pc = "rejected"] \in EditState
      BY <2>1 DEF EditState
    <3>3. \/ edit' = [edit EXCEPT ![e] = [edit[e] EXCEPT !.pc = "ok"]]
          \/ edit' = [edit EXCEPT ![e] = [edit[e] EXCEPT !.pc = "rejected"]]
      BY <1>3 DEF EditWrite
    <3>4. edit \in [Edits -> EditState]
      BY DEF TypeOK
    <3>. QED
      BY ONLY <3>1, <3>2, <3>3, <3>4
  <2>3. TypeOK'
    BY <1>3, <2>2 DEF EditWrite, TypeOK
  <2>4. Shape'
    <3>1. /\ \A other \in Edits \ {e} : edit'[other] = edit[other]
          /\ edit'[e].pc \in {"ok", "rejected"}
          /\ UNCHANGED <<known, certs, jobs, pc, locals>>
      BY <1>3, <2>1 DEF EditWrite, TypeOK, EditState
    <3>2. RowsKnown'
      BY <1>3, <2>1 DEF EditWrite, RowUpdated, TypeOK, Shape, RowsKnown
    <3>. QED
      BY <3>1, <3>2 DEF Shape
  <2>. QED
    BY <2>3, <2>4
<1>. QED
  BY <1>1, <1>2, <1>3

LEMMA TypingEnvironment ==
  ASSUME Typing, Crash \/ \E r \in Runs : Cancel(r)
  PROVE  Typing'
<1>. USE NoneAssumption DEF Typing, tables, outside, locals, InFlight, Pipeline
<1>1. CASE Crash
  <2>1. \A e \in Edits :
           /\ edit'[e] \in EditState
           /\ edit'[e].pc \in {"check", "write"} => edit'[e] = edit[e]
    <3>. SUFFICES ASSUME NEW e \in Edits
                  PROVE  /\ edit'[e] \in EditState
                         /\ edit'[e].pc \in {"check", "write"} => edit'[e] = edit[e]
      OBVIOUS
    <3>1. edit[e] \in EditState
      BY DEF TypeOK
    <3>2. edit'[e] = IF edit[e].pc \in {"check", "write"}
                     THEN [edit[e] EXCEPT !.pc = "rejected"] ELSE edit[e]
      BY <1>1 DEF Crash
    <3>. QED
      BY ONLY <3>1, <3>2 DEF EditState
  <2>2. TypeOK'
    BY <1>1, <2>1 DEF Crash, TypeOK
  <2>3. Shape'
    BY <1>1, <2>1 DEF Crash, TypeOK, Shape, RowsKnown
  <2>. QED
    BY <2>2, <2>3
<1>2. CASE \E r \in Runs : Cancel(r)
  BY <1>2 DEF Cancel, TypeOK, Shape, RowsKnown
<1>. QED
  BY <1>1, <1>2

\* Types, and the locals that are set at each point of a run.
THEOREM TypingInvariant == Spec => []Typing
<1>1. Typing /\ [Next]_vars => Typing'
  <2>. SUFFICES ASSUME Typing, [Next]_vars PROVE Typing'
    OBVIOUS
  <2>1. CASE \E r \in Runs, d \in DomainIds :
                Issue(r, d) \/ Renew(r, d) \/ Schedule(r, d)
    BY <2>1, TypingStart DEF Issue, Renew, Schedule
  <2>2. CASE \E r \in Runs : Step(r)
    BY <2>2, TypingStep
  <2>3. CASE \/ \E d \in DomainIds, n \in Names, s \in Secrets : CreateDomain(d, n, s)
             \/ \E d \in DomainIds : DeleteDomain(d)
    BY <2>3, TypingDomain
  <2>4. CASE \/ \E e \in Edits, d \in DomainIds, n \in Names, s \in Secrets : EditRead(e, d, n, s)
             \/ \E e \in Edits : EditCheck(e) \/ EditWrite(e)
    BY <2>4, TypingEdit
  <2>5. CASE Crash \/ \E r \in Runs : Cancel(r)
    BY <2>5, TypingEnvironment
  <2>6. CASE UNCHANGED vars
    BY <2>6 DEF vars, Typing, TypeOK, Shape, RowsKnown, InFlight
  <2>. QED
    BY <2>1, <2>2, <2>3, <2>4, <2>5, <2>6 DEF Next
<1>. QED
  BY <1>1, TypingInit, PTL DEF Spec

\* Every variable keeps its type, for any number of runs, edits and domains.
THEOREM TypeCorrect == Spec => []TypeOK
BY TypingInvariant, PTL DEF Typing
-----------------------------------------------------------------------------
\* Layer 2: the rows of the tables and the control states of the runs.
Records == NoOrphans /\ RowsOwned /\ JobsFollow /\ StuckOnlyIfInterrupted

Late == {"push", "finish", "status", "done", "killed"}

LEMMA RowsTyped ==
  ASSUME Typing, NEW d \in DomainIds, NEW i \in DOMAIN certs[d]
  PROVE  certs[d][i] \in CertRow /\ certs[d][i].run \in Runs
<1>1. certs[d] \in Seq(CertRow)
  BY DEF Typing, TypeOK
<1>2. certs[d][i] \in CertRow
  BY <1>1
<1>. QED
  BY <1>2 DEF CertRow

\* A step that neither inserts nor deletes certificates, and leaves alone the
\* cert of the runs that have stored theirs, keeps the rows owned.
LEMMA RowsFrame ==
  ASSUME Typing, RowsOwned, certs' = certs, dom' = dom,
         \A q \in Runs : pc[q] \in Late => cert'[q] = cert[q] /\ pc'[q] \in Late
  PROVE  RowsOwned'
<1>. SUFFICES ASSUME NEW d \in DomainIds, NEW i \in DOMAIN certs[d]
              PROVE  LET q == certs[d][i].run
                     IN dom[q] = d /\ cert'[q] = certs[d][i] /\ pc'[q] \in Late
  BY DEF RowsOwned, Late
<1>. QED
  BY RowsTyped DEF RowsOwned, Late

\* The run that inserted a row still holds it, and is past SaveCert.
LEMMA OwnerIsLate ==
  ASSUME Typing, RowsOwned, NEW d \in DomainIds, NEW i \in DOMAIN certs[d]
  PROVE  LET q == certs[d][i].run
         IN q \in Runs /\ dom[q] = d /\ cert[q] = certs[d][i] /\ pc[q] \in Late
BY RowsTyped DEF RowsOwned, Late

LEMMA RecordsInit == Init => Records
BY DEF Init, Records, NoOrphans, RowsOwned, JobsFollow, StuckOnlyIfInterrupted, Deleted

LEMMA RecordsStart ==
  ASSUME Typing, Records, NEW r \in Runs, NEW d \in DomainIds, NEW o \in {"none", "issue", "renew"},
         NEW label \in {"choose", "get"}, Start(r, d, o, label)
  PROVE  Records'
<1>. USE NoneAssumption DEF Typing, TypeOK, Records, Start, Goto, tables, outside, Deleted
<1>1. NoOrphans'
  BY DEF NoOrphans, JobsFollow
<1>2. RowsOwned'
  <2>. SUFFICES ASSUME NEW i \in DomainIds, NEW j \in DOMAIN certs[i]
                PROVE  LET q == certs[i][j].run
                       IN dom'[q] = i /\ cert[q] = certs[i][j] /\ pc'[q] \in Late
    BY DEF RowsOwned, Late
  <2>1. pc[r] = "idle" /\ \A q \in Runs \ {r} : pc'[q] = pc[q] /\ dom'[q] = dom[q]
    OBVIOUS
  <2>2. LET q == certs[i][j].run
        IN q \in Runs /\ dom[q] = i /\ cert[q] = certs[i][j] /\ pc[q] \in Late
    BY OwnerIsLate DEF Records
  <2>. QED
    BY ONLY <2>1, <2>2 DEF Late
<1>3. JobsFollow'
  BY DEF JobsFollow
<1>4. StuckOnlyIfInterrupted'
  BY DEF StuckOnlyIfInterrupted
<1>. QED
  BY <1>1, <1>2, <1>3, <1>4

LEMMA RecordsStep ==
  ASSUME Typing, Records, NEW r \in Runs, Step(r)
  PROVE  Records'
<1>. USE NoneAssumption
     DEF Typing, TypeOK, Shape, Records, Goto, tables, outside, locals, Deleted, MayFail, Decide
<1>0. CASE EnsureCertificate(r)
  <2>1. NoOrphans'
    BY <1>0 DEF EnsureCertificate, NoOrphans
  <2>2. RowsOwned'
    BY <1>0, RowsFrame DEF EnsureCertificate, Late
  <2>3. JobsFollow'
    BY <1>0 DEF EnsureCertificate, JobsFollow
  <2>4. StuckOnlyIfInterrupted'
    BY <1>0 DEF EnsureCertificate, StuckOnlyIfInterrupted, JobsFollow
  <2>. QED
    BY <2>1, <2>2, <2>3, <2>4
<1>1. CASE GetDomain(r)
  <2>1. NoOrphans'
    BY <1>1 DEF GetDomain, NoOrphans
  <2>2. RowsOwned'
    BY <1>1, RowsFrame DEF GetDomain, Late
  <2>3. JobsFollow'
    BY <1>1 DEF GetDomain, JobsFollow
  <2>4. StuckOnlyIfInterrupted'
    BY <1>1 DEF GetDomain, StuckOnlyIfInterrupted, JobsFollow
  <2>. QED
    BY <2>1, <2>2, <2>3, <2>4
<1>2. CASE CreateJob(r)
  <2>1. NoOrphans'
    BY <1>2 DEF CreateJob, ForeignKeyHolds, NoOrphans
  <2>2. RowsOwned'
    BY <1>2, RowsFrame DEF CreateJob, Late
  <2>3. JobsFollow'
    BY <1>2 DEF CreateJob, ForeignKeyHolds, JobsFollow
  <2>4. StuckOnlyIfInterrupted'
    BY <1>2 DEF CreateJob, ForeignKeyHolds, StuckOnlyIfInterrupted, JobsFollow
  <2>. QED
    BY <2>1, <2>2, <2>3, <2>4
<1>3. CASE CallCertbot(r)
  <2>1. NoOrphans'
    BY <1>3 DEF CallCertbot, NoOrphans
  <2>2. RowsOwned'
    BY <1>3, RowsFrame DEF CallCertbot, Late
  <2>3. JobsFollow'
    BY <1>3 DEF CallCertbot, JobsFollow
  <2>4. StuckOnlyIfInterrupted'
    BY <1>3 DEF CallCertbot, StuckOnlyIfInterrupted
  <2>. QED
    BY <2>1, <2>2, <2>3, <2>4
<1>4. CASE LoadResult(r)
  <2>1. NoOrphans'
    BY <1>4 DEF LoadResult, NoOrphans
  <2>2. RowsOwned'
    BY <1>4, RowsFrame DEF LoadResult, Late
  <2>3. JobsFollow'
    BY <1>4 DEF LoadResult, JobsFollow
  <2>4. StuckOnlyIfInterrupted'
    BY <1>4 DEF LoadResult, StuckOnlyIfInterrupted
  <2>. QED
    BY <2>1, <2>2, <2>3, <2>4
<1>5. CASE SaveCert(r)
  <2>1. NoOrphans'
    BY <1>5 DEF SaveCert, ForeignKeyHolds, NoOrphans
  <2>2. RowsOwned'
    <3>1. CASE certs' = certs
      BY <1>5, <3>1, RowsFrame DEF SaveCert, Late
    <3>2. CASE certs' = [certs EXCEPT ![dom[r]] = Append(@, cert[r])]
      <4>1. /\ dom[r] \in DomainIds /\ certs[dom[r]] \in Seq(CertRow)
            /\ cert[r] \in CertRow /\ cert[r].run = r
        BY <1>5 DEF SaveCert
      <4>. SUFFICES ASSUME NEW d \in DomainIds, NEW i \in DOMAIN certs'[d]
                    PROVE  LET q == certs'[d][i].run
                           IN dom[q] = d /\ cert[q] = certs'[d][i] /\ pc'[q] \in Late
        BY <1>5 DEF SaveCert, RowsOwned, Late
      <4>2. \A q \in Runs : pc[q] \in Late => pc'[q] \in Late
        BY <1>5 DEF SaveCert, Late
      <4>3. pc'[r] \in Late
        BY <1>5 DEF SaveCert, Late
      <4>4. CASE d = dom[r] /\ i = Len(certs[d]) + 1
        BY <3>2, <4>1, <4>3, <4>4
      <4>5. CASE d # dom[r] \/ i # Len(certs[d]) + 1
        <5>1. i \in DOMAIN certs[d] /\ certs'[d][i] = certs[d][i]
          BY <3>2, <4>1, <4>5
        <5>. QED
          BY <5>1, <4>2, RowsTyped DEF RowsOwned, Late
      <4>. QED
        BY <4>4, <4>5
    <3>. QED
      BY <1>5, <3>1, <3>2 DEF SaveCert
  <2>3. JobsFollow'
    BY <1>5 DEF SaveCert, JobsFollow
  <2>4. StuckOnlyIfInterrupted'
    BY SMTT(20), <1>5 DEF SaveCert, StuckOnlyIfInterrupted
  <2>. QED
    BY <2>1, <2>2, <2>3, <2>4
<1>6. CASE PushSecret(r)
  <2>1. NoOrphans'
    BY <1>6 DEF PushSecret, NoOrphans
  <2>2. RowsOwned'
    BY <1>6, RowsFrame DEF PushSecret, Late
  <2>3. JobsFollow'
    BY <1>6 DEF PushSecret, JobsFollow
  <2>4. StuckOnlyIfInterrupted'
    <3>1. /\ pc' = [pc EXCEPT ![r] = "finish"]
          /\ \A q \in Runs \ {r} : outcome'[q] = outcome[q]
          /\ UNCHANGED <<domains, jobs, dom, cancelled>>
      BY <1>6 DEF PushSecret
    <3>. QED
      BY <3>1 DEF StuckOnlyIfInterrupted
  <2>. QED
    BY <2>1, <2>2, <2>3, <2>4
<1>7. CASE FinishJob(r)
  <2>1. NoOrphans'
    BY <1>7 DEF FinishJob, NoOrphans
  <2>2. RowsOwned'
    BY <1>7, RowsFrame DEF FinishJob, Late
  <2>3. JobsFollow'
    BY <1>7 DEF FinishJob, JobsFollow
  <2>4. StuckOnlyIfInterrupted'
    BY <1>7 DEF FinishJob, StuckOnlyIfInterrupted
  <2>. QED
    BY <2>1, <2>2, <2>3, <2>4
<1>8. CASE WriteStatus(r)
  <2>1. StatusRow(r) \in DomainRow
    <3>1. snap[r] \in DomainRow
      BY <1>8 DEF WriteStatus
    <3>. QED
      BY <3>1 DEF StatusRow, DomainRow, Statuses
  <2>2. \A d \in DomainIds : domains'[d] = None <=> domains[d] = None
    BY <1>8, <2>1 DEF WriteStatus, RowUpdated
  <2>3. NoOrphans'
    BY <1>8, <2>2 DEF WriteStatus, NoOrphans
  <2>4. RowsOwned'
    BY <1>8, RowsFrame DEF WriteStatus, Late
  <2>5. JobsFollow'
    BY <1>8, <2>2 DEF WriteStatus, JobsFollow
  <2>6. StuckOnlyIfInterrupted'
    BY <1>8, <2>2 DEF WriteStatus, StuckOnlyIfInterrupted, JobsFollow
  <2>. QED
    BY <2>3, <2>4, <2>5, <2>6
<1>. QED
  BY <1>0, <1>1, <1>2, <1>3, <1>4, <1>5, <1>6, <1>7, <1>8 DEF Step
LEMMA RecordsDomain ==
  ASSUME Typing, Records, NEW d \in DomainIds,
         \/ \E n \in Names, s \in Secrets : CreateDomain(d, n, s)
         \/ DeleteDomain(d)
  PROVE  Records'
<1>. USE NoneAssumption
     DEF Typing, TypeOK, Shape, RowsKnown, Records, tables, outside, locals, Deleted
<1>1. CASE \E n \in Names, s \in Secrets : CreateDomain(d, n, s)
  <2>1. /\ d \notin known
        /\ \A other \in DomainIds \ {d} : domains'[other] = domains[other]
        /\ UNCHANGED <<certs, jobs, pc, locals, cancelled>>
    BY <1>1 DEF CreateDomain
  <2>2. \A r \in Runs : dom[r] # d
    BY <2>1
  <2>3. certs[d] = <<>>
    BY <2>1 DEF NoOrphans
  <2>4. NoOrphans'
    BY <2>1, <2>2, <2>3 DEF NoOrphans
  <2>5. RowsOwned'
    BY <2>1, RowsFrame
  <2>6. JobsFollow'
    BY <2>1, <2>2 DEF JobsFollow
  <2>7. StuckOnlyIfInterrupted'
    BY <2>1, <2>2 DEF StuckOnlyIfInterrupted
  <2>. QED
    BY <2>4, <2>5, <2>6, <2>7
<1>2. CASE DeleteDomain(d)
  <2>1. NoOrphans'
    BY <1>2 DEF DeleteDomain, NoOrphans
  <2>2. RowsOwned'
    BY <1>2 DEF DeleteDomain, RowsOwned
  <2>3. JobsFollow'
    BY <1>2 DEF DeleteDomain, JobsFollow
  <2>4. StuckOnlyIfInterrupted'
    BY <1>2 DEF DeleteDomain, StuckOnlyIfInterrupted
  <2>. QED
    BY <2>1, <2>2, <2>3, <2>4
<1>. QED
  BY <1>1, <1>2

\* A PUT changes a row that is there, and no control state.
LEMMA RecordsEdit ==
  ASSUME Typing, Records, NEW e \in Edits,
         \/ \E d \in DomainIds, n \in Names, s \in Secrets : EditRead(e, d, n, s)
         \/ EditCheck(e)
         \/ EditWrite(e)
  PROVE  Records'
<1>1. /\ \A d \in DomainIds : domains'[d] = None <=> domains[d] = None
      /\ UNCHANGED <<certs, jobs, pc, locals, cancelled>>
  <2>1. CASE \/ \E d \in DomainIds, n \in Names, s \in Secrets : EditRead(e, d, n, s)
             \/ EditCheck(e)
    BY <2>1 DEF EditRead, EditCheck, tables, locals
  <2>2. CASE EditWrite(e)
    <3>1. edit[e].row # None
      BY <2>2 DEF EditWrite, Typing, Shape
    <3>. QED
      BY <2>2, <3>1 DEF EditWrite, RowUpdated, Typing, TypeOK
  <2>. QED
    BY <2>1, <2>2
<1>. USE <1>1 DEF locals, Deleted, Typing, TypeOK, Records
<1>2. NoOrphans'
  BY DEF NoOrphans
<1>3. RowsOwned'
  BY RowsFrame
<1>4. JobsFollow'
  BY NoneAssumption DEF JobsFollow
<1>5. StuckOnlyIfInterrupted'
  BY NoneAssumption DEF StuckOnlyIfInterrupted
<1>. QED
  BY <1>2, <1>3, <1>4, <1>5

LEMMA RecordsEnvironment ==
  ASSUME Typing, Records, Crash \/ \E r \in Runs : Cancel(r)
  PROVE  Records'
<1>. USE DEF Typing, TypeOK, Records, tables, outside, locals, InFlight, Pipeline, Deleted
<1>1. CASE Crash
  <2>1. NoOrphans'
    BY <1>1 DEF Crash, NoOrphans
  <2>2. RowsOwned'
    BY <1>1, RowsFrame DEF Crash, Late
  <2>3. JobsFollow'
    BY <1>1 DEF Crash, JobsFollow
  <2>4. StuckOnlyIfInterrupted'
    BY <1>1 DEF Crash, StuckOnlyIfInterrupted
  <2>. QED
    BY <2>1, <2>2, <2>3, <2>4
<1>2. CASE \E r \in Runs : Cancel(r)
  <2>1. NoOrphans' /\ RowsOwned'
    BY <1>2, RowsFrame DEF Cancel, NoOrphans
  <2>2. JobsFollow'
    BY <1>2 DEF Cancel, JobsFollow
  <2>3. StuckOnlyIfInterrupted'
    BY <1>2 DEF Cancel, StuckOnlyIfInterrupted
  <2>. QED
    BY <2>1, <2>2, <2>3
<1>. QED
  BY <1>1, <1>2
LEMMA RecordsNext ==
  ASSUME Typing, Records, [Next]_vars
  PROVE  Records'
<1>1. CASE \E r \in Runs, d \in DomainIds :
              Issue(r, d) \/ Renew(r, d) \/ Schedule(r, d)
  BY <1>1, RecordsStart DEF Issue, Renew, Schedule
<1>2. CASE \E r \in Runs : Step(r)
  BY <1>2, RecordsStep
<1>3. CASE \/ \E d \in DomainIds, n \in Names, s \in Secrets : CreateDomain(d, n, s)
           \/ \E d \in DomainIds : DeleteDomain(d)
  BY <1>3, RecordsDomain
<1>4. CASE \/ \E e \in Edits, d \in DomainIds, n \in Names, s \in Secrets : EditRead(e, d, n, s)
           \/ \E e \in Edits : EditCheck(e) \/ EditWrite(e)
  BY <1>4, RecordsEdit
<1>5. CASE Crash \/ \E r \in Runs : Cancel(r)
  BY <1>5, RecordsEnvironment
<1>6. CASE UNCHANGED vars
  BY <1>6 DEF vars, Records, NoOrphans, RowsOwned, JobsFollow, StuckOnlyIfInterrupted, Deleted
<1>. QED
  BY <1>1, <1>2, <1>3, <1>4, <1>5, <1>6 DEF Next

\* The rows of the tables follow the control states of the runs.
THEOREM RecordsInvariant == Spec => []Records
<1>1. Typing /\ Records /\ [Next]_vars => Records'
  BY RecordsNext
<1>. QED
  BY <1>1, RecordsInit, TypingInvariant, PTL DEF Spec

\* A deleted domain leaves no certificate and no job, whichever runs for it are
\* still under way.
THEOREM NoOrphansEver == Spec => []NoOrphans
BY RecordsInvariant, PTL DEF Records

\* Only a cancelled context, a crash or a failing statement leaves a job that
\* does not say what its run found.
THEOREM StuckOnlyIfInterruptedEver == Spec => []StuckOnlyIfInterrupted
BY RecordsInvariant, PTL DEF Records
-----------------------------------------------------------------------------
\* Layer 3: what a run can show for the success it reports.
Evidence == SuccessEarned /\ SecretsOwned

LEMMA DeletedStays ==
  ASSUME Typing, [Next]_vars, NEW d \in known, domains[d] = None
  PROVE  domains'[d] = None
<1>. USE DEF Typing, TypeOK, Shape, tables, outside, locals
<1>1. CASE \E r \in Runs, i \in DomainIds : Issue(r, i) \/ Renew(r, i) \/ Schedule(r, i)
  BY <1>1 DEF Issue, Renew, Schedule, Start
<1>2. CASE \E r \in Runs : Step(r)
  BY <1>2
  DEF Step, EnsureCertificate, GetDomain, CreateJob, CallCertbot, LoadResult, SaveCert, PushSecret, FinishJob,
      WriteStatus, RowUpdated
<1>3. CASE \/ \E i \in DomainIds, n \in Names, s \in Secrets : CreateDomain(i, n, s)
           \/ \E i \in DomainIds : DeleteDomain(i)
  BY <1>3 DEF CreateDomain, DeleteDomain
<1>4. CASE \/ \E e \in Edits, i \in DomainIds, n \in Names, s \in Secrets : EditRead(e, i, n, s)
           \/ \E e \in Edits : EditCheck(e) \/ EditWrite(e)
  BY <1>4 DEF EditRead, EditCheck, EditWrite, RowUpdated
<1>5. CASE Crash \/ \E r \in Runs : Cancel(r)
  BY <1>5 DEF Crash, Cancel
<1>6. CASE UNCHANGED vars
  BY <1>6 DEF vars
<1>. QED
  BY <1>1, <1>2, <1>3, <1>4, <1>5, <1>6 DEF Next

\* A deleted domain never comes back, whoever writes its row back.
THEOREM DeletedForeverHolds == Spec => DeletedForever
<1>1. Typing /\ [Next]_vars => [\A d \in known : domains[d] = None => domains'[d] = None]_vars
  BY DeletedStays
<1>. QED
  BY <1>1, TypingInvariant, PTL DEF Spec, DeletedForever

\* A run's locals are assigned once, at the step that computes them.
LEMMA LocalsStay ==
  ASSUME Typing, [Next]_vars, NEW q \in Runs
  PROVE  /\ pc[q] # "idle" => dom'[q] = dom[q]
         /\ pc[q] # "get" => snap'[q] = snap[q]
         /\ pc[q] # "load" => cert'[q] = cert[q]
         /\ outcome[q] # "none" => outcome'[q] = outcome[q]
<1>. USE DEF Typing, TypeOK, Goto, Decide, locals
<1>0. outcome[q] # "none" => pc[q] \notin {"issue", "load", "save", "push"}
  BY DEF Shape
<1>1. CASE \E r \in Runs, i \in DomainIds : Issue(r, i) \/ Renew(r, i) \/ Schedule(r, i)
  BY <1>1 DEF Issue, Renew, Schedule, Start
<1>2. CASE \E r \in Runs : Step(r)
  <2>1. PICK r \in Runs : Step(r)
    BY <1>2
  <2>2. CASE CallCertbot(r) \/ LoadResult(r) \/ SaveCert(r) \/ PushSecret(r)
    BY <1>0, <2>2 DEF CallCertbot, LoadResult, SaveCert, PushSecret
  <2>3. CASE EnsureCertificate(r) \/ GetDomain(r) \/ CreateJob(r) \/ FinishJob(r) \/ WriteStatus(r)
    BY <2>3 DEF EnsureCertificate, GetDomain, CreateJob, FinishJob, WriteStatus
  <2>. QED
    BY <2>1, <2>2, <2>3 DEF Step
<1>3. CASE \/ \E i \in DomainIds, n \in Names, s \in Secrets : CreateDomain(i, n, s)
           \/ \E i \in DomainIds : DeleteDomain(i)
  BY <1>3 DEF CreateDomain, DeleteDomain
<1>4. CASE \/ \E e \in Edits, i \in DomainIds, n \in Names, s \in Secrets : EditRead(e, i, n, s)
           \/ \E e \in Edits : EditCheck(e) \/ EditWrite(e)
  BY <1>4 DEF EditRead, EditCheck, EditWrite
<1>5. CASE Crash \/ \E r \in Runs : Cancel(r)
  BY <1>5 DEF Crash, Cancel
<1>6. CASE UNCHANGED vars
  BY <1>6 DEF vars
<1>. QED
  BY <1>1, <1>2, <1>3, <1>4, <1>5, <1>6 DEF Next

LEMMA AppendKeeps ==
  ASSUME NEW S, NEW s \in Seq(S), NEW x \in S
  PROVE  ToSet(Append(s, x)) = ToSet(s) \cup {x} /\ Last(Append(s, x)) = x
<1>1. /\ Append(s, x) \in Seq(S)
      /\ Len(Append(s, x)) = Len(s) + 1
      /\ \A i \in 1 .. Len(s) : Append(s, x)[i] = s[i]
      /\ Append(s, x)[Len(s) + 1] = x
  OBVIOUS
<1>2. DOMAIN Append(s, x) = DOMAIN s \cup {Len(s) + 1}
  BY <1>1
<1>. QED
  BY <1>1, <1>2 DEF ToSet, Last

\* A history only grows, until its domain is deleted.
LEMMA HistoryGrows ==
  ASSUME Typing, [Next]_vars, NEW d \in DomainIds
  PROVE  domains'[d] = None \/ ToSet(certs[d]) \subseteq ToSet(certs'[d])
<1>. USE DEF Typing, TypeOK, Shape, tables, outside, locals
<1>1. CASE \E r \in Runs, i \in DomainIds : Issue(r, i) \/ Renew(r, i) \/ Schedule(r, i)
  BY <1>1 DEF Issue, Renew, Schedule, Start
<1>2. CASE \E r \in Runs : Step(r)
  <2>1. PICK r \in Runs : Step(r)
    BY <1>2
  <2>2. CASE SaveCert(r)
    <3>1. dom[r] \in DomainIds /\ certs[dom[r]] \in Seq(CertRow) /\ cert[r] \in CertRow
      BY <2>2 DEF SaveCert
    <3>2. ToSet(certs[dom[r]]) \subseteq ToSet(Append(certs[dom[r]], cert[r]))
      BY <3>1, AppendKeeps
    <3>. QED
      <4>1. \/ certs' = certs
            \/ certs' = [certs EXCEPT ![dom[r]] = Append(certs[dom[r]], cert[r])]
        BY <2>2 DEF SaveCert
      <4>2. certs \in [DomainIds -> Seq(CertRow)]
        OBVIOUS
      <4>3. \A i \in DomainIds : certs'[i] = certs[i] \/ (i = dom[r] /\ certs'[i] = Append(certs[dom[r]], cert[r]))
        BY ONLY <4>1, <4>2
      <4>. QED
        BY ONLY <3>2, <4>3, d \in DomainIds
  <2>3. CASE ~SaveCert(r)
    BY <2>1, <2>3
    DEF Step, EnsureCertificate, GetDomain, CreateJob, CallCertbot, LoadResult, PushSecret, FinishJob, WriteStatus
  <2>. QED
    BY <2>2, <2>3
<1>3. CASE \/ \E i \in DomainIds, n \in Names, s \in Secrets : CreateDomain(i, n, s)
           \/ \E i \in DomainIds : DeleteDomain(i)
  BY <1>3 DEF CreateDomain, DeleteDomain
<1>4. CASE \/ \E e \in Edits, i \in DomainIds, n \in Names, s \in Secrets : EditRead(e, i, n, s)
           \/ \E e \in Edits : EditCheck(e) \/ EditWrite(e)
  BY <1>4 DEF EditRead, EditCheck, EditWrite
<1>5. CASE Crash \/ \E r \in Runs : Cancel(r)
  BY <1>5 DEF Crash, Cancel
<1>6. CASE UNCHANGED vars
  BY <1>6 DEF vars
<1>. QED
  BY <1>1, <1>2, <1>3, <1>4, <1>5, <1>6 DEF Next

\* What is stored stays stored, or its domain goes.
LEMMA StoredStays ==
  ASSUME Typing, [Next]_vars, NEW q \in Runs, pc[q] \notin {"idle", "load"},
         Stored(q) \/ Deleted(q)
  PROVE  Stored(q)' \/ Deleted(q)'
<1>1. dom[q] \in known /\ dom[q] \in DomainIds /\ dom[q] # None
  BY NoneAssumption DEF Typing, TypeOK, Shape
<1>2. dom'[q] = dom[q] /\ cert'[q] = cert[q]
  BY LocalsStay
<1>3. CASE Deleted(q)
  BY <1>1, <1>2, <1>3, DeletedStays DEF Deleted
<1>4. CASE Stored(q)
  BY <1>1, <1>2, <1>4, HistoryGrows DEF Stored, Deleted
<1>. QED
  BY <1>3, <1>4
\* The steps that decide an outcome, write a Secret or come to the push.
LEMMA EvidenceFrame ==
  ASSUME Typing, [Next]_vars, ~ \E r \in Runs : CallCertbot(r) \/ LoadResult(r) \/ SaveCert(r) \/ PushSecret(r)
  PROVE  /\ UNCHANGED <<outcome, cluster, writes>>
         /\ \A q \in Runs : pc'[q] = "push" => pc[q] = "push"
         /\ \A q \in Runs : pc[q] \in {"finish", "status", "done", "killed"} =>
                           pc'[q] \in {"finish", "status", "done", "killed"}
<1>. USE DEF Typing, TypeOK, Goto, tables, outside, locals
<1>1. CASE \E r \in Runs, i \in DomainIds : Issue(r, i) \/ Renew(r, i) \/ Schedule(r, i)
  BY <1>1 DEF Issue, Renew, Schedule, Start
<1>2. CASE \E r \in Runs : Step(r)
  BY <1>2 DEF Step, EnsureCertificate, GetDomain, CreateJob, FinishJob, WriteStatus
<1>3. CASE \/ \E i \in DomainIds, n \in Names, s \in Secrets : CreateDomain(i, n, s)
           \/ \E i \in DomainIds : DeleteDomain(i)
  BY <1>3 DEF CreateDomain, DeleteDomain
<1>4. CASE \/ \E e \in Edits, i \in DomainIds, n \in Names, s \in Secrets : EditRead(e, i, n, s)
           \/ \E e \in Edits : EditCheck(e) \/ EditWrite(e)
  BY <1>4 DEF EditRead, EditCheck, EditWrite
<1>5. CASE Crash \/ \E r \in Runs : Cancel(r)
  BY <1>5 DEF Crash, Cancel
<1>6. CASE UNCHANGED vars
  BY <1>6 DEF vars
<1>. QED
  BY <1>1, <1>2, <1>3, <1>4, <1>5, <1>6 DEF Next

\* A Secret that no step writes keeps what it owes to the run that wrote it.
LEMMA SecretStays ==
  ASSUME Typing, Evidence, [Next]_vars,
         NEW s \in Secrets, NEW q \in Runs, cluster[s] # None, q = cluster[s].run,
         pc[q] \in {"finish", "status", "done", "killed"} =>
            pc'[q] \in {"finish", "status", "done", "killed"}
  PROVE  /\ q = Last(writes[s])
         /\ cert'[q] = cluster[s]
         /\ snap'[q] # None /\ snap'[q].secret = s
         /\ Stored(q)' \/ Deleted(q)'
         /\ pc'[q] \in {"finish", "status", "done", "killed"}
<1>1. /\ q = Last(writes[s])
      /\ cert[q] = cluster[s]
      /\ snap[q] # None /\ snap[q].secret = s
      /\ Stored(q) \/ Deleted(q)
      /\ pc[q] \in {"finish", "status", "done", "killed"}
  BY DEF Evidence, SecretsOwned
<1>2. Stored(q)' \/ Deleted(q)'
  BY <1>1, StoredStays
<1>. QED
  BY <1>1, <1>2, LocalsStay

\* SecretsOwned', with the run that wrote a Secret given a name.
LEMMA SecretsOwnedNext ==
  ASSUME Typing',
         \A s \in Secrets : writes'[s] # <<>> => cluster'[s] # None,
         \A s \in Secrets, q \in Runs :
            cluster'[s] # None /\ q = cluster'[s].run =>
                /\ q = Last(writes'[s])
                /\ cert'[q] = cluster'[s]
                /\ snap'[q] # None /\ snap'[q].secret = s
                /\ Stored(q)' \/ Deleted(q)'
                /\ pc'[q] \in {"finish", "status", "done", "killed"}
  PROVE  SecretsOwned'
<1>1. \A s \in Secrets : cluster'[s] # None => cluster'[s].run \in Runs
  BY DEF Typing, TypeOK, CertRow
<1>. QED
  BY <1>1 DEF SecretsOwned, Stored, Deleted

LEMMA EvidenceNext ==
  ASSUME Typing, Typing', Records, Evidence, [Next]_vars
  PROVE  Evidence'
<1>1. CASE ~ \E r \in Runs : CallCertbot(r) \/ LoadResult(r) \/ SaveCert(r) \/ PushSecret(r)
  <2>1. SecretsOwned'
    <3>1. UNCHANGED <<cluster, writes>>
      BY <1>1, EvidenceFrame
    <3>2. \A s \in Secrets : writes'[s] # <<>> => cluster'[s] # None
      BY <3>1 DEF Evidence, SecretsOwned
    <3>. QED
      BY <1>1, <3>1, <3>2, EvidenceFrame, SecretStays, SecretsOwnedNext
  <2>2. ASSUME NEW q \in Runs, pc'[q] = "push"
        PROVE  Stored(q)' \/ Deleted(q)'
    BY <1>1, <2>2, EvidenceFrame, StoredStays DEF Evidence, SuccessEarned
  <2>3. ASSUME NEW q \in Runs, outcome'[q] = "success", q \notin Rehearsals
        PROVE  /\ Stored(q)' \/ Deleted(q)'
               /\ snap'[q] # None /\ q \in ToSet(writes'[snap'[q].secret])
    <3>1. outcome[q] = "success" /\ writes' = writes
      BY <1>1, <2>3, EvidenceFrame
    <3>2. pc[q] \notin {"idle", "get", "load"}
      BY <3>1 DEF Typing, Shape
    <3>. QED
      BY <2>3, <3>1, <3>2, StoredStays, LocalsStay DEF Evidence, SuccessEarned
  <2>. QED
    BY <2>1, <2>2, <2>3 DEF Evidence, SuccessEarned
<1>2. ASSUME NEW r \in Runs, CallCertbot(r) \/ LoadResult(r) \/ SaveCert(r) \/ PushSecret(r)
      PROVE  Evidence'
  <2>0. ASSUME NEW s \in Secrets, NEW q \in Runs, cluster[s] # None, q = cluster[s].run,
               pc[q] \in {"finish", "status", "done", "killed"} =>
                  pc'[q] \in {"finish", "status", "done", "killed"}
        PROVE  /\ q = Last(writes[s])
               /\ cert'[q] = cluster[s]
               /\ snap'[q] # None /\ snap'[q].secret = s
               /\ Stored(q)' \/ Deleted(q)'
               /\ pc'[q] \in {"finish", "status", "done", "killed"}
    BY <2>0, SecretStays
  <2>. USE DEF Typing, TypeOK, Goto, Decide, outside, tables, locals
  <2>1. /\ \A q \in Runs : pc[q] \in {"finish", "status", "done", "killed"} =>
                           pc'[q] \in {"finish", "status", "done", "killed"}
        /\ \A q \in Runs \ {r} : pc'[q] = pc[q] /\ outcome'[q] = outcome[q]
        /\ snap' = snap /\ dom' = dom
    BY <1>2 DEF CallCertbot, LoadResult, SaveCert, PushSecret
  <2>2. snap[r] \in DomainRow /\ snap[r].secret \in Secrets
    BY <1>2 DEF CallCertbot, LoadResult, SaveCert, PushSecret, Shape, Pipeline, DomainRow
  <2>3. \/ PushSecret(r) /\ Upsert(r)
        \/ UNCHANGED <<cluster, writes>> /\ (PushSecret(r) => outcome'[r] = "failed")
    BY <1>2 DEF CallCertbot, LoadResult, SaveCert, PushSecret
  <2>4. SecretsOwned'
    <3>1. CASE UNCHANGED <<cluster, writes>>
      <4>1. \A s \in Secrets : writes'[s] # <<>> => cluster'[s] # None
        BY <3>1 DEF Evidence, SecretsOwned
      <4>. QED
        BY <2>1, <3>1, <4>1, SecretStays, SecretsOwnedNext
    <3>2. CASE PushSecret(r) /\ Upsert(r)
      <4>1. pc[r] = "push" /\ pc'[r] = "finish" /\ cert' = cert /\ cert[r] \in CertRow /\ cert[r].run = r
        BY <3>2 DEF PushSecret, Shape
      <4>2. /\ cluster'[snap[r].secret] = cert[r]
            /\ Last(writes'[snap[r].secret]) = r
            /\ \A s \in Secrets \ {snap[r].secret} : cluster'[s] = cluster[s] /\ writes'[s] = writes[s]
        BY <2>2, <3>2, AppendKeeps DEF Upsert
      <4>3. Stored(r)' \/ Deleted(r)'
        BY <4>1, StoredStays DEF Evidence, SuccessEarned
      <4>4. \A s \in Secrets : writes'[s] # <<>> => cluster'[s] # None
        <5>1. \A s \in Secrets \ {snap[r].secret} : writes'[s] # <<>> => cluster'[s] # None
          BY <4>2 DEF Evidence, SecretsOwned
        <5>2. cluster'[snap[r].secret] # None
          BY <4>1, <4>2, NoneAssumption
        <5>. QED
          BY <5>1, <5>2
      <4>5. ASSUME NEW s \in Secrets, NEW q \in Runs,
                   cluster'[s] # None, q = cluster'[s].run
            PROVE  /\ q = Last(writes'[s])
                   /\ cert'[q] = cluster'[s]
                   /\ snap'[q] # None /\ snap'[q].secret = s
                   /\ Stored(q)' \/ Deleted(q)'
                   /\ pc'[q] \in {"finish", "status", "done", "killed"}
        <5>1. CASE s = snap[r].secret
          BY <2>1, <2>2, <4>1, <4>2, <4>3, <4>5, <5>1, NoneAssumption
        <5>2. CASE s # snap[r].secret
          <6>1. cluster'[s] = cluster[s] /\ writes'[s] = writes[s]
            BY <4>2, <5>2
          <6>2. cluster[s] # None /\ q = cluster[s].run
            BY <4>5, <6>1
          <6>3. /\ q = Last(writes[s])
                /\ cert'[q] = cluster[s]
                /\ snap'[q] # None /\ snap'[q].secret = s
                /\ Stored(q)' \/ Deleted(q)'
                /\ pc'[q] \in {"finish", "status", "done", "killed"}
            BY ONLY <2>0, <2>1, <6>2, s \in Secrets, q \in Runs DEF Stored, Deleted
          <6>. QED
            BY <6>1, <6>3
        <5>. QED
          BY <5>1, <5>2
      <4>. QED
        BY <4>4, <4>5, SecretsOwnedNext
    <3>. QED
      BY <2>3, <3>1, <3>2
  <2>5. ASSUME NEW q \in Runs, pc'[q] = "push"
        PROVE  Stored(q)' \/ Deleted(q)'
    <3>1. CASE pc[q] = "push"
      BY <3>1, StoredStays DEF Evidence, SuccessEarned
    <3>2. CASE pc[q] # "push"
      <4>1. q = r /\ SaveCert(r) /\ pc'[r] = "push"
        BY <1>2, <2>1, <2>5, <3>2 DEF CallCertbot, LoadResult, SaveCert, PushSecret
      <4>2. /\ dom[r] \in DomainIds /\ dom[r] # None
            /\ certs[dom[r]] \in Seq(CertRow) /\ cert[r] \in CertRow
        BY <4>1, NoneAssumption DEF SaveCert, Shape
      <4>3. certs'[dom[r]] = Append(certs[dom[r]], cert[r]) /\ cert' = cert
        BY <4>1, <4>2 DEF SaveCert
      <4>. QED
        BY <2>1, <4>1, <4>2, <4>3, AppendKeeps DEF Stored
    <3>. QED
      BY <3>1, <3>2
  <2>6. ASSUME NEW q \in Runs, outcome'[q] = "success", q \notin Rehearsals
        PROVE  /\ Stored(q)' \/ Deleted(q)'
               /\ snap'[q] # None /\ q \in ToSet(writes'[snap'[q].secret])
    <3>1. CASE outcome[q] = "success"
      <4>1. pc[q] \notin {"idle", "get", "load"}
        BY <3>1 DEF Shape
      <4>2. /\ snap[q] # None /\ snap[q].secret \in Secrets
            /\ q \in ToSet(writes[snap[q].secret])
        BY <2>6, <3>1 DEF Evidence, SuccessEarned, DomainRow
      <4>3. q \in ToSet(writes'[snap[q].secret])
        <5>1. CASE UNCHANGED writes
          BY <4>2, <5>1
        <5>2. CASE Upsert(r)
          <6>1. /\ writes'[snap[r].secret] = Append(writes[snap[r].secret], r)
                /\ \A s \in Secrets \ {snap[r].secret} : writes'[s] = writes[s]
            BY <2>2, <5>2 DEF Upsert
          <6>2. writes[snap[r].secret] \in Seq(Runs)
            BY <2>2
          <6>3. ToSet(writes'[snap[r].secret]) = ToSet(writes[snap[r].secret]) \cup {r}
            BY ONLY <6>1, <6>2, r \in Runs, AppendKeeps
          <6>. QED
            BY <4>2, <6>1, <6>3
        <5>. QED
          BY <2>3, <5>1, <5>2
      <4>. QED
        BY <2>1, <2>6, <3>1, <4>1, <4>2, <4>3, StoredStays DEF Evidence, SuccessEarned
    <3>2. CASE outcome[q] # "success"
      <4>1. q = r /\ PushSecret(r)
        BY <1>2, <2>1, <2>6, <3>2
        DEF CallCertbot, LoadResult, ResultEmpty, SaveCert, PushSecret
      <4>2. pc[r] = "push" /\ Upsert(r)
        BY <2>3, <2>6, <4>1 DEF PushSecret
      <4>3. r \in ToSet(writes'[snap[r].secret])
        BY <2>2, <4>2, AppendKeeps DEF Upsert
      <4>4. Stored(r)' \/ Deleted(r)'
        BY <4>2, StoredStays DEF Evidence, SuccessEarned
      <4>. QED
        BY <2>1, <2>2, <4>1, <4>3, <4>4, NoneAssumption
    <3>. QED
      BY <3>1, <3>2
  <2>. QED
    BY <2>4, <2>5, <2>6 DEF Evidence, SuccessEarned
<1>. QED
  BY <1>1, <1>2
LEMMA EvidenceInit == Init => Evidence
BY DEF Init, Evidence, SuccessEarned, SecretsOwned

\* Whoever means to report success has stored and pushed a certificate.
THEOREM EvidenceInvariant == Spec => []Evidence
<1>1. Typing /\ Typing' /\ Records /\ Evidence /\ [Next]_vars => Evidence'
  BY EvidenceNext
<1>. QED
  BY <1>1, EvidenceInit, TypingInvariant, RecordsInvariant, PTL DEF Spec

\* A job says "success" only if its certificate is in the history.
THEOREM SuccessRecordedEver == Spec => []SuccessRecorded
<1>1. Typing /\ Records /\ Evidence => SuccessRecorded
  <2>. SUFFICES ASSUME Typing, Records, Evidence,
                       NEW r \in Runs, jobs[r] = "success", r \notin Rehearsals
                PROVE  Stored(r)
    BY DEF SuccessRecorded
  <2>1. Stored(r) \/ Deleted(r)
    BY DEF Records, JobsFollow, Evidence, SuccessEarned
  <2>2. dom[r] # None => dom[r] \in DomainIds
    BY DEF Typing, TypeOK
  <2>. QED
    BY <2>1, <2>2 DEF Deleted, Records, NoOrphans
<1>. QED
  BY <1>1, TypingInvariant, RecordsInvariant, EvidenceInvariant, PTL

\* The cluster serves only certificates that are on record, unless their domain
\* has been deleted.
THEOREM PushedIsStoredEver == Spec => []PushedIsStored
<1>1. Evidence => PushedIsStored
  BY DEF Evidence, SecretsOwned, PushedIsStored
<1>. QED
  BY <1>1, EvidenceInvariant, PTL

\* A job says "success" only if its run has written the Secret it was to write,
\* which holds its certificate or the one of the run that wrote it last.
THEOREM SuccessDeliveredEver == Spec => []SuccessDelivered
<1>1. Typing /\ Records /\ Evidence => SuccessDelivered
  <2>. SUFFICES ASSUME Typing, Records, Evidence,
                       NEW r \in Runs, jobs[r] = "success", r \notin Rehearsals
                PROVE  LET s == snap[r].secret
                       IN r \in ToSet(writes[s]) /\ cluster[s] = cert[Last(writes[s])]
    BY DEF SuccessDelivered
  <2>1. snap[r] # None /\ r \in ToSet(writes[snap[r].secret])
    BY DEF Records, JobsFollow, Evidence, SuccessEarned
  <2>2. snap[r].secret \in Secrets
    BY <2>1 DEF Typing, TypeOK, DomainRow
  <2>3. writes[snap[r].secret] # <<>>
    BY <2>1 DEF ToSet
  <2>. QED
    BY <2>1, <2>2, <2>3 DEF Evidence, SecretsOwned
<1>. QED
  BY <1>1, TypingInvariant, RecordsInvariant, EvidenceInvariant, PTL

-----------------------------------------------------------------------------
\* Layer 4: a domain is active only while it has a certificate, and names are
\* unique.
Earned == ActiveWasEarned /\ EditsEarned

LEMMA RehearsedStays ==
  ASSUME Typing, [Next]_vars, NEW d \in DomainIds, Rehearsed(d)
  PROVE  Rehearsed(d)'
<1>1. PICK q \in Rehearsals : dom[q] = d /\ outcome[q] = "success"
  BY DEF Rehearsed
<1>2. q \in Runs /\ pc[q] # "idle"
  BY <1>1, FlagsAssumption DEF Typing, Shape
<1>. QED
  BY <1>1, <1>2, LocalsStay DEF Rehearsed

LEMMA EarnedNext ==
  ASSUME Typing, Records, Evidence, Earned, [Next]_vars
  PROVE  Earned'
<1>1. ASSUME NEW d \in DomainIds, certs[d] # <<>>
      PROVE  domains'[d] = None \/ certs'[d] # <<>>
  <2>1. certs[d] \in Seq(CertRow)
    BY DEF Typing, TypeOK
  <2>2. certs[d][1] \in ToSet(certs[d])
    BY <1>1, <2>1 DEF ToSet
  <2>. QED
    BY SMTT(20), <2>2, HistoryGrows DEF ToSet
<1>2. ASSUME NEW d \in DomainIds,
             domains[d] # None => (domains[d].status = "active" => Rehearsed(d) \/ certs[d] # <<>>),
             domains'[d] = domains[d]
      PROVE  domains'[d] # None => (domains'[d].status = "active" => Rehearsed(d)' \/ certs'[d] # <<>>)
  BY <1>1, <1>2, RehearsedStays
<1>3. ActiveWasEarned'
  <2>. SUFFICES ASSUME NEW d \in DomainIds, domains'[d] # None, domains'[d].status = "active",
                       domains'[d] # domains[d], ~Rehearsed(d)'
                PROVE  certs'[d] # <<>>
    BY <1>2 DEF ActiveWasEarned, Earned
  <2>. USE DEF Typing, TypeOK, tables, outside, locals
  <2>1. CASE \E r \in Runs : WriteStatus(r)
    <3>1. PICK r \in Runs : WriteStatus(r)
      BY <2>1
    <3>2. d = dom[r] /\ domains'[d] = StatusRow(r) /\ domains[d] # None /\ certs' = certs
      BY <3>1 DEF WriteStatus, RowUpdated
    <3>3. snap[r] \in DomainRow
      BY <3>1 DEF WriteStatus, Shape, Pipeline
    <3>4. outcome[r] = "success"
      BY <3>2, <3>3 DEF StatusRow, DomainRow
    <3>5. r \notin Rehearsals
      <4>1. ~Rehearsed(d)
        BY RehearsedStays
      <4>. QED
        BY <3>2, <3>4, <4>1 DEF Rehearsed
    <3>6. Stored(r)
      BY <3>2, <3>4, <3>5 DEF Evidence, SuccessEarned, Deleted
    <3>. QED
      BY <3>2, <3>6 DEF Stored, ToSet
  <2>2. CASE \E e \in Edits : EditWrite(e)
    <3>1. PICK e \in Edits : EditWrite(e)
      BY <2>2
    <3>2. d = edit[e].dom /\ domains'[d] = edit[e].row /\ domains[d] # None /\ certs' = certs
      BY <3>1 DEF EditWrite, RowUpdated
    <3>3. ~Rehearsed(d)
      BY RehearsedStays
    <3>. QED
      BY <3>1, <3>2, <3>3 DEF EditWrite, Earned, EditsEarned
  <2>3. CASE \E i \in DomainIds, n \in Names, s \in Secrets : CreateDomain(i, n, s)
    BY <2>3 DEF CreateDomain
  <2>4. CASE \E i \in DomainIds : DeleteDomain(i)
    BY <2>4 DEF DeleteDomain
  <2>5. CASE UNCHANGED domains
    BY <2>5
  <2>. QED
    <3>1. CASE \E r \in Runs, i \in DomainIds :
                  Issue(r, i) \/ Renew(r, i) \/ Schedule(r, i)
      BY <3>1, <2>5 DEF Issue, Renew, Schedule, Start
    <3>2. CASE \E r \in Runs : Step(r)
      BY <3>2, <2>1, <2>5
      DEF Step, EnsureCertificate, GetDomain, CreateJob, CallCertbot, LoadResult, SaveCert, PushSecret, FinishJob
    <3>3. CASE \/ \E e \in Edits, i \in DomainIds, n \in Names, s \in Secrets : EditRead(e, i, n, s)
               \/ \E e \in Edits : EditCheck(e) \/ EditWrite(e)
      BY <3>3, <2>2, <2>5 DEF EditRead, EditCheck
    <3>4. CASE Crash \/ \E r \in Runs : Cancel(r)
      BY <3>4, <2>5 DEF Crash, Cancel
    <3>5. CASE UNCHANGED vars
      BY <3>5, <2>5 DEF vars
    <3>. QED
      BY <2>3, <2>4, <3>1, <3>2, <3>3, <3>4, <3>5 DEF Next
<1>4. EditsEarned'
  <2>. SUFFICES ASSUME NEW e \in Edits, edit'[e].pc \in {"check", "write"},
                       edit'[e].row.status = "active", ~Rehearsed(edit[e].dom)'
                PROVE  certs'[edit'[e].dom] # <<>> \/ domains'[edit'[e].dom] = None
    BY DEF EditsEarned
  <2>0. \A d \in DomainIds : d = edit'[e].dom => ~Rehearsed(d)
    <3>. SUFFICES ASSUME NEW d \in DomainIds, d = edit'[e].dom, Rehearsed(d) PROVE FALSE
      OBVIOUS
    <3>1. Rehearsed(d)'
      BY RehearsedStays
    <3>. QED
      BY <3>1 DEF Rehearsed
  <2>1. CASE \E d \in DomainIds, n \in Names, s \in Secrets : EditRead(e, d, n, s)
    <3>1. PICK d \in DomainIds, n \in Names, s \in Secrets : EditRead(e, d, n, s)
      BY <2>1
    <3>2. /\ domains[d] # None /\ UNCHANGED <<domains, certs>>
          /\ edit'[e].dom = d /\ edit'[e].row.status = domains[d].status
      BY <3>1 DEF EditRead, Typing, TypeOK, tables
    <3>. QED
      BY <2>0, <3>2 DEF Earned, ActiveWasEarned
  <2>2. CASE /\ edit[e].pc \in {"check", "write"}
             /\ edit'[e].dom = edit[e].dom /\ edit'[e].row = edit[e].row
    <3>1. edit[e].dom \in DomainIds /\ edit[e].dom \in DomainIds
      BY <2>2 DEF Typing, TypeOK, Shape, EditState
    <3>2. certs[edit[e].dom] # <<>> \/ domains[edit[e].dom] = None
      BY <2>0, <2>2, <3>1 DEF Earned, EditsEarned
    <3>3. CASE certs[edit[e].dom] # <<>>
      BY <1>1, <2>2, <3>1, <3>3
    <3>4. CASE domains[edit[e].dom] = None
      BY <2>2, <3>1, <3>4, DeletedStays DEF Typing, Shape
    <3>. QED
      BY <3>2, <3>3, <3>4
  <2>. USE DEF Typing, TypeOK
  <2>. QED
    <3>1. CASE \E r \in Runs, i \in DomainIds :
                  Issue(r, i) \/ Renew(r, i) \/ Schedule(r, i)
      BY <2>2, <3>1 DEF Issue, Renew, Schedule, Start
    <3>2. CASE \E r \in Runs : Step(r)
      BY <2>2, <3>2
      DEF Step, EnsureCertificate, GetDomain, CreateJob, CallCertbot, LoadResult, SaveCert, PushSecret, FinishJob,
          WriteStatus
    <3>3. CASE \/ \E i \in DomainIds, n \in Names, s \in Secrets : CreateDomain(i, n, s)
               \/ \E i \in DomainIds : DeleteDomain(i)
      BY <2>2, <3>3 DEF CreateDomain, DeleteDomain
    <3>4. CASE \E f \in Edits, i \in DomainIds, n \in Names, s \in Secrets : EditRead(f, i, n, s)
      <4>1. PICK f \in Edits, i \in DomainIds, n \in Names, s \in Secrets : EditRead(f, i, n, s)
        BY <3>4
      <4>2. CASE f = e
        BY <2>1, <4>1, <4>2
      <4>3. CASE f # e
        <5>1. edit'[e] = edit[e]
          BY <4>1, <4>3 DEF EditRead
        <5>. QED
          BY <2>2, <5>1
      <4>. QED
        BY <4>2, <4>3
    <3>5. CASE \E f \in Edits : EditCheck(f) \/ EditWrite(f)
      <4>1. PICK f \in Edits : EditCheck(f) \/ EditWrite(f)
        BY <3>5
      <4>2. edit[f] \in EditState /\ edit[f].pc \in {"check", "write"}
        BY <4>1 DEF EditCheck, EditWrite
      <4>3. \E label \in {"write", "ok", "rejected"} :
               edit' = [edit EXCEPT ![f] = [edit[f] EXCEPT !.pc = label]]
        BY <4>1 DEF EditCheck, EditWrite
      <4>4. edit'[e].dom = edit[e].dom /\ edit'[e].row = edit[e].row
        BY <4>2, <4>3 DEF EditState
      <4>5. edit[e].pc \in {"check", "write"}
        BY <4>2, <4>3
      <4>. QED
        BY <2>2, <4>4, <4>5
    <3>6. CASE \/ Crash
               \/ \E r \in Runs : Cancel(r)
      BY <2>2, <3>6 DEF Crash, Cancel, EditState
    <3>7. CASE UNCHANGED vars
      BY <2>2, <3>7 DEF vars
    <3>. QED
      BY <3>1, <3>2, <3>3, <3>4, <3>5, <3>6, <3>7 DEF Next
<1>. QED
  BY <1>3, <1>4 DEF Earned

LEMMA EarnedInit == Init => Earned
BY DEF Init, Earned, ActiveWasEarned, EditsEarned

\* Neither a row nor a PUT that is under way says "active" without reason.
THEOREM EarnedInvariant == Spec => []Earned
<1>1. Typing /\ Records /\ Evidence /\ Earned /\ [Next]_vars => Earned'
  BY EarnedNext
<1>. QED
  BY <1>1, EarnedInit, TypingInvariant, RecordsInvariant, EvidenceInvariant, PTL DEF Spec

\* A domain is shown "active" only while it has a certificate, however stale
\* the row that a run or a PUT writes back.
THEOREM ActiveWasEarnedEver == Spec => []ActiveWasEarned
BY EarnedInvariant, PTL DEF Earned

LEMMA NamesNext ==
  ASSUME Typing, NamesUnique, [Next]_vars
  PROVE  NamesUnique'
<1>. USE DEF Typing, TypeOK, tables, outside, locals
\* A write of a row that looks at the other names keeps the names unique.
<1>1. ASSUME NEW d \in DomainIds, NEW row \in DomainRow,
             domains' = [domains EXCEPT ![d] = row], NameFree(row.name, d)
      PROVE  NamesUnique'
  <2>. SUFFICES ASSUME NEW i \in DomainIds, NEW j \in DomainIds \ {i},
                       domains'[i] # None, domains'[j] # None
                PROVE  domains'[j].name # domains'[i].name
    BY DEF NamesUnique, NameFree
  <2>. QED
    BY <1>1 DEF NamesUnique, NameFree
<1>2. CASE UNCHANGED domains
  BY <1>2 DEF NamesUnique, NameFree
<1>3. CASE \E i \in DomainIds, n \in Names, s \in Secrets : CreateDomain(i, n, s)
  <2>1. PICK i \in DomainIds, n \in Names, s \in Secrets : CreateDomain(i, n, s)
    BY <1>3
  <2>2. [name |-> n, secret |-> s, status |-> "pending"] \in DomainRow
    BY DEF DomainRow, Statuses
  <2>. QED
    BY <1>1, <2>1, <2>2 DEF CreateDomain
<1>4. CASE \E i \in DomainIds : DeleteDomain(i)
  BY <1>4 DEF DeleteDomain, NamesUnique, NameFree
<1>5. CASE \E r \in Runs : WriteStatus(r)
  <2>1. PICK r \in Runs : WriteStatus(r)
    BY <1>5
  <2>2. snap[r] \in DomainRow /\ dom[r] \in DomainIds
    BY <2>1 DEF WriteStatus, Shape, Pipeline
  <2>3. StatusRow(r) \in DomainRow /\ StatusRow(r).name = snap[r].name
    BY <2>2 DEF StatusRow, DomainRow, Statuses
  <2>. QED
    BY <1>1, <1>2, <2>1, <2>2, <2>3 DEF WriteStatus, RowUpdated
<1>6. CASE \E e \in Edits : EditWrite(e)
  <2>1. PICK e \in Edits : EditWrite(e)
    BY <1>6
  <2>2. edit[e].row \in DomainRow /\ edit[e].dom \in DomainIds
    BY <2>1 DEF EditWrite, Shape, EditState
  <2>. QED
    BY <1>1, <1>2, <2>1, <2>2 DEF EditWrite, RowUpdated
<1>7. CASE \E r \in Runs, i \in DomainIds :
              Issue(r, i) \/ Renew(r, i) \/ Schedule(r, i)
  BY <1>2, <1>7 DEF Issue, Renew, Schedule, Start
<1>8. CASE \E r \in Runs : Step(r)
  BY <1>2, <1>5, <1>8
  DEF Step, EnsureCertificate, GetDomain, CreateJob, CallCertbot, LoadResult, SaveCert, PushSecret, FinishJob
<1>9. CASE \/ \E e \in Edits, i \in DomainIds, n \in Names, s \in Secrets : EditRead(e, i, n, s)
           \/ \E e \in Edits : EditCheck(e)
           \/ Crash
           \/ \E r \in Runs : Cancel(r)
           \/ UNCHANGED vars
  BY <1>2, <1>9 DEF EditRead, EditCheck, Crash, Cancel, vars
<1>. QED
  BY <1>3, <1>4, <1>6, <1>7, <1>8, <1>9 DEF Next

\* No two domains ever have one name.
THEOREM NamesUniqueEver == Spec => []NamesUnique
<1>1. Init => NamesUnique
  BY DEF Init, NamesUnique
<1>2. Typing /\ NamesUnique /\ [Next]_vars => NamesUnique'
  BY NamesNext
<1>. QED
  BY <1>1, <1>2, TypingInvariant, PTL DEF Spec

\* All the layers at once: the conjunction that is checked on small instances
\* as well.
THEOREM InductiveInvariant == Spec => []IInv
<1>1. Typing /\ Records /\ Evidence /\ Earned /\ NamesUnique => IInv
  BY DEF Typing, Records, Evidence, Earned, IInv
<1>. QED
  BY <1>1, TypingInvariant, RecordsInvariant, EvidenceInvariant, EarnedInvariant,
     NamesUniqueEver, PTL

\* No row and no Secret is ever of a rehearsal.
THEOREM RehearsalPersistsNothingEver == Spec => []RehearsalPersistsNothing
<1>1. Typing /\ Records /\ Evidence => RehearsalPersistsNothing
  <2>. SUFFICES ASSUME Typing, Records, Evidence
                PROVE  RehearsalPersistsNothing
    OBVIOUS
  <2>1. ASSUME NEW d \in DomainIds, NEW i \in DOMAIN certs[d]
        PROVE  certs[d][i].run \notin Rehearsals
    <3>1. certs[d][i] \in CertRow /\ certs[d][i].run \in Runs
      BY RowsTyped
    <3>2. cert[certs[d][i].run] = certs[d][i]
      BY DEF Records, RowsOwned
    <3>. QED
      BY <3>1, <3>2, NoneAssumption DEF Typing, Shape
  <2>2. ASSUME NEW s \in Secrets, cluster[s] # None
        PROVE  cluster[s].run \notin Rehearsals
    <3>1. cluster[s].run \in Runs
      BY <2>2 DEF Typing, TypeOK, CertRow
    <3>2. cert[cluster[s].run] = cluster[s]
      BY <2>2 DEF Evidence, SecretsOwned
    <3>. QED
      BY <2>2, <3>1, <3>2 DEF Typing, Shape
  <2>. QED
    BY <2>1, <2>2 DEF RehearsalPersistsNothing
<1>. QED
  BY <1>1, TypingInvariant, RecordsInvariant, EvidenceInvariant, PTL

-----------------------------------------------------------------------------
\* What JobSettles rests on beside fairness.  The place of a call in run:
Place(l) ==
  CASE l = "choose" -> 1 [] l = "get"    -> 2 [] l = "create" -> 3
    [] l = "issue"  -> 4 [] l = "load"   -> 5 [] l = "save"   -> 6
    [] l = "push"   -> 7 [] l = "finish" -> 8 [] l = "status" -> 9
    [] l \in {"done", "killed"} -> 10 [] OTHER -> 0

Opened == {"issue", "load", "save", "push", "finish"}

\* An open job belongs to a run that is on its way to jobs.Update, unless the run
\* is interrupted; each step of the run closes the job or brings it nearer, and
\* nobody else's step takes it back.
JobsNearTheirEnd ==
  [][\A r \in Runs :
        jobs[r] = "running" /\ ~cancelled[r] /\ ~DbFaults /\ pc[r] # "killed" =>
           /\ pc[r] \in Opened
           /\ Step(r) => jobs'[r] # "running" \/ Place(pc'[r]) > Place(pc[r])
           /\ ~Step(r) => pc'[r] \in {pc[r], "killed"}]_vars

LEMMA OpenJobs ==
  ASSUME Typing, Records, NEW r \in Runs,
         jobs[r] = "running", ~cancelled[r], ~DbFaults, pc[r] # "killed"
  PROVE  pc[r] \in Opened
<1>1. pc[r] \notin {"idle", "choose", "get", "create"}
  BY DEF Records, JobsFollow
<1>2. ~Deleted(r)
  <2>1. dom[r] \in DomainIds
    BY <1>1 DEF Typing, TypeOK, Shape
  <2>. QED
    BY <2>1 DEF Records, NoOrphans, Deleted
<1>3. outcome[r] # "running"
  BY DEF Typing, TypeOK
<1>4. pc[r] # "status" /\ pc[r] # "done"
  BY <1>2, <1>3 DEF Records, JobsFollow, StuckOnlyIfInterrupted
<1>. QED
  BY <1>1, <1>4 DEF Typing, TypeOK, Pipeline, Opened

LEMMA StepAdvances ==
  ASSUME Typing, NEW r \in Runs, Step(r)
  PROVE  Place(pc'[r]) > Place(pc[r])
<1>. USE DEF Typing, TypeOK, Goto, Decide, Place
<1>1. CASE EnsureCertificate(r) \/ GetDomain(r) \/ CreateJob(r)
  BY <1>1 DEF EnsureCertificate, GetDomain, CreateJob
<1>2. CASE CallCertbot(r) \/ LoadResult(r)
  BY <1>2 DEF CallCertbot, LoadResult
<1>3. CASE SaveCert(r) \/ PushSecret(r)
  BY <1>3 DEF SaveCert, PushSecret
<1>4. CASE FinishJob(r) \/ WriteStatus(r)
  BY <1>4 DEF FinishJob, WriteStatus
<1>. QED
  BY <1>1, <1>2, <1>3, <1>4 DEF Step

LEMMA OthersLeaveIt ==
  ASSUME Typing, [Next]_vars, NEW r \in Runs, ~Step(r), pc[r] \in Opened
  PROVE  pc'[r] \in {pc[r], "killed"}
<1>. USE DEF Typing, TypeOK, Goto, Decide, Opened
<1>1. CASE \E q \in Runs, d \in DomainIds : Issue(q, d) \/ Renew(q, d) \/ Schedule(q, d)
  BY <1>1 DEF Issue, Renew, Schedule, Start
<1>2. ASSUME NEW q \in Runs, Step(q)
      PROVE  pc'[r] = pc[r]
  <2>1. q # r
    BY <1>2
  <2>2. CASE EnsureCertificate(q) \/ GetDomain(q) \/ CreateJob(q)
    BY <2>1, <2>2 DEF EnsureCertificate, GetDomain, CreateJob
  <2>3. CASE CallCertbot(q) \/ LoadResult(q)
    BY <2>1, <2>3 DEF CallCertbot, LoadResult
  <2>4. CASE SaveCert(q) \/ PushSecret(q)
    BY <2>1, <2>4 DEF SaveCert, PushSecret
  <2>5. CASE FinishJob(q) \/ WriteStatus(q)
    BY <2>1, <2>5 DEF FinishJob, WriteStatus
  <2>. QED
    BY <1>2, <2>2, <2>3, <2>4, <2>5 DEF Step
<1>3. CASE Crash
  BY <1>3 DEF Crash
<1>4. CASE UNCHANGED pc
  BY <1>4
<1>. QED
  BY <1>1, <1>2, <1>3, <1>4
  DEF Next, CreateDomain, DeleteDomain, EditRead, EditCheck, EditWrite, Cancel, vars

\* The safety half of JobSettles, for any number of runs, domains and edits: all
\* that is left to fairness is that steps are taken.
THEOREM JobsNearTheirEndEver == Spec => JobsNearTheirEnd
<1>1. Typing /\ Records /\ [Next]_vars
      => [\A r \in Runs :
             jobs[r] = "running" /\ ~cancelled[r] /\ ~DbFaults /\ pc[r] # "killed" =>
                /\ pc[r] \in Opened
                /\ Step(r) => jobs'[r] # "running" \/ Place(pc'[r]) > Place(pc[r])
                /\ ~Step(r) => pc'[r] \in {pc[r], "killed"}]_vars
  BY OpenJobs, StepAdvances, OthersLeaveIt
<1>. QED
  BY <1>1, TypingInvariant, RecordsInvariant, PTL DEF Spec, JobsNearTheirEnd
=============================================================================
