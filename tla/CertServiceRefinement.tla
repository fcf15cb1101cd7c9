------------------------ MODULE CertServiceRefinement ------------------------
(***************************************************************************)
(* The certificate service implements RenewalLog: every step of a run, a   *)
(* handler or the environment is a step of the log or leaves it unchanged, *)
(* for every value of the constants.                                       *)
(***************************************************************************)
EXTENDS CertServiceProofs

LEMMA LogInit == Init => Log!Init
<1>. SUFFICES ASSUME Init PROVE Log!Init
  OBVIOUS
<1>1. OpenIds = {} /\ RetiredIds = {}
  BY DEF Init, OpenIds, RetiredIds
<1>2. JobLog = [r \in Runs |-> None]
  BY DEF Init, JobLog
<1>3. History = [d \in DomainIds |-> <<>>]
  BY DEF Init, History
<1>. QED
  BY <1>1, <1>2, <1>3 DEF Log!Init

\* Appending keeps what a sequence held and adds one element at its end.
LEMMA AppendExtends ==
  ASSUME NEW S, NEW s \in Seq(S), NEW x \in S
  PROVE  /\ Append(s, x) \in [1 .. Len(s) + 1 -> S]
         /\ \A i \in 1 .. Len(s) : Append(s, x)[i] = s[i]
         /\ Append(s, x)[Len(s) + 1] = x
<1>1. /\ Append(s, x) \in Seq(S) /\ Len(Append(s, x)) = Len(s) + 1
      /\ \A i \in 1 .. Len(s) : Append(s, x)[i] = s[i]
      /\ Append(s, x)[Len(s) + 1] = x
  OBVIOUS
<1>2. \A q \in Seq(S) : q \in [1 .. Len(q) -> S]
  OBVIOUS
<1>3. Append(s, x) \in [1 .. Len(Append(s, x)) -> S]
  BY ONLY <1>1, <1>2
<1>. QED
  BY <1>1, <1>3

\* A step that creates, deletes and settles nothing is a stutter of the log.
LEMMA LogStutters ==
  ASSUME \A d \in DomainIds : domains'[d] = None <=> domains[d] = None,
         known' = known, known \subseteq DomainIds, certs' = certs, jobs' = jobs,
         \A r \in Runs : jobs[r] # "none" => dom'[r] = dom[r]
  PROVE  UNCHANGED Log!logvars
<1>1. OpenIds' = OpenIds /\ RetiredIds' = RetiredIds
  BY DEF OpenIds, RetiredIds
<1>2. JobLog' = JobLog
  BY DEF JobLog
<1>3. History' = History
  BY DEF History
<1>. QED
  BY <1>1, <1>2, <1>3 DEF Log!logvars

LEMMA CreateDomainAdds ==
  ASSUME Typing, NEW d \in DomainIds, NEW n \in Names, NEW s \in Secrets, CreateDomain(d, n, s)
  PROVE  Log!AddDomain(d)
<1>. USE DEF Typing, TypeOK, Shape, RowsKnown, CreateDomain, locals
<1>1. /\ domains[d] = None
      /\ domains' = [domains EXCEPT ![d] = [name |-> n, secret |-> s, status |-> "pending"]]
  OBVIOUS
<1>2. [name |-> n, secret |-> s, status |-> "pending"] # None
  BY NoneAssumption DEF DomainRow, Statuses
<1>3. d \notin OpenIds \cup RetiredIds
  BY <1>1 DEF OpenIds, RetiredIds
<1>4. OpenIds' = OpenIds \cup {d}
  BY <1>1, <1>2 DEF OpenIds
<1>5. RetiredIds' = RetiredIds
  BY <1>1, <1>2 DEF RetiredIds
<1>6. JobLog' = JobLog /\ History' = History
  BY DEF JobLog, History
<1>. QED
  BY <1>3, <1>4, <1>5, <1>6 DEF Log!AddDomain

\* The entry of a run that has a job.
LEMMA EntryOfJob ==
  ASSUME Typing, Records, NEW r \in Runs, jobs[r] # "none"
  PROVE  /\ pc[r] # "idle" /\ dom[r] \in DomainIds /\ jobs[r] \in JobStatuses
         /\ JobLog[r] = [dom |-> dom[r], status |-> jobs[r]]
         /\ JobLog[r] # None
<1>1. pc[r] # "idle" /\ dom[r] \in DomainIds /\ jobs[r] \in JobStatuses
  BY DEF Typing, TypeOK, Shape, Records, JobsFollow
<1>2. [dom |-> dom[r], status |-> jobs[r]] # None
  BY <1>1, JobEntryAssumption
<1>. QED
  BY <1>1, <1>2 DEF JobLog

LEMMA DeleteDomainDrops ==
  ASSUME Typing, Records, NEW d \in DomainIds, DeleteDomain(d)
  PROVE  Log!Drop(d)
<1>. USE DEF Typing, TypeOK, Shape, RowsKnown, DeleteDomain, locals
<1>1. d \in OpenIds /\ OpenIds' = OpenIds \ {d}
  BY DEF OpenIds
<1>2. RetiredIds' = RetiredIds \cup {d}
  BY DEF RetiredIds
<1>3. JobLog' = [r \in Runs |-> IF JobLog[r] # None /\ JobLog[r].dom = d
                                THEN None ELSE JobLog[r]]
  <2>1. JobLog' = [r \in Runs |-> IF dom[r] = d \/ jobs[r] = "none" THEN None
                                  ELSE [dom |-> dom[r], status |-> jobs[r]]]
    BY DEF JobLog
  <2>2. ASSUME NEW r \in Runs
        PROVE  (IF dom[r] = d \/ jobs[r] = "none" THEN None
                ELSE [dom |-> dom[r], status |-> jobs[r]])
               = IF JobLog[r] # None /\ JobLog[r].dom = d THEN None ELSE JobLog[r]
    BY EntryOfJob DEF JobLog
  <2>. QED
    BY <2>1, <2>2
<1>4. History' = [History EXCEPT ![d] = <<>>]
  <2>1. History' = [i \in DomainIds |-> [j \in DOMAIN certs'[i] |-> certs'[i][j].run]]
    BY DEF History
  <2>2. ASSUME NEW i \in DomainIds
        PROVE  [j \in DOMAIN certs'[i] |-> certs'[i][j].run]
               = IF i = d THEN <<>> ELSE [j \in DOMAIN certs[i] |-> certs[i][j].run]
    <3>1. CASE i = d
      BY <3>1
    <3>2. CASE i # d
      <4>1. certs'[i] = certs[i]
        BY <3>2
      <4>. QED
        BY <3>2, <4>1
    <3>. QED
      BY <3>1, <3>2
  <2>. QED
    BY <2>1, <2>2 DEF History
<1>. QED
  BY <1>1, <1>2, <1>3, <1>4 DEF Log!Drop

LEMMA CreateJobBegins ==
  ASSUME Typing, Records, NEW r \in Runs, CreateJob(r), jobs' # jobs
  PROVE  Log!Begin(r, dom[r])
<1>. USE DEF Typing, TypeOK, Shape, CreateJob, locals
<1>1. /\ domains[dom[r]] # None /\ dom[r] \in DomainIds
      /\ jobs' = [jobs EXCEPT ![r] = "running"]
      /\ UNCHANGED <<domains, known, certs, dom>>
  BY DEF ForeignKeyHolds
<1>2. jobs[r] = "none"
  BY DEF Records, JobsFollow
<1>3. dom[r] \in OpenIds /\ JobLog[r] = None
  BY <1>1, <1>2 DEF OpenIds, JobLog
<1>4. JobLog' = [JobLog EXCEPT ![r] = [dom |-> dom[r], status |-> "running"]]
  BY <1>1 DEF JobLog
<1>5. OpenIds' = OpenIds /\ RetiredIds' = RetiredIds /\ History' = History
  BY <1>1 DEF OpenIds, RetiredIds, History
<1>. QED
  BY <1>3, <1>4, <1>5 DEF Log!Begin

LEMMA RowOwner ==
  ASSUME Records, NEW d \in DomainIds, NEW i \in DOMAIN certs[d], NEW r,
         certs[d][i].run = r
  PROVE  pc[r] \in Late
BY DEF Records, RowsOwned, Late

LEMMA SaveCertRecords ==
  ASSUME Typing, Records, NEW r \in Runs, SaveCert(r), certs' # certs
  PROVE  Log!Record(r, dom[r])
<1>. USE DEF Typing, TypeOK, Shape, SaveCert, locals
<1>1. /\ domains[dom[r]] # None /\ dom[r] \in DomainIds /\ pc[r] = "save"
      /\ cert[r] \in CertRow /\ cert[r].run = r
      /\ certs' = [certs EXCEPT ![dom[r]] = Append(@, cert[r])]
      /\ UNCHANGED <<domains, known, jobs, dom>>
  BY DEF ForeignKeyHolds
<1>2. jobs[r] = "running"
  BY <1>1 DEF Records, JobsFollow, Deleted
<1>3. JobLog[r] = [dom |-> dom[r], status |-> "running"]
  BY <1>2 DEF JobLog
<1>4. ~Log!Recorded(r, dom[r])
  <2>. SUFFICES ASSUME NEW i \in DOMAIN History[dom[r]], History[dom[r]][i] = r
                PROVE  FALSE
    BY DEF Log!Recorded, Log!ToSet
  <2>1. i \in DOMAIN certs[dom[r]] /\ certs[dom[r]][i].run = r
    BY <1>1 DEF History
  <2>2. pc[certs[dom[r]][i].run] \in Late
    BY ONLY Typing, Records, <1>1, <2>1, RowOwner
  <2>3. pc[r] \in Late
    BY ONLY <2>1, <2>2
  <2>. QED
    BY ONLY <1>1, <2>3 DEF Late
<1>5. History' = [History EXCEPT ![dom[r]] = Append(@, r)]
  <2>1. certs[dom[r]] \in Seq(CertRow) /\ History[dom[r]] \in Seq(Runs)
    <3>1. certs[dom[r]] \in Seq(CertRow)
      BY <1>1
    <3>2. \A i \in 1 .. Len(certs[dom[r]]) : certs[dom[r]][i].run \in Runs
      BY <1>1, <3>1, RowsTyped
    <3>3. History[dom[r]] = [i \in 1 .. Len(certs[dom[r]]) |-> certs[dom[r]][i].run]
      BY <1>1, <3>1 DEF History
    <3>. QED
      BY <3>1, <3>2, <3>3
  <2>2. [i \in DOMAIN Append(certs[dom[r]], cert[r]) |-> Append(certs[dom[r]], cert[r])[i].run]
        = Append(History[dom[r]], r)
    <3>. DEFINE c == certs[dom[r]]
                h == History[dom[r]]
    <3>1. h = [i \in DOMAIN c |-> c[i].run]
      BY <1>1 DEF History
    <3>2. /\ c \in Seq(CertRow) /\ h \in Seq(Runs) /\ r \in Runs
          /\ cert[r] \in CertRow /\ cert[r].run = r
      BY <1>1, <2>1
    <3>. HIDE DEF c, h
    <3>3. Len(h) = Len(c) /\ \A i \in 1 .. Len(c) : h[i] = c[i].run
      BY ONLY <3>1, <3>2
    <3>4. /\ DOMAIN Append(c, cert[r]) = 1 .. Len(c) + 1
          /\ \A i \in 1 .. Len(c) : Append(c, cert[r])[i] = c[i]
          /\ Append(c, cert[r])[Len(c) + 1] = cert[r]
      BY ONLY <3>2
    <3>5. /\ Append(h, r) \in [1 .. Len(c) + 1 -> Runs]
          /\ \A i \in 1 .. Len(c) : Append(h, r)[i] = h[i]
          /\ Append(h, r)[Len(c) + 1] = r
      <4>1. h \in Seq(Runs) /\ r \in Runs
        BY ONLY <3>2
      <4>2. /\ Append(h, r) \in [1 .. Len(h) + 1 -> Runs]
            /\ \A i \in 1 .. Len(h) : Append(h, r)[i] = h[i]
            /\ Append(h, r)[Len(h) + 1] = r
        BY ONLY <4>1, AppendExtends
      <4>. QED
        BY ONLY <3>3, <4>2
    <3>6. \A i \in 1 .. Len(c) + 1 : Append(c, cert[r])[i].run = Append(h, r)[i]
      BY ONLY <3>2, <3>3, <3>4, <3>5
    <3>7. [i \in DOMAIN Append(c, cert[r]) |-> Append(c, cert[r])[i].run] = Append(h, r)
      BY ONLY <3>4, <3>5, <3>6
    <3>. QED
      BY <3>7 DEF c, h
  <2>3. /\ certs' = [certs EXCEPT ![dom[r]] = Append(certs[dom[r]], cert[r])]
        /\ certs \in [DomainIds -> Seq(CertRow)] /\ dom[r] \in DomainIds
    BY <1>1
  <2>4. ASSUME NEW d \in DomainIds
        PROVE  certs'[d] = IF d = dom[r] THEN Append(certs[dom[r]], cert[r]) ELSE certs[d]
    BY ONLY <2>3, <2>4
  <2>5. ASSUME NEW d \in DomainIds
        PROVE  History'[d] = IF d = dom[r] THEN Append(History[dom[r]], r) ELSE History[d]
    BY ONLY <2>2, <2>4, <2>5 DEF History
  <2>. QED
    BY ONLY <2>3, <2>5 DEF History
<1>6. OpenIds' = OpenIds /\ RetiredIds' = RetiredIds /\ JobLog' = JobLog
  BY <1>1 DEF OpenIds, RetiredIds, JobLog
<1>. QED
  BY <1>3, <1>4, <1>5, <1>6 DEF Log!Record

LEMMA FinishJobSettles ==
  ASSUME Typing, Records, Evidence, NEW r \in Runs, FinishJob(r), jobs' # jobs
  PROVE  \E status \in {"success", "failed"} : Log!Settle(r, dom[r], status)
<1>. USE DEF Typing, TypeOK, Shape, FinishJob, locals
<1>1. /\ jobs[r] # "none" /\ pc[r] = "finish" /\ dom[r] \in DomainIds
      /\ jobs' = [jobs EXCEPT ![r] = outcome[r]]
      /\ outcome[r] \in {"success", "failed"}
      /\ UNCHANGED <<domains, known, certs, dom>>
  BY EntryOfJob
<1>2. jobs[r] = "running" /\ ~Deleted(r)
  BY <1>1 DEF Records, JobsFollow
<1>3. JobLog[r] = [dom |-> dom[r], status |-> "running"]
  BY <1>2 DEF JobLog
<1>4. outcome[r] = "success" => r \in Rehearsals \/ Log!Recorded(r, dom[r])
  <2>. SUFFICES ASSUME outcome[r] = "success", r \notin Rehearsals
                PROVE  Log!Recorded(r, dom[r])
    OBVIOUS
  <2>1. cert[r] \in ToSet(certs[dom[r]])
    BY <1>2 DEF Evidence, SuccessEarned, Stored
  <2>2. PICK i \in DOMAIN certs[dom[r]] : certs[dom[r]][i] = cert[r]
    BY <2>1 DEF ToSet
  <2>3. cert[r] \in CertRow /\ cert[r].run = r
    BY <1>1, <2>2, RowsTyped, NoneAssumption
  <2>. QED
    BY <1>1, <2>2, <2>3 DEF Log!Recorded, Log!ToSet, History
<1>5. JobLog' = [JobLog EXCEPT ![r].status = outcome[r]]
  BY <1>1, <1>2, <1>3 DEF JobLog
<1>6. OpenIds' = OpenIds /\ RetiredIds' = RetiredIds /\ History' = History
  BY <1>1 DEF OpenIds, RetiredIds, History
<1>. QED
  BY <1>1, <1>3, <1>4, <1>5, <1>6 DEF Log!Settle

LEMMA NextIsLogged ==
  ASSUME Typing, Typing', Records, Evidence, [Next]_vars
  PROVE  [Log!Next]_(Log!logvars)
<1>. USE DEF tables, outside, locals
<1>. DEFINE Quiet == /\ \A d \in DomainIds : domains'[d] = None <=> domains[d] = None
                     /\ known' = known /\ certs' = certs /\ jobs' = jobs
<1>1. CASE Quiet
  <2>1. known \subseteq DomainIds
    BY DEF Typing, TypeOK
  <2>2. \A r \in Runs : jobs[r] # "none" => dom'[r] = dom[r]
    BY EntryOfJob, LocalsStay
  <2>. QED
    BY <1>1, <2>1, <2>2, LogStutters
<1>2. CASE \E d \in DomainIds, n \in Names, s \in Secrets : CreateDomain(d, n, s)
  BY <1>2, CreateDomainAdds DEF Log!Next
<1>3. CASE \E d \in DomainIds : DeleteDomain(d)
  BY <1>3, DeleteDomainDrops DEF Log!Next
<1>4. ASSUME NEW r \in Runs, Step(r)
      PROVE  [Log!Next]_(Log!logvars)
  <2>1. CASE CreateJob(r) /\ jobs' # jobs
    <3>1. dom[r] \in DomainIds
      BY <2>1 DEF CreateJob, Typing, TypeOK, Shape
    <3>. QED
      BY <2>1, <3>1, CreateJobBegins DEF Log!Next
  <2>2. CASE SaveCert(r) /\ certs' # certs
    <3>1. dom[r] \in DomainIds
      BY <2>2 DEF SaveCert, Typing, TypeOK, Shape
    <3>. QED
      BY <2>2, <3>1, SaveCertRecords DEF Log!Next
  <2>3. CASE FinishJob(r) /\ jobs' # jobs
    <3>1. dom[r] \in DomainIds
      BY <2>3 DEF FinishJob, Typing, TypeOK, Shape
    <3>. QED
      BY <2>3, <3>1, FinishJobSettles DEF Log!Next
  <2>4. CASE WriteStatus(r)
    <3>1. snap[r] \in DomainRow
      BY <2>4 DEF WriteStatus, Typing, TypeOK, Shape, Pipeline
    <3>2. StatusRow(r) # None
      BY <3>1, NoneAssumption DEF StatusRow, DomainRow, Statuses
    <3>. QED
      BY <1>1, <2>4, <3>2 DEF WriteStatus, RowUpdated, Typing, TypeOK
  <2>5. CASE \/ EnsureCertificate(r) \/ GetDomain(r) \/ CallCertbot(r) \/ LoadResult(r) \/ PushSecret(r)
             \/ CreateJob(r) /\ jobs' = jobs
             \/ SaveCert(r) /\ certs' = certs
             \/ FinishJob(r) /\ jobs' = jobs
    BY <1>1, <2>5
    DEF EnsureCertificate, GetDomain, CreateJob, CallCertbot, LoadResult, SaveCert, PushSecret, FinishJob
  <2>. QED
    BY <1>4, <2>1, <2>2, <2>3, <2>4, <2>5 DEF Step
<1>5. CASE \/ \E e \in Edits, d \in DomainIds, n \in Names, s \in Secrets : EditRead(e, d, n, s)
           \/ \E e \in Edits : EditCheck(e)
           \/ \E r \in Runs, d \in DomainIds :
                  Issue(r, d) \/ Renew(r, d) \/ Schedule(r, d)
           \/ Crash
           \/ \E r \in Runs : Cancel(r)
           \/ UNCHANGED vars
  BY <1>1, <1>5
  DEF EditRead, EditCheck, Issue, Renew, Schedule, Start, Crash, Cancel, vars
<1>6. CASE \E e \in Edits : EditWrite(e)
  <2>1. PICK e \in Edits : EditWrite(e)
    BY <1>6
  <2>2. edit[e].row # None
    BY <2>1 DEF EditWrite, Typing, Shape
  <2>. QED
    BY <1>1, <2>1, <2>2 DEF EditWrite, RowUpdated, Typing, TypeOK
<1>. QED
  BY <1>2, <1>3, <1>4, <1>5, <1>6 DEF Next

\* The records of the certificate service are those of RenewalLog: one job and
\* one certificate per request, success only with a certificate on record,
\* nothing changed once settled, all of it gone with its domain for good.
THEOREM Implementation == Spec => RefinesLog
<1>1. Typing /\ Typing' /\ Records /\ Evidence /\ [Next]_vars => [Log!Next]_(Log!logvars)
  BY NextIsLogged
<1>. QED
  BY <1>1, LogInit, TypingInvariant, RecordsInvariant, EvidenceInvariant, PTL
  DEF Spec, RefinesLog, Log!Spec

-----------------------------------------------------------------------------
\* What the header of RenewalLog says in words, as a property of the records: a
\* settled job never changes, a history only ever grows at its end, and both go
\* only with their domain.
RecordsFinal ==
  [][/\ \A r \in Runs : JobLog[r] # None =>
           \/ JobLog'[r] = JobLog[r]
           \/ JobLog[r].status = "running" /\ JobLog'[r].dom = JobLog[r].dom
           \/ JobLog[r].dom \in RetiredIds'
     /\ \A d \in DomainIds :
           \/ History'[d] = History[d]
           \/ \E r \in Runs : History'[d] = Append(History[d], r)
           \/ d \in RetiredIds']_(Log!logvars)

LEMMA LogIsFinal ==
  ASSUME Log!Next
  PROVE  /\ \A r \in Runs : JobLog[r] # None =>
               \/ JobLog'[r] = JobLog[r]
               \/ JobLog[r].status = "running" /\ JobLog'[r].dom = JobLog[r].dom
               \/ JobLog[r].dom \in RetiredIds'
         /\ \A d \in DomainIds :
               \/ History'[d] = History[d]
               \/ \E r \in Runs : History'[d] = Append(History[d], r)
               \/ d \in RetiredIds'
<1>. DEFINE JobsFinal == \A r \in Runs : JobLog[r] # None =>
                            \/ JobLog'[r] = JobLog[r]
                            \/ JobLog[r].status = "running" /\ JobLog'[r].dom = JobLog[r].dom
                            \/ JobLog[r].dom \in RetiredIds'
            Grows == \A d \in DomainIds :
                        \/ History'[d] = History[d]
                        \/ \E r \in Runs : History'[d] = Append(History[d], r)
                        \/ d \in RetiredIds'
<1>1. DOMAIN JobLog = Runs /\ DOMAIN History = DomainIds
  BY DEF JobLog, History
<1>2. ASSUME NEW d \in DomainIds, Log!AddDomain(d)
      PROVE  JobsFinal /\ Grows
  BY <1>2 DEF Log!AddDomain
<1>3. ASSUME NEW d \in DomainIds, Log!Drop(d)
      PROVE  JobsFinal /\ Grows
  <2>1. d \in RetiredIds'
    BY <1>3 DEF Log!Drop
  <2>2. \A r \in Runs : JobLog'[r] = IF JobLog[r] # None /\ JobLog[r].dom = d THEN None ELSE JobLog[r]
    BY <1>3 DEF Log!Drop
  <2>3. \A e \in DomainIds : e # d => History'[e] = History[e]
    BY <1>1, <1>3 DEF Log!Drop
  <2>. QED
    BY <2>1, <2>2, <2>3
<1>4. ASSUME NEW d \in DomainIds, NEW r \in Runs, Log!Begin(r, d)
      PROVE  JobsFinal /\ Grows
  <2>1. JobLog[r] = None /\ History' = History
        /\ \A q \in Runs : q # r => JobLog'[q] = JobLog[q]
    BY <1>1, <1>4 DEF Log!Begin
  <2>. QED
    BY <2>1
<1>5. ASSUME NEW d \in DomainIds, NEW r \in Runs, Log!Record(r, d)
      PROVE  JobsFinal /\ Grows
  <2>1. JobLog' = JobLog /\ History'[d] = Append(History[d], r)
        /\ \A e \in DomainIds : e # d => History'[e] = History[e]
    BY <1>1, <1>5 DEF Log!Record
  <2>. QED
    BY <2>1
<1>6. ASSUME NEW d \in DomainIds, NEW r \in Runs, NEW status, Log!Settle(r, d, status)
      PROVE  JobsFinal /\ Grows
  <2>1. JobLog[r].status = "running" /\ JobLog[r].dom = d /\ History' = History
    BY <1>6 DEF Log!Settle
  <2>2. JobLog'[r].dom = d
    BY <1>1, <1>6, <2>1 DEF Log!Settle
  <2>3. \A q \in Runs : q # r => JobLog'[q] = JobLog[q]
    BY <1>1, <1>6 DEF Log!Settle
  <2>. QED
    BY <2>1, <2>2, <2>3
<1>. QED
  BY <1>2, <1>3, <1>4, <1>5, <1>6 DEF Log!Next

\* The service inherits it by refinement: no run, stale or cancelled, reopens a job
\* or takes a certificate out of the history.
THEOREM RecordsFinalEver == Spec => RecordsFinal
<1>1. Log!Spec => RecordsFinal
  <2>1. [Log!Next]_(Log!logvars)
        => [/\ \A r \in Runs : JobLog[r] # None =>
                  \/ JobLog'[r] = JobLog[r]
                  \/ JobLog[r].status = "running" /\ JobLog'[r].dom = JobLog[r].dom
                  \/ JobLog[r].dom \in RetiredIds'
            /\ \A d \in DomainIds :
                  \/ History'[d] = History[d]
                  \/ \E r \in Runs : History'[d] = Append(History[d], r)
                  \/ d \in RetiredIds']_(Log!logvars)
    BY LogIsFinal
  <2>. QED
    BY <2>1, PTL DEF Log!Spec, RecordsFinal
<1>. QED
  BY <1>1, Implementation DEF RefinesLog
=============================================================================
