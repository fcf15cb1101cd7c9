----------------------------- MODULE CertService -----------------------------
(***************************************************************************)
(* The certificate service of CertSchedule: the pipeline that              *)
(* internal/application/certificate_service.go runs for one request to     *)
(* issue or renew a certificate, over the SQLite repositories, certbot and *)
(* the Kubernetes API, together with what else touches the same rows: the  *)
(* PUT, POST and DELETE handlers of a domain, the cancellation of a        *)
(* request's context, failing statements and a crash of the process.       *)
(* Operators named Bug... are faults a change of the code could introduce; *)
(* no other definition uses them.                                          *)
(*                                                                         *)
(* Nothing in the program serialises requests that concern one domain, so  *)
(* every repository call, certbot call and API call is a step of its own   *)
(* and the steps of different requests interleave freely.  SQLite runs one *)
(* statement at a time (SetMaxOpenConns(1)), so a statement is atomic.     *)
(***************************************************************************)
EXTENDS Integers, Sequences, SequencesExt

CONSTANTS Runs,       \* invocations of CertificateService.run, each used once
          Edits,      \* PUT /domains/{id} requests, each used once
          DomainIds,  \* ids a domain row may be given (uuid.NewString)
          Names,      \* host names
          Secrets,    \* (namespace, secret name) pairs
          Rehearsals, \* those made while the process has CERTBOT_DRY_RUN set
          DbFaults,   \* may a statement fail although its context is alive?
          OldLineages, \* versions certbot's directory may hold at the start
          None        \* no row, no certificate, no id

Statuses    == {"pending", "active", "failed"}
JobStatuses == {"running", "success", "failed"}

\* A row of domains.  secret stands for all the columns a PUT overwrites
\* beside the name: they are read and written together.
DomainRow == [name : Names, secret : Secrets, status : Statuses]

\* A row of certificates, and what the Secret holds: the run that stored it,
\* the lineage it was read from and the version of the lineage at that time.
CertRow == [run : Runs, name : Names, ver : Nat]

EditState == [pc  : {"idle", "check", "write", "ok", "rejected"},
              dom : DomainIds \cup {None},
              row : DomainRow \cup {None}]

ASSUME NoneAssumption ==
    /\ None \notin DomainRow
    /\ None \notin CertRow
    /\ None \notin DomainIds

ASSUME JobEntryAssumption == None \notin [dom : DomainIds, status : JobStatuses]

ASSUME FlagsAssumption == Rehearsals \subseteq Runs /\ DbFaults \in BOOLEAN

ASSUME LineagesAssumption == OldLineages \subseteq Nat

VARIABLES
    domains,    \* table domains: the row of each id, or None
    known,      \* ids handed out so far (a client may still hold a dead one)
    certs,      \* table certificates: the rows of each domain by created_at
    jobs,       \* table renewal_jobs: the status of the row of each run
    live,       \* certbot's live/<name>: its version, 0 when there is none
    cluster,    \* the TLS Secrets of the cluster
    writes,     \* history: the runs that have written each Secret, in order
    pc,         \* the next call each run makes
    dom,        \* its parameter domainID
    op,         \* its parameter fn: certonly or renew
    snap,       \* d, the domain row it read first
    cert,       \* result, what it read from certbot's live directory
    outcome,    \* job.Status as the run holds it in memory
    cancelled,  \* has its context been cancelled?
    edit        \* the state of each PUT request

tables  == <<domains, known, certs, jobs>>
outside == <<live, cluster, writes>>
locals  == <<dom, op, snap, cert, outcome>>
vars    == <<domains, known, certs, jobs, live, cluster, writes,
             pc, dom, op, snap, cert, outcome, cancelled, edit>>

Pipeline == {"choose", "get", "create", "issue", "load", "save", "push", "finish", "status"}

InFlight(r) == pc[r] \in Pipeline

Goto(r, label) == pc' = [pc EXCEPT ![r] = label]

\* A statement, or any other call that takes the context, may return an error.
MayFail(r) == cancelled[r] \/ DbFaults

\* domains.name is UNIQUE: may the row of d have name n?
NameFree(n, d) ==
    \A other \in DomainIds \ {d} :
        domains[other] # None => domains[other].name # n

\* certificates.domain_id and renewal_jobs.domain_id reference domains: may a
\* row that names domain d be inserted?
BugNoForeignKeys(d) == TRUE      \* PRAGMA foreign_keys left at its default
ForeignKeyHolds(d) == domains[d] # None

\* UPDATE domains ... WHERE id = d with name n: does it find and change a row?
BugUpsert(d, n)     == NameFree(n, d)      \* INSERT OR REPLACE
RowUpdated(d, n) == domains[d] # None /\ NameFree(n, d)

Init ==
    /\ domains   = [d \in DomainIds |-> None]
    /\ known     = {}
    /\ certs     = [d \in DomainIds |-> <<>>]
    /\ jobs      = [r \in Runs |-> "none"]
    /\ live      \in [Names -> OldLineages]
    /\ cluster   = [s \in Secrets |-> None]
    /\ writes    = [s \in Secrets |-> <<>>]
    /\ pc        = [r \in Runs |-> "idle"]
    /\ dom       = [r \in Runs |-> None]
    /\ op        = [r \in Runs |-> "none"]
    /\ snap      = [r \in Runs |-> None]
    /\ cert      = [r \in Runs |-> None]
    /\ outcome   = [r \in Runs |-> "none"]
    /\ cancelled = [r \in Runs |-> FALSE]
    /\ edit      = [e \in Edits |-> [pc |-> "idle", dom |-> None, row |-> None]]

-----------------------------------------------------------------------------
(* CertificateService: how a run starts.                                   *)

\* The setting is the process's: it changes only while no run is under way.
Start(r, d, o, label) ==
    /\ pc[r] = "idle"
    /\ \A q \in Runs : InFlight(q) => (q \in Rehearsals <=> r \in Rehearsals)
    /\ d \in known
    /\ dom' = [dom EXCEPT ![r] = d]
    /\ op' = [op EXCEPT ![r] = o]
    /\ Goto(r, label)
    /\ UNCHANGED <<tables, outside, snap, cert, outcome, cancelled, edit>>

\* POST /domains/{id}/issue and /renew: the client chooses, whatever the
\* history of the domain is.
Issue(r, d) == Start(r, d, "issue", "get")
Renew(r, d) == Start(r, d, "renew", "get")

\* The scheduler's way in, for a domain of its list of due domains, which may
\* be gone by now ...
Schedule(r, d) == Start(r, d, "none", "choose")

\* ... renews when LatestForDomain finds a certificate.
EnsureCertificate(r) ==
    /\ pc[r] = "choose"
    /\ \/ /\ ~cancelled[r]
          /\ op' = [op EXCEPT ![r] = IF certs[dom[r]] # <<>> THEN "renew" ELSE "issue"]
          /\ Goto(r, "get")
       \/ /\ MayFail(r)
          /\ Goto(r, "done")
          /\ UNCHANGED op
    /\ UNCHANGED <<tables, outside, dom, snap, cert, outcome, cancelled, edit>>

-----------------------------------------------------------------------------
(* CertificateService.run, one action per call it makes.                   *)

GetDomain(r) ==
    /\ pc[r] = "get"
    /\ \/ /\ domains[dom[r]] # None
          /\ ~cancelled[r]
          /\ snap' = [snap EXCEPT ![r] = domains[dom[r]]]
          /\ Goto(r, "create")
       \/ /\ domains[dom[r]] = None \/ MayFail(r)
          /\ Goto(r, "done")
          /\ UNCHANGED snap
    /\ UNCHANGED <<tables, outside, dom, op, cert, outcome, cancelled, edit>>

\* INSERT INTO renewal_jobs: the foreign key refuses a deleted domain.
CreateJob(r) ==
    /\ pc[r] = "create"
    /\ \/ /\ ForeignKeyHolds(dom[r])
          /\ ~cancelled[r]
          /\ jobs' = [jobs EXCEPT ![r] = "running"]
          /\ Goto(r, "issue")
       \/ /\ ~ForeignKeyHolds(dom[r]) \/ MayFail(r)
          /\ Goto(r, "done")
          /\ UNCHANGED jobs
    /\ UNCHANGED <<domains, known, certs, outside, locals, cancelled, edit>>

\* The first half of succeed and fail: the job struct takes its final status.
BugForgetFailure(r, status) ==   \* fail returns before jobs.Update
    /\ outcome' = [outcome EXCEPT ![r] = status]
    /\ Goto(r, IF status = "success" THEN "finish" ELSE "status")
Decide(r, status) ==
    /\ outcome' = [outcome EXCEPT ![r] = status]
    /\ Goto(r, "finish")

\* Decrypting the credential and running certbot.  certonly and renew exit 0
\* either with a new version of the lineage or with the one there is ("not yet
\* due"); a process killed through its context may have written one already.
CallCertbot(r) ==
    /\ pc[r] = "issue"
    /\ LET n      == snap[r].name
           bumped == [live EXCEPT ![n] = @ + 1]
       IN \/ /\ op[r] = "renew" => live[n] > 0
             /\ \/ (r \in Rehearsals \/ live[n] > 0) /\ UNCHANGED live
                \/ r \notin Rehearsals /\ live' = bumped
             /\ Goto(r, "load")
             /\ UNCHANGED outcome
          \/ /\ \/ UNCHANGED live
                \/ cancelled[r] /\ r \notin Rehearsals /\ live' = bumped
             /\ Decide(r, "failed")
    /\ UNCHANGED <<tables, cluster, writes, dom, op, snap, cert, cancelled, edit>>

\* An empty result tells run that there is nothing to store.
BugResultShadowed(r) == TRUE     \* result redeclared in an inner scope
BugResultLoaded(r)   == FALSE    \* loadCertResult reads live/ in a dry run too
ResultEmpty(r) == r \in Rehearsals

\* loadCertResult, the empty result of a dry run, and encrypting the key.
LoadResult(r) ==
    /\ pc[r] = "load"
    /\ LET n == snap[r].name
       IN \/ /\ ResultEmpty(r)
             /\ Decide(r, "success")
             /\ UNCHANGED cert
          \/ /\ ~ResultEmpty(r)
             /\ live[n] > 0
             /\ cert' = [cert EXCEPT ![r] = [run |-> r, name |-> n, ver |-> live[n]]]
             /\ Goto(r, "save")
             /\ UNCHANGED outcome
          \/ /\ ~ResultEmpty(r)
             /\ Decide(r, "failed")
             /\ UNCHANGED cert
    /\ UNCHANGED <<tables, outside, dom, op, snap, cancelled, edit>>

\* INSERT INTO certificates: the foreign key refuses a deleted domain.
BugSaveIgnored(r) ==             \* certificates.Create's error only logged
    /\ pc[r] = "save"
    /\ certs' = IF ForeignKeyHolds(dom[r]) /\ ~cancelled[r]
                THEN [certs EXCEPT ![dom[r]] = Append(@, cert[r])] ELSE certs
    /\ Goto(r, "push")
    /\ UNCHANGED <<domains, known, jobs, outside, locals, cancelled, edit>>
SaveCert(r) ==
    /\ pc[r] = "save"
    /\ \/ /\ ForeignKeyHolds(dom[r])
          /\ ~cancelled[r]
          /\ certs' = [certs EXCEPT ![dom[r]] = Append(@, cert[r])]
          /\ Goto(r, "push")
          /\ UNCHANGED outcome
       \/ /\ ~ForeignKeyHolds(dom[r]) \/ MayFail(r)
          /\ Decide(r, "failed")
          /\ UNCHANGED certs
    /\ UNCHANGED <<domains, known, jobs, outside, dom, op, snap, cert, cancelled, edit>>

\* UpsertTLSSecret, to the target named by the snapshot.  The API call may
\* fail, or take effect and its answer be lost.
Upsert(r) ==
    /\ cluster' = [cluster EXCEPT ![snap[r].secret] = cert[r]]
    /\ writes' = [writes EXCEPT ![snap[r].secret] = Append(@, r)]
BugPushIgnored(r) ==             \* UpsertTLSSecret's error only logged
    /\ pc[r] = "push"
    /\ Upsert(r) \/ UNCHANGED <<cluster, writes>>
    /\ Decide(r, "success")
    /\ UNCHANGED <<tables, live, dom, op, snap, cert, cancelled, edit>>
PushSecret(r) ==
    /\ pc[r] = "push"
    /\ \/ ~cancelled[r] /\ Upsert(r) /\ Decide(r, "success")
       \/ (Upsert(r) \/ UNCHANGED <<cluster, writes>>) /\ Decide(r, "failed")
    /\ UNCHANGED <<tables, live, dom, op, snap, cert, cancelled, edit>>

\* jobs.Update in succeed and fail; its error is only logged.
FinishJob(r) ==
    /\ pc[r] = "finish"
    /\ \/ /\ jobs[r] # "none"
          /\ ~cancelled[r]
          /\ jobs' = [jobs EXCEPT ![r] = outcome[r]]
       \/ /\ jobs[r] = "none" \/ MayFail(r)
          /\ UNCHANGED jobs
    /\ Goto(r, "status")
    /\ UNCHANGED <<domains, known, certs, outside, locals, cancelled, edit>>

\* domains.Update in succeed and fail: the whole row is written as the run read
\* it, with the new status; its error is only logged.
BugAlwaysActive(r) == [snap[r] EXCEPT !.status = "active"]
BugJobStatus(r)    == [snap[r] EXCEPT !.status = outcome[r]]
StatusRow(r) ==
    [snap[r] EXCEPT !.status = IF outcome[r] = "success" THEN "active" ELSE "failed"]

WriteStatus(r) ==
    /\ pc[r] = "status"
    /\ \/ /\ RowUpdated(dom[r], snap[r].name)
          /\ ~cancelled[r]
          /\ domains' = [domains EXCEPT ![dom[r]] = StatusRow(r)]
       \/ /\ ~RowUpdated(dom[r], snap[r].name) \/ MayFail(r)
          /\ UNCHANGED domains
    /\ Goto(r, "done")
    /\ UNCHANGED <<known, certs, jobs, outside, locals, cancelled, edit>>

Step(r) ==
    \/ EnsureCertificate(r)
    \/ GetDomain(r) \/ CreateJob(r) \/ CallCertbot(r) \/ LoadResult(r)
    \/ SaveCert(r) \/ PushSecret(r) \/ FinishJob(r) \/ WriteStatus(r)

-----------------------------------------------------------------------------
(* DomainService, as far as it touches the same rows.                      *)

CreateDomain(d, n, s) ==
    /\ d \notin known
    /\ NameFree(n, d)
    /\ known' = known \cup {d}
    /\ domains' = [domains EXCEPT ![d] = [name |-> n, secret |-> s, status |-> "pending"]]
    /\ UNCHANGED <<certs, jobs, outside, pc, locals, cancelled, edit>>

\* DELETE cascades to certificates and renewal_jobs.
BugJobsKept(d) ==                \* renewal_jobs without ON DELETE CASCADE
    /\ domains[d] # None
    /\ domains' = [domains EXCEPT ![d] = None]
    /\ certs' = [certs EXCEPT ![d] = <<>>]
    /\ UNCHANGED <<known, jobs, outside, pc, locals, cancelled, edit>>
DeleteDomain(d) ==
    /\ domains[d] # None
    /\ domains' = [domains EXCEPT ![d] = None]
    /\ certs' = [certs EXCEPT ![d] = <<>>]
    /\ jobs' = [r \in Runs |-> IF dom[r] = d THEN "none" ELSE jobs[r]]
    /\ UNCHANGED <<known, outside, pc, locals, cancelled, edit>>

\* DomainService.Update: Get, and the new row in memory ...
EditRead(e, d, n, s) ==
    /\ edit[e].pc = "idle"
    /\ domains[d] # None
    /\ edit' = [edit EXCEPT ![e] =
                  [pc  |-> IF n # domains[d].name THEN "check" ELSE "write",
                   dom |-> d,
                   row |-> [name |-> n, secret |-> s, status |-> domains[d].status]]]
    /\ UNCHANGED <<tables, outside, pc, locals, cancelled>>

\* ... a rename looks the name up in List ...
EditCheck(e) ==
    /\ edit[e].pc = "check"
    /\ edit' = [edit EXCEPT ![e].pc =
                  IF NameFree(edit[e].row.name, edit[e].dom) THEN "write" ELSE "rejected"]
    /\ UNCHANGED <<tables, outside, pc, locals, cancelled>>

\* ... and domains.Update writes the whole row back.
EditWrite(e) ==
    /\ edit[e].pc = "write"
    /\ LET d   == edit[e].dom
           row == edit[e].row
       IN \/ /\ RowUpdated(d, row.name)
             /\ domains' = [domains EXCEPT ![d] = row]
             /\ edit' = [edit EXCEPT ![e].pc = "ok"]
          \/ /\ ~RowUpdated(d, row.name) \/ DbFaults
             /\ edit' = [edit EXCEPT ![e].pc = "rejected"]
             /\ UNCHANGED domains
    /\ UNCHANGED <<known, certs, jobs, outside, pc, locals, cancelled>>

-----------------------------------------------------------------------------
(* The environment.                                                        *)

\* The client of a manual run disconnects, or SIGTERM cancels the scheduler's.
Cancel(r) ==
    /\ InFlight(r)
    /\ ~cancelled[r]
    /\ cancelled' = [cancelled EXCEPT ![r] = TRUE]
    /\ UNCHANGED <<tables, outside, pc, locals, edit>>

\* The process dies; the database, certbot's directory and the cluster stay,
\* and nothing at startup looks for jobs left running.
Crash ==
    /\ \/ \E r \in Runs : InFlight(r)
       \/ \E e \in Edits : edit[e].pc \in {"check", "write"}
    /\ pc' = [r \in Runs |-> IF InFlight(r) THEN "killed" ELSE pc[r]]
    /\ edit' = [e \in Edits |->
                  IF edit[e].pc \in {"check", "write"}
                  THEN [edit[e] EXCEPT !.pc = "rejected"] ELSE edit[e]]
    /\ UNCHANGED <<tables, outside, locals, cancelled>>

Next ==
    \/ \E r \in Runs, d \in DomainIds :
          Issue(r, d) \/ Renew(r, d) \/ Schedule(r, d)
    \/ \E r \in Runs : Step(r) \/ Cancel(r)
    \/ \E d \in DomainIds, n \in Names, s \in Secrets : CreateDomain(d, n, s)
    \/ \E d \in DomainIds : DeleteDomain(d)
    \/ \E e \in Edits, d \in DomainIds, n \in Names, s \in Secrets : EditRead(e, d, n, s)
    \/ \E e \in Edits : EditCheck(e) \/ EditWrite(e)
    \/ Crash

\* A goroutine of a run is scheduled again and again, and certbot and the API
\* server answer eventually; a request need never come.
Fairness == \A r \in Runs : WF_vars(Step(r))

Spec == Init /\ [][Next]_vars /\ Fairness

-----------------------------------------------------------------------------
(* What holds.                                                             *)

TypeOK ==
    /\ domains \in [DomainIds -> DomainRow \cup {None}]
    /\ known \subseteq DomainIds
    /\ certs \in [DomainIds -> Seq(CertRow)]
    /\ jobs \in [Runs -> JobStatuses \cup {"none"}]
    /\ live \in [Names -> Nat]
    /\ cluster \in [Secrets -> CertRow \cup {None}]
    /\ writes \in [Secrets -> Seq(Runs)]
    /\ pc \in [Runs -> Pipeline \cup {"idle", "done", "killed"}]
    /\ dom \in [Runs -> DomainIds \cup {None}]
    /\ op \in [Runs -> {"none", "issue", "renew"}]
    /\ snap \in [Runs -> DomainRow \cup {None}]
    /\ cert \in [Runs -> CertRow \cup {None}]
    /\ outcome \in [Runs -> {"none", "success", "failed"}]
    /\ cancelled \in [Runs -> BOOLEAN]
    /\ edit \in [Edits -> EditState]

\* Is the certificate of run r a row of the history of its domain?
Stored(r) == dom[r] # None /\ cert[r] \in ToSet(certs[dom[r]])

Deleted(r) == dom[r] # None /\ domains[dom[r]] = None

\* Deleting a domain while runs for it are under way leaves no certificate and
\* no job behind, and none appears afterwards: the runs still hold its id and
\* go on to insert (migrations/0001_init.sql: ON DELETE CASCADE).
NoOrphans ==
    \A d \in DomainIds : domains[d] = None =>
        /\ certs[d] = <<>>
        /\ \A r \in Runs : dom[r] = d => jobs[r] = "none"

\* A job that says "success" has its certificate in the history, ready for
\* download, unless certbot only rehearsed (the order of certificates.Create,
\* UpsertTLSSecret and succeed in run).
SuccessRecorded ==
    \A r \in Runs : jobs[r] = "success" => r \in Rehearsals \/ Stored(r)

\* The cluster never serves a certificate the service has no row of: what a
\* Secret holds is in the history of the domain it was obtained for, unless
\* that domain has been deleted since.
PushedIsStored ==
    \A s \in Secrets : cluster[s] # None =>
        LET r == cluster[s].run IN Deleted(r) \/ (Stored(r) /\ cert[r] = cluster[s])

\* A job that says "success" did deliver: the run has written the Secret it was to
\* write, and what that Secret holds is its certificate or one that another run has
\* written after it.
SuccessDelivered ==
    \A r \in Runs : jobs[r] = "success" /\ r \notin Rehearsals =>
        LET s == snap[r].secret
        IN r \in ToSet(writes[s]) /\ cluster[s] = cert[Last(writes[s])]

\* Has a rehearsal for the domain gone well?
Rehearsed(d) == \E r \in Rehearsals : dom[r] = d /\ outcome[r] = "success"

\* The page never shows "active" for a domain that has no certificate, however
\* stale the row that a run or a PUT writes back, unless it was rehearsed.
ActiveWasEarned ==
    \A d \in DomainIds :
        domains[d] # None /\ domains[d].status = "active" => Rehearsed(d) \/ certs[d] # <<>>

\* No two domains ever have one name, although DomainService.Update looks the
\* name up and writes it in two statements, and a run writes back the name it
\* read long before (UNIQUE in migrations/0001_init.sql).
NamesUnique ==
    \A d \in DomainIds : domains[d] # None => NameFree(domains[d].name, d)

\* A job is left "running" only by a cancelled context, a crash or a failing
\* statement: any other run that is over has the outcome it computed on record,
\* or its domain has been deleted.
StuckOnlyIfInterrupted ==
    \A r \in Runs :
        pc[r] = "done" /\ ~cancelled[r] /\ ~DbFaults /\ ~Deleted(r) => jobs[r] = outcome[r]

\* A rehearsal (CERTBOT_DRY_RUN) leaves nothing behind: no row and no Secret is
\* from it, even when live/ holds a certificate and the next run, after a restart
\* with the setting off, is a real one (loadCertResult: "there is nothing to
\* store").
RehearsalPersistsNothing ==
    /\ \A d \in DomainIds : \A i \in DOMAIN certs[d] : certs[d][i].run \notin Rehearsals
    /\ \A s \in Secrets : cluster[s] # None => cluster[s].run \notin Rehearsals

\* A deleted domain stays deleted, whoever still writes its row back.
DeletedForever ==
    [][\A d \in known : domains[d] = None => domains'[d] = None]_vars

\* Every job that is opened is closed, unless its context is cancelled or the
\* process dies: run and its succeed and fail reach jobs.Update on every path.
JobSettles ==
    \A r \in Runs :
        jobs[r] = "running" ~> jobs[r] # "running" \/ cancelled[r] \/ pc[r] = "killed"

\* The records as RenewalLog sees them.
OpenIds    == {d \in DomainIds : domains[d] # None}
RetiredIds == {d \in known : domains[d] = None}
JobLog     == [r \in Runs |-> IF jobs[r] = "none" THEN None
                              ELSE [dom |-> dom[r], status |-> jobs[r]]]
History    == [d \in DomainIds |-> [i \in DOMAIN certs[d] |-> certs[d][i].run]]

Log == INSTANCE RenewalLog WITH
    NoEntry <- None, open <- OpenIds, retired <- RetiredIds, log <- JobLog, history <- History

\* The records of the service behave as RenewalLog says, through any
\* interleaving of requests, edits, deletions, cancellations and crashes.
RefinesLog == Log!Spec

-----------------------------------------------------------------------------
(* The inductive invariant behind the proofs of CertServiceProofs.  Shape   *)
(* says which locals are set at which point, the rest how the tables, the   *)
(* Secrets and the locals of the runs hang together.                        *)

\* Only ids that were handed out have rows.
RowsKnown == \A d \in DomainIds : domains[d] # None => d \in known

Shape ==
    /\ RowsKnown
    /\ \A r \in Runs :
          /\ IF pc[r] = "idle" THEN dom[r] = None ELSE dom[r] \in known
          /\ pc[r] \in {"create", "issue", "load", "save", "push", "finish", "status"} =>
                snap[r] # None
          /\ pc[r] \in {"save", "push"} => cert[r] # None
          /\ cert[r] # None => cert[r].run = r /\ r \notin Rehearsals
          /\ pc[r] \in {"finish", "status"} => outcome[r] # "none"
          /\ pc[r] \in {"idle", "choose", "get", "create", "issue", "load", "save", "push"} =>
                outcome[r] = "none"
    /\ \A e \in Edits :
          edit[e].pc \in {"check", "write"} => edit[e].dom \in known /\ edit[e].row # None

\* A row of certificates is the cert of a run for that very domain that has
\* passed SaveCert, so no run inserts twice.
RowsOwned ==
    \A d \in DomainIds : \A i \in DOMAIN certs[d] :
        LET r == certs[d][i].run
        IN dom[r] = d /\ cert[r] = certs[d][i]
           /\ pc[r] \in {"push", "finish", "status", "done", "killed"}

\* What a Secret holds was put there by a run that had stored it.
SecretsOwned ==
    \A s \in Secrets :
      /\ writes[s] # <<>> => cluster[s] # None
      /\ cluster[s] # None =>
        LET r == cluster[s].run
        IN /\ cert[r] = cluster[s]
           /\ snap[r] # None /\ snap[r].secret = s
           /\ Stored(r) \/ Deleted(r)
           /\ r = Last(writes[s])
           /\ pc[r] \in {"finish", "status", "done", "killed"}

\* The job of a run follows its control state ...
JobsFollow ==
    \A r \in Runs :
        /\ pc[r] \in {"idle", "choose", "get", "create"} => jobs[r] = "none"
        /\ pc[r] \in {"issue", "load", "save", "push", "finish"} =>
              jobs[r] = IF Deleted(r) THEN "none" ELSE "running"
        /\ jobs[r] = "success" => outcome[r] = "success"
        /\ pc[r] = "status" /\ ~cancelled[r] /\ ~DbFaults /\ ~Deleted(r) => jobs[r] = outcome[r]

\* ... and a run that means to report success has something to show for it.
SuccessEarned ==
    \A r \in Runs :
        /\ pc[r] = "push" => Stored(r) \/ Deleted(r)
        /\ outcome[r] = "success" =>
              \/ r \in Rehearsals
              \/ /\ Stored(r) \/ Deleted(r)
                 /\ snap[r] # None /\ r \in ToSet(writes[snap[r].secret])

\* A row that a PUT is about to write back says "active" only of a domain that
\* still has a certificate, or is gone.
EditsEarned ==
    \A e \in Edits :
        edit[e].pc \in {"check", "write"} /\ edit[e].row.status = "active" =>
            Rehearsed(edit[e].dom) \/ certs[edit[e].dom] # <<>> \/ domains[edit[e].dom] = None

IInv ==
    /\ TypeOK /\ Shape
    /\ NoOrphans /\ RowsOwned /\ SecretsOwned /\ JobsFollow /\ SuccessEarned
    /\ ActiveWasEarned /\ EditsEarned /\ StuckOnlyIfInterrupted /\ NamesUnique

-----------------------------------------------------------------------------
(* What the documentation says and the code does not do.                   *)

\* handleIssue: "A cert issuance failure (bad DNS credential, certbot error,
\* etc.) still creates and persists a job record"; JobStatus "is the outcome of
\* a RenewalJob".  A run that has returned to its caller has recorded a failure
\* it met as the failure of its job.
FailureRecorded ==
    \A r \in Runs :
        pc[r] = "done" /\ outcome[r] = "failed" /\ ~Deleted(r) => jobs[r] = "failed"

\* The fields of an acknowledged PUT apply: when a single PUT is ever made for
\* a domain and has been answered with 200, the row has its name and settings.
EditApplied ==
    \A e \in Edits :
        LET d == edit[e].dom IN
        /\ edit[e].pc = "ok"
        /\ \A other \in Edits \ {e} : edit[other].dom # d
        /\ domains[d] # None
        => /\ domains[d].name = edit[e].row.name
           /\ domains[d].secret = edit[e].row.secret
=============================================================================
