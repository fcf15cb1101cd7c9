# CertSchedule: specifications, model checking and proofs

This directory holds TLA+ specifications of CertSchedule, a web application
that obtains TLS certificates through certbot, keeps them in SQLite, renews
them from an in-process scheduler and writes them into Kubernetes Secrets.
Every action is translated from the Go source; paths below are relative to the
root of the repository. `PROJECT.json` maps each definition to its lines.

    tlc -config core_race.cfg MCCertService      # model-check an instance
    tlapm CertServiceProofs.tla                  # check the proofs

## 1. The system

One process, one SQLite connection (`SetMaxOpenConns(1)`), one replica. Requests
are served by a goroutine each; the scheduler's ticks are goroutines too.
Nothing serialises requests that concern the same domain.

| Component | State it keeps | Operations | Talks to |
|---|---|---|---|
| Certificate service (`internal/application/certificate_service.go`) | per run: domain row it read, job, result of certbot | `Issue`, `Renew`, `EnsureCertificate`, `run`, `succeed`, `fail` | all repositories, certbot, Kubernetes |
| Domain service (`domain_service.go`) | none | `Create`, `Update`, `Delete`, `Export`, `Import` | domain repository, encryption |
| Repositories (`internal/adapters/sqlite`) | tables `domains`, `certificates`, `renewal_jobs`, `users` | one statement per method; `UNIQUE(name)`, foreign keys with `ON DELETE CASCADE` | SQLite |
| Scheduler (`scheduler_service.go`, `internal/adapters/scheduler/cron.go`) | the cron entry, the due list of a tick | `Start`, `Stop`, `Tick` | domain repository, certificate service |
| certbot executor (`internal/adapters/certbot/executor.go`) | certbot's directory: lineages, credentials files | `Issue`, `Renew`, `loadCertResult` | the certbot process |
| certbot archive (`archive.go`) | none | `WriteFullArchive` | the same directory |
| Secret client (`internal/adapters/k8s/secret_client.go`) | none | `UpsertTLSSecret`: Get, then Create or Update | the API server |
| HTTP API (`internal/adapters/httpapi`) | none | handlers, authentication | the services |
| Login (`auth_service.go`, `jwtutil`, `user_repo.go`) | the accounts | `Login`, `EnsureUser` at startup | users table |
| Lifecycle (`cmd/server/main.go`, `internal/adapters/sqlite/db.go`) | the signal context, the connection, `schema_migrations` | `Open` and its migrations, startup, shutdown in the order of the deferred calls | everything |
| Web interface (`web/src`) | cached queries, a form, the token | pages over the API | HTTP API |

How they interact: a handler or a tick calls the certificate service, which reads
the domain row, inserts a job, runs certbot for seconds or minutes, inserts the
certificate, writes the Secret and finally updates the job and the *whole* domain
row it read at the start. Meanwhile other handlers may edit or delete that row,
other runs may do the same for the same domain, the client may disconnect (which
cancels the context that all of these calls use), the process may be stopped.

What is hard, and what must hold nevertheless:

* **Certificate service**: interleaved runs, edits and deletions; cancellation
  between any two calls; crashes; partial failure (stored but not pushed). A job
  that says `success` must have its certificate stored and delivered; a Secret must
  never hold a certificate the history lacks; a deleted domain must leave nothing
  behind and must not come back; statuses must have been earned.
* **Scheduler**: ticks that overlap, stale due lists, failures of neighbours,
  restarts that postpone the next tick, rows that runs write back, the form in which
  times are stored and compared. Every domain must get its turn, in time, and a
  certificate must not expire while the scheduler is in charge of renewing it.
* **Domain service**: uniqueness of names although looked up and written in two
  statements; credentials that fit the challenge; Export followed by Import.
* **certbot executor and archive**: files read one after the other where certbot, or a
  certbot that was killed, has moved some of the links; a domain and its wildcard under
  one directory name; credentials files that are stale, truncated or gone; a backup
  walked beside all this. What a run returns must be one certificate with its own key
  and of its domain, obtained with the credential of the request; a backup must have
  what its links point to.
* **Secret client**: other writers between Get and Update.
* **Lifecycle, migrations, login**: kills and failures within the loop of migrations, and
  another release afterwards; ticks and requests that are still at work, perhaps in a
  certbot that hangs, when the deferred calls run; an account that is configured anew. The
  schema must fit the program, nothing may meet the closed database, a signal must end
  the process, and the administrator must be able to log in.
* **Web interface**: forms saved from stale rows.

`PROJECT.json` lists these hazards at their lines, with the properties that would
notice them going wrong.

## 2. Modules

| Module | Contents |
|---|---|
| `CertService` | the certificate service with the requests that touch the same rows |
| `RenewalLog` | the abstract specification: what the records promise |
| `CertServiceProofs` | invariants of `CertService` for all constants |
| `CertServiceRefinement` | `CertService` implements `RenewalLog` |
| `MCCertService` | instances for TLC (symmetry sets) |
| `Scheduler` | cron, the due query, ticks, users and the passing of time |
| `SchedulerProofs` | types, `FirstInTime` and `NoneSkipped` for all constants |
| `MCScheduler` | instances for TLC |
| `DomainService` | Create, Update, Delete, Export and Import with credentials |
| `DomainServiceProofs` | its invariants for all constants |
| `MCDomainService` | an instance for TLC |
| `SecretUpsert` | `UpsertTLSSecret` and the other users of a Secret |
| `AtomicSecret` | the abstract specification: what `CertService` takes it for |
| `SecretUpsertProofs` | invariants and the refinement for all constants |
| `MCSecretUpsert` | instances for TLC |
| `CertbotExecutor` | the executor, certbot's directory and the backup of it |
| `CertbotExecutorProofs` | its invariants for all constants |
| `CertIssuer` | the abstract specification: what its port promises |
| `CertbotIssuer` | the refinement mapping, with a history variable |
| `CertbotIssuerProofs` | `CertbotExecutor` implements `CertIssuer`, for all constants |
| `MCCertbotExecutor` | an instance for TLC: a domain and its wildcard |
| `Lifecycle` | the lives of the process: migrations, the account, work, shutdown |
| `LifecycleProofs` | its invariants for all constants |
| `MCLifecycle` | an instance for TLC |

How they fit together: `CertService` takes a run of certbot for three steps (`CallCertbot`,
`LoadResult` and what they may meet), which `CertbotExecutor` looks into; it takes
`UpsertTLSSecret` for one, which `SecretUpsert` justifies; `Scheduler` takes a run of
`CertService` for two, and `Lifecycle` ticks and requests for as little as a statement or a
call of certbot at a time. `CertIssuer` is what these steps of a run may rely on. `DomainService` shares the table of domains with `CertService`
and has, of a run, the row it reads and writes back.

### CertService

State: the tables (`domains`, `certs`, `jobs`), certbot's `live` directory, the
Secrets (`cluster`), and per run the local variables of `run`: `dom` (its
parameter), `op` (certonly or renew), `snap` (`d`), `cert` (what it read from
`live`), `outcome` (`job.Status`), `cancelled` (its context), `pc` (its next call).
`known` is the set of ids ever handed out: clients and ticks may hold dead ones.
`Rehearsals` are the runs made while the process has `CERTBOT_DRY_RUN` set: runs that are
under way together share the setting, and it changes between lives of the container. A
rehearsal that succeeds reports success and sets the domain `active` without a
certificate, so `SuccessRecorded` and `ActiveWasEarned` except it.
`edit` is the same for PUT requests. `writes` is a history variable: the runs that have
written each Secret, in order (`Upsert`).

Actions, in the order of `run`: `EnsureCertificate` (scheduler only), `GetDomain`,
`CreateJob`, `CallCertbot`, `LoadResult`, `SaveCert`, `PushSecret`, then `succeed`
or `fail` (`Decide`) and its two statements `FinishJob` and `WriteStatus`. Each is
one call to a repository, to certbot or to the API server, with its success and its
error path. A statement is atomic, since there is one connection. `CreateDomain`,
`DeleteDomain` and `EditRead`/`EditCheck`/`EditWrite` are the domain service;
`Cancel` is the client or SIGTERM, `Crash` the end of the process.

Abstractions. `secret` in a domain row stands for all the columns a PUT overwrites
beside the name. A certificate is the run that stored it, the lineage it came from
and its version. certbot may succeed with a new version, succeed with the old one
("not yet due"), fail, or be killed after it wrote; a renewal without lineage fails.
The Kubernetes write is atomic but may fail, or take effect while its answer is
lost. `created_at` is stamped just before the insert, and the model takes the order
of inserts for the order of `created_at`. A certbot process that survives the crash
of its parent is not modelled. `CreateDomain` models only the accepted request;
a refused one changes nothing.

What it does not promise: two overlapping runs for one domain may push in the opposite
order of their certificates, and leave the older one in the Secret although both are
recorded as a success (`certificate_service.go:233`). No text of the repository says
otherwise, and `SuccessDelivered` is stated accordingly: the run has itself written the
Secret (a push that failed and is reported as a success will not do, whatever the Secret
held before), and the Secret holds its certificate or that of a run that wrote it later.

### Scheduler

A run is two steps here; its inside is CertService. Its start reads the row (`job`
carries it), its end has its effects and writes the whole row back, so a rename or a
switch of `auto_renew` made meanwhile is undone (`WriteBack`; the old name may be taken by
then, in which case the row stays as it is). A certificate is the number of time units it
has left (`latest` in the history, `line` in certbot's directory), `wait` the time until
cron fires. `Workers` bounds how many ticks and manual runs are under way at once. `Fire`
is cron, `ListDue`/`ListFails` the query, `Visit`, `RunSucceeds`, `RunUnpushed`,
`RunFails`, `EndTick` the loop of `Tick`; the list may be stale, and a domain that has
just been given a certificate may be renewed again, which costs a call of certbot and no
more. `Advance` is time; `Restart` kills the process and starts it again within a unit,
which begins a new interval. `Events` says which events an instance has; a `"fault"` is a
query, a statement or a certbot that fails for once. `Broken` are domains whose runs
always fail. `Prompt` says whether a tick is over within a unit of time: with the default
interval of 12 hours and units of, say, an hour this is the normal case; nothing in the
code enforces it (`executor.go` sets no timeout), so the run about overlap does without it.

`owed` and `lost` are history variables: how long a domain with `auto_renew` on and
nothing wrong with it has waited for its first certificate (`Waits`), and the part of it
that failed queries, its own failed runs and restarts have cost, an interval each (`Note`).

The due query. `ListDueForRenewal` compares the text in `expires_at` with
`datetime(?, '+N days')` of a bound `time.Time`. The DSN of `db.go` has no `_time_format`,
so the driver writes the time as `Time.String()` does (`BoundTime`), and SQLite's
`datetime()` makes NULL of a text that ends in `+0000 UTC` (`Datetime`). A comparison
with NULL is not true (`NotAfter`), and so `Due` holds of domains without a certificate
and of no other. `Datetime` and the driver's rendering are external: they are not code of
this repository, but the query, the DSN and the value that is bound are. What the ticks
do is therefore to give every domain its *first* certificate, and the properties that
pass are about that; that certificates are renewed is `NeverExpires`, which
`found_expired` refutes. If times were bound in a form that `datetime()` reads,
`BoundTime == "ISO 8601"` would be the only change to the model.

### DomainService

State: the table `domains`, now with challenge, provider, credential and settings of
each row; `known`, the ids handed out; `backup`, the file `Export` made; and per
request `pc`, `held` (the row a PUT or a certificate run has read and will write),
`byName` (the listing of `Import`) and `left` (the entries of the backup it has yet to
read). `clean` is a history variable: has anybody else written a row, or has a statement
failed, since this import listed the domains? `entries` counts made-up entries.

Actions: `Create` and `Delete` are one statement each; a PUT is `UpdateRead`,
`UpdateLookup` (only for a new name) and `WriteBack`; `Export` reads once; an import is
`ImportList`, then one of `ImportUpdate`, `ImportCreate`, `ImportError` per entry, then
`ImportEnd`. A certificate run is `RunRead` and `WriteBack`: it is here because it
writes back name, kind and credential as it had read them. `Supplied`, `CanSeal` and
`Seal` are `encryptCredential` and the conditions around it: a secret access key alone
does not count as a credential, an unknown provider is accepted for http-01 and in an
import without credentials, and an import creates a dns-01 domain that has none.

Abstractions. Encryption keeps what it is given, so a credential is the plugin it was
made for and one value for the fields that were sent. Namespace, Secret name and
`auto_renew` are always written together: `target`. A file is not fixed in advance: an
import may be given any next entry of `Configs`, up to `MaxEntries` for all files
together, or the entries of the backup, in any order. One export is made. Any statement
may fail, also because the client has gone. Requests that are refused before they
write anything change nothing, and `Create` models only the accepted ones; refused PUTs
end at `UpdateRead` without a step. A crash is not a separate step either: it leaves
the table as it is and the requests without a further step, which is a behaviour of the
model already.

What it does not promise. A PUT or an import without credentials writes back the
credential it had read, so it can undo a concurrent change of it; that is the lost edit
of `found_lost_edit` again. A backup made without credentials restores dns-01 domains
that cannot issue until credentials are added, as the comment of `Import` says, and a
credential stored for an http-01 domain is exported but not created again by an import;
`Restored` is stated accordingly.

### SecretUpsert

`UpsertTLSSecret` request by request (`pc`: `get`, then `create` or `update`, then what
it returned) for one Secret, with the object as `Get` returned it (`existing`). The API
server is modelled from what the client relies on: it refuses to create an object that
exists, to update one whose `resourceVersion` is no longer current, and to change the
type of a Secret; any request may fail, also after it took effect. Other users of the
cluster write, edit and delete the Secret at any time (`ForeignWrite`, `ForeignEdit`,
`ForeignDelete`). What a Secret carries beside the pair, labels and further data keys,
is one value (`extra`). A certificate is the call that brought it.

`AtomicSecret` is the view `CertService` has of a call (`PushSecret`): it takes effect
at one moment, or fails, having taken effect or not. `RefinesAtomic` is what makes that
one step of `CertService` sound, whatever others do meanwhile. A Secret of another type
is never updated: such a call always fails.

### CertbotExecutor

State, of certbot's directory: `credentials/<name>.ini`, and per lineage its
configuration (`conf`), the newest version in `archive/`, where each of the three links in
`live/` points (`link`), the version to go back to while they are moved (`rollback`), and
certbot's `lock`. Of each call of `Issue` or `Renew`: its step, the request, the files it
has read (`got`), and `met`, a history variable: the runs for the same directory that were
under way together with it. `backup` is a download of the archive: how far its walk has
come, the versions it has copied, the lineages with a link to a version it has not
(`dangling`), and those that runs have worked on meanwhile (`touched`).

Actions, in the order of the code: `Begin`; `ChallengeArgs` and `WriteCredentials` (the
file is truncated, then written); `Launch` (`cmd.CombinedOutput`), and the error of certbot
in `Ended`; `Load` (a dry run returns nothing) and `ReadFiles`, one file at a time;
`Deliver`. `BackUp`, `WalkArchive`, `WalkLive` are `WriteFullArchive` and its handler;
`Restart` ends everything under way, and may find the credentials cleaned up, or the whole
directory gone, as the comment in `Renew` expects.

certbot is outside this repository, and is modelled from how `executor.go` uses it, with
these assumptions, marked external in `PROJECT.json`: one certbot at a time works on a
directory and a second gives up; a renewal writes a new version and then moves the links
one by one; a certbot that is killed (`exec.CommandContext` on a cancelled context) leaves
them as they are, and the next certbot that reads the lineage moves them back; the very
first version of a lineage is put in place in one step; the directory of a wildcard is the
name without its `*.`, and a lineage whose directory is taken goes elsewhere; `renew` uses
the authenticator and the credentials file on record.

What follows from these assumptions and is not promised. `live/*.example.com` never
exists, so a run for a wildcard domain fails in `loadCertResult` although certbot has
obtained the certificate, and a domain whose wildcard is managed too may be given the
wildcard's certificate: `ResultFits` excepts exactly that. Three reads may mix versions
while another run for the directory is under way, and a backup may hold a link without its
target while a run for that lineage is: `PairMatches` and `BackupWhole` except these, and
say that nothing else, neither killed certbots nor restarts nor other lineages, leads there.

`CertIssuer` is the port (`ports.go`) as a promise to `CertificateService`: per directory
the certificate in place (`live`), per call what it was made for and how it ended. A call
may put a newer certificate of the same lineage in place in the directory of its name
(`Replace`), and answers with files none of which is older than what was in place when it
was made (`floor`), or with an error; a call that no other for its directory has met
answers with exactly what is in place. A rehearsal replaces nothing and answers nothing.
`CertbotIssuer` maps the executor to it. What is in place is where the links point or, from
the moment a new version is written until the last link is moved or moved back, the version
to go back to (`InPlace`), so writing, linking and repairing are invisible, and one step,
`ObtainFirst` or `Switched`, is the replacement. `floor` is a history variable: each step of
`CertbotExecutor` determines its next value, and it restricts none of them, so what holds of
`IssuerSpec` without `floor` holds of `Spec`.

### Lifecycle

State: on the volume, the migrations the database has gone through, in order
(`applied`), the table `schema_migrations` (`recorded`), the accounts (`users`); of the
process, its release and account (`release`, `admin`), where `run` is (`phase`), the loop
of `migrate` (`next`, `tx`), whether the signal context is cancelled, the database open,
the scheduler firing; and each tick and request: in the database, in certbot, or over.
`overdue` is a history variable: did `run` go on past requests that were still under way?

Actions: `Start` to `Migrated` are `Open` and `migrate` with the transaction of each
migration, any statement of which may fail (`MigrationFails`); `Seed` is the rest of the
start, which may fail before or after the account is written; `Fire`, `TickWorks`,
`TickEnds`, `Accept`, `RequestWorks` the work; `Signal`, `Shutdown`, `ServeError`,
`Drained`, `DrainExpires` and then the deferred calls in their order, `StopFiring` and
`CronStopped` (`Cron.Stop`), `CloseDb`, `Exit`. `Kill` is possible at any point. A release
embeds a prefix of the migrations, and every life may be of another release, older or
newer, with another account. There is one process at a time: the deployment has one
replica and the strategy `Recreate`.

What it does not promise. A name that is no longer configured keeps its account and
password. When the server fails without a signal, `Cron.Stop` waits for ticks that nothing
cancels, so a certbot that hangs keeps the process from ending (`main.go:121`);
`SignalEnds` speaks of signals only. A handler whose run takes longer than `WriteTimeout`
is worked off, but the client no longer hears of it.

## 3. What is model-checked

Passing runs:

| Run | Instance | Shows |
|---|---|---|
| `core_race` | 2 runs, 1 PUT, 1 domain, 2 names, 2 Secrets | `NoOrphans`, `SuccessRecorded`, `PushedIsStored`, `SuccessDelivered`, `ActiveWasEarned`, `StuckOnlyIfInterrupted`, `DeletedForever`, the inductive invariant `IInv`, and that the records refine `RenewalLog` |
| `core_settle` | 2 runs, one of them a dry run, an old lineage in `live` or none, fairness, no symmetry | `RehearsalPersistsNothing`, `JobSettles` |
| `sched_first` | a healthy and a broken domain, 2 names, 2 workers, interval 2, time lost up to 4, every event | `FirstInTime`, exactly at the boundary |
| `sched_turns` | the same domains, ticks that overlap, renames, deletions, faults, fairness | `Attended`, `NoneSkipped` |
| `domain_service` | 2 requests (PUT, import or run), POST, DELETE and one export, 2 domains, 2 names, 4 kinds of bodies | `NamesUnique`, `CredentialFits`, `KindStays`, `Restored` |
| `secret_upsert` | 3 calls, one Secret, 3 or more versions, other users | `PairMatches`, `OthersKept`, `RefinesAtomic` |
| `certbot_files` | 2 runs, 5 requests for a domain and its wildcard, 2 credentials, one backup, restarts | `PairMatches`, `ResultFits`, `OwnCredential`, `BackupWhole`, `RefinesIssuer`, the inductive invariant `IssuerInv` |
| `lifecycle` | 2 releases, 4 accounts, 2 ticks, 2 requests, any number of lives | `SchemaSound`, `SchemaReady`, `DbOutlivesTicks`, `RequestsHonoured`, `AdminLogsIn`, `SignalEnds`, the inductive invariant `IInv` |

Why the bounds are enough. The hazards of the certificate service are between two
actors on one domain (run against run, run against PUT, run against DELETE), and each
run or PUT is used once, so two runs and one PUT exhibit every pair; names collide with
two domains, which `domain_service` has. In `sched_first` a domain waits for a tick that
has to get past a broken neighbour, beside one manual run; `MaxLost` admits two failures or
restarts in one wait. If Tick stops at the neighbour's failure, as its mutant does, nobody
is charged for the turn that is lost, and the property fails. A certificate lives for one
unit there, since no tick goes by what it has left.
Symmetry is used only for sets whose members nothing orders
and never in a run that checks liveness. Deadlock is not checked in the runs of
`CertService`, `DomainService`, `SecretUpsert` and `CertbotExecutor`: requests end and none need follow. In
`Scheduler` time never stops, but the runs are bounded by `Workers`.

In `domain_service` every hazard is between one request that holds a row or a listing and
one that changes the table: two requests, beside creations and deletions, which need no
memory, cover all pairs. `Configs` has a body with a Cloudflare token, one with AWS keys,
one without credentials, and one without a name for an unknown provider; two made-up
entries let one import create a row and then update it.

In `secret_upsert` a call has at most one write, and a conflict takes two writers
and a reader: three calls, and three changes by others in any order between them, cover
create against create, update against update, and deletion against both.

In `certbot_files` a run meets at most one other that disturbs it, and a killed certbot is
followed by one that finds what it left: two runs. A lineage may exist at the start, so a
run can renew, be killed between two links, and the other can come upon the result, with
the same request, another credential or the wildcard with either provider. A domain over
http-01 is left to the proofs: its runs take the path of Route 53, without a file. Versions
end at 3 because each run makes at most one. Deadlock is not checked: calls end.

In `lifecycle` two migrations give every way for a life to stop between, within and after
them and for an older release to follow a newer; lives are not counted, since each starts
with what the volume holds. Two ticks and two requests are one that waits and one that
moves. Deadlock is checked: the process can always be started again.

Fairness. `JobSettles` needs that a goroutine goes on and that certbot and the API
server answer (weak fairness of `Step`); nothing obliges a user to send a request.
`Attended` needs the same of ticks, that time passes, that cron fires, and that the due
query does not fail for ever (strong fairness of `ListDue`). `SignalEnds` needs that the
goroutine of `run` goes on when it can, its ten-second timer included, and that a tick whose
context is cancelled ends, since its certbot is killed and its statements fail (weak
fairness of `Main` and of `TickEnds`); a tick or request that nothing cancels may hang in
certbot for ever.

Runs that end in a violation, each showing that the code does not do what a comment,
a document or a test says:

* `found_cancelled` - `FailureRecorded`. A client disconnects; certbot is killed
  through the context, and `fail` uses the same cancelled context for `jobs.Update`.
  The job stays `running` for ever (`certificate_service.go:262`).
* `found_lost_edit` - `EditApplied`. A PUT is answered with 200 while certbot runs; the
  run then writes the whole row back as it had read it (`certificate_service.go:268`).
* `found_expired` - `NeverExpires`. Nothing goes wrong in this run: one domain, prompt
  ticks, no failures. It is issued its first certificate, and from then on no tick lists
  it, because the due query compares with NULL (`domain_repo.go:116`; see Scheduler). The
  README (line 8) and `ports.go:16` say that certificates near expiry are renewed.
* `found_renamed` - `Renewable`. After a rename, `Renew` is called with `--cert-name` of
  the new name (`executor.go:160`), for which certbot has no lineage, and the page of the
  domain, which has a certificate, offers nothing but Renew.

One more consequence of the due query has no run. The certificate is stored before the
Secret is written (`certificate_service.go:221-233`), so a domain whose Secret could not be
written has a certificate and is not listed again: `RunUnpushed` is final until a user
renews by hand. The job does say that it failed (`SuccessDelivered`).

## 4. What is proved

All theorems hold for every value of the constants that satisfies the named
assumptions of the modules (`None` is no value of the other kinds, flags are Boolean,
durations are natural numbers).

**CertService.** No property is inductive by itself, so the invariant is built in
layers, and `InductiveInvariant` puts them together as `IInv`:

1. *Typing*: `TypeOK` and `Shape` (which locals are set at which point): `TypeCorrect`.
2. *Records*: `RowsOwned` (a row of `certificates` is the result of a run for that very
   domain that has passed `SaveCert`, so a run inserts at most once) and `JobsFollow`
   (the job of a run follows its control state, and is gone with its domain): this
   gives `NoOrphansEver` and `StuckOnlyIfInterruptedEver`; with ids never reused,
   `DeletedForeverHolds`.
3. *Evidence*: `SuccessEarned` (a run that means to report success has stored its
   certificate and has itself written its Secret, or its domain is gone) and `SecretsOwned`
   (what a Secret holds was stored first, by the run that wrote it last). The lemmas `LocalsStay`, `HistoryGrows` and
   `StoredStays` say what no other step can take away: hence `SuccessRecordedEver`,
   `PushedIsStoredEver`, `SuccessDeliveredEver`. A rehearsal is never at `SaveCert` or
   `PushSecret` with a certificate in hand (`Shape`), and history and Secrets grow by
   nothing else: `RehearsalPersistsNothingEver` (the lemma `RehearsedStays`).
4. *Earned*: a row or a PUT under way that says `active` is of a domain with a
   certificate or of one that is gone: `ActiveWasEarnedEver`.
5. *Names*: every write of a row checks the other names: `NamesUniqueEver`.

`CertServiceRefinement` proves `Implementation == Spec => RefinesLog`: every step of
the service is a step of `RenewalLog` or leaves its variables alone. The lemma
`RowOwner` is the key: a certificate recorded for a run belongs to its domain, so a
deletion drops exactly the entries of one domain. The lemma `LogIsFinal` then shows of the
log what its header says in words, and the service inherits it: `RecordsFinalEver`, no run,
however stale or cancelled, reopens a settled job or takes a certificate out of a history.

`JobsNearTheirEndEver` is the safety half of `JobSettles`: an open job of a run that is not
interrupted has that run at a `Place` before `jobs.Update` (`OpenJobs`), every step of the
run closes the job or moves to a later place (`StepAdvances`), and no step of another moves
it (`OthersLeaveIt`).

**Scheduler.** `FirstInTimeEver`: where ticks are prompt, a domain waits for its first
certificate no longer than an interval and what failures and restarts have cost it; for any
number of domains, names, ticks and manual runs, whatever fails, is renamed, deleted,
switched or written back beside it. `FirstInTime` says nothing about a tick and is not
inductive; the invariant `Punctual` is. Of each domain that waits, `OnTime` says that what
it has waited leaves room for the time until the next tick, or that a tick is under way that
has still to deal with it (`Turn`). A step that takes no time keeps this if it charges the
domain for the turn or the time it takes away (`NotedInTime`): a firing gives everybody a
turn, a run that ends takes one from nobody but its own domain (`PunctualRun`), and time
passes only when all workers are idle, so that nobody has a turn (`PunctualTime`).

`NoneSkippedEver` is the safety half of `Attended`: a domain leaves the list of a tick only
with a run of its own, with its deletion, or with the process. Of the worker that holds the
list this is `ListShrinks`, of all others `ListKept`; both need `ListsHeld`, that none but a
tick under way has a list.

**DomainService.** `IInv` joins four parts. `RowsFaithful`: every row in memory, in `held`
or in a listing, has a credential of its own provider and the challenge and provider of
the domain it came from, so writing it back, however stale, changes no kind
(`CredentialFitsEver`, `KindStaysEver`; the lemma `Writing`). `NamesUnique`: whoever
writes, the table checks the name; the lookup in `Update` adds nothing
(`NamesUniqueEver`). `BackupSound`: a backup has one entry per name, and each is one that
`Import` accepts. `Restoring`: the listing of an undisturbed import is still that of the
table, and every entry it has read is back (`RestoredEver`; the lemmas `Progress` and
`NoProgress`, for an entry that is written and for one that is not).

**SecretUpsert.** The inductive invariant adds `VersionsTell`: an object whose version
is the one a call has read *is* the object the call has read. Hence an update that the
API server accepts replaces the pair in the current object and nothing else
(`ReplacementFacts`), which gives `OthersKeptEver`, `PairMatchesEver` and
`Implementation == Spec => RefinesAtomic`.

**CertbotExecutor.** `IInv` joins six parts beside the types. `Shape`: who has a request,
holds the lock, has read what. `LineagesSound`: the links of a lineage part only while
there is a version to go back to. `Together`: runs for one directory that are under way
have met. `Alone` is the heart of it: a run that has met no other finds, from the start of
its certbot on, a lineage that is whole, whose files are those it has read, and its own
credential in the file; every action of another run is by a run for another directory, or
the two have met (`LineageChanges`, for all actions that change a lineage). `GotFits`: a
file belongs in the directory it was read from. `WalkSound`: a walk knows which lineages
runs have worked on, and the others are as they were. Hence `PairMatchesEver`,
`ResultFitsEver`, `OwnCredentialEver` and `BackupWholeEver`, for any number of runs, names,
wildcards and credentials.

`CertbotIssuerProofs` proves `Implementation == IssuerSpec => RefinesIssuer`. The invariant
is `IssuerInv`: `IInv` with `Grounded` (links are never behind the version in place, there
is a newer one in `archive/` while they are moved, and a certbot at work has a lineage that
is whole) and `NoneOlder` (what was in place when a run began is so still, or a newer version
is, and no file the run has read is older). `StepSeen` sorts the steps of a run into four
kinds: it returns (`ReturnEnds`), goes on unseen (`GoesOnUnseen`), reads a file (`ReadSeen`,
an answer when it is the third) or replaces a certificate (`ReplacementSeen`); `WholeAnswer`
is what `Alone` means for the caller.

**Lifecycle.** `SchemaSound` alone is not inductive: that a migration is committed in order
needs `Shape`, by which the loop of `migrate` is never past the end of what was applied
(`next <= Len(applied) + 1`) and a transaction is open only for a name not on record
(`SchemaStep`, `ShapeMigrate`). `Shape` also says which parts of the process are up in which
phase, whence `SchemaReadyEver` and `DbOutlivesTicksEver`; with it, a request meets the
closed database or the exit only when it is overdue (`RequestsStep`): `RequestsHonouredEver`.
`LoginStep` gives `AdminLogsInEver`.

`StopsForGoodEver` is the safety half of `SignalEnds`: after a signal `run` only moves to a
later `Place` (`PhaseAdvances`), and once cron is stopped no tick begins and each one under
way is cancelled (`TicksDwindle`), so `Cron.Stop` waits for fewer and fewer. It needs `Deaf`:
`run` opens the database before it has a context for signals.

Only model-checked: `JobSettles`, `Attended` and `SignalEnds`. Liveness under fairness, and
the `ENABLED` in it, is out of the prover's reach. What they rest on beside fairness is proved
(`JobsNearTheirEndEver`, `NoneSkippedEver`, `StopsForGoodEver`): progress is never undone. That
the steps which make it are possible and are taken is left to TLC, and so is, for `Attended`,
that a domain without a certificate comes to be on a list. The five inputs and two credentials of
`certbot_files`, the bodies of `domain_service` and every other bound of section 3 do not
occur in the theorems.

## 5. What is not modelled

* Encryption: library calls on opaque bytes. Where a ciphertext is kept matters and is
  modelled (`DomainService`).
* Tokens (`jwtutil`, `middleware.go`): signed and checked by a library and kept nowhere.
* Routing, the JSON of answers, static files, logging, `config.Load` beside the values that
  may differ between lives, the formats of tar and gzip, PEM and X.509.
* The web interface: its pages are caches over the API, and what reaches the server is a
  request that `DomainService` and `CertService` admit with any contents in any order. A
  form that is filled from a stale row and saved is such a request; the API has no version
  that could tell it from another, so no property of the server forbids it.
* The columns of time beside the due query: they are written and shown. Inside SQLite and
  its driver, whatever is not said under Scheduler.
* Inside certbot, whatever the assumptions listed under CertbotExecutor do not say.
