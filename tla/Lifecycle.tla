------------------------------- MODULE Lifecycle -------------------------------
(***************************************************************************)
(* The lives of the process, cmd/server/main.go: the database is opened    *)
(* and brought up to date (sqlite/db.go), the account of the administrator *)
(* is seeded, ticks and HTTP requests are served beside each other, and a  *)
(* signal or an error of the server takes everything down again through    *)
(* http.Server.Shutdown and the deferred calls of run.  The volume with    *)
(* the database outlives the process, which may also be killed at any      *)
(* moment and come back as another release with another configuration.     *)
(* There is one process at a time (deployment.yaml: Recreate).             *)
(* Operators named Bug... are faults a change of the code could introduce; *)
(* no other definition uses them.                                          *)
(***************************************************************************)
EXTENDS Naturals, Sequences

CONSTANTS Migrations, \* how many migrations the latest release embeds
          Users,      \* names an administrator may be given
          Passwords,
          Requests,   \* requests to the HTTP server, each used once in a life
          Ticks,      \* goroutines of the cron scheduler
          None        \* no account, no transaction

ASSUME MigrationsAssumption == Migrations \in Nat \ {0}

ASSUME NoneAssumption == None \notin Passwords /\ None \notin [ran : BOOLEAN, noted : BOOLEAN]

\* A release embeds the migrations 1 .. n, in the order of their names.
Releases == 1 .. Migrations

Admin == [name : Users, password : Passwords]

VARIABLES
    applied,    \* the migrations whose statements the database has gone through
    recorded,   \* table schema_migrations
    users,      \* table users: the password of each account, or None
    release,    \* what this process embeds
    admin,      \* ADMIN_USERNAME and ADMIN_PASSWORD of this process
    phase,      \* where run is
    next,       \* the migration the loop of migrate is at
    tx,         \* its transaction: what it has done so far
    signalled,  \* has ctx been cancelled by SIGTERM or SIGINT?
    open,       \* is the *sql.DB open?
    firing,     \* does the cron scheduler start ticks?
    tick,       \* each tick
    request,    \* each request
    overdue     \* did requests stay behind, after Shutdown's 10 s or an error of the server?

volume  == <<applied, recorded, users>>
setting == <<release, admin>>
work    == <<tick, request>>
vars    == <<applied, recorded, users, release, admin, phase, next, tx,
             signalled, open, firing, tick, request, overdue>>

Busy(h)    == request[h] \in {"db", "certbot"}
Running(t) == tick[t] # "off"
Waiting    == \E h \in Requests : Busy(h)
Ticking    == \E t \in Ticks : Running(t)

Init ==
    /\ applied = <<>> /\ recorded = {} /\ users = [u \in Users |-> None]
    /\ release \in Releases /\ admin \in Admin
    /\ phase = "down" /\ next = 1 /\ tx = None
    /\ signalled = FALSE /\ open = FALSE /\ firing = FALSE
    /\ tick = [t \in Ticks |-> "off"]
    /\ request = [h \in Requests |-> "none"]
    /\ overdue = FALSE

-----------------------------------------------------------------------------
(* Starting: sqlite.Open and seedAdminUser.                                *)

\* config.Load, and sqlite.Open as far as migrate.
Start(n, a) ==
    /\ phase = "down"
    /\ release' = n /\ admin' = a
    /\ phase' = "migrate" /\ next' = 1 /\ tx' = None
    /\ signalled' = FALSE /\ open' = TRUE /\ firing' = FALSE
    /\ tick' = [t \in Ticks |-> "off"]
    /\ request' = [h \in Requests |-> "none"]
    /\ overdue' = FALSE
    /\ UNCHANGED volume

BugOnePast == next <= release + 1    \* the loop runs past the last name
Pending == next <= release

\* SELECT COUNT(1) FROM schema_migrations: done in an earlier life, or to do now.
SkipMigration ==
    /\ phase = "migrate" /\ tx = None
    /\ Pending /\ next \in recorded
    /\ next' = next + 1
    /\ UNCHANGED <<volume, setting, phase, tx, signalled, open, firing, work, overdue>>

BugNoteFirst ==                      \* db.Exec of the INSERT, before db.Begin
    /\ phase = "migrate" /\ tx = None
    /\ Pending /\ next \notin recorded
    /\ tx' = [ran |-> FALSE, noted |-> TRUE]
    /\ recorded' = recorded \cup {next}
    /\ UNCHANGED <<applied, users, setting, phase, next, signalled, open, firing, work, overdue>>
BeginMigration ==
    /\ phase = "migrate" /\ tx = None
    /\ Pending /\ next \notin recorded
    /\ tx' = [ran |-> FALSE, noted |-> FALSE]
    /\ UNCHANGED <<volume, setting, phase, next, signalled, open, firing, work, overdue>>

\* tx.Exec of its statements, and of the INSERT of its name.
RunMigration ==
    /\ phase = "migrate" /\ tx # None /\ ~tx.ran
    /\ tx' = [tx EXCEPT !.ran = TRUE]
    /\ UNCHANGED <<volume, setting, phase, next, signalled, open, firing, work, overdue>>

NoteMigration ==
    /\ phase = "migrate" /\ tx # None /\ tx.ran /\ ~tx.noted
    /\ tx' = [tx EXCEPT !.noted = TRUE]
    /\ UNCHANGED <<volume, setting, phase, next, signalled, open, firing, work, overdue>>

CommitMigration ==
    /\ phase = "migrate" /\ tx # None /\ tx.ran /\ tx.noted
    /\ applied' = Append(applied, next)
    /\ recorded' = recorded \cup {next}
    /\ next' = next + 1 /\ tx' = None
    /\ UNCHANGED <<users, setting, phase, signalled, open, firing, work, overdue>>

\* A statement or the commit fails: the transaction is rolled back, Open closes
\* the database and run returns.
BugErrorLogged ==                    \* the loop goes on after an error
    /\ phase = "migrate" /\ Pending
    /\ next' = next + 1 /\ tx' = None
    /\ UNCHANGED <<volume, setting, phase, signalled, open, firing, work, overdue>>
MigrationFails ==
    /\ phase = "migrate" /\ Pending
    /\ tx' = None /\ phase' = "down" /\ open' = FALSE
    /\ UNCHANGED <<volume, setting, next, signalled, firing, work, overdue>>

Migrated ==
    /\ phase = "migrate" /\ tx = None
    /\ ~Pending
    /\ phase' = "seed"
    /\ UNCHANGED <<volume, setting, next, tx, signalled, open, firing, work, overdue>>

\* EnsureUser: INSERT ... ON CONFLICT(username) DO UPDATE.
BugDoNothing == IF users[admin.name] = None THEN [users EXCEPT ![admin.name] = admin.password]
                ELSE users           \* ON CONFLICT(username) DO NOTHING
Seeded == [users EXCEPT ![admin.name] = admin.password]

\* The scheduler is started, and the HTTP server; without the account, or
\* without a scheduler or an encryption key that can be used, run returns.
Seed ==
    /\ phase = "seed"
    /\ \/ ~signalled /\ users' = Seeded /\ phase' = "serve" /\ firing' = TRUE
       \/ users' \in {users, Seeded} /\ phase' = "close" /\ UNCHANGED firing
    /\ UNCHANGED <<applied, recorded, setting, next, tx, signalled, open, work, overdue>>

-----------------------------------------------------------------------------
(* Working.                                                                *)

\* The cron scheduler starts a tick in a goroutine of its own, up to Cron.Stop.
Fire(t) ==
    /\ firing /\ tick[t] = "off"
    /\ tick' = [tick EXCEPT ![t] = "db"]
    /\ UNCHANGED <<volume, setting, phase, next, tx, signalled, open, firing, request, overdue>>

\* Statements and runs of certbot take turns; certbot may hang.
TickWorks(t) ==
    /\ Running(t)
    /\ tick' \in {[tick EXCEPT ![t] = l] : l \in {"db", "certbot", "off"} \ {tick[t]}}
    /\ UNCHANGED <<volume, setting, phase, next, tx, signalled, open, firing, request, overdue>>

\* Once ctx is cancelled every statement fails and every certbot is killed.
BugDetached(t) == FALSE              \* Tick is given context.Background()
Cancelled(t) == signalled

TickEnds(t) ==
    /\ Running(t) /\ Cancelled(t)
    /\ tick' = [tick EXCEPT ![t] = "off"]
    /\ UNCHANGED <<volume, setting, phase, next, tx, signalled, open, firing, request, overdue>>

\* The listener accepts until Shutdown closes it or the server fails.
Accept(h) ==
    /\ phase = "serve" /\ request[h] = "none"
    /\ request' = [request EXCEPT ![h] = "db"]
    /\ UNCHANGED <<volume, setting, phase, next, tx, signalled, open, firing, tick, overdue>>

\* Handlers have the context of their connection: a signal does not touch them.
\* A statement on the closed database fails, and the answer is a 500.  Answered
\* means that the handler has returned: WriteTimeout may have cut the client off.
RequestWorks(h) ==
    /\ Busy(h)
    /\ request' \in {[request EXCEPT ![h] = l] :
                        l \in IF request[h] = "db" /\ ~open THEN {"refused"}
                              ELSE {"db", "certbot", "answered"} \ {request[h]}}
    /\ UNCHANGED <<volume, setting, phase, next, tx, signalled, open, firing, tick, overdue>>

-----------------------------------------------------------------------------
(* Stopping.                                                               *)

\* SIGTERM and SIGINT cancel ctx, once NotifyContext has been called.
Signal ==
    /\ phase \notin {"down", "migrate"} /\ ~signalled
    /\ signalled' = TRUE
    /\ UNCHANGED <<volume, setting, phase, next, tx, open, firing, work, overdue>>

\* The server stops listening and waits for its requests ...
Shutdown ==
    /\ phase = "serve" /\ signalled
    /\ phase' = "drain"
    /\ UNCHANGED <<volume, setting, next, tx, signalled, open, firing, work, overdue>>

\* ... or ListenAndServe fails, and run returns as things stand.
ServeError ==
    /\ phase = "serve"
    /\ phase' = "quiesce" /\ overdue' = TRUE
    /\ UNCHANGED <<volume, setting, next, tx, signalled, open, firing, work>>

BugNoWait == TRUE                    \* Close instead of Shutdown
Idle == ~Waiting

Drained ==
    /\ phase = "drain" /\ Idle
    /\ phase' = "quiesce"
    /\ UNCHANGED <<volume, setting, next, tx, signalled, open, firing, work, overdue>>

\* The ten seconds of shutdownCtx.
DrainExpires ==
    /\ phase = "drain" /\ ~Idle
    /\ phase' = "quiesce" /\ overdue' = TRUE
    /\ UNCHANGED <<volume, setting, next, tx, signalled, open, firing, work>>

\* Cron.Stop: no further tick is started, and those under way are waited for.
StopFiring ==
    /\ phase = "quiesce" /\ firing
    /\ firing' = FALSE
    /\ UNCHANGED <<volume, setting, phase, next, tx, signalled, open, work, overdue>>

BugStopReturns == ~firing            \* the channel of Stop is not read
Quiet == ~firing /\ ~Ticking

CronStopped ==
    /\ phase = "quiesce" /\ Quiet
    /\ phase' = "close"
    /\ UNCHANGED <<volume, setting, next, tx, signalled, open, firing, work, overdue>>

CloseDb ==
    /\ phase = "close"
    /\ open' = FALSE /\ phase' = "exit"
    /\ UNCHANGED <<volume, setting, next, tx, signalled, firing, work, overdue>>

\* Requests that are still under way go with the process.
Exit ==
    /\ phase = "exit"
    /\ phase' = "down"
    /\ request' = [h \in Requests |-> IF Busy(h) THEN "cut" ELSE request[h]]
    /\ UNCHANGED <<volume, setting, next, tx, signalled, open, firing, tick, overdue>>

\* SIGKILL, a crash, a lost node; a signal before NotifyContext.
Kill ==
    /\ phase # "down"
    /\ phase' = "down" /\ tx' = None /\ open' = FALSE /\ firing' = FALSE
    /\ tick' = [t \in Ticks |-> "off"]
    /\ request' = [h \in Requests |-> IF Busy(h) THEN "killed" ELSE request[h]]
    /\ UNCHANGED <<volume, setting, next, signalled, overdue>>

Main ==
    \/ SkipMigration \/ BeginMigration \/ RunMigration \/ NoteMigration
    \/ CommitMigration \/ MigrationFails \/ Migrated \/ Seed
    \/ Shutdown \/ Drained \/ DrainExpires \/ StopFiring \/ CronStopped \/ CloseDb \/ Exit

Next ==
    \/ \E n \in Releases, a \in Admin : Start(n, a)
    \/ Main
    \/ \E t \in Ticks : Fire(t) \/ TickWorks(t) \/ TickEnds(t)
    \/ \E h \in Requests : Accept(h) \/ RequestWorks(h)
    \/ Signal \/ ServeError \/ Kill

\* The goroutine of run goes on whenever it can: its timer fires, and what it
\* waits for wakes it.  A tick that has been cancelled comes to its end; nothing
\* makes any other tick or a request end, or a signal arrive.
Fairness == WF_vars(Main) /\ \A t \in Ticks : WF_vars(TickEnds(t))

Spec == Init /\ [][Next]_vars /\ Fairness

-----------------------------------------------------------------------------
(* What holds.                                                             *)

Phases == {"down", "migrate", "seed", "serve", "drain", "quiesce", "close", "exit"}

TypeOK ==
    /\ applied \in Seq(Releases) /\ recorded \subseteq Releases
    /\ users \in [Users -> Passwords \cup {None}]
    /\ release \in Releases /\ admin \in Admin
    /\ phase \in Phases /\ next \in 1 .. Migrations + 1
    /\ tx \in [ran : BOOLEAN, noted : BOOLEAN] \cup {None}
    /\ signalled \in BOOLEAN /\ open \in BOOLEAN /\ firing \in BOOLEAN /\ overdue \in BOOLEAN
    /\ tick \in [Ticks -> {"off", "db", "certbot"}]
    /\ request \in [Requests -> {"none", "db", "certbot", "answered", "refused", "cut", "killed"}]

\* Whatever releases have come and gone, and wherever they were killed, the
\* database has gone through each migration up to some point exactly once and in
\* order, and says so (migrate: the statements and the name in one transaction).
SchemaSound ==
    /\ recorded = 1 .. Len(applied)
    /\ \A i \in 1 .. Len(applied) : applied[i] = i

\* No tick and no request finds a schema older than the program that runs it
\* (Open: "applies any pending embedded migrations").
SchemaReady ==
    Ticking \/ Waiting => release <= Len(applied)

\* No tick ever meets the closed database, on whichever way run returns (Cron.Stop
\* "blocks until the currently running job (if any) completes", before db.Close).
DbOutlivesTicks == Ticking => open

\* A request that was accepted is worked off with the database open before the
\* process exits, unless it outlasts the ten seconds of Shutdown, the server has
\* failed, or the process is killed.
RequestsHonoured ==
    \A h \in Requests : request[h] \in {"refused", "cut"} => overdue

\* AuthService.Login: the account by its name, and its password.
LogsIn(u, p) == users[u] = p

\* Whoever reaches the server can log in with the name and password it was started
\* with, whatever earlier lives have left in the table (EnsureUser).
AdminLogsIn == phase \in {"serve", "drain"} => LogsIn(admin.name, admin.password)

\* Once a signal has reached run the process comes to its end, even when a certbot
\* of a tick or of a request hangs.
SignalEnds == signalled ~> phase = "down"

-----------------------------------------------------------------------------
(* The inductive invariant behind the proofs of LifecycleProofs.           *)

Serving == {"serve", "drain", "quiesce"}
Ending  == {"close", "exit"}

\* Which parts of the process are up in which phase of run, and how far the loop
\* of migrate has come.
Shape ==
    /\ phase \in {"migrate", "seed", "close"} \cup Serving => open
    /\ phase \in {"down", "exit"} => ~open
    /\ firing => phase \in Serving
    /\ Ticking => phase \in Serving
    /\ Waiting => phase \in Serving \cup Ending
    /\ Waiting /\ phase \notin {"serve", "drain"} => overdue
    /\ tx # None => phase = "migrate" /\ Pending /\ next \notin recorded /\ (tx.noted => tx.ran)
    /\ phase = "migrate" => next <= Len(applied) + 1 /\ next <= release + 1
    /\ phase \in {"seed"} \cup Serving => release <= Len(applied)
    /\ phase \in Ending /\ Waiting => release <= Len(applied)

IInv ==
    TypeOK /\ Shape /\ SchemaSound /\ RequestsHonoured /\ AdminLogsIn
=============================================================================
