---------------------------- MODULE LifecycleProofs ----------------------------
(***************************************************************************)
(* Theorems about Lifecycle for any number of migrations, accounts, ticks  *)
(* and requests.  The inductive invariant is IInv of the module: Shape     *)
(* says which parts of the process are up in which phase of run, and that  *)
(* the loop of migrate has met every migration before the one it is at.    *)
(***************************************************************************)
EXTENDS Lifecycle, TLAPS

LEMMA FirstMigration == 1 \in 1 .. Migrations + 1
  BY MigrationsAssumption

LEMMA TypeInit == Init => TypeOK
  <1> SUFFICES ASSUME Init PROVE TypeOK
    OBVIOUS
  <1>1. users \in [Users -> Passwords \cup {None}]
    BY DEF Init
  <1>2. /\ tick \in [Ticks -> {"off", "db", "certbot"}]
        /\ request \in [Requests ->
                         {"none", "db", "certbot", "answered", "refused", "cut", "killed"}]
    BY DEF Init
  <1>3. applied \in Seq(Releases) /\ recorded \subseteq Releases
    BY DEF Init
  <1> QED
    BY <1>1, <1>2, <1>3, FirstMigration DEF Init, TypeOK, Phases

LEMMA TypeStep ==
    ASSUME TypeOK, Shape, Next
    PROVE  TypeOK'
  <1>1. ASSUME NEW n \in Releases, NEW a \in Admin, Start(n, a)
        PROVE  TypeOK'
    BY <1>1, FirstMigration DEF TypeOK, Start, volume, Phases
  <1>2. CASE SkipMigration
    BY <1>2, MigrationsAssumption DEF TypeOK, SkipMigration, volume, setting, work, Pending, Releases
  <1>3. CASE BeginMigration
    BY <1>3 DEF TypeOK, BeginMigration, volume, setting, work
  <1>4. CASE RunMigration
    BY <1>4 DEF TypeOK, RunMigration, volume, setting, work
  <1>5. CASE NoteMigration
    BY <1>5 DEF TypeOK, NoteMigration, volume, setting, work
  <1>6. CASE CommitMigration
    <2>1. next \in Releases /\ next + 1 \in 1 .. Migrations + 1
      BY <1>6, MigrationsAssumption DEF TypeOK, Shape, CommitMigration, Pending, Releases
    <2>2. applied' \in Seq(Releases) /\ recorded' \subseteq Releases
      BY <1>6, <2>1 DEF TypeOK, CommitMigration
    <2> QED
      BY <1>6, <2>1, <2>2 DEF TypeOK, CommitMigration, setting, work
  <1>7. CASE MigrationFails
    BY <1>7 DEF TypeOK, MigrationFails, volume, setting, work, Phases
  <1>8. CASE Migrated
    BY <1>8 DEF TypeOK, Migrated, volume, setting, work, Phases
  <1>9. CASE Seed
    <2>1. Seeded \in [Users -> Passwords \cup {None}]
      BY DEF TypeOK, Seeded, Admin
    <2> QED
      BY <1>9, <2>1 DEF TypeOK, Seed, setting, work, Phases
  <1>10. CASE Shutdown \/ Drained \/ DrainExpires \/ CronStopped \/ ServeError
    BY <1>10 DEF TypeOK, Shutdown, Drained, DrainExpires, CronStopped, ServeError,
                 volume, setting, work, Phases
  <1>11. CASE StopFiring \/ CloseDb \/ Signal
    BY <1>11 DEF TypeOK, StopFiring, CloseDb, Signal, volume, setting, work, Phases
  <1>12. CASE Exit
    BY <1>12 DEF TypeOK, Exit, volume, setting, Phases
  <1>13. CASE Kill
    BY <1>13 DEF TypeOK, Kill, volume, setting, Phases
  <1>14. ASSUME NEW t \in Ticks, Fire(t) \/ TickWorks(t) \/ TickEnds(t)
         PROVE  TypeOK'
    BY <1>14 DEF TypeOK, Fire, TickWorks, TickEnds, volume, setting
  <1>15. ASSUME NEW h \in Requests, Accept(h) \/ RequestWorks(h)
         PROVE  TypeOK'
    BY <1>15 DEF TypeOK, Accept, RequestWorks, volume, setting
  <1> QED
    BY <1>1, <1>2, <1>3, <1>4, <1>5, <1>6, <1>7, <1>8, <1>9, <1>10, <1>11, <1>12,
       <1>13, <1>14, <1>15 DEF Next, Main

\* A transaction is committed for the migration after the last one applied.
LEMMA SchemaStep ==
    ASSUME TypeOK, Shape, SchemaSound, Next
    PROVE  SchemaSound'
  <1>1. CASE CommitMigration
    <2>1. /\ applied \in Seq(Releases) /\ next \in Nat /\ next >= 1
          /\ next <= Len(applied) + 1 /\ next \notin 1 .. Len(applied)
          /\ next \in Releases
      BY <1>1, MigrationsAssumption
      DEF TypeOK, Shape, SchemaSound, CommitMigration, Pending, Releases
    <2>2. next = Len(applied) + 1
      BY <2>1
    <2>3. applied' = Append(applied, next) /\ recorded' = recorded \cup {next}
      BY <1>1 DEF CommitMigration, Shape
    <2>4. Len(applied') = Len(applied) + 1 /\ Len(applied) \in Nat
      BY <2>1, <2>3
    <2>5. recorded' = 1 .. Len(applied')
      BY <2>2, <2>3, <2>4 DEF SchemaSound
    <2>6. ASSUME NEW i \in 1 .. Len(applied')
          PROVE  applied'[i] = i
      BY <2>1, <2>2, <2>3, <2>4, <2>6 DEF SchemaSound
    <2> QED
      BY <2>5, <2>6 DEF SchemaSound
  <1>2. CASE UNCHANGED <<applied, recorded>>
    BY <1>2 DEF SchemaSound
  <1>3. CommitMigration \/ UNCHANGED <<applied, recorded>>
    BY DEF Next, Main, Start, SkipMigration, BeginMigration, RunMigration, NoteMigration,
           MigrationFails, Migrated, Seed, Shutdown, Drained, DrainExpires, CronStopped,
           ServeError, StopFiring, CloseDb, Signal, Exit, Kill, Fire, TickWorks, TickEnds,
           Accept, RequestWorks, volume
  <1> QED
    BY <1>1, <1>2, <1>3

\* A request is refused or cut only by the closed database and the exit.
LEMMA RequestsStep ==
    ASSUME TypeOK, Shape, RequestsHonoured, Next
    PROVE  RequestsHonoured'
  <1>1. CASE UNCHANGED <<request, overdue>>
    BY <1>1 DEF RequestsHonoured
  <1>2. CASE ServeError \/ DrainExpires
    BY <1>2 DEF RequestsHonoured, ServeError, DrainExpires
  <1>3. ASSUME NEW n \in Releases, NEW a \in Admin, Start(n, a)
        PROVE  RequestsHonoured'
    BY <1>3 DEF RequestsHonoured, Start
  <1>4. ASSUME NEW h \in Requests, Accept(h)
        PROVE  RequestsHonoured'
    BY <1>4 DEF RequestsHonoured, Accept, TypeOK
  <1>5. ASSUME NEW h \in Requests, RequestWorks(h)
        PROVE  RequestsHonoured'
    <2>1. ~open => overdue
      BY <1>5 DEF RequestWorks, Shape, Waiting, TypeOK, Phases, Serving, Ending
    <2>2. UNCHANGED overdue
      BY <1>5 DEF RequestWorks
    <2>3. ASSUME NEW g \in Requests, request'[g] \in {"refused", "cut"}
          PROVE  overdue
      BY <1>5, <2>1, <2>3 DEF RequestWorks, RequestsHonoured, TypeOK
    <2> QED
      BY <2>2, <2>3 DEF RequestsHonoured
  <1>6. CASE Exit
    BY <1>6 DEF RequestsHonoured, Exit, Shape, Waiting, TypeOK
  <1>7. CASE Kill
    BY <1>7 DEF RequestsHonoured, Kill, TypeOK
  <1> QED
    BY <1>1, <1>2, <1>3, <1>4, <1>5, <1>6, <1>7
    DEF Next, Main, SkipMigration, BeginMigration, RunMigration, NoteMigration,
        CommitMigration, MigrationFails, Migrated, Seed, Shutdown, Drained, CronStopped,
        StopFiring, CloseDb, Signal, Fire, TickWorks, TickEnds, work

\* The account is there when the server starts, and nothing takes it away.
LEMMA LoginStep ==
    ASSUME TypeOK, AdminLogsIn, Next
    PROVE  AdminLogsIn'
  <1>1. CASE UNCHANGED <<users, admin, phase>>
    BY <1>1 DEF AdminLogsIn, LogsIn
  <1>2. CASE phase' \notin {"serve", "drain"}
    BY <1>2 DEF AdminLogsIn
  <1>3. CASE Seed
    BY <1>3 DEF Seed, Seeded, AdminLogsIn, LogsIn, TypeOK, Admin, setting
  <1>4. CASE Shutdown
    BY <1>4 DEF Shutdown, AdminLogsIn, LogsIn, volume, setting
  <1> QED
    BY <1>1, <1>2, <1>3, <1>4
    DEF Next, Main, Start, SkipMigration, BeginMigration, RunMigration, NoteMigration,
        CommitMigration, MigrationFails, Migrated, ServeError, Drained, DrainExpires,
        CronStopped, StopFiring, CloseDb, Signal, Exit, Kill, Fire, TickWorks, TickEnds,
        Accept, RequestWorks, work, volume, setting

\* The first migration is never past the end of what has been applied.
LEMMA FirstFits == applied \in Seq(Releases) => Len(applied) \in Nat
  OBVIOUS

\* The loop of migrate, one step at a time.
LEMMA ShapeMigrate ==
    ASSUME TypeOK, Shape, SchemaSound,
           SkipMigration \/ BeginMigration \/ RunMigration \/ NoteMigration \/ CommitMigration
    PROVE  Shape'
  <1>1. /\ phase = "migrate" /\ open /\ ~firing /\ ~Ticking /\ ~Waiting
        /\ next <= Len(applied) + 1 /\ next <= release
    BY DEF Shape, SkipMigration, BeginMigration, RunMigration, NoteMigration, CommitMigration,
           Serving, Ending, Pending
  <1>2. UNCHANGED <<phase, open, firing, tick, request, release>>
    BY DEF SkipMigration, BeginMigration, RunMigration, NoteMigration, CommitMigration,
           setting, work
  <1>3. ~Ticking' /\ ~Waiting'
    BY <1>1, <1>2 DEF Ticking, Waiting, Running, Busy
  <1>4. /\ Len(applied) \in Nat /\ next \in Nat /\ release \in Nat
        /\ next \in recorded => next <= Len(applied)
    BY FirstFits, MigrationsAssumption DEF TypeOK, Releases, SchemaSound
  <1>5. next' <= Len(applied') + 1 /\ next' <= release + 1
    <2>1. CASE SkipMigration
      BY <2>1, <1>1, <1>4 DEF SkipMigration, volume
    <2>2. CASE CommitMigration
      <3>1. applied' = Append(applied, next) /\ next' = next + 1
        BY <2>2 DEF CommitMigration, Shape
      <3>2. next \in Releases
        BY <1>1, <1>4, MigrationsAssumption DEF TypeOK, Releases
      <3>3. Len(applied') = Len(applied) + 1
        BY <3>1, <3>2 DEF TypeOK
      <3> QED
        BY <3>1, <3>3, <1>1, <1>4
    <2>3. CASE BeginMigration \/ RunMigration \/ NoteMigration
      <3>1. UNCHANGED <<next, applied>>
        BY <2>3 DEF BeginMigration, RunMigration, NoteMigration, volume
      <3> QED
        BY <3>1, <1>1, <1>4
    <2> QED
      BY <2>1, <2>2, <2>3
  <1>6. tx' # None => Pending' /\ next' \notin recorded' /\ (tx'.noted => tx'.ran)
    <2>1. CASE SkipMigration \/ CommitMigration
      BY <2>1 DEF SkipMigration, CommitMigration
    <2>2. CASE BeginMigration
      BY <2>2 DEF BeginMigration, Pending, volume, setting
    <2>3. CASE RunMigration \/ NoteMigration
      <3>1. tx # None /\ tx \in [ran : BOOLEAN, noted : BOOLEAN]
        BY <2>3 DEF RunMigration, NoteMigration, TypeOK
      <3>2. Pending /\ next \notin recorded /\ (tx.noted => tx.ran)
        BY <3>1 DEF Shape
      <3>3. UNCHANGED <<next, recorded, release>>
        BY <2>3 DEF RunMigration, NoteMigration, volume, setting
      <3>4. tx'.ran
        BY <2>3, <3>1 DEF RunMigration, NoteMigration
      <3> QED
        BY <3>2, <3>3, <3>4 DEF Pending
    <2> QED
      BY <2>1, <2>2, <2>3
  <1> QED
    BY <1>1, <1>2, <1>3, <1>5, <1>6 DEF Shape, Serving, Ending

\* Run goes from one phase to the next.
LEMMA ShapeRun ==
    ASSUME TypeOK, Shape,
           \/ Migrated \/ Seed \/ Shutdown \/ ServeError \/ Drained \/ DrainExpires
           \/ StopFiring \/ CronStopped \/ CloseDb \/ Signal
    PROVE  Shape'
  <1>1. UNCHANGED <<tick, request, applied, recorded, release, next, tx>>
    BY DEF Migrated, Seed, Shutdown, ServeError, Drained, DrainExpires, StopFiring,
           CronStopped, CloseDb, Signal, volume, setting, work
  <1>2. Ticking' = Ticking /\ Waiting' = Waiting /\ Pending' = Pending
    BY <1>1 DEF Ticking, Waiting, Running, Busy, Pending
  <1>3. Len(applied) \in Nat /\ next \in Nat /\ release \in Nat
    BY FirstFits, MigrationsAssumption DEF TypeOK, Releases
  <1>4. CASE Migrated
    BY <1>1, <1>2, <1>3, <1>4 DEF Migrated, Shape, Serving, Ending, Pending
  <1>5. CASE Seed
    BY <1>1, <1>2, <1>5 DEF Seed, Shape, Serving, Ending
  <1>6. CASE Shutdown \/ ServeError \/ DrainExpires
    BY <1>1, <1>2, <1>6 DEF Shutdown, ServeError, DrainExpires, Shape, Serving, Ending
  <1>7. CASE Drained
    BY <1>1, <1>2, <1>7 DEF Drained, Idle, Shape, Serving, Ending
  <1>8. CASE StopFiring \/ Signal
    BY <1>1, <1>2, <1>8 DEF StopFiring, Signal, Shape, Serving, Ending
  <1>9. CASE CronStopped
    BY <1>1, <1>2, <1>9 DEF CronStopped, Quiet, Shape, Serving, Ending
  <1>10. CASE CloseDb
    BY <1>1, <1>2, <1>10 DEF CloseDb, Shape, Serving, Ending
  <1> QED
    BY <1>4, <1>5, <1>6, <1>7, <1>8, <1>9, <1>10

\* The process comes up, and goes down.
LEMMA ShapeLife ==
    ASSUME TypeOK, Shape,
           \/ \E n \in Releases, a \in Admin : Start(n, a)
           \/ MigrationFails \/ Exit \/ Kill
    PROVE  Shape'
  <1>1. Len(applied) \in Nat
    BY FirstFits DEF TypeOK
  <1>2. ASSUME NEW n \in Releases, NEW a \in Admin, Start(n, a)
        PROVE  Shape'
    <2>1. ~Ticking' /\ ~Waiting'
      BY <1>2 DEF Start, Ticking, Waiting, Running, Busy
    <2>2. 1 <= Len(applied) + 1 /\ 1 <= n + 1
      BY <1>1, MigrationsAssumption DEF Releases
    <2> QED
      BY <1>2, <2>1, <2>2 DEF Start, Shape, Serving, Ending, volume
  <1>3. CASE MigrationFails
    <2>1. ~Ticking' /\ ~Waiting'
      BY <1>3 DEF MigrationFails, Shape, Serving, Ending, Ticking, Waiting, Running, Busy, work
    <2> QED
      BY <1>3, <2>1 DEF MigrationFails, Shape, Serving, Ending
  <1>4. CASE Exit
    <2>1. ~Ticking' /\ ~Waiting'
      BY <1>4 DEF Exit, Shape, Serving, Ticking, Waiting, Running, Busy, TypeOK
    <2> QED
      BY <1>4, <2>1 DEF Exit, Shape, Serving, Ending
  <1>5. CASE Kill
    <2>1. ~Ticking' /\ ~Waiting'
      BY <1>5 DEF Kill, Ticking, Waiting, Running, Busy, TypeOK
    <2> QED
      BY <1>5, <2>1 DEF Kill, Shape, Serving, Ending
  <1> QED
    BY <1>2, <1>3, <1>4, <1>5

\* Ticks and requests come and go while the process serves.
LEMMA ShapeWork ==
    ASSUME TypeOK, Shape,
           \/ \E t \in Ticks : Fire(t) \/ TickWorks(t) \/ TickEnds(t)
           \/ \E h \in Requests : Accept(h) \/ RequestWorks(h)
    PROVE  Shape'
  <1>1. UNCHANGED <<applied, recorded, users, release, admin, phase, next, tx, signalled,
                    open, firing, overdue>>
    BY DEF Fire, TickWorks, TickEnds, Accept, RequestWorks, volume, setting
  <1>2. Ticking' => Ticking \/ firing
    BY DEF Fire, TickWorks, TickEnds, Accept, RequestWorks, Ticking, Running, TypeOK
  <1>3. Waiting' => Waiting \/ phase = "serve"
    BY DEF Fire, TickWorks, TickEnds, Accept, RequestWorks, Waiting, Busy, TypeOK
  <1> QED
    BY <1>1, <1>2, <1>3 DEF Shape, Serving, Ending, Pending

LEMMA ShapeStep ==
    ASSUME TypeOK, Shape, SchemaSound, Next
    PROVE  Shape'
  BY ShapeMigrate, ShapeRun, ShapeLife, ShapeWork DEF Next, Main

LEMMA IInvInit == Init => IInv
  <1> SUFFICES ASSUME Init PROVE IInv
    OBVIOUS
  <1>1. ~Ticking /\ ~Waiting
    BY DEF Init, Ticking, Waiting, Running, Busy
  <1>2. Shape
    BY <1>1 DEF Init, Shape, Serving, Ending
  <1>3. SchemaSound
    BY DEF Init, SchemaSound
  <1>4. RequestsHonoured /\ AdminLogsIn
    BY DEF Init, RequestsHonoured, AdminLogsIn
  <1> QED
    BY <1>2, <1>3, <1>4, TypeInit DEF IInv

LEMMA IInvStep == IInv /\ [Next]_vars => IInv'
  <1>1. ASSUME IInv, Next
        PROVE  IInv'
    BY <1>1, TypeStep, ShapeStep, SchemaStep, RequestsStep, LoginStep DEF IInv
  <1>2. ASSUME IInv, UNCHANGED vars
        PROVE  IInv'
    BY <1>2 DEF IInv, vars, TypeOK, Shape, Ticking, Waiting, Running, Busy, Pending, Serving,
                Ending, SchemaSound, RequestsHonoured, AdminLogsIn, LogsIn
  <1> QED
    BY <1>1, <1>2

\* The parts of the process are up and down together, and the loop of migrate
\* leaves nothing out (IInv, behind all theorems of this module).
THEOREM InductiveInvariant == Spec => []IInv
  BY IInvInit, IInvStep, PTL DEF Spec

\* Every variable keeps its type, for any number of migrations, accounts and work.
THEOREM TypeCorrect == Spec => []TypeOK
  <1>1. IInv => TypeOK
    BY DEF IInv
  <1> QED
    BY <1>1, InductiveInvariant, PTL

\* The database has gone through the migrations up to some point, each once and in
\* order, and says so, whatever was killed where (migrate, one transaction each).
THEOREM SchemaSoundEver == Spec => []SchemaSound
  <1>1. IInv => SchemaSound
    BY DEF IInv
  <1> QED
    BY <1>1, InductiveInvariant, PTL

\* No tick and no request meets a schema older than its program (Open).
THEOREM SchemaReadyEver == Spec => []SchemaReady
  <1>1. IInv => SchemaReady
    BY DEF IInv, Shape, SchemaReady, Serving, Ending
  <1> QED
    BY <1>1, InductiveInvariant, PTL

\* No tick meets the closed database (Cron.Stop, deferred after db.Close).
THEOREM DbOutlivesTicksEver == Spec => []DbOutlivesTicks
  <1>1. IInv => DbOutlivesTicks
    BY DEF IInv, Shape, DbOutlivesTicks, Serving
  <1> QED
    BY <1>1, InductiveInvariant, PTL

\* An accepted request is answered from the open database unless it is overdue or
\* the process is killed (http.Server.Shutdown).
THEOREM RequestsHonouredEver == Spec => []RequestsHonoured
  <1>1. IInv => RequestsHonoured
    BY DEF IInv
  <1> QED
    BY <1>1, InductiveInvariant, PTL

\* The configured administrator can log in while the server serves (EnsureUser).
THEOREM AdminLogsInEver == Spec => []AdminLogsIn
  <1>1. IInv => AdminLogsIn
    BY DEF IInv
  <1> QED
    BY <1>1, InductiveInvariant, PTL

-----------------------------------------------------------------------------
(* What SignalEnds rests on beside fairness: the way of run to its end.    *)

Place(p) ==
    CASE p = "migrate" -> 1 [] p = "seed"    -> 2 [] p = "serve" -> 3 [] p = "drain" -> 4
      [] p = "quiesce" -> 5 [] p = "close"   -> 6 [] p = "exit"  -> 7 [] OTHER -> 8

\* Once a signal has come run only goes forward, the signal is not forgotten before
\* its end, and when cron has been stopped no tick begins and those under way are
\* cancelled: nothing is left that could keep Cron.Stop waiting again and again.
StopsForGood ==
    [][signalled /\ phase # "down" =>
          /\ signalled'
          /\ phase' # phase => Place(phase') > Place(phase)
          /\ phase = "quiesce" /\ ~firing =>
                /\ ~firing'
                /\ \A t \in Ticks : /\ tick[t] = "off" => tick'[t] = "off"
                                    /\ Running(t) => Cancelled(t)]_vars

\* run is not signalled before it has a context for it.
Deaf == phase = "migrate" => ~signalled

LEMMA DeafNext ==
    ASSUME Deaf, [Next]_vars
    PROVE  Deaf'
  <1>1. CASE \E n \in Releases, a \in Admin : Start(n, a)
    BY <1>1 DEF Start, Deaf
  <1>2. CASE Signal
    BY <1>2 DEF Signal, Deaf
  <1>3. CASE signalled' = signalled /\ (phase' = phase \/ phase' # "migrate")
    BY <1>3 DEF Deaf
  <1> QED
    BY <1>1, <1>2, <1>3
    DEF Next, Main, SkipMigration, BeginMigration, RunMigration, NoteMigration, CommitMigration,
        MigrationFails, Migrated, Seed, Shutdown, Drained, DrainExpires, StopFiring, CronStopped,
        CloseDb, Exit, Fire, TickWorks, TickEnds, Accept, RequestWorks, ServeError, Kill, vars

LEMMA PhaseAdvances ==
    ASSUME TypeOK, Deaf, [Next]_vars, signalled, phase # "down"
    PROVE  signalled' /\ (phase' # phase => Place(phase') > Place(phase))
  <1>1. CASE phase' = phase /\ signalled'
    BY <1>1
  <1>2. CASE Seed \/ Shutdown \/ Drained \/ DrainExpires \/ CronStopped \/ CloseDb \/ Exit \/ ServeError
    <2>1. signalled' = signalled
      BY <1>2 DEF Seed, Shutdown, Drained, DrainExpires, CronStopped, CloseDb, Exit, ServeError
    <2>2. /\ Place("seed") = 2 /\ Place("serve") = 3 /\ Place("drain") = 4 /\ Place("quiesce") = 5
          /\ Place("close") = 6 /\ Place("exit") = 7 /\ Place("down") = 8
      BY DEF Place
    <2>3. CASE Seed
      BY <2>3, <2>2 DEF Seed
    <2>4. CASE Shutdown
      BY <2>4, <2>2 DEF Shutdown
    <2>5. CASE ServeError
      BY <2>5, <2>2 DEF ServeError
    <2>6. CASE Drained
      BY <2>6, <2>2 DEF Drained
    <2>7. CASE DrainExpires
      BY <2>7, <2>2 DEF DrainExpires
    <2>8. CASE CronStopped
      BY <2>8, <2>2 DEF CronStopped
    <2>9. CASE CloseDb
      BY <2>9, <2>2 DEF CloseDb
    <2>10. CASE Exit
      BY <2>10, <2>2 DEF Exit
    <2> QED
      BY <1>2, <2>1, <2>3, <2>4, <2>5, <2>6, <2>7, <2>8, <2>9, <2>10
  <1>3. CASE Kill
    BY <1>3 DEF Kill, Place, TypeOK, Phases
  <1> QED
    BY <1>1, <1>2, <1>3
    DEF Deaf, Next, Main, SkipMigration, BeginMigration, RunMigration, NoteMigration, CommitMigration,
        MigrationFails, Migrated, Start, StopFiring, Fire, TickWorks, TickEnds, Accept, RequestWorks,
        Signal, vars

LEMMA TicksDwindle ==
    ASSUME TypeOK, [Next]_vars, phase = "quiesce", ~firing
    PROVE  ~firing' /\ \A t \in Ticks : tick[t] = "off" => tick'[t] = "off"
  <1>1. CASE UNCHANGED <<firing, tick>>
    BY <1>1
  <1>2. ASSUME NEW t \in Ticks, TickWorks(t) \/ TickEnds(t)
        PROVE  ~firing' /\ \A u \in Ticks : tick[u] = "off" => tick'[u] = "off"
    BY <1>2 DEF TickWorks, TickEnds, Running, TypeOK
  <1>3. CASE Kill
    BY <1>3 DEF Kill
  <1>4. CASE \E t \in Ticks : Fire(t)
    BY <1>4 DEF Fire
  <1> QED
    BY <1>1, <1>2, <1>3, <1>4
    DEF Next, Main, SkipMigration, BeginMigration, RunMigration, NoteMigration, CommitMigration,
        MigrationFails, Migrated, Seed, Shutdown, Drained, DrainExpires, StopFiring, CronStopped,
        CloseDb, Exit, Start, Accept, RequestWorks, Signal, ServeError, vars, work

\* The safety half of SignalEnds, for any number of ticks, requests and releases:
\* all that is left to fairness is that run and the cancelled ticks go on.
THEOREM StopsForGoodEver == Spec => StopsForGood
  <1>1. TypeOK /\ Deaf /\ [Next]_vars
        => [signalled /\ phase # "down" =>
              /\ signalled'
              /\ phase' # phase => Place(phase') > Place(phase)
              /\ phase = "quiesce" /\ ~firing =>
                    /\ ~firing'
                    /\ \A t \in Ticks : /\ tick[t] = "off" => tick'[t] = "off"
                                        /\ Running(t) => Cancelled(t)]_vars
    BY PhaseAdvances, TicksDwindle DEF Cancelled
  <1>2. Init => Deaf
    BY DEF Init, Deaf
  <1>3. Deaf /\ [Next]_vars => Deaf'
    BY DeafNext
  <1> QED
    BY <1>1, <1>2, <1>3, TypeCorrect, PTL DEF Spec, StopsForGood
=============================================================================
