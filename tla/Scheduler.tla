------------------------------- MODULE Scheduler -------------------------------
(***************************************************************************)
(* Automatic renewal in CertSchedule: the cron entry that fires every      *)
(* SCHEDULER_INTERVAL, the query for due domains, the loop of              *)
(* SchedulerService.Tick over its answer, and the passing of time in which *)
(* certificates expire.  A run of the certificate service, whose steps     *)
(* CertService has, is two steps here: its start reads the row, its end    *)
(* has its effects and writes the row back.  robfig/cron starts each       *)
(* firing in a goroutine of its own, whether or not the one before is over. *)
(*                                                                         *)
(* Time is counted in units of which the interval has a whole number; a    *)
(* certificate is represented by the units it has left, so that time need  *)
(* not be bounded.  Operators named Bug... are faults a change of the code *)
(* could introduce; no other definition uses them.                         *)
(***************************************************************************)
EXTENDS Integers

CONSTANTS DomainIds,  \* ids of domains, each used once
          Names,      \* host names
          Workers,    \* bounds the ticks and manual runs under way at once
          Interval,   \* SCHEDULER_INTERVAL
          Before,     \* renew_before_days
          Window,     \* units left from which certbot itself renews
          Validity,   \* units a new certificate is valid for
          MaxLost,    \* bounds what is counted of the time lost to failures
          Broken,     \* domains whose runs always fail (a bad credential)
          Events,     \* which of the events below may happen; a "fault" is a query,
                      \* a statement or a certbot that fails for once
          Prompt,     \* is a tick over before the next unit begins?
          None        \* no row, no certificate, SQL's NULL

AllEvents == {"manual", "toggle", "rename", "delete", "restart", "unpushed", "fault"}

ASSUME TimeAssumption ==
    /\ Interval \in Nat \ {0} /\ MaxLost \in Nat
    /\ Before \in Nat /\ Window \in Nat /\ Validity \in Nat \ {0}

ASSUME EventsAssumption == Events \subseteq AllEvents /\ Prompt \in BOOLEAN

Life      == 0 .. Validity
DomainRow == [name : Names, auto : BOOLEAN]
Job       == [dom : DomainIds, trigger : {"scheduled", "manual"},
              op : {"issue", "renew"}, row : DomainRow]

ASSUME NoneAssumption == None \notin Life /\ None \notin DomainRow /\ None \notin Job

VARIABLES
    row,      \* table domains
    gone,     \* the ids of deleted domains
    latest,   \* what is left of the latest certificate of each domain
    line,     \* ... of certbot's lineage of each name
    wait,     \* time until cron fires
    pc,       \* what each worker does: nothing, a tick or a manual run
    due,      \* the domains its tick has still to go through
    job,      \* the run it is in, with d, the row it read
    owed,     \* history: how long each domain has waited for a first certificate,
    lost      \* ... and the part of it that failures and restarts have cost

domainVars == <<row, gone>>
lives      == <<latest, line>>
workerVars == <<pc, due, job>>
history    == <<owed, lost>>
vars       == <<row, gone, latest, line, wait, pc, due, job, owed, lost>>

Init ==
    /\ row    = [d \in DomainIds |-> None]
    /\ gone   = {}
    /\ latest = [d \in DomainIds |-> None]
    /\ line   = [n \in Names |-> None]
    /\ wait   = Interval
    /\ pc     = [w \in Workers |-> "idle"]
    /\ due    = [w \in Workers |-> {}]
    /\ job    = [w \in Workers |-> None]
    /\ owed   = [d \in DomainIds |-> 0]
    /\ lost   = [d \in DomainIds |-> 0]

\* auto_renew is on, there is no certificate, and nothing is wrong with the domain.
Waits(d) == row[d] # None /\ row[d].auto /\ latest[d] = None /\ d \notin Broken

\* Time that may pass before a domain must have its first certificate; history is
\* kept up to one more than is allowed.
Patience == Interval + MaxLost
UpTo(bound, n) == IF n <= bound THEN n ELSE bound

\* The history after t units in which a chance of each domain of S has passed; it
\* is forgotten when the wait is over.
Note(S, t) ==
    LET Still(d) == Waits(d) /\ Waits(d)'
    IN /\ owed' = [d \in DomainIds |->
                     IF Still(d) THEN UpTo(Patience + 1, owed[d] + t) ELSE 0]
       /\ lost' = [d \in DomainIds |->
                     IF ~Still(d) THEN 0
                     ELSE IF d \in S THEN UpTo(MaxLost + 1, lost[d] + Interval)
                     ELSE lost[d]]

-----------------------------------------------------------------------------
(* Cron and SchedulerService.Tick.                                         *)

\* "@every" fires first after a whole interval, then again and again.
Fire(w) ==
    /\ wait = 0
    /\ pc[w] = "idle"
    /\ wait' = Interval
    /\ pc' = [pc EXCEPT ![w] = "list"]
    /\ UNCHANGED <<domainVars, lives, due, job, history>>

\* How a time.Time that is bound to a statement reaches SQLite.  The DSN of
\* sqlite.Open has no _time_format, so the driver writes Time.String():
\* "2025-01-01 00:00:00.5 +0000 UTC".
BoundTime == "Time.String"

\* datetime(text, '+n days'): a text it cannot read as a time, such as one that
\* ends in "+0000 UTC", makes NULL.
Datetime(text, days) == IF text = "ISO 8601" THEN days ELSE None

\* x <= limit in SQL: not true when the limit is NULL.
NotAfter(x, limit) == limit # None /\ x <= limit

\* The WHERE clause of ListDueForRenewal.
BugJoined(d) ==                      \* JOIN certificates in place of NOT EXISTS
    row[d] # None /\ row[d].auto /\ latest[d] # None /\ latest[d] <= Before
Due(d) ==
    /\ row[d] # None /\ row[d].auto
    /\ latest[d] = None \/ NotAfter(latest[d], Datetime(BoundTime, Before))

ListDue(w) ==
    /\ pc[w] = "list"
    /\ due' = [due EXCEPT ![w] = {d \in DomainIds : Due(d)}]
    /\ pc' = [pc EXCEPT ![w] = "loop"]
    /\ UNCHANGED <<domainVars, lives, wait, job, history>>

\* The query fails, and Tick with it: every domain has missed a chance.
ListFails(w) ==
    /\ "fault" \in Events
    /\ pc[w] = "list"
    /\ pc' = [pc EXCEPT ![w] = "idle"]
    /\ UNCHANGED <<domainVars, lives, wait, due, job>>
    /\ Note(DomainIds, 0)

\* A run begins: it reads the row of the domain.
Begin(w, d, trigger, op) ==
    /\ job' = [job EXCEPT ![w] = [dom |-> d, trigger |-> trigger, op |-> op, row |-> row[d]]]
    /\ pc' = [pc EXCEPT ![w] = "run"]

\* The next domain of the list, which has no order; EnsureCertificate looks for a
\* certificate again.  A domain that is gone by now is an error that is logged.
Visit(w, d) ==
    /\ pc[w] = "loop"
    /\ d \in due[w]
    /\ due' = [due EXCEPT ![w] = @ \ {d}]
    /\ \/ row[d] # None /\ Begin(w, d, "scheduled", IF latest[d] # None THEN "renew" ELSE "issue")
       \/ row[d] = None /\ UNCHANGED <<pc, job>>
    /\ UNCHANGED <<domainVars, lives, wait, history>>

EndTick(w) ==
    /\ pc[w] = "loop"
    /\ due[w] = {}
    /\ pc' = [pc EXCEPT ![w] = "idle"]
    /\ UNCHANGED <<domainVars, lives, wait, due, job, history>>

-----------------------------------------------------------------------------
(* How a run ends.                                                         *)

\* domains.name is UNIQUE: may the row of d have name n?
NameFree(n, d) == \A e \in DomainIds \ {d} : row[e] # None => row[e].name # n

\* certbot renew knows only the lineages it has; certonly needs none.
Obtainable(w) ==
    job[w].dom \notin Broken /\ (job[w].op = "renew" => line[job[w].row.name] # None)

\* Both leave a lineage alone that is not yet due by certbot's own rule.
BugOffByOne(n) == Validity + 1       \* ExpiresAt not taken from NotAfter
Obtained(n) == IF line[n] # None /\ line[n] > Window THEN line[n] ELSE Validity

\* certbot succeeds for the name the run has read.
CertbotRuns(w) ==
    /\ Obtainable(w)
    /\ line' = [line EXCEPT ![job[w].row.name] = Obtained(job[w].row.name)]

\* domains.Update in succeed and fail writes the whole row as the run has read it,
\* whatever has become of it meanwhile, unless the domain is gone, its old name is
\* taken or the statement fails.
WriteBack(w) ==
    LET found == row[job[w].dom] # None /\ NameFree(job[w].row.name, job[w].dom)
    IN \/ found /\ row' = [row EXCEPT ![job[w].dom] = job[w].row]
       \/ (~found \/ "fault" \in Events) /\ UNCHANGED row

Continue(w) ==
    /\ pc' = [pc EXCEPT ![w] = "loop"]
    /\ job' = [job EXCEPT ![w] = None]
    /\ UNCHANGED due

\* The error is logged and the loop goes on to the next domain.
BugAbort(w) ==                       \* return err in place of continue
    /\ pc' = [pc EXCEPT ![w] = "idle"]
    /\ job' = [job EXCEPT ![w] = None]
    /\ due' = [due EXCEPT ![w] = {}]
AfterFailure(w) == Continue(w)

\* What certbot has obtained for a run is inserted ...
Stores(w) ==
    /\ pc[w] = "run"
    /\ row[job[w].dom] # None
    /\ CertbotRuns(w)
    /\ latest' = [latest EXCEPT ![job[w].dom] = Obtained(job[w].row.name)]
    /\ WriteBack(w)
    /\ UNCHANGED <<gone, wait>>
    /\ Note({}, 0)

\* ... and its Secret written, or refused by the API ...
RunSucceeds(w) == Stores(w) /\ Continue(w)

RunUnpushed(w) == "unpushed" \in Events /\ Stores(w) /\ AfterFailure(w)

\* ... or certbot fails, or what it has obtained is not inserted: the domain is
\* gone, or the statement fails.
RunFails(w) ==
    /\ pc[w] = "run"
    /\ \/ ~Obtainable(w) /\ UNCHANGED line
       \/ row[job[w].dom] = None /\ CertbotRuns(w)
       \/ "fault" \in Events /\ (CertbotRuns(w) \/ UNCHANGED line)
    /\ WriteBack(w)
    /\ AfterFailure(w)
    /\ UNCHANGED <<gone, latest, wait>>
    /\ Note(IF job[w].trigger = "scheduled" THEN {job[w].dom} ELSE {}, 0)

Step(w) ==
    \/ ListDue(w) \/ ListFails(w) \/ EndTick(w)
    \/ \E d \in DomainIds : Visit(w, d)
    \/ RunSucceeds(w) \/ RunUnpushed(w) \/ RunFails(w)

-----------------------------------------------------------------------------
(* Users, time and restarts.                                               *)

CreateDomain(d, n, auto) ==
    /\ row[d] = None /\ d \notin gone
    /\ NameFree(n, d)
    /\ row' = [row EXCEPT ![d] = [name |-> n, auto |-> auto]]
    /\ UNCHANGED <<gone, lives, wait, workerVars>>
    /\ Note({}, 0)

\* The lineage stays behind.
DeleteDomain(d) ==
    /\ "delete" \in Events
    /\ row[d] # None
    /\ row' = [row EXCEPT ![d] = None]
    /\ gone' = gone \cup {d}
    /\ latest' = [latest EXCEPT ![d] = None]
    /\ UNCHANGED <<line, wait, workerVars>>
    /\ Note({}, 0)

SetAuto(d, auto) ==
    /\ "toggle" \in Events
    /\ row[d] # None
    /\ row' = [row EXCEPT ![d] = [name |-> row[d].name, auto |-> auto]]
    /\ UNCHANGED <<gone, lives, wait, workerVars>>
    /\ Note({}, 0)

Rename(d, n) ==
    /\ "rename" \in Events
    /\ row[d] # None
    /\ NameFree(n, d)
    /\ row' = [row EXCEPT ![d] = [name |-> n, auto |-> row[d].auto]]
    /\ UNCHANGED <<gone, lives, wait, workerVars>>
    /\ Note({}, 0)

\* POST /domains/{id}/issue and /renew.
Manual(w, d, op) ==
    /\ "manual" \in Events
    /\ pc[w] = "idle"
    /\ row[d] # None
    /\ Begin(w, d, "manual", op)
    /\ UNCHANGED <<domainVars, lives, wait, due, history>>

\* The process is killed and starts again within the unit; cron begins a new
\* interval, and a firing that was close is lost.
Restart ==
    /\ "restart" \in Events
    /\ wait' = Interval
    /\ pc' = [w \in Workers |-> "idle"]
    /\ due' = [w \in Workers |-> {}]
    /\ job' = [w \in Workers |-> None]
    /\ UNCHANGED <<domainVars, lives>>
    /\ Note(DomainIds, 0)

Older(life) == IF life = None THEN None ELSE IF life = 0 THEN 0 ELSE life - 1

Advance ==
    /\ wait > 0
    /\ Prompt => \A w \in Workers : pc[w] = "idle"
    /\ wait' = wait - 1
    /\ latest' = [d \in DomainIds |-> Older(latest[d])]
    /\ line' = [n \in Names |-> Older(line[n])]
    /\ UNCHANGED <<domainVars, workerVars>>
    /\ Note({}, 1)

Next ==
    \/ \E w \in Workers : Fire(w) \/ Step(w)
    \/ \E d \in DomainIds, n \in Names, auto \in BOOLEAN : CreateDomain(d, n, auto)
    \/ \E d \in DomainIds : DeleteDomain(d)
    \/ \E d \in DomainIds, auto \in BOOLEAN : SetAuto(d, auto)
    \/ \E d \in DomainIds, n \in Names : Rename(d, n)
    \/ \E w \in Workers, d \in DomainIds, op \in {"issue", "renew"} : Manual(w, d, op)
    \/ Restart
    \/ Advance

\* Time passes, cron's goroutine and those of the ticks are scheduled, certbot
\* comes back and the query does not fail for ever; users need do nothing.
Fairness ==
    /\ WF_vars(Advance)
    /\ WF_vars(\E w \in Workers : Fire(w))
    /\ SF_vars(\E w \in Workers : ListDue(w))
    /\ \A w \in Workers : WF_vars(Step(w))

Spec == Init /\ [][Next]_vars /\ Fairness

-----------------------------------------------------------------------------
(* What holds.                                                             *)

TypeOK ==
    /\ row \in [DomainIds -> DomainRow \cup {None}]
    /\ gone \subseteq DomainIds
    /\ latest \in [DomainIds -> Life \cup {None}]
    /\ line \in [Names -> Life \cup {None}]
    /\ wait \in 0 .. Interval
    /\ pc \in [Workers -> {"idle", "list", "loop", "run"}]
    /\ due \in [Workers -> SUBSET DomainIds]
    /\ job \in [Workers -> Job \cup {None}]
    /\ owed \in [DomainIds -> 0 .. Patience + 1]
    /\ lost \in [DomainIds -> 0 .. MaxLost + 1]

\* "(or has no certificate at all yet)": a domain with auto_renew on has its first
\* certificate after one interval and what failures of the query, of its own runs
\* and of the process cost it; neighbours whose runs fail, manual runs, renames,
\* deletions and rows that runs write back make it wait no longer.
FirstInTime ==
    Prompt => \A d \in DomainIds :
                  Waits(d) /\ lost[d] <= MaxLost => owed[d] <= Interval + lost[d]

\* Every domain without a certificate gets its turn: Tick does not stop at a domain
\* that fails, and a tick that hangs on does not keep the next one from being fired.
Lacks(d) == row[d] # None /\ row[d].auto /\ latest[d] = None
Attended ==
    \A d \in DomainIds :
        Lacks(d) ~> ~Lacks(d) \/ \E w \in Workers : pc[w] = "run" /\ job[w].dom = d

\* A domain that was on the list of a tick leaves it with a run of its own, unless
\* it is deleted first or the process is killed: neither a failure of another
\* domain nor a tick or manual run beside it makes Tick end early or skip one.
NoneSkipped ==
    [][\A w \in Workers, d \in DomainIds : d \in due[w] /\ row[d] # None =>
          \/ pc'[w] # "idle" /\ d \in due'[w]
          \/ pc'[w] = "run" /\ job'[w].dom = d
          \/ Restart]_vars

-----------------------------------------------------------------------------
(* What the documentation says and the code does not do.                   *)

\* "checks for certs nearing expiry and renews automatically", "domains with
\* AutoRenew=true whose latest certificate expires within RenewBeforeDays of now":
\* where no tick has failed, no domain with auto_renew on has an expired certificate.
NeverExpires ==
    \A d \in DomainIds : row[d] # None /\ row[d].auto /\ d \notin Broken => latest[d] # 0

\* "Certificate already issued; use Renew instead": certbot can renew what the page
\* of a domain that has a certificate lets its user renew.
Renewable ==
    \A d \in DomainIds :
        row[d] # None /\ latest[d] # None => line[row[d].name] # None
=============================================================================
