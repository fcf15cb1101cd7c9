---------------------------- MODULE CertbotExecutor ----------------------------
(***************************************************************************)
(* The certbot executor, internal/adapters/certbot: executor.go, which     *)
(* runs certbot for one domain and then reads what certbot left in its     *)
(* live directory, and archive.go, which walks the whole data directory    *)
(* for a backup.  Runs for the same or for different domains and a backup  *)
(* are under way at once; nothing but certbot's own lock keeps them apart. *)
(*                                                                         *)
(* certbot is modelled from how executor.go uses it.  A lineage is a       *)
(* directory: versions in archive/, one link per file in live/.  A new     *)
(* version is written first, then the links are moved to it one at a time; *)
(* a certbot that is killed meanwhile leaves them as they are, and the     *)
(* next one that looks at the lineage moves them back.  A second certbot   *)
(* gives up at once.  Operators named Bug... are faults a change of the    *)
(* code could introduce; no other definition uses them.                    *)
(***************************************************************************)
EXTENDS Integers

CONSTANTS Runs,     \* calls of Issue and Renew, each used once
          Names,    \* names of domains, also names of directories in live/
          Stem,     \* the directory certbot gives to a name: without its "*."
          Creds,    \* credentials of a DNS provider
          Inputs,   \* what runs are asked for
          Blank,    \* a credentials file just truncated
          None      \* no file, no lineage, no request, nobody

Plugins == {"webroot", "cloudflare", "route53", "unknown"}
Parts   == {"cert", "chain", "privkey"}

Request == [op : {"issue", "renew"}, name : Names, plugin : Plugins, cred : Creds]

\* renewal/<dir>.conf: the name the lineage is for, and how certbot proved that.
Conf == [name : Names, plugin : Plugins]

\* The contents of a file in live/: whose certificate, and which version.
File == [of : Names, ver : Nat \ {0}]

ASSUME InputsAssumption == Inputs \subseteq Request

ASSUME StemAssumption == Stem \in [Names -> Names] /\ \A n \in Names : Stem[Stem[n]] = Stem[n]

ASSUME NoneAssumption ==
    /\ None \notin Runs /\ None \notin Names /\ None \notin Creds /\ None \notin Nat
    /\ None \notin Request /\ None \notin Conf /\ None \notin File
    /\ Blank \notin Creds /\ Blank # None

VARIABLES
    dryRun,       \* CERTBOT_DRY_RUN of this process
    credentials,  \* credentials/<name>.ini
    conf,         \* certbot's renewal/<dir>.conf
    archive,      \* the newest version in archive/<dir>, 0 when there is none
    link,         \* where the links in live/<dir> point, 0 when there are none
    rollback,     \* the version to go back to while the links are moved
    lock,         \* the run whose certbot holds the lock of the directory
    pc,           \* the next step of each run
    req,          \* what it was asked for
    got,          \* the files it has read
    met,          \* the runs for the same directory under way together with it
    backup        \* a download of the archive: its walk, and what it holds

files  == <<credentials, conf, archive, link, rollback>>
locals == <<req, got, met>>
vars   == <<dryRun, credentials, conf, archive, link, rollback, lock,
            pc, req, got, met, backup>>

\* The executor before it starts certbot, certbot itself, the reads.
Starting == {"args", "ini", "exec"}
Certbot  == {"certbot", "switch"}
Reading  == {"load", "cert", "chain", "privkey", "ok"}

InFlight(r) == pc[r] \in Starting \cup Certbot \cup Reading

\* Runs under way that work on the directory of name n.
Kin(n) == {p \in Runs : InFlight(p) /\ Stem[req[p].name] = Stem[n]}

NoFiles  == [p \in Parts |-> None]
AllAt(v) == [p \in Parts |-> v]

NoBackup == [pc |-> "idle", archive |-> [d \in Names |-> 0], dangling |-> {}, touched |-> {}]

\* An earlier life of the program may have left a lineage and credentials.
Init ==
    /\ dryRun \in BOOLEAN
    /\ credentials \in [Names -> Creds \cup {None}]
    /\ \E old \in SUBSET {n \in Names : Stem[n] = n} :
          /\ conf = [d \in Names |-> IF d \in old THEN [name |-> d, plugin |-> "cloudflare"] ELSE None]
          /\ archive = [d \in Names |-> IF d \in old THEN 1 ELSE 0]
          /\ link = [d \in Names |-> AllAt(IF d \in old THEN 1 ELSE 0)]
    /\ rollback = [d \in Names |-> None]
    /\ lock = None
    /\ pc   = [r \in Runs |-> "idle"]
    /\ req  = [r \in Runs |-> None]
    /\ got  = [r \in Runs |-> NoFiles]
    /\ met  = [r \in Runs |-> {}]
    /\ backup = NoBackup

\* A run goes on, or returns to CertificateService, with a result or an error,
\* and forgets its locals.
Goto(r, label) == pc' = [pc EXCEPT ![r] = label] /\ UNCHANGED locals

Return(r) ==
    /\ pc'  = [pc EXCEPT ![r] = "over"]
    /\ req' = [req EXCEPT ![r] = None]
    /\ got' = [got EXCEPT ![r] = NoFiles]
    /\ met' = [met EXCEPT ![r] = {}]

-----------------------------------------------------------------------------
(* executor.go, up to the start of certbot.                                *)

Walking == backup.pc \in {"archive", "cert", "chain", "privkey"}

\* CertificateService.run calls Issue or Renew.
Begin(r, q) ==
    /\ pc[r] = "idle"
    /\ pc' = [pc EXCEPT ![r] = "args"]
    /\ req' = [req EXCEPT ![r] = q]
    /\ met' = [p \in Runs |-> IF p = r THEN Kin(q.name)
                              ELSE IF p \in Kin(q.name) THEN met[p] \cup {r} ELSE met[p]]
    /\ backup' = IF Walking THEN [backup EXCEPT !.touched = @ \cup {Stem[q.name]}] ELSE backup
    /\ UNCHANGED <<dryRun, files, lock, got>>

\* challengeArgs: a credentials file for Cloudflare, the environment for
\* Route 53, nothing for http-01; an unknown provider, or a credential that is
\* no JSON, is an error before certbot has run.
BugIssueOnly(q) == q.plugin = "cloudflare" /\ q.op = "issue"   \* Renew relies on the file
Materialised(q) == q.plugin = "cloudflare"

ChallengeArgs(r) ==
    /\ pc[r] = "args"
    /\ LET q == req[r]
       IN \/ /\ q.plugin # "unknown" /\ ~Materialised(q)
             /\ Goto(r, "exec")
             /\ UNCHANGED credentials
          \/ /\ Materialised(q)
             /\ credentials' = [credentials EXCEPT ![q.name] = Blank]
             /\ Goto(r, "ini")
          \/ /\ q.plugin # "webroot"
             /\ Return(r)
             /\ UNCHANGED credentials
    /\ UNCHANGED <<dryRun, conf, archive, link, rollback, lock, backup>>

\* writeCredentialsFile: os.WriteFile has truncated the file, and now writes it
\* or fails.
WriteCredentials(r) ==
    /\ pc[r] = "ini"
    /\ \/ /\ credentials' = [credentials EXCEPT ![req[r].name] = req[r].cred]
          /\ Goto(r, "exec")
       \/ /\ Return(r)
          /\ UNCHANGED credentials
    /\ UNCHANGED <<dryRun, conf, archive, link, rollback, lock, backup>>

-----------------------------------------------------------------------------
(* The certbot process.                                                    *)

\* The lineage that certbot works on: renew takes the one of that name, certonly
\* the one for the very same name or a new one.  None: its directory is taken by
\* a lineage for another name, and certbot puts the new one elsewhere.
Lineage(r) ==
    LET q == req[r]
    IN IF q.op = "renew" THEN q.name
       ELSE IF conf[Stem[q.name]] = None \/ conf[Stem[q.name]].name = q.name
       THEN Stem[q.name] ELSE None

\* certonly looks through all lineages, renew at its own, and each that it looks
\* at is repaired.
Repaired(r) ==
    {d \in Names : rollback[d] # None /\ (req[r].op = "issue" \/ req[r].name = d)}

\* exec.CommandContext.  certbot finds the directory locked, or cannot start,
\* also because the context is cancelled already.
Launch(r) ==
    /\ pc[r] = "exec"
    /\ \/ /\ lock = None
          /\ lock' = r
          /\ link' = [d \in Names |-> IF d \in Repaired(r) THEN AllAt(rollback[d]) ELSE link[d]]
          /\ rollback' = [d \in Names |-> IF d \in Repaired(r) THEN None ELSE rollback[d]]
          /\ Goto(r, "certbot")
       \/ /\ Return(r)
          /\ UNCHANGED <<lock, link, rollback>>
    /\ UNCHANGED <<dryRun, credentials, conf, archive, backup>>

\* What run does when certbot has ended, well or not.
BugErrorIgnored(r, ok) == Goto(r, "load")
Ended(r, ok) == IF ok THEN Goto(r, "load") ELSE Return(r)

Exit(r, ok) == lock' = None /\ Ended(r, ok)

\* Any trouble: the challenge fails, a rate limit, no such lineage to renew; or
\* the context is cancelled, by the client or by SIGTERM, and certbot is killed.
Fail(r) ==
    /\ pc[r] \in Certbot
    /\ Exit(r, FALSE)
    /\ UNCHANGED <<dryRun, files, backup>>

\* Is there something for certbot to work on?
Renewable(r) == req[r].op = "renew" => conf[req[r].name] # None

\* "Certificate not yet due for renewal": exit code 0, nothing done.
Keep(r) ==
    /\ pc[r] = "certbot"
    /\ ~dryRun /\ Renewable(r)
    /\ Lineage(r) # None => conf[Lineage(r)] # None
    /\ Exit(r, TRUE)
    /\ UNCHANGED <<dryRun, files, backup>>

\* certonly uses the plugin of the command line, renew the one on record, with
\* the credentials file on record.
Authenticator(r) ==
    IF req[r].op = "renew" THEN conf[req[r].name]
    ELSE [name |-> req[r].name, plugin |-> req[r].plugin]

Credential(r) ==
    LET a == Authenticator(r)
    IN IF a.plugin = "cloudflare" THEN credentials[a.name]
       ELSE IF a.plugin = "route53" /\ req[r].plugin = "route53" THEN req[r].cred
       ELSE None

Authenticated(r) ==
    Renewable(r) /\ (Authenticator(r).plugin # "webroot" => Credential(r) # None)

\* A rehearsal goes through the challenge and leaves no certificate; the same
\* holds, as far as the executor can see, for a lineage that is put elsewhere.
ObtainElsewhere(r) ==
    /\ pc[r] = "certbot"
    /\ dryRun \/ Lineage(r) = None
    /\ Authenticated(r)
    /\ Exit(r, TRUE)
    /\ UNCHANGED <<dryRun, files, backup>>

\* A new lineage is put in place in one step here.
ObtainFirst(r) ==
    /\ pc[r] = "certbot"
    /\ ~dryRun /\ Lineage(r) # None /\ conf[Lineage(r)] = None
    /\ Authenticated(r)
    /\ conf' = [conf EXCEPT ![Lineage(r)] = Authenticator(r)]
    /\ archive' = [archive EXCEPT ![Lineage(r)] = 1]
    /\ link' = [link EXCEPT ![Lineage(r)] = AllAt(1)]
    /\ Exit(r, TRUE)
    /\ UNCHANGED <<dryRun, credentials, rollback, backup>>

\* A further version is written to archive/ ...
Obtain(r) ==
    /\ pc[r] = "certbot"
    /\ ~dryRun /\ Lineage(r) # None /\ conf[Lineage(r)] # None
    /\ Authenticated(r)
    /\ conf' = [conf EXCEPT ![Lineage(r)] = Authenticator(r)]
    /\ archive' = [archive EXCEPT ![Lineage(r)] = @ + 1]
    /\ rollback' = [rollback EXCEPT ![Lineage(r)] = link[Lineage(r)]["cert"]]
    /\ Goto(r, "switch")
    /\ UNCHANGED <<dryRun, credentials, link, lock, backup>>

\* ... the links are moved to it one at a time ...
Switch(r, part) ==
    /\ pc[r] = "switch"
    /\ link[Lineage(r)][part] # archive[Lineage(r)]
    /\ link' = [link EXCEPT ![Lineage(r)][part] = archive[Lineage(r)]]
    /\ UNCHANGED <<dryRun, credentials, conf, archive, rollback, lock, pc, locals, backup>>

\* ... and certbot is done.
Switched(r) ==
    /\ pc[r] = "switch"
    /\ link[Lineage(r)] = AllAt(archive[Lineage(r)])
    /\ rollback' = [rollback EXCEPT ![Lineage(r)] = None]
    /\ Exit(r, TRUE)
    /\ UNCHANGED <<dryRun, credentials, conf, archive, link, backup>>

-----------------------------------------------------------------------------
(* loadCertResult.                                                         *)

\* The directory it reads: live/<name of the domain>, as the name is.
BugStemDir(r) == Stem[req[r].name]       \* the wildcard label stripped
LiveDir(r) == req[r].name

\* In a dry run there is nothing to load.
Load(r) ==
    /\ pc[r] = "load"
    /\ IF dryRun THEN Return(r) ELSE Goto(r, "cert")
    /\ UNCHANGED <<dryRun, files, lock, backup>>

BugUnchecked(d, part) == TRUE            \* the error of os.ReadFile dropped
Readable(d, part) == link[d][part] > 0

BugFirst(d, part) == [of |-> d, ver |-> 1]   \* read from archive/<name>, not live/<name>

Contents(d, part) ==
    [of |-> IF conf[d] = None THEN None ELSE conf[d].name, ver |-> link[d][part]]

\* Three files, one after the other.
ReadFile(r, part, next) ==
    /\ pc[r] = part
    /\ \/ /\ Readable(LiveDir(r), part)
          /\ got' = [got EXCEPT ![r][part] = Contents(LiveDir(r), part)]
          /\ pc' = [pc EXCEPT ![r] = next]
          /\ UNCHANGED <<req, met>>
       \/ Return(r)
    /\ UNCHANGED <<dryRun, files, lock, backup>>

ReadFiles(r) ==
    \/ ReadFile(r, "cert", "chain")
    \/ ReadFile(r, "chain", "privkey")
    \/ ReadFile(r, "privkey", "ok")

\* The certificate is parsed for its expiry and returned with chain and key.
Deliver(r) ==
    /\ pc[r] = "ok"
    /\ Return(r)
    /\ UNCHANGED <<dryRun, files, lock, backup>>

-----------------------------------------------------------------------------
(* archive.go: filepath.Walk goes through a directory in lexical order, so *)
(* archive/ comes before live/.  Lineages do not touch each other: the     *)
(* walk takes all their archives in one step, and their links of one kind. *)

BackUp ==
    /\ backup.pc = "idle"
    /\ backup' = [NoBackup EXCEPT !.pc = "archive",
                     !.touched = {Stem[req[r].name] : r \in {p \in Runs : InFlight(p)}}]
    /\ UNCHANGED <<dryRun, files, lock, pc, locals>>

\* An entry that cannot be read, or a client that has gone, ends the walk; the
\* handler has buffered what there is and answers with an error instead.
BugSkipUnreadable(next) == backup' = [backup EXCEPT !.pc = next]
WalkFails(next) == backup' = [NoBackup EXCEPT !.pc = "failed"]

WalkArchive ==
    /\ backup.pc = "archive"
    /\ \/ backup' = [backup EXCEPT !.pc = "cert", !.archive = archive]
       \/ WalkFails("cert")
    /\ UNCHANGED <<dryRun, files, lock, pc, locals>>

\* Links are written as links; dangling collects the lineages with a link whose
\* target the backup does not hold.
WalkLinks(part, next) ==
    /\ backup.pc = part
    /\ \/ backup' = [backup EXCEPT !.pc = next,
                        !.dangling = @ \cup {d \in Names : link[d][part] > backup.archive[d]}]
       \/ WalkFails(next)
    /\ UNCHANGED <<dryRun, files, lock, pc, locals>>

WalkLive ==
    WalkLinks("cert", "chain") \/ WalkLinks("chain", "privkey") \/ WalkLinks("privkey", "done")

-----------------------------------------------------------------------------
\* The container is restarted: nothing that was under way goes on, the setting
\* may be another, and the data directory may be gone or its credentials cleaned
\* up.
Restart ==
    /\ pc'  = [r \in Runs |-> IF InFlight(r) THEN "over" ELSE pc[r]]
    /\ req' = [r \in Runs |-> None]
    /\ got' = [r \in Runs |-> NoFiles]
    /\ met' = [r \in Runs |-> {}]
    /\ lock' = None
    /\ backup' = IF Walking THEN [NoBackup EXCEPT !.pc = "failed"] ELSE backup
    /\ dryRun' \in BOOLEAN
    /\ \/ UNCHANGED files
       \/ /\ credentials' = [n \in Names |-> None]
          /\ UNCHANGED <<conf, archive, link, rollback>>
       \/ /\ credentials' = [n \in Names |-> None]
          /\ conf'     = [d \in Names |-> None]
          /\ archive'  = [d \in Names |-> 0]
          /\ link'     = [d \in Names |-> AllAt(0)]
          /\ rollback' = [d \in Names |-> None]

Step(r) ==
    \/ ChallengeArgs(r) \/ WriteCredentials(r) \/ Launch(r)
    \/ Fail(r) \/ Keep(r) \/ ObtainElsewhere(r) \/ ObtainFirst(r) \/ Obtain(r)
    \/ (\E part \in Parts : Switch(r, part)) \/ Switched(r)
    \/ Load(r) \/ ReadFiles(r) \/ Deliver(r)

Next ==
    \/ \E r \in Runs, q \in Inputs : Begin(r, q)
    \/ \E r \in Runs : Step(r)
    \/ BackUp \/ WalkArchive \/ WalkLive
    \/ Restart

Spec == Init /\ [][Next]_vars

-----------------------------------------------------------------------------
(* What holds.                                                             *)

BackupState == [pc : {"idle", "archive", "cert", "chain", "privkey", "done", "failed"},
                archive : [Names -> Nat], dangling : SUBSET Names, touched : SUBSET Names]

TypeOK ==
    /\ dryRun \in BOOLEAN
    /\ credentials \in [Names -> Creds \cup {Blank, None}]
    /\ conf \in [Names -> Conf \cup {None}]
    /\ archive \in [Names -> Nat]
    /\ link \in [Names -> [Parts -> Nat]]
    /\ rollback \in [Names -> Nat \cup {None}]
    /\ lock \in Runs \cup {None}
    /\ pc \in [Runs -> Starting \cup Certbot \cup Reading \cup {"idle", "over"}]
    /\ req \in [Runs -> Request \cup {None}]
    /\ got \in [Runs -> [Parts -> File \cup {None}]]
    /\ met \in [Runs -> SUBSET Runs]
    /\ backup \in BackupState

\* The certificate, chain and key of a result are of one version of one lineage,
\* whatever killed certbots have left behind, unless another run for the same
\* directory was under way together with this one (loadCertResult reads three
\* files).
PairMatches ==
    \A r \in Runs : pc[r] = "ok" /\ met[r] = {} =>
        got[r]["cert"] = got[r]["chain"] /\ got[r]["cert"] = got[r]["privkey"]

\* What is read is a certificate of the domain asked for, unless a wildcard that
\* shares certbot's directory is managed as well (loadCertResult reads
\* live/<name of the domain>).
ResultFits ==
    \A r \in Runs : pc[r] = "ok" =>
        \A part \in Parts :
            LET n == got[r][part].of IN n = req[r].name \/ n # Stem[n]

\* While certbot may authenticate, the credentials file it reads for a domain is
\* there and holds the credential of the request, not what an earlier request, an
\* earlier life of the container or a write that failed has left, unless another
\* run for the domain is under way (Renew: "Re-materialize the DNS credentials
\* file").
OwnCredential ==
    \A r \in Runs :
        /\ pc[r] = "certbot" /\ met[r] = {}
        /\ req[r].plugin = "cloudflare" /\ Renewable(r)
        /\ Authenticator(r) = [name |-> req[r].name, plugin |-> "cloudflare"]
        => Credential(r) = req[r].cred

\* Every link in a backup that was delivered points to a version the backup
\* holds, unless a run for that lineage was under way during the walk
\* (addDirToTar: "must round-trip that way").
BackupWhole == backup.pc = "done" => backup.dangling \subseteq backup.touched

-----------------------------------------------------------------------------
(* The inductive invariant behind the proofs of CertbotExecutorProofs.     *)

\* Who has a request, who holds the lock, what has been read.
Shape ==
    /\ \A r \in Runs :
          /\ InFlight(r) => req[r] # None
          /\ ~InFlight(r) => met[r] = {}
          /\ pc[r] \in Certbot <=> lock = r
          /\ pc[r] \notin Reading => got[r] = NoFiles
          /\ pc[r] \in {"chain", "privkey", "ok"} => got[r]["cert"] # None
          /\ pc[r] \in {"privkey", "ok"} => got[r]["chain"] # None
          /\ pc[r] = "ok" => got[r]["privkey"] # None
          /\ pc[r] = "switch" =>
                Lineage(r) # None /\ conf[Lineage(r)] # None /\ rollback[Lineage(r)] # None
    /\ lock # None => pc[lock] \in Certbot

\* A lineage has versions, links to them, and a name its directory is the stem
\* of; the links part only while there is a version to go back to.
LineagesSound ==
    \A d \in Names :
        /\ conf[d] = None => archive[d] = 0 /\ link[d] = AllAt(0) /\ rollback[d] = None
        /\ conf[d] # None => Stem[conf[d].name] = d
        /\ \A part \in Parts : link[d][part] <= archive[d]
        /\ rollback[d] # None => rollback[d] <= archive[d]
        /\ rollback[d] = None => link[d] = AllAt(link[d]["cert"])

\* Two runs for one directory that are under way have met.
Together ==
    \A r, p \in Runs :
        InFlight(r) /\ InFlight(p) /\ r # p /\ Stem[req[r].name] = Stem[req[p].name]
        => p \in met[r]

\* A run that has met no other finds the lineage as its certbot has left it ...
Alone ==
    \A r \in Runs : met[r] = {} =>
        /\ pc[r] \in {"certbot"} \cup Reading =>
              /\ rollback[req[r].name] = None
              /\ \A part \in Parts :
                    got[r][part] \in {None, Contents(LiveDir(r), part)}
        /\ pc[r] \in {"exec", "certbot"} /\ req[r].plugin = "cloudflare" =>
              credentials[req[r].name] = req[r].cred

\* ... and any run reads certificates of names that belong in its directory.
GotFits ==
    \A r \in Runs : \A part \in Parts :
        got[r][part] # None => InFlight(r) /\ Stem[got[r][part].of] = req[r].name

\* A walk has taken note of the lineages that runs work on; the versions it has
\* copied are still those of the others.
WalkSound ==
    /\ Walking => \A r \in Runs : InFlight(r) => Stem[req[r].name] \in backup.touched
    /\ backup.pc \in {"cert", "chain", "privkey"} =>
          \A d \in Names \ backup.touched : backup.archive[d] = archive[d]
    /\ backup.dangling \subseteq backup.touched

IInv ==
    TypeOK /\ Shape /\ LineagesSound /\ Together /\ Alone /\ GotFits /\ WalkSound
=============================================================================
