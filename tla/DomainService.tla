---------------------------- MODULE DomainService ----------------------------
(***************************************************************************)
(* The domain service of CertSchedule (internal/application/               *)
(* domain_service.go): Create, Update, Delete, Export and Import over the  *)
(* table domains, with the credentials a domain needs for its challenge.   *)
(* Requests interleave between statements; a statement is atomic, writes a *)
(* whole row and may fail, for instance because its client has gone.  The  *)
(* certificate service is a third writer: it writes back the row it read.  *)
(* A crash is a behaviour in which the requests under way take no further  *)
(* step: they hold nothing but what they have in memory.                   *)
(* Operators named Bug... are faults a change of the code could introduce; *)
(* no other definition uses them.                                          *)
(***************************************************************************)
EXTENDS Integers, FiniteSets

CONSTANTS Requests,    \* PUTs, imports and certificate runs, each used once
          DomainIds,   \* ids a row may be given (uuid.NewString)
          Names,       \* host names
          NoName,      \* the empty name
          Targets,     \* namespace, secret name and auto_renew, written together
          Secrets,     \* values of tokens and access keys
          Configs,     \* the bodies clients send, alone or as entries of a file
          MaxEntries,  \* bounds the entries of the files clients make up
          None         \* no row, no credential, no value

Challenges  == {"http-01", "dns-01"}
Plugins     == {"cloudflare", "route53"}
Providers   == Plugins \cup {"none", "unheard"}
DefaultDays == 30

\* The credential fields certbot's plugin needs.
Fields(provider) ==
    CASE provider = "cloudflare" -> {"token"}
      [] provider = "route53"    -> {"id", "key"}
      [] OTHER                   -> {}

\* encrypted_credential: made for a plugin from what a client sent.
Credential == [plugin : Plugins, secret : Secrets]

Row == [name : Names, challenge : Challenges, provider : Providers,
        cred : Credential \cup {None}, target : Targets, days : Nat \ {0}]

\* filled are the credential fields that are not empty.
Config == [name : Names \cup {NoName}, challenge : Challenges \cup {"unheard"},
           provider : Providers, target : Targets, days : Nat,
           filled : SUBSET {"token", "id", "key"}, secret : Secrets \cup {None}]

\* A row in memory, with the id of its domain.
Held == [id : DomainIds, row : Row]

ASSUME ConfigsAssumption ==
    /\ Configs \subseteq Config
    /\ \A c \in Configs : c.filled # {} => c.secret \in Secrets

ASSUME NamesAssumption ==
    /\ NoName \notin Names
    /\ None \notin Row /\ None \notin Held /\ None \notin Credential /\ None \notin DomainIds

ASSUME EntriesAssumption == MaxEntries \in Nat

VARIABLES
    domains,  \* table domains: the row of each id, or None
    known,    \* ids handed out so far
    backup,   \* the file Export has made, or None
    pc,       \* what each request does next
    held,     \* d, the row a PUT or a run is about to write
    byName,   \* byName of Import
    left,     \* entries of the backup an import has yet to read
    entries,  \* how many entries of made-up files have been read
    clean     \* is it an import undisturbed so far: no other writer, no failing statement?

vars == <<domains, known, backup, pc, held, byName, left, entries, clean>>

Init ==
    /\ domains = [d \in DomainIds |-> None]
    /\ known   = {}
    /\ backup  = None
    /\ pc      = [q \in Requests |-> "idle"]
    /\ held    = [q \in Requests |-> None]
    /\ byName  = [q \in Requests |-> [n \in Names |-> None]]
    /\ left    = [q \in Requests |-> {}]
    /\ entries = 0
    /\ clean   = [q \in Requests |-> FALSE]

Goto(q, label) == pc' = [pc EXCEPT ![q] = label]

\* domains.name is UNIQUE.
NameFree(n, d) ==
    \A other \in DomainIds \ {d} : domains[other] # None => domains[other].name # n

\* INSERT and UPDATE of a whole row, seen by whoever is importing.
Put(d, row) == domains' = [domains EXCEPT ![d] = row]
Disturb(writers) == clean' = [q \in Requests |-> clean[q] /\ q \in writers]
Taint(q) == clean' = [clean EXCEPT ![q] = FALSE]

BugNotUnique(d, row) == domains[d] # None         \* only List guards the name
RowUpdated(d, row) == domains[d] # None /\ NameFree(row.name, d)

-----------------------------------------------------------------------------
(* Credentials.                                                            *)

\* Does the body bring credentials?  Its secret access key alone does not count.
BugTokenOnly(c) == "token" \in c.filled
Supplied(c) == c.filled \cap {"token", "id"} # {}

\* encryptCredential: an error, or the encrypted blob, nil for no provider.
CanSeal(provider, c) == provider # "unheard" /\ Fields(provider) \subseteq c.filled

Seal(provider, c) ==
    IF provider = "none" THEN None ELSE [plugin |-> provider, secret |-> c.secret]

BugNoDefault(c) == c.days
DaysOf(c) == IF c.days = 0 THEN DefaultDays ELSE c.days

-----------------------------------------------------------------------------
(* Create, Update and Delete.                                              *)

NewRow(c, cred) ==
    [name |-> c.name, challenge |-> c.challenge, provider |-> c.provider,
     cred |-> cred, target |-> c.target, days |-> DaysOf(c)]

Create(d, c) ==
    /\ d \notin known
    /\ c.name # NoName
    /\ c.challenge \in Challenges
    /\ c.challenge = "dns-01" => CanSeal(c.provider, c)
    /\ NameFree(c.name, d)
    /\ Put(d, NewRow(c, IF c.challenge = "dns-01" THEN Seal(c.provider, c) ELSE None))
    /\ known' = known \cup {d}
    /\ Disturb({})
    /\ UNCHANGED <<backup, pc, held, byName, left, entries>>

Delete(d) ==
    /\ domains[d] # None
    /\ Put(d, None)
    /\ Disturb({})
    /\ UNCHANGED <<known, backup, pc, held, byName, left, entries>>

\* The row as the body changes it: empty fields keep what there is.
BugChallengeToo(row, c) ==
    [row EXCEPT !.name = IF c.name = NoName THEN @ ELSE c.name,
                !.challenge = c.challenge, !.provider = c.provider, !.target = c.target,
                !.days = IF c.days = 0 THEN @ ELSE c.days,
                !.cred = IF Supplied(c) THEN Seal(row.provider, c) ELSE @]
Updated(row, c) ==
    [row EXCEPT !.name   = IF c.name = NoName THEN @ ELSE c.name,
                !.target = c.target,
                !.days   = IF c.days = 0 THEN @ ELSE c.days,
                !.cred   = IF Supplied(c) THEN Seal(row.provider, c) ELSE @]

\* Update reads the row; credentials that do not fit end it without a write,
\* at this point or after the lookup of the name ...
UpdateRead(q, d, c) ==
    /\ pc[q] = "idle"
    /\ domains[d] # None
    /\ Supplied(c) => CanSeal(domains[d].provider, c)
    /\ held' = [held EXCEPT ![q] = [id |-> d, row |-> Updated(domains[d], c)]]
    /\ Goto(q, IF c.name \in {NoName, domains[d].name} THEN "write" ELSE "lookup")
    /\ UNCHANGED <<domains, known, backup, byName, left, entries, clean>>

\* ... looks a new name up in List ...
UpdateLookup(q) ==
    /\ pc[q] = "lookup"
    /\ Goto(q, IF NameFree(held[q].row.name, held[q].id) THEN "write" ELSE "rejected")
    /\ UNCHANGED <<domains, known, backup, held, byName, left, entries, clean>>

\* ... and writes the row.  succeed and fail of the certificate service write
\* the row that run has read in the same way.
WriteBack(q) ==
    /\ pc[q] = "write"
    /\ LET d == held[q].id IN
       \/ RowUpdated(d, held[q].row) /\ Put(d, held[q].row) /\ Disturb({}) /\ Goto(q, "ok")
       \/ Goto(q, "rejected") /\ UNCHANGED <<domains, clean>>
    /\ held' = [held EXCEPT ![q] = None]
    /\ UNCHANGED <<known, backup, byName, left, entries>>

RunRead(q, d) ==
    /\ pc[q] = "idle"
    /\ domains[d] # None
    /\ held' = [held EXCEPT ![q] = [id |-> d, row |-> domains[d]]]
    /\ Goto(q, "write")
    /\ UNCHANGED <<domains, known, backup, byName, left, entries, clean>>

-----------------------------------------------------------------------------
(* Export and Import.                                                      *)

\* The portable form of a row; its credential is decrypted on request.
ConfigOf(row, withCreds) ==
    LET open == withCreds /\ row.cred # None IN
    [name |-> row.name, challenge |-> row.challenge, provider |-> row.provider,
     target |-> row.target, days |-> row.days,
     filled |-> IF open THEN Fields(row.provider) ELSE {},
     secret |-> IF open THEN row.cred.secret ELSE None]

\* One backup is made; a second one would only replace it.
Export(withCreds) ==
    /\ backup = None
    /\ backup' = {ConfigOf(domains[d], withCreds) : d \in {i \in DomainIds : domains[i] # None}}
    /\ UNCHANGED <<domains, known, pc, held, byName, left, entries, clean>>

\* Import lists the domains once, for a file a client has made up or for the
\* backup ...
Listing == [n \in Names |->
    IF \E d \in DomainIds : domains[d] # None /\ domains[d].name = n
    THEN LET d == CHOOSE d \in DomainIds : domains[d] # None /\ domains[d].name = n
         IN [id |-> d, row |-> domains[d]]
    ELSE None]

ImportList(q, file) ==
    /\ pc[q] = "idle"
    /\ byName' = [byName EXCEPT ![q] = Listing]
    /\ left' = [left EXCEPT ![q] = file]
    /\ clean' = [clean EXCEPT ![q] = TRUE]
    /\ Goto(q, IF file = {} THEN "entries" ELSE "backup")
    /\ UNCHANGED <<domains, known, backup, held, entries>>

\* ... and goes through the entries, of which it takes the next.
NextEntry(q, c) ==
    \/ /\ pc[q] = "entries" /\ c \in Configs /\ entries < MaxEntries
       /\ entries' = entries + 1
       /\ UNCHANGED left
    \/ /\ pc[q] = "backup" /\ c \in left[q]
       /\ left' = [left EXCEPT ![q] = @ \ {c}]
       /\ UNCHANGED entries

Listed(q, c) == c.name \in {n \in Names : byName[q][n] # None}

\* The row of the listing as an entry changes it.
BugEntryProvider(row, c) ==
    [row EXCEPT !.target = c.target, !.days = DaysOf(c),
                !.cred = IF Supplied(c) THEN Seal(c.provider, c) ELSE @]
Merged(row, c) ==
    [row EXCEPT !.target = c.target, !.days = DaysOf(c),
                !.cred = IF Supplied(c) THEN Seal(row.provider, c) ELSE @]

\* A name of the listing: its row is changed in memory and then written, unless
\* the credentials do not fit or the statement fails.
ImportUpdate(q, c) ==
    /\ NextEntry(q, c)
    /\ Listed(q, c)
    /\ LET found == byName[q][c.name]
           row   == Merged(found.row, c)
       IN /\ Supplied(c) => CanSeal(found.row.provider, c)
          /\ byName' = [byName EXCEPT ![q][c.name] = [id |-> found.id, row |-> row]]
          /\ \/ RowUpdated(found.id, row) /\ Put(found.id, row) /\ Disturb({q})
             \/ Taint(q) /\ UNCHANGED domains
    /\ UNCHANGED <<known, backup, pc, held>>

\* A new name: credentials are not required.
Importable(c) ==
    /\ c.name # NoName
    /\ c.challenge \in Challenges
    /\ c.challenge = "dns-01" /\ Supplied(c) => CanSeal(c.provider, c)

ImportedRow(c) ==
    NewRow(c, IF c.challenge = "dns-01" /\ Supplied(c) THEN Seal(c.provider, c) ELSE None)

ImportCreate(q, c) ==
    /\ NextEntry(q, c)
    /\ Importable(c) /\ ~Listed(q, c)
    /\ \/ \E d \in DomainIds \ known :
             /\ NameFree(c.name, d)
             /\ Put(d, ImportedRow(c))
             /\ known' = known \cup {d}
             /\ byName' = [byName EXCEPT ![q][c.name] = [id |-> d, row |-> ImportedRow(c)]]
             /\ Disturb({q})
       \/ Taint(q) /\ UNCHANGED <<domains, known, byName>>
    /\ UNCHANGED <<backup, pc, held>>

\* An entry that is not accepted is reported and does not stop the rest; that
\* of a listed name has changed its row in memory, all but the credential.
ImportError(q, c) ==
    /\ NextEntry(q, c)
    /\ \/ /\ ~Listed(q, c) /\ ~Importable(c)
          /\ UNCHANGED byName
       \/ /\ Listed(q, c)
          /\ Supplied(c) /\ ~CanSeal(byName[q][c.name].row.provider, c)
          /\ byName' = [byName EXCEPT ![q][c.name] =
                           [id |-> @.id, row |-> [@.row EXCEPT !.target = c.target,
                                                               !.days = DaysOf(c)]]]
    /\ UNCHANGED <<domains, known, backup, pc, held, clean>>

ImportEnd(q) ==
    /\ \/ pc[q] = "entries" /\ Goto(q, "imported") /\ Taint(q)
       \/ pc[q] = "backup" /\ left[q] = {} /\ Goto(q, "restored") /\ UNCHANGED clean
    /\ byName' = [byName EXCEPT ![q] = [n \in Names |-> None]]
    /\ UNCHANGED <<domains, known, backup, held, left, entries>>

Import(q, c) == ImportUpdate(q, c) \/ ImportCreate(q, c) \/ ImportError(q, c)

Next ==
    \/ \E d \in DomainIds, c \in Configs : Create(d, c)
    \/ \E d \in DomainIds : Delete(d)
    \/ \E q \in Requests, d \in DomainIds, c \in Configs : UpdateRead(q, d, c)
    \/ \E q \in Requests, d \in DomainIds : RunRead(q, d)
    \/ \E q \in Requests : UpdateLookup(q) \/ WriteBack(q) \/ ImportEnd(q)
    \/ \E withCreds \in BOOLEAN : Export(withCreds)
    \/ \E q \in Requests : ImportList(q, {}) \/ (backup # None /\ ImportList(q, backup))
    \/ \E q \in Requests : \E c \in Configs \cup left[q] : Import(q, c)

Spec == Init /\ [][Next]_vars

-----------------------------------------------------------------------------
TypeOK ==
    /\ domains \in [DomainIds -> Row \cup {None}]
    /\ known \subseteq DomainIds
    /\ backup \in (SUBSET Config) \cup {None}
    /\ pc \in [Requests -> {"idle", "lookup", "write", "entries", "backup",
                            "ok", "rejected", "imported", "restored"}]
    /\ held \in [Requests -> Held \cup {None}]
    /\ byName \in [Requests -> [Names -> Held \cup {None}]]
    /\ left \in [Requests -> SUBSET Config]
    /\ entries \in 0..MaxEntries
    /\ clean \in [Requests -> BOOLEAN]

\* No two domains ever have one name, although Update looks a name up in one
\* statement and writes it in another, a run writes back the name it has read,
\* and Import goes by a listing that others have outdated.
NamesUnique ==
    \A d \in DomainIds : domains[d] # None => NameFree(domains[d].name, d)

\* A stored credential is of the plugin of its domain, so certbot can use it:
\* neither an import entry that names another provider nor a stale row that is
\* written back gives a domain the credential of another plugin.
CredentialFits ==
    \A d \in DomainIds :
        domains[d] # None /\ domains[d].cred # None => domains[d].cred.plugin = domains[d].provider

\* How a domain proves itself is settled when it is created: no PUT and no
\* import entry changes its challenge or provider (UpdateDomainInput has
\* neither), and no stale row brings a deleted domain back.
KindStays ==
    [][\A d \in known :
          domains'[d] # None =>
              /\ domains[d] # None
              /\ domains'[d].challenge = domains[d].challenge
              /\ domains'[d].provider = domains[d].provider]_vars

\* Is there a domain for entry c of the backup, with what was saved if it is of
\* the kind that was saved?
SameKind(row, other) == row.challenge = other.challenge /\ row.provider = other.provider

Agrees(row, c) ==
    /\ row.name = c.name
    /\ SameKind(row, c) =>
          /\ row.target = c.target /\ row.days = c.days
          /\ c.challenge = "dns-01" /\ c.filled # {} =>
                row.cred = [plugin |-> c.provider, secret |-> c.secret]

Back(c) == \E d \in DomainIds : domains[d] # None /\ Agrees(domains[d], c)

\* "Domain configuration can be backed up and restored as JSON": an import of
\* a backup that nobody disturbs leaves a domain for every entry, and one of
\* the kind that was saved has its settings and, for dns-01, the credential
\* that was saved.
Restored == \A q \in Requests : pc[q] = "restored" /\ clean[q] => \A c \in backup : Back(c)

-----------------------------------------------------------------------------
(* The inductive invariant behind the proofs of DomainServiceProofs.        *)

\* Rows in memory are of a domain that has or had an id, and of its kind.
Fits(row) == row.cred # None => row.cred.plugin = row.provider

Faithful(h) ==
    /\ h.id \in known
    /\ Fits(h.row)
    /\ domains[h.id] # None => SameKind(h.row, domains[h.id])

RowsFaithful ==
    /\ \A d \in DomainIds : domains[d] # None => d \in known /\ Fits(domains[d])
    /\ \A q \in Requests :
          /\ pc[q] \in {"lookup", "write"} => held[q] # None
          /\ held[q] # None => Faithful(held[q])
          /\ \A n \in Names :
                byName[q][n] # None => Faithful(byName[q][n]) /\ byName[q][n].row.name = n

\* A backup has one entry for a name, which Import accepts.
BackupSound ==
    backup # None =>
        /\ \A c \in backup :
              /\ c.name \in Names /\ c.challenge \in Challenges /\ c.days # 0
              /\ c.filled = {} \/ (/\ c.provider \in Plugins /\ c.secret \in Secrets
                                   /\ c.filled = Fields(c.provider))
        /\ \A c1, c2 \in backup : c1.name = c2.name => c1 = c2

\* The listing of an undisturbed import is that of the table, and what it has
\* read of the backup is back.
Current(q) ==
    \A n \in Names :
        IF byName[q][n] = None
        THEN \A d \in DomainIds : domains[d] # None => domains[d].name # n
        ELSE LET h == byName[q][n]
             IN domains[h.id] # None /\ domains[h.id].name = n

Restoring ==
    \A q \in Requests :
        /\ pc[q] \in {"backup", "restored"} => backup # None /\ left[q] \subseteq backup
        /\ pc[q] \in {"backup", "restored"} /\ clean[q] =>
              \A c \in backup \ left[q] : Back(c)
        /\ pc[q] = "backup" /\ clean[q] => Current(q)
        /\ pc[q] = "restored" => left[q] = {}

IInv == TypeOK /\ NamesUnique /\ RowsFaithful /\ BackupSound /\ Restoring
=============================================================================
