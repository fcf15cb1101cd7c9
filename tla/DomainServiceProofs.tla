------------------------- MODULE DomainServiceProofs -------------------------
(***************************************************************************)
(* Theorems about DomainService for any number of requests, domains and    *)
(* bodies.  The inductive invariant is IInv of that module.                *)
(***************************************************************************)
EXTENDS DomainService, TLAPS

\* Bodies and entries of a backup: what fills a credential field has a value.
Valued(c) == c \in Config /\ (c.filled # {} => c.secret \in Secrets)

LEMMA SealFacts ==
    ASSUME NEW provider \in Providers, NEW c, Valued(c), Supplied(c), CanSeal(provider, c)
    PROVE  /\ Seal(provider, c) \in Credential \cup {None}
           /\ Seal(provider, c) # None => Seal(provider, c).plugin = provider
           /\ provider # "none" => Seal(provider, c) = [plugin |-> provider, secret |-> c.secret]
  <1>1. c.secret \in Secrets
    BY DEF Valued, Supplied
  <1>2. provider = "none" \/ provider \in Plugins
    BY DEF CanSeal, Providers
  <1> QED
    BY <1>1, <1>2 DEF Seal, Credential

LEMMA DaysFacts ==
    ASSUME NEW c \in Config
    PROVE  DaysOf(c) \in Nat \ {0} /\ (c.days # 0 => DaysOf(c) = c.days)
  BY DEF DaysOf, DefaultDays, Config

LEMMA UpdatedFacts ==
    ASSUME NEW row \in Row, NEW c, Valued(c), Supplied(c) => CanSeal(row.provider, c), Fits(row)
    PROVE  Updated(row, c) \in Row /\ SameKind(Updated(row, c), row) /\ Fits(Updated(row, c))
  <1> DEFINE name == IF c.name = NoName THEN row.name ELSE c.name
             days == IF c.days = 0 THEN row.days ELSE c.days
             cred == IF Supplied(c) THEN Seal(row.provider, c) ELSE row.cred
  <1>1. row.provider \in Providers /\ row.name \in Names /\ row.challenge \in Challenges
    BY DEF Row
  <1>2. cred \in Credential \cup {None} /\ (cred # None => cred.plugin = row.provider)
    BY <1>1, SealFacts DEF Fits, Row
  <1>3. name \in Names /\ days \in Nat \ {0} /\ c.target \in Targets
    BY DEF Valued, Config, Row
  <1>4. Updated(row, c) = [row EXCEPT !.name = name, !.target = c.target, !.days = days, !.cred = cred]
    BY DEF Updated
  <1>5. Updated(row, c) = [name |-> name, challenge |-> row.challenge, provider |-> row.provider,
                           cred |-> cred, target |-> c.target, days |-> days]
    <2> HIDE DEF name, days, cred
    <2> QED
      BY <1>4 DEF Row
  <1> HIDE DEF name, days, cred
  <1> QED
    BY <1>1, <1>2, <1>3, <1>5 DEF Row, SameKind, Fits

LEMMA MergedFacts ==
    ASSUME NEW row \in Row, NEW c, Valued(c), Supplied(c) => CanSeal(row.provider, c), Fits(row)
    PROVE  /\ Merged(row, c) \in Row /\ SameKind(Merged(row, c), row) /\ Fits(Merged(row, c))
           /\ Merged(row, c).name = row.name /\ Merged(row, c).target = c.target
           /\ Merged(row, c).days = DaysOf(c)
           /\ Supplied(c) => Merged(row, c).cred = Seal(row.provider, c)
  <1> DEFINE cred == IF Supplied(c) THEN Seal(row.provider, c) ELSE row.cred
             days == DaysOf(c)
  <1>1. row.provider \in Providers /\ row.name \in Names /\ row.challenge \in Challenges
    BY DEF Row
  <1>2. cred \in Credential \cup {None} /\ (cred # None => cred.plugin = row.provider)
    BY <1>1, SealFacts DEF Fits, Row
  <1>3. days \in Nat \ {0} /\ c.target \in Targets
    BY DaysFacts DEF Valued, Config
  <1>4. Merged(row, c) = [row EXCEPT !.target = c.target, !.days = days, !.cred = cred]
    BY DEF Merged
  <1>5. Merged(row, c) = [name |-> row.name, challenge |-> row.challenge,
                          provider |-> row.provider,
                          cred |-> cred, target |-> c.target, days |-> days]
    <2> HIDE DEF days, cred
    <2> QED
      BY <1>4 DEF Row
  <1> HIDE DEF days, cred
  <1>6. /\ Merged(row, c) \in Row /\ SameKind(Merged(row, c), row) /\ Fits(Merged(row, c))
        /\ Merged(row, c).name = row.name /\ Merged(row, c).target = c.target
        /\ Merged(row, c).days = days /\ Merged(row, c).cred = cred
    BY <1>1, <1>2, <1>3, <1>5 DEF Row, SameKind, Fits
  <1> QED
    BY <1>6 DEF days, cred

LEMMA NewRowFacts ==
    ASSUME NEW c, Valued(c), c.name # NoName, c.challenge \in Challenges,
           NEW cred \in Credential \cup {None}, cred # None => cred.plugin = c.provider
    PROVE  /\ NewRow(c, cred) \in Row /\ Fits(NewRow(c, cred))
           /\ NewRow(c, cred).name = c.name /\ SameKind(NewRow(c, cred), c)
           /\ NewRow(c, cred).target = c.target /\ NewRow(c, cred).days = DaysOf(c)
           /\ NewRow(c, cred).cred = cred
  <1>1. DaysOf(c) \in Nat \ {0} /\ c.name \in Names /\ c.provider \in Providers
        /\ c.target \in Targets
    BY DaysFacts DEF Valued, Config
  <1> QED
    BY <1>1 DEF NewRow, Row, Fits, SameKind

LEMMA ImportedRowFacts ==
    ASSUME NEW c, Valued(c), Importable(c)
    PROVE  /\ ImportedRow(c) \in Row /\ Fits(ImportedRow(c))
           /\ ImportedRow(c).name = c.name /\ SameKind(ImportedRow(c), c)
           /\ ImportedRow(c).target = c.target /\ ImportedRow(c).days = DaysOf(c)
           /\ c.challenge = "dns-01" /\ Supplied(c) => ImportedRow(c).cred = Seal(c.provider, c)
  <1> DEFINE cred == IF c.challenge = "dns-01" /\ Supplied(c) THEN Seal(c.provider, c) ELSE None
  <1>1. c.provider \in Providers /\ c.name # NoName /\ c.challenge \in Challenges
    BY DEF Valued, Config, Importable
  <1>2. cred \in Credential \cup {None} /\ (cred # None => cred.plugin = c.provider)
    BY <1>1, SealFacts DEF Importable
  <1>3. ImportedRow(c) = NewRow(c, cred)
    BY DEF ImportedRow
  <1> HIDE DEF cred
  <1>4. /\ NewRow(c, cred) \in Row /\ Fits(NewRow(c, cred))
        /\ NewRow(c, cred).name = c.name /\ SameKind(NewRow(c, cred), c)
        /\ NewRow(c, cred).target = c.target /\ NewRow(c, cred).days = DaysOf(c)
        /\ NewRow(c, cred).cred = cred
    BY <1>1, <1>2, NewRowFacts
  <1> QED
    BY <1>3, <1>4 DEF cred

-----------------------------------------------------------------------------
\* What a statement that writes a row leaves behind.
LEMMA Writing ==
    ASSUME IInv, NEW d \in DomainIds, NEW row \in Row, Put(d, row), NameFree(row.name, d),
           Fits(row), known' \in {known, known \cup {d}}, d \in known',
           domains[d] = None => d \notin known,
           domains[d] # None => SameKind(row, domains[d])
    PROVE  /\ domains' \in [DomainIds -> Row \cup {None}] /\ known' \subseteq DomainIds
           /\ NamesUnique'
           /\ domains'[d] = row /\ row # None
           /\ \A i \in DomainIds \ {d} : domains'[i] = domains[i]
           /\ \A i \in DomainIds : domains'[i] # None => i \in known' /\ Fits(domains'[i])
           /\ \A h \in Held : Faithful(h) => Faithful(h)'
  <1>1. domains \in [DomainIds -> Row \cup {None}] /\ known \subseteq DomainIds
    BY DEF IInv, TypeOK
  <1>2. domains'[d] = row /\ \A i \in DomainIds \ {d} : domains'[i] = domains[i]
    BY <1>1 DEF Put
  <1>3. row # None
    BY NamesAssumption
  <1>4. domains' \in [DomainIds -> Row \cup {None}] /\ known' \subseteq DomainIds
    BY <1>1 DEF Put
  <1>5. NamesUnique'
    BY <1>2, <1>3 DEF NamesUnique, NameFree, IInv
  <1>6. \A i \in DomainIds : domains'[i] # None => i \in known' /\ Fits(domains'[i])
    BY <1>2 DEF IInv, RowsFaithful
  <1>7. ASSUME NEW h \in Held, Faithful(h)
        PROVE  Faithful(h)'
    <2>1. h.id \in DomainIds /\ h.id \in known /\ Fits(h.row)
      BY <1>7 DEF Held, Faithful
    <2>2. h.id # d => domains'[h.id] = domains[h.id]
      BY <1>2, <2>1
    <2>3. h.id = d => SameKind(h.row, row)
      BY <1>7, <2>1 DEF Faithful, SameKind
    <2> QED
      BY <1>2, <1>7, <2>1, <2>2, <2>3 DEF Faithful
  <1> QED
    BY <1>2, <1>3, <1>4, <1>5, <1>6, <1>7

\* A step that writes no row keeps every row in memory faithful.
LEMMA NotWriting ==
    ASSUME UNCHANGED <<domains, known>>
    PROVE  \A h \in Held : Faithful(h) => Faithful(h)'
  BY DEF Faithful

\* A write of somebody who is not importing: all imports under way are disturbed.
LEMMA Disturbing ==
    ASSUME IInv, Disturb({}), UNCHANGED <<backup, left>>,
           \A q \in Requests : pc'[q] \in {"backup", "restored"} => pc'[q] = pc[q]
    PROVE  clean' \in [Requests -> BOOLEAN] /\ Restoring' /\ BackupSound'
  <1>1. clean' = [q \in Requests |-> FALSE]
    BY DEF Disturb
  <1>2. ASSUME NEW q \in Requests
        PROVE  /\ pc'[q] \in {"backup", "restored"} => backup # None /\ left[q] \subseteq backup
               /\ pc'[q] = "restored" => left[q] = {}
    BY DEF IInv, Restoring
  <1>3. Restoring'
    BY <1>1, <1>2 DEF Restoring
  <1> QED
    BY <1>1, <1>3 DEF IInv, BackupSound

\* A step that leaves the table and the progress of all imports alone.
LEMMA Resting ==
    ASSUME IInv, UNCHANGED <<domains, backup, byName, left, clean>>,
           \A q \in Requests : pc'[q] \in {"backup", "restored"} => pc'[q] = pc[q]
    PROVE  Restoring' /\ BackupSound' /\ NamesUnique'
  <1>1. \A c : Back(c)' <=> Back(c)
    BY DEF Back
  <1>2. \A q \in Requests : Current(q)' <=> Current(q)
    BY DEF Current
  <1>3. Restoring'
    BY <1>1, <1>2 DEF IInv, Restoring
  <1> QED
    BY <1>3 DEF IInv, BackupSound, NamesUnique, NameFree

LEMMA InitKeeps == Init => IInv
  <1> SUFFICES ASSUME Init PROVE IInv
    OBVIOUS
  <1>1. TypeOK
    BY EntriesAssumption DEF Init, TypeOK
  <1>2. NamesUnique /\ RowsFaithful /\ BackupSound /\ Restoring
    BY DEF Init, NamesUnique, RowsFaithful, BackupSound, Restoring
  <1> QED
    BY <1>1, <1>2 DEF IInv

LEMMA CreateKeeps ==
    ASSUME IInv, NEW d \in DomainIds, NEW c \in Configs, Create(d, c)
    PROVE  IInv'
  <1> DEFINE cred == IF c.challenge = "dns-01" THEN Seal(c.provider, c) ELSE None
  <1>1. Valued(c)
    BY ConfigsAssumption DEF Valued
  <1>2. cred \in Credential \cup {None} /\ (cred # None => cred.plugin = c.provider)
    <2>1. c.provider \in Providers
      BY <1>1 DEF Valued, Config
    <2>2. c.challenge = "dns-01" /\ c.provider # "none" => c.secret \in Secrets /\ c.provider \in Plugins
      BY <1>1, <2>1 DEF Create, CanSeal, Fields, Valued, Providers, Plugins
    <2> QED
      BY <2>1, <2>2 DEF Seal, Credential
  <1>3. Put(d, NewRow(c, cred)) /\ NameFree(c.name, d) /\ Disturb({}) /\ d \notin known
        /\ known' = known \cup {d} /\ UNCHANGED <<backup, pc, held, byName, left, entries>>
    BY DEF Create
  <1> HIDE DEF cred
  <1>4. NewRow(c, cred) \in Row /\ Fits(NewRow(c, cred)) /\ NewRow(c, cred).name = c.name
    BY <1>1, <1>2, NewRowFacts DEF Create
  <1>5. domains[d] = None
    BY <1>3 DEF IInv, RowsFaithful
  <1>6. /\ domains' \in [DomainIds -> Row \cup {None}] /\ known' \subseteq DomainIds
        /\ NamesUnique'
        /\ \A i \in DomainIds : domains'[i] # None => i \in known' /\ Fits(domains'[i])
        /\ \A h \in Held : Faithful(h) => Faithful(h)'
    BY <1>3, <1>4, <1>5, Writing
  <1>7. Restoring' /\ BackupSound' /\ clean' \in [Requests -> BOOLEAN]
    BY <1>3, Disturbing
  <1>8. TypeOK'
    BY <1>3, <1>6, <1>7 DEF IInv, TypeOK
  <1>9. RowsFaithful'
    BY <1>3, <1>6 DEF IInv, TypeOK, RowsFaithful
  <1> QED
    BY <1>6, <1>7, <1>8, <1>9 DEF IInv

LEMMA DeleteKeeps ==
    ASSUME IInv, NEW d \in DomainIds, Delete(d)
    PROVE  IInv'
  <1>1. domains' = [domains EXCEPT ![d] = None] /\ Disturb({})
        /\ UNCHANGED <<known, backup, pc, held, byName, left, entries>>
    BY DEF Delete, Put
  <1>2. \A i \in DomainIds : domains'[i] = IF i = d THEN None ELSE domains[i]
    BY <1>1 DEF IInv, TypeOK
  <1>3. Restoring' /\ BackupSound' /\ clean' \in [Requests -> BOOLEAN]
    BY <1>1, Disturbing
  <1>4. TypeOK'
    BY <1>1, <1>3 DEF IInv, TypeOK
  <1>5. NamesUnique'
    BY <1>2 DEF IInv, NamesUnique, NameFree
  <1>6. ASSUME NEW h \in Held, Faithful(h) PROVE Faithful(h)'
    BY <1>1, <1>2, <1>6 DEF Faithful, Held
  <1>7. RowsFaithful'
    BY <1>1, <1>2, <1>6 DEF IInv, TypeOK, RowsFaithful
  <1> QED
    BY <1>3, <1>4, <1>5, <1>7 DEF IInv

LEMMA UpdateReadKeeps ==
    ASSUME IInv, NEW q \in Requests, NEW d \in DomainIds, NEW c \in Configs, UpdateRead(q, d, c)
    PROVE  IInv'
  <1> DEFINE h == [id |-> d, row |-> Updated(domains[d], c)]
  <1>1. domains[d] \in Row /\ Fits(domains[d]) /\ d \in known
    BY DEF UpdateRead, IInv, TypeOK, RowsFaithful
  <1>2. /\ Updated(domains[d], c) \in Row /\ Fits(Updated(domains[d], c))
        /\ SameKind(Updated(domains[d], c), domains[d])
    BY <1>1, ConfigsAssumption, UpdatedFacts DEF UpdateRead, Valued
  <1>3. h \in Held /\ Faithful(h) /\ h # None
    BY <1>1, <1>2, NamesAssumption DEF Held, Faithful
  <1>4. /\ held' = [held EXCEPT ![q] = h]
        /\ \E label \in {"lookup", "write"} : pc' = [pc EXCEPT ![q] = label]
        /\ UNCHANGED <<domains, known, backup, byName, left, entries, clean>>
    BY DEF UpdateRead, Goto
  <1> HIDE DEF h
  <1>5. TypeOK'
    BY <1>3, <1>4 DEF IInv, TypeOK
  <1>6. Restoring' /\ BackupSound' /\ NamesUnique'
    BY <1>4, Resting DEF IInv, TypeOK
  <1>7. RowsFaithful'
    BY <1>3, <1>4, NotWriting DEF IInv, TypeOK, RowsFaithful
  <1> QED
    BY <1>5, <1>6, <1>7 DEF IInv

LEMMA RunReadKeeps ==
    ASSUME IInv, NEW q \in Requests, NEW d \in DomainIds, RunRead(q, d)
    PROVE  IInv'
  <1> DEFINE h == [id |-> d, row |-> domains[d]]
  <1>1. domains[d] \in Row /\ Fits(domains[d]) /\ d \in known
    BY DEF RunRead, IInv, TypeOK, RowsFaithful
  <1>2. h \in Held /\ Faithful(h) /\ h # None
    BY <1>1, NamesAssumption DEF Held, Faithful, SameKind
  <1>3. /\ held' = [held EXCEPT ![q] = h]
        /\ pc' = [pc EXCEPT ![q] = "write"]
        /\ UNCHANGED <<domains, known, backup, byName, left, entries, clean>>
    BY DEF RunRead, Goto
  <1> HIDE DEF h
  <1>4. TypeOK'
    BY <1>2, <1>3 DEF IInv, TypeOK
  <1>5. Restoring' /\ BackupSound' /\ NamesUnique'
    BY <1>3, Resting DEF IInv, TypeOK
  <1>6. RowsFaithful'
    BY <1>2, <1>3, NotWriting DEF IInv, TypeOK, RowsFaithful
  <1> QED
    BY <1>4, <1>5, <1>6 DEF IInv

LEMMA UpdateLookupKeeps ==
    ASSUME IInv, NEW q \in Requests, UpdateLookup(q)
    PROVE  IInv'
  <1>1. /\ held[q] # None
        /\ \E label \in {"write", "rejected"} : pc' = [pc EXCEPT ![q] = label]
        /\ UNCHANGED <<domains, known, backup, held, byName, left, entries, clean>>
    BY DEF UpdateLookup, Goto, IInv, RowsFaithful
  <1>2. TypeOK'
    BY <1>1 DEF IInv, TypeOK
  <1>3. Restoring' /\ BackupSound' /\ NamesUnique'
    BY <1>1, Resting DEF IInv, TypeOK
  <1>4. RowsFaithful'
    BY <1>1, NotWriting DEF IInv, TypeOK, RowsFaithful
  <1> QED
    BY <1>2, <1>3, <1>4 DEF IInv

LEMMA WriteBackKeeps ==
    ASSUME IInv, NEW q \in Requests, WriteBack(q)
    PROVE  IInv'
  <1> DEFINE d == held[q].id
             row == held[q].row
  <1>1. held[q] \in Held /\ Faithful(held[q]) /\ d \in DomainIds /\ row \in Row /\ Fits(row)
        /\ d \in known
    BY DEF WriteBack, IInv, TypeOK, RowsFaithful, Held, Faithful
  <1>2. /\ held' = [held EXCEPT ![q] = None]
        /\ UNCHANGED <<known, backup, byName, left, entries>>
    BY DEF WriteBack
  <1>3. CASE RowUpdated(d, row) /\ Put(d, row) /\ Disturb({}) /\ Goto(q, "ok")
    <2>1. domains[d] # None /\ NameFree(row.name, d) /\ SameKind(row, domains[d])
      BY <1>1, <1>3 DEF RowUpdated, Faithful
    <2>2. pc' = [pc EXCEPT ![q] = "ok"]
      BY <1>3 DEF Goto
    <2> HIDE DEF d, row
    <2>3. /\ domains' \in [DomainIds -> Row \cup {None}] /\ known' \subseteq DomainIds
          /\ NamesUnique'
          /\ \A i \in DomainIds : domains'[i] # None => i \in known' /\ Fits(domains'[i])
          /\ \A h \in Held : Faithful(h) => Faithful(h)'
      BY <1>1, <1>2, <1>3, <2>1, Writing
    <2>4. Restoring' /\ BackupSound' /\ clean' \in [Requests -> BOOLEAN]
      BY <1>2, <1>3, <2>2, Disturbing DEF IInv, TypeOK
    <2>5. TypeOK'
      BY <1>2, <2>2, <2>3, <2>4 DEF IInv, TypeOK
    <2>6. RowsFaithful'
      BY <1>2, <2>2, <2>3 DEF IInv, TypeOK, RowsFaithful
    <2> QED
      BY <2>3, <2>4, <2>5, <2>6 DEF IInv
  <1>4. CASE Goto(q, "rejected") /\ UNCHANGED <<domains, clean>>
    <2>1. pc' = [pc EXCEPT ![q] = "rejected"]
      BY <1>4 DEF Goto
    <2>2. TypeOK'
      BY <1>2, <1>4, <2>1 DEF IInv, TypeOK
    <2>3. Restoring' /\ BackupSound' /\ NamesUnique'
      BY <1>2, <1>4, <2>1, Resting DEF IInv, TypeOK
    <2>4. RowsFaithful'
      BY <1>2, <1>4, <2>1, NotWriting DEF IInv, TypeOK, RowsFaithful
    <2> QED
      BY <2>2, <2>3, <2>4 DEF IInv
  <1> QED
    BY <1>3, <1>4 DEF WriteBack

\* The backup is a faithful picture: names are unique and credentials fit.
LEMMA ExportKeeps ==
    ASSUME IInv, NEW withCreds \in BOOLEAN, Export(withCreds)
    PROVE  IInv'
  <1> DEFINE Saved == {i \in DomainIds : domains[i] # None}
             File  == {ConfigOf(domains[d], withCreds) : d \in Saved}
  <1>1. backup = None /\ backup' = File
        /\ UNCHANGED <<domains, known, pc, held, byName, left, entries, clean>>
    BY DEF Export
  <1>2. ASSUME NEW d \in Saved
        PROVE  LET c == ConfigOf(domains[d], withCreds) IN
               /\ c \in Config /\ c.name = domains[d].name
               /\ c.name \in Names /\ c.challenge \in Challenges /\ c.days # 0
               /\ c.filled = {} \/ (/\ c.provider \in Plugins /\ c.secret \in Secrets
                                    /\ c.filled = Fields(c.provider))
    <2> DEFINE row == domains[d]
               open == withCreds /\ row.cred # None
               filled == IF open THEN Fields(row.provider) ELSE {}
               secret == IF open THEN row.cred.secret ELSE None
    <2>1. row \in Row /\ Fits(row)
      BY DEF IInv, TypeOK, RowsFaithful
    <2>2. open => row.cred \in Credential /\ row.provider \in Plugins
      BY <2>1 DEF Row, Fits, Credential
    <2>3. filled \in SUBSET {"token", "id", "key"} /\ secret \in Secrets \cup {None}
      BY <2>2 DEF Fields, Credential
    <2>4. filled = {} \/ (/\ row.provider \in Plugins /\ secret \in Secrets
                          /\ filled = Fields(row.provider))
      BY <2>2 DEF Credential
    <2>5. ConfigOf(row, withCreds) =
            [name |-> row.name, challenge |-> row.challenge, provider |-> row.provider,
             target |-> row.target, days |-> row.days, filled |-> filled, secret |-> secret]
      BY DEF ConfigOf
    <2> HIDE DEF filled, secret
    <2> QED
      BY <2>1, <2>3, <2>4, <2>5 DEF Row, Config
  <1>3. File \subseteq Config
    BY <1>2
  <1>4. BackupSound'
    <2>1. \A c \in File :
              /\ c.name \in Names /\ c.challenge \in Challenges /\ c.days # 0
              /\ c.filled = {} \/ (/\ c.provider \in Plugins /\ c.secret \in Secrets
                                   /\ c.filled = Fields(c.provider))
      BY <1>2
    <2>2. \A c1, c2 \in File : c1.name = c2.name => c1 = c2
      <3> SUFFICES ASSUME NEW d1 \in Saved, NEW d2 \in Saved,
                          ConfigOf(domains[d1], withCreds).name = ConfigOf(domains[d2], withCreds).name
                   PROVE  d1 = d2
        OBVIOUS
      <3>1. domains[d1].name = domains[d2].name
        BY <1>2
      <3> QED
        BY <3>1 DEF IInv, NamesUnique, NameFree
    <2> HIDE DEF File
    <2> QED
      BY <1>1, <2>1, <2>2 DEF BackupSound
  <1> HIDE DEF File
  <1>5. TypeOK'
    BY <1>1, <1>3 DEF IInv, TypeOK
  <1>6. \A q \in Requests : pc[q] \notin {"backup", "restored"}
    BY <1>1 DEF IInv, Restoring
  <1>7. Restoring'
    BY <1>1, <1>6 DEF Restoring
  <1>8. NamesUnique' /\ RowsFaithful'
    BY <1>1, NotWriting DEF IInv, TypeOK, NamesUnique, NameFree, RowsFaithful
  <1> QED
    BY <1>4, <1>5, <1>7, <1>8 DEF IInv

\* Import's listing has every domain under its name, and no other.
LEMMA ListingFacts ==
    ASSUME IInv
    PROVE  /\ Listing \in [Names -> Held \cup {None}]
           /\ \A n \in Names :
                 IF Listing[n] = None
                 THEN \A d \in DomainIds : domains[d] # None => domains[d].name # n
                 ELSE /\ Listing[n] \in Held /\ Faithful(Listing[n])
                      /\ domains[Listing[n].id] # None /\ domains[Listing[n].id].name = n
                      /\ Listing[n].row.name = n
  <1>1. ASSUME NEW n \in Names, NEW i \in DomainIds, domains[i] # None, domains[i].name = n
        PROVE  LET d == CHOOSE d \in DomainIds : domains[d] # None /\ domains[d].name = n
               IN /\ d \in DomainIds /\ domains[d] # None /\ domains[d].name = n
    BY <1>1
  <1>2. ASSUME NEW n \in Names, NEW i \in DomainIds, domains[i] # None, domains[i].name = n
        PROVE  LET h == Listing[n] IN
               /\ h \in Held /\ Faithful(h) /\ h # None
               /\ domains[h.id] # None /\ domains[h.id].name = n /\ h.row.name = n
    <2> DEFINE d == CHOOSE d \in DomainIds : domains[d] # None /\ domains[d].name = n
    <2>1. d \in DomainIds /\ domains[d] # None /\ domains[d].name = n
      BY <1>1, <1>2
    <2>2. Listing[n] = [id |-> d, row |-> domains[d]]
      BY <1>2 DEF Listing
    <2> HIDE DEF d
    <2>3. domains[d] \in Row /\ d \in known /\ Fits(domains[d])
      BY <2>1 DEF IInv, TypeOK, RowsFaithful
    <2>4. [id |-> d, row |-> domains[d]] \in Held
      BY <2>1, <2>3 DEF Held
    <2> QED
      BY <2>1, <2>2, <2>3, <2>4, NamesAssumption DEF Faithful, SameKind
  <1>3. ASSUME NEW n \in Names, ~ \E i \in DomainIds : domains[i] # None /\ domains[i].name = n
        PROVE  Listing[n] = None
    BY <1>3 DEF Listing
  <1>4. Listing = [n \in Names |-> Listing[n]]
    BY DEF Listing
  <1> QED
    BY <1>2, <1>3, <1>4

LEMMA ImportListKeeps ==
    ASSUME IInv, NEW q \in Requests, NEW file, ImportList(q, file),
           file = {} \/ (backup # None /\ file = backup)
    PROVE  IInv'
  <1>1. /\ pc[q] = "idle"
        /\ byName' = [byName EXCEPT ![q] = Listing] /\ left' = [left EXCEPT ![q] = file]
        /\ clean' = [clean EXCEPT ![q] = TRUE]
        /\ pc' = [pc EXCEPT ![q] = IF file = {} THEN "entries" ELSE "backup"]
        /\ UNCHANGED <<domains, known, backup, held, entries>>
    BY DEF ImportList, Goto
  <1>2. file \in SUBSET Config
    BY DEF IInv, TypeOK
  <1>3. TypeOK'
    BY <1>1, <1>2, ListingFacts DEF IInv, TypeOK
  <1>4. NamesUnique' /\ BackupSound'
    BY <1>1 DEF IInv, NamesUnique, NameFree, BackupSound
  <1>5. RowsFaithful'
    <2>1. \A p \in Requests : byName'[p] = IF p = q THEN Listing ELSE byName[p]
      BY <1>1 DEF IInv, TypeOK
    <2>2. \A h \in Held : Faithful(h) => Faithful(h)'
      BY <1>1, NotWriting
    <2>3. ASSUME NEW p \in Requests, NEW n \in Names, byName'[p][n] # None
          PROVE  LET h == byName'[p][n] IN
                 /\ h.id \in known /\ Fits(h.row)
                 /\ domains[h.id] # None => SameKind(h.row, domains[h.id])
                 /\ h.row.name = n
      <3>1. CASE p = q
        BY <2>1, <2>3, <3>1, ListingFacts DEF Faithful
      <3>2. CASE p # q
        BY <2>1, <2>3, <3>2 DEF IInv, RowsFaithful, Faithful
      <3> QED
        BY <3>1, <3>2
    <2>4. \A p \in Requests, n \in Names :
              (byName[p][n] # None => Faithful(byName[p][n]) /\ byName[p][n].row.name = n)'
      BY <1>1, <2>3 DEF Faithful
    <2>5. \A p \in Requests : /\ pc'[p] \in {"lookup", "write"} => held[p] # None
                             /\ held[p] # None => held[p] \in Held /\ Faithful(held[p])
      BY <1>1 DEF IInv, TypeOK, RowsFaithful
    <2> QED
      BY <1>1, <2>2, <2>4, <2>5 DEF IInv, RowsFaithful
  <1>6. Restoring'
    <2>1. \A c : Back(c)' <=> Back(c)
      BY <1>1 DEF Back
    <2>2. byName'[q] = Listing /\ \A p \in Requests : p # q => byName'[p] = byName[p]
      BY <1>1 DEF IInv, TypeOK
    <2>3. Current(q)'
      BY <1>1, <2>2, ListingFacts DEF Current
    <2>4. \A p \in Requests : p # q => (Current(p)' <=> Current(p))
      BY <1>1, <2>2 DEF Current
    <2>5. \A p \in Requests : p # q =>
              /\ Current(p)' <=> Current(p)
              /\ left'[p] = left[p] /\ pc'[p] = pc[p] /\ clean'[p] = clean[p]
      BY <1>1, <2>4 DEF IInv, TypeOK
    <2>6. pc'[q] # "restored" /\ left'[q] = file
      BY <1>1 DEF IInv, TypeOK
    <2>7. pc'[q] = "backup" => backup # None /\ file = backup
      BY <1>1 DEF IInv, TypeOK
    <2> QED
      BY <1>1, <2>1, <2>3, <2>5, <2>6, <2>7 DEF IInv, Restoring
  <1> QED
    BY <1>3, <1>4, <1>5, <1>6 DEF IInv

-----------------------------------------------------------------------------
\* What an entry may be.  Those of a backup are accepted: Import finds the
\* fields it asks for, and credentials that fit the provider they were saved for.
LEMMA EntryFacts ==
    ASSUME IInv, NEW q \in Requests, NEW c, NextEntry(q, c)
    PROVE  /\ Valued(c)
           /\ left' \in [Requests -> SUBSET Config] /\ entries' \in 0..MaxEntries
           /\ \A p \in Requests : p # q => left'[p] = left[p]
           /\ left'[q] \subseteq left[q]
           /\ pc[q] \in {"entries", "backup"}
           /\ pc[q] = "backup" => /\ c \in left[q] /\ left'[q] = left[q] \ {c}
                                  /\ backup # None /\ c \in backup
  <1>1. CASE pc[q] = "entries" /\ c \in Configs /\ entries < MaxEntries
             /\ entries' = entries + 1 /\ UNCHANGED left
    BY <1>1, ConfigsAssumption, EntriesAssumption DEF IInv, TypeOK, Valued
  <1>2. CASE pc[q] = "backup" /\ c \in left[q]
             /\ left' = [left EXCEPT ![q] = @ \ {c}] /\ UNCHANGED entries
    <2>1. left[q] \subseteq backup /\ backup # None /\ left[q] \in SUBSET Config
      BY <1>2 DEF IInv, TypeOK, Restoring
    <2>2. Valued(c)
      BY <1>2, <2>1 DEF IInv, BackupSound, Valued
    <2> QED
      BY <1>2, <2>1, <2>2 DEF IInv, TypeOK
  <1> QED
    BY <1>1, <1>2 DEF NextEntry

LEMMA SavedFacts ==
    ASSUME IInv, NEW c, backup # None, c \in backup
    PROVE  /\ Valued(c) /\ Importable(c) /\ DaysOf(c) = c.days
           /\ c.filled # {} => Supplied(c) /\ CanSeal(c.provider, c)
           /\ c.filled # {} => Seal(c.provider, c) = [plugin |-> c.provider, secret |-> c.secret]
           /\ c.filled = {} => ~Supplied(c)
  <1>1. c \in Config /\ c.name \in Names /\ c.challenge \in Challenges /\ c.days # 0
        /\ (c.filled = {} \/ (/\ c.provider \in Plugins /\ c.secret \in Secrets
                              /\ c.filled = Fields(c.provider)))
    BY DEF IInv, TypeOK, BackupSound
  <1>2. c.filled # {} => Supplied(c) /\ CanSeal(c.provider, c)
        /\ Seal(c.provider, c) = [plugin |-> c.provider, secret |-> c.secret]
    BY <1>1 DEF Plugins, Fields, Supplied, CanSeal, Seal
  <1>3. c.filled = {} => ~Supplied(c)
    BY DEF Supplied
  <1>4. Importable(c)
    BY <1>1, <1>2, <1>3, NamesAssumption DEF Importable
  <1> QED
    BY <1>1, <1>2, <1>3, <1>4, DaysFacts DEF Valued

\* An entry that is written: the import stays in step with the table.
LEMMA Progress ==
    ASSUME IInv, NEW q \in Requests, NEW c, NextEntry(q, c), c.name \in Names,
           NEW d \in DomainIds, NEW row \in Row, row.name = c.name,
           Put(d, row), Disturb({q}), UNCHANGED <<pc, backup>>,
           byName' = [byName EXCEPT ![q][c.name] = [id |-> d, row |-> row]],
           pc[q] = "backup" /\ clean[q] =>
               /\ domains[d] = None \/ domains[d].name = c.name
               /\ Agrees(row, c)
    PROVE  Restoring'
  <1> DEFINE h == [id |-> d, row |-> row]
  <1>1. \A i \in DomainIds : domains'[i] = IF i = d THEN row ELSE domains[i]
    BY DEF Put, IInv, TypeOK
  <1>2. row # None /\ h # None /\ h \in Held /\ h.id = d /\ h.row = row
    BY NamesAssumption DEF Held
  <1>3. /\ clean'[q] => clean[q]
        /\ \A p \in Requests : p # q => ~clean'[p]
    BY DEF Disturb, IInv, TypeOK
  <1>4. \A n \in Names : byName'[q][n] = IF n = c.name THEN h ELSE byName[q][n]
    BY DEF IInv, TypeOK
  <1>5. ASSUME NEW p \in Requests, pc[p] \in {"backup", "restored"}
        PROVE  backup # None /\ left'[p] \subseteq backup
    BY <1>5, EntryFacts DEF IInv, Restoring
  <1>6. ASSUME NEW p \in Requests, pc[p] = "restored"
        PROVE  left'[p] = {}
    BY <1>6, EntryFacts DEF IInv, Restoring
  <1>7. ASSUME pc[q] = "backup", clean[q]
        PROVE  Current(q)' /\ \A s \in backup \ left'[q] : Back(s)'
    <2>1. Current(q)
      BY <1>7 DEF IInv, Restoring
    <2>2. Current(q)'
      <3> SUFFICES ASSUME NEW n \in Names
                   PROVE  IF byName'[q][n] = None
                          THEN \A i \in DomainIds : domains'[i] # None => domains'[i].name # n
                          ELSE LET g == byName'[q][n]
                               IN domains'[g.id] # None /\ domains'[g.id].name = n
        BY DEF Current
      <3>1. CASE n = c.name
        BY <1>1, <1>2, <1>4, <3>1
      <3>2. CASE n # c.name /\ byName[q][n] = None
        BY <1>1, <1>4, <2>1, <3>2 DEF Current
      <3>3. CASE n # c.name /\ byName[q][n] # None
        <4>1. byName[q][n].id \in DomainIds
          BY <3>3 DEF IInv, TypeOK, Held
        <4> QED
          BY <1>1, <1>4, <1>7, <2>1, <3>3, <4>1 DEF Current
      <3> QED
        BY <3>1, <3>2, <3>3
    <2>3. left'[q] = left[q] \ {c} /\ c \in backup /\ backup # None
      BY <1>7, EntryFacts
    <2>4. Back(c)'
      BY <1>1, <1>2, <1>7 DEF Back
    <2>5. ASSUME NEW s \in backup, s \notin left[q], s # c
          PROVE  Back(s)'
      <3>1. PICK i \in DomainIds : domains[i] # None /\ Agrees(domains[i], s)
        BY <1>7, <2>5 DEF IInv, Restoring, Back
      <3>2. s.name # c.name
        BY <2>3, <2>5 DEF IInv, BackupSound
      <3>3. i # d
        BY <1>7, <3>1, <3>2 DEF Agrees
      <3> QED
        BY <1>1, <3>1, <3>3 DEF Back
    <2> QED
      BY <2>2, <2>3, <2>4, <2>5
  <1>8. pc[q] \in {"entries", "backup"}
    BY EntryFacts
  <1>9. ASSUME NEW p \in Requests
        PROVE  /\ pc[p] \in {"backup", "restored"} /\ clean'[p] =>
                     \A s \in backup \ left'[p] : Back(s)'
               /\ pc[p] = "backup" /\ clean'[p] => Current(p)'
    <2>1. CASE p = q
      BY <1>3, <1>7, <1>8, <2>1
    <2>2. CASE p # q
      BY <1>3, <2>2
    <2> QED
      BY <2>1, <2>2
  <1> QED
    BY <1>5, <1>6, <1>9 DEF Restoring

\* An entry that writes nothing, because it is refused or its statement fails.
LEMMA NoProgress ==
    ASSUME IInv, NEW q \in Requests, NEW c, NextEntry(q, c), c.name \in Names \cup {NoName},
           UNCHANGED <<domains, pc, backup>>,
           clean' \in [Requests -> BOOLEAN], \A p \in Requests : p # q => clean'[p] = clean[p],
           clean'[q] => clean[q],
           \A p \in Requests : p # q => byName'[p] = byName[p],
           pc[q] = "backup" /\ clean'[q] => Current(q)' /\ Back(c)
    PROVE  Restoring'
  <1>1. \A s : Back(s)' <=> Back(s)
    BY DEF Back
  <1>2. \A p \in Requests : p # q => (Current(p)' <=> Current(p))
    BY DEF Current
  <1>3. ASSUME NEW p \in Requests, p # q
        PROVE  left'[p] = left[p]
    BY <1>3, EntryFacts
  <1>4. left'[q] \subseteq left[q] /\ (pc[q] = "backup" => left'[q] = left[q] \ {c})
        /\ pc[q] # "restored"
    BY EntryFacts
  <1>5. ASSUME NEW p \in Requests
        PROVE  /\ pc[p] \in {"backup", "restored"} => backup # None /\ left'[p] \subseteq backup
               /\ pc[p] \in {"backup", "restored"} /\ clean'[p] =>
                     \A s \in backup \ left'[p] : Back(s)
               /\ pc[p] = "backup" /\ clean'[p] => Current(p)'
               /\ pc[p] = "restored" => left'[p] = {}
    <2>1. CASE p = q
      BY <1>4, <2>1 DEF IInv, Restoring
    <2>2. CASE p # q
      BY <1>2, <1>3, <2>2 DEF IInv, Restoring
    <2> QED
      BY <2>1, <2>2
  <1> QED
    BY <1>1, <1>5 DEF Restoring

\* What Import remembers of a row stays faithful.
LEMMA Remembering ==
    ASSUME IInv, NEW q \in Requests, NEW n \in Names, NEW h \in Held, h.row.name = n,
           byName' = [byName EXCEPT ![q][n] = h], UNCHANGED <<pc, held>>,
           Faithful(h)', \A g \in Held : Faithful(g) => Faithful(g)'
    PROVE  /\ byName' \in [Requests -> [Names -> Held \cup {None}]]
           /\ \A p \in Requests :
                 /\ pc'[p] \in {"lookup", "write"} => held'[p] # None
                 /\ (held[p] # None => Faithful(held[p]))'
                 /\ \A m \in Names :
                       (byName[p][m] # None => Faithful(byName[p][m]) /\ byName[p][m].row.name = m)'
  <1>1. byName' \in [Requests -> [Names -> Held \cup {None}]]
    BY DEF IInv, TypeOK
  <1>2. \A p \in Requests, m \in Names :
            byName'[p][m] = IF p = q /\ m = n THEN h ELSE byName[p][m]
    BY DEF IInv, TypeOK
  <1>3. ASSUME NEW p \in Requests, NEW m \in Names
        PROVE  (byName[p][m] # None => Faithful(byName[p][m]) /\ byName[p][m].row.name = m)'
    <2>1. CASE p = q /\ m = n
      BY <1>2, <2>1 DEF Faithful
    <2>2. CASE ~(p = q /\ m = n)
      <3>1. byName'[p][m] = byName[p][m]
        BY <1>2, <2>2
      <3>2. byName[p][m] # None =>
              byName[p][m] \in Held /\ Faithful(byName[p][m]) /\ byName[p][m].row.name = m
        BY DEF IInv, TypeOK, RowsFaithful
      <3> QED
        BY <3>1, <3>2 DEF Faithful
    <2> QED
      BY <2>1, <2>2
  <1>4. ASSUME NEW p \in Requests
        PROVE  /\ pc'[p] \in {"lookup", "write"} => held'[p] # None
               /\ (held[p] # None => Faithful(held[p]))'
    <2>1. held[p] # None => held[p] \in Held /\ Faithful(held[p])
      BY DEF IInv, TypeOK, RowsFaithful
    <2> QED
      BY <2>1 DEF IInv, RowsFaithful, Faithful
  <1> QED
    BY <1>1, <1>3, <1>4

LEMMA ImportUpdateKeeps ==
    ASSUME IInv, NEW q \in Requests, NEW c, ImportUpdate(q, c)
    PROVE  IInv'
  <1> DEFINE found == byName[q][c.name]
             row == Merged(found.row, c)
  <1>1. /\ NextEntry(q, c) /\ c.name \in Names /\ found # None
        /\ Supplied(c) => CanSeal(found.row.provider, c)
        /\ byName' = [byName EXCEPT ![q][c.name] = [id |-> found.id, row |-> row]]
        /\ UNCHANGED <<known, backup, pc, held>>
    BY DEF ImportUpdate, Listed
  <1>2. found \in Held /\ Faithful(found) /\ found.id \in DomainIds /\ found.id \in known
        /\ found.row \in Row /\ Fits(found.row) /\ found.row.name = c.name
    BY <1>1 DEF IInv, TypeOK, RowsFaithful, Held, Faithful
  <1>3. Valued(c)
    BY <1>1, EntryFacts
  <1>4. /\ row \in Row /\ SameKind(row, found.row) /\ Fits(row)
        /\ row.name = found.row.name /\ row.target = c.target /\ row.days = DaysOf(c)
        /\ Supplied(c) => row.cred = Seal(found.row.provider, c)
    BY <1>1, <1>2, <1>3, MergedFacts
  <1>5. PICK h \in Held : h = [id |-> found.id, row |-> row]
    BY <1>2, <1>4 DEF Held
  <1>6. Faithful(h) /\ h.row.name = c.name
    BY <1>2, <1>4, <1>5 DEF Faithful, SameKind
  <1>7. pc[q] = "backup" /\ clean[q] =>
            domains[found.id] # None /\ domains[found.id].name = c.name /\ Agrees(row, c)
    <2> SUFFICES ASSUME pc[q] = "backup", clean[q]
                 PROVE  /\ domains[found.id] # None /\ domains[found.id].name = c.name
                        /\ Agrees(row, c)
      OBVIOUS
    <2>1. domains[found.id] # None /\ domains[found.id].name = c.name
      BY <1>1 DEF IInv, Restoring, Current
    <2>2. c \in backup /\ backup # None
      BY <1>1, EntryFacts
    <2>3. DaysOf(c) = c.days
          /\ (c.filled # {} => Supplied(c)
                /\ Seal(c.provider, c) = [plugin |-> c.provider, secret |-> c.secret])
      BY <2>2, SavedFacts
    <2> HIDE DEF row, found
    <2>4. SameKind(row, c) => found.row.provider = c.provider
      BY <1>4 DEF SameKind
    <2> QED
      BY <1>2, <1>4, <2>1, <2>3, <2>4 DEF Agrees
  <1>8. CASE RowUpdated(found.id, row) /\ Put(found.id, row) /\ Disturb({q})
    <2>1. domains[found.id] # None /\ NameFree(row.name, found.id)
          /\ SameKind(row, domains[found.id])
      BY <1>2, <1>4, <1>8 DEF RowUpdated, Faithful, SameKind
    <2> HIDE DEF row, found
    <2>2. /\ domains' \in [DomainIds -> Row \cup {None}] /\ known' \subseteq DomainIds
          /\ NamesUnique'
          /\ \A i \in DomainIds : domains'[i] # None => i \in known' /\ Fits(domains'[i])
          /\ \A g \in Held : Faithful(g) => Faithful(g)'
      BY <1>1, <1>2, <1>4, <1>8, <2>1, Writing
    <2>3. Faithful(h)'
      BY <1>6, <2>2
    <2>4. /\ byName' \in [Requests -> [Names -> Held \cup {None}]]
          /\ \A p \in Requests :
                 /\ pc'[p] \in {"lookup", "write"} => held'[p] # None
                 /\ (held[p] # None => Faithful(held[p]))'
                 /\ \A m \in Names :
                       (byName[p][m] # None => Faithful(byName[p][m]) /\ byName[p][m].row.name = m)'
      BY <1>1, <1>5, <1>6, <2>2, <2>3, Remembering
    <2>5. RowsFaithful'
      BY <2>2, <2>4 DEF RowsFaithful
    <2>6. clean' \in [Requests -> BOOLEAN]
      BY <1>8 DEF Disturb, IInv, TypeOK
    <2>7. TypeOK'
      BY <1>1, <2>2, <2>4, <2>6, EntryFacts DEF IInv, TypeOK
    <2>8. Restoring'
      BY <1>1, <1>2, <1>4, <1>7, <1>8, Progress
    <2> QED
      BY <1>1, <2>2, <2>5, <2>7, <2>8 DEF IInv, BackupSound
  <1>9. CASE Taint(q) /\ UNCHANGED domains
    <2> HIDE DEF row, found
    <2>1. \A g \in Held : Faithful(g) => Faithful(g)'
      BY <1>1, <1>9, NotWriting
    <2>2. Faithful(h)'
      BY <1>6, <2>1
    <2>3. clean' \in [Requests -> BOOLEAN] /\ ~clean'[q]
          /\ \A p \in Requests : p # q => clean'[p] = clean[p]
      BY <1>9 DEF Taint, IInv, TypeOK
    <2>4. /\ byName' \in [Requests -> [Names -> Held \cup {None}]]
          /\ \A p \in Requests :
                 /\ pc'[p] \in {"lookup", "write"} => held'[p] # None
                 /\ (held[p] # None => Faithful(held[p]))'
                 /\ \A m \in Names :
                       (byName[p][m] # None => Faithful(byName[p][m]) /\ byName[p][m].row.name = m)'
      BY <1>1, <1>5, <1>6, <2>1, <2>2, Remembering
    <2>5. RowsFaithful'
      BY <1>1, <1>9, <2>4 DEF IInv, RowsFaithful
    <2>6. TypeOK'
      BY <1>1, <1>9, <2>3, <2>4, EntryFacts DEF IInv, TypeOK
    <2>7. \A p \in Requests : p # q => byName'[p] = byName[p]
      BY <1>1 DEF IInv, TypeOK
    <2>8. Restoring'
      BY <1>1, <1>9, <2>3, <2>7, NoProgress
    <2>9. NamesUnique' /\ BackupSound'
      BY <1>1, <1>9 DEF IInv, NamesUnique, NameFree, BackupSound
    <2> QED
      BY <2>5, <2>6, <2>8, <2>9 DEF IInv
  <1> QED
    BY <1>8, <1>9 DEF ImportUpdate

LEMMA ImportCreateKeeps ==
    ASSUME IInv, NEW q \in Requests, NEW c, ImportCreate(q, c)
    PROVE  IInv'
  <1>1. /\ NextEntry(q, c) /\ Importable(c) /\ c.name \in Names
        /\ UNCHANGED <<backup, pc, held>>
    <2>1. Valued(c)
      BY EntryFacts DEF ImportCreate
    <2> QED
      BY <2>1 DEF ImportCreate, Importable, Valued, Config
  <1>2. Valued(c)
    BY <1>1, EntryFacts
  <1>3. ASSUME NEW d \in DomainIds \ known, NameFree(c.name, d), Put(d, ImportedRow(c)),
               known' = known \cup {d}, Disturb({q}),
               byName' = [byName EXCEPT ![q][c.name] = [id |-> d, row |-> ImportedRow(c)]]
        PROVE  IInv'
    <2> DEFINE row == ImportedRow(c)
    <2>1. /\ row \in Row /\ Fits(row) /\ row.name = c.name /\ SameKind(row, c)
          /\ row.target = c.target /\ row.days = DaysOf(c)
          /\ c.challenge = "dns-01" /\ Supplied(c) => row.cred = Seal(c.provider, c)
      BY <1>1, <1>2, ImportedRowFacts
    <2>2. domains[d] = None
      BY DEF IInv, RowsFaithful
    <2>3. PICK h \in Held : h = [id |-> d, row |-> row]
      BY <2>1 DEF Held
    <2>4. Put(d, row) /\ byName' = [byName EXCEPT ![q][c.name] = h]
      BY <1>3, <2>3
    <2> HIDE DEF row
    <2>5. /\ domains' \in [DomainIds -> Row \cup {None}] /\ known' \subseteq DomainIds
          /\ NamesUnique'
          /\ domains'[d] = row
          /\ \A i \in DomainIds : domains'[i] # None => i \in known' /\ Fits(domains'[i])
          /\ \A g \in Held : Faithful(g) => Faithful(g)'
      BY <1>3, <2>1, <2>2, <2>4, Writing
    <2>6. Faithful(h)' /\ h.row.name = c.name
      BY <1>3, <2>1, <2>3, <2>5 DEF Faithful, SameKind
    <2>7. /\ byName' \in [Requests -> [Names -> Held \cup {None}]]
          /\ \A p \in Requests :
                 /\ pc'[p] \in {"lookup", "write"} => held'[p] # None
                 /\ (held[p] # None => Faithful(held[p]))'
                 /\ \A m \in Names :
                       (byName[p][m] # None => Faithful(byName[p][m]) /\ byName[p][m].row.name = m)'
      BY <1>1, <2>4, <2>5, <2>6, Remembering
    <2>8. RowsFaithful'
      BY <2>5, <2>7 DEF RowsFaithful
    <2>9. clean' \in [Requests -> BOOLEAN]
      BY <1>3 DEF Disturb, IInv, TypeOK
    <2>10. TypeOK'
      BY <1>1, <2>5, <2>7, <2>9, EntryFacts DEF IInv, TypeOK
    <2>11. pc[q] = "backup" => Agrees(row, c)
      <3> SUFFICES ASSUME pc[q] = "backup" PROVE Agrees(row, c)
        OBVIOUS
      <3>1. c \in backup /\ backup # None
        BY <1>1, EntryFacts
      <3>2. DaysOf(c) = c.days
            /\ (c.filled # {} => Supplied(c)
                  /\ Seal(c.provider, c) = [plugin |-> c.provider, secret |-> c.secret])
        BY <3>1, SavedFacts
      <3> QED
        BY <2>1, <3>2 DEF Agrees
    <2>12. Restoring'
      BY <1>1, <1>3, <2>1, <2>2, <2>3, <2>4, <2>11, Progress
    <2> QED
      BY <1>1, <2>5, <2>8, <2>10, <2>12 DEF IInv, BackupSound
  <1>4. CASE Taint(q) /\ UNCHANGED <<domains, known, byName>>
    <2>1. clean' \in [Requests -> BOOLEAN] /\ ~clean'[q]
          /\ \A p \in Requests : p # q => clean'[p] = clean[p]
      BY <1>4 DEF Taint, IInv, TypeOK
    <2>2. TypeOK'
      BY <1>1, <1>4, <2>1, EntryFacts DEF IInv, TypeOK
    <2>3. RowsFaithful'
      BY <1>1, <1>4, NotWriting DEF IInv, TypeOK, RowsFaithful
    <2>4. Restoring'
      BY <1>1, <1>4, <2>1, NoProgress
    <2>5. NamesUnique' /\ BackupSound'
      BY <1>1, <1>4 DEF IInv, NamesUnique, NameFree, BackupSound
    <2> QED
      BY <2>2, <2>3, <2>4, <2>5 DEF IInv
  <1> QED
    BY <1>3, <1>4 DEF ImportCreate

\* An entry that is refused: of a backup, only one of another kind than the
\* domain that has its name.
LEMMA ImportErrorKeeps ==
    ASSUME IInv, NEW q \in Requests, NEW c, ImportError(q, c)
    PROVE  IInv'
  <1>1. NextEntry(q, c) /\ UNCHANGED <<domains, known, backup, pc, held, clean>>
    BY DEF ImportError
  <1>2. Valued(c) /\ c.name \in Names \cup {NoName}
    BY <1>1, EntryFacts DEF Valued, Config
  <1>3. NamesUnique' /\ BackupSound'
    BY <1>1 DEF IInv, NamesUnique, NameFree, BackupSound
  <1>4. \A g \in Held : Faithful(g) => Faithful(g)'
    BY <1>1, NotWriting
  <1>5. CASE ~Listed(q, c) /\ ~Importable(c) /\ UNCHANGED byName
    <2>1. TypeOK'
      BY <1>1, <1>5, EntryFacts DEF IInv, TypeOK
    <2>2. RowsFaithful'
      BY <1>1, <1>4, <1>5 DEF IInv, TypeOK, RowsFaithful
    <2>3. pc[q] # "backup"
      BY <1>1, <1>5, EntryFacts, SavedFacts
    <2>4. Restoring'
      BY <1>1, <1>2, <1>5, <2>3, NoProgress DEF IInv, TypeOK
    <2> QED
      BY <1>3, <2>1, <2>2, <2>4 DEF IInv
  <1>6. CASE /\ Listed(q, c) /\ Supplied(c) /\ ~CanSeal(byName[q][c.name].row.provider, c)
             /\ byName' = [byName EXCEPT ![q][c.name] =
                              [id |-> @.id, row |-> [@.row EXCEPT !.target = c.target,
                                                                  !.days = DaysOf(c)]]]
    <2> DEFINE found == byName[q][c.name]
               days == DaysOf(c)
               row == [found.row EXCEPT !.target = c.target, !.days = days]
    <2>1. c.name \in Names /\ found # None
      BY <1>6 DEF Listed
    <2>2. /\ found \in Held /\ Faithful(found) /\ found.row.name = c.name
          /\ found.id \in DomainIds /\ found.row \in Row
      BY <2>1 DEF IInv, TypeOK, RowsFaithful, Held
    <2>3. days \in Nat \ {0} /\ c.target \in Targets
      BY <1>2, DaysFacts DEF Valued, Config
    <2>4. byName' = [byName EXCEPT ![q][c.name] = [id |-> found.id, row |-> row]]
      BY <1>6, <2>1 DEF IInv, TypeOK
    <2> HIDE DEF days, found
    <2>5. /\ row \in Row /\ row.name = found.row.name /\ row.provider = found.row.provider
          /\ row.challenge = found.row.challenge /\ row.cred = found.row.cred
      BY <2>2, <2>3 DEF Row
    <2> HIDE DEF row
    <2>6. PICK h \in Held : h = [id |-> found.id, row |-> row]
      BY <2>2, <2>5 DEF Held
    <2>7. Faithful(h) /\ h.row.name = c.name
      BY <2>2, <2>5, <2>6 DEF Faithful, Fits, SameKind
    <2>8. /\ byName' \in [Requests -> [Names -> Held \cup {None}]]
          /\ \A p \in Requests :
                 /\ pc'[p] \in {"lookup", "write"} => held'[p] # None
                 /\ (held[p] # None => Faithful(held[p]))'
                 /\ \A m \in Names :
                       (byName[p][m] # None => Faithful(byName[p][m]) /\ byName[p][m].row.name = m)'
      BY <1>1, <1>4, <2>1, <2>4, <2>6, <2>7, Remembering
    <2>9. TypeOK'
      BY <1>1, <2>8, EntryFacts DEF IInv, TypeOK
    <2>10. RowsFaithful'
      BY <1>1, <2>8 DEF IInv, RowsFaithful
    <2>11. ASSUME pc[q] = "backup", clean[q]
           PROVE  Current(q)' /\ Back(c)
      <3>1. Current(q)
        BY <2>11 DEF IInv, Restoring
      <3>2. domains[found.id] # None /\ domains[found.id].name = c.name
        BY <2>1, <3>1 DEF Current, found
      <3>3. h # None /\ h.id = found.id
            /\ \A n \in Names : byName'[q][n] = IF n = c.name THEN h ELSE byName[q][n]
        BY <2>1, <2>4, <2>6, NamesAssumption DEF IInv, TypeOK
      <3>4. Current(q)'
        BY <1>1, <3>1, <3>2, <3>3 DEF Current
      <3>5. c \in backup /\ backup # None
        BY <1>1, <2>11, EntryFacts
      <3>6. CanSeal(c.provider, c)
        BY <1>6, <3>5, SavedFacts
      <3>7. found.row.provider # c.provider
        BY <1>6, <3>6 DEF found
      <3>8. ~SameKind(domains[found.id], c)
        BY <2>2, <3>2, <3>7 DEF Faithful, SameKind
      <3> QED
        BY <2>2, <3>2, <3>4, <3>8 DEF Back, Agrees
    <2>12. \A p \in Requests : p # q => byName'[p] = byName[p]
      BY <2>4 DEF IInv, TypeOK
    <2>13. Restoring'
      BY <1>1, <1>2, <2>11, <2>12, NoProgress DEF IInv, TypeOK
    <2> QED
      BY <1>3, <2>9, <2>10, <2>13 DEF IInv
  <1> QED
    BY <1>5, <1>6 DEF ImportError

LEMMA ImportEndKeeps ==
    ASSUME IInv, NEW q \in Requests, ImportEnd(q)
    PROVE  IInv'
  <1>1. /\ byName' = [byName EXCEPT ![q] = [n \in Names |-> None]]
        /\ UNCHANGED <<domains, known, backup, held, left, entries>>
    BY DEF ImportEnd
  <1>2. \/ pc[q] = "entries" /\ pc' = [pc EXCEPT ![q] = "imported"]
           /\ clean' = [clean EXCEPT ![q] = FALSE]
        \/ pc[q] = "backup" /\ left[q] = {} /\ pc' = [pc EXCEPT ![q] = "restored"]
           /\ clean' = clean
    BY DEF ImportEnd, Goto, Taint
  <1>3. TypeOK'
    BY <1>1, <1>2 DEF IInv, TypeOK
  <1>4. NamesUnique' /\ BackupSound'
    BY <1>1 DEF IInv, NamesUnique, NameFree, BackupSound
  <1>5. \A p \in Requests : /\ p # q => byName'[p] = byName[p] /\ pc'[p] = pc[p]
                                        /\ clean'[p] = clean[p]
                            /\ pc'[p] \in {"lookup", "write"} => pc[p] \in {"lookup", "write"}
    BY <1>1, <1>2 DEF IInv, TypeOK
  <1>6. \A n \in Names : byName'[q][n] = None
    BY <1>1 DEF IInv, TypeOK
  <1>7. RowsFaithful'
    BY <1>1, <1>5, <1>6, NotWriting DEF IInv, TypeOK, RowsFaithful
  <1>8. \A s : Back(s)' <=> Back(s)
    BY <1>1 DEF Back
  <1>9. ASSUME NEW p \in Requests
        PROVE  /\ pc'[p] \in {"backup", "restored"} => backup # None /\ left[p] \subseteq backup
               /\ pc'[p] \in {"backup", "restored"} /\ clean'[p] =>
                     \A s \in backup \ left[p] : Back(s)
               /\ pc'[p] = "backup" /\ clean'[p] => Current(p)'
               /\ pc'[p] = "restored" => left[p] = {}
    <2>1. CASE p = q
      BY <1>2, <2>1 DEF IInv, TypeOK, Restoring
    <2>2. CASE p # q
      BY <1>1, <1>5, <2>2 DEF IInv, Restoring, Current
    <2> QED
      BY <2>1, <2>2
  <1>10. Restoring'
    BY <1>1, <1>8, <1>9 DEF Restoring
  <1> QED
    BY <1>3, <1>4, <1>7, <1>10 DEF IInv

LEMMA StutterKeeps ==
    ASSUME IInv, UNCHANGED vars
    PROVE  IInv'
  <1>1. TypeOK' /\ Restoring' /\ BackupSound' /\ NamesUnique'
    BY Resting DEF vars, IInv, TypeOK
  <1>2. RowsFaithful'
    BY NotWriting DEF vars, IInv, TypeOK, RowsFaithful
  <1> QED
    BY <1>1, <1>2 DEF IInv

LEMMA NextKeeps == IInv /\ [Next]_vars => IInv'
  <1> SUFFICES ASSUME IInv, Next PROVE IInv'
    BY StutterKeeps
  <1>1. CASE \E q \in Requests : \E c \in Configs \cup left[q] : Import(q, c)
    BY <1>1, ImportUpdateKeeps, ImportCreateKeeps, ImportErrorKeeps DEF Import
  <1>2. CASE \E q \in Requests : ImportList(q, {}) \/ (backup # None /\ ImportList(q, backup))
    BY <1>2, ImportListKeeps
  <1>3. CASE \E q \in Requests : UpdateLookup(q) \/ WriteBack(q) \/ ImportEnd(q)
    BY <1>3, UpdateLookupKeeps, WriteBackKeeps, ImportEndKeeps
  <1> QED
    BY <1>1, <1>2, <1>3, CreateKeeps, DeleteKeeps, UpdateReadKeeps, RunReadKeeps, ExportKeeps
    DEF Next

LEMMA Invariance == Spec => []IInv
  BY InitKeeps, NextKeeps, PTL DEF Spec

-----------------------------------------------------------------------------
\* Every variable keeps its type, whatever bodies clients send.
THEOREM TypeCorrect == Spec => []TypeOK
  <1>1. IInv => TypeOK
    BY DEF IInv
  <1> QED
    BY <1>1, Invariance, PTL

\* No two domains have one name, however renames, runs and imports interleave.
THEOREM NamesUniqueEver == Spec => []NamesUnique
  <1>1. IInv => NamesUnique
    BY DEF IInv
  <1> QED
    BY <1>1, Invariance, PTL

\* A stored credential is always of the plugin of its domain.
THEOREM CredentialFitsEver == Spec => []CredentialFits
  <1>1. IInv => CredentialFits
    BY DEF IInv, RowsFaithful, Fits, CredentialFits
  <1> QED
    BY <1>1, Invariance, PTL

\* An undisturbed import of a backup leaves a domain for each of its entries.
THEOREM RestoredEver == Spec => []Restored
  <1>1. IInv => Restored
    BY DEF IInv, Restoring, Restored
  <1> QED
    BY <1>1, Invariance, PTL

-----------------------------------------------------------------------------
\* What KindStays says of one step.
KindKept ==
    \A d \in known :
        domains'[d] # None =>
            /\ domains[d] # None
            /\ domains'[d].challenge = domains[d].challenge
            /\ domains'[d].provider = domains[d].provider

\* A statement that writes no row, a new row or a row of the kind of the old one.
LEMMA WriteKeepsKind ==
    ASSUME IInv, NEW d \in DomainIds, NEW row, Put(d, row),
           d \in known /\ row # None => domains[d] # None /\ SameKind(row, domains[d])
    PROVE  KindKept
  <1>1. \A i \in DomainIds : domains'[i] = IF i = d THEN row ELSE domains[i]
    BY DEF Put, IInv, TypeOK
  <1>2. known \subseteq DomainIds
    BY DEF IInv, TypeOK
  <1> QED
    BY <1>1, <1>2 DEF KindKept, SameKind

LEMMA WriteBackKeepsKind ==
    ASSUME IInv, NEW q \in Requests, WriteBack(q)
    PROVE  KindKept
  <1>1. held[q] \in Held /\ Faithful(held[q]) /\ held[q].id \in DomainIds
    BY DEF WriteBack, IInv, TypeOK, RowsFaithful, Held
  <1>2. CASE RowUpdated(held[q].id, held[q].row) /\ Put(held[q].id, held[q].row)
    BY <1>1, <1>2, WriteKeepsKind DEF RowUpdated, Faithful
  <1>3. CASE UNCHANGED domains
    BY <1>3 DEF KindKept
  <1> QED
    BY <1>2, <1>3 DEF WriteBack

LEMMA ImportKeepsKind ==
    ASSUME IInv, NEW q \in Requests, NEW c, Import(q, c)
    PROVE  KindKept
  <1>1. CASE ImportUpdate(q, c)
    <2> DEFINE found == byName[q][c.name]
               row == Merged(found.row, c)
    <2>1. c.name \in Names /\ found # None /\ Valued(c)
          /\ (Supplied(c) => CanSeal(found.row.provider, c))
      BY <1>1, EntryFacts DEF ImportUpdate, Listed
    <2>2. found \in Held /\ Faithful(found) /\ found.id \in DomainIds /\ found.row \in Row
      BY <2>1 DEF IInv, TypeOK, RowsFaithful, Held
    <2>3. \/ RowUpdated(found.id, row) /\ Put(found.id, row)
          \/ UNCHANGED domains
      BY <1>1 DEF ImportUpdate
    <2> HIDE DEF found
    <2>4. SameKind(row, found.row)
      BY <2>1, <2>2, MergedFacts DEF Faithful
    <2> HIDE DEF row
    <2>5. CASE RowUpdated(found.id, row) /\ Put(found.id, row)
      BY <2>2, <2>4, <2>5, WriteKeepsKind DEF RowUpdated, Faithful, SameKind
    <2>6. CASE UNCHANGED domains
      BY <2>6 DEF KindKept
    <2> QED
      BY <2>3, <2>5, <2>6
  <1>2. CASE ImportCreate(q, c)
    BY <1>2, WriteKeepsKind DEF ImportCreate, KindKept
  <1>3. CASE ImportError(q, c)
    BY <1>3 DEF ImportError, KindKept
  <1> QED
    BY <1>1, <1>2, <1>3 DEF Import

LEMMA NextKeepsKind == IInv /\ [Next]_vars => KindKept
  <1> SUFFICES ASSUME IInv, [Next]_vars PROVE KindKept
    OBVIOUS
  <1>1. CASE \E d \in DomainIds, c \in Configs : Create(d, c)
    BY <1>1, WriteKeepsKind DEF Create
  <1>2. CASE \E d \in DomainIds : Delete(d)
    BY <1>2, WriteKeepsKind DEF Delete
  <1>3. CASE \E q \in Requests : WriteBack(q)
    BY <1>3, WriteBackKeepsKind
  <1>4. CASE \E q \in Requests : \E c \in Configs \cup left[q] : Import(q, c)
    BY <1>4, ImportKeepsKind
  <1>5. CASE UNCHANGED domains
    BY <1>5 DEF KindKept
  <1>6. \/ \E d \in DomainIds, c \in Configs : Create(d, c)
        \/ \E d \in DomainIds : Delete(d)
        \/ \E q \in Requests : WriteBack(q)
        \/ \E q \in Requests : \E c \in Configs \cup left[q] : Import(q, c)
        \/ UNCHANGED domains
    BY DEF Next, UpdateRead, RunRead, UpdateLookup, ImportEnd, Export, ImportList, vars
  <1> QED
    BY <1>1, <1>2, <1>3, <1>4, <1>5, <1>6

\* No PUT, import or write-back changes the challenge or the provider of a
\* domain, or brings a deleted one back.
THEOREM KindStaysEver == Spec => KindStays
  <1>1. IInv /\ [Next]_vars => [KindKept]_vars
    BY NextKeepsKind
  <1>2. IInv /\ [Next]_vars =>
            [\A d \in known :
                domains'[d] # None =>
                    /\ domains[d] # None
                    /\ domains'[d].challenge = domains[d].challenge
                    /\ domains'[d].provider = domains[d].provider]_vars
    BY <1>1 DEF KindKept
  <1> QED
    BY <1>2, Invariance, PTL DEF Spec, KindStays
=============================================================================
