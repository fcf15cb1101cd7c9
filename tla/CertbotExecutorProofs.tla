------------------------ MODULE CertbotExecutorProofs ------------------------
(***************************************************************************)
(* Theorems about CertbotExecutor for any number of runs, names and        *)
(* credentials.  The invariant IInv is preserved because certbot's lock    *)
(* and the directory a name belongs to tie every change of a lineage to a  *)
(* run for that directory that is under way: a run that has met no other,  *)
(* and a backup that has met none, find the lineage as it was.             *)
(***************************************************************************)
EXTENDS CertbotExecutor, TLAPS

Labels == Starting \cup Certbot \cup Reading \cup {"idle", "over"}

\* What Goto and Return do, run by run.
LEMMA GotoFacts ==
    ASSUME TypeOK, NEW r \in Runs, NEW l \in Labels, Goto(r, l)
    PROVE  /\ pc' \in [Runs -> Labels]
           /\ pc'[r] = l
           /\ \A q \in Runs : q # r => pc'[q] = pc[q]
           /\ req' = req /\ got' = got /\ met' = met
  BY DEF TypeOK, Goto, locals, Labels

LEMMA ReturnFacts ==
    ASSUME TypeOK, NEW r \in Runs, Return(r)
    PROVE  /\ pc' \in [Runs -> Labels] /\ req' \in [Runs -> Request \cup {None}]
           /\ got' \in [Runs -> [Parts -> File \cup {None}]] /\ met' \in [Runs -> SUBSET Runs]
           /\ pc'[r] = "over" /\ req'[r] = None /\ got'[r] = NoFiles /\ met'[r] = {}
           /\ \A q \in Runs : q # r =>
                 pc'[q] = pc[q] /\ req'[q] = req[q] /\ got'[q] = got[q] /\ met'[q] = met[q]
  <1>1. NoFiles \in [Parts -> File \cup {None}]
    BY DEF NoFiles
  <1> QED
    BY <1>1 DEF TypeOK, Return, Labels

\* A run that returns, and gives the lock back if it has it, disturbs nothing.
LEMMA ReturnKeeps ==
    ASSUME IInv, NEW r \in Runs, Return(r), UNCHANGED <<dryRun, files, backup>>,
           lock' = IF lock = r THEN None ELSE lock
    PROVE  IInv'
  <1> USE DEF IInv
  <1>0. UNCHANGED <<dryRun, credentials, conf, archive, link, rollback, backup>>
    BY DEF files
  <1>1. TypeOK'
    BY <1>0, ReturnFacts DEF TypeOK, Labels
  <1>2. /\ pc'[r] = "over" /\ req'[r] = None /\ got'[r] = NoFiles /\ met'[r] = {}
        /\ \A q \in Runs : q # r =>
              pc'[q] = pc[q] /\ req'[q] = req[q] /\ got'[q] = got[q] /\ met'[q] = met[q]
    BY ReturnFacts
  <1>3. /\ ~InFlight(r)'
        /\ \A q \in Runs : q # r =>
              /\ InFlight(q)' <=> InFlight(q)
              /\ Lineage(q)' = Lineage(q)
    BY <1>0, <1>2 DEF InFlight, Starting, Certbot, Reading, Lineage
  <1>4. Shape'
    <2>1. \A q \in Runs : pc'[q] \in Certbot <=> lock' = q
      BY <1>2, NoneAssumption DEF Shape, Certbot
    <2>2. lock' # None => pc'[lock'] \in Certbot
      BY <1>2, NoneAssumption DEF Shape, Certbot, TypeOK
    <2> QED
      BY <1>0, <1>2, <1>3, <2>1, <2>2 DEF Shape
  <1>5. LineagesSound'
    BY <1>0 DEF LineagesSound
  <1>6. Together'
    BY <1>2, <1>3 DEF Together
  <1>7. Alone'
    BY <1>0, <1>2 DEF Alone, Contents, LiveDir, Reading
  <1>8. GotFits'
    BY <1>0, <1>2, <1>3 DEF GotFits, NoFiles
  <1>9. WalkSound'
    BY <1>0, <1>2, <1>3 DEF WalkSound, Walking
  <1> QED
    BY <1>1, <1>4, <1>5, <1>6, <1>7, <1>8, <1>9

-----------------------------------------------------------------------------
(* Before certbot.                                                         *)

LEMMA InitInv == Init => IInv
  <1> SUFFICES ASSUME Init PROVE IInv
    OBVIOUS
  <1>1. /\ conf \in [Names -> Conf \cup {None}]
        /\ archive \in [Names -> Nat] /\ link \in [Names -> [Parts -> Nat]]
        /\ LineagesSound
    <2>1. PICK old \in SUBSET {n \in Names : Stem[n] = n} :
             /\ conf = [d \in Names |-> IF d \in old THEN [name |-> d, plugin |-> "cloudflare"] ELSE None]
             /\ archive = [d \in Names |-> IF d \in old THEN 1 ELSE 0]
             /\ link = [d \in Names |-> AllAt(IF d \in old THEN 1 ELSE 0)]
      BY DEF Init
    <2>2. /\ conf \in [Names -> Conf \cup {None}]
          /\ archive \in [Names -> Nat] /\ link \in [Names -> [Parts -> Nat]]
      BY <2>1 DEF Conf, Plugins, AllAt
    <2>3. ASSUME NEW d \in Names
          PROVE  /\ conf[d] = None => archive[d] = 0 /\ link[d] = AllAt(0) /\ rollback[d] = None
                 /\ conf[d] # None => Stem[conf[d].name] = d
                 /\ \A part \in Parts : link[d][part] <= archive[d]
                 /\ rollback[d] = None
                 /\ link[d] = AllAt(link[d]["cert"])
      <3>1. [name |-> d, plugin |-> "cloudflare"] # None
        BY NoneAssumption DEF Conf, Plugins
      <3>2. d \in old => Stem[d] = d
        BY <2>1
      <3>3. rollback[d] = None
        BY DEF Init
      <3>4. CASE d \in old
        BY <2>1, <3>1, <3>2, <3>3, <3>4 DEF AllAt, Parts
      <3>5. CASE d \notin old
        BY <2>1, <3>3, <3>5 DEF AllAt, Parts
      <3> QED
        BY <3>4, <3>5
    <2> QED
      BY <2>2, <2>3 DEF LineagesSound
  <1>2. TypeOK
    BY <1>1 DEF Init, TypeOK, NoFiles, NoBackup, BackupState
  <1>3. \A r \in Runs : ~InFlight(r)
    BY DEF Init, InFlight, Starting, Certbot, Reading
  <1>4. Shape
    BY <1>3, NoneAssumption DEF Init, Shape, Certbot
  <1>5. Together /\ GotFits /\ Alone
    BY <1>3 DEF Together, GotFits, Alone, Init, NoFiles, Reading
  <1>6. WalkSound
    BY DEF Init, WalkSound, Walking, NoBackup
  <1> QED
    BY <1>1, <1>2, <1>4, <1>5, <1>6 DEF IInv

LEMMA BeginKeeps ==
    ASSUME IInv, NEW r \in Runs, NEW q \in Inputs, Begin(r, q)
    PROVE  IInv'
  <1> USE DEF IInv
  <1>0. /\ UNCHANGED <<dryRun, credentials, conf, archive, link, rollback, lock, got>>
        /\ pc[r] = "idle" /\ q \in Request /\ q # None
    BY InputsAssumption, NoneAssumption DEF Begin, files
  <1>1. /\ pc'[r] = "args" /\ req'[r] = q /\ met'[r] = Kin(q.name)
        /\ \A p \in Runs : p # r =>
              /\ pc'[p] = pc[p] /\ req'[p] = req[p]
              /\ met'[p] = IF p \in Kin(q.name) THEN met[p] \cup {r} ELSE met[p]
    BY DEF Begin, TypeOK
  <1>2. /\ pc' \in [Runs -> Labels] /\ req' \in [Runs -> Request \cup {None}]
        /\ met' \in [Runs -> SUBSET Runs]
    BY <1>0 DEF Begin, TypeOK, Labels, Starting, Kin
  <1>3. /\ q.name \in Names /\ Stem[q.name] \in Names
        /\ backup' \in BackupState
    BY <1>0, StemAssumption DEF Begin, TypeOK, BackupState, Request
  <1>4. TypeOK'
    BY <1>0, <1>2, <1>3 DEF TypeOK, Labels
  <1>5. /\ InFlight(r)' /\ ~InFlight(r)
        /\ \A p \in Runs : p # r => (InFlight(p)' <=> InFlight(p)) /\ Lineage(p)' = Lineage(p)
    BY <1>0, <1>1 DEF InFlight, Starting, Certbot, Reading, Lineage
  <1>6. Shape'
    <2>1. \A p \in Runs : pc'[p] \in Certbot <=> lock' = p
      BY <1>0, <1>1 DEF Shape, Certbot
    <2>2. lock' # None => pc'[lock'] \in Certbot
      BY <1>0, <1>1 DEF Shape, Certbot, TypeOK
    <2>3. \A p \in Runs : ~InFlight(p)' => met'[p] = {}
      BY <1>1, <1>5 DEF Shape, Kin
    <2>4. ASSUME NEW p \in Runs
          PROVE  /\ InFlight(p)' => req'[p] # None
                 /\ pc'[p] \in {"chain", "privkey", "ok"} => got'[p]["cert"] # None
                 /\ pc'[p] \in {"privkey", "ok"} => got'[p]["chain"] # None
                 /\ pc'[p] = "ok" => got'[p]["privkey"] # None
                 /\ pc'[p] = "switch" =>
                       Lineage(p)' # None /\ conf'[Lineage(p)'] # None /\ rollback'[Lineage(p)'] # None
      <3>1. CASE p = r
        BY <1>0, <1>1, <3>1
      <3>2. CASE p # r
        BY <1>0, <1>1, <1>5, <3>2 DEF Shape
      <3> QED
        BY <3>1, <3>2
    <2>5. \A p \in Runs : pc'[p] \notin Reading => got'[p] = NoFiles
      BY <1>0, <1>1 DEF Shape, Reading
    <2> QED
      BY <2>1, <2>2, <2>3, <2>4, <2>5 DEF Shape
  <1>7. LineagesSound'
    BY <1>0 DEF LineagesSound
  <1>8. Together'
    <2> SUFFICES ASSUME NEW a \in Runs, NEW b \in Runs, InFlight(a)', InFlight(b)', a # b,
                        Stem[req'[a].name] = Stem[req'[b].name]
                 PROVE  b \in met'[a]
      BY DEF Together
    <2>1. CASE a = r
      BY <1>1, <1>5, <2>1 DEF Kin
    <2>2. CASE b = r
      BY <1>1, <1>5, <2>2 DEF Kin
    <2>3. CASE a # r /\ b # r
      <3>1. InFlight(a) /\ InFlight(b)
        BY <1>5, <2>3
      <3>2. req'[a] = req[a] /\ req'[b] = req[b] /\ met[a] \subseteq met'[a]
        BY <1>1, <2>3
      <3>3. b \in met[a]
        BY <3>1, <3>2 DEF Together
      <3> QED
        BY <3>2, <3>3
    <2> QED
      BY <2>1, <2>2, <2>3
  <1>9. Alone'
    <2> SUFFICES ASSUME NEW p \in Runs, met'[p] = {}
                 PROVE  /\ pc'[p] \in {"certbot"} \cup Reading =>
                              /\ rollback[req'[p].name] = None
                              /\ \A part \in Parts :
                                    got[p][part] \in {None, Contents(LiveDir(p), part)'}
                        /\ pc'[p] \in {"exec", "certbot"} /\ req'[p].plugin = "cloudflare" =>
                              credentials[req'[p].name] = req'[p].cred
      BY <1>0 DEF Alone
    <2>1. CASE p = r
      BY <1>1, <2>1 DEF Reading
    <2>2. CASE p # r
      <3>1. met[p] = {} /\ pc'[p] = pc[p] /\ req'[p] = req[p]
        BY <1>1, <2>2
      <3>2. \A part \in Parts : Contents(LiveDir(p), part)' = Contents(LiveDir(p), part)
        BY <1>0, <3>1 DEF Contents, LiveDir
      <3> QED
        BY <3>1, <3>2 DEF Alone
    <2> QED
      BY <2>1, <2>2
  <1>10. GotFits'
    <2> SUFFICES ASSUME NEW p \in Runs, NEW part \in Parts, got[p][part] # None
                 PROVE  InFlight(p)' /\ Stem[got[p][part].of] = req'[p].name
      BY <1>0 DEF GotFits
    <2>1. InFlight(p) /\ Stem[got[p][part].of] = req[p].name
      BY DEF GotFits
    <2>2. p # r
      BY <1>5, <2>1
    <2> QED
      BY <1>1, <1>5, <2>1, <2>2
  <1>11. WalkSound'
    <2>1. CASE Walking
      <3>1. /\ backup'.pc = backup.pc /\ backup'.archive = backup.archive
            /\ backup'.dangling = backup.dangling
            /\ backup'.touched = backup.touched \cup {Stem[q.name]}
        BY <2>1 DEF Begin, TypeOK, BackupState
      <3>2. \A p \in Runs : InFlight(p)' => Stem[req'[p].name] \in backup'.touched
        BY <1>1, <1>5, <2>1, <3>1 DEF WalkSound
      <3> QED
        BY <1>0, <3>1, <3>2 DEF WalkSound, Walking
    <2>2. CASE ~Walking
      <3>1. backup' = backup
        BY <2>2 DEF Begin
      <3> QED
        BY <1>0, <2>2, <3>1 DEF WalkSound, Walking
    <2> QED
      BY <2>1, <2>2
  <1> QED
    BY <1>4, <1>6, <1>7, <1>8, <1>9, <1>10, <1>11

\* Writing a credentials file concerns the runs for that name alone.
LEMMA CredentialsKeep ==
    ASSUME IInv, NEW r \in Runs, InFlight(r), pc[r] \notin Certbot,
           NEW v \in Creds \cup {Blank},
           credentials' = [credentials EXCEPT ![req[r].name] = v],
           NEW l \in {"ini", "exec"}, Goto(r, l), l = "exec" => v = req[r].cred,
           UNCHANGED <<dryRun, conf, archive, link, rollback, lock, backup>>,
           pc[r] \in {"args", "ini"}
    PROVE  IInv'
  <1> USE DEF IInv
  <1>0. l \in Labels
    BY DEF Labels, Starting
  <1>1. /\ pc' \in [Runs -> Labels] /\ pc'[r] = l
        /\ \A q \in Runs : q # r => pc'[q] = pc[q]
        /\ req' = req /\ got' = got /\ met' = met
    BY <1>0, GotoFacts
  <1>2. req[r] \in Request /\ req[r].name \in Names
    BY DEF Shape, TypeOK, Request
  <1>3. /\ credentials' \in [Names -> Creds \cup {Blank, None}]
        /\ credentials'[req[r].name] = v
        /\ \A n \in Names : n # req[r].name => credentials'[n] = credentials[n]
    BY <1>2 DEF TypeOK
  <1>4. TypeOK'
    BY <1>1, <1>3 DEF TypeOK, Labels
  <1>5. \A q \in Runs : (InFlight(q)' <=> InFlight(q)) /\ Lineage(q)' = Lineage(q)
    BY <1>1 DEF InFlight, Starting, Certbot, Reading, Lineage
  <1>6. Shape'
    <2>1. \A q \in Runs : pc'[q] \notin Reading => got'[q] = NoFiles
      BY <1>1 DEF Shape, Reading
    <2> QED
      BY <1>1, <1>5, <2>1 DEF Shape, Certbot, TypeOK
  <1>7. LineagesSound' /\ Together' /\ GotFits' /\ WalkSound'
    BY <1>1, <1>5 DEF LineagesSound, Together, GotFits, WalkSound, Walking
  <1>8. Alone'
    <2> SUFFICES ASSUME NEW q \in Runs, met[q] = {}
                 PROVE  /\ pc'[q] \in {"certbot"} \cup Reading =>
                              /\ rollback[req[q].name] = None
                              /\ \A part \in Parts :
                                    got[q][part] \in {None, Contents(LiveDir(q), part)}
                        /\ pc'[q] \in {"exec", "certbot"} /\ req[q].plugin = "cloudflare" =>
                              credentials'[req[q].name] = req[q].cred
      BY <1>1 DEF Alone, Contents, LiveDir
    <2>1. CASE q = r
      BY <1>1, <1>3, <2>1 DEF Reading
    <2>2. CASE q # r
      <3>1. InFlight(q) => Stem[req[q].name] # Stem[req[r].name]
        BY <2>2 DEF Together
      <3>2. pc[q] \in {"exec", "certbot"} => InFlight(q) /\ req[q] \in Request /\ req[q].name \in Names
        BY DEF Shape, InFlight, Starting, Certbot, TypeOK, Request
      <3> QED
        BY <1>1, <1>3, <2>2, <3>1, <3>2 DEF Alone
    <2> QED
      BY <2>1, <2>2
  <1> QED
    BY <1>4, <1>6, <1>7, <1>8

LEMMA ChallengeArgsKeeps ==
    ASSUME IInv, NEW r \in Runs, ChallengeArgs(r)
    PROVE  IInv'
  <1>0. /\ InFlight(r) /\ pc[r] = "args" /\ pc[r] \notin Certbot
        /\ lock # r
    BY DEF ChallengeArgs, InFlight, Starting, Certbot, IInv, Shape
  <1>1. CASE Return(r) /\ UNCHANGED credentials
    BY <1>0, <1>1, ReturnKeeps DEF ChallengeArgs, files
  <1>2. CASE /\ Materialised(req[r])
             /\ credentials' = [credentials EXCEPT ![req[r].name] = Blank]
             /\ Goto(r, "ini")
    BY <1>0, <1>2, CredentialsKeep DEF ChallengeArgs
  <1>3. CASE ~Materialised(req[r]) /\ Goto(r, "exec") /\ UNCHANGED credentials
    <2> USE DEF IInv
    <2>0. UNCHANGED <<dryRun, credentials, conf, archive, link, rollback, lock, backup>>
      BY <1>3 DEF ChallengeArgs
    <2>1. /\ pc' \in [Runs -> Labels] /\ pc'[r] = "exec"
          /\ \A q \in Runs : q # r => pc'[q] = pc[q]
          /\ req' = req /\ got' = got /\ met' = met
      BY <1>3, GotoFacts DEF Labels, Starting
    <2>2. TypeOK'
      BY <2>0, <2>1 DEF TypeOK, Labels
    <2>3. \A q \in Runs : (InFlight(q)' <=> InFlight(q)) /\ Lineage(q)' = Lineage(q)
      BY <1>0, <2>0, <2>1 DEF InFlight, Starting, Certbot, Reading, Lineage
    <2>4. Shape'
      <3>1. \A q \in Runs : pc'[q] \notin Reading => got'[q] = NoFiles
        BY <1>0, <2>1 DEF Shape, Reading
      <3> QED
        BY <1>0, <2>0, <2>1, <2>3, <3>1 DEF Shape, Certbot, TypeOK
    <2>5. LineagesSound' /\ Together' /\ GotFits' /\ WalkSound'
      BY <2>0, <2>1, <2>3 DEF LineagesSound, Together, GotFits, WalkSound, Walking
    <2>6. Alone'
      BY <1>0, <1>3, <2>0, <2>1 DEF Alone, Contents, LiveDir, Reading, Materialised
    <2> QED
      BY <2>2, <2>4, <2>5, <2>6
  <1> QED
    BY <1>1, <1>2, <1>3 DEF ChallengeArgs

LEMMA WriteCredentialsKeeps ==
    ASSUME IInv, NEW r \in Runs, WriteCredentials(r)
    PROVE  IInv'
  <1>0. /\ InFlight(r) /\ pc[r] = "ini" /\ pc[r] \notin Certbot
        /\ lock # r /\ req[r].cred \in Creds
    BY DEF WriteCredentials, InFlight, Starting, Certbot, IInv, Shape, TypeOK, Request
  <1>1. CASE Return(r) /\ UNCHANGED credentials
    BY <1>0, <1>1, ReturnKeeps DEF WriteCredentials, files
  <1>2. CASE /\ credentials' = [credentials EXCEPT ![req[r].name] = req[r].cred]
             /\ Goto(r, "exec")
    BY <1>0, <1>2, CredentialsKeep DEF WriteCredentials
  <1> QED
    BY <1>1, <1>2 DEF WriteCredentials

-----------------------------------------------------------------------------
(* certbot.                                                                *)

\* A run in flight has a request.
LEMMA RequestOf ==
    ASSUME IInv, NEW r \in Runs, InFlight(r)
    PROVE  req[r] \in Request /\ req[r].name \in Names /\ Stem[req[r].name] \in Names
  BY StemAssumption DEF IInv, Shape, TypeOK, Request

\* The lineage that certbot changes is in the directory of the run.
LEMMA LineageOf ==
    ASSUME IInv, NEW r \in Runs, InFlight(r), Lineage(r) # None,
           req[r].op = "renew" => conf[req[r].name] # None
    PROVE  Lineage(r) \in Names /\ Stem[req[r].name] = Lineage(r)
  <1>1. req[r] \in Request /\ req[r].name \in Names /\ Stem[req[r].name] \in Names
    BY RequestOf
  <1>2. CASE req[r].op = "renew"
    <2>1. Lineage(r) = req[r].name
      BY <1>2 DEF Lineage
    <2>2. conf[req[r].name] \in Conf
      BY <1>1, <1>2 DEF IInv, TypeOK
    <2>3. conf[req[r].name].name \in Names /\ Stem[conf[req[r].name].name] = req[r].name
      BY <1>1, <1>2, <2>2 DEF IInv, LineagesSound, Conf
    <2> QED
      BY <1>1, <2>1, <2>3, StemAssumption
  <1>3. CASE req[r].op # "renew"
    BY <1>1, <1>3 DEF Lineage
  <1> QED
    BY <1>2, <1>3

\* Only a directory that bears its own stem as its name has a lineage.
LEMMA NoLineage ==
    ASSUME IInv, NEW n \in Names, Stem[n] # n
    PROVE  conf[n] = None /\ rollback[n] = None
  <1>1. CASE conf[n] # None
    <2>1. conf[n] \in Conf
      BY <1>1 DEF IInv, TypeOK
    <2>2. conf[n].name \in Names /\ Stem[conf[n].name] = n
      BY <1>1, <2>1 DEF IInv, LineagesSound, Conf
    <2> QED
      BY <2>2, StemAssumption
  <1>2. CASE conf[n] = None
    BY <1>2 DEF IInv, LineagesSound
  <1> QED
    BY <1>1, <1>2

LEMMA LaunchKeeps ==
    ASSUME IInv, NEW r \in Runs, Launch(r)
    PROVE  IInv'
  <1>0. /\ pc[r] = "exec" /\ InFlight(r) /\ lock # r
        /\ UNCHANGED <<dryRun, credentials, conf, archive, backup>>
    BY DEF Launch, InFlight, Starting, IInv, Shape, Certbot
  <1>1. CASE Return(r) /\ UNCHANGED <<lock, link, rollback>>
    BY <1>0, <1>1, ReturnKeeps DEF files
  <1>2. CASE /\ lock = None /\ lock' = r
             /\ link' = [d \in Names |-> IF d \in Repaired(r) THEN AllAt(rollback[d]) ELSE link[d]]
             /\ rollback' = [d \in Names |-> IF d \in Repaired(r) THEN None ELSE rollback[d]]
             /\ Goto(r, "certbot")
    <2> USE DEF IInv
    <2>1. /\ pc' \in [Runs -> Labels] /\ pc'[r] = "certbot"
          /\ \A q \in Runs : q # r => pc'[q] = pc[q]
          /\ req' = req /\ got' = got /\ met' = met
      BY <1>2, GotoFacts DEF Labels, Certbot
    <2>2. \A d \in Names :
             \/ rollback'[d] = rollback[d] /\ link'[d] = link[d] /\ d \notin Repaired(r)
             \/ rollback[d] \in Nat /\ rollback[d] # None /\ rollback'[d] = None
                /\ link'[d] = AllAt(rollback[d])
      BY <1>2 DEF Repaired, TypeOK
    <2>3. \A v \in Nat : AllAt(v) \in [Parts -> Nat] /\ \A part \in Parts : AllAt(v)[part] = v
      BY DEF AllAt
    <2>4. /\ link' \in [Names -> [Parts -> Nat]]
          /\ rollback' \in [Names -> Nat \cup {None}]
      <3>1. \A d \in Names : link'[d] \in [Parts -> Nat] /\ rollback'[d] \in Nat \cup {None}
        BY <2>2, <2>3 DEF TypeOK
      <3> QED
        BY <1>2, <3>1
    <2>5. TypeOK'
      BY <1>0, <1>2, <2>1, <2>4 DEF TypeOK, Labels
    <2>6. \A q \in Runs : (InFlight(q)' <=> InFlight(q)) /\ Lineage(q)' = Lineage(q)
      BY <1>0, <2>1 DEF InFlight, Starting, Certbot, Reading, Lineage
    <2>7. Shape'
      <3>1. \A q \in Runs : pc'[q] \in Certbot <=> lock' = q
        BY <1>0, <1>2, <2>1, NoneAssumption DEF Shape, Certbot
      <3>2. \A q \in Runs : pc'[q] \notin Reading => got'[q] = NoFiles
        BY <1>0, <2>1 DEF Shape, Reading
      <3> QED
        BY <1>0, <1>2, <2>1, <2>6, <3>1, <3>2 DEF Shape, Certbot
    <2>8. LineagesSound'
      <3> SUFFICES ASSUME NEW d \in Names
                   PROVE  /\ conf[d] = None => archive[d] = 0 /\ link'[d] = AllAt(0) /\ rollback'[d] = None
                          /\ conf[d] # None => Stem[conf[d].name] = d
                          /\ \A part \in Parts : link'[d][part] <= archive[d]
                          /\ rollback'[d] # None => rollback'[d] <= archive[d]
                          /\ rollback'[d] = None => link'[d] = AllAt(link'[d]["cert"])
        BY <1>0 DEF LineagesSound
      <3>1. CASE rollback'[d] = rollback[d] /\ link'[d] = link[d]
        BY <3>1 DEF LineagesSound
      <3>2. CASE rollback[d] \in Nat /\ rollback[d] # None /\ rollback'[d] = None
                 /\ link'[d] = AllAt(rollback[d])
        BY <2>3, <3>2 DEF LineagesSound, Parts
      <3> QED
        BY <2>2, <3>1, <3>2
    <2>9. Together' /\ GotFits' /\ WalkSound'
      BY <1>0, <2>1, <2>6 DEF Together, GotFits, WalkSound, Walking
    <2>10. Alone'
      <3> SUFFICES ASSUME NEW q \in Runs, met[q] = {}
                   PROVE  /\ pc'[q] \in {"certbot"} \cup Reading =>
                                /\ rollback'[req[q].name] = None
                                /\ \A part \in Parts :
                                      got[q][part] \in {None, Contents(LiveDir(q), part)'}
                          /\ pc'[q] \in {"exec", "certbot"} /\ req[q].plugin = "cloudflare" =>
                                credentials[req[q].name] = req[q].cred
        BY <1>0, <2>1 DEF Alone
      <3>1. CASE q = r
        <4>1. req[r] \in Request /\ req[r].name \in Names
          BY <1>0, RequestOf
        <4>2. rollback'[req[r].name] = None
          BY <2>2, <4>1 DEF Repaired, Request
        <4>3. got[r] = NoFiles
          BY <1>0 DEF Shape, Reading
        <4> QED
          BY <1>0, <3>1, <4>2, <4>3 DEF NoFiles, Alone
      <3>2. CASE q # r
        <4>1. CASE pc[q] \in {"certbot"} \cup Reading
          <5>1. req[q].name \in Names
            BY <4>1, RequestOf DEF InFlight, Certbot
          <5>2. rollback[req[q].name] = None /\ rollback'[req[q].name] = None
                /\ link'[req[q].name] = link[req[q].name]
            BY <2>2, <4>1, <5>1 DEF Alone
          <5>3. \A part \in Parts : Contents(LiveDir(q), part)' = Contents(LiveDir(q), part)
            BY <1>0, <2>1, <5>2 DEF Contents, LiveDir
          <5> QED
            BY <2>1, <3>2, <4>1, <5>2, <5>3 DEF Alone
        <4>2. CASE pc[q] \notin {"certbot"} \cup Reading
          BY <2>1, <3>2, <4>2 DEF Alone
        <4> QED
          BY <4>1, <4>2
      <3> QED
        BY <3>1, <3>2
    <2> QED
      BY <2>5, <2>7, <2>8, <2>9, <2>10
  <1> QED
    BY <1>1, <1>2 DEF Launch

\* A run whose certbot ends badly, or finds nothing to do.
LEMMA FailKeeps ==
    ASSUME IInv, NEW r \in Runs, Fail(r)
    PROVE  IInv'
  <1>1. lock = r /\ Return(r)
    BY DEF Fail, Exit, Ended, IInv, Shape
  <1> QED
    BY <1>1, ReturnKeeps DEF Fail, Exit

\* A certbot that changes nothing lets its run go on to the reads.
LEMMA IdleKeeps ==
    ASSUME IInv, NEW r \in Runs, pc[r] = "certbot", Exit(r, TRUE),
           UNCHANGED <<dryRun, files, backup>>
    PROVE  IInv'
  <1> USE DEF IInv
  <1>0. UNCHANGED <<dryRun, credentials, conf, archive, link, rollback, backup>> /\ lock' = None /\ lock = r
    BY DEF files, Exit, Shape, Certbot
  <1>1. /\ pc' \in [Runs -> Labels] /\ pc'[r] = "load"
        /\ \A q \in Runs : q # r => pc'[q] = pc[q]
        /\ req' = req /\ got' = got /\ met' = met
    BY GotoFacts DEF Exit, Ended, Labels, Reading
  <1>2. TypeOK'
    BY <1>0, <1>1 DEF TypeOK, Labels
  <1>3. \A q \in Runs : (InFlight(q)' <=> InFlight(q)) /\ Lineage(q)' = Lineage(q)
    BY <1>0, <1>1 DEF InFlight, Starting, Certbot, Reading, Lineage
  <1>4. Shape'
    <2>1. \A q \in Runs : pc'[q] \notin Reading => got'[q] = NoFiles
      BY <1>1 DEF Shape, Reading
    <2>2. \A q \in Runs : pc'[q] \in Certbot <=> lock' = q
      BY <1>0, <1>1, NoneAssumption DEF Shape, Certbot
    <2> QED
      BY <1>0, <1>1, <1>3, <2>1, <2>2 DEF Shape
  <1>5. LineagesSound' /\ Together' /\ GotFits' /\ WalkSound'
    BY <1>0, <1>1, <1>3 DEF LineagesSound, Together, GotFits, WalkSound, Walking
  <1>6. Alone'
    BY <1>0, <1>1 DEF Alone, Contents, LiveDir, Reading
  <1> QED
    BY <1>2, <1>4, <1>5, <1>6

\* A certbot changes its lineage, goes on or ends: no run that has met no other
\* and no backup that has taken note of none sees it.
LEMMA LineageChanges ==
    ASSUME IInv, NEW r \in Runs, pc[r] \in Certbot, NEW d \in Names, d = Lineage(r),
           Renewable(r), UNCHANGED <<dryRun, credentials, backup>>,
           NEW l \in {"switch", "load"}, IF l = "switch" THEN Goto(r, l) /\ UNCHANGED lock
                                                         ELSE Exit(r, TRUE),
           conf' \in [Names -> Conf \cup {None}], archive' \in [Names -> Nat],
           link' \in [Names -> [Parts -> Nat]], rollback' \in [Names -> Nat \cup {None}],
           \A n \in Names : n # d =>
               /\ conf'[n] = conf[n] /\ archive'[n] = archive[n]
               /\ link'[n] = link[n] /\ rollback'[n] = rollback[n],
           conf'[d] # None, Stem[conf'[d].name] = d,
           l = "switch" => Lineage(r)' = d /\ rollback'[d] # None,
           \A part \in Parts : link'[d][part] <= archive'[d],
           rollback'[d] # None => rollback'[d] <= archive'[d],
           rollback'[d] = None => link'[d] = AllAt(link'[d]["cert"]),
           l = "load" => rollback'[d] = None
    PROVE  IInv'
  <1> USE DEF IInv
  <1>0. /\ InFlight(r) /\ lock = r
        /\ lock' = (IF l = "switch" THEN r ELSE None)
    BY DEF InFlight, Shape, Exit
  <1>1. /\ pc' \in [Runs -> Labels] /\ pc'[r] = l
        /\ \A q \in Runs : q # r => pc'[q] = pc[q]
        /\ req' = req /\ got' = got /\ met' = met
    BY GotoFacts DEF Exit, Ended, Labels, Reading, Certbot
  <1>2. /\ req[r].name \in Names /\ Stem[req[r].name] = d
    BY <1>0, RequestOf, LineageOf, NoneAssumption DEF Renewable
  <1>3. TypeOK'
    BY <1>0, <1>1 DEF TypeOK, Labels
  <1>4. \A q \in Runs : InFlight(q)' <=> InFlight(q)
    BY <1>0, <1>1 DEF InFlight, Starting, Certbot, Reading
  <1>5. Shape'
    <2>1. \A q \in Runs : pc'[q] \in Certbot <=> lock' = q
      BY <1>0, <1>1, NoneAssumption DEF Shape, Certbot
    <2>2. \A q \in Runs : pc'[q] \notin Reading => got'[q] = NoFiles
      BY <1>1 DEF Shape, Reading, Certbot
    <2>3. lock' # None => pc'[lock'] \in Certbot
      BY <1>0, <1>1 DEF Certbot
    <2>4. ASSUME NEW q \in Runs, pc'[q] = "switch"
          PROVE  Lineage(q)' # None /\ conf'[Lineage(q)'] # None /\ rollback'[Lineage(q)'] # None
      <3>1. q = r
        BY <1>0, <1>1, <2>4 DEF Shape, Certbot
      <3>2. l = "switch"
        BY <1>1, <2>4, <3>1
      <3> QED
        BY <3>1, <3>2, NoneAssumption
    <2>5. ASSUME NEW q \in Runs
          PROVE  /\ InFlight(q)' => req'[q] # None
                 /\ ~InFlight(q)' => met'[q] = {}
                 /\ pc'[q] \in {"chain", "privkey", "ok"} => got'[q]["cert"] # None
                 /\ pc'[q] \in {"privkey", "ok"} => got'[q]["chain"] # None
                 /\ pc'[q] = "ok" => got'[q]["privkey"] # None
      BY <1>1, <1>4 DEF Shape
    <2> QED
      BY <2>1, <2>2, <2>3, <2>4, <2>5 DEF Shape
  <1>6. LineagesSound'
    <2>1. ASSUME NEW n \in Names
          PROVE  /\ conf'[n] = None => archive'[n] = 0 /\ link'[n] = AllAt(0) /\ rollback'[n] = None
                 /\ conf'[n] # None => Stem[conf'[n].name] = n
                 /\ \A part \in Parts : link'[n][part] <= archive'[n]
                 /\ rollback'[n] # None => rollback'[n] <= archive'[n]
                 /\ rollback'[n] = None => link'[n] = AllAt(link'[n]["cert"])
      <3>1. CASE n = d
        BY <3>1
      <3>2. CASE n # d
        BY <3>2 DEF LineagesSound
      <3> QED
        BY <3>1, <3>2
    <2> QED
      BY <2>1 DEF LineagesSound
  <1>7. Together' /\ GotFits'
    BY <1>1, <1>4 DEF Together, GotFits
  <1>8. WalkSound'
    <2>1. backup.pc \in {"cert", "chain", "privkey"} => d \in backup.touched
      BY <1>0, <1>2 DEF WalkSound, Walking
    <2> QED
      BY <1>1, <1>4, <2>1 DEF WalkSound, Walking
  <1>9. Alone'
    <2> SUFFICES ASSUME NEW q \in Runs, met[q] = {}
                 PROVE  /\ pc'[q] \in {"certbot"} \cup Reading =>
                              /\ rollback'[req[q].name] = None
                              /\ \A part \in Parts :
                                    got[q][part] \in {None, Contents(LiveDir(q), part)'}
                        /\ pc'[q] \in {"exec", "certbot"} /\ req[q].plugin = "cloudflare" =>
                              credentials[req[q].name] = req[q].cred
      BY <1>1 DEF Alone
    <2>1. CASE q = r
      <3>1. got[r] = NoFiles
        BY DEF Shape, Reading, Certbot
      <3>2. l = "load" => rollback'[req[r].name] = None
        <4>1. CASE req[r].name = d
          BY <4>1
        <4>2. CASE req[r].name # d
          BY <1>2, <4>2, NoLineage
        <4> QED
          BY <4>1, <4>2
      <3> QED
        BY <1>1, <2>1, <3>1, <3>2 DEF NoFiles, Reading
    <2>2. CASE q # r
      <3>1. CASE pc[q] \in {"certbot"} \cup Reading
        <4>1. InFlight(q) /\ req[q].name \in Names
          BY <3>1, RequestOf DEF InFlight, Certbot
        <4>2. Stem[req[q].name] # d
          BY <1>0, <1>2, <2>2, <4>1 DEF Together
        <4>3. req[q].name # d
          BY <1>2, <4>2, StemAssumption
        <4>4. \A part \in Parts : Contents(LiveDir(q), part)' = Contents(LiveDir(q), part)
          BY <1>1, <4>1, <4>3 DEF Contents, LiveDir
        <4> QED
          BY <1>1, <2>2, <3>1, <4>1, <4>3, <4>4 DEF Alone
      <3>2. CASE pc[q] \notin {"certbot"} \cup Reading
        BY <1>1, <2>2, <3>2 DEF Alone
      <3> QED
        BY <3>1, <3>2
    <2> QED
      BY <2>1, <2>2
  <1> QED
    BY <1>3, <1>5, <1>6, <1>7, <1>8, <1>9

\* What certbot authenticates as names a lineage of its directory.
LEMMA AuthenticatorFits ==
    ASSUME IInv, NEW r \in Runs, InFlight(r), Renewable(r), Lineage(r) # None
    PROVE  /\ Lineage(r) \in Names
           /\ Authenticator(r) \in Conf /\ Stem[Authenticator(r).name] = Lineage(r)
           /\ req[r].op # "renew" => Authenticator(r).name = req[r].name
  <1>1. req[r] \in Request /\ req[r].name \in Names /\ Lineage(r) \in Names
        /\ Stem[req[r].name] = Lineage(r)
    BY RequestOf, LineageOf DEF Renewable
  <1>2. CASE req[r].op = "renew"
    BY <1>1, <1>2 DEF Authenticator, Lineage, Renewable, IInv, TypeOK, LineagesSound
  <1>3. CASE req[r].op # "renew"
    BY <1>1, <1>3 DEF Authenticator, Conf, Request
  <1> QED
    BY <1>1, <1>2, <1>3

LEMMA ObtainFirstKeeps ==
    ASSUME IInv, NEW r \in Runs, ObtainFirst(r)
    PROVE  IInv'
  <1> DEFINE d == Lineage(r)
  <1>0. /\ pc[r] \in Certbot /\ InFlight(r) /\ d # None /\ Renewable(r)
        /\ UNCHANGED <<dryRun, credentials, rollback, backup>> /\ Exit(r, TRUE)
        /\ conf[d] = None
    BY DEF ObtainFirst, Certbot, InFlight, Authenticated
  <1>1. d \in Names /\ Authenticator(r) \in Conf /\ Stem[Authenticator(r).name] = d
    BY <1>0, AuthenticatorFits
  <1>2. /\ conf' = [conf EXCEPT ![d] = Authenticator(r)]
        /\ archive' = [archive EXCEPT ![d] = 1]
        /\ link' = [link EXCEPT ![d] = AllAt(1)]
    BY DEF ObtainFirst
  <1> HIDE DEF d
  <1>3. AllAt(1) \in [Parts -> Nat] /\ AllAt(1) = AllAt(AllAt(1)["cert"])
        /\ \A part \in Parts : AllAt(1)[part] <= 1
    BY DEF AllAt, Parts
  <1>4. /\ conf' \in [Names -> Conf \cup {None}] /\ archive' \in [Names -> Nat]
        /\ link' \in [Names -> [Parts -> Nat]] /\ rollback' \in [Names -> Nat \cup {None}]
        /\ conf'[d] = Authenticator(r) /\ archive'[d] = 1 /\ link'[d] = AllAt(1)
        /\ \A n \in Names : n # d =>
               /\ conf'[n] = conf[n] /\ archive'[n] = archive[n]
               /\ link'[n] = link[n] /\ rollback'[n] = rollback[n]
    BY <1>0, <1>1, <1>2, <1>3 DEF IInv, TypeOK
  <1>5. rollback'[d] = None /\ conf'[d] # None
    BY <1>0, <1>1, <1>4, NoneAssumption DEF IInv, LineagesSound
  <1> QED
    BY <1>0, <1>1, <1>3, <1>4, <1>5, LineageChanges DEF d

LEMMA ObtainKeeps ==
    ASSUME IInv, NEW r \in Runs, Obtain(r)
    PROVE  IInv'
  <1> DEFINE d == Lineage(r)
  <1>0. /\ pc[r] \in Certbot /\ InFlight(r) /\ d # None /\ Renewable(r)
        /\ UNCHANGED <<dryRun, credentials, link, lock, backup>> /\ Goto(r, "switch")
        /\ conf[d] # None
    BY DEF Obtain, Certbot, InFlight, Authenticated
  <1>1. /\ d \in Names /\ Authenticator(r) \in Conf /\ Stem[Authenticator(r).name] = d
        /\ req[r].op # "renew" => Authenticator(r).name = req[r].name
    BY <1>0, AuthenticatorFits
  <1>2. /\ conf' = [conf EXCEPT ![d] = Authenticator(r)]
        /\ archive' = [archive EXCEPT ![d] = @ + 1]
        /\ rollback' = [rollback EXCEPT ![d] = link[d]["cert"]]
    BY DEF Obtain
  <1>3. Lineage(r)' = d
    <2>1. req' = req
      BY <1>0 DEF Goto, locals
    <2>2. conf'[d] = Authenticator(r)
      BY <1>1, <1>2 DEF IInv, TypeOK
    <2>3. CASE req[r].op = "renew"
      BY <2>1, <2>3 DEF Lineage
    <2>4. CASE req[r].op # "renew"
      <3>1. d = Stem[req[r].name]
        BY <1>0, <2>4 DEF Lineage
      <3> QED
        BY <1>1, <2>1, <2>2, <2>4, <3>1 DEF Lineage
    <2> QED
      BY <2>3, <2>4
  <1> HIDE DEF d
  <1>4. link[d]["cert"] \in Nat /\ \A part \in Parts : link[d][part] \in Nat /\ link[d][part] <= archive[d]
    BY <1>1 DEF IInv, TypeOK, LineagesSound, Parts
  <1>5. /\ conf' \in [Names -> Conf \cup {None}] /\ archive' \in [Names -> Nat]
        /\ link' \in [Names -> [Parts -> Nat]] /\ rollback' \in [Names -> Nat \cup {None}]
        /\ conf'[d] = Authenticator(r) /\ archive'[d] = archive[d] + 1 /\ link'[d] = link[d]
        /\ rollback'[d] = link[d]["cert"] /\ archive[d] \in Nat
        /\ \A n \in Names : n # d =>
               /\ conf'[n] = conf[n] /\ archive'[n] = archive[n]
               /\ link'[n] = link[n] /\ rollback'[n] = rollback[n]
    BY <1>0, <1>1, <1>2, <1>4 DEF IInv, TypeOK
  <1>6. rollback'[d] # None /\ conf'[d] # None
    BY <1>1, <1>4, <1>5, NoneAssumption
  <1>7. \A part \in Parts : link'[d][part] <= archive'[d]
    BY <1>4, <1>5
  <1>8. rollback'[d] <= archive'[d]
    BY <1>4, <1>5 DEF Parts
  <1> QED
    BY <1>0, <1>1, <1>3, <1>5, <1>6, <1>7, <1>8, LineageChanges DEF d

\* A certbot at its links has a lineage to renew, and a version to go back to.
LEMMA SwitchFacts ==
    ASSUME IInv, NEW r \in Runs, pc[r] = "switch"
    PROVE  /\ pc[r] \in Certbot /\ InFlight(r) /\ Renewable(r)
           /\ Lineage(r) \in Names /\ conf[Lineage(r)] # None
           /\ Stem[conf[Lineage(r)].name] = Lineage(r)
           /\ rollback[Lineage(r)] # None
  <1>1. /\ pc[r] \in Certbot /\ InFlight(r) /\ Lineage(r) # None
        /\ conf[Lineage(r)] # None /\ rollback[Lineage(r)] # None
    BY DEF Certbot, InFlight, IInv, Shape
  <1>2. Renewable(r)
    BY <1>1 DEF Renewable, Lineage
  <1>3. Lineage(r) \in Names
    BY <1>1, <1>2, LineageOf DEF Renewable
  <1> QED
    BY <1>1, <1>2, <1>3 DEF IInv, LineagesSound

LEMMA SwitchKeeps ==
    ASSUME IInv, NEW r \in Runs, NEW part \in Parts, Switch(r, part)
    PROVE  IInv'
  <1> DEFINE d == Lineage(r)
  <1>0. /\ pc[r] = "switch"
        /\ UNCHANGED <<dryRun, credentials, conf, archive, rollback, lock, backup>>
        /\ pc' = pc /\ UNCHANGED locals
    BY DEF Switch
  <1>1. /\ pc[r] \in Certbot /\ Renewable(r) /\ d \in Names /\ conf[d] # None
        /\ Stem[conf[d].name] = d /\ rollback[d] # None
    BY <1>0, SwitchFacts
  <1>2. Goto(r, "switch")
    BY <1>0 DEF Goto, IInv, TypeOK
  <1>3. Lineage(r)' = d
    BY <1>0 DEF Lineage, locals
  <1>4. link' = [link EXCEPT ![d][part] = archive[d]]
    BY DEF Switch
  <1> HIDE DEF d
  <1>5. /\ link' \in [Names -> [Parts -> Nat]]
        /\ \A n \in Names : n # d => link'[n] = link[n]
        /\ \A p \in Parts : link'[d][p] = IF p = part THEN archive[d] ELSE link[d][p]
    <2>1. link \in [Names -> [Parts -> Nat]] /\ archive[d] \in Nat
      BY <1>1 DEF IInv, TypeOK
    <2>2. link' = [link EXCEPT ![d] = [link[d] EXCEPT ![part] = archive[d]]]
      BY <1>4
    <2>3. [link[d] EXCEPT ![part] = archive[d]] \in [Parts -> Nat]
      BY <1>1, <2>1
    <2>4. link'[d] = [link[d] EXCEPT ![part] = archive[d]]
      BY <1>1, <2>1, <2>2
    <2>5. \A p \in Parts : link'[d][p] = IF p = part THEN archive[d] ELSE link[d][p]
      BY <1>1, <2>1, <2>4
    <2> QED
      BY <1>1, <2>1, <2>2, <2>3, <2>5
  <1>6. \A p \in Parts : link'[d][p] <= archive'[d]
    <2>1. archive' = archive /\ archive[d] \in Nat /\ archive[d] <= archive[d]
      BY <1>0, <1>1 DEF IInv, TypeOK
    <2>2. \A p \in Parts : link[d][p] <= archive[d]
      BY <1>1 DEF IInv, LineagesSound
    <2>3. \A p \in Parts : link'[d][p] = archive[d] \/ link'[d][p] = link[d][p]
      BY <1>5
    <2>4. \A p \in Parts : link'[d][p] <= archive[d]
      BY <2>1, <2>2, <2>3
    <2> QED
      BY <2>1, <2>4
  <1>7. rollback'[d] # None => rollback'[d] <= archive'[d]
    BY <1>0, <1>1 DEF IInv, LineagesSound
  <1>8. /\ conf' \in [Names -> Conf \cup {None}] /\ archive' \in [Names -> Nat]
        /\ rollback' \in [Names -> Nat \cup {None}]
    BY <1>0 DEF IInv, TypeOK
  <1> QED
    BY <1>0, <1>1, <1>2, <1>3, <1>5, <1>6, <1>7, <1>8, LineageChanges DEF d

LEMMA SwitchedKeeps ==
    ASSUME IInv, NEW r \in Runs, Switched(r)
    PROVE  IInv'
  <1> DEFINE d == Lineage(r)
  <1>0. /\ pc[r] = "switch"
        /\ UNCHANGED <<dryRun, credentials, conf, archive, link, backup>> /\ Exit(r, TRUE)
        /\ link[d] = AllAt(archive[d]) /\ rollback' = [rollback EXCEPT ![d] = None]
    BY DEF Switched
  <1>1. /\ pc[r] \in Certbot /\ Renewable(r) /\ d \in Names /\ conf[d] # None
        /\ Stem[conf[d].name] = d
    BY <1>0, SwitchFacts
  <1> HIDE DEF d
  <1>2. /\ conf' \in [Names -> Conf \cup {None}] /\ archive' \in [Names -> Nat]
        /\ link' \in [Names -> [Parts -> Nat]] /\ rollback' \in [Names -> Nat \cup {None}]
        /\ rollback'[d] = None /\ \A n \in Names : n # d => rollback'[n] = rollback[n]
    BY <1>0, <1>1 DEF IInv, TypeOK
  <1>3. \A part \in Parts : link'[d][part] <= archive'[d]
    BY <1>0, <1>1 DEF IInv, LineagesSound
  <1>4. link'[d] = AllAt(link'[d]["cert"])
    BY <1>0 DEF AllAt, Parts
  <1> QED
    BY <1>0, <1>1, <1>2, <1>3, <1>4, LineageChanges DEF d

-----------------------------------------------------------------------------
(* The reads, the backup, the restart.                                     *)

LEMMA LoadKeeps ==
    ASSUME IInv, NEW r \in Runs, Load(r)
    PROVE  IInv'
  <1>0. /\ pc[r] = "load" /\ lock # r
        /\ UNCHANGED <<dryRun, files, lock, backup>>
    BY DEF Load, IInv, Shape, Certbot
  <1>1. CASE Return(r)
    BY <1>0, <1>1, ReturnKeeps
  <1>2. CASE Goto(r, "cert")
    <2> USE DEF IInv
    <2>0. UNCHANGED <<credentials, conf, archive, link, rollback>>
      BY <1>0 DEF files
    <2>1. /\ pc' \in [Runs -> Labels] /\ pc'[r] = "cert"
          /\ \A q \in Runs : q # r => pc'[q] = pc[q]
          /\ req' = req /\ got' = got /\ met' = met
      BY <1>2, GotoFacts DEF Labels, Reading
    <2>2. TypeOK'
      BY <1>0, <2>0, <2>1 DEF TypeOK, Labels
    <2>3. \A q \in Runs : (InFlight(q)' <=> InFlight(q)) /\ Lineage(q)' = Lineage(q)
      BY <1>0, <2>0, <2>1 DEF InFlight, Starting, Certbot, Reading, Lineage
    <2>4. Shape'
      <3>1. \A q \in Runs : pc'[q] \notin Reading => got'[q] = NoFiles
        BY <2>1 DEF Shape, Reading
      <3> QED
        BY <1>0, <2>0, <2>1, <2>3, <3>1 DEF Shape, Certbot, TypeOK
    <2>5. LineagesSound' /\ Together' /\ GotFits' /\ WalkSound'
      BY <1>0, <2>0, <2>1, <2>3 DEF LineagesSound, Together, GotFits, WalkSound, Walking
    <2>6. Alone'
      BY <1>0, <2>0, <2>1 DEF Alone, Contents, LiveDir, Reading
    <2> QED
      BY <2>2, <2>4, <2>5, <2>6
  <1> QED
    BY <1>1, <1>2 DEF Load

LEMMA DeliverKeeps ==
    ASSUME IInv, NEW r \in Runs, Deliver(r)
    PROVE  IInv'
  <1>1. lock # r
    BY DEF Deliver, IInv, Shape, Certbot
  <1> QED
    BY <1>1, ReturnKeeps DEF Deliver

LEMMA ReadFileKeeps ==
    ASSUME IInv, NEW r \in Runs, NEW part \in Parts,
           NEW next \in {"chain", "privkey", "ok"},
           <<part, next>> \in {<<"cert", "chain">>, <<"chain", "privkey">>, <<"privkey", "ok">>},
           ReadFile(r, part, next)
    PROVE  IInv'
  <1>0. /\ pc[r] = part /\ pc[r] \in Reading /\ InFlight(r) /\ lock # r
        /\ UNCHANGED <<dryRun, files, lock, backup>>
    BY DEF ReadFile, IInv, Shape, Certbot, Parts, Reading, InFlight
  <1>1. CASE Return(r)
    BY <1>0, <1>1, ReturnKeeps
  <1>2. CASE /\ Readable(LiveDir(r), part)
             /\ got' = [got EXCEPT ![r][part] = Contents(LiveDir(r), part)]
             /\ pc' = [pc EXCEPT ![r] = next]
             /\ UNCHANGED <<req, met>>
    <2> USE DEF IInv
    <2> DEFINE n == req[r].name
               c == Contents(LiveDir(r), part)
    <2>0. UNCHANGED <<credentials, conf, archive, link, rollback>>
      BY <1>0 DEF files
    <2>1. n \in Names
      BY <1>0, RequestOf
    <2>2. link[n][part] \in Nat /\ link[n][part] > 0
      BY <1>2, <2>1 DEF TypeOK, Readable, LiveDir
    <2>3. conf[n] # None
      <3>1. AllAt(0)[part] = 0
        BY DEF AllAt
      <3> QED
        BY <2>1, <2>2, <3>1 DEF LineagesSound
    <2>4. conf[n] \in Conf /\ conf[n].name \in Names /\ Stem[conf[n].name] = n
      BY <2>1, <2>3 DEF TypeOK, LineagesSound, Conf
    <2>5. c \in File /\ c # None /\ c.of = conf[n].name
      BY <2>2, <2>3, <2>4, NoneAssumption DEF Contents, LiveDir, File
    <2>6. c \in File /\ c # None /\ Stem[c.of] = req[r].name
      BY <2>4, <2>5
    <2> HIDE DEF c, n
    <2>7. /\ pc' \in [Runs -> Labels] /\ pc'[r] = next
          /\ \A q \in Runs : q # r => pc'[q] = pc[q]
      BY <1>2 DEF TypeOK, Labels, Reading
    <2>8. /\ got' \in [Runs -> [Parts -> File \cup {None}]]
          /\ \A q \in Runs : q # r => got'[q] = got[q]
          /\ \A p \in Parts : got'[r][p] = IF p = part THEN c ELSE got[r][p]
      <3>1. got \in [Runs -> [Parts -> File \cup {None}]]
        BY DEF TypeOK
      <3>2. got' = [got EXCEPT ![r] = [got[r] EXCEPT ![part] = c]]
        BY <1>2 DEF c
      <3>3. [got[r] EXCEPT ![part] = c] \in [Parts -> File \cup {None}]
        BY <2>6, <3>1
      <3>4. got'[r] = [got[r] EXCEPT ![part] = c]
        BY <3>1, <3>2
      <3>5. \A p \in Parts : got'[r][p] = IF p = part THEN c ELSE got[r][p]
        BY <3>1, <3>4
      <3> QED
        BY <3>1, <3>2, <3>3, <3>5
    <2>9. TypeOK'
      BY <1>0, <1>2, <2>0, <2>7, <2>8 DEF TypeOK, Labels
    <2>10. \A q \in Runs : (InFlight(q)' <=> InFlight(q)) /\ Lineage(q)' = Lineage(q)
      BY <1>0, <1>2, <2>0, <2>7 DEF InFlight, Starting, Certbot, Reading, Lineage
    <2>11. Shape'
      <3>1. ASSUME NEW q \in Runs
            PROVE  /\ pc'[q] \in {"chain", "privkey", "ok"} => got'[q]["cert"] # None
                   /\ pc'[q] \in {"privkey", "ok"} => got'[q]["chain"] # None
                   /\ pc'[q] = "ok" => got'[q]["privkey"] # None
                   /\ pc'[q] \notin Reading => got'[q] = NoFiles
        <4>1. CASE q = r
          BY <1>0, <2>6, <2>7, <2>8, <4>1 DEF Shape, Parts, Reading
        <4>2. CASE q # r
          BY <2>7, <2>8, <4>2 DEF Shape
        <4> QED
          BY <4>1, <4>2
      <3>2. (\A q \in Runs : pc'[q] \in Certbot <=> lock' = q) /\ (lock' # None => pc'[lock'] \in Certbot)
        BY <1>0, <2>7 DEF Shape, Certbot, TypeOK
      <3>3. \A q \in Runs : pc'[q] = "switch" =>
                Lineage(q)' # None /\ conf'[Lineage(q)'] # None /\ rollback'[Lineage(q)'] # None
        BY <2>0, <2>7, <2>10 DEF Shape
      <3> QED
        BY <1>2, <2>10, <3>1, <3>2, <3>3 DEF Shape
    <2>12. LineagesSound' /\ Together' /\ WalkSound'
      BY <1>0, <1>2, <2>0, <2>10 DEF LineagesSound, Together, WalkSound, Walking
    <2>13. GotFits'
      <3> SUFFICES ASSUME NEW q \in Runs, NEW p \in Parts, got'[q][p] # None
                   PROVE  InFlight(q)' /\ Stem[got'[q][p].of] = req[q].name
        BY <1>2 DEF GotFits
      <3>1. CASE q = r
        BY <1>0, <2>6, <2>8, <2>10, <3>1 DEF GotFits
      <3>2. CASE q # r
        BY <2>8, <2>10, <3>2 DEF GotFits
      <3> QED
        BY <3>1, <3>2
    <2>14. Alone'
      <3>1. \A q \in Runs, p \in Parts : Contents(LiveDir(q), p)' = Contents(LiveDir(q), p)
        BY <1>2, <2>0 DEF Contents, LiveDir
      <3> SUFFICES ASSUME NEW q \in Runs, met[q] = {}
                   PROVE  /\ pc'[q] \in {"certbot"} \cup Reading =>
                                /\ rollback[req[q].name] = None
                                /\ \A p \in Parts :
                                      got'[q][p] \in {None, Contents(LiveDir(q), p)}
                          /\ pc'[q] \in {"exec", "certbot"} /\ req[q].plugin = "cloudflare" =>
                                credentials[req[q].name] = req[q].cred
        BY <1>2, <2>0, <3>1 DEF Alone
      <3>2. CASE q = r
        <4>1. pc'[q] \notin {"exec", "certbot"}
          BY <2>7, <3>2
        <4>2. rollback[req[q].name] = None
          BY <1>0, <3>2 DEF Alone
        <4>3. \A p \in Parts : got'[q][p] \in {None, Contents(LiveDir(q), p)}
          BY <1>0, <2>8, <3>2 DEF Alone, c
        <4> QED
          BY <4>1, <4>2, <4>3
      <3>3. CASE q # r
        BY <2>7, <2>8, <3>3 DEF Alone
      <3> QED
        BY <3>2, <3>3
    <2> QED
      BY <2>9, <2>11, <2>12, <2>13, <2>14
  <1> QED
    BY <1>1, <1>2 DEF ReadFile

\* The steps of a backup.
LEMMA BackupKeeps ==
    ASSUME IInv, BackUp \/ WalkArchive \/ WalkLive
    PROVE  IInv'
  <1> USE DEF IInv
  <1>0. UNCHANGED <<dryRun, credentials, conf, archive, link, rollback, lock, pc, req, got, met>>
    BY DEF BackUp, WalkArchive, WalkLive, WalkLinks, files, locals
  <1>1. Shape' /\ LineagesSound' /\ Together' /\ Alone' /\ GotFits'
    BY <1>0 DEF Shape, LineagesSound, Together, Alone, GotFits, InFlight, Lineage, Contents, LiveDir
  <1>2. \A q \in Runs : InFlight(q)' <=> InFlight(q)
    BY <1>0 DEF InFlight
  <1>3. NoBackup \in BackupState
    BY DEF NoBackup, BackupState
  <1>4. backup' \in BackupState /\ WalkSound'
    <2>1. CASE BackUp
      <3>1. \A q \in {p \in Runs : InFlight(p)} : Stem[req[q].name] \in Names
        BY RequestOf
      <3>2. {Stem[req[q].name] : q \in {p \in Runs : InFlight(p)}} \subseteq Names
        BY <3>1
      <3>3. backup' \in BackupState
        BY <1>3, <2>1, <3>2 DEF BackUp, NoBackup, BackupState
      <3>4. /\ backup'.pc = "archive" /\ backup'.dangling = {}
            /\ backup'.touched = {Stem[req[q].name] : q \in {p \in Runs : InFlight(p)}}
        BY <2>1 DEF BackUp, NoBackup
      <3> QED
        BY <1>0, <1>2, <3>3, <3>4 DEF WalkSound, Walking
    <2>2. CASE \E next \in {"cert", "chain", "privkey", "done"} : WalkFails(next)
      <3>1. backup' = [NoBackup EXCEPT !.pc = "failed"]
        BY <2>2 DEF WalkFails
      <3> QED
        BY <3>1, <1>3 DEF WalkSound, Walking, NoBackup, BackupState
    <2>3. CASE WalkArchive /\ backup' = [backup EXCEPT !.pc = "cert", !.archive = archive]
      <3>1. /\ backup'.pc = "cert" /\ backup'.archive = archive
            /\ backup'.touched = backup.touched /\ backup'.dangling = backup.dangling
            /\ backup' \in BackupState
        BY <2>3 DEF TypeOK, BackupState
      <3>2. Walking
        BY <2>3 DEF WalkArchive, Walking
      <3> QED
        BY <1>0, <1>2, <3>1, <3>2 DEF WalkSound, Walking
    <2>4. ASSUME NEW part \in Parts, NEW next \in {"chain", "privkey", "done"},
                 backup.pc = part,
                 backup' = [backup EXCEPT !.pc = next,
                              !.dangling = @ \cup {d \in Names : link[d][part] > backup.archive[d]}]
          PROVE  backup' \in BackupState /\ WalkSound'
      <3>1. /\ backup'.pc = next /\ backup'.archive = backup.archive
            /\ backup'.touched = backup.touched
            /\ backup'.dangling = backup.dangling \cup {d \in Names : link[d][part] > backup.archive[d]}
            /\ backup' \in BackupState
        BY <2>4 DEF TypeOK, BackupState
      <3>2. Walking /\ backup.pc \in {"cert", "chain", "privkey"}
        BY <2>4 DEF Walking, Parts
      <3>3. \A d \in Names \ backup.touched : ~(link[d][part] > backup.archive[d])
        BY <3>2 DEF WalkSound, LineagesSound, TypeOK
      <3> QED
        BY <1>0, <1>2, <3>1, <3>2, <3>3 DEF WalkSound, Walking
    <2> QED
      BY <2>1, <2>2, <2>3, <2>4 DEF WalkArchive, WalkLive, WalkLinks, Parts
  <1>5. TypeOK'
    BY <1>0, <1>4 DEF TypeOK
  <1> QED
    BY <1>1, <1>4, <1>5

LEMMA RestartKeeps ==
    ASSUME IInv, Restart
    PROVE  IInv'
  <1> USE DEF IInv
  <1>1. \A r \in Runs : pc'[r] \in {"idle", "over"} /\ ~InFlight(r)'
                        /\ req'[r] = None /\ got'[r] = NoFiles /\ met'[r] = {}
    BY DEF Restart, TypeOK, InFlight, Starting, Certbot, Reading
  <1>2. /\ lock' = None /\ backup' \in BackupState /\ ~Walking'
        /\ backup'.dangling \subseteq backup'.touched
    BY DEF Restart, TypeOK, BackupState, NoBackup, Walking, WalkSound
  <1>3. \A v \in Nat : AllAt(v) \in [Parts -> Nat] /\ AllAt(v) = AllAt(AllAt(v)["cert"])
                       /\ \A part \in Parts : AllAt(v)[part] = v
    BY DEF AllAt, Parts
  <1>4. LineagesSound' /\ /\ credentials' \in [Names -> Creds \cup {Blank, None}]
                          /\ conf' \in [Names -> Conf \cup {None}]
                          /\ archive' \in [Names -> Nat]
                          /\ link' \in [Names -> [Parts -> Nat]]
                          /\ rollback' \in [Names -> Nat \cup {None}]
    <2>1. CASE UNCHANGED <<conf, archive, link, rollback>>
      BY <2>1 DEF Restart, LineagesSound, TypeOK, files
    <2>2. CASE /\ conf'     = [d \in Names |-> None]
               /\ archive'  = [d \in Names |-> 0]
               /\ link'     = [d \in Names |-> AllAt(0)]
               /\ rollback' = [d \in Names |-> None]
      <3>1. credentials' \in [Names -> Creds \cup {Blank, None}]
        BY DEF Restart, TypeOK, files
      <3>2. \A d \in Names : /\ conf'[d] = None /\ archive'[d] = 0 /\ link'[d] = AllAt(0)
                             /\ rollback'[d] = None
        BY <2>2
      <3>3. LineagesSound'
        BY <1>3, <3>2 DEF LineagesSound
      <3>4. /\ conf' \in [Names -> Conf \cup {None}] /\ archive' \in [Names -> Nat]
            /\ link' \in [Names -> [Parts -> Nat]]
            /\ rollback' \in [Names -> Nat \cup {None}]
        BY <1>3, <2>2
      <3> QED
        BY <3>1, <3>3, <3>4
    <2> QED
      BY <2>1, <2>2 DEF Restart, files
  <1>5. NoFiles \in [Parts -> File \cup {None}]
    BY DEF NoFiles
  <1>6. TypeOK'
    BY <1>2, <1>4, <1>5 DEF Restart, TypeOK
  <1>7. Shape'
    BY <1>1, <1>2, NoneAssumption DEF Shape, Certbot
  <1>8. Together' /\ Alone' /\ GotFits' /\ WalkSound'
    BY <1>1, <1>2 DEF Together, Alone, GotFits, WalkSound, NoFiles, Reading, Walking
  <1> QED
    BY <1>4, <1>6, <1>7, <1>8

-----------------------------------------------------------------------------
(* The theorems.                                                           *)

LEMMA NextKeeps == IInv /\ [Next]_vars => IInv'
  <1> SUFFICES ASSUME IInv, [Next]_vars PROVE IInv'
    OBVIOUS
  <1>1. ASSUME NEW r \in Runs, NEW q \in Inputs, Begin(r, q) PROVE IInv'
    BY <1>1, BeginKeeps
  <1>2. ASSUME NEW r \in Runs, Step(r) PROVE IInv'
    <2>1. CASE ChallengeArgs(r) \/ WriteCredentials(r) \/ Launch(r) \/ Fail(r)
      BY <2>1, ChallengeArgsKeeps, WriteCredentialsKeeps, LaunchKeeps, FailKeeps
    <2>2. CASE Keep(r) \/ ObtainElsewhere(r)
      BY <2>2, IdleKeeps DEF Keep, ObtainElsewhere
    <2>3. CASE ObtainFirst(r) \/ Obtain(r) \/ Switched(r) \/ (\E part \in Parts : Switch(r, part))
      BY <2>3, ObtainFirstKeeps, ObtainKeeps, SwitchKeeps, SwitchedKeeps
    <2>4. CASE Load(r) \/ ReadFiles(r) \/ Deliver(r)
      BY <2>4, LoadKeeps, ReadFileKeeps, DeliverKeeps DEF ReadFiles, Parts
    <2> QED
      BY <1>2, <2>1, <2>2, <2>3, <2>4 DEF Step
  <1>3. CASE BackUp \/ WalkArchive \/ WalkLive
    BY <1>3, BackupKeeps
  <1>4. CASE Restart
    BY <1>4, RestartKeeps
  <1>5. CASE UNCHANGED vars
    <2>1. UNCHANGED <<dryRun, credentials, conf, archive, link, rollback, lock, pc, req, got, met, backup>>
      BY <1>5 DEF vars
    <2> QED
      BY <2>1 DEF IInv, TypeOK, Shape, LineagesSound, Together, Alone, GotFits, WalkSound,
                  InFlight, Lineage, Contents, LiveDir, Walking
  <1> QED
    BY <1>1, <1>2, <1>3, <1>4, <1>5 DEF Next

\* What runs, lineages and a backup know of each other holds in every state.
THEOREM InductiveInvariant == Spec => []IInv
  BY InitInv, NextKeeps, PTL DEF Spec

\* Files, runs and backups always have their types.
THEOREM TypeCorrect == Spec => []TypeOK
  <1>1. IInv => TypeOK
    BY DEF IInv
  <1> QED
    BY <1>1, InductiveInvariant, PTL

\* Three files of one version, for any number of runs, kills and restarts: a run
\* that has met no other finds the links where its own certbot has left them.
THEOREM PairMatchesEver == Spec => []PairMatches
  <1>1. IInv => PairMatches
    <2> SUFFICES ASSUME IInv, NEW r \in Runs, pc[r] = "ok", met[r] = {}
                 PROVE  got[r]["cert"] = got[r]["chain"] /\ got[r]["cert"] = got[r]["privkey"]
      BY DEF PairMatches
    <2>1. req[r].name \in Names
      BY RequestOf DEF InFlight, Reading
    <2>2. rollback[req[r].name] = None
          /\ \A part \in Parts : got[r][part] = Contents(req[r].name, part)
      BY DEF IInv, Shape, Alone, Reading, Parts, LiveDir
    <2>3. link[req[r].name] = AllAt(link[req[r].name]["cert"])
      BY <2>1, <2>2 DEF IInv, LineagesSound
    <2>4. \A part \in Parts : link[req[r].name][part] = link[req[r].name]["cert"]
      BY <2>3 DEF AllAt, Parts
    <2> QED
      BY <2>2, <2>4 DEF Contents, Parts
  <1> QED
    BY <1>1, InductiveInvariant, PTL

\* A result is of the name asked for, or of a wildcard that shares its directory.
THEOREM ResultFitsEver == Spec => []ResultFits
  <1>1. IInv => ResultFits
    BY DEF IInv, Shape, GotFits, ResultFits, Parts
  <1> QED
    BY <1>1, InductiveInvariant, PTL

\* certbot reads the credential of the request it was started for.
THEOREM OwnCredentialEver == Spec => []OwnCredential
  <1>1. IInv => OwnCredential
    <2> SUFFICES ASSUME IInv, NEW r \in Runs, pc[r] = "certbot", met[r] = {},
                        req[r].plugin = "cloudflare",
                        Authenticator(r) = [name |-> req[r].name, plugin |-> "cloudflare"]
                 PROVE  Credential(r) = req[r].cred
      BY DEF OwnCredential
    <2>1. Credential(r) = credentials[req[r].name]
      BY DEF Credential
    <2> QED
      BY <2>1 DEF IInv, Alone
  <1> QED
    BY <1>1, InductiveInvariant, PTL

\* A backup that was delivered lacks the target of a link only for lineages that
\* a run has worked on meanwhile.
THEOREM BackupWholeEver == Spec => []BackupWhole
  <1>1. IInv => BackupWhole
    BY DEF IInv, WalkSound, BackupWhole
  <1> QED
    BY <1>1, InductiveInvariant, PTL
=============================================================================
