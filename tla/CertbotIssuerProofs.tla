------------------------- MODULE CertbotIssuerProofs -------------------------
(***************************************************************************)
(* The certbot executor implements CertIssuer for any number of runs,      *)
(* names and restarts.  The invariant of CertbotExecutorProofs is joined   *)
(* by two layers: no link is ever behind the version certbot would go back *)
(* to, so what is in place only grows while a run is under way; and so no  *)
(* run reads less than what was in place when it began.                    *)
(***************************************************************************)
EXTENDS CertbotIssuer, CertbotExecutorProofs

-----------------------------------------------------------------------------
(* The version in place.                                                   *)

LEMMA InPlaceTyped ==
    ASSUME TypeOK, NEW d \in Names
    PROVE  /\ InPlace(d) \in Nat /\ archive[d] \in Nat
           /\ \A part \in Parts : link[d][part] \in Nat
           /\ rollback[d] # None => rollback[d] \in Nat
  BY DEF TypeOK, InPlace, Parts

\* Only one certbot runs at a time.
LEMMA OneCertbot ==
    ASSUME IInv, NEW r \in Runs, pc[r] \in Certbot, NEW q \in Runs, q # r
    PROVE  pc[q] \notin Certbot
  BY DEF IInv, Shape

\* Steps that leave the lineages alone.
LEMMA QuietGrounded ==
    ASSUME Grounded, UNCHANGED <<dryRun, conf, archive, link, rollback>>,
           \A q \in Runs : pc'[q] = "certbot" => pc[q] = "certbot" /\ req'[q] = req[q],
           \A q \in Runs : pc'[q] \in {"switch", "cert", "chain", "privkey", "ok"} =>
               pc[q] \in {"switch", "cert", "chain", "privkey", "ok"} \/ ~dryRun
    PROVE  Grounded'
  <1>1. \A d \in Names : InPlace(d)' = InPlace(d)
    BY DEF InPlace
  <1>2. \A q \in Runs : pc'[q] = "certbot" => Lineage(q)' = Lineage(q)
    BY DEF Lineage
  <1> QED
    BY <1>1, <1>2 DEF Grounded

LEMMA GroundedInit == Init => Grounded
  <1> SUFFICES ASSUME Init PROVE Grounded
    OBVIOUS
  <1>1. PICK old \in SUBSET {n \in Names : Stem[n] = n} :
           /\ conf = [d \in Names |-> IF d \in old THEN [name |-> d, plugin |-> "cloudflare"] ELSE None]
           /\ archive = [d \in Names |-> IF d \in old THEN 1 ELSE 0]
           /\ link = [d \in Names |-> AllAt(IF d \in old THEN 1 ELSE 0)]
    BY DEF Init
  <1>2. ASSUME NEW d \in Names
        PROVE  /\ conf[d] # None => InPlace(d) > 0
               /\ \A part \in Parts : link[d][part] >= InPlace(d)
               /\ rollback[d] # None => rollback[d] < archive[d]
    <2>1. rollback[d] = None /\ InPlace(d) = link[d]["cert"]
      BY DEF Init, InPlace
    <2>2. CASE d \in old
      BY <1>1, <2>1, <2>2 DEF AllAt, Parts
    <2>3. CASE d \notin old
      BY <1>1, <2>1, <2>3 DEF AllAt, Parts
    <2> QED
      BY <2>2, <2>3
  <1>3. \A r \in Runs : pc[r] = "idle"
    BY DEF Init
  <1> QED
    BY <1>2, <1>3 DEF Grounded

\* A certbot changes its lineage d and nothing else.
LEMMA LineageGrounded ==
    ASSUME IInv, Grounded, NEW r \in Runs, pc[r] \in Certbot, NEW d \in Names, UNCHANGED dryRun,
           \A n \in Names : n # d =>
               /\ conf'[n] = conf[n] /\ archive'[n] = archive[n]
               /\ link'[n] = link[n] /\ rollback'[n] = rollback[n],
           \A q \in Runs : q # r => pc'[q] = pc[q],
           pc'[r] \in {"switch", "load"}, ~dryRun,
           InPlace(d)' > 0,
           \A part \in Parts : link'[d][part] >= InPlace(d)',
           rollback'[d] # None => rollback'[d] < archive'[d]
    PROVE  Grounded'
  <1>1. ASSUME NEW n \in Names
        PROVE  /\ conf'[n] # None => InPlace(n)' > 0
               /\ \A part \in Parts : link'[n][part] >= InPlace(n)'
               /\ rollback'[n] # None => rollback'[n] < archive'[n]
    <2>1. CASE n = d
      BY <2>1
    <2>2. CASE n # d
      <3>1. InPlace(n)' = InPlace(n)
        BY <2>2 DEF InPlace
      <3> QED
        BY <2>2, <3>1 DEF Grounded
    <2> QED
      BY <2>1, <2>2
  <1>2. \A q \in Runs : pc'[q] # "certbot"
    BY OneCertbot DEF Certbot
  <1> QED
    BY <1>1, <1>2 DEF Grounded

\* What a certbot does to its own lineage: the version in place stays, or is
\* replaced by one that is newer.
LEMMA LaunchPlace ==
    ASSUME IInv, Grounded, NEW r \in Runs, Launch(r)
    PROVE  /\ Grounded'
           /\ \A d \in Names : InPlace(d)' = InPlace(d)
           /\ UNCHANGED conf
  <1>0. /\ pc[r] = "exec" /\ InFlight(r)
        /\ UNCHANGED <<dryRun, credentials, conf, archive, backup>>
    BY DEF Launch, InFlight, Starting
  <1>1. CASE Return(r) /\ UNCHANGED <<lock, link, rollback>>
    <2>1. \A q \in Runs : (q # r => pc'[q] = pc[q] /\ req'[q] = req[q]) /\ pc'[r] = "over"
      BY <1>1, ReturnFacts DEF IInv
    <2>2. Grounded'
      BY <1>0, <1>1, <2>1, QuietGrounded
    <2> QED
      BY <1>0, <1>1, <2>2 DEF InPlace
  <1>2. CASE /\ lock = None /\ lock' = r
             /\ link' = [d \in Names |-> IF d \in Repaired(r) THEN AllAt(rollback[d]) ELSE link[d]]
             /\ rollback' = [d \in Names |-> IF d \in Repaired(r) THEN None ELSE rollback[d]]
             /\ Goto(r, "certbot")
    <2>1. /\ pc'[r] = "certbot" /\ req' = req
          /\ \A q \in Runs : q # r => pc'[q] = pc[q]
      BY <1>2, GotoFacts DEF IInv, Labels, Certbot
    <2>2. \A q \in Runs : pc[q] \notin Certbot
      BY <1>2, NoneAssumption DEF IInv, Shape
    <2>3. ASSUME NEW d \in Names
          PROVE  /\ InPlace(d)' = InPlace(d)
                 /\ \A part \in Parts : link'[d][part] >= InPlace(d)'
                 /\ rollback'[d] # None => rollback'[d] < archive'[d]
      <3>1. CASE d \in Repaired(r)
        <4>1. rollback[d] \in Nat /\ rollback[d] # None
          BY <3>1 DEF Repaired, IInv, TypeOK
        <4>2. rollback'[d] = None /\ \A part \in Parts : link'[d][part] = rollback[d]
          BY <1>2, <3>1 DEF AllAt
        <4> QED
          BY <4>1, <4>2 DEF InPlace, Parts
      <3>2. CASE d \notin Repaired(r)
        <4>1. rollback'[d] = rollback[d] /\ link'[d] = link[d] /\ archive'[d] = archive[d]
          BY <1>0, <1>2, <3>2
        <4>2. InPlace(d)' = InPlace(d)
          BY <4>1 DEF InPlace
        <4> QED
          BY <4>1, <4>2 DEF Grounded
      <3> QED
        BY <3>1, <3>2
    <2>4. Lineage(r)' # None => rollback'[Lineage(r)'] = None
      <3>1. Lineage(r)' = Lineage(r)
        BY <1>0, <2>1 DEF Lineage
      <3>2. req[r] \in Request /\ req[r].name \in Names /\ Stem[req[r].name] \in Names
        BY <1>0, RequestOf
      <3>3. Lineage(r) # None => Lineage(r) \in Names
        BY <3>2 DEF Lineage
      <3>4. Lineage(r) # None /\ rollback[Lineage(r)] # None => Lineage(r) \in Repaired(r)
        BY <3>2, <3>3 DEF Repaired, Lineage, Request
      <3> QED
        BY <1>2, <3>1, <3>3, <3>4
    <2>5. \A q \in Runs : q # r => pc'[q] \notin Certbot
      BY <2>1, <2>2
    <2>6. \A d \in Names : conf'[d] # None => InPlace(d)' > 0
      BY <1>0, <2>3 DEF Grounded
    <2>7. \A q \in Runs : pc'[q] \in {"switch", "cert", "chain", "privkey", "ok"} => ~dryRun'
      BY <1>0, <2>1 DEF Grounded
    <2>8. \A q \in Runs : pc'[q] = "certbot" => q = r
      BY <2>5 DEF Certbot
    <2>9. Grounded'
      BY <2>3, <2>4, <2>6, <2>7, <2>8 DEF Grounded
    <2> QED
      BY <1>0, <2>3, <2>9
  <1> QED
    BY <1>1, <1>2 DEF Launch

LEMMA ObtainFirstPlace ==
    ASSUME IInv, Grounded, NEW r \in Runs, ObtainFirst(r), NEW d, d = Lineage(r)
    PROVE  /\ Grounded'
           /\ d \in Names /\ Stem[req[r].name] = d
           /\ conf[d] = None /\ conf'[d] \in Conf /\ Stem[conf'[d].name] = d
           /\ InPlace(d) = 0 /\ InPlace(d)' = 1
           /\ \A n \in Names : n # d => conf'[n] = conf[n] /\ InPlace(n)' = InPlace(n)
  <1>0. /\ pc[r] = "certbot" /\ pc[r] \in Certbot /\ InFlight(r) /\ d # None /\ Renewable(r)
        /\ UNCHANGED <<dryRun, credentials, rollback, backup>> /\ Exit(r, TRUE)
        /\ conf[d] = None /\ ~dryRun
    BY DEF ObtainFirst, Certbot, InFlight, Authenticated
  <1>1. /\ d \in Names /\ Authenticator(r) \in Conf /\ Stem[Authenticator(r).name] = d
        /\ Stem[req[r].name] = d
    BY <1>0, AuthenticatorFits, LineageOf DEF Renewable
  <1>2. /\ conf' = [conf EXCEPT ![d] = Authenticator(r)]
        /\ archive' = [archive EXCEPT ![d] = 1]
        /\ link' = [link EXCEPT ![d] = AllAt(1)]
    BY DEF ObtainFirst
  <1>3. /\ pc'[r] = "load" /\ \A q \in Runs : q # r => pc'[q] = pc[q]
    BY <1>0, GotoFacts DEF Exit, Ended, IInv, Labels, Reading
  <1>4. /\ conf'[d] = Authenticator(r) /\ archive'[d] = 1 /\ link'[d] = AllAt(1)
        /\ rollback'[d] = rollback[d]
        /\ \A n \in Names : n # d =>
               /\ conf'[n] = conf[n] /\ archive'[n] = archive[n]
               /\ link'[n] = link[n] /\ rollback'[n] = rollback[n]
    BY <1>0, <1>1, <1>2 DEF IInv, TypeOK
  <1>5. rollback[d] = None /\ link[d] = AllAt(0)
    BY <1>0, <1>1 DEF IInv, LineagesSound
  <1>6. InPlace(d) = 0 /\ InPlace(d)' = 1 /\ \A part \in Parts : link'[d][part] = 1
    BY <1>4, <1>5 DEF InPlace, AllAt, Parts
  <1>7. \A n \in Names : n # d => InPlace(n)' = InPlace(n)
    BY <1>4 DEF InPlace
  <1>8. Grounded'
    <2>1. \A part \in Parts : link'[d][part] >= InPlace(d)'
      BY <1>6
    <2> QED
      BY <1>0, <1>1, <1>3, <1>4, <1>5, <1>6, <2>1, LineageGrounded
  <1> QED
    BY <1>0, <1>1, <1>4, <1>6, <1>7, <1>8

\* The version in place stays the one the links still point to.
LEMMA ObtainPlace ==
    ASSUME IInv, Grounded, NEW r \in Runs, Obtain(r)
    PROVE  /\ Grounded'
           /\ \A n \in Names : InPlace(n)' = InPlace(n)
                               /\ (conf'[n] = None <=> conf[n] = None)
                               /\ (conf[n] # None => conf'[n].name = conf[n].name)
  <1>. PICK d : d = Lineage(r)
    OBVIOUS
  <1>0. /\ pc[r] = "certbot" /\ pc[r] \in Certbot /\ InFlight(r) /\ d # None /\ Renewable(r)
        /\ UNCHANGED <<dryRun, credentials, link, lock, backup>> /\ Goto(r, "switch")
        /\ conf[d] # None /\ ~dryRun
    BY DEF Obtain, Certbot, InFlight, Authenticated
  <1>1. /\ d \in Names /\ Authenticator(r) \in Conf
        /\ req[r].op # "renew" => Authenticator(r).name = req[r].name
    BY <1>0, AuthenticatorFits
  <1>2. /\ conf' = [conf EXCEPT ![d] = Authenticator(r)]
        /\ archive' = [archive EXCEPT ![d] = @ + 1]
        /\ rollback' = [rollback EXCEPT ![d] = link[d]["cert"]]
    BY DEF Obtain
  <1>3. /\ pc'[r] = "switch" /\ \A q \in Runs : q # r => pc'[q] = pc[q]
    BY <1>0, GotoFacts DEF IInv, Labels, Certbot
  <1>4. /\ conf'[d] = Authenticator(r) /\ archive'[d] = archive[d] + 1 /\ link'[d] = link[d]
        /\ rollback'[d] = link[d]["cert"]
        /\ \A n \in Names : n # d =>
               /\ conf'[n] = conf[n] /\ archive'[n] = archive[n]
               /\ link'[n] = link[n] /\ rollback'[n] = rollback[n]
    BY <1>0, <1>1, <1>2 DEF IInv, TypeOK
  <1>5. rollback[d] = None
    BY <1>0 DEF Grounded
  <1>6. /\ link[d]["cert"] \in Nat /\ archive[d] \in Nat /\ link[d]["cert"] <= archive[d]
        /\ link[d]["cert"] # None
    BY <1>1, NoneAssumption DEF IInv, TypeOK, LineagesSound, Parts
  <1>7. InPlace(d) = link[d]["cert"] /\ InPlace(d)' = link[d]["cert"]
    BY <1>4, <1>5, <1>6 DEF InPlace
  <1>8. Authenticator(r).name = conf[d].name /\ Authenticator(r) # None
    <2>1. CASE req[r].op = "renew"
      BY <1>1, <2>1, NoneAssumption DEF Authenticator, Lineage
    <2>2. CASE req[r].op # "renew"
      <3>1. d = Stem[req[r].name] /\ conf[d].name = req[r].name
        BY <1>0, <2>2 DEF Lineage
      <3> QED
        BY <1>1, <2>2, <3>1, NoneAssumption
    <2> QED
      BY <2>1, <2>2
  <1>9. \A n \in Names : n # d => InPlace(n)' = InPlace(n)
    BY <1>4 DEF InPlace
  <1>10. Grounded'
    <2>1. InPlace(d)' > 0 /\ \A part \in Parts : link'[d][part] >= InPlace(d)'
      BY <1>0, <1>1, <1>4, <1>7 DEF Grounded
    <2>2. rollback'[d] < archive'[d]
      BY <1>4, <1>6
    <2> QED
      BY <1>0, <1>1, <1>3, <1>4, <2>1, <2>2, LineageGrounded
  <1> QED
    BY <1>0, <1>1, <1>4, <1>7, <1>8, <1>9, <1>10

LEMMA SwitchPlace ==
    ASSUME IInv, Grounded, NEW r \in Runs, NEW part \in Parts, Switch(r, part)
    PROVE  /\ Grounded'
           /\ \A n \in Names : InPlace(n)' = InPlace(n)
           /\ UNCHANGED conf
  <1>. PICK d : d = Lineage(r)
    OBVIOUS
  <1>0. /\ pc[r] = "switch"
        /\ UNCHANGED <<dryRun, credentials, conf, archive, rollback, lock, backup>>
        /\ pc' = pc /\ UNCHANGED locals
        /\ link' = [link EXCEPT ![d][part] = archive[d]]
    BY DEF Switch
  <1>1. d \in Names /\ conf[d] # None /\ rollback[d] # None
    BY <1>0, SwitchFacts
  <1>2. /\ \A n \in Names : n # d => link'[n] = link[n]
        /\ \A p \in Parts : link'[d][p] = IF p = part THEN archive[d] ELSE link[d][p]
    <2>1. link \in [Names -> [Parts -> Nat]]
      BY DEF IInv, TypeOK
    <2>2. link' = [link EXCEPT ![d] = [link[d] EXCEPT ![part] = archive[d]]]
      BY <1>0
    <2>3. link'[d] = [link[d] EXCEPT ![part] = archive[d]]
      BY <1>1, <2>1, <2>2
    <2> QED
      BY <1>1, <2>1, <2>2, <2>3
  <1>3. \A n \in Names : InPlace(n)' = InPlace(n)
    BY <1>0, <1>1, <1>2 DEF InPlace
  <1>4. \A p \in Parts : link'[d][p] >= InPlace(d)'
    <2>1. InPlace(d)' = rollback[d] /\ rollback[d] \in Nat /\ archive[d] \in Nat
          /\ rollback[d] < archive[d]
      BY <1>1, <1>3, InPlaceTyped DEF IInv, InPlace, Grounded
    <2>2. \A p \in Parts : link[d][p] >= InPlace(d)'
      BY <1>1, <1>3 DEF Grounded
    <2> QED
      BY <1>2, <2>1, <2>2
  <1>5. \A n \in Names : \A p \in Parts : link'[n][p] >= InPlace(n)'
    BY <1>2, <1>3, <1>4 DEF Grounded
  <1>6. \A q \in Runs : pc'[q] = pc[q] /\ Lineage(q)' = Lineage(q)
    BY <1>0 DEF Lineage, locals
  <1>7. Grounded'
    BY <1>0, <1>3, <1>5, <1>6 DEF Grounded
  <1> QED
    BY <1>0, <1>3, <1>7

LEMMA SwitchedPlace ==
    ASSUME IInv, Grounded, NEW r \in Runs, Switched(r), NEW d, d = Lineage(r)
    PROVE  /\ Grounded'
           /\ d \in Names /\ conf[d] # None /\ Stem[req[r].name] = d /\ ~dryRun
           /\ InPlace(d)' > InPlace(d)
           /\ \A n \in Names : n # d => InPlace(n)' = InPlace(n)
           /\ UNCHANGED conf
  <1>0. /\ pc[r] = "switch" /\ pc[r] \in Certbot /\ InFlight(r)
        /\ UNCHANGED <<dryRun, credentials, conf, archive, link, backup>> /\ Exit(r, TRUE)
        /\ link[d] = AllAt(archive[d]) /\ rollback' = [rollback EXCEPT ![d] = None]
    BY DEF Switched, Certbot, InFlight
  <1>1. d \in Names /\ conf[d] # None /\ rollback[d] # None /\ Renewable(r) /\ Stem[req[r].name] = d
    BY <1>0, SwitchFacts, LineageOf, NoneAssumption DEF Renewable
  <1>2. /\ pc'[r] = "load" /\ \A q \in Runs : q # r => pc'[q] = pc[q]
    BY <1>0, GotoFacts DEF Exit, Ended, IInv, Labels, Reading
  <1>3. rollback'[d] = None /\ \A n \in Names : n # d => rollback'[n] = rollback[n]
    BY <1>0, <1>1 DEF IInv, TypeOK
  <1>4. /\ InPlace(d) = rollback[d] /\ InPlace(d)' = archive[d]
        /\ \A part \in Parts : link'[d][part] = archive[d]
    BY <1>0, <1>1, <1>3 DEF InPlace, AllAt, Parts
  <1>5. \A n \in Names : n # d => InPlace(n)' = InPlace(n)
    BY <1>0, <1>3 DEF InPlace
  <1>6. rollback[d] < archive[d] /\ rollback[d] \in Nat /\ archive[d] \in Nat /\ ~dryRun
    BY <1>0, <1>1, InPlaceTyped DEF Grounded, IInv
  <1>7. Grounded'
    <2>1. InPlace(d)' > 0 /\ \A part \in Parts : link'[d][part] >= InPlace(d)'
      BY <1>4, <1>6
    <2> QED
      BY <1>0, <1>1, <1>2, <1>3, <1>6, <2>1, LineageGrounded
  <1> QED
    BY <1>0, <1>1, <1>4, <1>5, <1>6, <1>7

-----------------------------------------------------------------------------
(* A step of a run, as far as its caller can tell.                         *)

Busy == (Starting \cup Certbot \cup Reading) \ {"ok"}

\* A file is read, or the run goes on ...
Reads(r) ==
    \E part \in Parts, next \in {"chain", "privkey", "ok"} :
        /\ pc[r] = part /\ Readable(LiveDir(r), part)
        /\ next = "ok" => part = "privkey"
        /\ got' = [got EXCEPT ![r][part] = Contents(LiveDir(r), part)]
        /\ pc' = [pc EXCEPT ![r] = next]
        /\ UNCHANGED <<req, met, dryRun, files>>

GoesOn(r) == pc[r] \in Busy /\ \E l \in Busy : Goto(r, l)

\* ... with all certificates in place as they were, or a new one in its directory.
Steady ==
    \A n \in Names : /\ InPlace(n)' = InPlace(n)
                     /\ conf'[n] = None <=> conf[n] = None
                     /\ conf[n] # None => conf'[n].name = conf[n].name

Replaces(r, d) ==
    /\ d \in Names /\ Stem[req[r].name] = d /\ ~dryRun
    /\ InPlace(d)' > InPlace(d)
    /\ conf'[d] # None /\ conf'[d].name \in Names /\ Stem[conf'[d].name] = d
    /\ conf[d] # None => conf'[d].name = conf[d].name
    /\ \A n \in Names : n # d => InPlace(n)' = InPlace(n) /\ conf'[n] = conf[n]

LEMMA Untouched ==
    ASSUME UNCHANGED files
    PROVE  Steady
  BY DEF files, Steady, InPlace

\* The run of a quiet step neither starts certbot nor, in a rehearsal, a read.
LEMMA QuietStep ==
    ASSUME IInv, Grounded, NEW r \in Runs, UNCHANGED <<dryRun, conf, archive, link, rollback>>,
           \A q \in Runs : q # r => pc'[q] = pc[q] /\ req'[q] = req[q],
           pc'[r] # "certbot",
           pc'[r] \in {"switch", "cert", "chain", "privkey", "ok"} =>
               pc[r] \in {"switch", "cert", "chain", "privkey", "ok"} \/ ~dryRun
    PROVE  Grounded' /\ Steady
  <1>1. \A q \in Runs : pc'[q] = "certbot" => pc[q] = "certbot" /\ req'[q] = req[q]
    OBVIOUS
  <1>2. \A q \in Runs : pc'[q] \in {"switch", "cert", "chain", "privkey", "ok"} =>
               pc[q] \in {"switch", "cert", "chain", "privkey", "ok"} \/ ~dryRun
    OBVIOUS
  <1>3. Grounded'
    BY <1>1, <1>2, QuietGrounded
  <1> QED
    BY <1>3 DEF Steady, InPlace

LEMMA StartingSteps ==
    ASSUME IInv, Grounded, NEW r \in Runs, ChallengeArgs(r) \/ WriteCredentials(r)
    PROVE  /\ Return(r) \/ GoesOn(r)
           /\ Grounded' /\ Steady
  <1>1. /\ UNCHANGED <<dryRun, conf, archive, link, rollback>>
        /\ pc[r] \in {"args", "ini"}
        /\ Return(r) \/ Goto(r, "exec") \/ Goto(r, "ini")
    BY DEF ChallengeArgs, WriteCredentials
  <1>2. /\ \A q \in Runs : q # r => pc'[q] = pc[q] /\ req'[q] = req[q]
        /\ pc'[r] \in {"over", "exec", "ini"}
    BY <1>1, ReturnFacts, GotoFacts DEF IInv, Labels, Starting
  <1>3. Return(r) \/ GoesOn(r)
    BY <1>1 DEF GoesOn, Busy, Starting
  <1>4. Grounded' /\ Steady
    BY <1>1, <1>2, QuietStep
  <1> QED
    BY <1>3, <1>4

LEMMA CertbotSteps ==
    ASSUME IInv, Grounded, NEW r \in Runs,
           \/ Launch(r) \/ Fail(r) \/ Keep(r) \/ ObtainElsewhere(r) \/ Obtain(r)
           \/ \E part \in Parts : Switch(r, part)
    PROVE  /\ Return(r) \/ GoesOn(r)
           /\ Grounded' /\ Steady
  <1>1. CASE Launch(r)
    <2>1. Return(r) \/ GoesOn(r)
      BY <1>1 DEF Launch, GoesOn, Busy, Starting, Certbot
    <2> QED
      BY <1>1, <2>1, LaunchPlace DEF Steady
  <1>2. CASE Fail(r) \/ Keep(r) \/ ObtainElsewhere(r)
    <2>1. /\ UNCHANGED <<dryRun, conf, archive, link, rollback>>
          /\ pc[r] \in Certbot
          /\ Return(r) \/ Goto(r, "load")
      BY <1>2 DEF Fail, Keep, ObtainElsewhere, Exit, Ended, files, Certbot
    <2>2. /\ \A q \in Runs : q # r => pc'[q] = pc[q] /\ req'[q] = req[q]
          /\ pc'[r] \in {"over", "load"}
      BY <2>1, ReturnFacts, GotoFacts DEF IInv, Labels, Reading
    <2>3. Return(r) \/ GoesOn(r)
      BY <2>1 DEF GoesOn, Busy, Certbot, Reading
    <2> QED
      BY <2>1, <2>2, <2>3, QuietStep
  <1>3. CASE Obtain(r)
    <2>1. GoesOn(r)
      BY <1>3 DEF Obtain, GoesOn, Busy, Certbot
    <2> QED
      BY <1>3, <2>1, ObtainPlace DEF Steady
  <1>4. ASSUME NEW part \in Parts, Switch(r, part)
        PROVE  GoesOn(r) /\ Grounded' /\ Steady
    <2>1. pc[r] = "switch" /\ Goto(r, "switch")
      BY <1>4 DEF Switch, Goto, IInv, TypeOK
    <2>2. GoesOn(r)
      BY <2>1 DEF GoesOn, Busy, Certbot
    <2> QED
      BY <1>4, <2>2, SwitchPlace DEF Steady
  <1> QED
    BY <1>1, <1>2, <1>3, <1>4

LEMMA ReplacingSteps ==
    ASSUME IInv, Grounded, NEW r \in Runs, ObtainFirst(r) \/ Switched(r)
    PROVE  /\ GoesOn(r)
           /\ Grounded' /\ \E d : Replaces(r, d)
  <1>. PICK d : d = Lineage(r)
    OBVIOUS
  <1>1. GoesOn(r)
    BY DEF ObtainFirst, Switched, Exit, Ended, GoesOn, Busy, Certbot, Reading
  <1>2. CASE ObtainFirst(r)
    <2>1. ~dryRun
      BY <1>2 DEF ObtainFirst
    <2>2. conf'[d] \in Conf => conf'[d] # None /\ conf'[d].name \in Names
      BY NoneAssumption DEF Conf
    <2>3. Grounded' /\ Replaces(r, d)
      BY <1>2, <2>1, <2>2, ObtainFirstPlace DEF Replaces
    <2> QED
      BY <1>1, <2>3
  <1>3. CASE Switched(r)
    <2>1. /\ d \in Names /\ conf[d] # None
          /\ Grounded' /\ UNCHANGED conf
      BY <1>3, SwitchedPlace
    <2>2. conf[d].name \in Names /\ Stem[conf[d].name] = d
      BY <2>1 DEF IInv, TypeOK, LineagesSound, Conf
    <2>3. Replaces(r, d)
      BY <1>3, <2>1, <2>2, SwitchedPlace DEF Replaces
    <2> QED
      BY <1>1, <2>1, <2>3
  <1> QED
    BY <1>2, <1>3

LEMMA ReadingSteps ==
    ASSUME IInv, Grounded, NEW r \in Runs, Load(r) \/ ReadFiles(r) \/ Deliver(r)
    PROVE  /\ Return(r) \/ GoesOn(r) \/ Reads(r)
           /\ Grounded' /\ Steady
  <1>1. CASE Load(r)
    <2>1. /\ UNCHANGED <<dryRun, conf, archive, link, rollback>>
          /\ pc[r] = "load"
          /\ Return(r) \/ (Goto(r, "cert") /\ ~dryRun)
      <3>1. pc[r] = "load" /\ UNCHANGED <<dryRun, conf, archive, link, rollback>>
        BY <1>1 DEF Load, files
      <3>2. Return(r) \/ (Goto(r, "cert") /\ ~dryRun)
        BY <1>1, Zenon DEF Load
      <3> QED
        BY <3>1, <3>2
    <2>2. /\ \A q \in Runs : q # r => pc'[q] = pc[q] /\ req'[q] = req[q]
          /\ pc'[r] = "over" \/ (pc'[r] = "cert" /\ ~dryRun)
      BY <2>1, ReturnFacts, GotoFacts DEF IInv, Labels, Reading
    <2>3. Return(r) \/ GoesOn(r)
      BY <2>1 DEF GoesOn, Busy, Reading
    <2> QED
      BY <2>1, <2>2, <2>3, QuietStep
  <1>2. CASE Deliver(r) \/ (ReadFiles(r) /\ Return(r))
    <2>1. UNCHANGED <<dryRun, conf, archive, link, rollback>> /\ Return(r)
      BY <1>2 DEF Deliver, ReadFiles, ReadFile, files
    <2>2. pc'[r] = "over" /\ \A q \in Runs : q # r => pc'[q] = pc[q] /\ req'[q] = req[q]
      BY <2>1, ReturnFacts DEF IInv
    <2> QED
      BY <2>1, <2>2, QuietStep
  <1>3. ASSUME NEW part \in Parts, NEW next \in {"chain", "privkey", "ok"},
               next = "ok" => part = "privkey", ReadFile(r, part, next), ~Return(r)
        PROVE  Reads(r) /\ Grounded' /\ Steady
    <2>1. /\ pc[r] = part /\ UNCHANGED <<dryRun, conf, archive, link, rollback, req>>
          /\ pc' = [pc EXCEPT ![r] = next]
      BY <1>3 DEF ReadFile, files
    <2>2. Reads(r)
      BY <1>3 DEF Reads, ReadFile
    <2>3. pc'[r] = next /\ \A q \in Runs : q # r => pc'[q] = pc[q] /\ req'[q] = req[q]
      BY <2>1 DEF IInv, TypeOK
    <2>4. Grounded' /\ Steady
      BY <2>1, <2>3, QuietStep DEF Parts
    <2> QED
      BY <2>2, <2>4
  <1>4. CASE ReadFiles(r) /\ ~Return(r)
    <2>1. \/ ReadFile(r, "cert", "chain")
          \/ ReadFile(r, "chain", "privkey")
          \/ ReadFile(r, "privkey", "ok")
      BY <1>4 DEF ReadFiles
    <2> QED
      BY <1>3, <1>4, <2>1 DEF Parts
  <1> QED
    BY <1>1, <1>2, <1>4

LEMMA StepSeen ==
    ASSUME IInv, Grounded, NEW r \in Runs, Step(r)
    PROVE  /\ InFlight(r) /\ UNCHANGED dryRun
           /\ Grounded'
           /\ \/ Steady /\ (Return(r) \/ GoesOn(r) \/ Reads(r))
              \/ GoesOn(r) /\ \E d : Replaces(r, d)
  <1>1. InFlight(r) /\ UNCHANGED dryRun
    BY DEF Step, ChallengeArgs, WriteCredentials, Launch, Fail, Keep, ObtainElsewhere,
           ObtainFirst, Obtain, Switch, Switched, Load, ReadFiles, ReadFile, Deliver,
           InFlight, Starting, Certbot, Reading
  <1> QED
    BY <1>1, StartingSteps, CertbotSteps, ReplacingSteps, ReadingSteps DEF Step

LEMMA RestartGrounded ==
    ASSUME IInv, Grounded, Restart
    PROVE  Grounded'
  <1>1. \A q \in Runs : pc'[q] \in {"idle", "over"}
    BY DEF Restart, IInv, TypeOK, InFlight, Starting, Certbot, Reading
  <1>2. CASE UNCHANGED <<conf, archive, link, rollback>>
    <2>1. \A d \in Names : InPlace(d)' = InPlace(d)
      BY <1>2 DEF InPlace
    <2> QED
      BY <1>1, <1>2, <2>1 DEF Grounded
  <1>3. CASE /\ conf'     = [d \in Names |-> None]
             /\ archive'  = [d \in Names |-> 0]
             /\ link'     = [d \in Names |-> AllAt(0)]
             /\ rollback' = [d \in Names |-> None]
    <2>1. \A d \in Names : /\ conf'[d] = None /\ rollback'[d] = None /\ InPlace(d)' = 0
                           /\ \A part \in Parts : link'[d][part] = 0
      BY <1>3 DEF InPlace, AllAt, Parts
    <2> QED
      BY <1>1, <2>1 DEF Grounded
  <1> QED
    BY <1>2, <1>3 DEF Restart, files

-----------------------------------------------------------------------------
(* What a run has read is not older than what was in place when it began.  *)

LEMMA FloorFacts ==
    ASSUME Remember
    PROVE  /\ floor' = [q \in Runs |-> floor'[q]]
           /\ \A q \in Runs :
                 /\ ~InFlight(q)' => floor'[q] = 0
                 /\ InFlight(q)' /\ InFlight(q) => floor'[q] = floor[q]
                 /\ InFlight(q)' /\ ~InFlight(q) => floor'[q] = InPlace(req'[q].name)
  BY DEF Remember

\* A run that reads a file has it and goes on; all else of it stays.
LEMMA ReadsFacts ==
    ASSUME TypeOK, NEW r \in Runs, Reads(r)
    PROVE  /\ pc[r] \in Reading \ {"ok"} /\ pc'[r] \in {"chain", "privkey", "ok"}
           /\ pc'[r] = "ok" => pc[r] = "privkey"
           /\ req' = req /\ met' = met /\ UNCHANGED files
           /\ \A q \in Runs : q # r => pc'[q] = pc[q] /\ got'[q] = got[q]
           /\ \A p \in Parts : got'[r][p] \in {got[r][p], Contents(LiveDir(r), p)}
  <1>1. PICK part \in Parts, next \in {"chain", "privkey", "ok"} :
           /\ pc[r] = part /\ Readable(LiveDir(r), part)
           /\ next = "ok" => part = "privkey"
           /\ got' = [got EXCEPT ![r][part] = Contents(LiveDir(r), part)]
           /\ pc' = [pc EXCEPT ![r] = next]
           /\ UNCHANGED <<req, met, dryRun, files>>
    BY DEF Reads
  <1>2. pc'[r] = next /\ \A q \in Runs : q # r => pc'[q] = pc[q]
    BY <1>1 DEF TypeOK
  <1>3. /\ \A q \in Runs : q # r => got'[q] = got[q]
        /\ \A p \in Parts : got'[r][p] \in {got[r][p], Contents(LiveDir(r), p)}
    <2>1. got \in [Runs -> [Parts -> File \cup {None}]]
      BY DEF TypeOK
    <2>2. got' = [got EXCEPT ![r] = [got[r] EXCEPT ![part] = Contents(LiveDir(r), part)]]
      BY <1>1
    <2>3. got'[r] = [got[r] EXCEPT ![part] = Contents(LiveDir(r), part)]
      BY <2>1, <2>2
    <2>4. \A p \in Parts : got'[r][p] = IF p = part THEN Contents(LiveDir(r), p) ELSE got[r][p]
      BY <2>1, <2>3
    <2> QED
      BY <2>1, <2>2, <2>4
  <1> QED
    BY <1>1, <1>2, <1>3 DEF Reading, Parts

\* The other runs notice nothing of it.
LEMMA OthersStay ==
    ASSUME TypeOK, NEW r \in Runs, Return(r) \/ GoesOn(r) \/ Reads(r)
    PROVE  \A q \in Runs : q # r =>
              /\ pc'[q] = pc[q] /\ req'[q] = req[q] /\ got'[q] = got[q] /\ met'[q] = met[q]
              /\ InFlight(q)' <=> InFlight(q)
  <1>1. \A l \in Busy : l \in Labels
    BY DEF Busy, Labels
  <1>2. \A q \in Runs : q # r =>
           pc'[q] = pc[q] /\ req'[q] = req[q] /\ got'[q] = got[q] /\ met'[q] = met[q]
    BY <1>1, ReturnFacts, GotoFacts, ReadsFacts DEF GoesOn
  <1> QED
    BY <1>2 DEF InFlight

LEMMA GoesOnFacts ==
    ASSUME TypeOK, NEW r \in Runs, GoesOn(r)
    PROVE  /\ pc[r] \in Busy /\ pc'[r] \in Busy /\ InFlight(r) /\ InFlight(r)'
           /\ req' = req /\ got' = got /\ met' = met
  <1>1. \A l \in Busy : l \in Labels
    BY DEF Busy, Labels
  <1> QED
    BY <1>1, GotoFacts DEF GoesOn, Busy, InFlight

LEMMA NeverBack ==
    ASSUME TypeOK, TypeOK', Steady \/ \E r, d : Replaces(r, d), NEW n \in Names
    PROVE  InPlace(n)' >= InPlace(n) /\ InPlace(n) \in Nat /\ InPlace(n)' \in Nat
  <1>1. InPlace(n) \in Nat
    BY InPlaceTyped
  <1>2. InPlace(n)' \in Nat
    BY DEF TypeOK, InPlace, Parts
  <1> QED
    BY <1>1, <1>2 DEF Steady, Replaces

LEMMA BeginOlder ==
    ASSUME IInv, IInv', Grounded, NoneOlder, Remember, NEW r \in Runs, NEW q \in Inputs, Begin(r, q)
    PROVE  NoneOlder'
  <1>1. /\ UNCHANGED <<dryRun, credentials, conf, archive, link, rollback, lock, got>>
        /\ pc[r] = "idle" /\ q \in Request /\ q.name \in Names
    BY InputsAssumption DEF Begin, files, Request
  <1>2. /\ pc'[r] = "args" /\ req'[r] = q
        /\ \A p \in Runs : p # r => pc'[p] = pc[p] /\ req'[p] = req[p]
    BY DEF Begin, IInv, TypeOK
  <1>3. /\ InFlight(r)' /\ ~InFlight(r)
        /\ \A p \in Runs : p # r => (InFlight(p)' <=> InFlight(p))
    BY <1>1, <1>2 DEF InFlight, Starting, Certbot, Reading
  <1>4. \A n \in Names : InPlace(n)' = InPlace(n) /\ InPlace(n) \in Nat
    BY <1>1, InPlaceTyped DEF InPlace, IInv
  <1>5. floor'[r] = InPlace(q.name) /\ \A p \in Runs : p # r => floor'[p] = floor[p]
    BY <1>2, <1>3, FloorFacts DEF NoneOlder
  <1>6. floor' \in [Runs -> Nat]
    BY <1>1, <1>4, <1>5, FloorFacts DEF NoneOlder
  <1>7. ASSUME NEW p \in Runs
        PROVE  /\ ~InFlight(p)' => req'[p] = None /\ floor'[p] = 0
               /\ InFlight(p)' => floor'[p] <= InPlace(req[p].name)'
               /\ \A part \in Parts : got'[p][part] # None => got'[p][part].ver >= floor'[p]
    <2>1. CASE p = r
      <3>1. got[r] = NoFiles
        BY <1>1 DEF IInv, Shape, Reading
      <3>2. InPlace(req[r].name)' = InPlace(q.name)
        BY <1>1, <1>2 DEF InPlace
      <3> QED
        BY <1>1, <1>2, <1>3, <1>4, <1>5, <2>1, <3>1, <3>2 DEF NoFiles
    <2>2. CASE p # r
      <3>1. InPlace(req[p].name)' = InPlace(req[p].name)
        BY <1>1, <1>2, <2>2 DEF InPlace
      <3> QED
        BY <1>1, <1>2, <1>3, <1>5, <2>2, <3>1 DEF NoneOlder
    <2> QED
      BY <2>1, <2>2
  <1> QED
    BY <1>6, <1>7 DEF NoneOlder

LEMMA StepOlder ==
    ASSUME IInv, IInv', Grounded, NoneOlder, Remember, NEW r \in Runs, Step(r)
    PROVE  NoneOlder'
  <1>1. /\ InFlight(r)
        /\ Steady \/ \E d : Replaces(r, d)
        /\ Return(r) \/ GoesOn(r) \/ Reads(r)
    BY StepSeen
  <1>2. \A q \in Runs : q # r =>
           /\ pc'[q] = pc[q] /\ req'[q] = req[q] /\ got'[q] = got[q]
           /\ InFlight(q)' <=> InFlight(q)
    BY <1>1, OthersStay DEF IInv
  <1>3. \A n \in Names : InPlace(n)' >= InPlace(n) /\ InPlace(n) \in Nat /\ InPlace(n)' \in Nat
    BY <1>1, NeverBack DEF IInv
  <1>4. /\ ~InFlight(r)' => req'[r] = None
        /\ InFlight(r)' => req'[r] = req[r]
        /\ \A p \in Parts : got'[r][p] # None =>
              \/ got'[r][p] = got[r][p] /\ InFlight(r)'
              \/ got'[r][p] = Contents(req[r].name, p) /\ InFlight(r)'
    <2>1. CASE Return(r)
      BY <2>1, ReturnFacts DEF IInv, NoFiles, InFlight, Starting, Certbot, Reading
    <2>2. CASE GoesOn(r)
      BY <2>2, GoesOnFacts DEF IInv
    <2>3. CASE Reads(r)
      BY <2>3, ReadsFacts DEF IInv, LiveDir, InFlight, Reading
    <2> QED
      BY <1>1, <2>1, <2>2, <2>3
  <1>5. /\ \A q \in Runs : InFlight(q)' => floor'[q] = floor[q] /\ req'[q] = req[q] /\ InFlight(q)
        /\ \A q \in Runs : ~InFlight(q)' => floor'[q] = 0 /\ req'[q] = None
    BY <1>1, <1>2, <1>4, FloorFacts DEF NoneOlder
  <1>6. floor' \in [Runs -> Nat]
    BY <1>5, FloorFacts DEF NoneOlder
  <1>7. ASSUME NEW q \in Runs, InFlight(q)'
        PROVE  floor'[q] <= InPlace(req[q].name)'
    <2>1. req[q].name \in Names /\ req'[q] = req[q] /\ floor'[q] = floor[q] /\ InFlight(q)
      BY <1>5, <1>7, RequestOf
    <2>2. PICK n \in Names : n = req[q].name
      BY <2>1
    <2>3. InPlace(req[q].name)' = InPlace(n)' /\ InPlace(req[q].name) = InPlace(n)
      BY <2>1, <2>2 DEF InPlace
    <2>4. floor[q] <= InPlace(n) /\ floor[q] \in Nat
      BY <2>1, <2>3 DEF NoneOlder
    <2> QED
      BY <1>3, <2>1, <2>3, <2>4
  <1>8. ASSUME NEW q \in Runs, NEW p \in Parts, got'[q][p] # None
        PROVE  got'[q][p].ver >= floor'[q]
    <2>1. CASE got'[q][p] = got[q][p]
      <3>1. got[q][p].ver >= floor[q] /\ got[q][p] \in File
        BY <1>8, <2>1 DEF NoneOlder, IInv, TypeOK
      <3>2. floor'[q] = floor[q] \/ floor'[q] = 0
        BY <1>5
      <3> QED
        BY <2>1, <3>1, <3>2 DEF File
    <2>2. CASE got'[q][p] # got[q][p]
      <3>1. q = r /\ got'[r][p] = Contents(req[r].name, p) /\ InFlight(r)'
        BY <1>2, <1>4, <1>8, <2>2
      <3>2. req[r].name \in Names
        BY <1>1, RequestOf
      <3>3. got'[r][p].ver = link[req[r].name][p] /\ link[req[r].name][p] \in Nat
        BY <3>1, <3>2, InPlaceTyped DEF Contents, IInv
      <3>4. link[req[r].name][p] >= InPlace(req[r].name) /\ InPlace(req[r].name) \in Nat
        BY <3>2, InPlaceTyped DEF Grounded, IInv
      <3>5. floor'[r] = floor[r] /\ floor[r] <= InPlace(req[r].name) /\ floor[r] \in Nat
        BY <1>1, <1>5, <3>1 DEF NoneOlder
      <3> QED
        BY <3>1, <3>3, <3>4, <3>5
    <2> QED
      BY <2>1, <2>2
  <1> QED
    BY <1>5, <1>6, <1>7, <1>8 DEF NoneOlder

LEMMA RestartFacts ==
    ASSUME IInv, Restart
    PROVE  \A q \in Runs :
              /\ ~InFlight(q)' /\ pc'[q] = IF InFlight(q) THEN "over" ELSE pc[q]
              /\ req'[q] = None /\ got'[q] = NoFiles /\ met'[q] = {}
  BY DEF Restart, IInv, TypeOK, InFlight, Starting, Certbot, Reading

LEMMA OlderKept == IInv /\ IInv' /\ Grounded /\ NoneOlder /\ [IssuerNext]_<<vars, floor>> => NoneOlder'
  <1> SUFFICES ASSUME IInv, IInv', Grounded, NoneOlder, [IssuerNext]_<<vars, floor>>
               PROVE  NoneOlder'
    OBVIOUS
  <1>1. ASSUME Remember, NEW r \in Runs, NEW q \in Inputs, Begin(r, q) PROVE NoneOlder'
    BY <1>1, BeginOlder
  <1>2. ASSUME Remember, NEW r \in Runs, Step(r) PROVE NoneOlder'
    BY <1>2, StepOlder
  <1>3. ASSUME Remember, BackUp \/ WalkArchive \/ WalkLive PROVE NoneOlder'
    <2>1. UNCHANGED <<dryRun, credentials, conf, archive, link, rollback, lock, pc, req, got, met>>
      BY <1>3 DEF BackUp, WalkArchive, WalkLive, WalkLinks, files, locals
    <2>2. \A q \in Runs : (InFlight(q)' <=> InFlight(q)) /\ InPlace(req[q].name)' = InPlace(req[q].name)
      BY <2>1 DEF InFlight, InPlace
    <2>3. floor' = floor
      BY <1>3, <2>2, FloorFacts DEF NoneOlder
    <2> QED
      BY <2>1, <2>2, <2>3 DEF NoneOlder
  <1>4. ASSUME Remember, Restart PROVE NoneOlder'
    <2>1. \A q \in Runs : ~InFlight(q)' /\ floor'[q] = 0 /\ req'[q] = None /\ got'[q] = NoFiles
      BY <1>4, RestartFacts, FloorFacts
    <2> QED
      BY <1>4, <2>1, FloorFacts DEF NoneOlder, NoFiles
  <1>5. CASE UNCHANGED <<vars, floor>>
    BY <1>5 DEF vars, NoneOlder, InFlight, InPlace
  <1> QED
    BY <1>1, <1>2, <1>3, <1>4, <1>5 DEF IssuerNext, Next

LEMMA GroundedKept == IInv /\ IInv' /\ Grounded /\ [Next]_vars => Grounded'
  <1> SUFFICES ASSUME IInv, IInv', Grounded, [Next]_vars PROVE Grounded'
    OBVIOUS
  <1>1. ASSUME NEW r \in Runs, NEW q \in Inputs, Begin(r, q) PROVE Grounded'
    <2>1. /\ UNCHANGED <<dryRun, conf, archive, link, rollback>>
          /\ pc'[r] = "args" /\ \A p \in Runs : p # r => pc'[p] = pc[p] /\ req'[p] = req[p]
      BY <1>1 DEF Begin, files, IInv, TypeOK
    <2> QED
      BY <2>1, QuietStep
  <1>2. ASSUME NEW r \in Runs, Step(r) PROVE Grounded'
    BY <1>2, StepSeen
  <1>3. CASE BackUp \/ WalkArchive \/ WalkLive
    <2>1. UNCHANGED <<dryRun, conf, archive, link, rollback, pc, req>>
      BY <1>3 DEF BackUp, WalkArchive, WalkLive, WalkLinks, files, locals
    <2> QED
      BY <2>1, QuietGrounded
  <1>4. CASE Restart
    BY <1>4, RestartGrounded
  <1>5. CASE UNCHANGED vars
    <2>1. UNCHANGED <<dryRun, conf, archive, link, rollback, pc, req>>
      BY <1>5 DEF vars
    <2> QED
      BY <2>1, QuietGrounded
  <1> QED
    BY <1>1, <1>2, <1>3, <1>4, <1>5 DEF Next

LEMMA IssuerInvInit == IssuerInit => IssuerInv
  <1> SUFFICES ASSUME IssuerInit PROVE IssuerInv
    OBVIOUS
  <1>1. IInv /\ Grounded
    BY InitInv, GroundedInit DEF IssuerInit
  <1>2. \A r \in Runs : ~InFlight(r) /\ req[r] = None /\ floor[r] = 0 /\ got[r] = NoFiles
    BY DEF IssuerInit, Init, InFlight, Starting, Certbot, Reading
  <1>3. NoneOlder
    BY <1>2 DEF IssuerInit, NoneOlder, NoFiles
  <1> QED
    BY <1>1, <1>3 DEF IssuerInv

\* In every state the links of a lineage are at or beyond the version certbot
\* would go back to, and no run has read, or can still read, a certificate older
\* than the one that was in place when it began.
THEOREM IssuerInvariant == IssuerSpec => []IssuerInv
  <1>1. IssuerInv /\ [IssuerNext]_<<vars, floor>> => IssuerInv'
    <2> SUFFICES ASSUME IssuerInv, [IssuerNext]_<<vars, floor>> PROVE IssuerInv'
      OBVIOUS
    <2>1. [Next]_vars
      BY DEF IssuerNext
    <2>2. IInv'
      BY <2>1, NextKeeps DEF IssuerInv
    <2>3. Grounded'
      BY <2>1, <2>2, GroundedKept DEF IssuerInv
    <2>4. NoneOlder'
      BY <2>2, OlderKept DEF IssuerInv
    <2> QED
      BY <2>2, <2>3, <2>4 DEF IssuerInv
  <1> QED
    BY <1>1, IssuerInvInit, PTL DEF IssuerSpec

-----------------------------------------------------------------------------
(* The refinement: what each step is for the caller.                       *)

\* The certificate of a directory as the caller sees it.
LEMMA LiveFacts ==
    ASSUME IInv, Grounded, NEW d \in Names
    PROVE  /\ conf[d] = None => Live[d] = None /\ InPlace(d) = 0
           /\ conf[d] # None => /\ Live[d] = [of |-> conf[d].name, ver |-> InPlace(d)]
                                /\ Live[d] # None
                                /\ Live[d].of = conf[d].name /\ Live[d].ver = InPlace(d)
           /\ Issuer!Version(d) = InPlace(d)
  <1>1. CASE conf[d] = None
    <2>1. rollback[d] = None /\ link[d] = AllAt(0)
      BY <1>1 DEF IInv, LineagesSound
    <2>2. InPlace(d) = 0
      BY <2>1 DEF InPlace, AllAt, Parts
    <2> QED
      BY <1>1, <2>2 DEF Live, Issuer!Version
  <1>2. CASE conf[d] # None
    <2>1. conf[d].name \in Names /\ InPlace(d) \in Nat /\ InPlace(d) > 0
      BY <1>2, InPlaceTyped DEF IInv, TypeOK, Conf, Grounded
    <2>2. [of |-> conf[d].name, ver |-> InPlace(d)] \in File
      BY <2>1 DEF File
    <2>3. [of |-> conf[d].name, ver |-> InPlace(d)] # None
      BY <2>2, NoneAssumption
    <2> QED
      BY <1>2, <2>3 DEF Live, Issuer!Version
  <1> QED
    BY <1>1, <1>2

LEMMA SteadyLive ==
    ASSUME Steady
    PROVE  Live' = Live
  BY DEF Steady, Live

\* The calls as the caller sees them.
LEMMA CallFacts ==
    ASSUME IInv
    PROVE  \A r \in Runs :
              /\ CallStates[r] = CallOf(r)
              /\ CallOf(r).status = "busy" <=> pc[r] \in Busy
              /\ CallOf(r).status = "idle" <=> pc[r] = "idle"
              /\ Issuer!Under(r) <=> InFlight(r)
              /\ InFlight(r) => CallOf(r).name = req[r].name
              /\ CallOf(r).floor = floor[r]
              /\ CallOf(r).alone = (met[r] = {})
  <1> SUFFICES ASSUME NEW r \in Runs
               PROVE  /\ CallStates[r] = CallOf(r)
                      /\ CallOf(r).status = "busy" <=> pc[r] \in Busy
                      /\ CallOf(r).status = "idle" <=> pc[r] = "idle"
                      /\ Issuer!Under(r) <=> InFlight(r)
                      /\ InFlight(r) => CallOf(r).name = req[r].name
                      /\ CallOf(r).floor = floor[r]
                      /\ CallOf(r).alone = (met[r] = {})
    OBVIOUS
  <1>1. CallStates[r] = CallOf(r)
    BY DEF CallStates
  <1>2. pc[r] \in Starting \cup Certbot \cup Reading \cup {"idle", "over"}
    BY DEF IInv, TypeOK
  <1>3. CallOf(r).status = Status(r)
    BY DEF CallOf
  <1>4. /\ Status(r) = "busy" <=> pc[r] \in Busy
        /\ Status(r) = "idle" <=> pc[r] = "idle"
        /\ Status(r) \in {"busy", "answered"} <=> InFlight(r)
    BY <1>2 DEF Status, Busy, InFlight, Starting, Certbot, Reading
  <1>5. InFlight(r) => CallOf(r).name = req[r].name
    BY DEF CallOf, IInv, Shape
  <1>6. CallOf(r).floor = floor[r] /\ CallOf(r).alone = (met[r] = {})
    BY DEF CallOf
  <1> QED
    BY <1>1, <1>3, <1>4, <1>5, <1>6 DEF Issuer!Under

LEMMA KinSame ==
    ASSUME IInv, NEW n
    PROVE  Issuer!Kin(n) = Kin(n)
  BY CallFacts DEF Issuer!Kin, Kin

\* A call looks the same as long as its run and what it has read are the same.
LEMMA SameCall ==
    ASSUME NoneOlder, Remember, NEW q \in Runs,
           pc'[q] = pc[q], req'[q] = req[q], got'[q] = got[q], met'[q] = met[q]
    PROVE  CallOf(q)' = CallOf(q)
  <1>1. InFlight(q)' <=> InFlight(q)
    BY DEF InFlight
  <1>2. floor'[q] = floor[q]
    BY <1>1, FloorFacts DEF NoneOlder
  <1> QED
    BY <1>2 DEF CallOf, Status

LEMMA OverCall ==
    ASSUME NEW r \in Runs, pc'[r] = "over", req'[r] = None, floor'[r] = 0, met'[r] = {}
    PROVE  CallOf(r)' = Issuer!Over
  <1>1. Issuer!Over = [status |-> "over", name |-> None, floor |-> 0, alone |-> TRUE,
                       answer |-> NoFiles]
    BY DEF Issuer!Over, Issuer!Call, Issuer!Nothing, NoFiles
  <1>2. CallOf(r)' = [status |-> Status(r)', name |-> IF req'[r] = None THEN None ELSE req'[r].name,
                      floor |-> floor'[r], alone |-> met'[r] = {},
                      answer |-> IF pc'[r] = "ok" THEN got'[r] ELSE NoFiles']
    BY DEF CallOf
  <1>3. Status(r)' = "over" /\ (IF pc'[r] = "ok" THEN got'[r] ELSE NoFiles') = NoFiles
        /\ (IF req'[r] = None THEN None ELSE req'[r].name) = None
    BY DEF Status, NoFiles
  <1>4. (met'[r] = {}) = TRUE
    OBVIOUS
  <1> QED
    BY <1>1, <1>2, <1>3, <1>4

LEMMA ReturnEnds ==
    ASSUME IssuerInv, Remember, NEW r \in Runs, InFlight(r), Return(r), UNCHANGED dryRun, Steady
    PROVE  Issuer!End(r)
  <1>1. /\ pc'[r] = "over" /\ req'[r] = None /\ met'[r] = {}
        /\ \A q \in Runs : q # r =>
              pc'[q] = pc[q] /\ req'[q] = req[q] /\ got'[q] = got[q] /\ met'[q] = met[q]
    BY ReturnFacts DEF IssuerInv, IInv
  <1>2. floor'[r] = 0
    BY <1>1, FloorFacts DEF InFlight, Starting, Certbot, Reading
  <1>3. CallOf(r)' = Issuer!Over
    BY <1>1, <1>2, OverCall
  <1>4. \A q \in Runs : q # r => CallOf(q)' = CallOf(q)
    BY <1>1, SameCall DEF IssuerInv
  <1>5. CallStates' = [CallStates EXCEPT ![r] = Issuer!Over]
    BY <1>3, <1>4 DEF CallStates
  <1>6. Issuer!Under(r)
    BY CallFacts DEF IssuerInv
  <1> QED
    BY <1>5, <1>6, SteadyLive DEF Issuer!End

LEMMA GoesOnUnseen ==
    ASSUME IssuerInv, Remember, NEW r \in Runs, GoesOn(r)
    PROVE  CallStates' = CallStates /\ CallStates[r].status = "busy"
           /\ CallStates[r].name = req[r].name
  <1>1. /\ pc[r] \in Busy /\ pc'[r] \in Busy /\ InFlight(r) /\ InFlight(r)'
        /\ req' = req /\ got' = got /\ met' = met
        /\ \A q \in Runs : q # r => pc'[q] = pc[q]
    BY GoesOnFacts, OthersStay DEF IssuerInv, IInv
  <1>2. floor'[r] = floor[r]
    BY <1>1, FloorFacts
  <1>3. CallOf(r)' = CallOf(r)
    BY <1>1, <1>2 DEF CallOf, Status, Busy, Starting, Certbot, Reading
  <1>4. \A q \in Runs : q # r => CallOf(q)' = CallOf(q)
    BY <1>1, SameCall DEF IssuerInv
  <1>5. CallStates' = CallStates
    BY <1>3, <1>4 DEF CallStates
  <1> QED
    BY <1>1, <1>5, CallFacts DEF IssuerInv

LEMMA ReplacementSeen ==
    ASSUME IssuerInv, IssuerInv', Remember, NEW r \in Runs, GoesOn(r), UNCHANGED dryRun,
           NEW d, Replaces(r, d)
    PROVE  Issuer!Replace(r)
  <1>1. CallStates' = CallStates /\ CallStates[r].status = "busy" /\ CallStates[r].name = req[r].name
    BY GoesOnUnseen
  <1>2. d \in Names /\ Stem[CallStates[r].name] = d /\ ~dryRun
    BY <1>1 DEF Replaces
  <1>3. /\ Live'[d] # None /\ Live'[d].of = conf'[d].name /\ Live'[d].ver = InPlace(d)'
        /\ Stem[conf'[d].name] = d
    <2>1. conf'[d].name \in Names /\ InPlace(d)' \in Nat /\ InPlace(d)' > 0 /\ conf'[d] # None
      BY <1>2, InPlaceTyped DEF Replaces, IssuerInv, IInv, TypeOK, InPlace, Grounded, Parts
    <2>2. [of |-> conf'[d].name, ver |-> InPlace(d)'] \in File
      BY <2>1 DEF File
    <2>3. Live'[d] = [of |-> conf'[d].name, ver |-> InPlace(d)']
      BY <1>2, <2>1 DEF Live
    <2> QED
      BY <2>2, <2>3, NoneAssumption DEF Replaces
  <1>4. Live'[d].ver > Issuer!Version(d)
    BY <1>2, <1>3, LiveFacts DEF Replaces, IssuerInv
  <1>5. IF Live[d] = None THEN Stem[Live'[d].of] = d ELSE Live'[d].of = Live[d].of
    BY <1>2, <1>3, LiveFacts DEF Replaces, IssuerInv
  <1>6. Live' = [Live EXCEPT ![d] = Live'[d]]
    <2>1. \A n \in Names : n # d => Live'[n] = Live[n]
      BY DEF Replaces, Live
    <2> QED
      BY <2>1 DEF Live
  <1> QED
    BY <1>1, <1>2, <1>3, <1>4, <1>5, <1>6 DEF Issuer!Replace

\* What a run that no other has met holds once it has read the third file: the
\* certificate in place, entire.
Whole == \A r \in Runs : pc[r] = "ok" /\ met[r] = {}
                            => got[r] = [p \in Parts |-> Live[req[r].name]]

LEMMA WholeAnswer == IssuerInv => Whole
  <1>. SUFFICES ASSUME IInv, Grounded, NEW r \in Runs, pc[r] = "ok", met[r] = {}
                PROVE  got[r] = [p \in Parts |-> Live[req[r].name]]
    BY DEF IssuerInv, Whole
  <1>. PICK n : n = req[r].name
    OBVIOUS
  <1>1. n \in Names /\ InFlight(r)
    BY RequestOf DEF InFlight, Reading
  <1>2. rollback[n] = None /\ \A part \in Parts : got[r][part] = Contents(n, part)
    BY DEF IInv, Shape, Alone, Reading, Parts, LiveDir
  <1>3. \A part \in Parts : link[n][part] = link[n]["cert"]
    BY <1>1, <1>2 DEF IInv, LineagesSound, AllAt
  <1>4. got[r] \in [Parts -> File \cup {None}] /\ \A part \in Parts : got[r][part] # None
    BY DEF IInv, TypeOK, Shape, Parts
  <1>5. conf[n] # None
    <2>1. got[r]["cert"] \in File /\ got[r]["cert"].ver = link[n]["cert"]
      BY <1>2, <1>4 DEF Contents, Parts
    <2>2. link[n]["cert"] # 0
      BY <2>1 DEF File
    <2> QED
      BY <1>1, <2>2 DEF IInv, LineagesSound, AllAt, Parts
  <1>6. Live[n] = [of |-> conf[n].name, ver |-> link[n]["cert"]]
    BY <1>1, <1>2, <1>5, LiveFacts DEF InPlace
  <1>7. \A part \in Parts : got[r][part] = Live[n]
    BY <1>2, <1>3, <1>5, <1>6 DEF Contents
  <1> QED
    BY <1>4, <1>7

LEMMA WholeAnswerNext == IssuerInv' => Whole'
  BY WholeAnswer, PTL

LEMMA ReadSeen ==
    ASSUME IssuerInv, IssuerInv', Remember, NEW r \in Runs, Reads(r), UNCHANGED dryRun, Steady
    PROVE  Issuer!Answer(r) \/ UNCHANGED <<CallStates, Live, dryRun>>
  <1>1. /\ pc[r] \in Reading \ {"ok"} /\ pc'[r] \in {"chain", "privkey", "ok"}
        /\ pc'[r] = "ok" => pc[r] = "privkey"
        /\ req' = req /\ met' = met /\ UNCHANGED files
        /\ InFlight(r) /\ InFlight(r)'
    BY ReadsFacts DEF IssuerInv, IInv, InFlight, Reading
  <1>2. \A q \in Runs : q # r => CallOf(q)' = CallOf(q)
    BY <1>1, ReadsFacts, SameCall DEF IssuerInv, IInv
  <1>3. floor'[r] = floor[r] /\ Live' = Live
    BY <1>1, FloorFacts, SteadyLive
  <1>4. CASE pc'[r] # "ok"
    <2>1. Status(r)' = Status(r) /\ pc[r] # "ok"
      BY <1>1, <1>4 DEF Status, Reading
    <2>2. CallOf(r)' = CallOf(r)
      BY <1>1, <1>3, <1>4, <2>1 DEF CallOf
    <2>3. CallStates' = CallStates
      BY <1>2, <2>2 DEF CallStates
    <2> QED
      BY <1>3, <2>3
  <1>5. CASE pc'[r] = "ok"
    <2>. DEFINE readFiles == got'[r]
                seen  == Issuer!Answered(r, readFiles)
    <2>1. CallOf(r)' = seen
      <3>1. Status(r)' = "answered"
        BY <1>5 DEF Status
      <3>2. CallOf(r)' = [status |-> "answered", name |-> CallOf(r).name, floor |-> floor[r],
                          alone |-> met[r] = {}, answer |-> readFiles]
        BY <1>1, <1>3, <1>5, <3>1 DEF CallOf
      <3>3. /\ CallStates[r].name = CallOf(r).name /\ CallStates[r].floor = floor[r]
            /\ CallStates[r].alone = (met[r] = {})
        BY CallFacts DEF IssuerInv
      <3> HIDE DEF readFiles
      <3> QED
        BY <3>2, <3>3 DEF Issuer!Answered, Issuer!Call
    <2>2. CallStates'[r] = seen /\ CallStates'[r].answer = readFiles
      <3>1. CallStates'[r] = CallOf(r)' /\ CallOf(r)'.answer = readFiles
        BY <1>5 DEF CallStates, CallOf
      <3> QED
        BY <2>1, <3>1
    <2>3. CallStates[r] = CallOf(r) /\ CallStates[r].status = "busy" /\ ~dryRun
          /\ CallStates[r].name = req[r].name /\ CallStates[r].floor = floor[r]
          /\ (CallStates[r].alone <=> met[r] = {})
      BY <1>1, <1>5, CallFacts DEF IssuerInv, Busy, Grounded
    <2>4. CallStates' = [CallStates EXCEPT ![r] = seen]
      BY <1>2, <2>1, <2>3 DEF CallStates
    <2>5. ASSUME NEW p \in Parts
          PROVE  readFiles[p].ver >= floor[r] /\ Stem[readFiles[p].of] = req[r].name
      <3>1. got'[r][p] # None
        BY <1>5 DEF IssuerInv, IInv, Shape, Parts
      <3>2. got'[r][p].ver >= floor'[r]
        BY <3>1 DEF IssuerInv, NoneOlder
      <3>3. Stem[got'[r][p].of] = req'[r].name
        BY <3>1 DEF IssuerInv, IInv, GotFits
      <3> QED
        BY <1>1, <1>3, <3>2, <3>3
    <2>6. met[r] = {} => readFiles = [p \in Parts |-> Live[req[r].name]]
      <3>1. met'[r] = {} => got'[r] = [p \in Parts |-> Live'[req'[r].name]]
        BY <1>5, WholeAnswerNext DEF Whole
      <3> QED
        BY <1>1, <1>3, <3>1
    <2>7. /\ CallStates'[r].answer = readFiles
          /\ CallStates' = [CallStates EXCEPT ![r] = Issuer!Answered(r, readFiles)]
          /\ \A p \in Parts : readFiles[p].ver >= CallStates[r].floor
                               /\ Stem[readFiles[p].of] = CallStates[r].name
          /\ CallStates[r].alone => readFiles = [p \in Parts |-> Live[CallStates[r].name]]
      BY <2>2, <2>3, <2>4, <2>5, <2>6
    <2> HIDE DEF readFiles, seen
    <2> QED
      BY <1>3, <2>3, <2>7 DEF Issuer!Answer
  <1> QED
    BY <1>4, <1>5

LEMMA BeginSeen ==
    ASSUME IssuerInv, IssuerInv', Remember, NEW r \in Runs, NEW q \in Inputs, Begin(r, q)
    PROVE  Issuer!Make(r, q.name) /\ q.name \in Names
  <1>1. /\ UNCHANGED <<dryRun, credentials, conf, archive, link, rollback, lock, got>>
        /\ pc[r] = "idle" /\ q \in Request /\ q.name \in Names /\ q # None
    BY InputsAssumption, NoneAssumption DEF Begin, files, Request
  <1>2. /\ pc'[r] = "args" /\ req'[r] = q /\ met'[r] = Kin(q.name)
        /\ \A p \in Runs : p # r =>
              /\ pc'[p] = pc[p] /\ req'[p] = req[p]
              /\ met'[p] = IF p \in Kin(q.name) THEN met[p] \cup {r} ELSE met[p]
    BY DEF Begin, IssuerInv, IInv, TypeOK
  <1>3. InFlight(r)' /\ ~InFlight(r) /\ r \notin Kin(q.name)
    BY <1>1, <1>2 DEF InFlight, Starting, Certbot, Reading, Kin
  <1>4. floor'[r] = Issuer!Version(q.name)
    BY <1>1, <1>2, <1>3, FloorFacts, LiveFacts DEF IssuerInv
  <1>5. Issuer!Kin(q.name) = Kin(q.name)
    BY KinSame DEF IssuerInv
  <1>6. Live' = Live
    BY <1>1 DEF Live, InPlace
  <1>. DEFINE made == Issuer!Call("busy", q.name, Issuer!Version(q.name), Issuer!Kin(q.name) = {},
                                  Issuer!Nothing)
  <1>7. CallOf(r)' = made
    <2>1. Status(r)' = "busy" /\ NoFiles' = Issuer!Nothing
      BY <1>2 DEF Status, NoFiles, Issuer!Nothing
    <2> QED
      BY <1>1, <1>2, <1>4, <1>5, <2>1 DEF CallOf, Issuer!Call
  <1>8. ASSUME NEW p \in Runs, p # r, p \notin Kin(q.name)
        PROVE  CallOf(p)' = CallOf(p)
    BY <1>1, <1>2, <1>8, SameCall DEF IssuerInv
  <1>9. ASSUME NEW p \in Runs, p # r, p \in Kin(q.name)
        PROVE  CallOf(p)' = Issuer!Joined(p)
    <2>1. InFlight(p)' /\ InFlight(p)
      BY <1>2, <1>9 DEF Kin, InFlight
    <2>2. floor'[p] = floor[p] /\ Status(p)' = Status(p) /\ pc'[p] = pc[p] /\ req'[p] = req[p]
          /\ (met'[p] = {}) = FALSE /\ got' = got
      BY <1>1, <1>2, <1>9, <2>1, FloorFacts DEF Status
    <2>3. CallOf(p)' = [status |-> Status(p), name |-> IF req[p] = None THEN None ELSE req[p].name,
                        floor |-> floor[p], alone |-> FALSE,
                        answer |-> IF pc[p] = "ok" THEN got[p] ELSE NoFiles]
      BY <2>2 DEF CallOf, NoFiles
    <2>4. CallStates[p] = CallOf(p)
      BY DEF CallStates
    <2> QED
      BY <2>3, <2>4 DEF CallOf, Issuer!Joined, Issuer!Call
  <1>10. CallStates' = [o \in Runs |->
            IF o = r THEN made
            ELSE IF o \in Issuer!Kin(q.name) THEN Issuer!Joined(o) ELSE CallStates[o]]
    <2> HIDE DEF made
    <2> QED
      BY <1>5, <1>7, <1>8, <1>9 DEF CallStates
  <1>11. CallStates[r].status = "idle"
    BY <1>1, CallFacts DEF IssuerInv
  <1> QED
    BY <1>1, <1>6, <1>10, <1>11 DEF Issuer!Make

LEMMA RestartSeen ==
    ASSUME IssuerInv, Remember, Restart
    PROVE  Issuer!Restart
  <1>1. \A q \in Runs :
           /\ ~InFlight(q)' /\ pc'[q] = IF InFlight(q) THEN "over" ELSE pc[q]
           /\ req'[q] = None /\ got'[q] = NoFiles /\ met'[q] = {} /\ floor'[q] = 0
    BY RestartFacts, FloorFacts DEF IssuerInv
  <1>2. ASSUME NEW q \in Runs
        PROVE  CallOf(q)' = IF Issuer!Under(q) THEN Issuer!Over ELSE CallStates[q]
    <2>1. Issuer!Under(q) <=> InFlight(q)
      BY CallFacts DEF IssuerInv
    <2>2. CASE InFlight(q)
      BY <1>1, <2>1, <2>2, OverCall
    <2>3. CASE ~InFlight(q)
      <3>1. /\ req[q] = None /\ floor[q] = 0 /\ met[q] = {} /\ pc'[q] = pc[q] /\ pc[q] # "ok"
        BY <1>1, <2>3 DEF IssuerInv, NoneOlder, IInv, Shape, InFlight, Reading
      <3>2. Status(q)' = Status(q) /\ NoFiles' = NoFiles
        BY <3>1 DEF Status, NoFiles
      <3>3. CallOf(q)' = CallOf(q)
        BY <1>1, <3>1, <3>2 DEF CallOf
      <3> QED
        BY <2>1, <2>3, <3>3 DEF CallStates
    <2> QED
      BY <2>2, <2>3
  <1>3. CallStates' = [q \in Runs |-> IF Issuer!Under(q) THEN Issuer!Over ELSE CallStates[q]]
    BY <1>2 DEF CallStates
  <1>4. Live' \in {Live, [d \in Names |-> None]}
    <2>1. CASE UNCHANGED <<conf, link, rollback>>
      BY <2>1 DEF Live, InPlace
    <2>2. CASE conf' = [d \in Names |-> None]
      BY <2>2 DEF Live
    <2> QED
      BY <2>1, <2>2 DEF Restart, files
  <1>5. dryRun' \in BOOLEAN
    BY DEF Restart
  <1> QED
    BY <1>3, <1>4, <1>5 DEF Issuer!Restart

LEMMA InitSeen == IssuerInit => Issuer!Init
  <1> SUFFICES ASSUME IssuerInit PROVE Issuer!Init
    OBVIOUS
  <1>1. PICK old \in SUBSET {n \in Names : Stem[n] = n} :
           /\ conf = [d \in Names |-> IF d \in old THEN [name |-> d, plugin |-> "cloudflare"] ELSE None]
           /\ link = [d \in Names |-> AllAt(IF d \in old THEN 1 ELSE 0)]
    BY DEF IssuerInit, Init
  <1>2. Live = [d \in Names |-> IF d \in old THEN [of |-> d, ver |-> 1] ELSE None]
    <2> SUFFICES ASSUME NEW d \in Names
                 PROVE  (IF conf[d] = None THEN None ELSE [of |-> conf[d].name, ver |-> InPlace(d)])
                        = IF d \in old THEN [of |-> d, ver |-> 1] ELSE None
      BY DEF Live
    <2>1. rollback[d] = None
      BY DEF IssuerInit, Init
    <2>2. CASE d \in old
      <3>1. conf[d] = [name |-> d, plugin |-> "cloudflare"] /\ conf[d] # None
        BY <1>1, <2>2, NoneAssumption DEF Conf, Plugins
      <3>2. InPlace(d) = 1
        BY <1>1, <2>1, <2>2 DEF InPlace, AllAt, Parts
      <3> QED
        BY <2>2, <3>1, <3>2
    <2>3. CASE d \notin old
      BY <1>1, <2>3
    <2> QED
      BY <2>2, <2>3
  <1>3. ASSUME NEW r \in Runs
        PROVE  CallOf(r) = Issuer!Idle
    <2>1. pc[r] = "idle" /\ req[r] = None /\ floor[r] = 0 /\ (met[r] = {}) = TRUE
      BY <1>3 DEF IssuerInit, Init
    <2>2. Status(r) = "idle" /\ NoFiles = Issuer!Nothing
      BY <2>1 DEF Status, NoFiles, Issuer!Nothing
    <2> QED
      BY <2>1, <2>2 DEF CallOf, Issuer!Idle, Issuer!Call
  <1>4. CallStates = [c \in Runs |-> Issuer!Idle] /\ dryRun \in BOOLEAN
    BY <1>3 DEF CallStates, IssuerInit, Init
  <1> QED
    BY <1>2, <1>4 DEF Issuer!Init

LEMMA NextSeen ==
    ASSUME IssuerInv, IssuerInv', [IssuerNext]_<<vars, floor>>
    PROVE  [Issuer!Next]_(Issuer!issuervars)
  <1>1. ASSUME Remember, NEW r \in Runs, NEW q \in Inputs, Begin(r, q)
        PROVE  Issuer!Next
    BY <1>1, BeginSeen DEF Issuer!Next
  <1>2. ASSUME Remember, NEW r \in Runs, Step(r)
        PROVE  Issuer!Next \/ UNCHANGED Issuer!issuervars
    <2>1. /\ InFlight(r) /\ UNCHANGED dryRun
          /\ \/ Steady /\ (Return(r) \/ GoesOn(r) \/ Reads(r))
             \/ GoesOn(r) /\ \E d : Replaces(r, d)
      BY <1>2, StepSeen DEF IssuerInv
    <2>2. CASE Steady /\ Return(r)
      BY <1>2, <2>1, <2>2, ReturnEnds DEF Issuer!Next
    <2>3. CASE Steady /\ GoesOn(r)
      BY <1>2, <2>1, <2>3, GoesOnUnseen, SteadyLive DEF Issuer!issuervars
    <2>4. CASE Steady /\ Reads(r)
      BY <1>2, <2>1, <2>4, ReadSeen DEF Issuer!Next, Issuer!issuervars
    <2>5. CASE GoesOn(r) /\ \E d : Replaces(r, d)
      BY <1>2, <2>1, <2>5, ReplacementSeen DEF Issuer!Next
    <2> QED
      BY <2>1, <2>2, <2>3, <2>4, <2>5
  <1>3. ASSUME Remember, BackUp \/ WalkArchive \/ WalkLive
        PROVE  UNCHANGED Issuer!issuervars
    <2>1. UNCHANGED <<dryRun, credentials, conf, archive, link, rollback, lock, pc, req, got, met>>
      BY <1>3 DEF BackUp, WalkArchive, WalkLive, WalkLinks, files, locals
    <2>2. Live' = Live
      BY <2>1 DEF Live, InPlace
    <2>3. CallStates' = CallStates
      BY <1>3, <2>1, SameCall DEF CallStates, IssuerInv
    <2> QED
      BY <2>1, <2>2, <2>3 DEF Issuer!issuervars
  <1>4. ASSUME Remember, Restart
        PROVE  Issuer!Next
    BY <1>4, RestartSeen DEF Issuer!Next
  <1>5. CASE UNCHANGED <<vars, floor>>
    BY <1>5 DEF vars, Issuer!issuervars, Live, InPlace, CallStates, CallOf, Status, NoFiles
  <1> QED
    BY <1>1, <1>2, <1>3, <1>4, <1>5 DEF IssuerNext, Next

\* The executor keeps the promise of its port for any number of runs, names,
\* credentials and restarts, with a certbot that may be killed at every step:
\* only newer certificates are put in place, and no answer is older than what was
\* in place when the run began or, undisturbed, other than what is in place.
THEOREM Implementation == IssuerSpec => RefinesIssuer
  <1>1. IssuerInv /\ IssuerInv' /\ [IssuerNext]_<<vars, floor>>
        => [Issuer!Next]_(Issuer!issuervars)
    BY NextSeen
  <1> QED
    BY <1>1, InitSeen, IssuerInvariant, PTL DEF IssuerSpec, RefinesIssuer, Issuer!Spec
=============================================================================
