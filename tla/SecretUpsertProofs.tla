-------------------------- MODULE SecretUpsertProofs --------------------------
(***************************************************************************)
(* Theorems about SecretUpsert for any number of calls and any kind of     *)
(* foreign data.  Inv is the inductive invariant: types, the pair in every *)
(* object at hand, and that a resourceVersion names one object, which is   *)
(* what lets the API server notice that an object read earlier is stale.   *)
(***************************************************************************)
EXTENDS SecretUpsert, TLAPS

\* A call has something to update exactly while its Update is still to come.
ReadFirst == \A c \in Calls : pc[c] = "update" => existing[c] # None

Paired == PairMatches /\ \A c \in Calls : existing[c] # None => existing[c].cert = existing[c].key

Inv == TypeOK /\ ReadFirst /\ Paired /\ VersionsTell

\* What a write leaves in the Secret.
LEMMA StoreFacts ==
    ASSUME TypeOK, VersionsTell, NEW secret \in Object, Store(secret)
    PROVE  /\ object' \in Object /\ object' # None
           /\ version' = version + 1 /\ version' \in Nat
           /\ object'.version = version + 1
           /\ object'.tls = secret.tls /\ object'.cert = secret.cert
           /\ object'.key = secret.key /\ object'.extra = secret.extra
  BY ValuesAssumption DEF Store, TypeOK, Object

\* An update that the API server accepts replaces the pair in the very object
\* the call has read.
LEMMA ReplacementFacts ==
    ASSUME Inv, NEW c \in Calls, pc[c] = "update"
    PROVE  /\ existing[c] \in Object
           /\ Replacement(c) \in Object
           /\ Replacement(c).version = existing[c].version
           /\ Replacement(c).cert = c /\ Replacement(c).key = c
           /\ Replacement(c).extra = existing[c].extra
           /\ Accepted(Replacement(c)) => object = existing[c]
  <1>1. existing[c] \in Object
    BY DEF Inv, TypeOK, ReadFirst
  <1>2. /\ Replacement(c) \in Object
        /\ Replacement(c).version = existing[c].version
        /\ Replacement(c).cert = c /\ Replacement(c).key = c
        /\ Replacement(c).extra = existing[c].extra
    BY <1>1 DEF Replacement, Object, Owners
  <1>3. Accepted(Replacement(c)) => object = existing[c]
    BY <1>1, <1>2, ValuesAssumption DEF Accepted, Inv, VersionsTell
  <1> QED
    BY <1>1, <1>2, <1>3

LEMMA NewSecretFacts ==
    ASSUME NEW c \in Calls
    PROVE  NewSecret(c) \in Object /\ NewSecret(c).cert = c /\ NewSecret(c).key = c
  BY ValuesAssumption DEF NewSecret, Object, Owners

\* Whatever writes the Secret writes a new version and a matching pair.
LEMMA StoreKeeps ==
    ASSUME Inv, NEW secret \in Object, secret.cert = secret.key, Store(secret),
           UNCHANGED existing,
           pc' \in [Calls -> {"get", "create", "update", "ok", "failed"}],
           \A c \in Calls : pc'[c] = "update" => pc[c] = "update"
    PROVE  Inv'
  <1>1. /\ object' \in Object /\ object' # None
        /\ version' = version + 1 /\ version' \in Nat /\ version \in Nat
        /\ object'.version = version + 1
        /\ object'.cert = object'.key
    BY StoreFacts DEF Inv, TypeOK
  <1>2. TypeOK'
    BY <1>1 DEF Inv, TypeOK
  <1>3. ReadFirst'
    BY DEF Inv, ReadFirst
  <1>4. Paired'
    BY <1>1 DEF Inv, Paired, PairMatches
  <1>5. ASSUME NEW c \in Calls, existing[c] # None
        PROVE  existing[c].version \in Nat /\ existing[c].version <= version
    BY <1>5 DEF Inv, TypeOK, VersionsTell, Object
  <1>6. VersionsTell'
    BY <1>1, <1>5 DEF VersionsTell
  <1> QED
    BY <1>2, <1>3, <1>4, <1>6 DEF Inv

\* A request that comes to nothing changes the call alone.
LEMMA RefusalKeeps ==
    ASSUME Inv, UNCHANGED <<object, version, existing>>,
           pc' \in [Calls -> {"get", "create", "update", "ok", "failed"}],
           \A c \in Calls : pc'[c] = "update" => pc[c] = "update"
    PROVE  Inv'
  BY DEF Inv, TypeOK, ReadFirst, Paired, PairMatches, VersionsTell

\* What the answer to a request does to the program counters.
LEMMA Answers ==
    ASSUME TypeOK, NEW d \in Calls, NEW a \in {"ok", "failed"}, Return(d, a)
    PROVE  /\ pc' \in [Calls -> {"get", "create", "update", "ok", "failed"}]
           /\ \A c \in Calls : pc'[c] = "update" => pc[c] = "update"
  BY DEF TypeOK, Return

LEMMA InvInit == Init => Inv
  BY DEF Init, Inv, TypeOK, ReadFirst, Paired, PairMatches, VersionsTell

LEMMA GetKeeps ==
    ASSUME Inv, NEW d \in Calls, Get(d)
    PROVE  Inv'
  <1>1. CASE Return(d, "failed") /\ UNCHANGED existing
    BY <1>1, Answers, RefusalKeeps DEF Get, Inv
  <1>2. CASE /\ existing' = [existing EXCEPT ![d] = object]
             /\ Return(d, IF object = None THEN "create" ELSE "update")
    <2>1. UNCHANGED <<object, version>>
      BY DEF Get
    <2>2. TypeOK'
      BY <1>2, <2>1 DEF Inv, TypeOK, Return
    <2>3. \A c \in Calls : existing'[c] = IF c = d THEN object ELSE existing[c]
      BY <1>2 DEF Inv, TypeOK
    <2>4. \A c \in Calls : c # d => pc'[c] = pc[c]
      BY <1>2 DEF Inv, TypeOK, Return
    <2>5. pc'[d] = "update" => object # None
      BY <1>2 DEF Inv, TypeOK, Return
    <2>6. ReadFirst'
      BY <2>3, <2>4, <2>5 DEF Inv, ReadFirst
    <2>7. Paired'
      BY <2>1, <2>3 DEF Inv, Paired, PairMatches
    <2>8. VersionsTell'
      BY <2>1, <2>3 DEF Inv, VersionsTell
    <2> QED
      BY <2>2, <2>6, <2>7, <2>8 DEF Inv
  <1> QED
    BY <1>1, <1>2 DEF Get

\* An answer, whichever it is, is one of the two Return steps.
LEMMA AnsweredFacts ==
    ASSUME NEW c \in Calls, NEW secret, Answered(c, secret)
    PROVE  Store(secret) /\ \E a \in {"ok", "failed"} : Return(c, a)
  BY DEF Answered, Return

LEMMA CreateKeeps ==
    ASSUME Inv, NEW d \in Calls, Create(d)
    PROVE  Inv'
  <1>1. CASE Answered(d, NewSecret(d))
    BY <1>1, AnsweredFacts, NewSecretFacts, Answers, StoreKeeps DEF Create, Inv
  <1>2. CASE Return(d, "failed") /\ UNCHANGED <<object, version>>
    BY <1>2, Answers, RefusalKeeps DEF Create, Inv
  <1> QED
    BY <1>1, <1>2 DEF Create

LEMMA UpdateKeeps ==
    ASSUME Inv, NEW d \in Calls, Update(d)
    PROVE  Inv'
  <1>1. CASE Answered(d, Replacement(d))
    <2>1. Replacement(d) \in Object /\ Replacement(d).cert = Replacement(d).key
      BY ReplacementFacts DEF Update
    <2> QED
      BY <1>1, <2>1, AnsweredFacts, Answers, StoreKeeps DEF Update, Inv
  <1>2. CASE Return(d, "failed") /\ UNCHANGED <<object, version>>
    BY <1>2, Answers, RefusalKeeps DEF Update, Inv
  <1> QED
    BY <1>1, <1>2 DEF Update

LEMMA OthersKeep ==
    ASSUME Inv,
           \/ \E tls \in BOOLEAN, extra \in Extras : ForeignWrite(tls, extra)
           \/ \E extra \in Extras : ForeignEdit(extra)
           \/ ForeignDelete
    PROVE  Inv'
  <1> DEFINE Written(tls, extra) ==
        [version |-> 0, tls |-> tls, cert |-> Foreign, key |-> Foreign, extra |-> extra]
             Edited(extra) == [object EXCEPT !.extra = extra]
  <1>0. pc \in [Calls -> {"get", "create", "update", "ok", "failed"}]
    BY DEF Inv, TypeOK
  <1>1. ASSUME NEW tls \in BOOLEAN, NEW extra \in Extras, ForeignWrite(tls, extra)
        PROVE  Inv'
    <2>1. Written(tls, extra) \in Object /\ Written(tls, extra).cert = Written(tls, extra).key
      BY DEF Object, Owners
    <2>2. Store(Written(tls, extra)) /\ UNCHANGED <<pc, existing>>
      BY <1>1 DEF ForeignWrite
    <2> QED
      BY <1>0, <2>1, <2>2, StoreKeeps
  <1>2. ASSUME NEW extra \in Extras, ForeignEdit(extra)
        PROVE  Inv'
    <2>1. object \in Object /\ object.cert = object.key
      BY <1>2 DEF ForeignEdit, Inv, TypeOK, Paired, PairMatches
    <2>2. Edited(extra) \in Object /\ Edited(extra).cert = Edited(extra).key
      BY <2>1 DEF Object
    <2>3. Store(Edited(extra)) /\ UNCHANGED <<pc, existing>>
      BY <1>2 DEF ForeignEdit
    <2> QED
      BY <1>0, <2>2, <2>3, StoreKeeps
  <1>3. ASSUME ForeignDelete
        PROVE  Inv'
    BY <1>3 DEF ForeignDelete, Inv, TypeOK, ReadFirst, Paired, PairMatches, VersionsTell
  <1> QED
    BY <1>1, <1>2, <1>3

LEMMA InvNext == Inv /\ [Next]_vars => Inv'
  <1> SUFFICES ASSUME Inv, [Next]_vars PROVE Inv'
    OBVIOUS
  <1>1. CASE UNCHANGED vars
    BY <1>1, RefusalKeeps DEF vars, Inv, TypeOK
  <1>2. CASE Next
    BY <1>2, GetKeeps, CreateKeeps, UpdateKeeps, OthersKeep DEF Next
  <1> QED
    BY <1>1, <1>2

LEMMA Invariance == Spec => []Inv
  BY InvInit, InvNext, PTL DEF Spec

\* Every variable of the client and of the Secret keeps its type.
THEOREM TypeCorrect == Spec => []TypeOK
  BY Invariance, PTL DEF Inv

\* The certificate and the key in the Secret always belong together, although
\* calls and other users write it in any order (secret_client.go:76).
THEOREM PairMatchesEver == Spec => []PairMatches
  <1>1. Inv => PairMatches
    BY DEF Inv, Paired
  <1> QED
    BY <1>1, Invariance, PTL

\* No step of a call drops what others have put into the Secret, even if they
\* did so after the call had read it (secret_client.go:79).
THEOREM OthersKeptEver == Spec => OthersKept
  <1> DEFINE Kept == pc' # pc /\ object # None => object' # None /\ object'.extra = object.extra
  <1>1. ASSUME Inv, Next PROVE Kept
    <2> SUFFICES ASSUME pc' # pc, object # None
                 PROVE  object' # None /\ object'.extra = object.extra
      OBVIOUS
    <2>1. PICK c \in Calls : Get(c) \/ Create(c) \/ Update(c)
      BY <1>1 DEF Next, ForeignWrite, ForeignEdit, ForeignDelete
    <2>2. CASE UNCHANGED object
      BY <2>2
    <2>3. CASE Update(c) /\ Accepted(Replacement(c)) /\ Store(Replacement(c))
      <3>1. object = existing[c] /\ Replacement(c).extra = existing[c].extra
            /\ Replacement(c) \in Object
        BY <1>1, <2>3, ReplacementFacts DEF Update
      <3> QED
        BY <1>1, <2>3, <3>1, StoreFacts DEF Inv
    <2> QED
      BY <2>1, <2>2, <2>3 DEF Get, Create, Update, Answered
  <1>2. Inv /\ [Next]_vars => [Kept]_vars
    BY <1>1
  <1> QED
    BY <1>2, Invariance, PTL DEF Spec, OthersKept

-----------------------------------------------------------------------------
Held   == IF object = None THEN None ELSE object.cert
Status == [c \in Calls |-> IF pc[c] \in {"ok", "failed"} THEN pc[c] ELSE "pending"]

\* A call that returns is one that was pending, and no other call's answer changes.
LEMMA StatusReturn ==
    ASSUME TypeOK, NEW c \in Calls, pc[c] \in {"get", "create", "update"},
           NEW a \in {"ok", "failed"}, Return(c, a)
    PROVE  Atomic!Return(c, a)
  BY DEF TypeOK, Return, Atomic!Return

\* Every write a call makes is the atomic one.
LEMMA StoreIsPut ==
    ASSUME Inv, NEW c \in Calls, NEW secret \in Object, secret.cert = c,
           pc[c] \in {"create", "update"}, Answered(c, secret)
    PROVE  Atomic!Put(c) \/ Atomic!Fail(c)
  <1>1. object' # None /\ object'.cert = c
    BY AnsweredFacts, StoreFacts DEF Inv
  <1>2. PICK a \in {"ok", "failed"} : Return(c, a)
    BY AnsweredFacts
  <1>3. Atomic!Return(c, a)
    BY <1>2, StatusReturn DEF Inv
  <1> QED
    BY <1>1, <1>3 DEF Atomic!Put, Atomic!Fail

LEMMA RefusalIsFail ==
    ASSUME Inv, NEW c \in Calls, pc[c] \in {"get", "create", "update"},
           Return(c, "failed"), UNCHANGED object
    PROVE  Atomic!Fail(c)
  BY StatusReturn DEF Inv, Atomic!Fail

\* UpsertTLSSecret behaves as a call that takes effect at one moment and that
\* has done so when it returns nil (secret_client.go:50).
THEOREM Implementation == Spec => RefinesAtomic
  <1>1. Init => Atomic!Init
    BY DEF Init, Atomic!Init
  <1>2. Inv /\ [Next]_vars => [Atomic!Next]_<<Held, Status>>
    <2> SUFFICES ASSUME Inv, [Next]_vars PROVE [Atomic!Next]_<<Held, Status>>
      OBVIOUS
    <2>1. CASE UNCHANGED vars
      BY <2>1 DEF vars, Held, Status
    <2>2. ASSUME NEW c \in Calls, Get(c) PROVE [Atomic!Next]_<<Held, Status>>
      <3>1. CASE Return(c, "failed") /\ UNCHANGED existing
        BY <2>2, <3>1, RefusalIsFail DEF Get, Atomic!Next
      <3>2. CASE Return(c, IF object = None THEN "create" ELSE "update")
        BY <2>2, <3>2 DEF Get, Return, Inv, TypeOK, Held, Status
      <3> QED
        BY <2>2, <3>1, <3>2 DEF Get
    <2>3. ASSUME NEW c \in Calls, Create(c) PROVE [Atomic!Next]_<<Held, Status>>
      <3>1. CASE Answered(c, NewSecret(c))
        BY <2>3, <3>1, NewSecretFacts, StoreIsPut DEF Create, Atomic!Next
      <3>2. CASE Return(c, "failed") /\ UNCHANGED <<object, version>>
        BY <2>3, <3>2, RefusalIsFail DEF Create, Atomic!Next
      <3> QED
        BY <2>3, <3>1, <3>2 DEF Create
    <2>4. ASSUME NEW c \in Calls, Update(c) PROVE [Atomic!Next]_<<Held, Status>>
      <3>1. CASE Answered(c, Replacement(c))
        <4>1. Replacement(c) \in Object /\ Replacement(c).cert = c
          BY <2>4, ReplacementFacts DEF Update
        <4> QED
          BY <2>4, <3>1, <4>1, StoreIsPut DEF Update, Atomic!Next
      <3>2. CASE Return(c, "failed") /\ UNCHANGED <<object, version>>
        BY <2>4, <3>2, RefusalIsFail DEF Update, Atomic!Next
      <3> QED
        BY <2>4, <3>1, <3>2 DEF Update
    <2>5. ASSUME NEW tls \in BOOLEAN, NEW extra \in Extras, ForeignWrite(tls, extra)
          PROVE  Atomic!Next
      BY <2>5, ValuesAssumption DEF ForeignWrite, Store, Object, Atomic!Next, Atomic!Others
    <2>6. ASSUME NEW extra \in Extras, ForeignEdit(extra)
          PROVE  UNCHANGED <<Held, Status>>
      <3>1. object \in Object
        BY <2>6 DEF ForeignEdit, Inv, TypeOK
      <3> DEFINE edited == [object EXCEPT !.extra = extra]
      <3>2. edited \in Object /\ edited.cert = object.cert
        BY <3>1 DEF Object
      <3>3. Store(edited)
        BY <2>6 DEF ForeignEdit
      <3> HIDE DEF edited
      <3>4. object' # None /\ object'.cert = object.cert
        BY <3>2, <3>3, StoreFacts DEF Inv
      <3> QED
        BY <2>6, <3>4 DEF ForeignEdit, Held, Status
    <2>7. ASSUME ForeignDelete PROVE Atomic!Next
      BY <2>7 DEF ForeignDelete, Atomic!Next, Atomic!Others
    <2> QED
      BY <2>1, <2>2, <2>3, <2>4, <2>5, <2>6, <2>7 DEF Next
  <1> QED
    BY <1>1, <1>2, Invariance, PTL DEF Spec, RefinesAtomic, Atomic!Spec, Held, Status
=============================================================================
