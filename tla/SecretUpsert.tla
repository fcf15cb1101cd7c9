----------------------------- MODULE SecretUpsert -----------------------------
(***************************************************************************)
(* UpsertTLSSecret of internal/adapters/k8s/secret_client.go for one       *)
(* namespace and name: Get, then Create or Update, while other runs of the *)
(* service and other users of the cluster work on the same Secret.  The    *)
(* API server refuses to create what exists, to update what has changed    *)
(* since it was read (the object carries its resourceVersion) and to       *)
(* change the type of a Secret.  Operators named Bug... are faults a       *)
(* change of the code could introduce; no other definition uses them.      *)
(***************************************************************************)
EXTENDS Integers

CONSTANTS Calls,       \* calls of UpsertTLSSecret, each with a certificate of its own
          Foreign,     \* a certificate others put there
          Extras,      \* what else a Secret may carry: labels, further data keys
          NoExtra,     \* nothing else
          MaxVersion,  \* bounds the changes others make
          None         \* no object

Owners == Calls \cup {Foreign}

\* tls is the type: kubernetes.io/tls or another.
Object == [version : Nat, tls : BOOLEAN, cert : Owners, key : Owners, extra : Extras]

ASSUME ValuesAssumption ==
    /\ None \notin Object /\ None \notin Owners
    /\ Foreign \notin Calls /\ NoExtra \in Extras /\ MaxVersion \in Nat

VARIABLES
    object,   \* the Secret
    version,  \* the last resourceVersion handed out
    pc,       \* the next request of each call
    existing  \* what its Get returned

vars == <<object, version, pc, existing>>

Init ==
    /\ object   = None
    /\ version  = 0
    /\ pc       = [c \in Calls |-> "get"]
    /\ existing = [c \in Calls |-> None]

Return(c, answer) == pc' = [pc EXCEPT ![c] = answer]

Store(secret) ==
    /\ version' = version + 1
    /\ object' = [secret EXCEPT !.version = version + 1]

\* Without a client (main.go) every call ends here with an error.
Get(c) ==
    /\ pc[c] = "get"
    /\ \/ /\ existing' = [existing EXCEPT ![c] = object]
          /\ Return(c, IF object = None THEN "create" ELSE "update")
       \/ Return(c, "failed") /\ UNCHANGED existing
    /\ UNCHANGED <<object, version>>

\* A request takes effect and is answered, or an error is returned all the same.
Answered(c, secret) == Store(secret) /\ pc' \in {[pc EXCEPT ![c] = a] : a \in {"ok", "failed"}}

BugNoKey(c)  == [version |-> 0, tls |-> TRUE, cert |-> c, key |-> None, extra |-> NoExtra]
NewSecret(c) == [version |-> 0, tls |-> TRUE, cert |-> c, key |-> c, extra |-> NoExtra]

Create(c) ==
    /\ pc[c] = "create"
    /\ \/ object = None /\ Answered(c, NewSecret(c))
       \/ Return(c, "failed") /\ UNCHANGED <<object, version>>
    /\ UNCHANGED existing

\* What Update sends: the object as it was read, with the pair replaced.
BugFreshObject(c) == [NewSecret(c) EXCEPT !.version = object.version]
BugCertOnly(c)    == [existing[c] EXCEPT !.tls = TRUE, !.cert = c]
Replacement(c) == [existing[c] EXCEPT !.tls = TRUE, !.cert = c, !.key = c]

\* resourceVersion is sent back and compared, and the type is immutable.
Accepted(secret) ==
    object # None /\ object.version = secret.version /\ object.tls = secret.tls

BugErrorIgnored(c) ==                \* the error of Update is dropped
    /\ pc[c] = "update"
    /\ IF Accepted(Replacement(c)) THEN Store(Replacement(c)) ELSE UNCHANGED <<object, version>>
    /\ Return(c, "ok")
    /\ UNCHANGED existing
Update(c) ==
    /\ pc[c] = "update"
    /\ \/ Accepted(Replacement(c)) /\ Answered(c, Replacement(c))
       \/ Return(c, "failed") /\ UNCHANGED <<object, version>>
    /\ UNCHANGED existing

\* Other users of the cluster create, edit and delete Secrets.
ForeignWrite(tls, extra) ==
    /\ version < MaxVersion
    /\ object # None => object.tls = tls
    /\ Store([version |-> 0, tls |-> tls, cert |-> Foreign, key |-> Foreign, extra |-> extra])
    /\ UNCHANGED <<pc, existing>>

ForeignEdit(extra) ==
    /\ version < MaxVersion
    /\ object # None
    /\ Store([object EXCEPT !.extra = extra])
    /\ UNCHANGED <<pc, existing>>

ForeignDelete ==
    /\ object # None
    /\ object' = None
    /\ UNCHANGED <<version, pc, existing>>

Next ==
    \/ \E c \in Calls : Get(c) \/ Create(c) \/ Update(c)
    \/ \E tls \in BOOLEAN, extra \in Extras : ForeignWrite(tls, extra)
    \/ \E extra \in Extras : ForeignEdit(extra)
    \/ ForeignDelete

Spec == Init /\ [][Next]_vars

-----------------------------------------------------------------------------
TypeOK ==
    /\ object \in Object \cup {None}
    /\ version \in Nat
    /\ pc \in [Calls -> {"get", "create", "update", "ok", "failed"}]
    /\ existing \in [Calls -> Object \cup {None}]

\* The certificate and the key in a Secret belong together, whichever calls and
\* users have written it in whichever order.
PairMatches == object # None => object.cert = object.key

\* A call replaces the pair and nothing else: labels and data keys others have
\* put into the Secret survive it, even those they put there after its Get.
OthersKept ==
    [][pc' # pc /\ object # None => object' # None /\ object'.extra = object.extra]_vars

\* Each call has its effect at one moment, and a call that returns nil has had
\* it: CertService may take PushSecret for one step.
Atomic == INSTANCE AtomicSecret WITH
    held   <- IF object = None THEN None ELSE object.cert,
    status <- [c \in Calls |-> IF pc[c] \in {"ok", "failed"} THEN pc[c] ELSE "pending"]

RefinesAtomic == Atomic!Spec

\* What makes a resourceVersion worth comparing: it is given out once.
VersionsTell ==
    /\ object # None => object.version <= version
    /\ \A c \in Calls :
          existing[c] # None =>
              /\ existing[c].version <= version
              /\ object # None /\ object.version = existing[c].version => object = existing[c]
=============================================================================
