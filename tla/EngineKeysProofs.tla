--------------------------- MODULE EngineKeysProofs ---------------------------
(***************************************************************************)
(* The keys of an engine share one secret, and its replicas follow them,   *)
(* for any number of addresses, secrets, steps, devices and writes.        *)
(*                                                                         *)
(* Both need that whatever the engine or the application refers to is in   *)
(* the heap, so that a new key's address is nobody's, and that a replica   *)
(* is never of a later version than its key, so that a write outdates it.  *)
(*                                                                         *)
(* And the search for a rotation path finds a shortest one, for any number *)
(* of slots and any steps: residues are reached in the order of their      *)
(* distance, and who is done with leads to nobody unknown.                 *)
(***************************************************************************)
EXTENDS EngineKeys, FiniteSetTheorems, WellFoundedInduction, TLAPS

Engines ==
    [secret : Addresses \cup {None}, public : Addresses \cup {None},
     evaluation : [EvaluationRoles -> Addresses \cup {None}],
     bound : [Symbols -> Addresses \cup {None}]]

Replicas == [at : Addresses, version : 0 .. MaxVersion, device : Devices, of : Keys]

TypeOK ==
    /\ heap \in [Addresses -> Keys \cup {None}]
    /\ held \subseteq Addresses
    /\ engine \in Engines
    /\ replicas \subseteq Replicas
    /\ adrift \in BOOLEAN

Alive(keys, refs, e) == \A a \in refs \cup Owned(e) : keys[a] \in Keys

OneSecret(keys, e) == \A a, b \in Owned(e) : keys[a].secret = keys[b].secret

Follows(r, keys, e) ==
    /\ r.at \in Owned(e)
    /\ r.version <= keys[r.at].version
    /\ r.version = keys[r.at].version => r.of = keys[r.at]

Follow(keys, e, rs) ==
    Installed(e) \subseteq Bound(e) /\ \A r \in rs : Follows(r, keys, e)

IInv ==
    /\ TypeOK
    /\ Alive(heap, held, engine)
    /\ OneSecret(heap, engine)
    /\ ~adrift => Follow(heap, engine, replicas)

-----------------------------------------------------------------------------
(* Engines *)

LEMMA OwnedIsTyped == ASSUME NEW e \in Engines PROVE Owned(e) \subseteq Addresses
BY DEF Engines, Owned, Installed, Bound

LEMMA OwnedByRole ==
    ASSUME NEW e \in Engines, NEW a
    PROVE  a \in Owned(e) <=>
             /\ a # None
             /\ \/ a = e.secret
                \/ a = e.public
                \/ \E r \in EvaluationRoles : a = e.evaluation[r]
                \/ \E s \in Symbols : a = e.bound[s]
BY DEF Owned, Installed, Bound

\* Collecting what nobody refers to leaves the rest as it was.
LEMMA Collected ==
    ASSUME NEW keys \in [Addresses -> Keys \cup {None}], NEW refs \in SUBSET Addresses,
           NEW e \in Engines, NEW rs \in SUBSET Replicas,
           TypeOK,
           Alive(keys, refs, e), OneSecret(keys, e),
           ~adrift /\ Installed(e) \subseteq Bound(e) => \A r \in rs : Follows(r, keys, e),
           Becomes(keys, refs, e, rs)
    PROVE  IInv'
<1>1. \A a \in refs \cup Owned(e) : a \in Addresses /\ heap'[a] = keys[a]
  BY OwnedIsTyped DEF Becomes
<1>2. TypeOK'
  BY DEF TypeOK, Becomes
<1>3. Alive(heap', held', engine')
  BY <1>1 DEF Alive, Becomes
<1>4. OneSecret(heap', engine')
  BY <1>1 DEF OneSecret, Becomes
<1>5. ~adrift' => Follow(heap', engine', replicas')
  <2>1. engine' = e /\ replicas' = rs /\ (adrift' = (adrift \/ ~(Installed(e) \subseteq Bound(e))))
    BY DEF Becomes
  <2>2. ASSUME NEW r, Follows(r, keys, e) PROVE Follows(r, heap', e)
    BY <1>1, <2>2 DEF Follows
  <2> QED
    BY <2>1, <2>2 DEF Follow
<1> QED
  BY <1>2, <1>3, <1>4, <1>5 DEF IInv, Alive, OneSecret, Follow, Follows, Owned, Installed, Bound
-----------------------------------------------------------------------------
(* Engines that change *)

LEMMA WithEvaluationKeyOwns ==
    ASSUME NEW e \in Engines, NEW symbol \in Symbols, NEW role \in EvaluationRoles,
           NEW a \in Addresses
    PROVE  /\ WithEvaluationKey(e, symbol, role, a) \in Engines
           /\ Owned(WithEvaluationKey(e, symbol, role, a)) \subseteq Owned(e) \cup {a}
           /\ WithEvaluationKey(e, symbol, role, a).secret = e.secret
           /\ WithEvaluationKey(e, symbol, role, a).public = e.public
           /\ WithEvaluationKey(e, symbol, role, a).evaluation[role] = a
           /\ \A r \in EvaluationRoles \ {role} :
                 WithEvaluationKey(e, symbol, role, a).evaluation[r] = e.evaluation[r]
           /\ \A s \in Symbols \ {symbol} :
                 WithEvaluationKey(e, symbol, role, a).bound[s] = e.bound[s]
<1> DEFINE f == WithEvaluationKey(e, symbol, role, a)
<1>1. /\ f \in Engines /\ f.secret = e.secret /\ f.public = e.public
      /\ f.evaluation = [e.evaluation EXCEPT ![role] = a]
      /\ f.bound = [e.bound EXCEPT ![symbol] = a]
  BY DEF WithEvaluationKey, Engines
<1>2. e.evaluation \in [EvaluationRoles -> Addresses \cup {None}] /\ e.bound \in [Symbols -> Addresses \cup {None}]
  BY DEF Engines
<1>3. Owned(f) \subseteq Owned(e) \cup {a}
  BY <1>1, <1>2, OwnedByRole
<1> QED
  BY <1>1, <1>2, <1>3

\* The key a new one displaces is still owned, or has lost its replicas.
LEMMA DisplacedLosesReplicas ==
    ASSUME NEW e \in Engines, NEW symbol \in Symbols, NEW role \in EvaluationRoles,
           NEW a \in Addresses, NEW rs \in SUBSET Replicas,
           Installed(e) \subseteq Bound(e),
           NEW r \in Rebind(rs, e, symbol, a), r.at \in Owned(e)
    PROVE  r \in rs /\ r.at \in Owned(WithEvaluationKey(e, symbol, role, a))
<1> DEFINE f == WithEvaluationKey(e, symbol, role, a)
<1>1. r \in rs /\ r.at \in Addresses /\ r.at # None
  BY KeyAssumption DEF Rebind, DiscardReplicas, Replicas
<1>2. e.bound[symbol] = r.at => r.at = a
  BY <1>1 DEF Rebind, DiscardReplicas
<1>3. a # None
  BY KeyAssumption
<1>4. r.at = a => r.at \in Owned(f)
  BY <1>3, WithEvaluationKeyOwns, OwnedByRole
<1>5. ASSUME NEW s \in Symbols, r.at = e.bound[s] PROVE r.at \in Owned(f)
  BY <1>1, <1>2, <1>4, <1>5, WithEvaluationKeyOwns, OwnedByRole
<1>6. ASSUME NEW t \in EvaluationRoles, r.at = e.evaluation[t] PROVE r.at \in Owned(f)
  <2>1. r.at \in Bound(e)
    BY <1>1, <1>6 DEF Installed
  <2> QED
    BY <2>1, <1>5 DEF Bound
<1>7. r.at = e.secret \/ r.at = e.public => r.at \in Owned(f)
  BY <1>1, WithEvaluationKeyOwns, OwnedByRole
<1> QED
  BY <1>1, <1>5, <1>6, <1>7, OwnedByRole

LEMMA WithoutSymbolOwns ==
    ASSUME NEW e \in Engines, NEW symbol \in Symbols
    PROVE  /\ WithoutSymbol(e, symbol) \in Engines
           /\ Owned(WithoutSymbol(e, symbol)) \subseteq Owned(e)
           /\ Owned(e) \subseteq Owned(WithoutSymbol(e, symbol)) \cup {e.bound[symbol]}
           /\ WithoutSymbol(e, symbol).secret = e.secret
           /\ WithoutSymbol(e, symbol).public = e.public
           /\ WithoutSymbol(e, symbol).bound = [e.bound EXCEPT ![symbol] = None]
           /\ \A r \in EvaluationRoles \ {symbol} :
                 WithoutSymbol(e, symbol).evaluation[r] = e.evaluation[r]
<1> DEFINE f == WithoutSymbol(e, symbol)
           u == [e EXCEPT !.bound[symbol] = None]
<1>1. e.evaluation \in [EvaluationRoles -> Addresses \cup {None}] /\ e.bound \in [Symbols -> Addresses \cup {None}]
  BY DEF Engines
<1>2. /\ u \in Engines /\ u.secret = e.secret /\ u.public = e.public
      /\ u.evaluation = e.evaluation /\ u.bound = [e.bound EXCEPT ![symbol] = None]
  BY DEF Engines
<1>3. f = u \/ (e.evaluation[symbol] = e.bound[symbol] /\ f = [u EXCEPT !.evaluation[symbol] = None])
  BY DEF WithoutSymbol
<1>4. /\ f \in Engines /\ f.secret = e.secret /\ f.public = e.public /\ f.bound = u.bound
      /\ \/ f.evaluation = e.evaluation
         \/ /\ e.evaluation[symbol] = e.bound[symbol]
            /\ f.evaluation = [e.evaluation EXCEPT ![symbol] = None]
  <2>1. CASE f = u
    BY <1>2, <2>1
  <2>2. CASE /\ e.evaluation[symbol] = e.bound[symbol]
             /\ f = [u EXCEPT !.evaluation[symbol] = None]
    <3> HIDE DEF u
    <3>1. /\ f.evaluation = [u.evaluation EXCEPT ![symbol] = None]
          /\ f.secret = u.secret /\ f.public = u.public /\ f.bound = u.bound
          /\ f \in Engines
      BY <1>2, <2>2 DEF Engines
    <3> QED
      BY <1>2, <2>2, <3>1
  <2> QED
    BY <1>3, <2>1, <2>2
<1>5. Owned(f) \subseteq Owned(e)
  BY <1>1, <1>2, <1>4, OwnedByRole
<1>6. ASSUME NEW x \in Owned(e), x # e.bound[symbol] PROVE x \in Owned(f)
  <2>1. ASSUME NEW s \in Symbols, x = e.bound[s] PROVE x = f.bound[s]
    BY <1>1, <1>2, <1>4, <1>6, <2>1
  <2>2. ASSUME NEW t \in EvaluationRoles, x = e.evaluation[t] PROVE x = f.evaluation[t]
    BY <1>1, <1>4, <1>6, <2>2
  <2>3. x # None
    BY OwnedByRole
  <2>4. x = e.secret \/ x = e.public \/ (\E t \in EvaluationRoles : x = e.evaluation[t])
        \/ (\E s \in Symbols : x = e.bound[s])
    BY OwnedByRole
  <2>5. \/ x = f.secret \/ x = f.public
        \/ \E t \in EvaluationRoles : x = f.evaluation[t]
        \/ \E s \in Symbols : x = f.bound[s]
    BY <1>4, <2>1, <2>2, <2>4
  <2> HIDE DEF f
  <2> QED
    BY <1>4, <2>3, <2>5, OwnedByRole
<1> QED
  BY <1>1, <1>2, <1>4, <1>5, <1>6
LEMMA OnlyASecret ==
    ASSUME NEW e, NEW a \in Addresses \cup {None}
    PROVE  /\ WithSecret(e, a) \in Engines
           /\ WithSecret(e, a).secret = a
           /\ Owned(WithSecret(e, a)) \subseteq {a} \ {None}
           /\ Installed(WithSecret(e, a)) = {}
BY DEF WithSecret, NoEngineKeys, NoKeys, NoSymbols, Engines, Owned, Installed, Bound

-----------------------------------------------------------------------------
(* The application *)

LEMMA Initially == Init => IInv
<1>1. NoEngineKeys \in Engines /\ Owned(NoEngineKeys) = {} /\ Installed(NoEngineKeys) = {}
  BY DEF NoEngineKeys, NoKeys, NoSymbols, Engines, Owned, Installed, Bound
<1> SUFFICES ASSUME Init PROVE IInv
  OBVIOUS
<1>2. engine = NoEngineKeys /\ held = {} /\ replicas = {} /\ heap = [a \in Addresses |-> None]
      /\ adrift = FALSE
  BY DEF Init
<1>3. TypeOK
  BY <1>1, <1>2 DEF TypeOK
<1>4. Alive(heap, held, engine) /\ OneSecret(heap, engine) /\ Follow(heap, engine, replicas)
  BY <1>1, <1>2 DEF Alive, OneSecret, Follow
<1> QED
  BY <1>3, <1>4 DEF IInv

LEMMA Shapes ==
    ASSUME IInv
    PROVE  /\ heap \in [Addresses -> Keys \cup {None}]
           /\ held \in SUBSET Addresses
           /\ engine \in Engines
           /\ replicas \in SUBSET Replicas
           /\ TypeOK
BY DEF IInv, TypeOK

\* The address of a new key was nobody's.
LEMMA FreshIsNobodys ==
    ASSUME IInv, NEW a \in FreeAddresses
    PROVE  a \in Addresses /\ a # None /\ a \notin held /\ a \notin Owned(engine)
BY KeyAssumption DEF FreeAddresses, IInv, Alive

LEMMA NewKeyIsKey ==
    ASSUME NEW role \in Roles, NEW s \in Secrets PROVE NewKey(role, s) \in Keys
BY KeyAssumption DEF NewKey, Keys

LEMMA CreateKeeps ==
    ASSUME IInv, NEW role \in Roles, NEW s \in Secrets, Create(role, s) PROVE IInv'
<1>1. PICK a \in FreeAddresses :
        Becomes([heap EXCEPT ![a] = NewKey(role, s)], held \cup {a}, engine, replicas)
  BY DEF Create
<1> DEFINE keys == [heap EXCEPT ![a] = NewKey(role, s)]
<1>2. a \in Addresses /\ a \notin Owned(engine) /\ NewKey(role, s) \in Keys
  BY FreshIsNobodys, NewKeyIsKey
<1>3. keys \in [Addresses -> Keys \cup {None}] /\ keys[a] \in Keys
      /\ \A b \in Addresses \ {a} : keys[b] = heap[b]
  BY <1>2, Shapes
<1>4. \A b \in Owned(engine) : b \in Addresses \ {a}
  BY <1>2, OwnedIsTyped, Shapes
<1>5. Alive(keys, held \cup {a}, engine)
  BY <1>3, <1>4, Shapes DEF Alive, IInv
<1>6. OneSecret(keys, engine)
  BY <1>3, <1>4 DEF OneSecret, IInv
<1>7. ~adrift => \A r \in replicas : Follows(r, keys, engine)
  BY <1>3, <1>4 DEF IInv, Follow, Follows
<1> HIDE DEF keys
<1> QED
  BY <1>1, <1>2, <1>3, <1>5, <1>6, <1>7, Shapes, Collected DEF keys

LEMMA ForgetKeeps == ASSUME IInv, NEW a, Forget(a) PROVE IInv'
<1>1. Becomes(heap, held \ {a}, engine, replicas)
  BY DEF Forget
<1>2. Alive(heap, held \ {a}, engine) /\ OneSecret(heap, engine)
      /\ (~adrift => \A r \in replicas : Follows(r, heap, engine))
  BY DEF IInv, Alive, Follow
<1>3. held \ {a} \in SUBSET Addresses
  BY Shapes
<1> QED
  BY <1>1, <1>2, <1>3, Shapes, Collected

\* A write outdates the replicas of its key.
LEMMA WriteKeeps == ASSUME IInv, NEW a \in Addresses, Write(a) PROVE IInv'
<1> DEFINE keys == [heap EXCEPT ![a].version = @ + 1]
<1>1. Becomes(keys, held, engine, replicas) /\ a \in Owned(engine) /\ heap[a].version < MaxVersion
  BY DEF Write
<1>2. heap[a] \in Keys /\ \A b \in Owned(engine) : b \in Addresses /\ heap[b] \in Keys
  BY <1>1, OwnedIsTyped, Shapes DEF IInv, Alive
<1>3. /\ \A b \in Addresses \ {a} : keys[b] = heap[b]
      /\ keys[a] \in Keys
      /\ keys[a].version = heap[a].version + 1
      /\ keys[a].secret = heap[a].secret
      /\ keys \in [Addresses -> Keys \cup {None}]
  BY <1>1, <1>2, KeyAssumption, Shapes DEF Keys
<1> HIDE DEF keys
<1>4. Alive(keys, held, engine)
  BY <1>2, <1>3, Shapes DEF Alive, IInv
<1>5. OneSecret(keys, engine)
  BY <1>2, <1>3 DEF OneSecret, IInv
<1>6. ASSUME ~adrift, NEW r \in replicas PROVE Follows(r, keys, engine)
  <2>1. Follows(r, heap, engine) /\ r.version \in Nat /\ heap[r.at].version \in Nat /\ r.at \in Addresses
    BY <1>2, <1>6, KeyAssumption, Shapes DEF IInv, Follow, Follows, Replicas, Keys
  <2>2. CASE r.at = a
    BY <1>3, <2>1, <2>2 DEF Follows
  <2>3. CASE r.at # a
    BY <1>3, <2>1, <2>3 DEF Follows
  <2> QED
    BY <2>2, <2>3
<1> QED
  BY <1>1, <1>3, <1>4, <1>5, <1>6, Shapes, Collected

-----------------------------------------------------------------------------
(* Evaluation keys *)

LEMMA InstallEvaluationKeyKeeps ==
    ASSUME IInv, NEW symbol \in Symbols, NEW a \in Addresses, InstallEvaluationKey(symbol, a)
    PROVE  IInv'
<1> DEFINE role == heap[a].role
           e == WithEvaluationKey(engine, symbol, role, a)
           rs == Rebind(replicas, engine, symbol, a)
<1>1. /\ a \in held /\ role \in EvaluationRoles /\ Belongs(a)
      /\ Becomes(heap, held, e, rs)
  BY DEF InstallEvaluationKey
<1>2. e \in Engines /\ Owned(e) \subseteq Owned(engine) \cup {a}
  BY <1>1, Shapes, WithEvaluationKeyOwns
<1>3. rs \in SUBSET Replicas
  BY Shapes DEF Rebind, DiscardReplicas
<1>4. Alive(heap, held, e)
  BY <1>1, <1>2 DEF IInv, Alive
<1>5. OneSecret(heap, e)
  BY <1>1, <1>2 DEF IInv, OneSecret, Belongs
<1>6. ASSUME ~adrift, NEW r \in rs PROVE Follows(r, heap, e)
  <2>1. Installed(engine) \subseteq Bound(engine) /\ r \in replicas
    BY <1>6 DEF IInv, Follow, Rebind, DiscardReplicas
  <2>2. Follows(r, heap, engine)
    BY <1>6, <2>1 DEF IInv, Follow
  <2>3. r.at \in Owned(e)
    BY <1>1, <1>6, <2>1, <2>2, Shapes, DisplacedLosesReplicas DEF Follows
  <2> QED
    BY <2>2, <2>3 DEF Follows
<1> HIDE DEF e, rs
<1> QED
  BY <1>1, <1>2, <1>3, <1>4, <1>5, <1>6, Shapes, Collected

LEMMA RefuseEvaluationKeyKeeps ==
    ASSUME IInv, NEW symbol \in Symbols, RefuseEvaluationKey(symbol) PROVE IInv'
<1> DEFINE rs == Rebind(replicas, engine, symbol, None)
<1>1. rs \subseteq replicas /\ Becomes(heap, held, engine, rs)
  BY DEF RefuseEvaluationKey, Rebind, DiscardReplicas
<1>2. rs \in SUBSET Replicas /\ (~adrift => \A r \in rs : Follows(r, heap, engine))
  BY <1>1, Shapes DEF IInv, Follow
<1> HIDE DEF rs
<1> QED
  BY <1>1, <1>2, Shapes, Collected DEF IInv

LEMMA RemoveEvaluationKeyKeeps ==
    ASSUME IInv, NEW symbol \in Symbols, RemoveEvaluationKey(symbol) PROVE IInv'
<1> DEFINE e == WithoutSymbol(engine, symbol)
           rs == DiscardReplicas(replicas, engine.bound[symbol])
<1>1. Becomes(heap, held, e, rs)
  BY DEF RemoveEvaluationKey
<1>2. /\ e \in Engines /\ Owned(e) \subseteq Owned(engine)
      /\ Owned(engine) \subseteq Owned(e) \cup {engine.bound[symbol]}
  BY Shapes, WithoutSymbolOwns
<1>3. rs \in SUBSET Replicas /\ rs \subseteq replicas /\ \A r \in rs : r.at # engine.bound[symbol]
  BY Shapes DEF DiscardReplicas
<1>4. Alive(heap, held, e) /\ OneSecret(heap, e)
  BY <1>2 DEF IInv, Alive, OneSecret
<1>5. ~adrift => \A r \in rs : Follows(r, heap, e)
  BY <1>2, <1>3 DEF IInv, Follow, Follows
<1> HIDE DEF e, rs
<1> QED
  BY <1>1, <1>2, <1>3, <1>4, <1>5, Shapes, Collected

LEMMA ClearRelinearizationKeyKeeps == ASSUME IInv, ClearRelinearizationKey PROVE IInv'
<1> DEFINE u == WithoutSymbol(engine, Relinearization)
           e == [u EXCEPT !.evaluation[Relinearization] = None]
           rs == Rebind(replicas, engine, Relinearization, None)
<1>1. Becomes(heap, held, e, rs)
  BY DEF ClearRelinearizationKey
<1>2. Relinearization \in EvaluationRoles /\ Relinearization \in Symbols
  BY DEF EvaluationRoles, Symbols
<1>3. /\ u \in Engines /\ Owned(u) \subseteq Owned(engine)
      /\ u.secret = engine.secret /\ u.public = engine.public
      /\ u.bound = [engine.bound EXCEPT ![Relinearization] = None]
      /\ \A r \in EvaluationRoles \ {Relinearization} : u.evaluation[r] = engine.evaluation[r]
  BY <1>2, Shapes, WithoutSymbolOwns
<1> HIDE DEF u
<1>4. /\ e \in Engines /\ e.secret = u.secret /\ e.public = u.public /\ e.bound = u.bound
      /\ e.evaluation = [u.evaluation EXCEPT ![Relinearization] = None]
  BY <1>3 DEF Engines
<1>5. /\ u.evaluation \in [EvaluationRoles -> Addresses \cup {None}]
      /\ engine.bound \in [Symbols -> Addresses \cup {None}]
  BY <1>3, Shapes DEF Engines
<1> HIDE DEF e
<1>6. Owned(e) \subseteq Owned(u)
  BY <1>3, <1>4, <1>5, OwnedByRole
<1>7. rs \in SUBSET Replicas /\ rs \subseteq replicas
  BY Shapes DEF Rebind, DiscardReplicas
<1>8. Alive(heap, held, e) /\ OneSecret(heap, e)
  BY <1>3, <1>6 DEF IInv, Alive, OneSecret
<1>9. ASSUME ~adrift, NEW r \in rs PROVE Follows(r, heap, e)
  <2>1. Follows(r, heap, engine) /\ Installed(engine) \subseteq Bound(engine)
    BY <1>7, <1>9 DEF IInv, Follow
  <2>2. r.at \in Addresses /\ r.at # None /\ r.at \in Owned(engine)
    BY <1>7, <2>1, KeyAssumption DEF Replicas, Follows
  <2>3. engine.bound[Relinearization] # r.at
    BY <1>9, <2>2 DEF Rebind, DiscardReplicas
  <2>4. ASSUME NEW s \in Symbols, r.at = engine.bound[s] PROVE r.at \in Owned(e)
    <3>1. e.bound[s] = r.at
      BY <1>3, <1>4, <1>5, <2>3, <2>4
    <3> QED
      BY <1>4, <2>2, <3>1, OwnedByRole
  <2>5. ASSUME NEW t \in EvaluationRoles, r.at = engine.evaluation[t] PROVE r.at \in Owned(e)
    <3>1. r.at \in Bound(engine)
      BY <2>1, <2>2, <2>5 DEF Installed
    <3> QED
      BY <2>4, <3>1 DEF Bound
  <2>6. r.at = engine.secret \/ r.at = engine.public => r.at \in Owned(e)
    BY <1>3, <1>4, <2>2, OwnedByRole
  <2>7. r.at \in Owned(e)
    BY <2>2, <2>4, <2>5, <2>6, Shapes, OwnedByRole
  <2> QED
    BY <2>1, <2>7 DEF Follows
<1> HIDE DEF rs
<1> QED
  BY <1>1, <1>4, <1>7, <1>8, <1>9, Shapes, Collected
-----------------------------------------------------------------------------
(* Secret and public keys *)

\* An engine with no other key than its secret.
LEMMA NewSecretKeeps ==
    ASSUME IInv, NEW keys \in [Addresses -> Keys \cup {None}],
           NEW a \in Addresses \cup {None}, a # None => keys[a] \in Keys,
           \A b \in held : keys[b] = heap[b],
           Becomes(keys, held, WithSecret(engine, a), {})
    PROVE  IInv'
<1> DEFINE e == WithSecret(engine, a)
<1>1. e \in Engines /\ Owned(e) \subseteq {a} \ {None}
  BY OnlyASecret
<1>2. Alive(keys, held, e) /\ OneSecret(keys, e)
  BY <1>1 DEF IInv, Alive, OneSecret
<1>3. Becomes(keys, held, e, {}) /\ {} \in SUBSET Replicas /\ \A r \in {} : Follows(r, keys, e)
  OBVIOUS
<1> HIDE DEF e
<1> QED
  BY <1>1, <1>2, <1>3, Shapes, Collected

LEMMA SetSecretKeyKeeps ==
    ASSUME IInv, NEW a \in Addresses \cup {None}, SetSecretKey(a) PROVE IInv'
<1>1. (a # None => heap[a] \in Keys) /\ Becomes(heap, held, WithSecret(engine, a), {})
  BY DEF SetSecretKey, IInv, Alive
<1> QED
  BY <1>1, Shapes, NewSecretKeeps

LEMMA GenerateSecretKeeps == ASSUME IInv, GenerateSecret PROVE IInv'
<1>1. PICK a \in FreeAddresses, s \in Secrets :
        Becomes([heap EXCEPT ![a] = NewKey(SecretRole, s)], held, WithSecret(engine, a), {})
  BY DEF GenerateSecret
<1> DEFINE keys == [heap EXCEPT ![a] = NewKey(SecretRole, s)]
<1>2. a \in Addresses /\ a # None /\ a \notin held /\ NewKey(SecretRole, s) \in Keys
  BY FreshIsNobodys, NewKeyIsKey DEF Roles
<1>3. keys \in [Addresses -> Keys \cup {None}] /\ keys[a] \in Keys
      /\ \A b \in held : keys[b] = heap[b]
  BY <1>2, Shapes
<1> HIDE DEF keys
<1> QED
  BY <1>1, <1>2, <1>3, NewSecretKeeps DEF keys

\* Fewer keys and no replicas.
LEMMA RefuseSecretKeyKeeps == ASSUME IInv, RefuseSecretKey PROVE IInv'
<1> DEFINE e == [engine EXCEPT !.bound = NoSymbols]
<1>1. /\ e \in Engines /\ e.secret = engine.secret /\ e.public = engine.public
      /\ e.evaluation = engine.evaluation /\ e.bound = NoSymbols
  BY Shapes DEF Engines, NoSymbols
<1>2. Becomes(heap, held, e, {}) /\ {} \in SUBSET Replicas /\ \A r \in {} : Follows(r, heap, e)
  BY DEF RefuseSecretKey
<1> HIDE DEF e
<1>3. Owned(e) \subseteq Owned(engine)
  BY <1>1 DEF Owned, Installed, Bound, NoSymbols
<1>4. Alive(heap, held, e) /\ OneSecret(heap, e)
  BY <1>3 DEF IInv, Alive, OneSecret
<1> QED
  BY <1>1, <1>2, <1>4, Shapes, Collected

LEMMA WithPublicKeyOwns ==
    ASSUME NEW e \in Engines, NEW a \in Addresses \cup {None}
    PROVE  /\ [e EXCEPT !.public = a] \in Engines
           /\ Owned([e EXCEPT !.public = a]) \subseteq Owned(e) \cup ({a} \ {None})
           /\ Owned(e) \subseteq Owned([e EXCEPT !.public = a]) \cup {e.public}
           /\ Installed([e EXCEPT !.public = a]) = Installed(e)
BY DEF Engines, Owned, Installed, Bound

LEMMA SetPublicKeyKeeps ==
    ASSUME IInv, NEW a \in Addresses \cup {None}, SetPublicKey(a) PROVE IInv'
<1> DEFINE e == [engine EXCEPT !.public = a]
<1>1. e \in Engines /\ Owned(e) \subseteq Owned(engine) \cup ({a} \ {None})
  BY Shapes, WithPublicKeyOwns
<1>2. /\ a # None => a \in held /\ Belongs(a)
      /\ Becomes(heap, held, e, {})
      /\ {} \in SUBSET Replicas /\ \A r \in {} : Follows(r, heap, e)
  BY DEF SetPublicKey
<1> HIDE DEF e
<1>3. Alive(heap, held, e)
  BY <1>1, <1>2 DEF IInv, Alive
<1>4. OneSecret(heap, e)
  BY <1>1, <1>2 DEF IInv, OneSecret, Belongs
<1> QED
  BY <1>1, <1>2, <1>3, <1>4, Shapes, Collected

LEMMA RefusePublicKeyKeeps == ASSUME IInv, RefusePublicKey PROVE IInv'
<1>1. Becomes(heap, held, engine, {}) /\ {} \in SUBSET Replicas
      /\ \A r \in {} : Follows(r, heap, engine)
  BY DEF RefusePublicKey
<1> QED
  BY <1>1, Shapes, Collected DEF IInv

-----------------------------------------------------------------------------
(* Generated keys *)

GeneratedRoles == EvaluationRoles \cup {PublicRole}

\* A key derived from an engine's secret, at an address that was nobody's.
LEMMA DeriveKeeps ==
    ASSUME IInv, NEW role \in GeneratedRoles,
           NEW keys \in [Addresses -> Keys \cup {None}], NEW e \in Engines,
           NEW rs \in SUBSET Replicas, NEW a \in Addresses,
           e.secret # None, a \notin held, a \notin Owned(e),
           Alive(keys, held, e), OneSecret(keys, e),
           ~adrift => Follow(keys, e, rs),
           role = PublicRole => e.public = None,
           Derive(keys, e, rs, role, a)
    PROVE  IInv'
<1> DEFINE secret == keys[e.secret].secret
           made == [keys EXCEPT ![a] = NewKey(role, secret)]
<1>1. e.secret \in Owned(e) /\ keys[e.secret] \in Keys /\ secret \in Secrets
  BY DEF Owned, Alive, Keys
<1>2. NewKey(role, secret) \in Keys /\ NewKey(role, secret).secret = secret
  BY <1>1, NewKeyIsKey DEF GeneratedRoles, Roles, NewKey
<1>3. /\ made \in [Addresses -> Keys \cup {None}]
      /\ made[a] \in Keys /\ made[a].secret = secret
      /\ \A b \in Addresses \ {a} : made[b] = keys[b]
  BY <1>2
<1>4. \A b \in Owned(e) \cup held : b \in Addresses \ {a} /\ keys[b] \in Keys
  BY OwnedIsTyped, Shapes DEF Alive
<1>5. \A b \in Owned(e) : keys[b].secret = secret
  BY <1>1 DEF OneSecret
<1> HIDE DEF made, secret
<1>6. ASSUME NEW f \in Engines, Owned(f) \subseteq Owned(e) \cup {a}
      PROVE  Alive(made, held, f) /\ OneSecret(made, f)
  <2>1. \A b \in held \cup Owned(f) : made[b] \in Keys
    BY <1>3, <1>4, <1>6
  <2>2. \A b \in Owned(f) : made[b].secret = secret
    BY <1>3, <1>4, <1>5, <1>6
  <2> QED
    BY <2>1, <2>2 DEF Alive, OneSecret
<1>7. CASE role = PublicRole
  <2> DEFINE f == [e EXCEPT !.public = a]
  <2>1. Becomes(made, held, f, rs)
    BY <1>7 DEF Derive, made, secret
  <2>2. f \in Engines /\ Owned(f) \subseteq Owned(e) \cup {a} /\ Owned(e) \subseteq Owned(f) \cup {None}
    BY <1>7, WithPublicKeyOwns
  <2>3. ~adrift => \A r \in rs : Follows(r, made, f)
    <3>1. None \notin Owned(e)
      BY OwnedByRole
    <3> QED
      BY <1>3, <1>4, <2>2, <3>1 DEF Follow, Follows
  <2> HIDE DEF f
  <2> QED
    BY <1>3, <1>6, <2>1, <2>2, <2>3, Shapes, Collected
<1>8. CASE role # PublicRole
  <2> DEFINE f == WithEvaluationKey(e, role, role, a)
             ts == Rebind(rs, e, role, a)
  <2>1. role \in EvaluationRoles /\ role \in Symbols
    BY <1>8 DEF GeneratedRoles, Symbols
  <2>2. Becomes(made, held, f, ts)
    BY <1>8 DEF Derive, made, secret
  <2>3. f \in Engines /\ Owned(f) \subseteq Owned(e) \cup {a}
    BY <2>1, WithEvaluationKeyOwns
  <2>4. ts \in SUBSET Replicas
    BY DEF Rebind, DiscardReplicas
  <2>5. ASSUME ~adrift, NEW r \in ts PROVE Follows(r, made, f)
    <3>1. r \in rs /\ Installed(e) \subseteq Bound(e)
      BY <2>5 DEF Follow, Rebind, DiscardReplicas
    <3>2. Follows(r, keys, e)
      BY <2>5, <3>1 DEF Follow
    <3>3. r.at \in Owned(f)
      BY <2>1, <2>5, <3>1, <3>2, DisplacedLosesReplicas DEF Follows
    <3>4. made[r.at] = keys[r.at]
      BY <1>3, <1>4, <3>2 DEF Follows
    <3> QED
      BY <3>2, <3>3, <3>4 DEF Follows
  <2> HIDE DEF f, ts
  <2> QED
    BY <1>3, <1>6, <2>2, <2>3, <2>4, <2>5, Shapes, Collected
<1> QED
  BY <1>7, <1>8

LEMMA GenerateKeeps ==
    ASSUME IInv, NEW role \in GeneratedRoles, Generate(role) PROVE IInv'
<1>1. PICK a \in FreeAddresses : Derive(heap, engine, replicas, role, a)
  BY DEF Generate
<1>2. engine.secret # None /\ (role = PublicRole => engine.public = None)
  BY DEF Generate, Missing
<1>3. a \in Addresses /\ a \notin held /\ a \notin Owned(engine)
  BY FreshIsNobodys
<1>4. Alive(heap, held, engine) /\ OneSecret(heap, engine)
      /\ (~adrift => Follow(heap, engine, replicas))
  BY DEF IInv
<1> QED
  BY <1>1, <1>2, <1>3, <1>4, Shapes, DeriveKeeps

LEMMA GenerateBothKeeps ==
    ASSUME IInv, NEW role \in GeneratedRoles, GenerateBoth(role) PROVE IInv'
<1>1. PICK b \in FreeAddresses, s \in Secrets : \E a \in FreeAddresses \ {b} :
        Derive([heap EXCEPT ![b] = NewKey(SecretRole, s)], WithSecret(engine, b), {}, role, a)
  BY DEF GenerateBoth
<1> DEFINE keys == [heap EXCEPT ![b] = NewKey(SecretRole, s)]
           e == WithSecret(engine, b)
<1>2. PICK a \in FreeAddresses \ {b} : Derive(keys, e, {}, role, a)
  BY <1>1
<1>3. /\ a \in Addresses /\ a \notin held
      /\ b \in Addresses /\ b # None /\ b \notin held /\ NewKey(SecretRole, s) \in Keys
  BY FreshIsNobodys, NewKeyIsKey DEF Roles
<1>4. keys \in [Addresses -> Keys \cup {None}] /\ keys[b] \in Keys
      /\ \A c \in held : keys[c] = heap[c]
  BY <1>3, Shapes
<1>5. /\ e \in Engines /\ e.secret = b /\ Owned(e) \subseteq {b} \ {None}
      /\ Installed(e) = {}
  BY <1>3, OnlyASecret
<1>6. e.public = None
  BY DEF WithSecret, NoEngineKeys
<1> HIDE DEF keys, e
<1>7. Alive(keys, held, e) /\ OneSecret(keys, e) /\ Follow(keys, e, {})
  BY <1>4, <1>5 DEF IInv, Alive, OneSecret, Follow
<1>8. {} \in SUBSET Replicas /\ a \notin Owned(e)
  BY <1>5
<1> QED
  BY <1>2, <1>3, <1>4, <1>5, <1>6, <1>7, <1>8, DeriveKeeps

-----------------------------------------------------------------------------
(* Replicas *)

LEMMA UseOnDeviceKeeps ==
    ASSUME IInv, NEW a \in Addresses, NEW device \in Devices, UseOnDevice(a, device) PROVE IInv'
<1>1. PICK rs : /\ Becomes(heap, held, engine, rs)
                /\ rs \subseteq replicas \cup {Replica(a, device)}
  BY DEF UseOnDevice
<1>2. a \in Owned(engine) /\ heap[a] \in Keys
  BY DEF UseOnDevice, IInv, Alive
<1>3. /\ Replica(a, device) \in Replicas /\ Follows(Replica(a, device), heap, engine)
  BY <1>2, KeyAssumption DEF Replica, Replicas, Follows, Keys
<1>4. rs \in SUBSET Replicas /\ (~adrift => \A r \in rs : Follows(r, heap, engine))
  BY <1>1, <1>3, Shapes DEF IInv, Follow
<1> QED
  BY <1>1, <1>4, Shapes, Collected DEF IInv

-----------------------------------------------------------------------------
(* The invariant, and the properties it implies *)

LEMMA IInvIsInductive == IInv /\ [Next]_vars => IInv'
<1> SUFFICES ASSUME IInv, [Next]_vars PROVE IInv'
  OBVIOUS
<1>1. CASE UNCHANGED vars
  <2>1. heap' = heap /\ held' = held /\ engine' = engine /\ replicas' = replicas /\ adrift' = adrift
    BY <1>1 DEF vars
  <2>2. TypeOK' /\ Alive(heap', held', engine') /\ OneSecret(heap', engine')
        /\ (~adrift' => Follow(heap', engine', replicas'))
    BY <2>1 DEF IInv, TypeOK
  <2> QED
    BY <2>2 DEF IInv, Alive, OneSecret, Follow, Follows, Owned, Installed, Bound
<1>2. CASE Next
  <2>1. ASSUME NEW role \in Roles, NEW s \in Secrets, Create(role, s) PROVE IInv'
    BY <2>1, CreateKeeps
  <2>2. ASSUME NEW a \in Addresses, Forget(a) \/ Write(a) PROVE IInv'
    BY <2>2, ForgetKeeps, WriteKeeps
  <2>3. ASSUME NEW symbol \in Symbols, NEW a \in Addresses, InstallEvaluationKey(symbol, a)
        PROVE  IInv'
    BY <2>3, InstallEvaluationKeyKeeps
  <2>4. ASSUME NEW symbol \in Symbols, RefuseEvaluationKey(symbol) \/ RemoveEvaluationKey(symbol)
        PROVE  IInv'
    BY <2>4, RefuseEvaluationKeyKeeps, RemoveEvaluationKeyKeeps
  <2>5. ASSUME NEW a \in Addresses \cup {None}, SetSecretKey(a) \/ SetPublicKey(a) PROVE IInv'
    BY <2>5, SetSecretKeyKeeps, SetPublicKeyKeeps
  <2>6. ASSUME NEW role \in GeneratedRoles, Generate(role) \/ GenerateBoth(role) PROVE IInv'
    BY <2>6, GenerateKeeps, GenerateBothKeeps
  <2>7. ASSUME NEW a \in Addresses, NEW device \in Devices, UseOnDevice(a, device) PROVE IInv'
    BY <2>7, UseOnDeviceKeeps
  <2> QED
    BY <1>2, <2>1, <2>2, <2>3, <2>4, <2>5, <2>6, <2>7, ClearRelinearizationKeyKeeps,
       RefuseSecretKeyKeeps, RefusePublicKeyKeeps, GenerateSecretKeeps DEF Next, GeneratedRoles
<1> QED
  BY <1>1, <1>2

\* Every variable of an engine keeps its shape.
THEOREM EngineTypes == Spec => []TypeOK
<1>1. IInv => TypeOK
  BY DEF IInv
<1> QED
  BY <1>1, Initially, IInvIsInductive, PTL DEF Spec

\* Through installations, removals, new secrets and generated keys, all keys
\* an engine holds belong to one secret.
THEOREM KeysShare == Spec => []KeysShareTheSecret
<1>1. IInv => KeysShareTheSecret
  BY DEF IInv, OneSecret, KeysShareTheSecret
<1> QED
  BY <1>1, Initially, IInvIsInductive, PTL DEF Spec

\* A replica answers for a key only with the key's present contents, also
\* when keys are written to or an address is used again.
THEOREM ReplicasFollow == Spec => []ReplicasFollowTheirKeys
<1>1. IInv => ReplicasFollowTheirKeys
  BY DEF IInv, Follow, Follows, ReplicasFollowTheirKeys
<1> QED
  BY <1>1, Initially, IInvIsInductive, PTL DEF Spec

-----------------------------------------------------------------------------
(* Induction *)

LEMMA LeastNatural ==
    ASSUME NEW T \in SUBSET Nat, T # {}
    PROVE  \E n \in T : \A m \in T : n <= m
<1>1. IsWellFoundedOn(OpToRel(<, Nat), Nat)
  BY NatLessThanWellFounded
<1>2. PICK n \in T : \A m \in T : <<m, n>> \notin OpToRel(<, Nat)
  BY <1>1, WFMin
<1>3. \A m \in T : ~ (m < n)
  BY <1>2 DEF OpToRel
<1> QED
  BY <1>3

\* Induction with a set for the property.
LEMMA InductionOnNat ==
    ASSUME NEW S, 0 \in S, \A n \in Nat : n \in S => n + 1 \in S
    PROVE  \A n \in Nat : n \in S
<1> SUFFICES ASSUME Nat \ S # {} PROVE FALSE
  OBVIOUS
<1>1. PICK n \in Nat \ S : \A m \in Nat \ S : n <= m
  BY LeastNatural
<1>2. n # 0
  OBVIOUS
<1>3. n - 1 \in Nat /\ n - 1 \in S
  BY <1>1, <1>2
<1> QED
  BY <1>3

-----------------------------------------------------------------------------
(* Residues *)

Residues == 0 .. NumSlots - 1

LEMMA Division ==
    ASSUME NEW a \in Int, NEW n \in Int, n > 0
    PROVE  a % n \in 0 .. n - 1 /\ \E q \in Int : a = q * n + (a % n)
<1>1. a % n \in 0 .. n - 1
  OBVIOUS
<1>2. \E q \in Int : a = q * n + (a % n)
  OBVIOUS
<1> QED
  BY <1>1, <1>2

LEMMA ResidueProperties ==
    ASSUME NEW a \in Int
    PROVE  Residue(a) \in Residues /\ \E q \in Int : a = q * NumSlots + Residue(a)
<1>1. NumSlots \in Int /\ NumSlots > 0
  BY SlotsAssumption
<1> QED
  BY <1>1, Division DEF Residue, Residues

\* The remainder is unique.
LEMMA RemainderIsUnique ==
    ASSUME NEW p \in Int, NEW q \in Int, NEW r \in Residues, NEW s \in Residues,
           p * NumSlots + r = q * NumSlots + s
    PROVE  r = s
<1>1. NumSlots \in Int /\ NumSlots > 0 /\ r \in Int /\ s \in Int
      /\ 0 <= r /\ r < NumSlots /\ 0 <= s /\ s < NumSlots
  BY SlotsAssumption DEF Residues
<1>2. (p - q) * NumSlots = s - r
  BY <1>1
<1>3. CASE p - q >= 1
  <2>1. (p - q) * NumSlots >= NumSlots
    BY <1>1, <1>3
  <2> QED
    BY <1>1, <1>2, <2>1
<1>4. CASE p - q <= -1
  <2>1. (p - q) * NumSlots <= -NumSlots
    BY <1>1, <1>4
  <2> QED
    BY <1>1, <1>2, <2>1
<1>5. CASE p - q = 0
  BY <1>1, <1>2, <1>5
<1> QED
  BY <1>3, <1>4, <1>5

LEMMA ResidueIs ==
    ASSUME NEW a \in Int, NEW q \in Int, NEW r \in Residues, a = q * NumSlots + r
    PROVE  Residue(a) = r
BY ResidueProperties, RemainderIsUnique

LEMMA ResidueOfResidue ==
    ASSUME NEW r \in Residues
    PROVE  Residue(r) = r
<1>1. r \in Int /\ r = 0 * NumSlots + r
  BY SlotsAssumption DEF Residues
<1> QED
  BY <1>1, ResidueIs

LEMMA ResidueOfSum ==
    ASSUME NEW a \in Int, NEW b \in Int
    PROVE  Residue(Residue(a) + b) = Residue(a + b)
<1>1. Residue(a) \in Int /\ NumSlots \in Int /\ Residue(a) \in Residues
  BY ResidueProperties, SlotsAssumption DEF Residues
<1>2. PICK p \in Int : a = p * NumSlots + Residue(a)
  BY ResidueProperties
<1> DEFINE r == Residue(a)
           c == r + b
<1>3. r \in Int /\ c \in Int /\ a = p * NumSlots + r
  BY <1>1, <1>2
<1>4. PICK q \in Int : c = q * NumSlots + Residue(c)
  BY <1>3, ResidueProperties
<1>5. Residue(c) \in Residues /\ Residue(c) \in Int
  BY <1>3, ResidueProperties DEF Residues
<1>6. a + b = p * NumSlots + q * NumSlots + Residue(c)
  <2>1. a + b = p * NumSlots + c
    BY <1>1, <1>3
  <2> HIDE DEF c, r
  <2> QED
    BY <1>1, <1>3, <1>4, <1>5, <2>1
<1>7. a + b = (p + q) * NumSlots + Residue(c)
  <2> HIDE DEF c, r
  <2> QED
    BY <1>1, <1>5, <1>6
<1> HIDE DEF c
<1>8. Residue(a + b) = Residue(c)
  BY <1>5, <1>7, ResidueIs
<1> QED
  BY <1>8 DEF c

\* A step without effect.
LEMMA ResidueOfNoStep ==
    ASSUME NEW c \in Residues, NEW s \in Int, Residue(s) = 0
    PROVE  Residue(c + s) = c
<1>1. c \in Int /\ c + s = s + c
  BY DEF Residues
<1>2. Residue(Residue(s) + c) = Residue(s + c)
  BY <1>1, ResidueOfSum
<1>3. Residue(s) + c = c
  BY <1>1
<1> QED
  BY <1>1, <1>2, <1>3, ResidueOfResidue

LEMMA NormalizedStep ==
    ASSUME NEW n \in Int
    PROVE  /\ NormalizeStep(n) \in Int
           /\ NormalizeStep(n) \in -NumSlots .. NumSlots
           /\ Residue(NormalizeStep(n)) = Residue(n)
<1> DEFINE h == NumSlots \div 2
           m == n + h
           d == Residue(m) - h
<1>1. NumSlots \in Int /\ NumSlots > 0 /\ h \in Int /\ 0 <= h /\ h <= NumSlots
  BY SlotsAssumption
<1> HIDE DEF h
<1>2. m \in Int /\ Residue(m) \in 0 .. NumSlots - 1 /\ Residue(m) \in Residues
  BY <1>1, ResidueProperties DEF Residues
<1>3. NormalizeStep(n) = d
  BY DEF NormalizeStep, Residue, h
<1>4. d \in Int /\ d \in -NumSlots .. NumSlots
  BY <1>1, <1>2
<1>5. Residue(Residue(m) + (-h)) = Residue(m + (-h))
  BY <1>1, <1>2, ResidueOfSum
<1>6. Residue(m) + (-h) = d /\ m + (-h) = n
  BY <1>1, <1>2
<1> QED
  BY <1>3, <1>4, <1>5, <1>6

-----------------------------------------------------------------------------
(* The usable steps *)

Usable(steps) == {s \in steps : Residue(s) # 0}

Below(S, s) == Cardinality({r \in S : r < s})

LEMMA BelowIsRank ==
    ASSUME NEW S \in SUBSET Int, IsFiniteSet(S), NEW k \in 1 .. Cardinality(S)
    PROVE  \E s \in S : Below(S, s) = k - 1
<1> DEFINE n == Cardinality(S)
           T == 0 .. n - 1
           f == [s \in S |-> Below(S, s)]
<1>1. n \in Nat /\ n >= 1
  BY FS_CardinalityType
<1>2. IsFiniteSet(T) /\ Cardinality(T) = n
  <2>1. n - 1 \in Int /\ 0 \in Int
    BY <1>1
  <2>2. IsFiniteSet(T) /\ Cardinality(T) = IF 0 > n - 1 THEN 0 ELSE (n - 1) - 0 + 1
    BY <2>1, FS_Interval
  <2> QED
    BY <1>1, <2>2
<1>3. ASSUME NEW s \in S PROVE Below(S, s) \in T
  <2> DEFINE B == {r \in S : r < s}
  <2>1. B \in SUBSET S /\ s \notin B
    BY s \in Int
  <2>2. IsFiniteSet(B) /\ Cardinality(B) <= n /\ (n = Cardinality(B) => S = B)
    BY <2>1, FS_Subset
  <2>3. Cardinality(B) \in Nat
    BY <2>2, FS_CardinalityType
  <2>4. Cardinality(B) # n
    BY <2>1, <2>2
  <2> QED
    BY <1>1, <2>2, <2>3, <2>4 DEF Below
<1>4. ASSUME NEW r \in S, NEW s \in S, r < s PROVE Below(S, r) # Below(S, s)
  <2> DEFINE A == {x \in S : x < r}
             B == {x \in S : x < s}
  <2>1. A \in SUBSET B /\ r \in B /\ r \notin A
    <3>1. r \in Int /\ s \in Int /\ \A x \in S : x \in Int /\ (x < r => x < s)
      BY <1>4
    <3>2. r \in B /\ r \notin A
      BY <1>4, <3>1
    <3>3. \A x \in A : x \in B
      BY <3>1
    <3> QED
      BY <3>2, <3>3
  <2>2. IsFiniteSet(B)
    BY FS_Subset
  <2>3. Cardinality(B) = Cardinality(A) => B = A
    BY <2>1, <2>2, FS_Subset
  <2> QED
    BY <2>1, <2>3 DEF Below
<1>5. f \in Injection(S, T)
  <2>1. f \in [S -> T]
    BY <1>3
  <2>2. ASSUME NEW r \in S, NEW s \in S, f[r] = f[s] PROVE r = s
    <3>1. ~(r < s) /\ ~(s < r)
      BY <1>4, <2>2
    <3> QED
      BY <3>1, r \in Int, s \in Int
  <2> QED
    BY <2>1, <2>2 DEF Injection, IsInjective
<1> HIDE DEF f
<1>6. f \in Surjection(S, T)
  BY <1>2, <1>5, FS_Injection
<1>7. k - 1 \in T
  BY <1>1
<1>8. PICK s \in S : f[s] = k - 1
  BY <1>6, <1>7 DEF Surjection
<1> QED
  BY <1>8 DEF f

LEMMA SortedStepsAreUsable ==
    ASSUME NEW steps \in SUBSET Int, IsFiniteSet(steps)
    PROVE  /\ SortedSteps(steps) \in Seq(Usable(steps))
           /\ \A s \in Usable(steps) :
                 \E k \in 1 .. Len(SortedSteps(steps)) : SortedSteps(steps)[k] = s
<1> DEFINE U == Usable(steps)
           n == Cardinality(U)
           q == [k \in 1 .. n |-> CHOOSE s \in U : Below(U, s) = k - 1]
<1>1. SortedSteps(steps) = q
  BY DEF SortedSteps, Usable, Below
<1>2. U \in SUBSET Int /\ IsFiniteSet(U)
  BY FS_Subset DEF Usable
<1>3. n \in Nat
  BY <1>2, FS_CardinalityType
<1> HIDE DEF n
<1>4. ASSUME NEW k \in 1 .. n PROVE q[k] \in U /\ Below(U, q[k]) = k - 1
  <2>1. \E s \in U : Below(U, s) = k - 1
    BY <1>2, BelowIsRank DEF n
  <2> QED
    BY <2>1
<1>5. q \in Seq(U) /\ Len(q) = n
  BY <1>3, <1>4
<1>6. ASSUME NEW s \in U PROVE \E k \in 1 .. n : q[k] = s
  <2> DEFINE T == 1 .. n
  <2>1. IsFiniteSet(T) /\ Cardinality(T) = n
    <3>1. IsFiniteSet(T) /\ Cardinality(T) = IF 1 > n THEN 0 ELSE n - 1 + 1
      BY <1>3, FS_Interval
    <3> QED
      BY <1>3, <3>1
  <2>2. ASSUME NEW i \in T, NEW j \in T, q[i] = q[j] PROVE i = j
    <3>1. i - 1 = j - 1
      BY <1>4, <2>2
    <3> QED
      BY <3>1
  <2> HIDE DEF q
  <2>3. q \in Injection(T, U)
    BY <1>5, <1>4, <2>2 DEF Injection, IsInjective
  <2>4. q \in Surjection(T, U)
    BY <1>2, <2>1, <2>3, FS_Injection DEF n
  <2> QED
    BY <2>4 DEF Surjection
<1> QED
  BY <1>1, <1>5, <1>6

-----------------------------------------------------------------------------
(* Folds and iterations, all of one shape: a run combines what it has with *)
(* the next element, and how says which combination is meant.              *)

Further(C, steps) == {Residue(c + s) : c \in C, s \in steps}

Combine(how, x, y) ==
    CASE how[1] = "plus"   -> x + y
      [] how[1] = "visit"  -> Visit(x, how[2], y)
      [] how[1] = "sums"   -> Further(x, how[2])
      [] how[1] = "expand" -> Expand(x, how[2], how[3])

CombineLast(f, how, base, q, s) ==
    IF s = {} THEN base ELSE Combine(how, f[s \ {Max(s)}], q[Max(s)])

Folds(f, how, base, q) == f = [s \in SUBSET (DOMAIN q) |-> CombineLast(f, how, base, q, s)]

IsRun(v, how, base, q, n) ==
    v[0] = base /\ \A k \in 0 .. n - 1 : v[k + 1] = Combine(how, v[k], q[k + 1])

LEMMA MaxIsGreatest ==
    ASSUME NEW n \in Nat, NEW s \in SUBSET (1..n), s # {}
    PROVE  Max(s) \in s /\ \A m \in s : m <= Max(s)
<1> DEFINE T == {n - m : m \in s}
<1>0. \A m \in s : m \in Nat /\ n - m \in Nat
  OBVIOUS
<1>1. T \in SUBSET Nat /\ T # {}
  BY <1>0
<1> HIDE DEF T
<1>2. PICK k \in T : \A m \in T : k <= m
  BY <1>1, LeastNatural
<1> USE DEF T
<1>3. PICK m \in s : k = n - m
  BY <1>2
<1>4. \A i \in s : i <= m
  <2> SUFFICES ASSUME NEW i \in s PROVE i <= m
    OBVIOUS
  <2>1. n - i \in T
    OBVIOUS
  <2>2. n - m <= n - i
    BY <1>2, <1>3, <2>1
  <2> QED
    BY <1>0, <2>2
<1>5. \E x \in s : \A y \in s : x >= y
  BY <1>0, <1>4
<1> QED
  BY <1>0, <1>5 DEF Max

LEMMA FoldExists ==
    ASSUME NEW how, NEW base, NEW q, NEW n \in Nat, DOMAIN q = 1..n
    PROVE  \E f : Folds(f, how, base, q)
<1> DEFINE Upto(k) == \E f : /\ f = [s \in SUBSET (1..n) |-> f[s]]
                             /\ \A s \in SUBSET (1..n) :
                                  s \subseteq 1..k => f[s] = CombineLast(f, how, base, q, s)
           S == {k \in Nat : Upto(k)}
<1>1. 0 \in S
  <2> DEFINE f == [s \in SUBSET (1..n) |-> base]
  <2>1. \A s \in SUBSET (1..n) : s \subseteq 1..0 => f[s] = CombineLast(f, how, base, q, s)
    BY DEF CombineLast
  <2>2. f = [s \in SUBSET (1..n) |-> f[s]]
    OBVIOUS
  <2> HIDE DEF f
  <2> QED
    BY <2>1, <2>2
<1>2. ASSUME NEW k \in Nat, k \in S PROVE k + 1 \in S
  <2>1. PICK f : /\ f = [s \in SUBSET (1..n) |-> f[s]]
                 /\ \A s \in SUBSET (1..n) :
                      s \subseteq 1..k => f[s] = CombineLast(f, how, base, q, s)
    BY <1>2
  <2> DEFINE g == [s \in SUBSET (1..n) |-> CombineLast(f, how, base, q, s)]
  <2>2. \A s \in SUBSET (1..n) : s \subseteq 1..k => g[s] = f[s]
    BY <2>1
  <2>3. ASSUME NEW s \in SUBSET (1..n), s \subseteq 1..(k + 1)
        PROVE  g[s] = CombineLast(g, how, base, q, s)
    <3>1. CASE s = {}
      BY <3>1 DEF CombineLast
    <3>2. CASE s # {}
      <4>1. Max(s) \in s /\ \A m \in s : m <= Max(s)
        BY <3>2, MaxIsGreatest
      <4>2. s \ {Max(s)} \in SUBSET (1..n) /\ s \ {Max(s)} \subseteq 1..k
        <5>1. Max(s) \in 1..(k + 1)
          BY <2>3, <4>1
        <5>2. \A m \in s : m \in 1..(k + 1) /\ (m # Max(s) => m \in 1..k)
          BY <2>3, <4>1, <5>1
        <5> QED
          BY <5>2
      <4>3. g[s \ {Max(s)}] = f[s \ {Max(s)}]
        BY <2>2, <4>2
      <4> HIDE DEF g
      <4>4. CombineLast(g, how, base, q, s) = CombineLast(f, how, base, q, s)
        BY <4>3 DEF CombineLast
      <4> QED
        BY <4>4 DEF g
    <3> QED
      BY <3>1, <3>2
  <2>4. g = [s \in SUBSET (1..n) |-> g[s]]
    OBVIOUS
  <2> HIDE DEF g
  <2>5. Upto(k + 1)
    BY <2>3, <2>4
  <2> HIDE DEF Upto
  <2> QED
    BY <2>5
<1>3. n \in S
  <2> HIDE DEF S
  <2> QED
    BY <1>1, <1>2, InductionOnNat
<1>4. PICK f : /\ f = [s \in SUBSET (1..n) |-> f[s]]
               /\ \A s \in SUBSET (1..n) :
                    s \subseteq 1..n => f[s] = CombineLast(f, how, base, q, s)
  BY <1>3
<1>5. f = [s \in SUBSET (1..n) |-> CombineLast(f, how, base, q, s)]
  BY <1>4
<1> QED
  BY <1>5 DEF Folds

\* What a fold has combined after its first k elements.
LEMMA FoldRuns ==
    ASSUME NEW how, NEW base, NEW q, NEW n \in Nat, DOMAIN q = 1..n,
           NEW f, Folds(f, how, base, q)
    PROVE  \E v : IsRun(v, how, base, q, n) /\ v[n] = f[DOMAIN q] /\ DOMAIN v = 0 .. n
<1> DEFINE v == [k \in 0 .. n |-> f[1..k]]
<1>1. \A s \in SUBSET (DOMAIN q) : f[s] = CombineLast(f, how, base, q, s)
  BY DEF Folds
<1>2. v[0] = base
  <2>1. 1..0 = {} /\ 1..0 \in SUBSET (DOMAIN q) /\ v[0] = f[1..0]
    OBVIOUS
  <2> QED
    BY <1>1, <2>1 DEF CombineLast
<1>3. ASSUME NEW k \in 0 .. n - 1 PROVE v[k + 1] = Combine(how, v[k], q[k + 1])
  <2> DEFINE s == 1..(k + 1)
  <2>1. k + 1 \in Nat /\ k + 1 \in s /\ s \in SUBSET (1..n) /\ s \ {k + 1} = 1..k
        /\ v[k + 1] = f[s] /\ v[k] = f[1..k] /\ s \in SUBSET (1..(k + 1))
    BY <1>3
  <2>2. \A m \in s : m \in Nat /\ m <= k + 1
    OBVIOUS
  <2> HIDE DEF s, v
  <2>3. Max(s) \in s /\ \A m \in s : m <= Max(s)
    BY <2>1, MaxIsGreatest
  <2>4. Max(s) = k + 1
    BY <2>1, <2>2, <2>3
  <2>5. f[s] = Combine(how, f[s \ {k + 1}], q[k + 1])
    BY <1>1, <2>1, <2>4 DEF CombineLast
  <2> QED
    BY <2>1, <2>5
<1>4. v[n] = f[DOMAIN q] /\ DOMAIN v = 0 .. n
  OBVIOUS
<1> HIDE DEF v
<1> QED
  BY <1>2, <1>3, <1>4 DEF IsRun

LEMMA RunExists ==
    ASSUME NEW how, NEW base, NEW n \in Nat
    PROVE  \E v : IsRun(v, how, base, [k \in 1 .. n |-> k], n) /\ DOMAIN v = 0 .. n
<1> DEFINE q == [k \in 1 .. n |-> k]
<1>1. DOMAIN q = 1 .. n
  OBVIOUS
<1> HIDE DEF q
<1> QED
  BY <1>1, FoldExists, FoldRuns DEF q

\* Two runs agree as far as they combine the same elements.
LEMMA RunsAgree ==
    ASSUME NEW how, NEW base, NEW n \in Nat, NEW p, NEW q, \A k \in 1 .. n : p[k] = q[k],
           NEW v, IsRun(v, how, base, p, n), NEW w, IsRun(w, how, base, q, n)
    PROVE  v[n] = w[n]
<1> DEFINE S == {k \in Nat : k <= n => v[k] = w[k]}
<1>1. 0 \in S
  BY DEF IsRun
<1>2. ASSUME NEW k \in Nat, k \in S PROVE k + 1 \in S
  <2> SUFFICES ASSUME k + 1 <= n PROVE v[k + 1] = w[k + 1]
    OBVIOUS
  <2>1. k \in 0 .. n - 1 /\ k + 1 \in 1 .. n /\ v[k] = w[k] /\ p[k + 1] = q[k + 1]
    BY <1>2
  <2> QED
    BY <2>1 DEF IsRun
<1>3. n \in S
  <2> HIDE DEF S
  <2> QED
    BY <1>1, <1>2, InductionOnNat
<1> QED
  BY <1>3

\* The sum of a sequence of steps.
Sum(q) == FoldLeft(+, 0, q)

LEMMA SumIsRun ==
    ASSUME NEW q, NEW n \in Nat, DOMAIN q = 1..n
    PROVE  \E v : IsRun(v, <<"plus">>, 0, q, n) /\ v[n] = Sum(q)
<1> DEFINE Body(f) == [s \in SUBSET (DOMAIN q) |->
                         IF s = {} THEN 0 ELSE f[s \ {Max(s)}] + q[Max(s)]]
           E(f) == f = Body(f)
           g == CHOOSE f : E(f)
           how == <<"plus">>
<1>1. ASSUME NEW f PROVE Folds(f, how, 0, q) <=> E(f)
  BY DEF Folds, CombineLast, Combine
<1>2. Sum(q) = g[DOMAIN q]
  BY DEF Sum, FoldLeft, MapThenFoldSet
<1> HIDE DEF E, how
<1>3. \E f : E(f)
  BY <1>1, FoldExists
<1>4. E(g)
  BY <1>3
<1> HIDE DEF g
<1>5. Folds(g, how, 0, q)
  BY <1>1, <1>4
<1>6. \E v : IsRun(v, how, 0, q, n) /\ v[n] = g[DOMAIN q]
  BY <1>5, FoldRuns
<1> QED
  BY <1>2, <1>6 DEF how

LEMMA SumOfNothing == Sum(<<>>) = 0
<1> DEFINE q == <<>>
           n == 0
<1>1. n \in Nat /\ DOMAIN q = 1..n
  OBVIOUS
<1> HIDE DEF q, n
<1>2. PICK v : IsRun(v, <<"plus">>, 0, q, n) /\ v[n] = Sum(q)
  BY <1>1, SumIsRun
<1> QED
  BY <1>2 DEF IsRun, q, n

LEMMA SumOfAppend ==
    ASSUME NEW q \in Seq(Int), NEW s \in Int
    PROVE  Sum(Append(q, s)) = Sum(q) + s
<1> DEFINE n == Len(q)
           r == Append(q, s)
<1>1. n \in Nat /\ n + 1 \in Nat /\ DOMAIN q = 1..n /\ DOMAIN r = 1..(n + 1) /\ r[n + 1] = s
      /\ \A k \in 1..n : r[k] = q[k]
  OBVIOUS
<1> HIDE DEF n, r
<1>2. PICK v : IsRun(v, <<"plus">>, 0, q, n) /\ v[n] = Sum(q)
  BY <1>1, SumIsRun
<1>3. PICK w : IsRun(w, <<"plus">>, 0, r, n + 1) /\ w[n + 1] = Sum(r)
  BY <1>1, SumIsRun
<1>4. IsRun(w, <<"plus">>, 0, r, n)
  <2>1. \A k \in 0 .. n - 1 : k \in 0 .. (n + 1) - 1
    BY <1>1
  <2> QED
    BY <1>3, <2>1 DEF IsRun
<1>5. w[n] = v[n]
  BY <1>1, <1>2, <1>4, RunsAgree
<1>6. w[n + 1] = w[n] + s
  <2>1. n \in 0 .. (n + 1) - 1
    BY <1>1
  <2>2. w[n + 1] = Combine(<<"plus">>, w[n], r[n + 1])
    BY <1>3, <2>1 DEF IsRun
  <2> QED
    BY <1>1, <2>2 DEF Combine
<1> QED
  BY <1>2, <1>3, <1>5, <1>6 DEF r

-----------------------------------------------------------------------------
(* The residues n steps away *)

LEMMA SumsUnfold ==
    ASSUME NEW steps
    PROVE  /\ Sums(0, steps) = {0}
           /\ \A n \in Nat : Sums(n + 1, steps) = Further(Sums(n, steps), steps)
<1> DEFINE how == <<"sums", steps>>
           Body(f, n) == [i \in 0 .. n |->
                            IF i = 0 THEN {0}
                            ELSE Further(f[i - 1], steps)]
           E(f, n) == f = Body(f, n)
           Index(n) == [k \in 1 .. n |-> k]
           Runs(f, n) == IsRun(f, how, {0}, Index(n), n)
<1>1. ASSUME NEW n \in Nat, NEW f, E(f, n) PROVE Runs(f, n)
  <2>1. \A i \in 0 .. n : f[i] = IF i = 0 THEN {0} ELSE Further(f[i - 1], steps)
    <3>1. f = Body(f, n)
      BY <1>1
    <3> QED
      BY <3>1
  <2>2. ASSUME NEW k \in 0 .. n - 1 PROVE f[k + 1] = Combine(how, f[k], Index(n)[k + 1])
    <3>1. k + 1 \in 0 .. n /\ k + 1 # 0 /\ (k + 1) - 1 = k
      BY <2>2
    <3>2. f[k + 1] = Further(f[k], steps)
      BY <2>1, <3>1
    <3> QED
      BY <3>2 DEF Combine
  <2>3. f[0] = {0}
    BY <2>1
  <2> QED
    BY <2>2, <2>3 DEF IsRun
<1>2. ASSUME NEW n \in Nat PROVE \E f : E(f, n)
  <2>1. PICK v : Runs(v, n) /\ DOMAIN v = 0 .. n
    BY RunExists
  <2> DEFINE f == [i \in 0 .. n |-> v[i]]
  <2>2. ASSUME NEW i \in 0 .. n PROVE f[i] = Body(f, n)[i]
    <3>1. CASE i = 0
      BY <2>1, <3>1 DEF IsRun
    <3>2. CASE i # 0
      <4>1. i - 1 \in 0 .. n - 1 /\ i - 1 \in 0 .. n /\ (i - 1) + 1 = i
        BY <3>2
      <4>2. v[i] = Combine(how, v[i - 1], Index(n)[i])
        BY <2>1, <4>1 DEF IsRun
      <4>3. v[i] = Further(v[i - 1], steps)
        BY <4>2 DEF Combine
      <4> QED
        BY <3>2, <4>1, <4>3
    <3> QED
      BY <3>1, <3>2
  <2>3. f = [i \in 0 .. n |-> f[i]] /\ Body(f, n) = [i \in 0 .. n |-> Body(f, n)[i]]
    OBVIOUS
  <2> HIDE DEF f, Body
  <2>4. f = Body(f, n)
    BY <2>2, <2>3
  <2> QED
    BY <2>4
<1> DEFINE F(n) == CHOOSE f : E(f, n)
<1>3. ASSUME NEW n \in Nat PROVE Sums(n, steps) = F(n)[n] /\ Runs(F(n), n)
  <2>1. Sums(n, steps) = F(n)[n]
    BY DEF Sums, Further
  <2> HIDE DEF E
  <2>2. E(F(n), n)
    BY <1>2
  <2> HIDE DEF F
  <2> QED
    BY <1>1, <2>1, <2>2
<1> HIDE DEF F, E
<1>4. Sums(0, steps) = {0}
  BY <1>3 DEF IsRun
<1>5. ASSUME NEW n \in Nat
      PROVE  Sums(n + 1, steps) = Further(Sums(n, steps), steps)
  <2>1. n + 1 \in Nat /\ n \in 0 .. (n + 1) - 1
    OBVIOUS
  <2>2. Runs(F(n), n) /\ Runs(F(n + 1), n + 1)
    BY <1>3, <2>1
  <2>3. IsRun(F(n + 1), how, {0}, Index(n + 1), n)
    <3>1. \A k \in 0 .. n - 1 : k \in 0 .. (n + 1) - 1
      OBVIOUS
    <3> QED
      BY <2>2, <3>1 DEF IsRun
  <2>4. \A k \in 1 .. n : Index(n + 1)[k] = Index(n)[k]
    OBVIOUS
  <2> HIDE DEF Index, how
  <2>5. F(n + 1)[n] = F(n)[n]
    BY <2>2, <2>3, <2>4, RunsAgree
  <2>6. F(n + 1)[n + 1] = Combine(how, F(n + 1)[n], Index(n + 1)[n + 1])
    BY <2>1, <2>2 DEF IsRun
  <2> QED
    BY <1>3, <2>1, <2>5, <2>6 DEF Combine, how
<1> QED
  BY <1>4, <1>5

-----------------------------------------------------------------------------
(* The search, unfolded *)

Start == [queue |-> <<0>>, reached |-> [c \in {0} |-> [back |-> 0, step |-> 0]]]
Popped(search) == [search EXCEPT !.queue = Tail(@)]

LEMMA SearchRuns ==
    ASSUME NEW target, NEW steps
    PROVE  \E v : /\ v[0] = Start
                  /\ \A k \in 0 .. NumSlots - 1 : v[k + 1] = Expand(v[k], target, steps)
                  /\ Search(target, steps) = v[NumSlots].reached
<1> DEFINE how == <<"expand", target, steps>>
           N == NumSlots
           start == Start
           Body(f) == [n \in 0 .. N |-> IF n = 0 THEN start ELSE Expand(f[n - 1], target, steps)]
           E(f) == f = Body(f)
           g == CHOOSE f : E(f)
<1>1. N \in Nat
  BY SlotsAssumption
<1>2. Search(target, steps) = g[N].reached
  BY DEF Search, Start
<1> HIDE DEF start
<1>3. \E f : E(f)
  <2>1. PICK v : IsRun(v, how, start, [k \in 1 .. N |-> k], N) /\ DOMAIN v = 0 .. N
    BY <1>1, RunExists
  <2> DEFINE f == [i \in 0 .. N |-> v[i]]
  <2>2. ASSUME NEW i \in 0 .. N PROVE f[i] = Body(f)[i]
    <3>1. CASE i = 0
      BY <2>1, <3>1 DEF IsRun
    <3>2. CASE i # 0
      <4>1. i - 1 \in 0 .. N - 1 /\ i - 1 \in 0 .. N /\ (i - 1) + 1 = i
        BY <1>1, <3>2
      <4>2. v[i] = Combine(how, v[i - 1], [k \in 1 .. N |-> k][i])
        BY <2>1, <4>1 DEF IsRun
      <4>3. v[i] = Expand(v[i - 1], target, steps)
        BY <4>2 DEF Combine
      <4> QED
        BY <3>2, <4>1, <4>3
    <3> QED
      BY <3>1, <3>2
  <2>3. f = [i \in 0 .. N |-> f[i]] /\ Body(f) = [i \in 0 .. N |-> Body(f)[i]]
    OBVIOUS
  <2> HIDE DEF f, Body
  <2>4. f = Body(f)
    BY <2>2, <2>3
  <2> QED
    BY <2>4
<1>4. E(g)
  <2> HIDE DEF E
  <2> QED
    BY <1>3
<1> HIDE DEF g
<1>5. g[0] = start
  BY <1>1, <1>4
<1>6. ASSUME NEW k \in 0 .. N - 1 PROVE g[k + 1] = Expand(g[k], target, steps)
  <2>1. k + 1 \in 0 .. N /\ k + 1 # 0 /\ (k + 1) - 1 = k
    BY <1>1
  <2>2. g[k + 1] = Body(g)[k + 1]
    BY <1>4
  <2> QED
    BY <2>1, <2>2
<1> QED
  BY <1>2, <1>5, <1>6 DEF start

LEMMA ExpandRuns ==
    ASSUME NEW search, NEW target, NEW steps, ~Searched(search, target),
           NEW n \in Nat, DOMAIN SortedSteps(steps) = 1 .. n
    PROVE  \E v : /\ v[0] = Popped(search)
                  /\ \A k \in 0 .. n - 1 :
                        v[k + 1] = Visit(v[k], Head(search.queue), SortedSteps(steps)[k + 1])
                  /\ Expand(search, target, steps) = v[n]
<1> DEFINE q == SortedSteps(steps)
           h == Head(search.queue)
           base == Popped(search)
           Body(f) == [s \in SUBSET (DOMAIN q) |->
                         IF s = {} THEN base ELSE Visit(f[s \ {Max(s)}], h, q[Max(s)])]
           E(f) == f = Body(f)
           g == CHOOSE f : E(f)
           how == <<"visit", h>>
<1>1. ASSUME NEW f PROVE Folds(f, how, base, q) <=> E(f)
  BY DEF Folds, CombineLast, Combine
<1>2. Expand(search, target, steps) = g[DOMAIN q]
  BY DEF Expand, Popped, FoldLeft, MapThenFoldSet
<1> HIDE DEF E, q, base
<1>3. \E f : E(f)
  <2>1. \E f : Folds(f, how, base, q)
    BY FoldExists DEF q
  <2> QED
    BY <1>1, <2>1
<1>4. E(g)
  BY <1>3
<1> HIDE DEF g
<1>5. Folds(g, how, base, q)
  BY <1>1, <1>4
<1>6. PICK v : IsRun(v, how, base, q, n) /\ v[n] = g[DOMAIN q]
  BY <1>5, FoldRuns DEF q
<1>7. ASSUME NEW k \in 0 .. n - 1 PROVE v[k + 1] = Visit(v[k], h, q[k + 1])
  BY <1>6 DEF IsRun, Combine
<1>8. v[0] = base
  BY <1>6 DEF IsRun
<1> QED
  BY <1>2, <1>6, <1>7, <1>8 DEF q, base

-----------------------------------------------------------------------------
(* Distances *)

Reachable(steps) == {c \in Residues : \E n \in Nat : c \in Sums(n, steps)}

Distance(c, steps) ==
    CHOOSE n \in Nat : c \in Sums(n, steps) /\ \A m \in Nat : c \in Sums(m, steps) => n <= m

LEMMA DistanceIsLeast ==
    ASSUME NEW steps, NEW c \in Reachable(steps)
    PROVE  /\ Distance(c, steps) \in Nat
           /\ c \in Sums(Distance(c, steps), steps)
           /\ \A m \in Nat : c \in Sums(m, steps) => Distance(c, steps) <= m
<1> DEFINE T == {n \in Nat : c \in Sums(n, steps)}
<1>1. PICK n \in T : \A m \in T : n <= m
  BY LeastNatural DEF Reachable
<1> QED
  BY <1>1 DEF Distance

LEMMA DistanceOfZero ==
    ASSUME NEW steps
    PROVE  /\ 0 \in Reachable(steps) /\ Distance(0, steps) = 0
           /\ \A c \in Reachable(steps) : Distance(c, steps) = 0 => c = 0
<1>1. Sums(0, steps) = {0}
  BY SumsUnfold
<1>2. 0 \in Reachable(steps)
  BY <1>1, SlotsAssumption DEF Reachable, Residues
<1>3. Distance(0, steps) \in Nat /\ Distance(0, steps) <= 0
  BY <1>1, <1>2, DistanceIsLeast
<1>4. \A c \in Reachable(steps) : Distance(c, steps) = 0 => c = 0
  BY <1>1, DistanceIsLeast
<1> QED
  BY <1>2, <1>3, <1>4

\* One step more.
LEMMA StepReaches ==
    ASSUME NEW steps \in SUBSET Int, NEW b \in Reachable(steps), NEW s \in steps
    PROVE  /\ Residue(b + s) \in Reachable(steps)
           /\ Distance(Residue(b + s), steps) <= Distance(b, steps) + 1
<1> DEFINE n == Distance(b, steps)
           c == Residue(b + s)
<1>1. n \in Nat /\ b \in Sums(n, steps)
  BY DistanceIsLeast
<1>2. c \in Sums(n + 1, steps)
  <2>1. Sums(n + 1, steps) = Further(Sums(n, steps), steps)
    BY <1>1, SumsUnfold
  <2> QED
    BY <1>1, <2>1 DEF Further
<1>3. c \in Residues
  <2>1. b + s \in Int
    BY DEF Reachable, Residues
  <2> QED
    BY <2>1, ResidueProperties
<1>4. n + 1 \in Nat
  BY <1>1
<1> HIDE DEF n, c
<1>5. c \in Reachable(steps)
  BY <1>2, <1>3, <1>4 DEF Reachable
<1>6. Distance(c, steps) <= n + 1
  BY <1>2, <1>4, <1>5, DistanceIsLeast
<1> QED
  BY <1>5, <1>6 DEF n, c

\* The step before.
LEMMA StepBefore ==
    ASSUME NEW steps \in SUBSET Int, NEW c \in Reachable(steps), c # 0
    PROVE  \E b \in Reachable(steps), s \in Usable(steps) :
              c = Residue(b + s) /\ Distance(c, steps) = Distance(b, steps) + 1
<1> DEFINE n == Distance(c, steps) - 1
<1>1. Distance(c, steps) \in Nat /\ Distance(c, steps) # 0
  BY DistanceIsLeast, DistanceOfZero
<1>2. n \in Nat /\ Distance(c, steps) = n + 1
  BY <1>1
<1> HIDE DEF n
<1>3. c \in Sums(n + 1, steps)
  BY <1>2, DistanceIsLeast
<1>4. PICK b \in Sums(n, steps), s \in steps : c = Residue(b + s)
  <2>1. Sums(n + 1, steps) = Further(Sums(n, steps), steps)
    BY <1>2, SumsUnfold
  <2> QED
    BY <1>3, <2>1 DEF Further
<1>5. \A m \in Nat : Sums(m, steps) \subseteq Residues
  <2> DEFINE S == {m \in Nat : Sums(m, steps) \subseteq Residues}
  <2>1. 0 \in S
    BY SumsUnfold, SlotsAssumption DEF Residues
  <2>2. ASSUME NEW m \in Nat, m \in S PROVE m + 1 \in S
    <3>1. Sums(m + 1, steps) = Further(Sums(m, steps), steps)
      BY SumsUnfold
    <3>2. ASSUME NEW x \in Sums(m, steps), NEW t \in steps PROVE Residue(x + t) \in Residues
      <4>1. x + t \in Int
        BY <2>2 DEF Residues
      <4> QED
        BY <4>1, ResidueProperties
    <3> QED
      BY <3>1, <3>2 DEF Further
  <2> QED
    BY <2>1, <2>2, InductionOnNat
<1>6. b \in Reachable(steps)
  BY <1>2, <1>4, <1>5 DEF Reachable
<1>7. Distance(b, steps) \in Nat /\ Distance(b, steps) <= n
  BY <1>2, <1>4, <1>6, DistanceIsLeast
<1>8. Distance(c, steps) <= Distance(b, steps) + 1
  BY <1>4, <1>6, StepReaches
<1>9. s \in Usable(steps)
  <2> SUFFICES ASSUME Residue(s) = 0 PROVE FALSE
    BY DEF Usable
  <2>1. b \in Residues /\ s \in Int
    BY <1>2, <1>4, <1>5
  <2>2. c = b
    BY <1>4, <2>1, ResidueOfNoStep
  <2> QED
    BY <1>2, <1>7, <2>2
<1> QED
  BY <1>2, <1>4, <1>6, <1>7, <1>8, <1>9

-----------------------------------------------------------------------------
(* What the search maintains.  A residue in the queue waits, one reached   *)
(* but no longer waiting is done with: all it leads to is reached.         *)

Done(search) == DOMAIN search.reached \ Range(search.queue)

Discovered(search, c, steps) ==
    LET edge == search.reached[c]
    IN  /\ edge.back \in DOMAIN search.reached
        /\ edge.step \in Usable(steps)
        /\ c = Residue(edge.back + edge.step)
        /\ Distance(c, steps) = Distance(edge.back, steps) + 1

Found(search, steps) ==
    /\ search = [queue |-> search.queue, reached |-> search.reached]
    /\ 0 \in DOMAIN search.reached
    /\ DOMAIN search.reached \subseteq Reachable(steps)
    /\ \A c \in DOMAIN search.reached \ {0} : Discovered(search, c, steps)

\* Who waits is ordered by distance, and at most one step further than who
\* was taken last.
Ordered(search, low, steps) ==
    LET q == search.queue
    IN  /\ q \in Seq(DOMAIN search.reached)
        /\ \A i, j \in DOMAIN q : i < j => q[i] # q[j] /\ Distance(q[i], steps) <= Distance(q[j], steps)
        /\ \A i \in DOMAIN q : low <= Distance(q[i], steps) /\ Distance(q[i], steps) <= low + 1

LeadsInside(search, d, steps) == \A s \in Usable(steps) : Residue(d + s) \in DOMAIN search.reached

Closed(search, done, low, steps) ==
    \A d \in done : Distance(d, steps) <= low /\ LeadsInside(search, d, steps)

Between(search, low, steps) ==
    /\ Found(search, steps)
    /\ Ordered(search, low, steps)
    /\ Closed(search, Done(search), low, steps)

During(search, h, steps) ==
    /\ Found(search, steps)
    /\ h \in Done(search)
    /\ Ordered(search, Distance(h, steps), steps)
    /\ Closed(search, Done(search) \ {h}, Distance(h, steps), steps)

\* Whatever is not reached yet is further away than the residue in hand.
LEMMA Frontier ==
    ASSUME NEW steps \in SUBSET Int, NEW search, NEW h, During(search, h, steps),
           NEW y \in Reachable(steps), y \notin DOMAIN search.reached
    PROVE  Distance(y, steps) >= Distance(h, steps) + 1
<1> DEFINE R == DOMAIN search.reached
           low == Distance(h, steps)
           D(c) == Distance(c, steps)
           T == {n \in Nat : \E c \in Reachable(steps) \ R : D(c) = n}
<1>0. R \subseteq Reachable(steps) /\ 0 \in R /\ h \in R
  BY DEF During, Found, Done
<1>1. \A c \in Reachable(steps) : D(c) \in Nat
  BY DistanceIsLeast
<1>2. D(y) \in T
  BY <1>1
<1>3. PICK n \in T : \A m \in T : n <= m
  BY <1>2, LeastNatural
<1>4. PICK c \in Reachable(steps) \ R : D(c) = n
  BY <1>3
<1>5. PICK b \in Reachable(steps), s \in Usable(steps) : c = Residue(b + s) /\ D(c) = D(b) + 1
  BY <1>0, <1>4, StepBefore
<1>6. b \in R
  <2> SUFFICES ASSUME b \notin R PROVE FALSE
    OBVIOUS
  <2>1. D(b) \in T
    BY <1>1
  <2> QED
    BY <1>1, <1>3, <1>4, <1>5, <2>1
<1>7. D(b) >= low
  <2>1. CASE b \in Range(search.queue)
    <3>1. PICK i \in DOMAIN search.queue : b = search.queue[i]
      BY <2>1 DEF Range
    <3> QED
      BY <3>1 DEF During, Ordered
  <2>2. CASE b = h
    BY <1>0, <1>1, <2>2
  <2>3. CASE b \in Done(search) \ {h}
    <3>1. LeadsInside(search, b, steps)
      BY <2>3 DEF During, Closed
    <3> QED
      BY <1>4, <1>5, <3>1 DEF LeadsInside
  <2> QED
    BY <1>6, <2>1, <2>2, <2>3 DEF Done
<1>8. n <= D(y) /\ n = D(b) + 1
  BY <1>2, <1>3, <1>4, <1>5
<1> HIDE DEF D, low
<1>9. D(b) \in Nat /\ D(y) \in Nat /\ low \in Nat
  BY <1>0, <1>1 DEF low, D
<1> QED
  BY <1>7, <1>8, <1>9 DEF D, low

LEMMA Visiting ==
    ASSUME NEW steps \in SUBSET Int, NEW search, NEW h, During(search, h, steps),
           NEW s \in Usable(steps),
           NEW after, after = Visit(search, h, s)
    PROVE  /\ During(after, h, steps)
           /\ Done(after) = Done(search)
           /\ DOMAIN search.reached \subseteq DOMAIN after.reached
           /\ Residue(h + s) \in DOMAIN after.reached
<1> DEFINE y == Residue(h + s)
           R == DOMAIN search.reached
           q == search.queue
           D(c) == Distance(c, steps)
           low == D(h)
<1>1. CASE y \in R
  BY <1>1 DEF Visit
<1>2. CASE y \notin R
  <2>1. /\ after = [queue |-> Append(q, y),
                    reached |-> [c \in R \cup {y} |->
                                   IF c = y THEN [back |-> h, step |-> s] ELSE search.reached[c]]]
    BY <1>2 DEF Visit
  <2>2. /\ after = [queue |-> after.queue, reached |-> after.reached]
        /\ after.queue = Append(q, y)
        /\ DOMAIN after.reached = R \cup {y}
        /\ \A c \in R : c # y => after.reached[c] = search.reached[c]
        /\ after.reached[y] = [back |-> h, step |-> s]
    BY <2>1
  <2>3. h \in R /\ R \subseteq Reachable(steps) /\ s \in steps /\ s \in Int
    BY DEF During, Found, Done, Usable
  <2>4. y \in Reachable(steps) /\ D(y) <= low + 1
    BY <2>3, StepReaches
  <2>5. \A c \in Reachable(steps) : D(c) \in Nat
    BY DistanceIsLeast
  <2>6. D(y) >= low + 1
    BY <1>2, <2>4, Frontier
  <2>7. D(y) = low + 1
    <3>1. D(y) \in Nat /\ low \in Nat
      BY <2>3, <2>4, <2>5
    <3> HIDE DEF D, low
    <3> QED
      BY <2>4, <2>6, <3>1
  <2> HIDE DEF y
  <2>8. Found(after, steps)
    <3>1. ASSUME NEW c \in R \ {0} PROVE Discovered(after, c, steps)
      <4>1. Discovered(search, c, steps) /\ c # y
        BY <1>2 DEF During, Found
      <4> QED
        BY <2>2, <4>1 DEF Discovered
    <3>2. Discovered(after, y, steps)
      BY <2>2, <2>3, <2>7 DEF Discovered, y
    <3>3. 0 \in DOMAIN after.reached /\ DOMAIN after.reached \subseteq Reachable(steps)
      BY <2>2, <2>3, <2>4 DEF During, Found
    <3> QED
      BY <2>2, <3>1, <3>2, <3>3 DEF Found
  <2>9. q \in Seq(R) /\ Len(q) \in Nat /\ DOMAIN q = 1 .. Len(q)
        /\ (\A i \in DOMAIN q : q[i] \in R /\ q[i] \in Reachable(steps))
    BY <2>3 DEF During, Ordered
  <2>10. /\ Append(q, y) \in Seq(R \cup {y})
         /\ DOMAIN Append(q, y) = 1 .. Len(q) + 1
         /\ \A i \in 1 .. Len(q) : Append(q, y)[i] = q[i]
         /\ Append(q, y)[Len(q) + 1] = y
    <3>1. q \in Seq(R \cup {y})
      BY <2>9
    <3> QED
      BY <2>9, <3>1
  <2> DEFINE p == Append(q, y)
  <2>11. Ordered(after, low, steps)
    <3>1. \A i, j \in DOMAIN q : i < j => q[i] # q[j] /\ D(q[i]) <= D(q[j])
      BY DEF During, Ordered
    <3>2. \A i \in DOMAIN q : low <= D(q[i]) /\ D(q[i]) <= low + 1
      BY DEF During, Ordered
    <3>0. low \in Nat /\ D(y) \in Nat /\ \A i \in DOMAIN q : D(q[i]) \in Nat
      BY <2>3, <2>4, <2>5, <2>9
    <3> HIDE DEF D, low
    <3>3. ASSUME NEW i \in DOMAIN p, NEW j \in DOMAIN p, i < j
          PROVE  p[i] # p[j] /\ D(p[i]) <= D(p[j])
      <4>1. i \in 1 .. Len(q) /\ p[i] = q[i] /\ q[i] \in R
        BY <2>9, <2>10, <3>3
      <4>2. CASE j \in 1 .. Len(q)
        <5>1. p[j] = q[j]
          BY <2>10, <4>2
        <5> QED
          BY <2>9, <3>1, <3>3, <4>1, <4>2, <5>1
      <4>3. CASE j = Len(q) + 1
        <5>1. p[j] = y
          BY <2>10, <4>3
        <5>2. D(q[i]) <= D(y)
          BY <2>7, <2>9, <3>2, <4>1
        <5> QED
          BY <1>2, <4>1, <5>1, <5>2
      <4> QED
        BY <2>9, <2>10, <4>2, <4>3
    <3>4. ASSUME NEW i \in DOMAIN p PROVE low <= D(p[i]) /\ D(p[i]) <= low + 1
      <4>1. CASE i \in 1 .. Len(q)
        BY <2>9, <2>10, <3>2, <4>1
      <4>2. CASE i = Len(q) + 1
        BY <2>7, <2>10, <3>0, <4>2
      <4> QED
        BY <2>9, <2>10, <4>1, <4>2
    <3>5. p \in Seq(DOMAIN after.reached) /\ after.queue = p
      BY <2>2, <2>10
    <3> HIDE DEF p
    <3> QED
      BY <3>3, <3>4, <3>5 DEF Ordered, D
  <2>12. Done(after) = Done(search)
    <3>1. Range(p) = Range(q) \cup {y}
      <4>1. \A i \in DOMAIN q : i \in DOMAIN p /\ p[i] = q[i]
        BY <2>9, <2>10
      <4>2. Len(q) + 1 \in DOMAIN p /\ p[Len(q) + 1] = y
        BY <2>9, <2>10
      <4>3. \A i \in DOMAIN p : i \in DOMAIN q \/ i = Len(q) + 1
        BY <2>9, <2>10
      <4> HIDE DEF p
      <4> QED
        BY <4>1, <4>2, <4>3 DEF Range
    <3> HIDE DEF p
    <3> QED
      BY <1>2, <2>2, <3>1 DEF Done, p
  <2>13. Closed(after, Done(after) \ {h}, low, steps)
    <3>1. \A d \in Done(search) \ {h} : D(d) <= low /\ LeadsInside(search, d, steps)
      BY DEF During, Closed
    <3>2. \A d : LeadsInside(search, d, steps) => LeadsInside(after, d, steps)
      BY <2>2 DEF LeadsInside
    <3> QED
      BY <2>12, <3>1, <3>2 DEF Closed
  <2>14. h \in Done(after)
    BY <2>12 DEF During
  <2> QED
    BY <2>2, <2>8, <2>11, <2>12, <2>13, <2>14 DEF During, y
<1> QED
  BY <1>1, <1>2

LEMMA HeadAndTail ==
    ASSUME NEW A, NEW q \in Seq(A), q # <<>>
    PROVE  /\ Len(q) \in Nat /\ Len(q) >= 1 /\ DOMAIN q = 1 .. Len(q)
           /\ Head(q) = q[1] /\ q[1] \in A
           /\ Tail(q) \in Seq(A) /\ DOMAIN Tail(q) = 1 .. Len(q) - 1
           /\ \A i \in 1 .. Len(q) - 1 : Tail(q)[i] = q[i + 1]
<1>1. Len(q) \in Nat /\ Len(q) >= 1 /\ DOMAIN q = 1 .. Len(q) /\ Head(q) = q[1] /\ q[1] \in A
  OBVIOUS
<1>2. Tail(q) \in Seq(A) /\ Len(Tail(q)) = Len(q) - 1
  OBVIOUS
<1>3. DOMAIN Tail(q) = 1 .. Len(q) - 1
  BY <1>2
<1>4. \A i \in 1 .. Len(q) - 1 : Tail(q)[i] = q[i + 1]
  OBVIOUS
<1> QED
  BY <1>1, <1>2, <1>3, <1>4

LEMMA PoppedIs ==
    ASSUME NEW a, NEW b
    PROVE  Popped([queue |-> a, reached |-> b]) = [queue |-> Tail(a), reached |-> b]
<1> DEFINE s == [queue |-> a, reached |-> b]
           p == Popped(s)
<1>1. DOMAIN s = {"queue", "reached"} /\ s.queue = a /\ s.reached = b
  OBVIOUS
<1> HIDE DEF s
<1>2. DOMAIN p = {"queue", "reached"} /\ p.queue = Tail(a) /\ p.reached = b
      /\ p = [x \in {"queue", "reached"} |-> p[x]]
  BY <1>1 DEF Popped
<1> HIDE DEF p
<1>3. p = [queue |-> Tail(a), reached |-> b]
  BY <1>2
<1> QED
  BY <1>3 DEF p, s

LEMMA Expanding ==
    ASSUME NEW steps \in SUBSET Int, IsFiniteSet(steps),
           NEW target, NEW search, ~Searched(search, target),
           NEW low \in Nat, Between(search, low, steps),
           NEW after, after = Expand(search, target, steps)
    PROVE  \E h : /\ h \notin Done(search)
                  /\ Done(after) = Done(search) \cup {h}
                  /\ Distance(h, steps) \in Nat
                  /\ Between(after, Distance(h, steps), steps)
<1> DEFINE q == search.queue
           h == Head(q)
           t == Tail(q)
           D(c) == Distance(c, steps)
           popped == Popped(search)
           R == DOMAIN search.reached
<1>1. /\ q \in Seq(R) /\ q # <<>> /\ Len(q) \in Nat /\ Len(q) >= 1 /\ DOMAIN q = 1 .. Len(q)
      /\ R \subseteq Reachable(steps)
  <2>1. q \in Seq(R) /\ q # <<>>
    BY DEF Between, Ordered, Searched
  <2> QED
    BY <2>1 DEF Between, Found
<1>2. /\ h = q[1] /\ h \in R /\ t \in Seq(R) /\ DOMAIN t = 1 .. Len(q) - 1
      /\ \A i \in 1 .. Len(q) - 1 : t[i] = q[i + 1] /\ i + 1 \in DOMAIN q
  <2>1. \A i \in 1 .. Len(q) - 1 : i + 1 \in DOMAIN q
    BY <1>1
  <2> HIDE DEF q, R
  <2> QED
    BY <1>1, <2>1, HeadAndTail
<1>3. /\ popped = [queue |-> popped.queue, reached |-> popped.reached]
      /\ popped.queue = t /\ popped.reached = search.reached
  <2>1. search = [queue |-> search.queue, reached |-> search.reached]
    BY DEF Between, Found
  <2>2. popped = [queue |-> t, reached |-> search.reached]
    <3> DEFINE a == search.queue
               b == search.reached
    <3>1. search = [queue |-> a, reached |-> b]
      BY <2>1
    <3> HIDE DEF a, b
    <3>2. Popped(search) = [queue |-> Tail(a), reached |-> b]
      BY <3>1, PoppedIs
    <3> QED
      BY <3>2 DEF a, b, popped, t
  <2> HIDE DEF popped, t
  <2> QED
    BY <2>2
<1> HIDE DEF popped, t, h
<1>4. \A c \in R : D(c) \in Nat
  BY <1>1, DistanceIsLeast
<1>5. /\ \A i, j \in DOMAIN q : i < j => q[i] # q[j] /\ D(q[i]) <= D(q[j])
      /\ \A i \in DOMAIN q : low <= D(q[i]) /\ D(q[i]) <= low + 1 /\ q[i] \in R
  BY <1>1 DEF Between, Ordered
<1>6. h \in Range(q) /\ h \notin Range(t) /\ Range(q) = Range(t) \cup {h}
  <2>1. 1 \in DOMAIN q
    BY <1>1
  <2>2. \A i \in DOMAIN q : i = 1 \/ (i - 1 \in DOMAIN t /\ t[i - 1] = q[i])
    BY <1>1, <1>2
  <2>3. \A i \in DOMAIN t : i + 1 \in DOMAIN q /\ t[i] = q[i + 1] /\ 1 < i + 1
    BY <1>1, <1>2
  <2>4. h \notin Range(t)
    BY <1>2, <1>5, <2>1, <2>3 DEF Range
  <2> QED
    BY <1>2, <2>1, <2>2, <2>3, <2>4 DEF Range
<1>7. h \notin Done(search) /\ Done(popped) = Done(search) \cup {h}
  BY <1>2, <1>3, <1>6 DEF Done
<1>8. During(popped, h, steps)
  <2>1. Found(popped, steps)
    BY <1>3 DEF Between, Found, Discovered
  <2>2. h \in Done(popped)
    BY <1>7
  <2>3. Ordered(popped, D(h), steps)
    <3>1. ASSUME NEW i \in DOMAIN t
          PROVE  D(h) <= D(t[i]) /\ D(t[i]) <= D(h) + 1
      <4>1. i + 1 \in DOMAIN q /\ t[i] = q[i + 1] /\ 1 < i + 1 /\ 1 \in DOMAIN q
        BY <1>1, <1>2
      <4>2. D(h) <= D(t[i])
        BY <1>2, <1>5, <4>1
      <4>3. D(t[i]) <= low + 1 /\ low <= D(h) /\ t[i] \in R
        BY <1>2, <1>5, <4>1
      <4>4. D(h) \in Nat /\ D(t[i]) \in Nat
        BY <1>2, <1>4, <4>3
      <4> HIDE DEF D
      <4> QED
        BY <4>2, <4>3, <4>4
    <3>2. ASSUME NEW i \in DOMAIN t, NEW j \in DOMAIN t, i < j
          PROVE  t[i] # t[j] /\ D(t[i]) <= D(t[j])
      <4>1. i + 1 \in DOMAIN q /\ t[i] = q[i + 1] /\ j + 1 \in DOMAIN q /\ t[j] = q[j + 1]
            /\ i + 1 < j + 1
        <5>1. i \in 1 .. Len(q) - 1 /\ j \in 1 .. Len(q) - 1
          BY <1>2
        <5>2. i + 1 < j + 1
          BY <1>1, <3>2, <5>1
        <5> QED
          BY <1>2, <5>1, <5>2
      <4> QED
        BY <1>5, <4>1
    <3> QED
      BY <1>2, <1>3, <3>1, <3>2 DEF Ordered
  <2>4. Closed(popped, Done(popped) \ {h}, D(h), steps)
    <3>1. Done(popped) \ {h} = Done(search)
      BY <1>7
    <3>2. ASSUME NEW d \in Done(search) PROVE D(d) <= D(h) /\ LeadsInside(popped, d, steps)
      <4>1. D(d) <= low /\ LeadsInside(search, d, steps)
        BY DEF Between, Closed
      <4>2. low <= D(h)
        BY <1>1, <1>2, <1>5
      <4>3. D(d) \in Nat /\ D(h) \in Nat
        BY <1>2, <1>4 DEF Done
      <4>4. LeadsInside(popped, d, steps)
        BY <1>3, <4>1 DEF LeadsInside
      <4> HIDE DEF D
      <4> QED
        BY <4>1, <4>2, <4>3, <4>4
    <3> QED
      BY <3>1, <3>2 DEF Closed
  <2> QED
    BY <2>1, <2>2, <2>3, <2>4 DEF During
<1> DEFINE sorted == SortedSteps(steps)
           n == Len(sorted)
<1>9. /\ n \in Nat /\ DOMAIN sorted = 1 .. n
      /\ \A k \in 1 .. n : sorted[k] \in Usable(steps)
      /\ \A s \in Usable(steps) : \E k \in 1 .. n : sorted[k] = s
  <2>1. sorted \in Seq(Usable(steps))
    BY SortedStepsAreUsable
  <2>2. \A s \in Usable(steps) : \E k \in 1 .. n : sorted[k] = s
    BY SortedStepsAreUsable
  <2> HIDE DEF sorted
  <2> QED
    BY <2>1, <2>2
<1>10. PICK v : /\ v[0] = popped
                /\ \A k \in 0 .. n - 1 : v[k + 1] = Visit(v[k], h, sorted[k + 1])
                /\ after = v[n]
  <2>1. \E v : /\ v[0] = Popped(search)
               /\ \A k \in 0 .. n - 1 : v[k + 1] = Visit(v[k], Head(search.queue), SortedSteps(steps)[k + 1])
               /\ Expand(search, target, steps) = v[n]
    BY <1>9, ExpandRuns
  <2> QED
    BY <2>1 DEF popped, h
<1> HIDE DEF sorted, n
<1> DEFINE Visited(k) == /\ During(v[k], h, steps)
                         /\ Done(v[k]) = Done(popped)
                         /\ \A j \in 1 .. k : Residue(h + sorted[j]) \in DOMAIN v[k].reached
           S == {k \in Nat : k <= n => Visited(k)}
<1>11. 0 \in S
  BY <1>8, <1>10
<1>12. ASSUME NEW k \in Nat, k \in S PROVE k + 1 \in S
  <2> SUFFICES ASSUME k + 1 <= n PROVE Visited(k + 1)
    OBVIOUS
  <2>1. k \in 0 .. n - 1 /\ k + 1 \in 1 .. n /\ Visited(k)
    BY <1>9, <1>12
  <2>2. v[k + 1] = Visit(v[k], h, sorted[k + 1]) /\ sorted[k + 1] \in Usable(steps)
    BY <1>9, <1>10, <2>1
  <2>3. /\ During(v[k + 1], h, steps)
        /\ Done(v[k + 1]) = Done(v[k])
        /\ DOMAIN v[k].reached \subseteq DOMAIN v[k + 1].reached
        /\ Residue(h + sorted[k + 1]) \in DOMAIN v[k + 1].reached
    BY <2>1, <2>2, Visiting
  <2>4. \A j \in 1 .. k + 1 : j \in 1 .. k \/ j = k + 1
    OBVIOUS
  <2> QED
    BY <2>1, <2>3, <2>4
<1>13. Visited(n)
  <2>1. n \in S
    <3> HIDE DEF S
    <3> QED
      BY <1>9, <1>11, <1>12, InductionOnNat
  <2> QED
    BY <1>9, <2>1
<1>14. During(after, h, steps) /\ Done(after) = Done(popped) /\ LeadsInside(after, h, steps)
  <2>1. LeadsInside(after, h, steps)
    BY <1>9, <1>10, <1>13 DEF LeadsInside
  <2> QED
    BY <1>10, <1>13, <2>1
<1>15. D(h) \in Nat
  BY <1>2, <1>4
<1>16. Between(after, D(h), steps)
  <2>1. Closed(after, Done(after), D(h), steps)
    <3>1. \A d \in Done(after) \ {h} : D(d) <= D(h) /\ LeadsInside(after, d, steps)
      BY <1>14 DEF During, Closed
    <3>2. D(h) <= D(h)
      BY <1>15
    <3> QED
      BY <1>14, <3>1, <3>2 DEF Closed
  <2> QED
    BY <1>14, <2>1 DEF Between, During
<1> QED
  BY <1>7, <1>14, <1>15, <1>16

LEMMA StartIsBetween ==
    ASSUME NEW steps
    PROVE  Between(Start, 0, steps) /\ Done(Start) = {}
<1>1. /\ Start = [queue |-> Start.queue, reached |-> Start.reached]
      /\ Start.queue = <<0>> /\ DOMAIN Start.reached = {0}
  BY DEF Start
<1>2. 0 \in Reachable(steps) /\ Distance(0, steps) = 0
  BY DistanceOfZero
<1> DEFINE q == <<0>>
<1>3. q \in Seq({0}) /\ DOMAIN q = {1} /\ q[1] = 0
  OBVIOUS
<1> HIDE DEF q
<1>4. Found(Start, steps)
  BY <1>1, <1>2 DEF Found
<1>5. Ordered(Start, 0, steps)
  BY <1>1, <1>2, <1>3 DEF Ordered, q
<1>6. Done(Start) = {}
  <2>1. 0 \in Range(q)
    BY <1>3 DEF Range
  <2> QED
    BY <1>1, <2>1 DEF Done, q
<1>7. Closed(Start, Done(Start), 0, steps)
  BY <1>6 DEF Closed
<1> QED
  BY <1>4, <1>5, <1>6, <1>7 DEF Between

\* NumSlots expansions are enough: there are no more residues to be done with.
LEMMA SearchEnds ==
    ASSUME NEW steps \in SUBSET Int, IsFiniteSet(steps), NEW target
    PROVE  \E search : /\ search.reached = Search(target, steps)
                      /\ \E low \in Nat : Between(search, low, steps)
                      /\ Searched(search, target)
<1> DEFINE N == NumSlots
<1>1. N \in Nat /\ N >= 1
  BY SlotsAssumption
<1>2. PICK v : /\ v[0] = Start
               /\ \A k \in 0 .. N - 1 : v[k + 1] = Expand(v[k], target, steps)
               /\ Search(target, steps) = v[N].reached
  BY SearchRuns
<1> HIDE DEF N
<1> DEFINE Went(k) == /\ \E low \in Nat : Between(v[k], low, steps)
                      /\ Searched(v[k], target) \/ Cardinality(Done(v[k])) = k
           S == {k \in Nat : k <= N => Went(k)}
<1>3. IsFiniteSet(Residues) /\ Cardinality(Residues) = N
  <2>1. 0 \in Int /\ N - 1 \in Int /\ Residues = 0 .. N - 1
    BY <1>1 DEF Residues, N
  <2>2. IsFiniteSet(0 .. N - 1) /\ Cardinality(0 .. N - 1) = IF 0 > N - 1 THEN 0 ELSE (N - 1) - 0 + 1
    BY <2>1, FS_Interval
  <2> QED
    BY <1>1, <2>1, <2>2
<1>4. ASSUME NEW search, NEW low, Between(search, low, steps)
      PROVE  IsFiniteSet(Done(search)) /\ Done(search) \in SUBSET Residues
  <2>1. Done(search) \in SUBSET Residues
    BY <1>4 DEF Between, Found, Done, Reachable
  <2> QED
    BY <1>3, <2>1, FS_Subset
<1>5. 0 \in S
  <2>1. Between(Start, 0, steps) /\ Cardinality(Done(Start)) = 0
    BY StartIsBetween, FS_EmptySet
  <2> QED
    BY <1>2, <2>1
<1>6. ASSUME NEW k \in Nat, k \in S PROVE k + 1 \in S
  <2> SUFFICES ASSUME k + 1 <= N PROVE Went(k + 1)
    OBVIOUS
  <2>1. k \in 0 .. N - 1 /\ Went(k) /\ v[k + 1] = Expand(v[k], target, steps)
    BY <1>1, <1>2, <1>6
  <2>2. CASE Searched(v[k], target)
    BY <2>1, <2>2 DEF Expand
  <2>3. CASE ~Searched(v[k], target)
    <3>1. PICK low \in Nat : Between(v[k], low, steps)
      BY <2>1
    <3>2. PICK h : /\ h \notin Done(v[k])
                   /\ Done(v[k + 1]) = Done(v[k]) \cup {h}
                   /\ Distance(h, steps) \in Nat
                   /\ Between(v[k + 1], Distance(h, steps), steps)
      BY <2>1, <2>3, <3>1, Expanding
    <3>3. IsFiniteSet(Done(v[k]))
      BY <1>4, <3>1
    <3>4. Cardinality(Done(v[k + 1])) = k + 1
      BY <2>1, <2>3, <3>2, <3>3, FS_AddElement
    <3> QED
      BY <3>2, <3>4
  <2> QED
    BY <2>2, <2>3
<1>7. Went(N)
  <2>1. N \in S
    <3> HIDE DEF S
    <3> QED
      BY <1>1, <1>5, <1>6, InductionOnNat
  <2> QED
    BY <1>1, <2>1
<1>8. Searched(v[N], target)
  <2> SUFFICES ASSUME Cardinality(Done(v[N])) = N PROVE v[N].queue = <<>>
    BY <1>7 DEF Searched
  <2>1. PICK low \in Nat : Between(v[N], low, steps)
    BY <1>7
  <2>2. Done(v[N]) = Residues
    BY <1>3, <1>4, <2>1, FS_Subset
  <2> DEFINE q == v[N].queue
             R == DOMAIN v[N].reached
  <2>3. q \in Seq(R) /\ R \subseteq Residues /\ Done(v[N]) = R \ Range(q)
    BY <2>1 DEF Between, Ordered, Found, Reachable, Done
  <2> HIDE DEF q, R
  <2>4. ASSUME q # <<>> PROVE FALSE
    <3>1. 1 \in DOMAIN q /\ q[1] \in R
      BY <2>3, <2>4
    <3>2. q[1] \in Range(q)
      BY <3>1 DEF Range
    <3> QED
      BY <2>2, <2>3, <3>1, <3>2
  <2> QED
    BY <2>4 DEF q
<1> QED
  BY <1>2, <1>7, <1>8

-----------------------------------------------------------------------------
(* The path *)

PathTo(c, path, reached) ==
    IF c = 0 THEN <<>> ELSE Append(path[reached[c].back], reached[c].step)

\* Whoever is reached has a path, since its way back gets shorter.
LEMMA PathExists ==
    ASSUME NEW steps \in SUBSET Int, NEW search, Found(search, steps)
    PROVE  \E path : path = [c \in DOMAIN search.reached |-> PathTo(c, path, search.reached)]
<1> DEFINE reached == search.reached
           R == DOMAIN reached
           D(c) == Distance(c, steps)
           Good(f, c) == f[c] = PathTo(c, f, reached)
           S == {n \in Nat : \E f : \A c \in R : D(c) <= n => Good(f, c)}
<1>1. ASSUME NEW c \in R PROVE D(c) \in Nat /\ (D(c) = 0 => c = 0)
                              /\ (c # 0 => reached[c].back \in R /\ D(c) = D(reached[c].back) + 1)
  <2>1. c \in Reachable(steps)
    BY DEF Found
  <2>2. c # 0 => Discovered(search, c, steps)
    BY DEF Found
  <2> QED
    BY <2>1, <2>2, DistanceIsLeast, DistanceOfZero DEF Discovered
<1> HIDE DEF D, reached, R
<1>2. 0 \in S
  <2> DEFINE f == [c \in R |-> <<>>]
  <2>1. ASSUME NEW c \in R, D(c) <= 0 PROVE Good(f, c)
    <3>1. c = 0
      BY <1>1, <2>1
    <3> QED
      BY <3>1 DEF PathTo
  <2> QED
    BY <2>1
<1>3. ASSUME NEW n \in Nat, n \in S PROVE n + 1 \in S
  <2>1. PICK f : \A c \in R : D(c) <= n => Good(f, c)
    BY <1>3
  <2> DEFINE g == [c \in R |-> PathTo(c, f, reached)]
  <2>2. ASSUME NEW c \in R, D(c) <= n + 1 PROVE Good(g, c)
    <3>1. CASE c = 0
      BY <3>1 DEF PathTo
    <3>2. CASE c # 0
      <4> DEFINE b == reached[c].back
      <4>1. b \in R /\ D(b) <= n
        BY <1>1, <2>2, <3>2
      <4>2. f[b] = g[b]
        BY <2>1, <4>1
      <4>3. PathTo(c, g, reached) = PathTo(c, f, reached)
        <5> HIDE DEF g
        <5> QED
          BY <4>2 DEF PathTo
      <4> QED
        BY <4>3
    <3> QED
      BY <3>1, <3>2
  <2> HIDE DEF g
  <2> QED
    BY <2>2
<1>4. \A n \in Nat : n \in S
  <2> HIDE DEF S
  <2> QED
    BY <1>2, <1>3, InductionOnNat
<1>5. PICK n \in Nat : \A c \in R : D(c) <= n
  <2>1. R \subseteq Residues
    BY DEF Found, R, reached, Reachable
  <2> DEFINE top(k) == \E n \in Nat : \A c \in R : c < k => D(c) <= n
             T == {k \in Nat : top(k)}
  <2>2. 0 \in T
    BY <2>1, SlotsAssumption DEF Residues
  <2>3. ASSUME NEW k \in Nat, k \in T PROVE k + 1 \in T
    <3>1. PICK n \in Nat : \A c \in R : c < k => D(c) <= n
      BY <2>3
    <3>2. CASE k \notin R
      <4>1. \A c \in R : c < k + 1 => c < k
        BY <2>1, <3>2 DEF Residues
      <4> QED
        BY <3>1, <4>1
    <3>3. CASE k \in R
      <4> DEFINE m == n + D(k)
      <4>1. m \in Nat /\ n <= m /\ D(k) <= m
        BY <1>1, <3>3
      <4>2. ASSUME NEW c \in R, c < k + 1 PROVE D(c) <= m
        <5>1. c < k \/ c = k
          BY <2>1, <4>2 DEF Residues
        <5> QED
          BY <1>1, <3>1, <4>1, <5>1
      <4> HIDE DEF m
      <4> QED
        BY <4>1, <4>2
    <3> QED
      BY <3>2, <3>3
  <2>4. NumSlots \in T
    <3> HIDE DEF T
    <3> QED
      BY <2>2, <2>3, InductionOnNat, SlotsAssumption
  <2>5. \A c \in R : c < NumSlots
    BY <2>1, SlotsAssumption DEF Residues
  <2> QED
    BY <2>4, <2>5
<1>6. PICK f : \A c \in R : Good(f, c)
  BY <1>4, <1>5
<1> DEFINE g == [c \in R |-> f[c]]
<1>7. ASSUME NEW c \in R PROVE g[c] = PathTo(c, g, reached)
  <2>1. f[c] = PathTo(c, f, reached) /\ g[c] = f[c]
    BY <1>6
  <2>2. c # 0 => reached[c].back \in R
    BY <1>1
  <2>3. c # 0 => g[reached[c].back] = f[reached[c].back]
    BY <2>2
  <2> HIDE DEF g
  <2> QED
    BY <2>1, <2>3 DEF PathTo
<1>8. g = [c \in R |-> g[c]]
  OBVIOUS
<1> HIDE DEF g
<1>9. g = [c \in R |-> PathTo(c, g, reached)]
  BY <1>7, <1>8
<1> QED
  BY <1>9 DEF R, reached

\* A path is as long as its end is far, and leads there.
LEMMA PathLeads ==
    ASSUME NEW steps \in SUBSET Int, NEW search, Found(search, steps),
           NEW path, path = [c \in DOMAIN search.reached |-> PathTo(c, path, search.reached)],
           NEW target \in DOMAIN search.reached
    PROVE  /\ path[target] \in Seq(Usable(steps))
           /\ Len(path[target]) = Distance(target, steps)
           /\ Residue(Sum(path[target])) = target
           /\ Sum(path[target]) \in Int
<1> DEFINE reached == search.reached
           R == DOMAIN reached
           D(c) == Distance(c, steps)
           Leads(c) == /\ path[c] \in Seq(Usable(steps))
                       /\ Len(path[c]) = D(c)
                       /\ Residue(Sum(path[c])) = c
                       /\ Sum(path[c]) \in Int
           S == {n \in Nat : \A c \in R : D(c) = n => Leads(c)}
<1>1. ASSUME NEW c \in R PROVE D(c) \in Nat /\ (D(c) = 0 => c = 0) /\ (c = 0 => D(c) = 0)
                              /\ (c # 0 => Discovered(search, c, steps))
  <2>1. c \in Reachable(steps)
    BY DEF Found
  <2> QED
    BY <2>1, DistanceIsLeast, DistanceOfZero DEF Found
<1>2. \A c \in R : path[c] = PathTo(c, path, reached)
  OBVIOUS
<1> HIDE DEF Leads, D
<1>3. 0 \in S
  <2> SUFFICES ASSUME NEW c \in R, D(c) = 0 PROVE Leads(c)
    OBVIOUS
  <2> DEFINE e == <<>>
  <2>1. c = 0
    BY <1>1
  <2>2. path[c] = e
    BY <1>2, <2>1 DEF PathTo
  <2>3. 0 \in Residues
    BY SlotsAssumption DEF Residues
  <2>4. Sum(e) = 0 /\ Residue(Sum(e)) = 0 /\ Sum(e) \in Int
    BY <2>3, SumOfNothing, ResidueOfResidue
  <2>5. e \in Seq(Usable(steps)) /\ Len(e) = 0
    OBVIOUS
  <2> HIDE DEF e
  <2> QED
    BY <2>1, <2>2, <2>4, <2>5 DEF Leads
<1>4. ASSUME NEW n \in Nat, n \in S PROVE n + 1 \in S
  <2> SUFFICES ASSUME NEW c \in R, D(c) = n + 1 PROVE Leads(c)
    OBVIOUS
  <2>1. c # 0
    BY <1>1
  <2> DEFINE b == reached[c].back
             s == reached[c].step
  <2>2. b \in R /\ s \in Usable(steps) /\ c = Residue(b + s) /\ D(c) = D(b) + 1
    BY <1>1, <2>1 DEF Discovered, D
  <2>3. path[c] = Append(path[b], s)
    BY <1>2, <2>1 DEF PathTo
  <2> HIDE DEF b, s
  <2>4. D(b) = n
    BY <1>1, <2>2
  <2>5. Leads(b)
    BY <1>4, <2>2, <2>4
  <2> DEFINE p == path[b]
  <2>6. p \in Seq(Usable(steps)) /\ p \in Seq(Int) /\ Len(p) = n /\ Residue(Sum(p)) = b /\ Sum(p) \in Int
        /\ s \in Int /\ b \in Int
    <3>1. Usable(steps) \subseteq Int
      BY DEF Usable
    <3>2. b \in Residues
      BY <2>2 DEF Found, Reachable
    <3>3. p \in Seq(Usable(steps))
      BY <2>5 DEF Leads
    <3>4. p \in Seq(Int)
      BY <3>1, <3>3
    <3> QED
      BY <2>2, <2>4, <2>5, <3>1, <3>2, <3>4 DEF Residues, Leads
  <2> HIDE DEF p
  <2>7. Sum(Append(p, s)) = Sum(p) + s
    BY <2>6, SumOfAppend
  <2>8. Residue(Sum(p) + s) = c
    BY <2>2, <2>6, ResidueOfSum
  <2>9. Append(p, s) \in Seq(Usable(steps)) /\ Len(Append(p, s)) = n + 1
    BY <2>2, <2>6
  <2>10. Sum(p) + s \in Int /\ path[c] = Append(p, s)
    <3>1. path[c] = Append(p, s)
      BY <2>3 DEF p
    <3>2. Sum(p) + s \in Int
      BY <2>6
    <3> QED
      BY <3>1, <3>2
  <2> DEFINE r == Append(p, s)
  <2>11. /\ path[c] = r /\ r \in Seq(Usable(steps)) /\ Len(r) = D(c)
         /\ Residue(Sum(r)) = c /\ Sum(r) \in Int
    BY <2>7, <2>8, <2>9, <2>10
  <2> HIDE DEF r
  <2> QED
    BY <2>11 DEF Leads
<1>5. D(target) \in S
  <2>1. D(target) \in Nat
    BY <1>1
  <2> HIDE DEF S
  <2> QED
    BY <1>3, <1>4, <2>1, InductionOnNat
<1> QED
  BY <1>5 DEF Leads, D

LEMMA DecompositionIsShortest ==
    ASSUME NEW steps \in SUBSET Int, IsFiniteSet(steps),
           NEW rotation \in Int, Residue(rotation) # 0
    PROVE  IsShortestPath(DecomposeRotationStep(rotation, steps), rotation, steps)
<1> DEFINE t == Residue(rotation)
           path == DecomposeRotationStep(rotation, steps)
           reached == Search(t, steps)
           E(f) == f = [c \in DOMAIN reached |-> PathTo(c, f, reached)]
           p == CHOOSE f : E(f)
<1>1. path = IF t \in DOMAIN reached THEN p[t] ELSE NoPath
  BY DEF DecomposeRotationStep, PathTo
<1>2. t \in Residues
  BY ResidueProperties
<1> HIDE DEF t
<1>3. PICK search : /\ search.reached = reached
                    /\ \E low \in Nat : Between(search, low, steps)
                    /\ Searched(search, t)
  BY SearchEnds
<1>4. PICK low \in Nat : Between(search, low, steps)
  BY <1>3
<1>5. Found(search, steps)
  BY <1>4 DEF Between
<1>6. CASE t \in DOMAIN reached
  <2>1. \E f : E(f)
    BY <1>3, <1>5, PathExists
  <2>2. E(p)
    <3> HIDE DEF E
    <3> QED
      BY <2>1
  <2> HIDE DEF p, path
  <2>3. /\ path \in Seq(Usable(steps))
        /\ Len(path) = Distance(t, steps)
        /\ Residue(Sum(path)) = t
    BY <1>1, <1>3, <1>5, <1>6, <2>2, PathLeads
  <2>4. t \in Reachable(steps)
    BY <1>3, <1>5, <1>6 DEF Found
  <2>5. \A n \in 0 .. Len(path) - 1 : t \notin Sums(n, steps)
    <3> SUFFICES ASSUME NEW n \in 0 .. Len(path) - 1, t \in Sums(n, steps) PROVE FALSE
      OBVIOUS
    <3>1. n \in Nat /\ Distance(t, steps) \in Nat /\ n < Distance(t, steps)
      BY <2>3, <2>4, DistanceIsLeast
    <3> QED
      BY <2>4, <3>1, DistanceIsLeast
  <2>6. \A i \in DOMAIN path : path[i] \in Usable(steps)
    BY <2>3
  <2>7. path # NoPath
    <3> SUFFICES ASSUME path = NoPath PROVE FALSE
      OBVIOUS
    <3>1. 1 \in DOMAIN path /\ path[1] = 0
      BY DEF NoPath
    <3>2. Residue(0) # 0
      BY <2>6, <3>1 DEF Usable
    <3>3. 0 \in Residues
      BY SlotsAssumption DEF Residues
    <3> QED
      BY <3>2, <3>3, ResidueOfResidue
  <2>8. \A i \in DOMAIN path : path[i] \in steps
    BY <2>6 DEF Usable
  <2> QED
    BY <2>3, <2>5, <2>7, <2>8 DEF IsShortestPath, Sum, t, path
<1>7. CASE t \notin DOMAIN reached
  <2>1. search.queue = <<>>
    BY <1>3, <1>7 DEF Searched
  <2> DEFINE R == DOMAIN reached
             S == {n \in Nat : Sums(n, steps) \subseteq R}
  <2>2. Done(search) = R
    <3>1. Range(<<>>) = {}
      BY DEF Range
    <3> QED
      BY <1>3, <2>1, <3>1 DEF Done
  <2>3. ASSUME NEW c \in R, NEW s \in steps PROVE Residue(c + s) \in R
    <3>1. CASE s \in Usable(steps)
      BY <1>3, <1>4, <2>2, <3>1 DEF Between, Closed, LeadsInside
    <3>2. CASE s \notin Usable(steps)
      <4>1. Residue(s) = 0 /\ s \in Int
        BY <3>2 DEF Usable
      <4>2. c \in Residues
        BY <1>3, <1>5 DEF Found, Reachable
      <4> QED
        BY <4>1, <4>2, ResidueOfNoStep
    <3> QED
      BY <3>1, <3>2
  <2>4. 0 \in S
    BY <1>3, <1>5, SumsUnfold DEF Found
  <2>5. ASSUME NEW n \in Nat, n \in S PROVE n + 1 \in S
    <3>1. Sums(n + 1, steps) = Further(Sums(n, steps), steps)
      BY SumsUnfold
    <3> QED
      BY <2>3, <2>5, <3>1 DEF Further
  <2>6. \A n \in Nat : t \notin Sums(n, steps)
    <3>1. \A n \in Nat : n \in S
      <4> HIDE DEF S
      <4> QED
        BY <2>4, <2>5, InductionOnNat
    <3> QED
      BY <1>7, <3>1
  <2>7. path = NoPath /\ 0 .. NumSlots \subseteq Nat
    BY <1>1, <1>7, SlotsAssumption
  <2> HIDE DEF path
  <2> QED
    BY <2>6, <2>7 DEF IsShortestPath, t, path
<1> QED
  BY <1>6, <1>7

\* RotationSteps lie in a bounded range, so finitely many are installed.
LEMMA SearchesGoWell ==
    ASSUME NEW installed \in SUBSET RotationSteps
    PROVE  SearchesWell(installed)
<1>1. \A s \in RotationSteps : s \in -NumSlots .. NumSlots /\ s \in Int
  <2> SUFFICES ASSUME NEW s \in RotationSteps PROVE s \in -NumSlots .. NumSlots /\ s \in Int
    OBVIOUS
  <2>1. s \in Int /\ NormalizeStep(s) = s
    BY KeyAssumption
  <2> QED
    BY <2>1, NormalizedStep
<1>2. NumSlots \in Int /\ NumSlots > 0
  BY SlotsAssumption
<1>3. installed \in SUBSET Int /\ IsFiniteSet(installed)
  <2>1. -NumSlots \in Int /\ installed \in SUBSET (-NumSlots .. NumSlots)
    BY <1>1, <1>2
  <2>2. IsFiniteSet(-NumSlots .. NumSlots)
    BY <1>2, <2>1, FS_Interval
  <2> QED
    BY <1>1, <2>1, <2>2, FS_Subset
<1>4. ASSUME NEW n \in 1 .. NumSlots - 1
      PROVE  IsShortestPath(RotationKeyPath(NormalizeStep(n), installed), NormalizeStep(n), installed)
  <2> DEFINE step == NormalizeStep(n)
  <2>1. n \in Int /\ n \in Residues /\ n # 0
    BY <1>2 DEF Residues
  <2>2. step \in Int /\ Residue(step) = n
    BY <2>1, NormalizedStep, ResidueOfResidue
  <2> HIDE DEF step
  <2>3. CASE step \in installed
    <3> DEFINE path == <<step>>
    <3>1. RotationKeyPath(step, installed) = path
      BY <2>3 DEF RotationKeyPath
    <3>2. Sum(path) = step
      <4> DEFINE e == <<>>
      <4>1. path = Append(e, step) /\ e \in Seq(Int)
        BY <2>2
      <4>2. Sum(e) = 0
        BY SumOfNothing
      <4> HIDE DEF e
      <4>3. Sum(Append(e, step)) = Sum(e) + step
        BY <2>2, <4>1, SumOfAppend
      <4>4. 0 + step = step
        BY <2>2
      <4> HIDE DEF path
      <4> QED
        BY <4>1, <4>2, <4>3, <4>4
    <3>3. Len(path) = 1 /\ DOMAIN path = {1} /\ path[1] = step
      OBVIOUS
    <3>4. 0 \in Residues /\ Residue(0) = 0
      <4>1. 0 \in Residues
        BY SlotsAssumption DEF Residues
      <4> QED
        BY <4>1, ResidueOfResidue
    <3>5. path # NoPath
      BY <2>1, <2>2, <3>3, <3>4 DEF NoPath
    <3> HIDE DEF path
    <3>6. \A i \in 0 .. Len(path) - 1 : n \notin Sums(i, installed)
      <4>1. Sums(0, installed) = {0}
        BY SumsUnfold
      <4>2. \A i \in 0 .. Len(path) - 1 : i = 0
        BY <3>3
      <4> QED
        BY <2>1, <4>1, <4>2
    <3> QED
      BY <2>2, <2>3, <3>1, <3>2, <3>3, <3>5, <3>6 DEF IsShortestPath, Sum, step
  <2>4. CASE step \notin installed
    <3>1. RotationKeyPath(step, installed) = DecomposeRotationStep(step, installed)
      BY <2>4 DEF RotationKeyPath
    <3>2. IsShortestPath(DecomposeRotationStep(step, installed), step, installed)
      BY <1>3, <2>1, <2>2, DecompositionIsShortest
    <3> QED
      BY <3>1, <3>2 DEF step
  <2> QED
    BY <2>3, <2>4
<1> QED
  BY <1>4 DEF SearchesWell

\* Whatever steps have keys in an engine of any number of slots, a rotation is
\* composed of the fewest installed rotations that add up to it, and is only
\* refused when none do: decompose_rotation_step's search is exact.
THEOREM PathsAreShortest == Spec => []RotationPathsAreShortest
<1>1. RotationPathsAreShortest
  <2>1. InstalledSteps \in SUBSET RotationSteps
    BY DEF InstalledSteps
  <2>2. SearchesWell(InstalledSteps) = TRUE
    BY <2>1, SearchesGoWell DEF SearchesWell
  <2> QED
    BY <2>1, <2>2 DEF RotationPathsAreShortest, Searches
<1> QED
  BY <1>1, PTL
=============================================================================
