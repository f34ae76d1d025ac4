------------------------------ MODULE EngineKeys ------------------------------
(***************************************************************************)
(* The keys of an eager Engine: the inventory, the symbols evaluation keys *)
(* are bound to, and the cache of replicas on other devices.  One thread   *)
(* uses an engine.                                                         *)
(*                                                                         *)
(* The cache knows a key by its Python identity and the version of its     *)
(* tensor, so addresses matter: an object nobody refers to is freed and    *)
(* its address may be that of the next key.                                *)
(*                                                                         *)
(* The application keeps to its part (docs/concepts/ckks/key-lifecycle.md):*)
(* a key it installs belongs to the secret of the keys installed already,  *)
(* or is a new secret.  A conjugation key is treated like a                *)
(* relinearization key.                                                    *)
(***************************************************************************)
EXTENDS RotationPaths

CONSTANTS
    Addresses,
    None,
    Secrets,            \* secret polynomials
    RotationSteps,      \* steps keys are made for
    OtherSymbols,       \* symbols that are not those of a role
    Devices,            \* devices other than the one that holds the keys
    MaxVersion          \* bound: writes into one key

Role(kind, step) == [kind |-> kind, step |-> step]
SecretRole == Role("secret", 0)
PublicRole == Role("public", 0)
Relinearization == Role("relinearization", 0)
Rotation(step) == Role("rotation", step)

EvaluationRoles == {Relinearization} \cup {Rotation(s) : s \in RotationSteps}
Roles == EvaluationRoles \cup {SecretRole, PublicRole}

\* The engine binds a key to the symbol of its role; the caller may choose any
\* other, that of another role too.
Symbols == EvaluationRoles \cup OtherSymbols

Keys == [role : Roles, secret : Secrets, version : 0 .. MaxVersion]

ASSUME KeyAssumption ==
    /\ None \notin Addresses
    /\ None \notin Keys
    /\ OtherSymbols \cap Roles = {}
    /\ \A s \in RotationSteps : s \in Int /\ NormalizeStep(s) = s
    /\ MaxVersion \in Nat

VARIABLES
    heap,          \* the key at an address, or None
    held,          \* keys the application refers to
    engine,        \* the inventory, and bound: the evaluation key under a symbol
    replicas,      \* cached copies on other devices
    adrift         \* history: an installed evaluation key had no symbol

vars == <<heap, held, engine, replicas, adrift>>

NoKeys == [r \in EvaluationRoles |-> None]
NoSymbols == [s \in Symbols |-> None]
NoEngineKeys == [secret |-> None, public |-> None, evaluation |-> NoKeys, bound |-> NoSymbols]

Installed(e) == {e.evaluation[r] : r \in EvaluationRoles} \ {None}
Bound(e) == {e.bound[s] : s \in Symbols} \ {None}

\* _owns_key
Owned(e) == ({e.secret, e.public} \ {None}) \cup Installed(e) \cup Bound(e)

Init ==
    /\ heap = [a \in Addresses |-> None]
    /\ held = {}
    /\ engine = NoEngineKeys
    /\ replicas = {}
    /\ adrift = FALSE

FreeAddresses == {a \in Addresses : heap[a] = None}
NewKey(role, secret) == [role |-> role, secret |-> secret, version |-> 0]

\* Every step ends with the collection of the keys nobody refers to.
Becomes(keys, refs, e, rs) ==
    /\ heap' = LET live == refs \cup Owned(e)
               IN  [a \in Addresses |-> IF a \in live THEN keys[a] ELSE None]
    /\ held' = refs
    /\ engine' = e
    /\ replicas' = rs
    /\ adrift' = (adrift \/ ~(Installed(e) \subseteq Bound(e)))

-----------------------------------------------------------------------------
(* The application *)

\* A key is generated, loaded or received.
Create(role, secret) ==
    \E a \in FreeAddresses :
        Becomes([heap EXCEPT ![a] = NewKey(role, secret)], held \cup {a}, engine, replicas)

Forget(a) ==
    /\ a \in held
    /\ Becomes(heap, held \ {a}, engine, replicas)

\* A write into the key's tensor, which counts its versions.
Write(a) ==
    /\ a \in Owned(engine)
    /\ heap[a].version < MaxVersion
    /\ Becomes([heap EXCEPT ![a].version = @ + 1], held, engine, replicas)

Belongs(a) == \A b \in Owned(engine) : heap[b].secret = heap[a].secret

-----------------------------------------------------------------------------
(* Evaluation keys *)

DiscardReplicas(rs, a) == {r \in rs : r.at # a}

\* Mutated: the replicas of the key that was bound before are kept.
RebindQuietly(rs, e, symbol, a) == rs

\* The key bound before gives up its replicas, unless it is bound again.
Rebind(rs, e, symbol, a) ==
    IF e.bound[symbol] \in {None, a} THEN rs ELSE DiscardReplicas(rs, e.bound[symbol])

WithEvaluationKey(e, symbol, role, a) ==
    [e EXCEPT !.evaluation[role] = a, !.bound[symbol] = a]

InstallEvaluationKey(symbol, a) ==
    /\ a \in held
    /\ heap[a].role \in EvaluationRoles
    /\ Belongs(a)
    /\ Becomes(heap, held, WithEvaluationKey(engine, symbol, heap[a].role, a),
               Rebind(replicas, engine, symbol, a))

\* A key that is refused: by then the replicas are gone.
RefuseEvaluationKey(symbol) ==
    Becomes(heap, held, engine, Rebind(replicas, engine, symbol, None))

\* Only the role's own symbol takes the key out of the inventory.
WithoutSymbol(e, symbol) ==
    LET removed == e.bound[symbol]
        unbound == [e EXCEPT !.bound[symbol] = None]
    IN  IF /\ removed # None
           /\ heap[removed].role = symbol
           /\ e.evaluation[symbol] = removed
        THEN [unbound EXCEPT !.evaluation[symbol] = None]
        ELSE unbound

RemoveEvaluationKey(symbol) ==
    /\ engine.bound[symbol] # None
    /\ Becomes(heap, held, WithoutSymbol(engine, symbol),
               DiscardReplicas(replicas, engine.bound[symbol]))

\* set_relinearization_key(None)
ClearRelinearizationKey ==
    Becomes(heap, held,
            [WithoutSymbol(engine, Relinearization) EXCEPT !.evaluation[Relinearization] = None],
            Rebind(replicas, engine, Relinearization, None))

-----------------------------------------------------------------------------
(* Secret and public keys *)

\* Mutated: rotation keys outlive their secret.
WithSecretKeepingRotations(e, a) ==
    [secret |-> a, public |-> None, bound |-> NoSymbols,
     evaluation |-> [e.evaluation EXCEPT ![Relinearization] = None]]

\* A new secret invalidates all other keys.
WithSecret(e, a) == [NoEngineKeys EXCEPT !.secret = a]

SetSecretKey(a) ==
    /\ a # engine.secret
    /\ a = None \/ (a \in held /\ heap[a].role = SecretRole)
    /\ Becomes(heap, held, WithSecret(engine, a), {})

\* A secret key that is refused: by then symbols and replicas are gone.
RefuseSecretKey == Becomes(heap, held, [engine EXCEPT !.bound = NoSymbols], {})

SetPublicKey(a) ==
    /\ a = None \/ (a \in held /\ heap[a].role = PublicRole /\ Belongs(a))
    /\ Becomes(heap, held, [engine EXCEPT !.public = a], {})

RefusePublicKey == Becomes(heap, held, engine, {})

-----------------------------------------------------------------------------
(* Keys generated when they are first asked for.  An engine that may not   *)
(* generate keys only makes public keys, of the secret it has.             *)

GenerateSecret ==
    /\ engine.secret = None
    /\ \E a \in FreeAddresses, s \in Secrets :
          Becomes([heap EXCEPT ![a] = NewKey(SecretRole, s)], held, WithSecret(engine, a), {})

Derive(keys, e, rs, role, a) ==
    LET made == [keys EXCEPT ![a] = NewKey(role, keys[e.secret].secret)]
    IN  IF role = PublicRole
        THEN Becomes(made, held, [e EXCEPT !.public = a], rs)
        ELSE Becomes(made, held, WithEvaluationKey(e, role, role, a), Rebind(rs, e, role, a))

Missing(role) ==
    IF role = PublicRole THEN engine.public = None ELSE engine.evaluation[role] = None

Generate(role) ==
    /\ Missing(role)
    /\ engine.secret # None
    /\ \E a \in FreeAddresses : Derive(heap, engine, replicas, role, a)

\* The secret is generated on the way.
GenerateBoth(role) ==
    /\ Missing(role)
    /\ engine.secret = None
    /\ \E b \in FreeAddresses, s \in Secrets : \E a \in FreeAddresses \ {b} :
          Derive([heap EXCEPT ![b] = NewKey(SecretRole, s)], WithSecret(engine, b), {}, role, a)

-----------------------------------------------------------------------------
(* Keys on other devices *)

Replica(a, device) ==
    [at |-> a, version |-> heap[a].version, device |-> device, of |-> heap[a]]

SameToken(r, a, device) ==
    r.at = a /\ r.version = heap[a].version /\ r.device = device

\* _key_on_device: of the key's replicas only the one asked for stays.
UseOnDevice(a, device) ==
    LET kept == {r \in replicas : r.at # a \/ SameToken(r, a, device)}
    IN  /\ a \in Owned(engine)
        /\ Becomes(heap, held, engine,
                   IF \E r \in kept : SameToken(r, a, device) THEN kept
                   ELSE kept \cup {Replica(a, device)})

-----------------------------------------------------------------------------
Next ==
    \/ \E role \in Roles, s \in Secrets : Create(role, s)
    \/ \E a \in Addresses : Forget(a) \/ Write(a)
    \/ \E symbol \in Symbols, a \in Addresses : InstallEvaluationKey(symbol, a)
    \/ \E symbol \in Symbols : RefuseEvaluationKey(symbol) \/ RemoveEvaluationKey(symbol)
    \/ ClearRelinearizationKey
    \/ \E a \in Addresses \cup {None} : SetSecretKey(a) \/ SetPublicKey(a)
    \/ RefuseSecretKey \/ RefusePublicKey
    \/ GenerateSecret
    \/ \E role \in EvaluationRoles \cup {PublicRole} : Generate(role) \/ GenerateBoth(role)
    \/ \E a \in Addresses, device \in Devices : UseOnDevice(a, device)

Spec == Init /\ [][Next]_vars

-----------------------------------------------------------------------------
(* Properties *)

\* Whatever was replaced, generated or invalidated on the way, the keys an
\* engine holds all belong to one secret: no operation mixes keys of two.
KeysShareTheSecret ==
    \A a, b \in Owned(engine) : heap[a].secret = heap[b].secret

\* The cache answers for a key with its present contents, also after writes
\* and reused addresses, and keeps no replica of a key that is gone, as long
\* as every installed evaluation key is bound to a symbol.
ReplicasFollowTheirKeys ==
    ~adrift => \A r \in replicas :
        /\ r.at \in Owned(engine)
        /\ r.version = heap[r.at].version => r.of = heap[r.at]

\* _rotation_key_path of an engine that generates no keys.
RotationKeyPath(step, installed) ==
    IF step \in installed THEN <<step>> ELSE DecomposeRotationStep(step, installed)

InstalledSteps == {s \in RotationSteps : engine.evaluation[Rotation(s)] # None}

SearchesWell(installed) ==
    \A n \in 1 .. NumSlots - 1 :
        LET step == NormalizeStep(n)
        IN  IsShortestPath(RotationKeyPath(step, installed), step, installed)

\* The sets of steps, each with the verdict on all searches from it.
Searches == {<<installed, SearchesWell(installed)>> : installed \in SUBSET RotationSteps}

\* A rotation is composed of the fewest installed rotations that add up to it,
\* and is only refused when none do.
RotationPathsAreShortest == <<InstalledSteps, TRUE>> \in Searches
=============================================================================
