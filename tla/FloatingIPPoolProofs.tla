------------------------ MODULE FloatingIPPoolProofs ------------------------
(***************************************************************************)
(* Proofs about FloatingIPPool, for every set of IPs and claims, every       *)
(* number of faults and both reclaim policies, with informers that lag       *)
(* arbitrarily unless a theorem says otherwise.                              *)
(***************************************************************************)
EXTENDS FloatingIPPool, FiniteSetTheorems, TLAPS

ServeSteps  == {"network", "listClaims", "claims", "allocate", "tag", "address", "bind", "update"}
DeleteSteps == {"delete", "dIPs", "dFinalizer"}

\* What a copy of the pool promises about the pool itself.
Persisted(o) ==
  /\ o.deleting => pool.deleting
  /\ pool.exists /\ o.finalizer => pool.finalizer
  /\ ~pool.exists /\ o.finalizer => o.deleting

\* What the running reconcile knows from the copy it read: it serves claims only
\* after a read that showed the finalizer and no deletion, and it drops the finalizer
\* only after a read that showed the deletion.
ReadOK ==
  /\ pc # "idle" => base.exists
  /\ pc \in ServeSteps => base.finalizer /\ ~base.deleting
  /\ pc \in DeleteSteps => base.deleting
  /\ base.finalizer /\ ~w.finalizer => base.deleting
  /\ pc # "patch" => w.finalizer = base.finalizer

GuardInv ==
  /\ ~pool.exists => ~pool.finalizer
  /\ Persisted(poolCache) /\ Persisted(base)
  /\ base.deleting => poolCache.deleting
  /\ ReadOK

\* Addresses exist only under the pool's finalizer, which is dropped without them.
OrphanInv ==
  /\ addrs # {} => pool.exists /\ pool.finalizer
  /\ pc \in {"dIPs", "dFinalizer"} => addrs = {}
  /\ pc = "patch" /\ base.finalizer /\ ~w.finalizer => addrs = {}

\* While addresses are reclaimed, the others hold the claimed IPs; then all of them
\* do, the available IPs are no claimed ones, and the IP that a claim is about to
\* get is a claimed one that no address holds.
Reclaimed ==
  pc \in {"reclaim", "release"} =>
    /\ items \subseteq addrs
    /\ \A a \in items : a.deleting
    /\ \A a \in addrs \ items : a.ip \in claimed /\ a.ip \in fips

Served ==
  /\ pc \in ServeSteps \cup {"finalizer"} =>
       /\ \A a \in addrs : a.ip \in claimed /\ a.ip \in fips
       /\ w.available \cap claimed = {}
  /\ pc \in {"tag", "address"} => ip \in fips /\ ip \in claimed /\ \A a \in addrs : a.ip # ip

SharedInv ==
  /\ \A a, b \in addrs : a.claim = b.claim => a = b
  /\ \A a, b \in addrs : a.ip = b.ip => a = b
  /\ \A a \in addrs : a.deleting \/ a.ip \in fips
  /\ Reclaimed /\ Served

\* No run has read the pool's deletion yet: with the policy Retain nothing has been
\* deleted in OpenStack.
Alive == ~base.deleting /\ (pc # "idle" \/ ~poolCache.deleting)

Known == fips \cup PreAllocated

RetainInv ==
  policy = "Retain" /\ Alive =>
    /\ pool.available \subseteq Known /\ poolCache.available \subseteq Known
    /\ base.available \subseteq Known /\ w.available \subseteq Known
    /\ \A a \in addrs \cup addrCache \cup items : a.ip \in fips
    /\ pc \in {"tag", "address"} => ip \in fips

\* A floating IP is created only when all of the pool's own are claimed.
MaxInv ==
  /\ Cardinality(claimed) <= nclaimed
  /\ pc = "allocate" /\ NeverMissing => tagged \subseteq claimed \/ MaxReached
  /\ pc = "tag" /\ NeverMissing => Cardinality(tagged \cup {ip}) <= MaxIPs
  /\ NeverMissing => Cardinality(tagged) <= MaxIPs
  /\ Missing = {{}} => PreAllocated \subseteq fips

-----------------------------------------------------------------------------
(* What the steps change *)

\* The steps that write each variable, and what they write.
LEMMA Frame ==
  ASSUME [Next]_vars
  PROVE  /\ policy' = policy
         /\ poolCache' \in {poolCache, pool} /\ addrCache' \in {addrCache, addrs}
         /\ claimCache' \in {claimCache, claims}
         /\ base' \in {base, poolCache, NewPool}
         /\ \/ AddFinalizer \/ UpdateStatus \/ RemoveFinalizer \/ PatchPool \/ DeletePool
            \/ pool' = pool
         /\ ReleaseIPAddress \/ CreateIPAddress \/ CollectAddress \/ addrs' = addrs
         /\ ListIPAddresses \/ ReleaseIPAddress \/ items' \in {items, {}}
         /\ \/ ReclaimIPAddress \/ CreateFloatingIP \/ DeleteAvailableIP \/ TagFloatingIP
            \/ fips' = fips /\ tagged' = tagged
         /\ \/ ListIPAddresses \/ NextClaim \/ CreateFloatingIP
            \/ claimed' = claimed /\ nclaimed' = nclaimed /\ ip' = ip
            \/ claimed' = {} /\ nclaimed' = 0 /\ ip' = AnyIP
<1> USE DEF Next, Worker, Watches, World, vars, At, ClaimStep, Start, PatchPool, Crash,
     ListIPAddresses, ReclaimIPAddress, ReleaseIPAddress, AddFinalizer,
     ReconcileFloatingIPNetwork, ListClaims, NextClaim, CreateFloatingIP,
     TagFloatingIP, CreateIPAddress, BindClaim, UpdateStatus, WaitForAddresses,
     DeleteAvailableIP, RemoveFinalizer, PoolEvent, AddressEvent, ClaimEvent, Resync,
     DeletePool, CreateClaim, DeleteClaim, ClaimGone, CollectAddress
<1>1. /\ policy' = policy
      /\ poolCache' \in {poolCache, pool} /\ addrCache' \in {addrCache, addrs}
      /\ claimCache' \in {claimCache, claims}
  BY Zenon DEF kube
<1>2. base' \in {base, poolCache, NewPool}
  BY Zenon DEF run, Finish, Stop
<1>3. \/ AddFinalizer \/ UpdateStatus \/ RemoveFinalizer \/ PatchPool \/ DeletePool
      \/ pool' = pool
  BY Zenon DEF kube
<1>4. ReleaseIPAddress \/ CreateIPAddress \/ CollectAddress \/ addrs' = addrs
  BY Zenon DEF kube
<1>5. ListIPAddresses \/ ReleaseIPAddress \/ items' \in {items, {}}
  BY Zenon DEF run, Finish, Stop
<1>6. \/ ReclaimIPAddress \/ CreateFloatingIP \/ DeleteAvailableIP \/ TagFloatingIP
      \/ fips' = fips /\ tagged' = tagged
  BY Zenon DEF cloud
<1>7. \/ ListIPAddresses \/ NextClaim \/ CreateFloatingIP
      \/ claimed' = claimed /\ nclaimed' = nclaimed /\ ip' = ip
      \/ claimed' = {} /\ nclaimed' = 0 /\ ip' = AnyIP
  BY Zenon DEF run, Finish, Stop
<1> QED BY <1>1, <1>2, <1>3, <1>4, <1>5, <1>6, <1>7

\* The working copy is written field by field by the steps of the worker.
LEMMA WorkingCopy ==
  ASSUME [Next]_vars
  PROVE  \/ w' \in {w, poolCache, NewPool, [w EXCEPT !.finalizer = TRUE],
                    [w EXCEPT !.finalizer = FALSE], [w EXCEPT !.network = TRUE]}
         \/ AddFinalizer /\ w' = [pool EXCEPT !.finalizer = TRUE]
         \/ ReclaimIPAddress \/ NextClaim \/ DeleteAvailableIP
BY Zenon DEF Next, Worker, Watches, World, vars, At, ClaimStep, Start, PatchPool, Crash,
   ListIPAddresses, ReleaseIPAddress, AddFinalizer, ReconcileFloatingIPNetwork,
   ListClaims, CreateFloatingIP, TagFloatingIP, CreateIPAddress, BindClaim,
   UpdateStatus, WaitForAddresses, RemoveFinalizer, PoolEvent, AddressEvent,
   ClaimEvent, Resync, DeletePool, CreateClaim, DeleteClaim, ClaimGone, CollectAddress, run, Finish, Stop

-----------------------------------------------------------------------------
(* Types *)

\* The patches keep the type of the pool.
LEMMA PatchedType ==
  ASSUME ObjectsOK
  PROVE  PatchedMeta(pool) \in Pool /\ Patched(pool) \in Pool
<1>0. pool \in Pool /\ base \in Pool /\ w \in Pool
  BY DEF ObjectsOK
<1>1. PatchedMeta(pool) \in Pool
  <2>1. (~pool.deleting) \in BOOLEAN
    BY <1>0 DEF Pool
  <2>2. ASSUME NEW b \in BOOLEAN, NEW c \in BOOLEAN
        PROVE  [pool EXCEPT !.finalizer = b, !.exists = c] \in Pool
    BY <1>0 DEF Pool
  <2>3. [pool EXCEPT !.finalizer = TRUE] \in Pool
    BY <1>0 DEF Pool
  <2>4. PatchedMeta(pool) \in {pool, [pool EXCEPT !.finalizer = TRUE],
                               [pool EXCEPT !.finalizer = FALSE, !.exists = ~pool.deleting]}
    <3>1. w.finalizer \in BOOLEAN /\ base.finalizer \in BOOLEAN
      BY <1>0 DEF Pool
    <3>2. CASE w.finalizer = base.finalizer
      BY <3>2 DEF PatchedMeta
    <3>3. CASE w.finalizer # base.finalizer /\ w.finalizer
      BY <3>1, <3>3 DEF PatchedMeta
    <3>4. CASE w.finalizer # base.finalizer /\ ~w.finalizer
      BY <3>1, <3>4 DEF PatchedMeta
    <3> QED BY <3>2, <3>3, <3>4
  <2> QED BY <1>0, <2>1, <2>2, <2>3, <2>4
<1>2. ASSUME NEW o \in Pool PROVE PatchedStatus(o) \in Pool
  <2>1. /\ Pick(o.network, base.network, w.network) \in BOOLEAN
        /\ Pick(o.available, base.available, w.available) \in SUBSET IPs
        /\ Pick(o.failed, base.failed, w.failed) \in SUBSET IPs
    BY <1>0 DEF Pick, Pool
  <2>2. ASSUME NEW b \in BOOLEAN, NEW S \in SUBSET IPs, NEW T \in SUBSET IPs
        PROVE  [o EXCEPT !.network = b, !.available = S, !.failed = T] \in Pool
    BY DEF Pool
  <2> QED BY <2>1, <2>2 DEF PatchedStatus
<1> QED BY <1>1, <1>2 DEF Patched

\* What getIP chooses from are IPs.
LEMMA CandidatesType ==
  ASSUME TypeOK
  PROVE  /\ Candidates \subseteq IPs
         /\ \A x : Popped(x) \in Pool
<1>1. w \in Pool /\ w.available \subseteq IPs /\ tagged \subseteq IPs
  BY DEF TypeOK, ObjectsOK, CloudOK, Pool
<1>2. Candidates \subseteq IPs
  BY <1>1 DEF Candidates
<1>3. ASSUME NEW S \in SUBSET IPs PROVE [w EXCEPT !.available = S] \in Pool
  BY <1>1 DEF Pool
<1> QED BY <1>2, <1>3 DEF Popped

\* The pool starts in its types.
LEMMA InitTypes == Init => TypeOK
<1> SUFFICES ASSUME Init PROVE TypeOK
  OBVIOUS
<1>1. NewPool \in Pool
  BY DEF NewPool, Pool
<1>2. AnyClaim \in Claims /\ AnyIP \in IPs
  BY PoolAssumption DEF AnyClaim, AnyIP
<1>3. ObjectsOK
  BY <1>1 DEF Init, ObjectsOK
<1>4. AddressesOK
  BY FS_EmptySet DEF Init, AddressesOK
<1>5. ClaimsOK
  BY <1>2 DEF Init, ClaimsOK, ClaimStates
<1>6. CloudOK
  BY <1>2, PoolAssumption DEF Init, CloudOK
<1>7. ControlOK
  BY PoolAssumption DEF Init, ControlOK, Steps
<1> QED BY <1>3, <1>4, <1>5, <1>6, <1>7, Zenon DEF Init, TypeOK

\* Every step keeps the types of the pool and its copies.
LEMMA ObjectsNext == TypeOK /\ [Next]_vars => ObjectsOK'
<1> SUFFICES ASSUME TypeOK, [Next]_vars PROVE ObjectsOK'
  OBVIOUS
<1>0. pool \in Pool /\ poolCache \in Pool /\ base \in Pool /\ w \in Pool /\ NewPool \in Pool
  BY DEF TypeOK, ObjectsOK, NewPool, Pool
<1>1. pool' \in Pool
  <2>1. CASE AddFinalizer
    <3>1. pool' \in {pool, [pool EXCEPT !.finalizer = TRUE]}
      BY <2>1, Zenon DEF AddFinalizer
    <3> QED BY <1>0, <3>1 DEF Pool
  <2>2. CASE UpdateStatus
    <3> DEFINE n == w.network  a == w.available  f == w.failed
    <3>1. n \in BOOLEAN /\ a \in SUBSET IPs /\ f \in SUBSET IPs
      BY <1>0 DEF Pool
    <3> HIDE DEF n, a, f
    <3>2. [pool EXCEPT !.network = n, !.available = a, !.failed = f] \in Pool
      BY <1>0, <3>1 DEF Pool
    <3>3. \/ pool' = pool
          \/ pool' = [pool EXCEPT !.network = w.network, !.available = w.available,
                                  !.failed = w.failed]
      BY <2>2, Zenon DEF UpdateStatus
    <3> QED BY <1>0, <3>2, <3>3, Zenon DEF n, a, f
  <2>3. CASE RemoveFinalizer
    <3>1. ASSUME NEW b \in BOOLEAN
          PROVE  [pool EXCEPT !.finalizer = b, !.exists = b] \in Pool
      BY <1>0 DEF Pool
    <3>2. pool' = pool \/ pool' = [pool EXCEPT !.finalizer = FALSE, !.exists = FALSE]
      BY <2>3, Zenon DEF RemoveFinalizer
    <3> QED BY <1>0, <3>1, <3>2
  <2>4. CASE PatchPool
    <3>1. pool' \in {pool, PatchedMeta(pool), Patched(pool)}
      BY <2>4 DEF PatchPool
    <3> QED BY <1>0, <3>1, PatchedType DEF TypeOK
  <2>5. CASE DeletePool
    <3>1. pool' \in {[pool EXCEPT !.deleting = TRUE], [pool EXCEPT !.exists = FALSE]}
      BY <2>5 DEF DeletePool
    <3> QED BY <1>0, <3>1 DEF Pool
  <2> QED BY <1>0, <2>1, <2>2, <2>3, <2>4, <2>5, Frame
<1>2. w' \in Pool
  <2>1. CASE w' \in {w, poolCache, NewPool, [w EXCEPT !.finalizer = TRUE],
                     [w EXCEPT !.finalizer = FALSE], [w EXCEPT !.network = TRUE],
                     [pool EXCEPT !.finalizer = TRUE]}
    BY <1>0, <2>1 DEF Pool
  <2>2. CASE ReclaimIPAddress \/ DeleteAvailableIP
    <3>1. /\ Available(w) \in SUBSET IPs
          /\ \A a \in items : w.available \cup {a.ip} \in SUBSET IPs
          /\ \A x : w.available \ {x} \in SUBSET IPs
      BY <1>0, PoolAssumption DEF Available, Pool, Address, TypeOK, AddressesOK
    <3>2. \/ w' = w
          \/ \E S \in SUBSET IPs : w' = [w EXCEPT !.available = S]
      <4>1. \/ w' = w \/ w' = [w EXCEPT !.available = Available(w)]
            \/ \E a \in items : w' = [w EXCEPT !.available = w.available \cup {a.ip}]
            \/ \E x : w' = [w EXCEPT !.available = w.available \ {x}]
        BY <2>2 DEF ReclaimIPAddress, DeleteAvailableIP
      <4> QED BY <3>1, <4>1
    <3> QED BY <1>0, <3>2 DEF Pool
  <2>3. CASE NextClaim
    <3>1. ASSUME NEW x \in IPs
          PROVE  [Popped(x) EXCEPT !.failed = @ \cup {x}] \in Pool
      <4>1. Popped(x) \in Pool
        BY CandidatesType
      <4> QED BY <4>1 DEF Pool
    <3>2. \/ w' = w
          \/ \E x \in Candidates : w' \in {Popped(x), [Popped(x) EXCEPT !.failed = @ \cup {x}]}
      BY <2>3 DEF NextClaim, GetIP
    <3> QED BY <1>0, <3>1, <3>2, CandidatesType
  <2> QED BY <2>1, <2>2, <2>3, WorkingCopy
<1> QED BY <1>0, <1>1, <1>2, Frame DEF ObjectsOK

\* Every step keeps the types of the addresses and their copies.
LEMMA AddressesNext == TypeOK /\ [Next]_vars => AddressesOK'
<1> SUFFICES ASSUME TypeOK, [Next]_vars PROVE AddressesOK'
  OBVIOUS
<1>0. /\ addrs \subseteq Address /\ addrCache \subseteq Address /\ items \subseteq Address
      /\ IsFiniteSet(addrs) /\ IsFiniteSet(addrCache)
  BY DEF TypeOK, AddressesOK
<1>1. addrs' \subseteq Address /\ IsFiniteSet(addrs')
  <2>1. CASE ReleaseIPAddress
    <3>1. addrs' = addrs \/ \E a \in items : addrs' = addrs \ {a}
      BY <2>1 DEF ReleaseIPAddress
    <3> QED BY <1>0, <3>1, FS_RemoveElement
  <2>2. CASE CreateIPAddress
    <3>1. NewAddress \in Address
      BY DEF NewAddress, Address, TypeOK, ClaimsOK, CloudOK
    <3>2. addrs' = addrs \/ addrs' = addrs \cup {NewAddress}
      BY <2>2 DEF CreateIPAddress
    <3> QED BY <1>0, <3>1, <3>2, FS_AddElement
  <2>3. CASE CollectAddress
    <3>1. PICK a \in addrs : addrs' = (addrs \ {a}) \cup {[a EXCEPT !.deleting = TRUE]}
      BY <2>3 DEF CollectAddress
    <3>2. [a EXCEPT !.deleting = TRUE] \in Address
      BY <1>0 DEF Address
    <3>3. IsFiniteSet(addrs \ {a})
      BY <1>0, FS_RemoveElement
    <3> QED BY <1>0, <3>1, <3>2, <3>3, FS_AddElement
  <2> QED BY <1>0, <2>1, <2>2, <2>3, Frame
<1>2. items' \subseteq Address
  <2>1. CASE ListIPAddresses
    BY <1>0, <2>1 DEF ListIPAddresses
  <2>2. CASE ReleaseIPAddress
    BY <1>0, <2>2 DEF ReleaseIPAddress
  <2> QED BY <1>0, <2>1, <2>2, Frame
<1> QED BY <1>0, <1>1, <1>2, Frame DEF AddressesOK

\* Every step keeps the types of the claims.
LEMMA ClaimsNext == TypeOK /\ [Next]_vars => ClaimsOK'
<1> SUFFICES ASSUME TypeOK, [Next]_vars PROVE ClaimsOK'
  OBVIOUS
<1>0. /\ claims \in [Claims -> ClaimStates] /\ claimCache \in [Claims -> ClaimStates]
      /\ todo \subseteq Claims /\ cur \in Claims /\ AnyClaim \in Claims
      /\ items \subseteq Address
  BY PoolAssumption DEF TypeOK, ClaimsOK, AddressesOK, AnyClaim
<1>1. \/ claims' = claims
      \/ \E c \in Claims, t \in ClaimStates : claims' = [claims EXCEPT ![c] = t]
  <2>1. CASE BindClaim \/ CreateClaim \/ DeleteClaim \/ ClaimGone
    BY <1>0, <2>1 DEF BindClaim, CreateClaim, DeleteClaim, ClaimGone, ClaimStep, ClaimStates
  <2>2. CASE ~(BindClaim \/ CreateClaim \/ DeleteClaim \/ ClaimGone)
    <3>1. claims' = claims
      BY <2>2, Zenon DEF Next, Worker, Watches, World, vars, At, ClaimStep, Start, PatchPool, Crash,
         ListIPAddresses, ReclaimIPAddress, ReleaseIPAddress, AddFinalizer,
         ReconcileFloatingIPNetwork, ListClaims, NextClaim, CreateFloatingIP,
         TagFloatingIP, CreateIPAddress, UpdateStatus, WaitForAddresses,
         DeleteAvailableIP, RemoveFinalizer, PoolEvent, AddressEvent, ClaimEvent,
         Resync, DeletePool, CollectAddress, kube
    <3> QED BY <3>1
  <2> QED BY <2>1, <2>2
<1>2. claims' \in [Claims -> ClaimStates]
  BY <1>0, <1>1
<1>3. todo' \subseteq Claims
  <2>1. CASE ListClaims
    BY <2>1 DEF ListClaims
  <2>2. CASE BindClaim
    BY <1>0, <2>2 DEF BindClaim
  <2>3. CASE ~(ListClaims \/ BindClaim)
    <3>1. todo' \in {todo, {}}
      BY <2>3, Zenon DEF Next, Worker, Watches, World, vars, At, ClaimStep, Start, PatchPool, Crash,
         ListIPAddresses, ReclaimIPAddress, ReleaseIPAddress, AddFinalizer,
         ReconcileFloatingIPNetwork, NextClaim, CreateFloatingIP, TagFloatingIP,
         CreateIPAddress, UpdateStatus, WaitForAddresses, DeleteAvailableIP,
         RemoveFinalizer, PoolEvent, AddressEvent, ClaimEvent, Resync, DeletePool,
         CreateClaim, DeleteClaim, ClaimGone, CollectAddress, run, Finish, Stop
    <3> QED BY <1>0, <3>1
  <2> QED BY <2>1, <2>2, <2>3
<1>4. cur' \in Claims
  <2>1. CASE ReclaimIPAddress
    BY <1>0, <2>1 DEF ReclaimIPAddress, Address
  <2>2. CASE NextClaim
    BY <1>0, <2>2 DEF NextClaim
  <2>3. CASE ~(ReclaimIPAddress \/ NextClaim)
    <3>1. cur' \in {cur, AnyClaim}
      BY <2>3, Zenon DEF Next, Worker, Watches, World, vars, At, ClaimStep, Start, PatchPool, Crash,
         ListIPAddresses, ReleaseIPAddress, AddFinalizer, ReconcileFloatingIPNetwork,
         ListClaims, CreateFloatingIP, TagFloatingIP, CreateIPAddress, BindClaim,
         UpdateStatus, WaitForAddresses, DeleteAvailableIP, RemoveFinalizer,
         PoolEvent, AddressEvent, ClaimEvent, Resync, DeletePool, CreateClaim,
         DeleteClaim, ClaimGone, CollectAddress, run, Finish, Stop
    <3> QED BY <1>0, <3>1
  <2> QED BY <2>1, <2>2, <2>3
<1> QED BY <1>0, <1>2, <1>3, <1>4, Frame DEF ClaimsOK

\* Every step keeps the types of the floating IPs.
LEMMA CloudNext == TypeOK /\ [Next]_vars => CloudOK'
<1> SUFFICES ASSUME TypeOK, [Next]_vars PROVE CloudOK'
  OBVIOUS
<1>0. /\ tagged \subseteq fips /\ fips \subseteq IPs /\ claimed \subseteq IPs /\ ip \in IPs
      /\ nclaimed \in Nat /\ AnyIP \in IPs /\ addrCache \subseteq Address
      /\ IsFiniteSet(addrCache) /\ (pc = "tag" => ip \in fips)
  BY PoolAssumption DEF TypeOK, CloudOK, AddressesOK, AnyIP
<1>1. tagged' \subseteq fips' /\ fips' \subseteq IPs
  <2>1. CASE ReclaimIPAddress \/ DeleteAvailableIP
    <3>1. \/ fips' = fips /\ tagged' = tagged
          \/ \E x : fips' = fips \ {x} /\ tagged' = tagged \ {x}
      BY <2>1 DEF ReclaimIPAddress, DeleteAvailableIP, FloatingIPDeleted, cloud
    <3> QED BY <1>0, <3>1
  <2>2. CASE CreateFloatingIP
    BY <1>0, <2>2 DEF CreateFloatingIP
  <2>3. CASE TagFloatingIP
    <3>1. ip \in fips
      BY <1>0, <2>3 DEF TagFloatingIP, At
    <3> QED BY <1>0, <2>3, <3>1 DEF TagFloatingIP
  <2> QED BY <1>0, <2>1, <2>2, <2>3, Frame
<1>2. claimed' \subseteq IPs /\ ip' \in IPs /\ nclaimed' \in Nat
  <2>1. CASE ListIPAddresses
    <3>1. IsFiniteSet(addrCache \ items')
      BY <1>0, FS_Subset
    <3>2. Cardinality(addrCache \ items') \in Nat
      BY <3>1, FS_CardinalityType
    <3>3. {a.ip : a \in addrCache \ items'} \subseteq IPs
      BY <1>0 DEF Address
    <3>4. /\ ip' = ip
          /\ \/ claimed' = claimed /\ nclaimed' = nclaimed
             \/ /\ claimed' = {a.ip : a \in addrCache \ items'}
                /\ nclaimed' = Cardinality(addrCache \ items')
      BY <2>1, Zenon DEF ListIPAddresses
    <3> QED BY <1>0, <3>2, <3>3, <3>4
  <2>2. CASE NextClaim
    <3>1. \/ claimed' = claimed /\ nclaimed' = nclaimed /\ ip' = ip
          \/ \E x \in Candidates : /\ claimed' = claimed \cup {x} /\ ip' \in {ip, x}
                                   /\ nclaimed' \in {nclaimed + 1, nclaimed + 2}
      BY <2>2 DEF NextClaim, GetIP
    <3> QED BY <1>0, <3>1, CandidatesType
  <2>3. CASE CreateFloatingIP
    BY <1>0, <2>3 DEF CreateFloatingIP
  <2> QED BY <1>0, <2>1, <2>2, <2>3, Frame
<1>3. pc' = "tag" => ip' \in fips'
  <2>1. CASE CreateFloatingIP
    BY <2>1 DEF CreateFloatingIP, Goto, Return
  <2>2. CASE ~CreateFloatingIP
    <3>1. pc' = "tag" => pc = "tag" /\ ip' = ip /\ fips' = fips
      BY <2>2, Zenon DEF Next, Worker, Watches, World, vars, At, ClaimStep, Start, PatchPool, Crash,
         ListIPAddresses, ReclaimIPAddress, ReleaseIPAddress, AddFinalizer,
         ReconcileFloatingIPNetwork, ListClaims, NextClaim, TagFloatingIP,
         CreateIPAddress, BindClaim, UpdateStatus, WaitForAddresses,
         DeleteAvailableIP, RemoveFinalizer, PoolEvent, AddressEvent, ClaimEvent,
         Resync, DeletePool, CreateClaim, DeleteClaim, ClaimGone, CollectAddress, run, cloud, GetIP,
         Goto, Return, Finish, Stop
    <3> QED BY <1>0, <3>1
  <2> QED BY <2>1, <2>2
<1> QED BY <1>1, <1>2, <1>3 DEF CloudOK

\* Every step keeps the types of the control state.
LEMMA ControlNext == TypeOK /\ [Next]_vars => ControlOK' /\ queued' \in BOOLEAN
<1> SUFFICES ASSUME TypeOK, [Next]_vars PROVE ControlOK' /\ queued' \in BOOLEAN
  OBVIOUS
<1> USE DEF Next, Worker, Watches, World, vars, At, ClaimStep, Start, PatchPool, Crash,
     ListIPAddresses, ReclaimIPAddress, ReleaseIPAddress, AddFinalizer,
     ReconcileFloatingIPNetwork, ListClaims, NextClaim, CreateFloatingIP,
     TagFloatingIP, CreateIPAddress, BindClaim, UpdateStatus, WaitForAddresses,
     DeleteAvailableIP, RemoveFinalizer, PoolEvent, AddressEvent, ClaimEvent, Resync,
     DeletePool, CreateClaim, DeleteClaim, ClaimGone, CollectAddress
<1>1. pc' \in Steps
  BY Zenon DEF run, GetIP, Goto, Return, Finish, Stop, Steps, TypeOK, ControlOK
<1>2. result' \in {"done", "error"}
  <2>1. result' \in {result, "done", "error"}
    BY Zenon DEF run, GetIP, Goto, Return, Finish, Stop
  <2> QED BY <2>1 DEF TypeOK, ControlOK
<1>3. faults' = faults \/ (faults < MaxFaults /\ faults' = faults + 1)
  BY Zenon DEF Works, Fails, GetIP
<1>4. queued' \in BOOLEAN
  BY Zenon DEF Finish, TypeOK
<1> QED BY <1>1, <1>2, <1>3, <1>4, Frame, PoolAssumption DEF TypeOK, ControlOK

\* Every variable stays in its type, whatever the caches show and whichever calls
\* fail: the number of claimed IPs, which getIP compares with MaxIPs, stays defined.
THEOREM TypeCorrect == Spec => []TypeOK
<1>1. TypeOK /\ [Next]_vars => TypeOK'
  BY ObjectsNext, AddressesNext, ClaimsNext, CloudNext, ControlNext DEF TypeOK
<1> QED BY <1>1, InitTypes, PTL DEF Spec

-----------------------------------------------------------------------------
(* Pre-allocated floating IPs *)

\* Pre-allocated floating IPs are never deleted from OpenStack: both places that
\* delete one check the spec's list first.
THEOREM PreAllocatedSafe == Spec => PreAllocatedKept
<1>1. ASSUME [Next]_vars PROVE PreAllocated \cap fips \subseteq fips'
  <2>1. CASE ReclaimIPAddress
    BY <2>1 DEF ReclaimIPAddress, Deletes, FloatingIPDeleted, cloud
  <2>2. CASE DeleteAvailableIP
    BY <2>2 DEF DeleteAvailableIP, FloatingIPDeleted, cloud
  <2>3. CASE CreateFloatingIP \/ TagFloatingIP
    BY <2>3 DEF CreateFloatingIP, TagFloatingIP
  <2> QED BY <1>1, <2>1, <2>2, <2>3, Frame
<1> QED BY <1>1, PTL DEF Spec, PreAllocatedKept

-----------------------------------------------------------------------------
(* The finalizer of the pool *)

\* What the deferred patch does to the metadata of the pool.
LEMMA PatchedFields ==
  ASSUME ObjectsOK, NEW o \in {PatchedMeta(pool), Patched(pool)}
  PROVE  /\ o.deleting = pool.deleting
         /\ \/ /\ o.exists = pool.exists /\ (pool.finalizer => o.finalizer)
               /\ o.finalizer => pool.finalizer \/ ~pool.deleting
            \/ /\ base.finalizer /\ ~w.finalizer
               /\ ~o.finalizer /\ o.exists = ~pool.deleting
<1>0. pool \in Pool /\ base \in Pool /\ w \in Pool
  BY DEF ObjectsOK
<1>1. PatchedMeta(pool) \in Pool
  BY PatchedType
<1>2. /\ PatchedStatus(PatchedMeta(pool)).deleting = PatchedMeta(pool).deleting
      /\ PatchedStatus(PatchedMeta(pool)).exists = PatchedMeta(pool).exists
      /\ PatchedStatus(PatchedMeta(pool)).finalizer = PatchedMeta(pool).finalizer
  BY <1>1 DEF PatchedStatus, Pool
<1>3. /\ o.deleting = PatchedMeta(pool).deleting
      /\ o.exists = PatchedMeta(pool).exists
      /\ o.finalizer = PatchedMeta(pool).finalizer
  BY <1>2 DEF Patched
<1>4. CASE w.finalizer = base.finalizer
  BY <1>0, <1>3, <1>4 DEF PatchedMeta, Pool
<1>5. CASE w.finalizer # base.finalizer /\ w.finalizer
  BY <1>0, <1>3, <1>5 DEF PatchedMeta, Pool
<1>6. CASE w.finalizer # base.finalizer /\ ~w.finalizer
  BY <1>0, <1>3, <1>6 DEF PatchedMeta, Pool
<1> QED BY <1>4, <1>5, <1>6

\* The pool does not come back, its deletion is not undone, and its finalizer goes
\* together with it, in a run that has read the deletion.
LEMMA PoolStep ==
  ASSUME TypeOK, GuardInv, [Next]_vars
  PROVE  /\ pool.deleting => pool'.deleting
         /\ pool'.exists => pool.exists /\ (pool.finalizer => pool'.finalizer)
         /\ ~pool'.exists => ~pool'.finalizer
         /\ pool.exists /\ pool.finalizer /\ ~pool'.exists => base.deleting
         /\ pool.exists /\ pool.finalizer /\ ~pool'.exists =>
              \/ pc = "dFinalizer"
              \/ pc = "patch" /\ base.finalizer /\ ~w.finalizer
<1>0. pool \in Pool /\ base \in Pool /\ w \in Pool
  BY DEF TypeOK, ObjectsOK
<1>1. CASE AddFinalizer
  BY <1>0, <1>1 DEF AddFinalizer, At, Unchanged, GuardInv, ReadOK, Pool
<1>2. CASE UpdateStatus
  <2>1. /\ pool'.exists = pool.exists /\ pool'.deleting = pool.deleting
        /\ pool'.finalizer = pool.finalizer
    BY <1>0, <1>2 DEF UpdateStatus, Pool
  <2> QED BY <2>1 DEF GuardInv
<1>3. CASE RemoveFinalizer
  <2>1. pc = "dFinalizer" /\ base.deleting
    BY <1>3 DEF RemoveFinalizer, At, GuardInv, ReadOK, DeleteSteps
  <2>2. pool' = pool \/ pool' = [pool EXCEPT !.finalizer = FALSE, !.exists = FALSE]
    BY <1>3, Zenon DEF RemoveFinalizer
  <2>3. pool' = pool \/ (~pool'.finalizer /\ ~pool'.exists /\ pool'.deleting = pool.deleting)
    BY <1>0, <2>2 DEF Pool
  <2> QED BY <2>1, <2>3 DEF GuardInv
<1>4. CASE PatchPool
  <2>1. pc = "patch" /\ (pool' = pool \/ (pool.exists /\ pool' \in {PatchedMeta(pool), Patched(pool)}))
    BY <1>4 DEF PatchPool
  <2>2. CASE pool' = pool
    BY <2>2 DEF GuardInv
  <2>3. CASE pool.exists /\ pool' \in {PatchedMeta(pool), Patched(pool)}
    <3>1. base.finalizer /\ ~w.finalizer => base.deleting /\ pool.deleting
      BY DEF GuardInv, ReadOK, Persisted
    <3>2. /\ pool'.deleting = pool.deleting
          /\ \/ /\ pool'.exists = pool.exists /\ (pool.finalizer => pool'.finalizer)
                /\ pool'.finalizer => pool.finalizer \/ ~pool.deleting
             \/ /\ base.finalizer /\ ~w.finalizer
                /\ ~pool'.finalizer /\ pool'.exists = ~pool.deleting
      BY <2>3, PatchedFields DEF TypeOK
    <3> QED BY <2>1, <2>3, <3>1, <3>2
  <2> QED BY <2>1, <2>2, <2>3
<1>5. CASE DeletePool
  <2>1. /\ pool.exists
        /\ \/ pool.finalizer /\ pool' = [pool EXCEPT !.deleting = TRUE]
           \/ ~pool.finalizer /\ pool' = [pool EXCEPT !.exists = FALSE]
    BY <1>0, <1>5 DEF DeletePool, Pool
  <2> QED BY <1>0, <2>1 DEF Pool
<1>6. CASE pool' = pool
  BY <1>6 DEF GuardInv
<1> QED BY <1>1, <1>2, <1>3, <1>4, <1>5, <1>6, Frame

\* The control flow of a run: how it enters the two paths, and that only adding and
\* removing the finalizer change the finalizer of the working copy.
LEMMA Flow ==
  ASSUME TypeOK, [Next]_vars
  PROVE  \/ Start /\ pc' = "list" /\ base' = poolCache /\ w' = poolCache /\ poolCache.exists
         \/ pc' = "idle" /\ base' = NewPool /\ w' = NewPool
         \/ AddFinalizer /\ pc' = "patch" /\ base' = base /\ w'.finalizer
         \/ RemoveFinalizer /\ pc' = "patch" /\ base' = base
         \/ /\ base' = base /\ w'.finalizer = w.finalizer
            /\ pc' = "idle" <=> pc = "idle"
            /\ pc' # "patch" => pc # "patch"
            /\ \/ /\ pc' \in ServeSteps => pc \in ServeSteps
                  /\ pc' \in DeleteSteps => pc \in DeleteSteps
               \/ ReclaimIPAddress /\ pc' = "delete" /\ base.deleting
               \/ ReclaimIPAddress /\ pc' = "network" /\ base.finalizer /\ ~base.deleting
<1>0. pool \in Pool /\ base \in Pool /\ w \in Pool
  BY DEF TypeOK, ObjectsOK
<1>1. CASE Start
  <2>1. \/ pc' = "list" /\ base' = poolCache /\ w' = poolCache /\ poolCache.exists
        \/ pc' = pc /\ base' = base /\ w' = w
    BY <1>1 DEF Start
  <2> QED BY <1>1, <2>1
<1>2. CASE PatchPool \/ Crash
  BY <1>2 DEF PatchPool, Crash, Finish, Stop
<1>3. CASE AddFinalizer
  BY <1>0, <1>3 DEF AddFinalizer, Return, Pool
<1>4. CASE RemoveFinalizer
  BY <1>4 DEF RemoveFinalizer, Return
<1>5. CASE ReclaimIPAddress
  <2>1. base' = base /\ pc = "reclaim"
    BY <1>5 DEF ReclaimIPAddress, At
  <2>2. w'.finalizer = w.finalizer
    <3>1. w' = w \/ \E S : w' = [w EXCEPT !.available = S]
      BY <1>5 DEF ReclaimIPAddress
    <3> QED BY <1>0, <3>1 DEF Pool
  <2>3. \/ pc' \in {"finalizer", "release", "patch"}
        \/ pc' = "delete" /\ base.deleting
        \/ pc' = "network" /\ base.finalizer /\ ~base.deleting
    BY <1>5 DEF ReclaimIPAddress, Goto, Return
  <2> QED BY <1>5, <2>1, <2>2, <2>3 DEF ServeSteps, DeleteSteps
<1>6. CASE NextClaim
  <2>1. base' = base /\ pc = "claims"
    BY <1>6 DEF NextClaim, At
  <2>2. w'.finalizer = w.finalizer
    <3>1. \/ w' = w
          \/ \E x \in Candidates : w' \in {Popped(x), [Popped(x) EXCEPT !.failed = @ \cup {x}]}
      BY <1>6 DEF NextClaim, GetIP
    <3>2. \A x : Popped(x).finalizer = w.finalizer /\ Popped(x) \in Pool
      BY <1>0, CandidatesType DEF Popped, Pool
    <3> QED BY <3>1, <3>2 DEF Pool
  <2>3. pc' \in {"bind", "allocate", "address", "update", "patch"}
    BY <1>6 DEF NextClaim, GetIP, Goto, Return
  <2> QED BY <2>1, <2>2, <2>3 DEF ServeSteps, DeleteSteps
<1>7. CASE ReconcileFloatingIPNetwork
  BY <1>0, <1>7 DEF ReconcileFloatingIPNetwork, At, Goto, Return, ServeSteps, DeleteSteps, Pool
<1>8. CASE DeleteAvailableIP
  <2>1. w' = w \/ \E S : w' = [w EXCEPT !.available = S]
    BY <1>8 DEF DeleteAvailableIP
  <2>2. w'.finalizer = w.finalizer
    BY <1>0, <2>1 DEF Pool
  <2> QED BY <1>8, <2>2 DEF DeleteAvailableIP, At, Goto, Return, ServeSteps, DeleteSteps
<1>9. CASE ~(\/ Start \/ PatchPool \/ Crash \/ AddFinalizer \/ RemoveFinalizer
             \/ ReclaimIPAddress \/ NextClaim \/ ReconcileFloatingIPNetwork
             \/ DeleteAvailableIP)
  <2>1. base' = base /\ w' = w
    BY <1>9, Zenon DEF Next, Worker, Watches, World, vars, At, ClaimStep, ListIPAddresses,
     ReleaseIPAddress, ListClaims, CreateFloatingIP, TagFloatingIP, CreateIPAddress,
     BindClaim, UpdateStatus, WaitForAddresses, PoolEvent, AddressEvent, ClaimEvent,
     Resync, DeletePool, CreateClaim, DeleteClaim, ClaimGone, CollectAddress, run
  <2>2. \/ pc' = pc
        \/ pc \in {"list", "release"} /\ pc' \in {"reclaim", "patch"}
        \/ /\ pc \in {"listClaims", "allocate", "tag", "address", "bind", "update"}
           /\ pc' \in {"claims", "tag", "address", "bind", "patch"}
        \/ pc = "delete" /\ pc' \in {"dIPs", "patch"}
    BY <1>9, Zenon DEF Next, Worker, Watches, World, vars, At, ClaimStep, ListIPAddresses,
     ReleaseIPAddress, ListClaims, CreateFloatingIP, TagFloatingIP, CreateIPAddress,
     BindClaim, UpdateStatus, WaitForAddresses, PoolEvent, AddressEvent, ClaimEvent,
     Resync, DeletePool, CreateClaim, DeleteClaim, ClaimGone, CollectAddress, run, Goto, Return
  <2> QED BY <2>1, <2>2 DEF ServeSteps, DeleteSteps
<1> QED BY <1>1, <1>2, <1>3, <1>4, <1>5, <1>6, <1>7, <1>8, <1>9

\* Every step keeps what was read from being ahead of the pool, and the finalizer in it.
LEMMA GuardNext == TypeOK /\ GuardInv /\ [Next]_vars => GuardInv'
<1> SUFFICES ASSUME TypeOK, GuardInv, [Next]_vars PROVE GuardInv'
  OBVIOUS
<1>0. pool \in Pool /\ base \in Pool /\ w \in Pool /\ poolCache \in Pool
  BY DEF TypeOK, ObjectsOK
<1>1. ~NewPool.deleting /\ ~NewPool.finalizer
  BY DEF NewPool
<1>2. ReadOK'
  <2> USE DEF ReadOK, ServeSteps, DeleteSteps
  <2>0. ReadOK
    BY DEF GuardInv
  <2>1. CASE Start /\ pc' = "list" /\ base' = poolCache /\ w' = poolCache /\ poolCache.exists
    BY <2>1
  <2>2. CASE pc' = "idle" /\ base' = NewPool /\ w' = NewPool
    BY <1>1, <2>2
  <2>3. CASE AddFinalizer /\ pc' = "patch" /\ base' = base /\ w'.finalizer
    BY <2>0, <2>3 DEF AddFinalizer, At
  <2>4. CASE RemoveFinalizer /\ pc' = "patch" /\ base' = base
    BY <2>0, <2>4 DEF RemoveFinalizer, At
  <2>5. CASE /\ base' = base /\ w'.finalizer = w.finalizer
             /\ pc' = "idle" <=> pc = "idle"
             /\ pc' # "patch" => pc # "patch"
             /\ \/ /\ pc' \in ServeSteps => pc \in ServeSteps
                   /\ pc' \in DeleteSteps => pc \in DeleteSteps
                \/ ReclaimIPAddress /\ pc' = "delete" /\ base.deleting
                \/ ReclaimIPAddress /\ pc' = "network" /\ base.finalizer /\ ~base.deleting
    BY <2>0, <2>5
  <2> QED BY <2>1, <2>2, <2>3, <2>4, <2>5, Flow
<1>3. base'.deleting => poolCache'.deleting
  <2>1. base' \in {base, NewPool} \/ (base' = poolCache /\ poolCache' = poolCache)
    BY Flow DEF Start, kube
  <2>2. base'.deleting => poolCache.deleting
    BY <1>1, <2>1 DEF GuardInv
  <2>3. poolCache.deleting => pool.deleting
    BY DEF GuardInv, Persisted
  <2> QED BY <2>2, <2>3, Frame
<1>4. ASSUME NEW o, Persisted(o), o \in {poolCache, base} PROVE Persisted(o)'
  BY <1>4, PoolStep DEF Persisted, GuardInv
<1>5. Persisted(pool)'
  BY PoolStep
  DEF Persisted
<1> QED BY <1>1, <1>2, <1>3, <1>4, <1>5, PoolStep, Frame DEF GuardInv, Persisted

\* The guard holds before the first reconcile.
LEMMA InitGuard == Init => GuardInv
BY DEF Init, GuardInv, Persisted, ReadOK, NewPool, ServeSteps, DeleteSteps

-----------------------------------------------------------------------------
(* Addresses and the pool *)

\* The garbage collector changes nothing in an address but its deletion timestamp.
LEMMA Collected ==
  ASSUME TypeOK, CollectAddress
  PROVE  /\ \A b \in addrs' : \E a \in addrs : /\ b.claim = a.claim /\ b.ip = a.ip
                                               /\ b = a \/ b.deleting
         /\ \A a \in addrs : a.deleting => a \in addrs'
<1>1. PICK a \in addrs : /\ ~a.deleting
                         /\ addrs' = (addrs \ {a}) \cup {[a EXCEPT !.deleting = TRUE]}
  BY DEF CollectAddress
<1>2. /\ [a EXCEPT !.deleting = TRUE].claim = a.claim /\ [a EXCEPT !.deleting = TRUE].ip = a.ip
      /\ [a EXCEPT !.deleting = TRUE].deleting
  BY DEF TypeOK, AddressesOK, Address
<1> QED BY <1>1, <1>2

\* With fresh addresses, every step keeps the pool until its last IPAddress is gone.
LEMMA OrphanNext ==
  ASSUME ~StaleAddress
  PROVE  TypeOK /\ GuardInv /\ OrphanInv /\ [Next]_vars => OrphanInv'
<1> SUFFICES ASSUME TypeOK, GuardInv, OrphanInv, [Next]_vars PROVE OrphanInv'
  OBVIOUS
<1>1. CreateIPAddress \/ (addrs = {} => addrs' = {})
  BY Frame DEF ReleaseIPAddress, CollectAddress
<1>2. addrs' # {} => pool'.exists /\ pool'.finalizer
  <2>1. CASE CreateIPAddress
    <3>1. pc = "address" /\ pool' = pool
      BY <2>1 DEF CreateIPAddress, At
    <3>2. base.finalizer /\ ~base.deleting
      BY <3>1 DEF GuardInv, ReadOK, ServeSteps
    <3> QED BY <3>1, <3>2 DEF GuardInv, Persisted
  <2>2. CASE addrs # {}
    BY <2>2, PoolStep DEF OrphanInv
  <2> QED BY <1>1, <2>1, <2>2
<1>3. pc' \in {"dIPs", "dFinalizer"} => addrs' = {}
  <2>1. CASE WaitForAddresses
    BY <2>1 DEF WaitForAddresses, NoAddresses, Goto, Return
  <2>2. CASE ~WaitForAddresses
    <3>1. pc' \in {"dIPs", "dFinalizer"} => pc \in {"dIPs", "dFinalizer"} /\ ~CreateIPAddress
      BY <2>2, Zenon DEF Next, Worker, Watches, World, vars, At, ClaimStep, Start, PatchPool, Crash,
     ListIPAddresses, ReclaimIPAddress, ReleaseIPAddress, AddFinalizer,
     ReconcileFloatingIPNetwork, ListClaims, NextClaim, CreateFloatingIP,
     TagFloatingIP, CreateIPAddress, BindClaim, UpdateStatus, DeleteAvailableIP,
     RemoveFinalizer, PoolEvent, AddressEvent, ClaimEvent, Resync, DeletePool,
     CreateClaim, DeleteClaim, ClaimGone, CollectAddress, run,
         GetIP, Goto, Return, Finish, Stop
    <3> QED BY <1>1, <3>1 DEF OrphanInv
  <2> QED BY <2>1, <2>2
<1>4. pc' = "patch" /\ base'.finalizer /\ ~w'.finalizer => addrs' = {}
  <2>1. CASE RemoveFinalizer
    BY <2>1 DEF RemoveFinalizer, At, OrphanInv
  <2>2. CASE CreateIPAddress
    BY <2>2 DEF CreateIPAddress, At, GuardInv, ReadOK
  <2>3. CASE ~RemoveFinalizer /\ ~CreateIPAddress
    <3>1. pc' = "patch" /\ base'.finalizer /\ ~w'.finalizer => pc = "patch" /\ base.finalizer /\ ~w.finalizer
      BY <2>3, Flow DEF GuardInv, ReadOK
    <3> QED BY <1>1, <2>3, <3>1 DEF OrphanInv
  <2> QED BY <2>1, <2>2, <2>3
<1> QED BY <1>2, <1>3, <1>4 DEF OrphanInv

\* If the addresses are read fresh, the pool stays until every IPAddress is gone: it
\* is needed to clean up their floating IPs.  The pool itself and the claims may be
\* read from caches that lag, and the run may be interrupted anywhere.
THEOREM NoAddressOrphaned ==
  ASSUME ~StaleAddress
  PROVE  Spec => []NoOrphanedAddress
<1>1. Init => OrphanInv
  BY DEF Init, OrphanInv
<1>2. TypeOK /\ GuardInv /\ OrphanInv /\ [Next]_vars => OrphanInv'
  BY OrphanNext
<1>3. OrphanInv => NoOrphanedAddress
  BY DEF OrphanInv, NoOrphanedAddress
<1> QED BY <1>1, <1>2, <1>3, InitGuard, GuardNext, TypeCorrect, PTL DEF Spec

-----------------------------------------------------------------------------
(* Addresses and floating IPs *)

\* OpenStack does not hand out an address that the pool lists as available although
\* it does not exist.
NotListed == pc = "allocate" /\ pc' = "tag" => ip' \notin w.available

\* One address per claim and per IP, and the IP of a live one exists.
LEMMA UniqueNext ==
  ASSUME TypeOK, OrphanInv, SharedInv, [Next]_vars
  PROVE  /\ \A a, b \in addrs' : a.claim = b.claim => a = b
         /\ \A a, b \in addrs' : a.ip = b.ip => a = b
         /\ \A a \in addrs' : a.deleting \/ a.ip \in fips'
<1>0. /\ \A a, b \in addrs : a.claim = b.claim => a = b
      /\ \A a, b \in addrs : a.ip = b.ip => a = b
      /\ \A a \in addrs : a.deleting \/ a.ip \in fips
  BY DEF SharedInv
<1>1. CASE CreateIPAddress
  <2>1. /\ NewAddress.claim = cur /\ NewAddress.ip = ip /\ fips' = fips /\ pc = "address"
        /\ addrs' = addrs \/ (addrs' = addrs \cup {NewAddress} /\ \A a \in addrs : a.claim # cur)
    BY <1>1 DEF CreateIPAddress, NewAddress, cloud, At
  <2>2. ip \in fips /\ \A a \in addrs : a.ip # ip
    BY <2>1 DEF SharedInv, Served
  <2> QED BY <1>0, <2>1, <2>2
<1>2. CASE ReleaseIPAddress
  BY <1>0, <1>2 DEF ReleaseIPAddress, cloud
<1>3. CASE CollectAddress
  <2>1. fips' = fips
    BY <1>3 DEF CollectAddress, cloud
  <2>2. PICK a \in addrs : addrs' = (addrs \ {a}) \cup {[a EXCEPT !.deleting = TRUE]}
    BY <1>3 DEF CollectAddress
  <2>3. /\ [a EXCEPT !.deleting = TRUE].claim = a.claim
        /\ [a EXCEPT !.deleting = TRUE].ip = a.ip /\ [a EXCEPT !.deleting = TRUE].deleting
    BY DEF TypeOK, AddressesOK, Address
  <2> DEFINE d == [a EXCEPT !.deleting = TRUE]
  <2>4. addrs' = (addrs \ {a}) \cup {d} /\ d.claim = a.claim /\ d.ip = a.ip /\ d.deleting
    BY <2>2, <2>3
  <2> HIDE DEF d
  <2>5. \A x, y \in addrs' : x.claim = y.claim => x = y
    BY <1>0, <2>4
  <2>6. \A x, y \in addrs' : x.ip = y.ip => x = y
    BY <1>0, <2>4
  <2> QED BY <1>0, <2>1, <2>4, <2>5, <2>6
<1>4. CASE addrs' = addrs
  <2>1. CASE ReclaimIPAddress
    <3>1. fips' = fips \/ \E a \in items : fips' = fips \ {a.ip}
      BY <2>1 DEF ReclaimIPAddress, FloatingIPDeleted, cloud
    <3>2. items \subseteq addrs /\ \A a \in items : a.deleting
      BY <2>1 DEF ReclaimIPAddress, At, SharedInv, Reclaimed
    <3> QED BY <1>0, <1>4, <3>1, <3>2
  <2>2. CASE DeleteAvailableIP
    BY <1>4, <2>2 DEF DeleteAvailableIP, At, OrphanInv
  <2>3. CASE CreateFloatingIP \/ TagFloatingIP
    BY <1>0, <1>4, <2>3 DEF CreateFloatingIP, TagFloatingIP
  <2> QED BY <1>0, <1>4, <2>1, <2>2, <2>3, Frame
<1> QED BY <1>1, <1>2, <1>3, <1>4, Frame

\* The steps that matter to a run that reclaims addresses or serves claims.
LEMMA RunSteps ==
  ASSUME [Next]_vars
  PROVE  \/ ListIPAddresses \/ ReclaimIPAddress \/ ReleaseIPAddress \/ NextClaim
         \/ CreateFloatingIP \/ TagFloatingIP \/ CreateIPAddress
         \/ ReconcileFloatingIPNetwork \/ CollectAddress
         \/ pc' \notin ServeSteps \cup {"reclaim", "release", "finalizer"}
         \/ /\ UNCHANGED <<addrs, items, claimed, fips, w, ip>>
            /\ pc' = pc \/ (pc \in ServeSteps /\ pc' \in ServeSteps \ {"tag", "address"})
<1> SUFFICES ASSUME ~(\/ ListIPAddresses \/ ReclaimIPAddress \/ ReleaseIPAddress \/ NextClaim
                      \/ CreateFloatingIP \/ TagFloatingIP \/ CreateIPAddress
                      \/ ReconcileFloatingIPNetwork \/ CollectAddress)
             PROVE  \/ pc' \notin ServeSteps \cup {"reclaim", "release", "finalizer"}
                    \/ /\ UNCHANGED <<addrs, items, claimed, fips, w, ip>>
                       /\ \/ pc' = pc
                          \/ pc \in ServeSteps /\ pc' \in ServeSteps \ {"tag", "address"}
  OBVIOUS
<1>1. \/ pc' \in {"list", "patch", "idle", "dIPs", "dFinalizer"}
      \/ /\ UNCHANGED <<addrs, items, claimed, fips, w, ip>>
         /\ pc' = pc \/ (pc \in {"listClaims", "bind"} /\ pc' = "claims")
  BY Zenon DEF Next, Worker, Watches, World, vars, At, ClaimStep, Start, PatchPool, Crash,
     AddFinalizer, ListClaims, BindClaim, UpdateStatus, WaitForAddresses,
     DeleteAvailableIP, RemoveFinalizer, PoolEvent, AddressEvent, ClaimEvent, Resync,
     DeletePool, CreateClaim, DeleteClaim, ClaimGone, run, kube,
     cloud, Goto, Return, Finish, Stop
<1> QED BY <1>1 DEF ServeSteps

\* Every step keeps that a run past the reclaim phase knows every bound address.
LEMMA ReclaimedNext ==
  ASSUME ~StaleAddress, TypeOK, SharedInv, [Next]_vars
  PROVE  Reclaimed'
<1>0. /\ \A a, b \in addrs : a.ip = b.ip => a = b
      /\ \A a \in addrs : a.deleting \/ a.ip \in fips
      /\ Reclaimed
  BY DEF SharedInv
<1> SUFFICES ASSUME pc' \in {"reclaim", "release"}
             PROVE  /\ items' \subseteq addrs'
                    /\ \A a \in items' : a.deleting
                    /\ \A a \in addrs' \ items' : a.ip \in claimed' /\ a.ip \in fips'
  BY DEF Reclaimed
<1>1. CASE ListIPAddresses
  <2>1. /\ items' = {a \in addrs : a.deleting} /\ claimed' = {a.ip : a \in addrs \ items'}
        /\ addrs' = addrs /\ fips' = fips
    BY <1>1 DEF ListIPAddresses, Released, Goto, Return, cloud
  <2> QED BY <1>0, <2>1
<1>2. CASE ReclaimIPAddress
  <2>1. pc = "reclaim" /\ addrs' = addrs /\ items' = items /\ claimed' = claimed
    BY <1>2 DEF ReclaimIPAddress, At
  <2>2. fips' = fips \/ \E a \in items : fips' = fips \ {a.ip}
    BY <1>2 DEF ReclaimIPAddress, FloatingIPDeleted, cloud
  <2> QED BY <1>0, <2>1, <2>2 DEF Reclaimed
<1>3. CASE ReleaseIPAddress
  <2>1. /\ pc = "release" /\ claimed' = claimed /\ fips' = fips
        /\ \E a \in items : addrs' = addrs \ {a} /\ items' = items \ {a}
    BY <1>3 DEF ReleaseIPAddress, At, Goto, Return, cloud
  <2> QED BY <1>0, <2>1 DEF Reclaimed
<1>4. CASE CollectAddress
  <2>1. pc' = pc /\ items' = items /\ claimed' = claimed /\ fips' = fips
    BY <1>4 DEF CollectAddress, run, cloud
  <2>2. PICK a \in addrs : /\ ~a.deleting
                           /\ addrs' = (addrs \ {a}) \cup {[a EXCEPT !.deleting = TRUE]}
    BY <1>4 DEF CollectAddress
  <2>3. [a EXCEPT !.deleting = TRUE].ip = a.ip
    BY DEF TypeOK, AddressesOK, Address
  <2> QED BY <1>0, <2>1, <2>2, <2>3 DEF Reclaimed
<1>5. CASE UNCHANGED <<addrs, items, claimed, fips, w, ip>> /\ pc' = pc
  BY <1>0, <1>5 DEF Reclaimed
<1>6. CASE \/ NextClaim \/ CreateFloatingIP \/ TagFloatingIP \/ CreateIPAddress
           \/ ReconcileFloatingIPNetwork
  BY <1>6 DEF NextClaim, GetIP, CreateFloatingIP, TagFloatingIP, CreateIPAddress,
     ReconcileFloatingIPNetwork, Goto, Return
<1> QED BY <1>1, <1>2, <1>3, <1>4, <1>5, <1>6, RunSteps DEF ServeSteps

\* What getIP takes is not claimed, and what it leaves available is not either.
LEMMA PoppedFree ==
  ASSUME TypeOK, w.available \cap claimed = {}
  PROVE  /\ Candidates \cap claimed = {}
         /\ \A x : Popped(x).available = Candidates \ {x} /\ Popped(x) \in Pool
<1>1. w \in Pool
  BY DEF TypeOK, ObjectsOK
<1> QED BY <1>1, CandidatesType DEF Candidates, Popped, Pool

\* Every step keeps that the IP a run is about to hand out is held by no one.
LEMMA ServedNext ==
  ASSUME TypeOK, SharedInv, [Next]_vars, [NotListed]_vars
  PROVE  Served'
<1>0. Served /\ Reclaimed /\ w \in Pool
  BY DEF SharedInv, TypeOK, ObjectsOK
<1> SUFFICES ASSUME pc' \in ServeSteps \cup {"finalizer"}
             PROVE  /\ \A a \in addrs' : a.ip \in claimed' /\ a.ip \in fips'
                    /\ w'.available \cap claimed' = {}
                    /\ pc' \in {"tag", "address"} =>
                         ip' \in fips' /\ ip' \in claimed' /\ \A a \in addrs' : a.ip # ip'
  BY DEF Served, ServeSteps
<1>1. CASE ReclaimIPAddress
  <2>1. /\ pc = "reclaim" /\ addrs' = addrs /\ claimed' = claimed /\ items = {}
        /\ w' = [w EXCEPT !.available = Available(w)] /\ fips' = fips
        /\ pc' \notin {"tag", "address"}
    BY <1>1 DEF ReclaimIPAddress, At, Goto, Return, cloud, ServeSteps
  <2> QED BY <1>0, <2>1 DEF Reclaimed, Available, Pool
<1>2. CASE NextClaim
  <2>1. pc = "claims" /\ addrs' = addrs /\ fips' = fips
    BY <1>2 DEF NextClaim, At, cloud
  <2>2. \A a \in addrs : a.ip \in claimed /\ a.ip \in fips
    BY <1>0, <2>1 DEF Served, ServeSteps
  <2>3. w.available \cap claimed = {}
    BY <1>0, <2>1 DEF Served, ServeSteps
  <2>4. \/ w' = w /\ claimed' = claimed /\ pc' \notin {"tag", "address"}
        \/ \E x \in Candidates :
             /\ claimed' = claimed \cup {x}
             /\ \/ x \in fips /\ ip' = x /\ w' = Popped(x)
                \/ /\ w' = [Popped(x) EXCEPT !.failed = @ \cup {x}]
                   /\ pc' \notin {"tag", "address"}
    BY <1>2 DEF NextClaim, GetIP, Goto, Return, ServeSteps
  <2>5. CASE w' = w /\ claimed' = claimed /\ pc' \notin {"tag", "address"}
    BY <2>1, <2>2, <2>3, <2>5
  <2>6. ASSUME NEW x \in Candidates, claimed' = claimed \cup {x},
               \/ x \in fips /\ ip' = x /\ w' = Popped(x)
               \/ /\ w' = [Popped(x) EXCEPT !.failed = @ \cup {x}]
                  /\ pc' \notin {"tag", "address"}
        PROVE  /\ \A a \in addrs' : a.ip \in claimed' /\ a.ip \in fips'
               /\ w'.available \cap claimed' = {}
               /\ pc' \in {"tag", "address"} =>
                    ip' \in fips' /\ ip' \in claimed' /\ \A a \in addrs' : a.ip # ip'
    <3>1. w'.available = Candidates \ {x}
      BY <2>3, <2>6, PoppedFree DEF Pool
    <3>2. x \notin claimed
      BY <2>3, PoppedFree
    <3> QED BY <2>1, <2>2, <2>3, <2>6, <3>1, <3>2, PoppedFree
  <2> QED BY <2>4, <2>5, <2>6
<1>3. CASE CreateFloatingIP
  <2>1. /\ pc = "allocate" /\ addrs' = addrs /\ w' = w /\ pc' = "tag"
        /\ \E x \in IPs \ fips : fips' = fips \cup {x} /\ ip' = x /\ claimed' = claimed \cup {x}
    BY <1>3 DEF CreateFloatingIP, At, Goto, Return, ServeSteps
  <2>2. ip' \notin w.available
    BY <2>1 DEF NotListed, vars
  <2>3. /\ \A a \in addrs : a.ip \in claimed /\ a.ip \in fips
        /\ w.available \cap claimed = {}
    BY <1>0, <2>1 DEF Served, ServeSteps
  <2> QED BY <2>1, <2>2, <2>3
<1>4. CASE TagFloatingIP
  <2>1. /\ pc = "tag" /\ UNCHANGED <<addrs, w, fips, claimed, ip>>
    BY <1>4 DEF TagFloatingIP, At
  <2> QED BY <1>0, <2>1 DEF Served, ServeSteps
<1>5. CASE CreateIPAddress
  <2>1. /\ pc = "address" /\ UNCHANGED <<w, fips, claimed, ip>> /\ pc' = "bind"
        /\ addrs' = addrs \cup {NewAddress} /\ NewAddress.ip = ip
    BY <1>5 DEF CreateIPAddress, At, cloud, Goto, Return, ServeSteps, NewAddress
  <2> QED BY <1>0, <2>1 DEF Served, ServeSteps
<1>6. CASE ReconcileFloatingIPNetwork
  <2>1. /\ pc = "network" /\ UNCHANGED <<addrs, fips, claimed, ip>> /\ pc' = "listClaims"
        /\ w' = [w EXCEPT !.network = TRUE]
    BY <1>6 DEF ReconcileFloatingIPNetwork, At, cloud, Goto, Return, ServeSteps
  <2> QED BY <1>0, <2>1 DEF Served, ServeSteps, Pool
<1>7. CASE CollectAddress
  <2>1. UNCHANGED <<pc, w, fips, claimed, ip>>
    BY <1>7 DEF CollectAddress, cloud, run
  <2> QED BY <1>0, <1>7, <2>1, Collected DEF Served, ServeSteps
<1>8. CASE /\ UNCHANGED <<addrs, items, claimed, fips, w, ip>>
           /\ pc' = pc \/ (pc \in ServeSteps /\ pc' \in ServeSteps \ {"tag", "address"})
  BY <1>0, <1>8 DEF Served, ServeSteps
<1>9. CASE ListIPAddresses \/ ReleaseIPAddress
  BY <1>9 DEF ListIPAddresses, ReleaseIPAddress, Goto, Return, ServeSteps
<1> QED BY <1>1, <1>2, <1>3, <1>4, <1>5, <1>6, <1>7, <1>8, <1>9, RunSteps

\* If the addresses are read fresh and OpenStack hands out no address that the pool
\* still lists, no floating IP is held by two claims: whatever getIP takes is
\* neither available nor claimed, also when the pool is read from a cache that lags
\* and the run is interrupted anywhere.
THEOREM AddressNotShared ==
  ASSUME ~StaleAddress
  PROVE  Spec /\ [][NotListed]_vars => []NoSharedAddress
<1>1. Init => OrphanInv /\ SharedInv
  BY DEF Init, OrphanInv, SharedInv, Reclaimed, Served, ServeSteps
<1>2. TypeOK /\ GuardInv /\ OrphanInv /\ [Next]_vars => OrphanInv'
  BY OrphanNext
<1>3. TypeOK /\ OrphanInv /\ SharedInv /\ [Next]_vars /\ [NotListed]_vars => SharedInv'
  BY UniqueNext, ReclaimedNext, ServedNext DEF SharedInv
<1>4. SharedInv => NoSharedAddress
  BY DEF SharedInv, NoSharedAddress
<1> QED BY <1>1, <1>2, <1>3, <1>4, InitGuard, GuardNext, TypeCorrect, PTL DEF Spec

\* Under the same assumptions the pool deletes no floating IP that a live address
\* still uses.
THEOREM BoundIPKept ==
  ASSUME ~StaleAddress
  PROVE  Spec /\ [][NotListed]_vars => NoBoundIPDeleted
<1>1. Init => OrphanInv /\ SharedInv
  BY DEF Init, OrphanInv, SharedInv, Reclaimed, Served, ServeSteps
<1>2. TypeOK /\ GuardInv /\ OrphanInv /\ [Next]_vars => OrphanInv'
  BY OrphanNext
<1>3. TypeOK /\ OrphanInv /\ SharedInv /\ [Next]_vars /\ [NotListed]_vars => SharedInv'
  BY UniqueNext, ReclaimedNext, ServedNext DEF SharedInv
<1>4. ASSUME OrphanInv, SharedInv, [Next]_vars
      PROVE  \A a \in addrs : ~a.deleting /\ a.ip \in fips => a.ip \in fips'
  <2>1. CASE ReclaimIPAddress
    <3>1. fips' = fips \/ \E a \in items : fips' = fips \ {a.ip}
      BY <2>1 DEF ReclaimIPAddress, FloatingIPDeleted, cloud
    <3>2. items \subseteq addrs /\ \A a \in items : a.deleting
      BY <1>4, <2>1 DEF ReclaimIPAddress, At, SharedInv, Reclaimed
    <3> QED BY <1>4, <3>1, <3>2 DEF SharedInv
  <2>2. CASE DeleteAvailableIP
    BY <1>4, <2>2 DEF DeleteAvailableIP, At, OrphanInv
  <2>3. CASE CreateFloatingIP \/ TagFloatingIP
    BY <2>3 DEF CreateFloatingIP, TagFloatingIP
  <2> QED BY <1>4, <2>1, <2>2, <2>3, Frame
<1> QED BY <1>1, <1>2, <1>3, <1>4, InitGuard, GuardNext, TypeCorrect, PTL
    DEF Spec, NoBoundIPDeleted

-----------------------------------------------------------------------------
(* MaxIPs *)

\* A step never takes back that the deletion of the pool has been read.
LEMMA AliveStep ==
  ASSUME TypeOK, GuardInv, [Next]_vars, Alive'
  PROVE  Alive
<1>1. ~NewPool.deleting
  BY DEF NewPool
<1>2. poolCache.deleting => poolCache'.deleting
  BY Frame DEF GuardInv, Persisted
<1>3. base.deleting => poolCache.deleting
  BY DEF GuardInv
<1>4. CASE pc = "idle"
  BY <1>1, <1>2, <1>3, <1>4, Flow DEF Alive, AddFinalizer, RemoveFinalizer, At
<1>5. CASE pc # "idle"
  BY <1>1, <1>2, <1>3, <1>5, Flow DEF Alive, Start
<1> QED BY <1>4, <1>5

\* The list of available IPs in the API server comes from a working copy.
LEMMA PoolAvailable ==
  ASSUME TypeOK, [Next]_vars
  PROVE  pool'.available \in {pool.available, w.available}
<1>0. pool \in Pool /\ base \in Pool /\ w \in Pool
  BY DEF TypeOK, ObjectsOK
<1>1. CASE AddFinalizer \/ UpdateStatus \/ RemoveFinalizer \/ DeletePool
  BY <1>0, <1>1 DEF AddFinalizer, UpdateStatus, RemoveFinalizer, DeletePool, Pool
<1>2. CASE PatchPool
  <2>1. PatchedMeta(pool) \in Pool /\ PatchedMeta(pool).available = pool.available
    <3>1. PatchedMeta(pool) \in Pool /\ w.finalizer \in BOOLEAN /\ base.finalizer \in BOOLEAN
      BY <1>0, PatchedType DEF TypeOK, Pool
    <3>2. CASE w.finalizer = base.finalizer
      BY <3>1, <3>2 DEF PatchedMeta
    <3>3. CASE w.finalizer # base.finalizer /\ w.finalizer
      BY <1>0, <3>1, <3>3 DEF PatchedMeta, Pool
    <3>4. CASE w.finalizer # base.finalizer /\ ~w.finalizer
      BY <1>0, <3>1, <3>4 DEF PatchedMeta, Pool
    <3> QED BY <3>2, <3>3, <3>4
  <2>2. PatchedStatus(PatchedMeta(pool)).available \in {pool.available, w.available}
    BY <2>1 DEF PatchedStatus, Pick, Pool
  <2>3. pool' \in {pool, PatchedMeta(pool), Patched(pool)}
    BY <1>2 DEF PatchPool
  <2> QED BY <2>1, <2>2, <2>3 DEF Patched
<1> QED BY <1>1, <1>2, Frame

\* What the working copy lists as available is known from the lists it was read from.
LEMMA WorkingAvailable ==
  ASSUME TypeOK, [Next]_vars
  PROVE  w'.available \subseteq poolCache.available \cup pool.available \cup w.available
                                \cup PreAllocated \cup tagged \cup {a.ip : a \in items}
<1>0. pool \in Pool /\ poolCache \in Pool /\ w \in Pool /\ NewPool.available = {}
  BY DEF TypeOK, ObjectsOK, NewPool
<1>1. CASE w' \in {w, poolCache, NewPool, [w EXCEPT !.finalizer = TRUE],
                   [w EXCEPT !.finalizer = FALSE], [w EXCEPT !.network = TRUE],
                   [pool EXCEPT !.finalizer = TRUE]}
  BY <1>0, <1>1 DEF Pool
<1>2. CASE ReclaimIPAddress \/ DeleteAvailableIP
  <2>1. \/ w' = w \/ w' = [w EXCEPT !.available = Available(w)]
        \/ \E a \in items : w' = [w EXCEPT !.available = w.available \cup {a.ip}]
        \/ \E x : w' = [w EXCEPT !.available = w.available \ {x}]
    BY <1>2 DEF ReclaimIPAddress, DeleteAvailableIP
  <2>2. \/ w'.available \subseteq w.available
        \/ w'.available = Available(w)
        \/ \E a \in items : w'.available = w.available \cup {a.ip}
    BY <1>0, <2>1 DEF Pool
  <2> QED BY <2>2 DEF Available
<1>3. CASE NextClaim
  <2>1. \/ w' = w
        \/ \E x \in Candidates : w' \in {Popped(x), [Popped(x) EXCEPT !.failed = @ \cup {x}]}
    BY <1>3 DEF NextClaim, GetIP
  <2>2. \A x : Popped(x).available = Candidates \ {x} /\ Popped(x) \in Pool
    BY <1>0, CandidatesType DEF Popped, Pool
  <2>3. w'.available \subseteq w.available \cup Candidates
    BY <2>1, <2>2 DEF Pool
  <2> QED BY <2>3 DEF Candidates
<1> QED BY <1>1, <1>2, <1>3, WorkingCopy

\* With the policy Retain, what the lists name stays in OpenStack until the deletion is read.
LEMMA RetainNext == TypeOK /\ GuardInv /\ RetainInv /\ [Next]_vars => RetainInv'
<1> SUFFICES ASSUME TypeOK, GuardInv, RetainInv, [Next]_vars, policy = "Retain", Alive'
             PROVE  /\ pool'.available \subseteq Known' /\ poolCache'.available \subseteq Known'
                    /\ base'.available \subseteq Known' /\ w'.available \subseteq Known'
                    /\ \A a \in addrs' \cup addrCache' \cup items' : a.ip \in fips'
                    /\ pc' \in {"tag", "address"} => ip' \in fips'
  BY Frame DEF RetainInv
<1>0. /\ Alive
      /\ pool.available \subseteq Known /\ poolCache.available \subseteq Known
      /\ base.available \subseteq Known /\ w.available \subseteq Known
      /\ \A a \in addrs \cup addrCache \cup items : a.ip \in fips
      /\ pc \in {"tag", "address"} => ip \in fips
  BY AliveStep DEF RetainInv
<1>1. fips \subseteq fips'
  <2>1. CASE ReclaimIPAddress
    BY <2>1 DEF ReclaimIPAddress, Deletes, cloud
  <2>2. CASE DeleteAvailableIP
    BY <1>0, <2>2 DEF DeleteAvailableIP, At, GuardInv, ReadOK, DeleteSteps, Alive
  <2>3. CASE CreateFloatingIP \/ TagFloatingIP
    BY <2>3 DEF CreateFloatingIP, TagFloatingIP
  <2> QED BY <2>1, <2>2, <2>3, Frame
<1>2. Known \subseteq Known'
  BY <1>1 DEF Known
<1>3. /\ pool'.available \subseteq Known' /\ poolCache'.available \subseteq Known'
      /\ base'.available \subseteq Known'
  BY <1>0, <1>2, PoolAvailable, Frame DEF NewPool
<1>4. w'.available \subseteq Known'
  <2>1. tagged \subseteq Known /\ {a.ip : a \in items} \subseteq Known /\ PreAllocated \subseteq Known
    BY <1>0 DEF Known, TypeOK, CloudOK
  <2> QED BY <1>0, <1>2, <2>1, WorkingAvailable
<1>5. \A a \in addrs' : a.ip \in fips'
  <2>1. CASE CreateIPAddress
    <3>1. pc = "address" /\ addrs' \subseteq addrs \cup {NewAddress} /\ NewAddress.ip = ip
      BY <2>1 DEF CreateIPAddress, At, NewAddress
    <3> QED BY <1>0, <1>1, <3>1
  <2>2. CASE ReleaseIPAddress
    <3>1. addrs' \subseteq addrs
      BY <2>2 DEF ReleaseIPAddress
    <3> QED BY <1>0, <1>1, <3>1
  <2>3. CASE CollectAddress
    BY <1>0, <1>1, <2>3, Collected
  <2> QED BY <1>0, <1>1, <2>1, <2>2, <2>3, Frame
<1>6. \A a \in addrCache' \cup items' : a.ip \in fips'
  <2>1. items' \subseteq items \cup addrCache
    <3>1. CASE ListIPAddresses
      BY <3>1 DEF ListIPAddresses
    <3>2. CASE ReleaseIPAddress
      BY <3>2 DEF ReleaseIPAddress
    <3> QED BY <3>1, <3>2, Frame
  <2> QED BY <1>0, <1>1, <2>1, Frame
<1>7. pc' \in {"tag", "address"} => ip' \in fips'
  <2>1. CASE NextClaim
    BY <2>1 DEF NextClaim, GetIP, Goto, Return, cloud
  <2>2. CASE CreateFloatingIP
    BY <2>2 DEF CreateFloatingIP, Goto, Return
  <2>3. CASE ~(NextClaim \/ CreateFloatingIP)
    <3>1. pc' \in {"tag", "address"} => pc \in {"tag", "address"} /\ ip' = ip
      BY <2>3, Zenon DEF Next, Worker, Watches, World, vars, At, ClaimStep, Start, PatchPool, Crash,
     ListIPAddresses, ReclaimIPAddress, ReleaseIPAddress, AddFinalizer,
     ReconcileFloatingIPNetwork, ListClaims, TagFloatingIP, CreateIPAddress,
     BindClaim, UpdateStatus, WaitForAddresses, DeleteAvailableIP, RemoveFinalizer,
     PoolEvent, AddressEvent, ClaimEvent, Resync, DeletePool, CreateClaim,
     DeleteClaim, ClaimGone, CollectAddress, run, Goto,
         Return, Finish, Stop
    <3> QED BY <1>0, <1>1, <3>1
  <2> QED BY <2>1, <2>2, <2>3
<1> QED BY <1>3, <1>4, <1>5, <1>6, <1>7

\* The list of claimed IPs is at least as long as the set of its members.
LEMMA ClaimedCounted ==
  ASSUME TypeOK, [Next]_vars, Cardinality(claimed) <= nclaimed
  PROVE  Cardinality(claimed') <= nclaimed'
<1>0. IsFiniteSet(claimed) /\ Cardinality(claimed) \in Nat /\ nclaimed \in Nat
  <2>1. IsFiniteSet(claimed)
    BY FS_Subset, PoolAssumption DEF TypeOK, CloudOK
  <2> QED BY <2>1, FS_CardinalityType DEF TypeOK, CloudOK
<1>1. \A x : /\ Cardinality(claimed \cup {x}) <= nclaimed + 1
             /\ Cardinality(claimed \cup {x}) \in Nat
  <2> TAKE x
  <2> QED BY <1>0, FS_AddElement
<1>2. CASE ListIPAddresses
  <2> DEFINE S == addrCache \ items'
             T == {a.ip : a \in S}
             f == [a \in S |-> a.ip]
  <2>1. IsFiniteSet(S)
    BY FS_Subset DEF TypeOK, AddressesOK
  <2>2. f \in Surjection(S, T)
    BY DEF Surjection
  <2>3. Cardinality(T) <= Cardinality(S)
    BY <2>1, <2>2, FS_Surjection
  <2>4. \/ claimed' = claimed /\ nclaimed' = nclaimed
        \/ claimed' = T /\ nclaimed' = Cardinality(S)
    BY <1>2, Zenon DEF ListIPAddresses
  <2> HIDE DEF S, T
  <2> QED BY <2>3, <2>4
<1>3. CASE NextClaim
  <2>1. \/ claimed' = claimed /\ nclaimed' = nclaimed
        \/ \E x : claimed' = claimed \cup {x} /\ nclaimed' \in {nclaimed + 1, nclaimed + 2}
    BY <1>3 DEF NextClaim, GetIP
  <2>2. ASSUME NEW x, claimed' = claimed \cup {x}, nclaimed' \in {nclaimed + 1, nclaimed + 2}
        PROVE  Cardinality(claimed') <= nclaimed'
    <3>1. Cardinality(claimed \cup {x}) <= nclaimed + 1 /\ Cardinality(claimed \cup {x}) \in Nat
      BY <1>1
    <3> QED BY <1>0, <2>2, <3>1
  <2> QED BY <2>1, <2>2
<1>4. CASE CreateFloatingIP
  <2>1. \/ claimed' = claimed /\ nclaimed' = nclaimed
        \/ \E x : claimed' = claimed \cup {x} /\ nclaimed' = nclaimed + 1
    BY <1>4 DEF CreateFloatingIP
  <2> QED BY <1>1, <2>1
<1>5. CASE claimed' = {} /\ nclaimed' = 0
  BY <1>5, FS_EmptySet
<1> QED BY <1>2, <1>3, <1>4, <1>5, Frame

\* The steps that lead to the creation of a floating IP.
LEMMA AllocationSteps ==
  ASSUME [Next]_vars
  PROVE  \/ NextClaim \/ CreateFloatingIP
         \/ pc' \notin {"allocate", "tag"}
         \/ pc' = pc /\ UNCHANGED <<tagged, claimed, nclaimed, ip>>
BY Zenon DEF Next, Worker, Watches, World, vars, At, ClaimStep, Start, PatchPool, Crash,
     ListIPAddresses, ReclaimIPAddress, ReleaseIPAddress, AddFinalizer,
     ReconcileFloatingIPNetwork, ListClaims, TagFloatingIP, CreateIPAddress,
     BindClaim, UpdateStatus, WaitForAddresses, DeleteAvailableIP, RemoveFinalizer,
     PoolEvent, AddressEvent, ClaimEvent, Resync, DeletePool, CreateClaim,
     DeleteClaim, ClaimGone, CollectAddress, run, cloud, Goto, Return, Finish, Stop

\* Every step keeps the tagged IPs within MaxIPs, and claimed when another is created.
LEMMA MaxNext == TypeOK /\ GuardInv /\ RetainInv /\ MaxInv /\ [Next]_vars => MaxInv'
<1> SUFFICES ASSUME TypeOK, GuardInv, RetainInv, MaxInv, [Next]_vars PROVE MaxInv'
  OBVIOUS
<1>0. /\ IsFiniteSet(fips) /\ IsFiniteSet(claimed) /\ IsFiniteSet(tagged)
      /\ nclaimed \in Nat /\ MaxIPs \in Nat \cup {-1}
      /\ Cardinality(claimed) \in Nat /\ Cardinality(tagged) \in Nat
  <2>1. IsFiniteSet(claimed) /\ IsFiniteSet(fips)
    BY FS_Subset, PoolAssumption DEF TypeOK, CloudOK
  <2>2. IsFiniteSet(tagged)
    BY <2>1, FS_Subset DEF TypeOK, CloudOK
  <2> QED BY <2>1, <2>2, FS_CardinalityType, PoolAssumption DEF TypeOK, CloudOK
<1>1. NeverMissing' = NeverMissing
  BY Frame DEF NeverMissing
<1>2. Missing = {{}} => PreAllocated \subseteq fips'
  <2>1. Missing = {{}} => PreAllocated \subseteq fips
    BY DEF MaxInv
  <2>2. CASE ReclaimIPAddress
    BY <2>1, <2>2 DEF ReclaimIPAddress, Deletes, FloatingIPDeleted, cloud
  <2>3. CASE DeleteAvailableIP
    BY <2>1, <2>3 DEF DeleteAvailableIP, FloatingIPDeleted, cloud
  <2>4. CASE CreateFloatingIP \/ TagFloatingIP
    BY <2>1, <2>4 DEF CreateFloatingIP, TagFloatingIP
  <2> QED BY <2>1, <2>2, <2>3, <2>4, Frame
<1>3. pc' = "allocate" /\ NeverMissing => tagged' \subseteq claimed' \/ MaxReached'
  <2>1. CASE NextClaim
    <3> SUFFICES ASSUME pc' = "allocate", NeverMissing
                 PROVE  tagged' \subseteq claimed' \/ MaxReached'
      OBVIOUS
    <3>1. /\ pc = "claims" /\ tagged' = tagged
          /\ \/ Candidates = {} /\ claimed' = claimed
             \/ \E x \in Candidates : x \notin fips /\ nclaimed' = nclaimed + 1
      BY <2>1 DEF NextClaim, GetIP, At, cloud, Goto, Return
    <3>2. CASE Candidates = {} /\ claimed' = claimed
      BY <3>1, <3>2 DEF Candidates
    <3>3. ASSUME NEW x \in Candidates, x \notin fips, nclaimed' = nclaimed + 1
          PROVE  MaxReached'
      <4>1. CASE MaxIPs \in {0, 1}
        BY <1>0, <3>3, <4>1 DEF MaxReached
      <4>2. CASE policy = "Retain" /\ Missing = {{}}
        <5>1. Alive
          BY <3>1 DEF Alive, GuardInv, ReadOK, ServeSteps
        <5>2. w.available \subseteq fips /\ tagged \subseteq fips
          BY <4>2, <5>1 DEF RetainInv, Known, MaxInv, TypeOK, CloudOK
        <5> QED BY <3>3, <5>2 DEF Candidates
      <4> QED BY <4>1, <4>2 DEF NeverMissing
    <3> QED BY <3>1, <3>2, <3>3
  <2>2. CASE CreateFloatingIP
    BY <2>2 DEF CreateFloatingIP, Goto, Return
  <2> QED BY <2>1, <2>2, AllocationSteps DEF MaxInv, MaxReached
<1>4. pc' = "tag" /\ NeverMissing => Cardinality(tagged' \cup {ip'}) <= MaxIPs
  <2>1. CASE CreateFloatingIP
    <3> SUFFICES ASSUME pc' = "tag", NeverMissing
                 PROVE  Cardinality(tagged \cup {ip'}) <= MaxIPs
      BY <2>1 DEF CreateFloatingIP
    <3>1. pc = "allocate" /\ ~MaxReached
      BY <2>1 DEF CreateFloatingIP, At, Goto, Return
    <3>2. tagged \subseteq claimed /\ Cardinality(claimed) <= nclaimed
      BY <3>1 DEF MaxInv
    <3>3. Cardinality(tagged) <= Cardinality(claimed)
      BY <1>0, <3>2, FS_Subset
    <3>4. Cardinality(tagged \cup {ip'}) \in {Cardinality(tagged), Cardinality(tagged) + 1}
      BY <1>0, FS_AddElement
    <3>5. nclaimed < MaxIPs
      BY <1>0, <3>1 DEF MaxReached, NeverMissing
    <3> QED BY <1>0, <3>2, <3>3, <3>4, <3>5
  <2>2. CASE NextClaim
    BY <2>2 DEF NextClaim, GetIP, Goto, Return
  <2> QED BY <2>1, <2>2, AllocationSteps DEF MaxInv
<1>5. NeverMissing => Cardinality(tagged') <= MaxIPs
  <2> SUFFICES ASSUME NeverMissing PROVE Cardinality(tagged') <= MaxIPs
    OBVIOUS
  <2>0. Cardinality(tagged) <= MaxIPs
    BY DEF MaxInv
  <2>1. CASE TagFloatingIP
    <3>1. pc = "tag" /\ tagged' \in {tagged, tagged \cup {ip}}
      BY <2>1 DEF TagFloatingIP, At
    <3> QED BY <2>0, <3>1 DEF MaxInv
  <2>2. CASE ~TagFloatingIP
    <3>1. tagged' \subseteq tagged
      BY <2>2, Frame DEF ReclaimIPAddress, DeleteAvailableIP, CreateFloatingIP,
         FloatingIPDeleted, cloud
    <3>2. Cardinality(tagged') <= Cardinality(tagged) /\ Cardinality(tagged') \in Nat
      BY <1>0, <3>1, FS_Subset, FS_CardinalityType
    <3> QED BY <1>0, <2>0, <3>2
  <2> QED BY <2>1, <2>2
<1>6. Cardinality(claimed') <= nclaimed'
  BY ClaimedCounted DEF MaxInv
<1> QED BY <1>1, <1>2, <1>3, <1>4, <1>5, <1>6 DEF MaxInv

\* The pool never owns more floating IPs of its own making than MaxIPs, unless getIP
\* can come upon a missing IP (NeverMissing), however often they are released, retained
\* and handed out again and wherever a run is interrupted, also when every cache lags.  The count that getIP compares with
\* MaxIPs is the length of a list, which is never shorter than the set of the IPs in
\* it, and every tagged IP is in that list when a new one is created.
THEOREM CreatedBounded == Spec => []CreatedWithinMax
<1>1. Init => RetainInv /\ MaxInv
  <2> SUFFICES ASSUME Init PROVE RetainInv /\ MaxInv
    OBVIOUS
  <2>1. RetainInv
    BY DEF Init, RetainInv, NewPool
  <2>2. Missing = {{}} => PreAllocated \subseteq fips
    BY DEF Init
  <2>3. NeverMissing => 0 <= MaxIPs
    BY PoolAssumption DEF NeverMissing
  <2>4. tagged = {} /\ claimed = {} /\ nclaimed = 0 /\ pc = "idle"
    BY DEF Init
  <2> QED BY <2>1, <2>2, <2>3, <2>4, FS_EmptySet DEF MaxInv
<1>2. TypeOK /\ MaxInv => CreatedWithinMax
  <2> SUFFICES ASSUME TypeOK, MaxInv, NeverMissing PROVE Cardinality(Created) <= MaxIPs
    BY DEF CreatedWithinMax
  <2>1. IsFiniteSet(fips)
    BY FS_Subset, PoolAssumption DEF TypeOK, CloudOK
  <2>2. IsFiniteSet(tagged)
    BY <2>1, FS_Subset DEF TypeOK, CloudOK
  <2>3. Cardinality(Created) <= Cardinality(tagged) /\ IsFiniteSet(Created)
    BY <2>2, FS_Subset DEF Created
  <2>4. Cardinality(Created) \in Nat /\ Cardinality(tagged) \in Nat
    BY <2>2, <2>3, FS_CardinalityType
  <2> QED BY <2>3, <2>4, PoolAssumption DEF MaxInv
<1> QED BY <1>1, <1>2, InitGuard, GuardNext, RetainNext, MaxNext, TypeCorrect, PTL DEF Spec

=============================================================================
