--------------------------- MODULE FloatingIPPool ---------------------------
(***************************************************************************)
(* The OpenStackFloatingIPPool controller: one worker hands floating IPs to  *)
(* IPAddressClaims.  It keeps a list of available IPs in the pool's status,  *)
(* tags the IPs it creates, creates one IPAddress object per claim and takes *)
(* the IP back when that object is deleted.                                  *)
(*                                                                           *)
(* The pool, the claims and the addresses are read from informer caches; an  *)
(* update carries the resource version of the copy it was read from, which   *)
(* the model takes to match exactly when the object has not changed since.   *)
(***************************************************************************)
EXTENDS Integers, FiniteSets

CONSTANTS
  IPs,           \* addresses of the external network
  PreAllocated,  \* spec.preAllocatedFloatingIPs
  Missing,       \* the sets of pre-allocated IPs that may not exist in OpenStack
  Claims,        \* names of claims on the pool; a name is used once (bound)
  MaxIPs,        \* spec.maxIPs, -1 when nil
  Policies,      \* values of spec.reclaimPolicy considered
  StalePool,     \* the pool informer may lag behind the API server
  StaleAddress,  \* the IPAddress informer may lag
  StaleClaims,   \* the IPAddressClaim informer may lag
  FaultClasses,  \* subset of {"openstack", "tag", "kube", "crash"}
  MaxFaults      \* bound: number of faults in a behaviour

ASSUME PoolAssumption ==
  /\ PreAllocated \subseteq IPs /\ Missing \subseteq SUBSET PreAllocated /\ Missing # {}
  /\ IPs # {} /\ Claims # {} /\ IsFiniteSet(IPs) /\ IsFiniteSet(Claims)
  /\ MaxIPs \in Nat \cup {-1}
  /\ Policies # {} /\ Policies \subseteq {"Delete", "Retain"}
  /\ StalePool \in BOOLEAN /\ StaleAddress \in BOOLEAN /\ StaleClaims \in BOOLEAN
  /\ FaultClasses \subseteq {"openstack", "tag", "kube", "crash"}
  /\ MaxFaults \in Nat

VARIABLES
  policy,      \* spec.reclaimPolicy
  pool,        \* the OpenStackFloatingIPPool in the API server
  poolCache,
  addrs,       \* the IPAddress objects; each holds the delete-floating-ip finalizer
  addrCache,
  claims,      \* life of each claim; "bound" once Status.AddressRef is set
  claimCache,
  fips,        \* floating IPs that exist in OpenStack
  tagged,      \* those that carry the pool's tag
  queued,      \* the pool's key is in the work queue
  pc, base, w, \* step, the pool as read, the working copy
  items,       \* deleted addresses still to be reclaimed
  todo,        \* claims still to be served
  claimed,     \* Status.ClaimedIPs of the working copy, as a set
  nclaimed,    \* and its length: an IP may be listed twice
  cur, ip,     \* the claim being served and its IP
  result, faults

kube  == <<pool, poolCache, addrs, addrCache, claims, claimCache>>
cloud == <<fips, tagged>>
run   == <<base, w, items, todo, claimed, nclaimed, cur, ip>>
vars  == <<policy, kube, cloud, run, queued, pc, result, faults>>

Pool    == [exists : BOOLEAN, deleting : BOOLEAN, finalizer : BOOLEAN,
            network : BOOLEAN, available : SUBSET IPs, failed : SUBSET IPs]
Address == [claim : Claims, ip : IPs, deleting : BOOLEAN]
ClaimStates == {"none", "open", "bound", "deleting", "gone"}

NewPool == [exists |-> TRUE, deleting |-> FALSE, finalizer |-> FALSE,
            network |-> FALSE, available |-> {}, failed |-> {}]

AnyClaim == CHOOSE c \in Claims : TRUE
AnyIP    == CHOOSE x \in IPs : TRUE

Steps == {"idle", "list", "reclaim", "release", "finalizer", "network",
          "listClaims", "claims", "allocate", "tag", "address", "bind", "update",
          "delete", "dIPs", "dFinalizer", "patch"}

Init ==
  /\ policy \in Policies
  /\ pool = NewPool /\ poolCache = NewPool
  /\ addrs = {} /\ addrCache = {}
  /\ claims = [c \in Claims |-> "none"] /\ claimCache = claims
  /\ fips \in {PreAllocated \ m : m \in Missing} /\ tagged = {}
  /\ queued = TRUE /\ pc = "idle"
  /\ base = NewPool /\ w = NewPool /\ items = {} /\ todo = {}
  /\ claimed = {} /\ nclaimed = 0 /\ cur = AnyClaim /\ ip = AnyIP
  /\ result = "done" /\ faults = 0

-----------------------------------------------------------------------------
Works    == faults' = faults
Fails(c) == c \in FaultClasses /\ faults < MaxFaults /\ faults' = faults + 1

At(step) == pc = step /\ UNCHANGED <<policy, queued, poolCache, addrCache, claimCache>>
Goto(step) == pc' = step /\ result' = result
Return(res) == pc' = "patch" /\ result' = res

\* The object has not changed since it was read: an update is accepted.
Unchanged == base = pool

-----------------------------------------------------------------------------
(* Reconcile *)

Start ==
  /\ pc = "idle" /\ queued
  /\ StalePool \/ poolCache = pool
  /\ queued' = FALSE
  /\ IF poolCache.exists
       THEN pc' = "list" /\ base' = poolCache /\ w' = poolCache
       ELSE UNCHANGED <<pc, base, w>>
  /\ UNCHANGED <<policy, kube, cloud, items, todo, claimed, nclaimed, cur, ip,
                 result, faults>>

ReleasedWithClaim(a) == claims[a.claim] = "gone"

\* An IP is taken back once its address is being deleted.
Released(a) == a.deleting

\* reconcileIPAddresses, first part: the addresses that are not deleted are the
\* claimed ones.  A failure stands for the client scope as well.
ListIPAddresses ==
  /\ At("list")
  /\ StaleAddress \/ addrCache = addrs
  /\ \/ /\ Works /\ Goto("reclaim")
        /\ items' = {a \in addrCache : Released(a)}
        /\ claimed' = {a.ip : a \in addrCache \ items'}
        /\ nclaimed' = Cardinality(addrCache \ items')
     \/ Fails("openstack") /\ Return("error") /\ UNCHANGED <<items, claimed, nclaimed>>
  /\ UNCHANGED <<pool, addrs, claims, cloud, base, w, todo, cur, ip>>

DeletesAlways(a) == policy = "Delete"

\* A released IP is deleted in OpenStack, or kept for the next claim.
Deletes(a) == policy = "Delete" /\ a.ip \notin PreAllocated

\* DeleteFloatingIP.
FloatingIPDeleted(x) == fips' = fips \ {x} /\ tagged' = tagged \ {x}

AvailableKeepingClaimed(o) == (o.available \cup PreAllocated) \ o.failed

\* The union and the two diffs at the end of reconcileIPAddresses.
Available(o) == ((o.available \cup PreAllocated) \ claimed) \ o.failed

\* reconcileIPAddresses, the loop, and the choice of the path after it.
ReclaimIPAddress ==
  /\ At("reclaim")
  /\ \/ /\ items = {} /\ Works /\ UNCHANGED <<cloud, cur>>
        /\ w' = [w EXCEPT !.available = Available(w)]
        /\ Goto(IF base.deleting THEN "delete"
                ELSE IF base.finalizer THEN "network" ELSE "finalizer")
     \/ \E a \in items :
          /\ Works /\ Goto("release") /\ cur' = a.claim
          /\ IF Deletes(a)
               THEN FloatingIPDeleted(a.ip) /\ UNCHANGED w
               ELSE w' = [w EXCEPT !.available = @ \cup {a.ip}] /\ UNCHANGED cloud
     \/ \E a \in items :
          /\ Deletes(a) /\ Fails("openstack") /\ Return("error")
          /\ UNCHANGED cloud \/ FloatingIPDeleted(a.ip)
          /\ UNCHANGED <<w, cur>>
  /\ UNCHANGED <<pool, addrs, claims, base, items, todo, claimed, nclaimed, ip>>

\* The finalizer goes, and with it the deleted address.
ReleaseIPAddress ==
  /\ At("release")
  /\ \E a \in items :
       /\ a.claim = cur
       /\ \/ /\ a \in addrs /\ Works /\ Goto("reclaim")
             /\ addrs' = addrs \ {a} /\ items' = items \ {a}
          \/ /\ a \notin addrs /\ Works /\ Return("error")
             /\ UNCHANGED <<addrs, items>>
          \/ /\ Fails("kube") /\ Return("error") /\ UNCHANGED items
             /\ addrs' \in {addrs, addrs \ {a}}
  /\ UNCHANGED <<pool, claims, cloud, base, w, todo, claimed, nclaimed, cur, ip>>

\* The pool's finalizer is added with an update, whose answer replaces the
\* working copy.
AddFinalizer ==
  /\ At("finalizer")
  /\ \/ /\ Unchanged /\ Works /\ Return("done")
        /\ pool' = [pool EXCEPT !.finalizer = TRUE] /\ w' = pool'
     \/ /\ ~Unchanged /\ Works /\ Return("error")
        /\ w' = [w EXCEPT !.finalizer = TRUE] /\ UNCHANGED pool
     \/ /\ Fails("kube") /\ Return("error")
        /\ w' = [w EXCEPT !.finalizer = TRUE] /\ UNCHANGED pool
  /\ UNCHANGED <<addrs, claims, cloud, base, items, todo, claimed, nclaimed, cur, ip>>

ReconcileFloatingIPNetwork ==
  /\ At("network")
  /\ \/ Works /\ Goto("listClaims") /\ w' = [w EXCEPT !.network = TRUE]
     \/ ~w.network /\ Fails("openstack") /\ Return("error") /\ UNCHANGED w
  /\ UNCHANGED <<pool, addrs, claims, cloud, base, items, todo, claimed, nclaimed, cur, ip>>

ListClaims ==
  /\ At("listClaims")
  /\ StaleClaims \/ claimCache = claims
  /\ Works /\ Goto("claims")
  /\ todo' = {c \in Claims : claimCache[c] = "open"}
  /\ UNCHANGED <<pool, addrs, claims, cloud, base, w, items, claimed, nclaimed, cur, ip>>

\* What getIP chooses from: the available IPs, or else the tagged ones that are
\* not claimed.
Candidates == IF w.available # {} THEN w.available ELSE tagged \ claimed

Popped(x) == [w EXCEPT !.available = Candidates \ {x}]

\* getIP up to the decision to create a floating IP, for claim cur'.
GetIP ==
  \/ /\ Candidates = {} /\ Works /\ Goto("allocate")
     /\ UNCHANGED <<w, claimed, nclaimed, ip>>
  \/ \E x \in Candidates :
       /\ Works /\ claimed' = claimed \cup {x}
       /\ IF x \in fips
            THEN /\ Goto("address") /\ ip' = x /\ nclaimed' = nclaimed + 2
                 /\ w' = Popped(x)
            ELSE /\ Goto("allocate") /\ ip' = ip /\ nclaimed' = nclaimed + 1
                 /\ w' = [Popped(x) EXCEPT !.failed = @ \cup {x}]
  \/ /\ Fails("openstack") /\ Return("error") /\ UNCHANGED <<claimed, nclaimed, ip>>
     /\ w' = w \/ \E x \in Candidates : w' = Popped(x)

\* The loop over the claims: an address that already exists is only bound.
NextClaim ==
  /\ At("claims")
  /\ StaleAddress \/ addrCache = addrs
  /\ \/ /\ todo = {} /\ Works /\ Goto("update")
        /\ UNCHANGED <<cur, w, claimed, nclaimed, ip>>
     \/ \E c \in todo :
          /\ cur' = c
          /\ IF \E a \in addrCache : a.claim = c
               THEN Works /\ Goto("bind") /\ UNCHANGED <<w, claimed, nclaimed, ip>>
               ELSE GetIP
  /\ UNCHANGED <<pool, addrs, claims, cloud, base, items, todo>>

MaxReachedLate == MaxIPs # -1 /\ nclaimed > MaxIPs

MaxReached == MaxIPs # -1 /\ nclaimed >= MaxIPs

\* CreateFloatingIPForPool.  A creation whose answer is lost leaves an IP that nothing
\* names.
CreateFloatingIP ==
  /\ At("allocate")
  /\ \/ /\ MaxReached /\ Works /\ Return("done")
        /\ UNCHANGED <<fips, claimed, nclaimed, ip>>
     \/ /\ ~MaxReached /\ IPs \subseteq fips /\ Works /\ Return("error")
        /\ UNCHANGED <<fips, claimed, nclaimed, ip>>
     \/ \E x \in IPs \ fips :
          /\ ~MaxReached /\ Works /\ Goto("tag")
          /\ fips' = fips \cup {x} /\ ip' = x
          /\ claimed' = claimed \cup {x} /\ nclaimed' = nclaimed + 1
     \/ /\ ~MaxReached /\ Fails("openstack") /\ Return("error")
        /\ UNCHANGED <<claimed, nclaimed, ip>>
        /\ \/ UNCHANGED fips
           \/ \E x \in IPs \ fips : fips' = fips \cup {x}
  /\ UNCHANGED <<pool, addrs, claims, tagged, base, w, items, todo, cur>>

\* TagFloatingIP, deferred to the end of getIP; its failure is only logged.
TagFloatingIP ==
  /\ At("tag") /\ Goto("address")
  /\ \/ Works /\ tagged' = tagged \cup {ip}
     \/ Fails("tag") /\ UNCHANGED tagged
  /\ UNCHANGED <<pool, addrs, claims, fips, base, w, items, todo, claimed, nclaimed, cur, ip>>

NewAddress == [claim |-> cur, ip |-> ip, deleting |-> FALSE]

CreateIPAddress ==
  /\ At("address")
  /\ LET taken == \E a \in addrs : a.claim = cur
     IN \/ ~taken /\ Works /\ Goto("bind") /\ addrs' = addrs \cup {NewAddress}
        \/ taken /\ Works /\ Return("error") /\ UNCHANGED addrs
        \/ /\ Fails("kube") /\ Return("error")
           /\ UNCHANGED addrs \/ (~taken /\ addrs' = addrs \cup {NewAddress})
  /\ UNCHANGED <<pool, claims, cloud, base, w, items, todo, claimed, nclaimed, cur, ip>>

\* The claim's status is updated with the address it is bound to.
BindClaim ==
  /\ At("bind")
  /\ \/ /\ claims[cur] = "open" /\ Works /\ Goto("claims")
        /\ claims' = [claims EXCEPT ![cur] = "bound"] /\ todo' = todo \ {cur}
     \/ /\ claims[cur] # "open" /\ Works /\ Return("error")
        /\ UNCHANGED <<claims, todo>>
     \/ Fails("kube") /\ Return("error") /\ UNCHANGED <<claims, todo>>
  /\ UNCHANGED <<pool, addrs, cloud, base, w, items, claimed, nclaimed, cur, ip>>

UpdateStatus ==
  /\ At("update")
  /\ \/ /\ Unchanged /\ Works /\ Return("done")
        /\ pool' = [pool EXCEPT !.network = w.network, !.available = w.available,
                                !.failed = w.failed]
     \/ ~Unchanged /\ Works /\ Return("error") /\ UNCHANGED pool
     \/ Fails("kube") /\ Return("error") /\ UNCHANGED pool
  /\ UNCHANGED <<addrs, claims, cloud, base, w, items, todo, claimed, nclaimed, cur, ip>>

-----------------------------------------------------------------------------
(* reconcileDelete *)

NoAddressesAssumed == TRUE

NoAddresses == addrCache = {}

WaitForAddresses ==
  /\ At("delete")
  /\ StaleAddress \/ addrCache = addrs
  /\ Works
  /\ IF NoAddresses THEN Goto("dIPs") ELSE Return("error")
  /\ UNCHANGED <<pool, addrs, claims, cloud, run>>

DeleteAvailableIgnoringErrors ==
  /\ At("dIPs")
  /\ \/ /\ w.available \subseteq PreAllocated /\ Works /\ Goto("dFinalizer")
        /\ UNCHANGED <<w, cloud>>
     \/ \E x \in w.available \ PreAllocated :
          /\ Goto("dIPs") /\ w' = [w EXCEPT !.available = @ \ {x}]
          /\ \/ Works /\ FloatingIPDeleted(x)
             \/ Fails("openstack") /\ UNCHANGED cloud
  /\ UNCHANGED <<pool, addrs, claims, base, items, todo, claimed, nclaimed, cur, ip>>

\* Every available IP but the pre-allocated ones is deleted.
DeleteAvailableIP ==
  /\ At("dIPs")
  /\ \/ /\ w.available \subseteq PreAllocated /\ Works /\ Goto("dFinalizer")
        /\ UNCHANGED <<w, cloud>>
     \/ \E x \in w.available \ PreAllocated :
          \/ /\ Works /\ Goto("dIPs") /\ FloatingIPDeleted(x)
             /\ w' = [w EXCEPT !.available = @ \ {x}]
          \/ /\ Fails("openstack") /\ Return("error") /\ UNCHANGED w
             /\ UNCHANGED cloud \/ FloatingIPDeleted(x)
  /\ UNCHANGED <<pool, addrs, claims, base, items, todo, claimed, nclaimed, cur, ip>>

RemoveFinalizer ==
  /\ At("dFinalizer")
  /\ w' = [w EXCEPT !.finalizer = FALSE]
  /\ \/ /\ Unchanged /\ Works /\ Return("done")
        /\ pool' = [pool EXCEPT !.finalizer = FALSE, !.exists = FALSE]
     \/ ~Unchanged /\ Works /\ Return("error") /\ UNCHANGED pool
     \/ Fails("kube") /\ Return("error") /\ UNCHANGED pool
  /\ UNCHANGED <<addrs, claims, cloud, base, items, todo, claimed, nclaimed, cur, ip>>

-----------------------------------------------------------------------------
(* The deferred patch carries no resource version *)

Pick(now, old, new) == IF new = old THEN now ELSE new

PatchedMeta(o) ==
  CASE w.finalizer = base.finalizer -> o
    [] w.finalizer /\ ~base.finalizer ->
         IF o.deleting THEN o ELSE [o EXCEPT !.finalizer = TRUE]
    [] OTHER -> [o EXCEPT !.finalizer = FALSE, !.exists = ~o.deleting]

PatchedStatus(o) ==
  [o EXCEPT !.network   = Pick(@, base.network, w.network),
            !.available = Pick(@, base.available, w.available),
            !.failed    = Pick(@, base.failed, w.failed)]

Patched(o) == LET m == PatchedMeta(o) IN IF m.exists THEN PatchedStatus(m) ELSE m

PatchAccepted ==
  IF pool.exists THEN ~(w.finalizer /\ ~base.finalizer /\ pool.deleting)
                 ELSE base.deleting /\ ~w.finalizer

\* The reconcile ends, and its local variables with it.
Stop ==
  /\ pc' = "idle" /\ result' = "done" /\ base' = NewPool /\ w' = NewPool
  /\ items' = {} /\ todo' = {} /\ claimed' = {} /\ nclaimed' = 0
  /\ cur' = AnyClaim /\ ip' = AnyIP

FinishForgettingErrors(res) == Stop /\ queued' = queued

Finish(res) == Stop /\ queued' = (queued \/ res # "done")

PatchPool ==
  /\ pc = "patch"
  /\ \/ /\ Works /\ Finish(IF PatchAccepted THEN result ELSE "error")
        /\ pool' = IF pool.exists THEN Patched(pool) ELSE pool
     \/ /\ Fails("kube") /\ Finish("error")
        /\ pool' \in {pool, IF pool.exists THEN PatchedMeta(pool) ELSE pool}
  /\ UNCHANGED <<policy, poolCache, addrs, addrCache, claims, claimCache, cloud>>

\* The restarted informers list everything and queue the pool.
Crash ==
  /\ pc # "idle" /\ Fails("crash")
  /\ Stop /\ queued' = TRUE
  /\ poolCache' = pool /\ addrCache' = addrs /\ claimCache' = claims
  /\ UNCHANGED <<policy, pool, addrs, claims, cloud>>

-----------------------------------------------------------------------------
(* Watches: the pool, and the mappers of claims and addresses to their pool *)

PoolEvent ==
  /\ poolCache # pool /\ poolCache' = pool /\ queued' = TRUE
  /\ UNCHANGED <<policy, pool, addrs, addrCache, claims, claimCache, cloud, run,
                 pc, result, faults>>

AddressEvent ==
  /\ addrCache # addrs /\ addrCache' = addrs /\ queued' = TRUE
  /\ UNCHANGED <<policy, pool, poolCache, addrs, claims, claimCache, cloud, run,
                 pc, result, faults>>

ClaimEventUnmapped ==
  /\ claimCache # claims /\ claimCache' = claims
  /\ UNCHANGED <<policy, pool, poolCache, addrs, addrCache, claims, cloud, run,
                 queued, pc, result, faults>>

ClaimEvent ==
  /\ claimCache # claims /\ claimCache' = claims /\ queued' = TRUE
  /\ UNCHANGED <<policy, pool, poolCache, addrs, addrCache, claims, cloud, run,
                 pc, result, faults>>

\* The informers' periodic resync.
Resync ==
  /\ ~queued /\ queued' = TRUE
  /\ UNCHANGED <<policy, kube, cloud, run, pc, result, faults>>

-----------------------------------------------------------------------------
(* Users, the OpenStackServer controller and the garbage collector *)

DeletePool ==
  /\ pool.exists /\ ~pool.deleting
  /\ pool' = IF pool.finalizer THEN [pool EXCEPT !.deleting = TRUE]
                               ELSE [pool EXCEPT !.exists = FALSE]
  /\ UNCHANGED <<policy, poolCache, addrs, addrCache, claims, claimCache, cloud,
                 run, queued, pc, result, faults>>

ClaimStep(c, from, to) ==
  /\ claims[c] \in from /\ claims' = [claims EXCEPT ![c] = to]
  /\ UNCHANGED <<policy, pool, poolCache, addrs, addrCache, claimCache, cloud, run,
                 queued, pc, result, faults>>

CreateClaim == \E c \in Claims : ClaimStep(c, {"none"}, "open")

DeleteClaim == \E c \in Claims : ClaimStep(c, {"open", "bound"}, "deleting")

ClaimGone == \E c \in Claims : ClaimStep(c, {"deleting"}, "gone")

\* The garbage collector deletes the address of a claim that is gone.
CollectAddress ==
  /\ \E a \in addrs :
       /\ claims[a.claim] = "gone" /\ ~a.deleting
       /\ addrs' = (addrs \ {a}) \cup {[a EXCEPT !.deleting = TRUE]}
  /\ UNCHANGED <<policy, pool, poolCache, addrCache, claims, claimCache, cloud, run,
                 queued, pc, result, faults>>

-----------------------------------------------------------------------------
Worker ==
  \/ Start \/ ListIPAddresses \/ ReclaimIPAddress \/ ReleaseIPAddress
  \/ AddFinalizer \/ ReconcileFloatingIPNetwork \/ ListClaims \/ NextClaim
  \/ CreateFloatingIP \/ TagFloatingIP \/ CreateIPAddress \/ BindClaim
  \/ UpdateStatus \/ WaitForAddresses \/ DeleteAvailableIP \/ RemoveFinalizer
  \/ PatchPool

Watches == PoolEvent \/ AddressEvent \/ ClaimEvent \/ Resync

World == DeletePool \/ CreateClaim \/ DeleteClaim \/ ClaimGone \/ CollectAddress

Next == Worker \/ Crash \/ Watches \/ World

Spec == Init /\ [][Next]_vars

\* Queued keys run and events arrive; the garbage collector works; a claim under
\* deletion loses its finalizer.  Faults are finite.
FairSpec ==
  /\ Spec
  /\ WF_vars(Worker) /\ WF_vars(PoolEvent) /\ WF_vars(AddressEvent)
  /\ WF_vars(ClaimEvent) /\ WF_vars(CollectAddress) /\ WF_vars(ClaimGone)

-----------------------------------------------------------------------------
(* Properties *)

ObjectsOK == pool \in Pool /\ poolCache \in Pool /\ base \in Pool /\ w \in Pool

AddressesOK ==
  /\ addrs \subseteq Address /\ addrCache \subseteq Address /\ items \subseteq Address
  /\ IsFiniteSet(addrs) /\ IsFiniteSet(addrCache)

ClaimsOK ==
  /\ claims \in [Claims -> ClaimStates] /\ claimCache \in [Claims -> ClaimStates]
  /\ todo \subseteq Claims /\ cur \in Claims

CloudOK ==
  /\ tagged \subseteq fips /\ fips \subseteq IPs /\ (pc = "tag" => ip \in fips)
  /\ claimed \subseteq IPs /\ ip \in IPs /\ nclaimed \in Nat

ControlOK ==
  /\ policy \in {"Delete", "Retain"} /\ pc \in Steps
  /\ result \in {"done", "error"} /\ faults \in 0..MaxFaults

\* Every variable stays in its type.
TypeOK == ObjectsOK /\ AddressesOK /\ ClaimsOK /\ CloudOK /\ ControlOK /\ queued \in BOOLEAN

\* No floating IP is handed to two claims, however allocation, release and crashes
\* interleave, unless OpenStack hands out an address that does not exist and that
\* the pool still lists as available: it takes two such addresses, one to find
\* missing and one to be given, and an instance with two of them has that case.
NoSharedAddress ==
  \A a, b \in addrs : a.ip = b.ip => a.claim = b.claim

\* The pool never deletes a floating IP that a live address still uses.
NoBoundIPDeleted ==
  [][\A a \in addrs : ~a.deleting /\ a.ip \in fips => a.ip \in fips']_vars

\* Pre-allocated floating IPs are never deleted from OpenStack, neither when
\* their claim is released nor when the pool is deleted.
PreAllocatedKept == [][PreAllocated \cap fips \subseteq fips']_vars

\* The pool stays until every IPAddress is gone, because it is needed to clean
\* up their floating IPs.
NoOrphanedAddress == addrs # {} => pool.exists

\* When the pool goes, OpenStack has none of the IPs that its status lists as available
\* but for the pre-allocated ones, although they are deleted one by one, by reconciles
\* of which each may stop half-way and record only some of what it did.  (With reads of
\* the pool that lag the deferred patch, which carries no resource version, removes the
\* finalizer that the update was refused to remove.)
AvailableDeletedFirst ==
  [][pool.exists /\ pool.finalizer /\ ~pool'.exists
       => pool.available \cap fips \subseteq PreAllocated]_vars

\* A floating IP whose tag was lost is not known to be the pool's.
Created == tagged \ PreAllocated

\* Whether no IP that getIP takes from the list can turn out to be missing, after
\* which it creates one whatever else the list has; or whether it then finds MaxIPs
\* reached.
NeverMissing ==
  MaxIPs \in {0, 1} \/ (MaxIPs # -1 /\ policy = "Retain" /\ Missing = {{}})

\* The pool never owns more floating IPs of its own making than MaxIPs, however
\* often IPs are released, retained and handed out again.
CreatedWithinMax == NeverMissing => Cardinality(Created) <= MaxIPs

\* Every open claim is eventually served, while the pool lives.
ClaimServed ==
  \A c \in Claims :
    claims[c] = "open" ~> claims[c] # "open" \/ pool.deleting \/ ~pool.exists

\* A deleted pool goes, unless a claim that nobody deletes holds on to one of
\* its addresses.
PoolDeletionCompletes ==
  pool.deleting ~> ~pool.exists \/ \E a \in addrs : claims[a.claim] \in {"open", "bound"}
=============================================================================
