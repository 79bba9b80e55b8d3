--------------------------- MODULE OpenStackServer ---------------------------
(***************************************************************************)
(* The OpenStackServer controller: one worker reconciles one OpenStackServer *)
(* object into Neutron ports, Cinder volumes, a Nova instance and, when the  *)
(* spec names a floating IP pool, an IPAddressClaim.                         *)
(*                                                                           *)
(* A reconcile reads the object from an informer cache, changes a working    *)
(* copy while it calls OpenStack one request at a time, and writes the copy  *)
(* back in a deferred patch.  Every call may fail, with or without effect,   *)
(* and the controller may crash between any two calls.                       *)
(***************************************************************************)
EXTENDS Naturals, Sequences

CONSTANTS
  NPorts,        \* number of ports of spec.ports
  NVolumes,      \* root volume plus additional volumes of the spec
  Setters,       \* fields of Status.Resolved that have a setter
  WaitSetters,   \* the setters that may have to wait for a dependency (image)
  UsesPool,      \* spec.floatingIPPoolRef # nil
  StaleServer,   \* the OpenStackServer informer may lag behind the API server
  StaleClaim,    \* the IPAddressClaim informer may lag behind the API server
  FaultClasses,  \* subset of {"openstack", "kube", "crash"} that may occur
  MaxFaults,     \* bound: number of faults in a behaviour
  MaxPortID,     \* bound: ports ever created, then creation fails
  MaxInstID,     \* bound: instances ever created, then creation fails
  MaxPortLosses, \* bound: ports deleted behind the controller's back
  MaxInstLosses, \* bound: instances deleted behind the controller's back
  MaxMoves       \* bound: clusterctl moves (status lost, metadata kept)

ASSUME ConstantsAssumption ==
  /\ NPorts \in Nat \ {0}
  /\ NVolumes \in Nat
  /\ "ports" \in Setters
  /\ WaitSetters \subseteq Setters \ {"ports"}
  /\ UsesPool \in BOOLEAN /\ StaleServer \in BOOLEAN /\ StaleClaim \in BOOLEAN
  /\ FaultClasses \subseteq {"openstack", "kube", "crash"}
  /\ MaxFaults \in Nat /\ MaxPortID \in Nat /\ MaxInstID \in Nat
  /\ MaxPortLosses \in Nat /\ MaxInstLosses \in Nat /\ MaxMoves \in Nat

VARIABLES
  obj,         \* the OpenStackServer object in the API server
  cache,       \* the informer's copy of it
  claim,       \* the IPAddressClaim in the API server
  claimCache,  \* the informer's copy of it
  ports,       \* Neutron ports: id and the index of the desired port
  vols,        \* Cinder volumes that exist, by index
  insts,       \* Nova instances with the server's name: id and state
  fip,         \* the pool's floating IP is associated with the instance
  portIDs,     \* number of ports ever created
  instIDs,     \* number of instances ever created
  deps,        \* setters whose dependency is available
  queued,      \* the object's key is in the work queue
  pc,          \* step of the running reconcile
  base,        \* the object as the patch helper saw it
  w,           \* the reconcile's working copy
  k,           \* loop index
  inst,        \* instanceStatus
  result,      \* what the reconcile returns
  faults, losses, moves

kube  == <<obj, cache, claim, claimCache>>
cloud == <<ports, vols, insts, fip, portIDs, instIDs>>
local == <<base, k, inst, result>>
env   == <<deps, losses, moves>>
vars  == <<kube, cloud, local, env, queued, pc, w, faults>>

NoID   == 0
States == {"BUILD", "ACTIVE", "ERROR", "SHUTOFF", "DELETING", "DELETED",
           "SOFT_DELETED"}
DeletedStates == {"DELETED", "SOFT_DELETED"}
NoInst == [id |-> NoID, state |-> "none"]

ServerObj == [exists : BOOLEAN, deleting : BOOLEAN, finalizer : BOOLEAN,
              hasResolved : BOOLEAN, resolved : SUBSET Setters,
              hasResources : BOOLEAN, ports : Seq(1..MaxPortID),
              instanceID : 0..MaxInstID, instanceState : States \cup {"none"},
              ready : BOOLEAN, cond : {"none", "True", "False", "Unknown"}]
ClaimObj == [exists : BOOLEAN, finalizer : BOOLEAN, address : BOOLEAN,
             deleting : BOOLEAN]
Port     == [id : 1..MaxPortID, idx : 1..NPorts]
Instance == [id : 1..MaxInstID, state : States]

NewServer == [exists |-> TRUE, deleting |-> FALSE, finalizer |-> FALSE,
              hasResolved |-> FALSE, resolved |-> {},
              hasResources |-> FALSE, ports |-> <<>>,
              instanceID |-> NoID, instanceState |-> "none",
              ready |-> FALSE, cond |-> "none"]
NoClaim   == [exists |-> FALSE, finalizer |-> FALSE, address |-> FALSE,
              deleting |-> FALSE]

NormalSteps == {"resolve", "adopt", "claim", "ports", "server", "volumes",
                "create", "associate", "status"}
DeleteSteps == {"dAdopt", "dGet", "dVolumes", "dInstance", "dPoll", "dPorts",
                "dClaim"}
Steps == {"idle", "patchMeta", "patchStatus"} \cup NormalSteps \cup DeleteSteps

Init ==
  /\ obj = NewServer /\ cache = NewServer
  /\ claim = NoClaim /\ claimCache = NoClaim
  /\ ports = {} /\ vols = {} /\ insts = {} /\ fip = FALSE
  /\ portIDs = 0 /\ instIDs = 0
  /\ deps = Setters \ WaitSetters
  /\ queued = TRUE /\ pc = "idle"
  /\ base = NewServer /\ w = NewServer /\ k = 1 /\ inst = NoInst
  /\ result = "done"
  /\ faults = 0 /\ losses = [port |-> 0, inst |-> 0] /\ moves = 0

-----------------------------------------------------------------------------
(* Faults and returns *)

Works    == faults' = faults
Fails(c) == c \in FaultClasses /\ faults < MaxFaults /\ faults' = faults + 1

\* reconcileNormal returns; on the delete path reconcileDelete follows unless
\* it returned an error.
Return(res) ==
  /\ result' = res
  /\ pc' = IF base.deleting /\ res # "error" THEN "dAdopt" ELSE "patchMeta"
  /\ UNCHANGED <<base, k, inst>>

\* reconcileDelete returns.
ReturnDelete(res) ==
  /\ result' = res /\ pc' = "patchMeta"
  /\ UNCHANGED <<base, k, inst>>

Goto(step) ==
  /\ pc' = step /\ k' = 1
  /\ UNCHANGED <<base, inst, result>>

Again == pc' = pc /\ k' = k + 1 /\ UNCHANGED <<base, inst, result>>

At(step) == pc = step /\ UNCHANGED <<queued, env>>

-----------------------------------------------------------------------------
(* Reconcile: read the object, choose the path *)

FirstStepDeleteAtOnce(o) == IF o.deleting THEN "dAdopt" ELSE "resolve"

\* The delete path starts with reconcileNormal unless Status.Resolved and
\* Status.Resources are both present.
FirstStep(o) ==
  IF o.deleting /\ o.hasResolved /\ o.hasResources THEN "dAdopt" ELSE "resolve"

\* Scope creation or the lookup of the owner cluster may fail; the patch follows.
Start ==
  /\ pc = "idle" /\ queued
  /\ StaleServer \/ cache = obj
  /\ queued' = FALSE
  /\ \/ /\ cache.exists /\ Works /\ result' = "done" /\ pc' = FirstStep(cache)
        /\ base' = cache /\ w' = cache /\ k' = 1 /\ inst' = NoInst
     \/ /\ cache.exists /\ (\E c \in {"openstack", "kube"} : Fails(c))
        /\ result' = "error" /\ pc' = "patchMeta"
        /\ base' = cache /\ w' = cache /\ k' = 1 /\ inst' = NoInst
     \/ ~cache.exists /\ Works /\ UNCHANGED <<base, w, k, inst, result, pc>>
  /\ UNCHANGED <<kube, cloud, env>>

-----------------------------------------------------------------------------
(* reconcileNormal *)

\* A reconcile that resolved a field or added the finalizer returns, so that
\* both are persisted before anything is created.
PersistResolvedOnly(o, got) == got # {}
PersistFinalizerOnly(o, got) == ~o.finalizer
MustPersist(o, got) == got # {} \/ ~o.finalizer

\* Runs every setter that has not resolved its field yet.  The finalizer is
\* added with the last one; anything new is persisted before going on.
ResolveServerSpec ==
  /\ At("resolve")
  /\ \E got \in SUBSET (deps \ w.resolved) :
       LET new     == w.resolved \cup got
           done    == new = Setters
           changed == MustPersist(w, got)
           failed  == got # deps \ w.resolved
       IN /\ IF failed THEN Fails("openstack") ELSE Works
          /\ w' = [w EXCEPT !.hasResolved = TRUE, !.resolved = new,
                            !.finalizer = @ \/ done,
                            !.cond = IF done THEN @ ELSE "False"]
          /\ CASE failed                        -> Return("error")
               [] ~failed /\ (~done \/ changed) -> Return("done")
               [] OTHER                         -> Goto("adopt")
  /\ UNCHANGED <<kube, cloud>>

Single(S)  == \E x \in S : S = {x}
Several(S) == \E x, y \in S : x # y

\* Ports that carry the name and the network of the i-th desired port.
Named(i) == {p \in ports : p.idx = i}

DesiredPorts(o) == IF "ports" \in o.resolved THEN NPorts ELSE 0

\* The port IDs in the status once adoption has reached index m.
Adopted(o, m) ==
  [i \in 1..m |-> IF i <= Len(o.ports) THEN o.ports[i]
                  ELSE (CHOOSE p \in Named(i) : TRUE).id]

\* Adoption by name has gone through index m and gets no further: it stops at
\* the first port that is missing.
AdoptionReach(o, m) ==
  /\ \A i \in Len(o.ports) + 1 .. m : Single(Named(i))
  /\ m = NPorts \/ ~Single(Named(m + 1))

\* AdoptPortsServer, called from both paths; an error ends either of them.
AdoptServerResources(next) ==
  IF DesiredPorts(w) = Len(w.ports)
    THEN /\ w' = [w EXCEPT !.hasResources = TRUE]
         /\ Works /\ Goto(next)
    ELSE \E m \in Len(w.ports)..NPorts :
         /\ AdoptionReach(w, m)
         /\ \/ /\ w' = [w EXCEPT !.hasResources = TRUE, !.ports = Adopted(w, m)]
               /\ Works
               /\ IF m < NPorts /\ Several(Named(m + 1))
                    THEN Return("error") ELSE Goto(next)
            \/ \E n \in Len(w.ports)..m :
                 /\ w' = [w EXCEPT !.hasResources = TRUE, !.ports = Adopted(w, n)]
                 /\ Fails("openstack") /\ Return("error")

Adopt ==
  /\ At("adopt")
  /\ AdoptServerResources("claim")
  /\ UNCHANGED <<kube, cloud>>

\* reconcileFloatingAddressFromPool: get or create the claim, then wait for
\* its address.  The claim is read from the informer's cache.
ReconcileFloatingAddressFromPool ==
  /\ At("claim")
  /\ StaleClaim \/ claimCache = claim
  /\ \/ ~UsesPool /\ Works /\ Goto("ports") /\ UNCHANGED claim
     \/ /\ UsesPool /\ claimCache.exists
        /\ Works /\ UNCHANGED claim
        /\ IF claimCache.address THEN Goto("ports") ELSE Return("done")
     \/ /\ UsesPool /\ ~claimCache.exists
        /\ IF claim.exists
             THEN Works /\ Return("error") /\ UNCHANGED claim
             ELSE /\ Works /\ Return("done")
                  /\ claim' = [NoClaim EXCEPT !.exists = TRUE, !.finalizer = TRUE]
     \/ UsesPool /\ Fails("kube") /\ Return("error") /\ UNCHANGED claim
  /\ UNCHANGED <<obj, cache, claimCache, cloud, w>>

ExistingPortsForgotten(o, i) == IF i <= Len(o.ports) THEN {} ELSE Named(i)

\* What EnsurePort lists: by ID when the status knows the port, else by name.
ExistingPorts(o, i) ==
  IF i <= Len(o.ports) THEN {p \in ports : p.id = o.ports[i]} ELSE Named(i)

\* EnsurePorts keeps an entry that is already in the status and appends a new one.
RecordPort(o, i, id) ==
  IF i <= Len(o.ports) THEN o ELSE [o EXCEPT !.ports = Append(@, id)]

NewPort == portIDs < MaxPortID /\ portIDs' = portIDs + 1
           /\ ports' = ports \cup {[id |-> portIDs + 1, idx |-> k]}

NextPort == IF k = NPorts THEN Goto("server") ELSE Again

PortFailed == w' = [w EXCEPT !.cond = "False"] /\ Return("error")

\* EnsurePort for desired port k; tags and trunk belong to the port, and a
\* failure to set them leaves a port that is not in the status.
EnsurePort ==
  /\ At("ports")
  /\ LET found == ExistingPorts(w, k)
     IN \/ /\ Several(found) \/ (found = {} /\ portIDs = MaxPortID)
           /\ Works /\ PortFailed /\ UNCHANGED <<ports, portIDs>>
        \/ \E p \in found :
             /\ found = {p}
             /\ Works /\ NextPort
             /\ w' = RecordPort(w, k, p.id) /\ UNCHANGED <<ports, portIDs>>
        \/ /\ found = {} /\ NewPort
           /\ \/ Works /\ NextPort /\ w' = RecordPort(w, k, portIDs + 1)
              \/ Fails("openstack") /\ PortFailed
        \/ Fails("openstack") /\ PortFailed /\ UNCHANGED <<ports, portIDs>>
  /\ UNCHANGED <<kube, vols, insts, fip, instIDs>>

InstanceByID(id) == {x \in insts : x.id = id}

InstancesByNameForgotten ==
  IF pc = "server" THEN {} ELSE {x \in insts : x.state \notin DeletedStates}

\* The server list does not show deleted instances.
InstancesByName == {x \in insts : x.state \notin DeletedStates}

\* getOrCreateServer, up to the decision to create.
GetServer ==
  /\ At("server")
  /\ \/ /\ w.instanceID # NoID /\ InstanceByID(w.instanceID) = {}
        /\ Works /\ Return("done") /\ w' = [w EXCEPT !.cond = "False"]
     \/ \E x \in InstanceByID(w.instanceID) :
          /\ Works /\ inst' = x /\ pc' = "associate"
          /\ UNCHANGED <<w, base, k, result>>
     \/ /\ w.instanceID = NoID /\ Several(InstancesByName)
        /\ Works /\ Return("error") /\ UNCHANGED w
     \/ \E x \in InstancesByName :
          /\ w.instanceID = NoID /\ InstancesByName = {x}
          /\ Works /\ inst' = x /\ pc' = "associate"
          /\ UNCHANGED <<w, base, k, result>>
     \/ /\ w.instanceID = NoID /\ InstancesByName = {}
        /\ Works /\ UNCHANGED w /\ Goto(IF NVolumes = 0 THEN "create" ELSE "volumes")
     \/ /\ Fails("openstack") /\ Return("error")
        /\ w' = IF w.instanceID # NoID THEN [w EXCEPT !.cond = "False"] ELSE w
  /\ UNCHANGED <<kube, cloud>>

CreateFailed ==
  /\ w' = [w EXCEPT !.cond = "False", !.instanceState = "ERROR"]
  /\ Return("error")

\* getBlockDevices: get or create volume k by name.
GetOrCreateVolume ==
  /\ At("volumes")
  /\ \/ /\ Works /\ vols' = vols \cup {k} /\ UNCHANGED w
        /\ IF k = NVolumes THEN Goto("create") ELSE Again
     \/ /\ Fails("openstack") /\ CreateFailed
        /\ vols' \in {vols, vols \cup {k}}
  /\ UNCHANGED <<kube, ports, insts, fip, portIDs, instIDs>>

\* Every instance holds the volumes of its name until it is gone.
Attached == NVolumes > 0 /\ insts # {}

\* Nova takes the volumes when they are available and the ports when they exist.
CanCreate ==
  /\ ~Attached /\ instIDs < MaxInstID
  /\ \A i \in 1..Len(w.ports) : \E p \in ports : p.id = w.ports[i]

NewInstance == [id |-> instIDs + 1, state |-> "BUILD"]

\* waitForVolume and CreateServer.
CreateInstance ==
  /\ At("create")
  /\ \/ /\ CanCreate
        /\ insts' = insts \cup {NewInstance} /\ instIDs' = instIDs + 1
        /\ \/ /\ Works /\ inst' = NewInstance /\ pc' = "associate"
              /\ UNCHANGED <<w, base, k, result>>
           \/ Fails("openstack") /\ CreateFailed
     \/ ~CanCreate /\ Works /\ CreateFailed /\ UNCHANGED <<insts, instIDs>>
     \/ Fails("openstack") /\ CreateFailed /\ UNCHANGED <<insts, instIDs>>
  /\ UNCHANGED <<kube, ports, vols, fip, portIDs>>

AssociateIgnoringErrors ==
  /\ At("associate")
  /\ pc' = "status" /\ UNCHANGED <<base, k, inst, result>>
  /\ \/ Works /\ fip' = (fip \/ UsesPool)
     \/ UsesPool /\ Fails("openstack") /\ UNCHANGED fip
  /\ UNCHANGED <<kube, ports, vols, insts, portIDs, instIDs, w>>

\* associateIPAddressFromIPAddressClaim.
AssociateIPAddress ==
  /\ At("associate")
  /\ \/ /\ Works /\ pc' = "status" /\ fip' = (fip \/ UsesPool)
        /\ UNCHANGED <<base, k, inst, result>>
     \/ /\ UsesPool /\ Fails("openstack") /\ Return("error")
        /\ fip' \in {fip, TRUE}
  /\ UNCHANGED <<kube, ports, vols, insts, portIDs, instIDs, w>>

CondIsState(state, old) == state

\* The InstanceReady condition after the state switch of reconcileNormal.
CondFor(state, old) ==
  CASE state = "ACTIVE"              -> "True"
    [] state \in {"ERROR", "DELETED"} -> "False"
    [] state = "BUILD"               -> old
    [] OTHER                         -> "Unknown"

NeverRequeue(state) == "done"

\* What the state switch returns.
RequeueFor(state) ==
  IF state \in {"ACTIVE", "DELETED"} THEN "done" ELSE "requeue"

ReportWithoutID ==
  /\ At("status")
  /\ w' = [w EXCEPT !.instanceState = inst.state, !.ready = inst.state = "ACTIVE"]
  /\ Return(RequeueFor(inst.state))
  /\ Works
  /\ UNCHANGED <<kube, cloud>>

\* The tail of reconcileNormal: report the state of the instance.
ReportStatus ==
  /\ At("status")
  /\ w' = [w EXCEPT !.instanceID = inst.id, !.instanceState = inst.state,
                    !.ready = inst.state = "ACTIVE",
                    !.cond = CondFor(inst.state, @)]
  /\ Return(RequeueFor(inst.state))
  /\ Works
  /\ UNCHANGED <<kube, cloud>>

-----------------------------------------------------------------------------
(* reconcileDelete *)

AdoptForDelete ==
  /\ At("dAdopt")
  /\ AdoptServerResources("dGet")
  /\ UNCHANGED <<kube, cloud>>

GetServerStatus ==
  /\ At("dGet")
  /\ LET found == IF w.instanceID # NoID THEN InstanceByID(w.instanceID)
                                         ELSE InstancesByName
     IN \/ /\ found = {} /\ Works
           /\ pc' = IF NVolumes = 0 THEN "dPorts" ELSE "dVolumes"
           /\ inst' = NoInst /\ k' = 1 /\ UNCHANGED <<base, result>>
        \/ \E x \in found :
             /\ found = {x} /\ Works
             /\ pc' = "dInstance" /\ inst' = x /\ k' = 1
             /\ UNCHANGED <<base, result>>
        \/ Several(found) /\ Works /\ ReturnDelete("error")
        \/ Fails("openstack") /\ ReturnDelete("error")
  /\ UNCHANGED <<kube, cloud, w>>

\* DeleteVolumes: no instance was found, so its volumes are deleted by name.
\* Cinder refuses to delete a volume that is attached.
DeleteVolume ==
  /\ At("dVolumes")
  /\ \/ /\ k \in vols => ~Attached
        /\ Works /\ vols' = vols \ {k}
        /\ IF k = NVolumes THEN Goto("dPorts") ELSE Again
     \/ k \in vols /\ Attached /\ Works /\ ReturnDelete("error") /\ UNCHANGED vols
     \/ Fails("openstack") /\ ReturnDelete("error") /\ vols' \in {vols, vols \ {k}}
  /\ UNCHANGED <<kube, ports, insts, fip, portIDs, instIDs, w>>

SetState(id, state) ==
  {IF x.id = id THEN [x EXCEPT !.state = state] ELSE x : x \in insts}

\* A deleted instance stays deleted.
DeleteRequested(id) ==
  {IF x.id = id /\ x.state \notin DeletedStates
     THEN [x EXCEPT !.state = "DELETING"] ELSE x : x \in insts}

\* DeleteInstance, the DeleteServer request.
DeleteServer ==
  /\ At("dInstance")
  /\ \/ /\ InstanceByID(inst.id) = {}
        /\ Works /\ Goto("dPorts") /\ UNCHANGED <<insts, w>>
     \/ /\ InstanceByID(inst.id) # {}
        /\ Works /\ Goto("dPoll") /\ UNCHANGED w
        /\ insts' = DeleteRequested(inst.id)
     \/ /\ Fails("openstack") /\ ReturnDelete("error")
        /\ w' = [w EXCEPT !.cond = "False"]
        /\ insts' \in {insts, DeleteRequested(inst.id)}
  /\ UNCHANGED <<kube, ports, vols, fip, portIDs, instIDs>>

\* DeleteInstance, the poll until the instance is gone or (soft) deleted.
PollInstanceDeleted ==
  /\ At("dPoll")
  /\ \/ /\ \A x \in InstanceByID(inst.id) : x.state \in DeletedStates
        /\ Works /\ Goto("dPorts") /\ UNCHANGED w
     \/ /\ Fails("openstack") /\ ReturnDelete("error")
        /\ w' = [w EXCEPT !.cond = "False"]
  /\ UNCHANGED <<kube, cloud>>

\* DeleteInstanceTrunkAndPort for every port in the status.
DeletePort ==
  /\ At("dPorts")
  /\ \/ /\ Len(w.ports) = 0
        /\ Works /\ Goto("dClaim") /\ UNCHANGED <<ports, fip>>
     \/ /\ k <= Len(w.ports)
        /\ Works /\ ports' = {p \in ports : p.id # w.ports[k]} /\ fip' = FALSE
        /\ IF k = Len(w.ports) THEN Goto("dClaim") ELSE Again
     \/ Fails("openstack") /\ ReturnDelete("error") /\ UNCHANGED <<ports, fip>>
  /\ UNCHANGED <<kube, vols, insts, portIDs, instIDs, w>>

Released == [claim EXCEPT !.finalizer = FALSE, !.exists = ~claim.deleting]

\* reconcileDeleteFloatingAddressFromPool, then RemoveFinalizer.  The claim is
\* read from the cache; the update carries its resource version.
ReleaseClaim ==
  /\ At("dClaim")
  /\ StaleClaim \/ claimCache = claim
  /\ \/ /\ ~UsesPool \/ ~claimCache.exists
        /\ Works /\ ReturnDelete("done") /\ UNCHANGED claim
        /\ w' = [w EXCEPT !.finalizer = FALSE]
     \/ /\ UsesPool /\ claimCache.exists /\ claimCache = claim
        /\ Works /\ ReturnDelete("done") /\ claim' = Released
        /\ w' = [w EXCEPT !.finalizer = FALSE]
     \/ /\ UsesPool /\ claimCache.exists /\ claimCache # claim
        /\ Works /\ ReturnDelete("error") /\ UNCHANGED <<claim, w>>
     \/ UsesPool /\ Fails("kube") /\ ReturnDelete("error") /\ UNCHANGED <<claim, w>>
  /\ UNCHANGED <<obj, cache, claimCache, cloud>>

-----------------------------------------------------------------------------
(* The deferred patch: metadata first, then status; only changed fields *)

\* The API server lets no finalizer be added to an object being deleted, and
\* removes the object when the last one goes.
PatchedMeta(o) ==
  CASE ~o.exists \/ w.finalizer = base.finalizer -> o
    [] o.exists /\ w.finalizer /\ ~base.finalizer /\ o.deleting -> o
    [] o.exists /\ w.finalizer /\ ~base.finalizer /\ ~o.deleting ->
         [o EXCEPT !.finalizer = TRUE]
    [] OTHER -> [o EXCEPT !.finalizer = FALSE, !.exists = ~o.deleting]

\* The patch helper ignores NotFound once a deleted object has no finalizer.
NotFoundIgnored == base.deleting /\ ~w.finalizer

MetaRejected ==
  /\ w.finalizer # base.finalizer
  /\ IF obj.exists THEN w.finalizer /\ obj.deleting ELSE ~NotFoundIgnored

PatchMeta ==
  /\ At("patchMeta")
  /\ pc' = "patchStatus"
  /\ \/ /\ Works /\ obj' = PatchedMeta(obj)
        /\ result' = IF MetaRejected THEN "error" ELSE result
     \/ Fails("kube") /\ UNCHANGED obj /\ result' = "error"
  /\ UNCHANGED <<cache, claim, claimCache, cloud, base, w, k, inst>>

\* A merge patch: fields of Status.Resolved are merged one by one, the list of
\* ports is replaced.
PatchedStatus(o) ==
  [o EXCEPT
    !.hasResolved   = IF w.hasResolved = base.hasResolved THEN @ ELSE w.hasResolved,
    !.resolved      = @ \cup (w.resolved \ base.resolved),
    !.hasResources  = IF w.hasResources = base.hasResources THEN @ ELSE w.hasResources,
    !.ports         = IF w.ports = base.ports THEN @ ELSE w.ports,
    !.instanceID    = IF w.instanceID = base.instanceID THEN @ ELSE w.instanceID,
    !.instanceState = IF w.instanceState = base.instanceState THEN @ ELSE w.instanceState,
    !.ready         = IF w.ready = base.ready THEN @ ELSE w.ready,
    !.cond          = IF w.cond = base.cond THEN @ ELSE w.cond]

FinishForgettingErrors(res) ==
  /\ pc' = "idle" /\ result' = res
  /\ queued' = (queued \/ res = "requeue")
  /\ UNCHANGED <<base, w, k, inst>>

\* An error or RequeueAfter puts the key back into the queue.
Finish(res) ==
  /\ pc' = "idle" /\ result' = res
  /\ queued' = (queued \/ res # "done")
  /\ UNCHANGED <<base, w, k, inst>>

PatchStatus ==
  /\ pc = "patchStatus"
  /\ \/ /\ Works
        /\ obj' = IF obj.exists THEN PatchedStatus(obj) ELSE obj
        /\ Finish(IF obj.exists \/ NotFoundIgnored THEN result ELSE "error")
     \/ Fails("kube") /\ UNCHANGED obj /\ Finish("error")
  /\ UNCHANGED <<cache, claim, claimCache, cloud, env>>

\* The controller dies: the working copy is lost, the restarted informers
\* list everything and queue the object.
Crash ==
  /\ pc # "idle" /\ Fails("crash")
  /\ pc' = "idle" /\ queued' = TRUE
  /\ cache' = obj /\ claimCache' = claim
  /\ UNCHANGED <<obj, claim, cloud, env, base, w, k, inst, result>>

-----------------------------------------------------------------------------
(* Watches *)

ServerEvent ==
  /\ cache # obj
  /\ cache' = obj /\ queued' = TRUE
  /\ UNCHANGED <<obj, claim, claimCache, cloud, local, env, pc, w, faults>>

\* Owned claims enqueue their server.
ClaimEvent ==
  /\ claimCache # claim
  /\ claimCache' = claim /\ queued' = TRUE
  /\ UNCHANGED <<obj, cache, claim, cloud, local, env, pc, w, faults>>

\* The image becomes available.
DependencyEvent ==
  /\ deps # Setters
  /\ deps' = Setters /\ queued' = TRUE
  /\ UNCHANGED <<kube, cloud, local, losses, moves, pc, w, faults>>

\* The informers' periodic resync.
Resync ==
  /\ ~queued /\ queued' = TRUE
  /\ UNCHANGED <<kube, cloud, local, env, pc, w, faults>>

-----------------------------------------------------------------------------
(* The world around the controller *)

\* The OpenStackMachine controller or the user deletes the object.
DeleteObject ==
  /\ obj.exists /\ ~obj.deleting
  /\ obj' = IF obj.finalizer THEN [obj EXCEPT !.deleting = TRUE]
                             ELSE [obj EXCEPT !.exists = FALSE]
  /\ UNCHANGED <<cache, claim, claimCache, cloud, local, env, queued, pc, w, faults>>

\* clusterctl move: the object is recreated without its status while the
\* cluster is paused.
Move ==
  /\ pc = "idle" /\ moves < MaxMoves /\ obj.exists /\ ~obj.deleting
  /\ moves' = moves + 1
  /\ obj' = [NewServer EXCEPT !.finalizer = obj.finalizer]
  /\ cache' = obj' /\ queued' = TRUE
  /\ claim' = [claim EXCEPT !.address = FALSE] /\ claimCache' = claim'
  /\ UNCHANGED <<cloud, local, deps, losses, pc, w, faults>>

\* The pool controller binds an address to the claim.
PoolAllocates ==
  /\ claim.exists /\ ~claim.address /\ ~claim.deleting
  /\ claim' = [claim EXCEPT !.address = TRUE]
  /\ UNCHANGED <<obj, cache, claimCache, cloud, local, env, queued, pc, w, faults>>

\* The garbage collector deletes the claim once its owner is gone.
CollectClaim ==
  /\ ~obj.exists /\ claim.exists /\ ~claim.deleting
  /\ claim' = [claim EXCEPT !.deleting = TRUE, !.exists = claim.finalizer]
  /\ UNCHANGED <<obj, cache, claimCache, cloud, local, env, queued, pc, w, faults>>

\* The instance is gone, and its volumes with it (DeleteOnTermination).
Gone(x) == insts' = insts \ {x} /\ vols' = {}

\* Nova finishes a build, or a deletion; a (soft-)deleted instance stays visible
\* by ID until it is purged.
NovaFinishes ==
  /\ \E x \in insts :
       \/ /\ x.state = "BUILD" /\ UNCHANGED vols
          /\ \E s \in {"ACTIVE", "ERROR"} : insts' = SetState(x.id, s)
       \/ /\ x.state = "DELETING" /\ UNCHANGED vols
          /\ \E s \in DeletedStates : insts' = SetState(x.id, s)
       \/ x.state \in {"DELETING"} \cup DeletedStates /\ Gone(x)
  /\ UNCHANGED <<kube, ports, fip, portIDs, instIDs, local, env, queued, pc, w, faults>>

\* A user stops or starts the instance.
NovaToggles ==
  /\ \E x \in insts :
       \/ x.state = "ACTIVE"  /\ insts' = SetState(x.id, "SHUTOFF")
       \/ x.state = "SHUTOFF" /\ insts' = SetState(x.id, "ACTIVE")
  /\ UNCHANGED <<kube, ports, vols, fip, portIDs, instIDs, local, env, queued, pc, w, faults>>

LoseInstance ==
  /\ losses.inst < MaxInstLosses
  /\ losses' = [losses EXCEPT !.inst = @ + 1]
  /\ \E x \in insts : Gone(x)
  /\ UNCHANGED <<kube, ports, fip, portIDs, instIDs, local, deps, moves, queued, pc, w, faults>>

\* The port that goes may be the one with the floating IP.
LosePort ==
  /\ losses.port < MaxPortLosses
  /\ losses' = [losses EXCEPT !.port = @ + 1]
  /\ \E p \in ports : ports' = ports \ {p}
  /\ fip' \in {fip, FALSE}
  /\ UNCHANGED <<kube, vols, insts, portIDs, instIDs, local, deps, moves, queued, pc, w, faults>>

-----------------------------------------------------------------------------
Worker ==
  \/ Start \/ ResolveServerSpec \/ Adopt \/ ReconcileFloatingAddressFromPool
  \/ EnsurePort \/ GetServer \/ GetOrCreateVolume \/ CreateInstance
  \/ AssociateIPAddress \/ ReportStatus
  \/ AdoptForDelete \/ GetServerStatus \/ DeleteVolume \/ DeleteServer
  \/ PollInstanceDeleted \/ DeletePort \/ ReleaseClaim
  \/ PatchMeta \/ PatchStatus

Watches == ServerEvent \/ ClaimEvent \/ DependencyEvent \/ Resync

World == DeleteObject \/ Move \/ PoolAllocates \/ CollectClaim \/ NovaFinishes
         \/ NovaToggles \/ LoseInstance \/ LosePort

Next == Worker \/ Crash \/ Watches \/ World

Spec == Init /\ [][Next]_vars

\* controller-runtime runs queued keys and delivers watch events; the pool, the
\* garbage collector and Nova finish what they start.  Faults are finite.
Fairness ==
  /\ WF_vars(Worker)
  /\ WF_vars(ServerEvent) /\ WF_vars(ClaimEvent) /\ WF_vars(DependencyEvent)
  /\ WF_vars(PoolAllocates) /\ WF_vars(CollectClaim) /\ WF_vars(NovaFinishes)

FairSpec == Spec /\ Fairness

-----------------------------------------------------------------------------
(* Properties *)

ObjectsOK ==
  /\ obj \in ServerObj /\ cache \in ServerObj /\ base \in ServerObj /\ w \in ServerObj
  /\ claim \in ClaimObj /\ claimCache \in ClaimObj

CloudOK ==
  /\ ports \subseteq Port /\ vols \subseteq 1..NVolumes /\ insts \subseteq Instance
  /\ portIDs \in 0..MaxPortID /\ instIDs \in 0..MaxInstID

ControlOK ==
  /\ pc \in Steps /\ k \in Nat \ {0} /\ inst \in Instance \cup {NoInst}
  /\ result \in {"done", "requeue", "error"}
  /\ deps \subseteq Setters /\ faults \in 0..MaxFaults /\ moves \in 0..MaxMoves
  /\ losses \in [port : 0..MaxPortLosses, inst : 0..MaxInstLosses]

\* Every variable stays in its type.
TypeOK == ObjectsOK /\ CloudOK /\ ControlOK /\ fip \in BOOLEAN /\ queued \in BOOLEAN

LiveInstances == {x \in insts : x.state \notin DeletedStates}

CloudInUse == ports # {} \/ vols # {} \/ insts # {} \/ claim.exists

\* As long as anything created for the server exists, the object that will
\* clean it up either holds the finalizer or has already gone through
\* reconcileDelete: no reconcile, however stale its read, creates resources
\* for an object that can vanish without a delete reconcile.
FinalizerGuardsCloud == CloudInUse /\ obj.exists => obj.finalizer

Created ==
  \/ \E p \in ports' : p \notin ports
  \/ \E v \in vols' : v \notin vols
  \/ instIDs' # instIDs
  \/ claim'.exists /\ ~claim.exists

\* reconcileNormal's promise: resources are created only by a reconcile that
\* read a persisted finalizer and a completely resolved spec.
CreatedAfterPersisted ==
  [][Created => /\ base.finalizer /\ base.resolved = Setters
                /\ obj.exists => obj.finalizer /\ obj.resolved = Setters]_vars

\* getOrCreateServer never leaves two live instances with the server's name,
\* whatever was lost between CreateServer and the patch of InstanceID.
OneInstance == ~Several(LiveInstances)

\* EnsurePort never creates a second port for the same name and network.
OnePortPerName == \A i \in 1..NPorts : ~Several(Named(i))

\* DeleteVolumes' promise: the finalizer goes only when the instance, its
\* volumes, its ports and its claim have been dealt with.  The volumes of a
\* soft-deleted instance go when Nova reclaims it.
CloudReleased ==
  /\ ports = {} /\ LiveInstances = {}
  /\ vols = {} \/ insts # {}
  /\ claim.exists => ~claim.finalizer

FinalizerRemovedClean ==
  [][obj.exists /\ obj.finalizer /\ ~obj'.exists => CloudReleased]_vars

\* Ready is reported only after the floating IP from the pool was associated.
ReadyHasAddress == obj.ready /\ UsesPool /\ obj.exists /\ ~obj.deleting => fip

\* A deleted server eventually disappears.
DeletionCompletes == obj.deleting ~> ~obj.exists

Reported(o) ==
  \/ ~o.exists \/ o.deleting \/ o.instanceState \notin {"none", "BUILD"}
  \/ o.instanceID # NoID /\ o.cond = "False"

\* Whatever a server waits for (its image, its claim, its build), an event or a
\* requeue wakes it up: it eventually reports the state of its instance, or that
\* the instance is gone.
StateReported == ~Reported(obj) ~> Reported(obj)
-----------------------------------------------------------------------------
(* The promise to the owner of the object *)

OwnersView ==
  [exists |-> TRUE, deleting |-> obj.deleting, finalizer |-> obj.finalizer,
   id |-> obj.instanceID, state |-> obj.instanceState, ready |-> obj.ready]

Lifecycle == INSTANCE ServerLifecycle WITH
  MaxInstances <- MaxInstID,
  server       <- IF obj.exists THEN OwnersView
                  ELSE [exists |-> FALSE, deleting |-> FALSE, finalizer |-> FALSE,
                        id |-> NoID, state |-> "none", ready |-> FALSE],
  live         <- {x.id : x \in LiveInstances},
  launched     <- instIDs

\* The controller implements ServerLifecycle: one instance at a time and only
\* for a protected object, an instance ID that never changes, a state that
\* never comes without its instance ID, and no removal before the instance.
ImplementsLifecycle == Lifecycle!Spec
=============================================================================
