--------------------------- MODULE OpenStackMachine ---------------------------
(***************************************************************************)
(* The OpenStackMachine controller, composed with the promise of the         *)
(* OpenStackServer controller (ServerLifecycle).  One worker reconciles one  *)
(* machine: it creates the OpenStackServer, mirrors its state, makes a       *)
(* control plane machine a member of the API server's load balancer (or      *)
(* gives it the API server's floating IP), and undoes all of it in           *)
(* reconcileDelete.                                                          *)
(***************************************************************************)
EXTENDS Naturals

CONSTANTS
  NListeners,    \* ports of the API server's load balancer
  Endpoints,     \* kinds of API server endpoint considered
  ControlPlane,  \* the machine is a control plane machine
  StaleMachine,  \* the OpenStackMachine informer may lag
  StaleServer,   \* the OpenStackServer informer may lag
  FaultClasses,  \* subset of {"openstack", "kube", "crash"}
  MaxFaults,     \* bound: number of faults in a behaviour
  MaxInstances,  \* bound: instances ever launched
  MaxMoves,      \* bound: clusterctl moves
  NovaStates,    \* bound: instance states that occur
  UserDeletesServer  \* somebody else may delete the OpenStackServer

ASSUME MachineAssumption ==
  /\ NListeners \in Nat \ {0}
  /\ Endpoints # {} /\ Endpoints \subseteq {"lb", "fip", "byofip"}
  /\ ControlPlane \in BOOLEAN /\ UserDeletesServer \in BOOLEAN
  /\ StaleMachine \in BOOLEAN /\ StaleServer \in BOOLEAN
  /\ FaultClasses \subseteq {"openstack", "kube", "crash"}
  /\ NovaStates \subseteq {"BUILD", "ACTIVE", "ERROR", "SHUTOFF", "DELETING",
                          "DELETED", "SOFT_DELETED"}
  /\ MaxFaults \in Nat /\ MaxInstances \in Nat /\ MaxMoves \in Nat

VARIABLES
  endpoint,         \* managed load balancer, created or user-provided floating IP
  machine, mcache,  \* the OpenStackMachine in the API server and in the cache
  server, scache,   \* the OpenStackServer in the API server and in the cache
  live, launched, moves,
  linked,           \* owner Machine, Cluster and OpenStackCluster are found
  bootstrap,        \* the Machine's bootstrap data secret is set
  infra,            \* OpenStackCluster: Initialization.Provisioned and Network
  members,          \* per listener: the instance whose address is a member, or 0
  fip,              \* the API server's floating IP
  queued, pc, base, w,
  srv,              \* machineServer, as read by this reconcile
  k,                \* loop index
  result, faults

Life == INSTANCE ServerLifecycle

lifecycle == <<server, live, launched, moves>>
cluster   == <<linked, bootstrap, infra>>
ingress   == <<members, fip>>
local     == <<base, srv, k>>
vars == <<endpoint, machine, mcache, lifecycle, scache, cluster, ingress, local,
          w, queued, pc, result, faults>>

Listeners == 1..NListeners

Machine == [exists : BOOLEAN, deleting : BOOLEAN, finalizer : BOOLEAN,
            providerID : 0..MaxInstances, id : 0..MaxInstances,
            provisioned : BOOLEAN, ready : {"none", "True", "False", "Unknown"}]

NewMachine == [exists |-> TRUE, deleting |-> FALSE, finalizer |-> FALSE,
               providerID |-> 0, id |-> 0, provisioned |-> FALSE, ready |-> "none"]

Steps == {"idle", "normal", "server", "instance", "member", "floatingIP",
          "dCluster", "dServer", "dInstance", "dMember", "dDelete",
          "patchMeta", "patchStatus"}

Init ==
  /\ endpoint \in Endpoints
  /\ machine = NewMachine /\ mcache = NewMachine
  /\ server = Life!NoServer /\ scache = Life!NoServer
  /\ live = {} /\ launched = 0 /\ moves = 0
  /\ linked = FALSE /\ bootstrap = FALSE /\ infra = FALSE
  /\ members = [l \in Listeners |-> 0] /\ fip = "absent"
  /\ queued = TRUE /\ pc = "idle" /\ base = NewMachine /\ w = NewMachine
  /\ srv = Life!NoServer /\ k = 1 /\ result = "done" /\ faults = 0

-----------------------------------------------------------------------------
Works    == faults' = faults
Fails(c) == c \in FaultClasses /\ faults < MaxFaults /\ faults' = faults + 1

At(step) == pc = step /\ UNCHANGED <<endpoint, machine, mcache, scache, live,
                                     launched, moves, cluster, queued, base>>
Goto(step)  == pc' = step /\ k' = 1 /\ result' = result
Again       == pc' = pc /\ k' = k + 1 /\ result' = result
Return(res) == pc' = "patchMeta" /\ result' = res /\ k' = k

-----------------------------------------------------------------------------
(* Reconcile *)

Start ==
  /\ pc = "idle" /\ queued
  /\ StaleMachine \/ mcache = machine
  /\ queued' = FALSE
  /\ \/ /\ ~mcache.exists \/ ~linked
        /\ Works /\ UNCHANGED <<pc, base, w, result>>
     \/ /\ mcache.exists /\ linked
        /\ base' = mcache /\ w' = mcache
        /\ \/ /\ Works /\ result' = "done"
              /\ pc' = IF mcache.deleting THEN "dCluster" ELSE "normal"
           \/ Fails("openstack") /\ result' = "error" /\ pc' = "patchMeta"
  /\ UNCHANGED <<endpoint, machine, mcache, lifecycle, scache, cluster, ingress, srv, k>>

FinalizerWithServer(o) == FALSE

\* AddFinalizer changed the machine, so it is persisted before going on.
MustPersist(o) == ~o.finalizer

\* reconcileNormal up to the OpenStackServer.
ReconcileNormal ==
  /\ At("normal") /\ Works
  /\ UNCHANGED <<server, ingress, srv>>
  /\ CASE ~infra               -> Return("requeue") /\ UNCHANGED w
       [] infra /\ ~bootstrap  -> Return("done") /\ UNCHANGED w
       [] infra /\ bootstrap   ->
            /\ w' = [w EXCEPT !.finalizer = TRUE]
            /\ IF MustPersist(w) THEN Return("done") ELSE Goto("server")

\* The Ready condition that reconcileMachineState derives from the state.
ReadyFor(state) ==
  CASE state = "ACTIVE" -> "True"
    [] state \in {"none", "ERROR", "DELETED", "BUILD"} -> "False"
    [] OTHER -> "Unknown"

\* Any state but ACTIVE waits, with a requeue unless it is DELETED.
RequeueFor(state) == IF state = "DELETED" THEN "done" ELSE "requeue"

\* The effect of an ACTIVE instance on the machine.
Provision(s) ==
  [w EXCEPT !.providerID = s.id, !.id = s.id, !.provisioned = TRUE, !.ready = "True"]

\* reconcileMachineState for the server s.
ReconcileMachineState(s) ==
  IF s.state = "ACTIVE"
    THEN w' = Provision(s) /\ Goto("instance")
    ELSE w' = [w EXCEPT !.ready = ReadyFor(s.state)] /\ Return(RequeueFor(s.state))

\* getOrCreateMachineServer, then reconcileMachineState.
ReconcileMachineServer ==
  /\ At("server")
  /\ StaleServer \/ scache = server
  /\ \/ /\ scache.exists /\ Works /\ UNCHANGED server
        /\ srv' = scache /\ ReconcileMachineState(scache)
     \/ /\ ~scache.exists /\ ~server.exists /\ Works
        /\ server' = Life!NewServer
        /\ srv' = Life!NewServer /\ ReconcileMachineState(Life!NewServer)
     \/ /\ ~scache.exists /\ server.exists /\ Works
        /\ Return("error") /\ UNCHANGED <<server, srv, w>>
     \/ /\ ~scache.exists /\ Fails("kube") /\ Return("error")
        /\ server' \in {server, IF server.exists THEN server ELSE Life!NewServer}
        /\ UNCHANGED <<srv, w>>
  /\ UNCHANGED ingress

\* GetInstanceStatus of an instance that was reported ACTIVE.
GetInstanceStatus ==
  /\ At("instance")
  /\ \/ /\ srv.id \in live /\ Works /\ UNCHANGED w
        /\ IF ~ControlPlane THEN Return("done")
           ELSE Goto(IF endpoint = "lb" THEN "member" ELSE "floatingIP")
     \/ /\ srv.id \notin live /\ Works
        /\ w' = [w EXCEPT !.ready = "False"] /\ Return("done")
     \/ Fails("openstack") /\ Return("error") /\ UNCHANGED w
  /\ UNCHANGED <<server, ingress, srv>>

\* ReconcileLoadBalancerMember for listener k: a member with another address is
\* deleted first.  The cluster's status must know the load balancer.
ReconcileLoadBalancerMember ==
  /\ At("member")
  /\ \/ /\ infra /\ members[k] = srv.id /\ Works /\ UNCHANGED members
        /\ IF k = NListeners THEN Return("done") ELSE Again
     \/ /\ infra /\ members[k] # srv.id /\ members[k] # 0 /\ Works
        /\ members' = [members EXCEPT ![k] = 0]
        /\ pc' = pc /\ k' = k /\ result' = result
     \/ /\ infra /\ members[k] = 0 /\ Works
        /\ members' = [members EXCEPT ![k] = srv.id]
        /\ IF k = NListeners THEN Return("done") ELSE Again
     \/ ~infra /\ Works /\ Return("error") /\ UNCHANGED members
     \/ /\ infra /\ Fails("openstack") /\ Return("error")
        /\ members' \in {members, [members EXCEPT ![k] = IF @ \in {0, srv.id} THEN srv.id ELSE 0]}
  /\ UNCHANGED <<server, fip, srv, w>>

\* GetOrCreateFloatingIP, GetManagementPort and AssociateFloatingIP.
ReconcileFloatingIP ==
  /\ At("floatingIP")
  /\ \/ Works /\ Return("done") /\ fip' = "bound"
     \/ Fails("openstack") /\ Return("error") /\ fip' \in {fip, IF fip = "absent" THEN "free" ELSE "bound"}
  /\ UNCHANGED <<server, members, srv, w>>

-----------------------------------------------------------------------------
(* reconcileDelete *)

\* Nothing was created for a cluster that was never provisioned.
ReconcileDelete ==
  /\ At("dCluster") /\ Works
  /\ IF infra THEN Goto("dServer") /\ UNCHANGED w
              ELSE Return("done") /\ w' = [w EXCEPT !.finalizer = FALSE]
  /\ UNCHANGED <<server, ingress, srv>>

EndpointStep == IF ~ControlPlane THEN "dDelete"
                ELSE IF endpoint = "lb" THEN "dMember" ELSE "dInstance"

GetMachineServer ==
  /\ At("dServer")
  /\ StaleServer \/ scache = server
  /\ srv' = scache
  /\ \/ Works /\ Goto(EndpointStep)
     \/ scache.id # 0 /\ Fails("openstack") /\ Return("error")
  /\ UNCHANGED <<server, ingress, w>>

\* removeAPIServerEndpoint with a floating IP: one that the user did not provide
\* is deleted, if the instance is still there to list it.
DeleteFloatingIP ==
  /\ At("dInstance")
  /\ LET owned == endpoint = "fip" /\ fip = "bound" /\ srv.id \in live
     IN \/ Works /\ Goto("dDelete") /\ fip' = IF owned THEN "absent" ELSE fip
        \/ owned /\ Fails("openstack") /\ Return("error") /\ fip' \in {fip, "absent"}
  /\ UNCHANGED <<server, members, srv, w>>

\* removeAPIServerEndpoint with a load balancer: DeleteLoadBalancerMember.
DeleteLoadBalancerMember ==
  /\ At("dMember")
  /\ \/ /\ Works /\ members' = [members EXCEPT ![k] = 0]
        /\ IF k = NListeners THEN Goto("dDelete") ELSE Again
     \/ /\ Fails("openstack") /\ Return("error")
        /\ members' \in {members, [members EXCEPT ![k] = 0]}
  /\ UNCHANGED <<server, fip, srv, w>>

DeleteServerAndForget ==
  /\ At("dDelete") /\ Works
  /\ server' = IF server.exists THEN Life!Deleted ELSE server
  /\ w' = [w EXCEPT !.finalizer = FALSE]
  /\ Return("done")
  /\ UNCHANGED <<ingress, srv>>

\* The finalizer goes only once the OpenStackServer is gone.
DeleteServer ==
  /\ At("dDelete")
  /\ \/ /\ ~srv.exists /\ Works /\ Return("done") /\ UNCHANGED server
        /\ w' = [w EXCEPT !.finalizer = FALSE]
     \/ /\ srv.exists /\ server.exists /\ Works /\ Return("done")
        /\ server' = Life!Deleted /\ UNCHANGED w
     \/ /\ srv.exists /\ ~server.exists /\ Works /\ Return("error")
        /\ UNCHANGED <<server, w>>
     \/ /\ srv.exists /\ Fails("kube") /\ Return("error")
        /\ server' \in {server, IF server.exists THEN Life!Deleted ELSE server}
        /\ UNCHANGED w
  /\ UNCHANGED <<ingress, srv>>

-----------------------------------------------------------------------------
(* The deferred patch: metadata and spec first, then status *)

PatchedMeta(o) ==
  LET spec == [o EXCEPT !.providerID = IF w.providerID = base.providerID THEN @ ELSE w.providerID]
  IN CASE w.finalizer = base.finalizer  -> spec
       [] w.finalizer /\ ~base.finalizer -> [spec EXCEPT !.finalizer = TRUE]
       [] OTHER -> [spec EXCEPT !.finalizer = FALSE, !.exists = ~o.deleting]

PatchedStatus(o) ==
  [o EXCEPT !.id          = IF w.id = base.id THEN @ ELSE w.id,
            !.provisioned = IF w.provisioned = base.provisioned THEN @ ELSE w.provisioned,
            !.ready       = IF w.ready = base.ready THEN @ ELSE w.ready]

MetaChanged == w.finalizer # base.finalizer \/ w.providerID # base.providerID

\* A finalizer cannot be added to an object that is being deleted; NotFound is
\* ignored once a deleted object has no finalizer.
MetaAccepted ==
  \/ ~MetaChanged
  \/ machine.exists /\ ~(w.finalizer /\ ~base.finalizer /\ machine.deleting)
  \/ ~machine.exists /\ base.deleting /\ ~w.finalizer

PatchMeta ==
  /\ pc = "patchMeta" /\ pc' = "patchStatus"
  /\ \/ /\ Works
        /\ machine' = IF machine.exists /\ MetaAccepted THEN PatchedMeta(machine) ELSE machine
        /\ result' = IF MetaAccepted THEN result ELSE "error"
     \/ Fails("kube") /\ UNCHANGED machine /\ result' = "error"
  /\ UNCHANGED <<endpoint, mcache, lifecycle, scache, cluster, ingress, local, w, queued>>

\* The reconcile ends, and its local variables with it.
Stop ==
  /\ pc' = "idle" /\ base' = NewMachine /\ w' = NewMachine /\ srv' = Life!NoServer
  /\ k' = 1 /\ result' = "done"

Finish(res) == Stop /\ queued' = (queued \/ res # "done")

PatchStatus ==
  /\ pc = "patchStatus"
  /\ \/ /\ Works
        /\ machine' = IF machine.exists THEN PatchedStatus(machine) ELSE machine
        /\ Finish(IF machine.exists \/ (base.deleting /\ ~w.finalizer) THEN result ELSE "error")
     \/ Fails("kube") /\ UNCHANGED machine /\ Finish("error")
  /\ UNCHANGED <<endpoint, mcache, lifecycle, scache, cluster, ingress>>

Crash ==
  /\ pc # "idle" /\ Fails("crash")
  /\ Stop /\ queued' = TRUE /\ mcache' = machine /\ scache' = server
  /\ UNCHANGED <<endpoint, machine, lifecycle, cluster, ingress>>

-----------------------------------------------------------------------------
(* Watches *)

MachineEvent ==
  /\ mcache # machine /\ mcache' = machine /\ queued' = TRUE
  /\ UNCHANGED <<endpoint, machine, lifecycle, scache, cluster, ingress, local, w,
                 pc, result, faults>>

ServerEventUnwatchedDeletion ==
  /\ scache # server /\ scache' = server
  /\ queued' = (queued \/ (server.exists /\ Life!StatusReportable(scache, server)))
  /\ UNCHANGED <<endpoint, machine, mcache, lifecycle, cluster, ingress, local, w,
                 pc, result, faults>>

ServerEvent ==
  /\ scache # server /\ scache' = server
  /\ queued' = (queued \/ Life!StatusReportable(scache, server))
  /\ UNCHANGED <<endpoint, machine, mcache, lifecycle, cluster, ingress, local, w,
                 pc, result, faults>>

\* Events of the owner Machine and of the Cluster.
Prerequisite ==
  /\ \/ ~linked /\ linked' = TRUE /\ UNCHANGED <<bootstrap, infra>>
     \/ ~bootstrap /\ bootstrap' = TRUE /\ UNCHANGED <<linked, infra>>
     \/ ~infra /\ infra' = TRUE /\ UNCHANGED <<linked, bootstrap>>
  /\ queued' = TRUE
  /\ UNCHANGED <<endpoint, machine, mcache, lifecycle, scache, ingress, local, w,
                 pc, result, faults>>

Resync ==
  /\ ~queued /\ queued' = TRUE
  /\ UNCHANGED <<endpoint, machine, mcache, lifecycle, scache, cluster, ingress,
                 local, w, pc, result, faults>>

-----------------------------------------------------------------------------
(* The world around the controller *)

controller == <<mcache, scache, local, w, pc, result, faults>>

\* Cluster API deletes the machine.
DeleteMachine ==
  /\ machine.exists /\ ~machine.deleting
  /\ machine' = IF machine.finalizer THEN [machine EXCEPT !.deleting = TRUE]
                                     ELSE [machine EXCEPT !.exists = FALSE]
  /\ UNCHANGED <<endpoint, lifecycle, cluster, ingress, queued, controller>>

\* The garbage collector, or somebody else, deletes the OpenStackServer.
DeleteServerObject ==
  /\ UserDeletesServer \/ ~machine.exists
  /\ Life!Delete
  /\ UNCHANGED <<endpoint, machine, cluster, ingress, queued, controller>>

\* The OpenStackServer controller, as it appears from here.
ServerReconciles ==
  /\ \/ Life!Protect \/ Life!Launch
     \/ \E id \in 0..launched, state \in NovaStates : Life!Report(id, state)
  /\ UNCHANGED <<endpoint, machine, cluster, ingress, queued, controller>>

InstanceVanishes ==
  /\ Life!Vanish
  /\ UNCHANGED <<endpoint, machine, cluster, ingress, queued, controller>>

\* With the server go its ports, and the association of the floating IP.
ServerRemoved ==
  /\ Life!Remove
  /\ fip' = IF fip = "bound" THEN "free" ELSE fip
  /\ UNCHANGED <<endpoint, machine, cluster, members, queued, controller>>

\* clusterctl move recreates all objects without their status.
Move ==
  /\ pc = "idle" /\ moves < MaxMoves
  /\ machine.exists /\ ~machine.deleting /\ ~server.deleting
  /\ moves' = moves + 1
  /\ machine' = [NewMachine EXCEPT !.finalizer = machine.finalizer,
                                   !.providerID = machine.providerID]
  /\ server' = Life!Moved
  /\ mcache' = machine' /\ scache' = server' /\ infra' = FALSE /\ queued' = TRUE
  /\ UNCHANGED <<endpoint, live, launched, linked, bootstrap, ingress, local, w,
                 pc, result, faults>>

-----------------------------------------------------------------------------
Worker ==
  \/ Start \/ ReconcileNormal \/ ReconcileMachineServer \/ GetInstanceStatus
  \/ ReconcileLoadBalancerMember \/ ReconcileFloatingIP
  \/ ReconcileDelete \/ GetMachineServer \/ DeleteFloatingIP
  \/ DeleteLoadBalancerMember \/ DeleteServer \/ PatchMeta \/ PatchStatus

Next ==
  \/ Worker \/ Crash
  \/ MachineEvent \/ ServerEvent \/ Prerequisite \/ Resync
  \/ DeleteMachine \/ DeleteServerObject \/ ServerReconciles \/ InstanceVanishes
  \/ ServerRemoved \/ Move

Spec == Init /\ [][Next]_vars

\* Queued keys run, watch events arrive, the cluster gets ready, the garbage
\* collector works, and a server under deletion loses its instance and goes.
\* The resync is not assumed: its period is hours or minutes.
FairSpec ==
  /\ Spec
  /\ WF_vars(Worker) /\ WF_vars(MachineEvent) /\ WF_vars(ServerEvent)
  /\ WF_vars(Prerequisite)
  /\ WF_vars(server.deleting /\ InstanceVanishes) /\ WF_vars(ServerRemoved)

-----------------------------------------------------------------------------
(* Properties *)

\* Every variable stays in its type.
ObjectsOK ==
  machine \in Machine /\ mcache \in Machine /\ base \in Machine /\ w \in Machine

ServersOK ==
  /\ server \in Life!Server /\ scache \in Life!Server /\ srv \in Life!Server
  /\ live \subseteq 1..MaxInstances /\ launched \in 0..MaxInstances

IngressOK ==
  /\ endpoint \in Endpoints
  /\ members \in [Listeners -> 0..MaxInstances] /\ fip \in {"absent", "free", "bound"}

ControlOK ==
  /\ pc \in Steps /\ k \in Nat \ {0} /\ result \in {"done", "requeue", "error"}
  /\ moves \in 0..MaxMoves /\ faults \in 0..MaxFaults

FlagsOK ==
  linked \in BOOLEAN /\ bootstrap \in BOOLEAN /\ infra \in BOOLEAN /\ queued \in BOOLEAN

TypeOK == ObjectsOK /\ ServersOK /\ IngressOK /\ ControlOK /\ FlagsOK

\* An OpenStackServer or a load balancer member exists only under a machine that
\* durably holds its finalizer, so that reconcileDelete will run.
FinalizerGuardsServer ==
  (server.exists \/ \E l \in Listeners : members[l] # 0) /\ machine.exists
    => machine.finalizer

\* The machine's finalizer is removed only after the OpenStackServer is fully
\* deleted and no listener routes API traffic to it.
MachineRemovedClean ==
  [][machine.exists /\ machine.finalizer /\ ~machine'.exists
       => ~server.exists /\ \A l \in Listeners : members[l] = 0]_vars

Settled(s) ==
  \/ server.state # s \/ ~server.exists \/ server.deleting
  \/ ~machine.exists \/ machine.deleting

\* Whatever state the server stays in, its machine ends up with the Ready
\* condition of that state, and with an ACTIVE server provisioned under its
\* instance ID, even if a patch of spec or status failed: the predicate on server
\* events and the requeues together miss no change.  A machine whose instance is
\* gone says False.
MachineFollowsServer ==
  \A s \in NovaStates :
    server.exists /\ server.state = s
      ~> \/ Settled(s)
         \/ /\ machine.ready \in {ReadyFor(s), "False"}
            /\ s = "ACTIVE" => machine.provisioned /\ machine.providerID = server.id

\* A deleted machine goes: the deletion of its server wakes it up.
MachineDeletionCompletes == machine.deleting ~> ~machine.exists
=============================================================================
