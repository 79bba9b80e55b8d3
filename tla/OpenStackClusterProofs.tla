------------------------ MODULE OpenStackClusterProofs ------------------------
(***************************************************************************)
(* Proofs about OpenStackCluster, for every kind of network, bastion and     *)
(* floating IP, every number of faults, edits, instances and moves, and      *)
(* informers that lag arbitrarily unless a theorem says otherwise.           *)
(***************************************************************************)
EXTENDS OpenStackCluster, TLAPS

\* What a copy of the cluster promises about the cluster itself: the finalizer and
\* the deletion timestamp that it shows are persisted.
Persisted(o) ==
  cluster.exists => /\ o.finalizer => cluster.finalizer
                    /\ o.deleting => cluster.deleting

CreatingSteps == {"network", "subnet", "router", "interface", "bastionGroup", "groups",
                  "endpoint", "zones", "bastion", "instance", "floatingIP", "associate"}
BastionSteps  == {"bFloatingIP", "bAddresses", "bServer"}
RouterSteps   == {"dRouter", "dPorts", "dNetwork", "dGroups"}
TeardownSteps == RouterSteps \cup {"dInterface"}
DeleteSteps   == TeardownSteps \cup {"dMachines", "dBastion", "dLoadBalancer"}

\* What the running reconcile knows: it creates only after a read that showed the
\* finalizer, and drops the finalizer only on the delete path, entered after a read
\* that showed the deletion timestamp.
ReadOK ==
  /\ pc = "normal" => w = base /\ ~base.deleting
  /\ pc \in CreatingSteps => base.finalizer /\ w.finalizer /\ ~base.deleting
  /\ pc \in DeleteSteps => base.deleting
  /\ base.finalizer /\ ~w.finalizer => base.deleting

GuardInv ==
  /\ FinalizerGuardsInfra
  /\ Persisted(ccache) /\ Persisted(base)
  /\ ReadOK

\* What depends on what, whoever acts: the ports of the bastion and its floating IP
\* on a protected server, subnets and ports on the network.
PortsProtected == live # {} \/ bound # 0 => server.exists /\ server.finalizer

NetworkFirst ==
  /\ {"subnet", "port"} \cap neutron # {} => "network" \in neutron
  /\ pc = "subnet" => "network" \in neutron
  /\ network = "managed" \/ neutron = {}
  /\ pc \in {"subnet", "router", "interface"} => network = "managed"
  /\ LoadBalanced \/ lb = "absent"

\* How far the teardown has come.
Teardown ==
  /\ pc \in BastionSteps /\ base.deleting => ~machines
  /\ pc \in DeleteSteps \ {"dMachines"} => ~machines
  /\ pc \in TeardownSteps \cup {"dLoadBalancer"} => ~server.exists
  /\ pc \in TeardownSteps => lb = "absent"
  /\ pc \in RouterSteps => "interface" \notin neutron
  /\ pc \in RouterSteps \ {"dRouter"} => "router" \notin neutron
  /\ pc = "dNetwork" => w.net = "none" \/ "port" \notin neutron
  /\ pc = "dGroups" => neutron = {}

\* The finalizer is dropped with nothing left.
DroppedClean ==
  /\ pc \in DeleteSteps \cup BastionSteps /\ base.finalizer => w.finalizer
  /\ pc = "patchMeta" /\ base.finalizer /\ ~w.finalizer => ~Resources

TeardownInv == PortsProtected /\ NetworkFirst /\ Teardown /\ DroppedClean

\* As long as the spec has named the user's floating IP, every copy of it does.
UserIPInv ==
  brought => /\ cluster.specFIP = UserFIP /\ ccache.specFIP = UserFIP
             /\ pc = "idle" \/ w.specFIP = UserFIP

\* With fresh reads, the recorded floating IP is known until a new one is needed.
KnownIPInv == pc \in (CreatingSteps \ {"associate"}) \cup {"normal"} => w.fip = cluster.fip

\* The types of everything but the Boolean variables.
TypeInv == ObjectsOK /\ ServersOK /\ CloudOK /\ ControlOK

-----------------------------------------------------------------------------
(* Types *)

\* New objects have their type, and so has a working copy after any one change.
LEMMA ClusterTypes ==
  /\ \A ip \in FIPs, enabled \in BOOLEAN : NewCluster(ip, enabled) \in Cluster
  /\ 0 \in FIPs /\ UserFIP \in FIPs \ {0}
<1>1. 0 \in FIPs /\ UserFIP \in FIPs \ {0} /\ {0, 1} \subseteq Nat /\ 0 \in 0..1
  BY ClusterAssumption DEF FIPs, UserFIP
<1>2. ASSUME NEW ip \in FIPs, NEW enabled \in BOOLEAN PROVE NewCluster(ip, enabled) \in Cluster
  BY <1>1 DEF NewCluster, Cluster
<1> QED BY <1>1, <1>2

\* The patches keep the type of the cluster.
LEMMA PatchedType ==
  ASSUME ObjectsOK
  PROVE  PatchedMeta(cluster) \in Cluster /\ PatchedStatus(cluster) \in Cluster
<1>1. cluster \in Cluster /\ base \in Cluster /\ w \in Cluster
  BY DEF ObjectsOK
<1>2. /\ Pick(cluster.endpoint, base.endpoint, w.endpoint) \in BOOLEAN
      /\ Pick(cluster.finalizer, base.finalizer, w.finalizer) \in BOOLEAN
      /\ (~(cluster.deleting /\ base.finalizer /\ ~w.finalizer)) \in BOOLEAN
  BY <1>1 DEF Pick, Cluster
<1>3. PatchedMeta(cluster) \in Cluster
  <2> DEFINE e == Pick(cluster.endpoint, base.endpoint, w.endpoint)
             f == Pick(cluster.finalizer, base.finalizer, w.finalizer)
             x == ~(cluster.deleting /\ base.finalizer /\ ~w.finalizer)
  <2>1. PatchedMeta(cluster) = [cluster EXCEPT !.endpoint = e, !.finalizer = f, !.exists = x]
    BY DEF PatchedMeta
  <2> HIDE DEF e, f, x
  <2> QED BY <1>1, <1>2, <2>1 DEF Cluster, e, f, x
<1>4. /\ Pick(cluster.net, base.net, w.net) \in {"none", "network", "subnets"}
      /\ Pick(cluster.router, base.router, w.router) \in BOOLEAN
      /\ Pick(cluster.group, base.group, w.group) \in Nat
      /\ Pick(cluster.provisioned, base.provisioned, w.provisioned) \in BOOLEAN
      /\ Pick(cluster.bastion, base.bastion, w.bastion) \in BOOLEAN
      /\ Pick(cluster.fip, base.fip, w.fip) \in FIPs
  BY <1>1 DEF Pick, Cluster
<1>5. PatchedStatus(cluster) \in Cluster
  BY <1>1, <1>4 DEF PatchedStatus, Cluster
<1> QED BY <1>3, <1>5

\* An absent and a new server have the type of servers.
LEMMA NewServerType == Life!NoServer \in Life!Server /\ Life!NewServer \in Life!Server
<1>1. Life!NoServer \in Life!Server
  BY ClusterAssumption DEF Life!Server, Life!NoServer, Life!ServerStates
<1>2. [Life!NoServer EXCEPT !.exists = TRUE] \in Life!Server
  BY <1>1 DEF Life!Server
<1> QED BY <1>1, <1>2 DEF Life!NewServer

\* So has the object after its deletion or a move.
LEMMA DeletedServer ==
  ASSUME ServersOK
  PROVE  Life!Deleted \in Life!Server /\ Life!Moved \in Life!Server
<1>1. server \in Life!Server /\ server.finalizer \in BOOLEAN
  BY DEF ServersOK, Life!Server
<1>2. [server EXCEPT !.deleting = TRUE] \in Life!Server
  BY <1>1 DEF Life!Server
<1>3. [Life!NewServer EXCEPT !.finalizer = server.finalizer] \in Life!Server
  BY <1>1, NewServerType DEF Life!Server
<1> QED BY <1>1, <1>2, <1>3, NewServerType DEF Life!Deleted, Life!Moved

\* The initial state has the right types.
LEMMA TypeInit == Init => TypeInv /\ FlagsOK
<1> SUFFICES ASSUME Init PROVE TypeInv /\ FlagsOK
  OBVIOUS
<1>1. ObjectsOK
  <2>1. PICK ip \in BastionIPs, enabled \in Enabled :
          cluster = NewCluster(IF ip = "given" THEN UserFIP ELSE 0, enabled)
    BY DEF Init
  <2>2. enabled \in BOOLEAN
    BY ClusterAssumption
  <2>3. (IF ip = "given" THEN UserFIP ELSE 0) \in FIPs
    BY ClusterTypes
  <2> QED BY <2>1, <2>2, <2>3, ClusterTypes DEF Init, ObjectsOK
<1>2. ServersOK
  <2>1. NoSpec \in ServerSpec
    BY DEF NoSpec, ServerSpec
  <2> QED BY <2>1, NewServerType, ClusterAssumption DEF Init, ServersOK
<1>3. CloudOK
  BY ClusterTypes, ClusterAssumption DEF Init, CloudOK
<1>4. ControlOK
  BY ClusterAssumption DEF Init, ControlOK, Steps
<1>5. FlagsOK
  BY Zenon DEF Init, FlagsOK
<1> QED BY <1>1, <1>2, <1>3, <1>4, <1>5 DEF TypeInv

\* The steps that write the cluster, and those that do not.
LEMMA ClusterWriters ==
  ASSUME [Next]_vars
  PROVE  \/ PatchMeta \/ PatchStatus \/ DeleteCluster \/ EditBastion \/ Move
         \/ cluster' = cluster
BY Zenon DEF Next, Worker, Normal, Bastion, Delete, vars, At, Start, Crash, AddFinalizer,
   ReconcileNetwork, ReconcileSubnet, ReconcileRouter, AddRouterInterface,
   DeleteBastionGroup, ReconcileSecurityGroups, ReconcileControlPlaneEndpoint,
   SetProvisioned, ReconcileBastionServer, GetBastionInstance, GetOrCreateFloatingIP,
   AssociateFloatingIP, DeleteStatusFloatingIP, DeleteInstanceFloatingIPs,
   DeleteBastionServer, WaitForMachines, WaitForBastion, DeleteLoadBalancer,
   RemoveRouterInterface, DeleteRouter, DeleteClusterPorts, DeleteNetwork,
   DeleteSecurityGroups, ClusterEvent, ServerEvent, Resync, MachinesGone,
   LoadBalancerGone, ServerReconciles, InstanceVanishes, ServerRemoved

\* Copies of the cluster come from the API server or from the cache.
LEMMA CopiesStep ==
  ASSUME [Next]_vars
  PROVE  /\ ccache' \in {ccache, cluster, cluster'}
         /\ base' \in {base, ccache, NewCluster(0, TRUE)}
         /\ network' = network
<1>1. ccache' \in {ccache, cluster, cluster'}
  BY Zenon DEF Next, Worker, Normal, Bastion, Delete, vars, At, Start, PatchMeta, PatchStatus,
     Crash, AddFinalizer, ReconcileNetwork, ReconcileSubnet, ReconcileRouter,
     AddRouterInterface, DeleteBastionGroup, ReconcileSecurityGroups,
     ReconcileControlPlaneEndpoint, SetProvisioned, ReconcileBastionServer,
     GetBastionInstance, GetOrCreateFloatingIP, AssociateFloatingIP,
     DeleteStatusFloatingIP, DeleteInstanceFloatingIPs, DeleteBastionServer,
     WaitForMachines, WaitForBastion, DeleteLoadBalancer, RemoveRouterInterface,
     DeleteRouter, DeleteClusterPorts, DeleteNetwork, DeleteSecurityGroups,
     ClusterEvent, ServerEvent, Resync, DeleteCluster, EditBastion, MachinesGone,
     LoadBalancerGone, ServerReconciles, InstanceVanishes, ServerRemoved, Move,
     controller
<1>2. base' \in {base, ccache, NewCluster(0, TRUE)}
  BY Zenon DEF Next, Worker, Normal, Bastion, Delete, vars, At, Start, PatchMeta, PatchStatus,
     Crash, AddFinalizer, ReconcileNetwork, ReconcileSubnet, ReconcileRouter,
     AddRouterInterface, DeleteBastionGroup, ReconcileSecurityGroups,
     ReconcileControlPlaneEndpoint, SetProvisioned, ReconcileBastionServer,
     GetBastionInstance, GetOrCreateFloatingIP, AssociateFloatingIP,
     DeleteStatusFloatingIP, DeleteInstanceFloatingIPs, DeleteBastionServer,
     WaitForMachines, WaitForBastion, DeleteLoadBalancer, RemoveRouterInterface,
     DeleteRouter, DeleteClusterPorts, DeleteNetwork, DeleteSecurityGroups,
     ClusterEvent, ServerEvent, Resync, DeleteCluster, EditBastion, MachinesGone,
     LoadBalancerGone, ServerReconciles, InstanceVanishes, ServerRemoved, Move,
     controller, reconcile, Finish, Stop
<1>3. network' = network
  BY Zenon DEF Next, Worker, Normal, Bastion, Delete, vars, At, Start, PatchMeta, PatchStatus,
     Crash, AddFinalizer, ReconcileNetwork, ReconcileSubnet, ReconcileRouter,
     AddRouterInterface, DeleteBastionGroup, ReconcileSecurityGroups,
     ReconcileControlPlaneEndpoint, SetProvisioned, ReconcileBastionServer,
     GetBastionInstance, GetOrCreateFloatingIP, AssociateFloatingIP,
     DeleteStatusFloatingIP, DeleteInstanceFloatingIPs, DeleteBastionServer,
     WaitForMachines, WaitForBastion, DeleteLoadBalancer, RemoveRouterInterface,
     DeleteRouter, DeleteClusterPorts, DeleteNetwork, DeleteSecurityGroups,
     ClusterEvent, ServerEvent, Resync, DeleteCluster, EditBastion, MachinesGone,
     LoadBalancerGone, ServerReconciles, InstanceVanishes, ServerRemoved, Move
<1> QED BY <1>1, <1>2, <1>3

\* Every step keeps the types of the cluster and its copies.
LEMMA ObjectsNext == TypeInv /\ [Next]_vars => ObjectsOK'
<1> SUFFICES ASSUME TypeInv, [Next]_vars PROVE ObjectsOK'
  OBVIOUS
<1>0. /\ cluster \in Cluster /\ ccache \in Cluster /\ base \in Cluster /\ w \in Cluster
      /\ NewCluster(0, TRUE) \in Cluster
  BY ClusterTypes DEF TypeInv, ObjectsOK
<1>1. cluster' \in Cluster
  <2>1. CASE PatchMeta \/ PatchStatus
    <3>1. cluster' \in {cluster, PatchedMeta(cluster), PatchedStatus(cluster)}
      BY <2>1 DEF PatchMeta, PatchStatus
    <3> QED BY <1>0, <3>1, PatchedType DEF TypeInv
  <2>2. CASE DeleteCluster
    <3>1. cluster' \in {[cluster EXCEPT !.deleting = TRUE], [cluster EXCEPT !.exists = FALSE]}
      BY <2>2 DEF DeleteCluster
    <3> QED BY <1>0, <3>1 DEF Cluster
  <2>3. CASE EditBastion
    <3>1. /\ (~cluster.enabled) \in BOOLEAN /\ (1 - cluster.flavor) \in 0..1
          /\ {0, UserFIP} \subseteq FIPs
      BY <1>0, ClusterTypes DEF Cluster
    <3>2. \/ \E b \in BOOLEAN : cluster' = [cluster EXCEPT !.enabled = b]
          \/ \E n \in 0..1 : cluster' = [cluster EXCEPT !.flavor = n]
          \/ \E ip \in {0, UserFIP} : cluster' = [cluster EXCEPT !.specFIP = ip]
      BY <2>3, <3>1 DEF EditBastion
    <3> QED BY <1>0, <3>1, <3>2 DEF Cluster
  <2>4. CASE Move
    <3>1. ASSUME NEW n, n \in FIPs, n \in Nat, NEW b \in BOOLEAN
          PROVE  [cluster EXCEPT !.net = "none", !.router = b, !.group = n,
                                 !.provisioned = b, !.bastion = b, !.fip = n] \in Cluster
      BY <1>0, <3>1 DEF Cluster
    <3>2. 0 \in FIPs /\ 0 \in Nat /\ FALSE \in BOOLEAN
      BY ClusterTypes
    <3> QED BY <2>4, <3>1, <3>2 DEF Move
  <2> QED BY <1>0, <2>1, <2>2, <2>3, <2>4, ClusterWriters
<1>2. w' \in Cluster
  <2>1. CASE \/ Start \/ PatchMeta \/ PatchStatus \/ Crash \/ ClusterEvent \/ ServerEvent
             \/ Resync \/ DeleteCluster \/ EditBastion \/ MachinesGone \/ LoadBalancerGone
             \/ ServerReconciles \/ InstanceVanishes \/ ServerRemoved \/ Move \/ UNCHANGED vars
    <3>1. w' \in {w, ccache, NewCluster(0, TRUE)}
      BY <2>1, Zenon DEF Start, PatchMeta, PatchStatus, Crash, Finish, Stop, ClusterEvent,
         ServerEvent, Resync, DeleteCluster, EditBastion, MachinesGone, LoadBalancerGone,
         ServerReconciles, InstanceVanishes, ServerRemoved, Move, vars, controller, reconcile
    <3> QED BY <1>0, <3>1
  <2>2. CASE Normal
    <3>0. ngroups \in Nat /\ 0 \in Nat
      BY DEF TypeInv, CloudOK
    <3>1. CASE ReconcileNetwork
      <4>1. w' = w \/ \E x \in {"none", "network", "subnets"} : w' = [w EXCEPT !.net = x]
        BY <1>0, <3>1 DEF ReconcileNetwork, Ensure, Cluster
      <4> QED BY <1>0, <4>1 DEF Cluster
    <3>2. CASE ReconcileSecurityGroups
      <4>1. w' = w \/ \E n \in {0, ngroups} : w' = [w EXCEPT !.group = n]
        BY <3>2 DEF ReconcileSecurityGroups
      <4> QED BY <1>0, <3>0, <4>1 DEF Cluster
    <3>3. CASE ReconcileSubnet \/ ReconcileRouter
      <4>1. w' \in {w, [w EXCEPT !.net = "subnets"], [w EXCEPT !.router = TRUE]}
        BY <3>3 DEF ReconcileSubnet, ReconcileRouter, Ensure
      <4> QED BY <1>0, <4>1 DEF Cluster
    <3>4. CASE \/ AddFinalizer \/ AddRouterInterface \/ DeleteBastionGroup
               \/ ReconcileControlPlaneEndpoint \/ SetProvisioned
      <4>1. w' \in {w, [w EXCEPT !.finalizer = TRUE], [w EXCEPT !.endpoint = TRUE],
                    [w EXCEPT !.provisioned = TRUE]}
        BY <3>4 DEF AddFinalizer, AddRouterInterface, DeleteBastionGroup,
           ReconcileControlPlaneEndpoint, SetProvisioned, Ensure
      <4> QED BY <1>0, <4>1 DEF Cluster
    <3> QED BY <2>2, <3>1, <3>2, <3>3, <3>4 DEF Normal
  <2>3. CASE Bastion
    <3>1. \/ w' = w \/ w' = [w EXCEPT !.bastion = TRUE]
          \/ w' = [w EXCEPT !.bastion = FALSE, !.fip = 0]
          \/ w' \in {[w EXCEPT !.fip = bound], [w EXCEPT !.fip = ChosenFIP]}
          \/ nfips < MaxFIPs /\ w' = [w EXCEPT !.fip = nfips + 1]
      BY <2>3 DEF Bastion, ReconcileBastionServer, GetBastionInstance, GetOrCreateFloatingIP,
         AssociateFloatingIP, DeleteStatusFloatingIP, DeleteInstanceFloatingIPs,
         DeleteBastionServer
    <3>2. /\ bound \in FIPs /\ ChosenFIP \in FIPs /\ 0 \in FIPs
          /\ nfips < MaxFIPs => nfips + 1 \in FIPs
      BY <1>0, ClusterTypes, ClusterAssumption DEF TypeInv, CloudOK, ChosenFIP, Cluster, FIPs
    <3>3. w' \in {w, [w EXCEPT !.bastion = TRUE]} \/ \E ip \in FIPs :
             w' \in {[w EXCEPT !.fip = ip], [w EXCEPT !.bastion = FALSE, !.fip = ip]}
      BY <3>1, <3>2
    <3> QED BY <1>0, <3>3 DEF Cluster
  <2>4. CASE Delete
    <3>1. w' = w \/ w' = [w EXCEPT !.finalizer = FALSE]
      BY <2>4 DEF Delete, WaitForMachines, WaitForBastion, DeleteLoadBalancer,
         RemoveRouterInterface, DeleteRouter, DeleteClusterPorts, DeleteNetwork,
         DeleteSecurityGroups, Remove
    <3> QED BY <1>0, <3>1 DEF Cluster
  <2> QED BY <2>1, <2>2, <2>3, <2>4 DEF Next, Worker
<1> QED BY <1>0, <1>1, <1>2, CopiesStep DEF TypeInv, ObjectsOK

\* Every step keeps the types of the bastion's server and its copies.
LEMMA ServersNext == TypeInv /\ [Next]_vars => ServersOK'
<1> SUFFICES ASSUME TypeInv, [Next]_vars PROVE ServersOK'
  OBVIOUS
<1>0. /\ server \in Life!Server /\ srv \in Life!Server /\ sspec \in ServerSpec
      /\ scache \in [obj : Life!Server, spec : ServerSpec] /\ scache.obj \in Life!Server
  BY DEF TypeInv, ServersOK
<1>1. scache' \in {scache, [obj |-> server, spec |-> sspec], [obj |-> server', spec |-> sspec]}
  BY Zenon DEF Next, Worker, Normal, Bastion, Delete, vars, At, Start, PatchMeta, PatchStatus,
     Crash, AddFinalizer, ReconcileNetwork, ReconcileSubnet, ReconcileRouter,
     AddRouterInterface, DeleteBastionGroup, ReconcileSecurityGroups,
     ReconcileControlPlaneEndpoint, SetProvisioned, ReconcileBastionServer,
     GetBastionInstance, GetOrCreateFloatingIP, AssociateFloatingIP,
     DeleteStatusFloatingIP, DeleteInstanceFloatingIPs, DeleteBastionServer,
     WaitForMachines, WaitForBastion, DeleteLoadBalancer, RemoveRouterInterface,
     DeleteRouter, DeleteClusterPorts, DeleteNetwork, DeleteSecurityGroups,
     ClusterEvent, ServerEvent, Resync, DeleteCluster, EditBastion, MachinesGone,
     LoadBalancerGone, ServerReconciles, InstanceVanishes, ServerRemoved, Move,
     controller
<1>2. srv' \in {srv, scache.obj, Life!NoServer}
  BY Zenon DEF Next, Worker, Normal, Bastion, Delete, vars, At, Start, PatchMeta, PatchStatus,
     Crash, AddFinalizer, ReconcileNetwork, ReconcileSubnet, ReconcileRouter,
     AddRouterInterface, DeleteBastionGroup, ReconcileSecurityGroups,
     ReconcileControlPlaneEndpoint, SetProvisioned, ReconcileBastionServer,
     GetBastionInstance, GetOrCreateFloatingIP, AssociateFloatingIP,
     DeleteStatusFloatingIP, DeleteInstanceFloatingIPs, DeleteBastionServer,
     WaitForMachines, WaitForBastion, DeleteLoadBalancer, RemoveRouterInterface,
     DeleteRouter, DeleteClusterPorts, DeleteNetwork, DeleteSecurityGroups,
     ClusterEvent, ServerEvent, Resync, DeleteCluster, EditBastion, MachinesGone,
     LoadBalancerGone, ServerReconciles, InstanceVanishes, ServerRemoved, Move,
     controller, reconcile, Finish, Stop, bastion,
     Ensure, Remove
<1>3. sspec' \in ServerSpec
  <2>1. sspec' \in {sspec, NoSpec, BastionSpec}
    BY Zenon DEF Next, Worker, Normal, Bastion, Delete, vars, At, Start, PatchMeta, PatchStatus,
     Crash, AddFinalizer, ReconcileNetwork, ReconcileSubnet, ReconcileRouter,
     AddRouterInterface, DeleteBastionGroup, ReconcileSecurityGroups,
     ReconcileControlPlaneEndpoint, SetProvisioned, ReconcileBastionServer,
     GetBastionInstance, GetOrCreateFloatingIP, AssociateFloatingIP,
     DeleteStatusFloatingIP, DeleteInstanceFloatingIPs, DeleteBastionServer,
     WaitForMachines, WaitForBastion, DeleteLoadBalancer, RemoveRouterInterface,
     DeleteRouter, DeleteClusterPorts, DeleteNetwork, DeleteSecurityGroups,
     ClusterEvent, ServerEvent, Resync, DeleteCluster, EditBastion, MachinesGone,
     LoadBalancerGone, ServerReconciles, InstanceVanishes, ServerRemoved, Move, Ensure,
     Remove, bastion
  <2>2. w.flavor \in 0..1 /\ w.group \in Nat
    BY DEF TypeInv, ObjectsOK, Cluster
  <2>3. NoSpec \in ServerSpec /\ BastionSpec \in ServerSpec
    BY <2>2 DEF NoSpec, BastionSpec, ServerSpec
  <2> QED BY <1>0, <2>1, <2>3
<1>4. server' \in Life!Server /\ live' \subseteq 1..MaxInstances /\ launched' \in 0..MaxInstances
  <2>0. live \subseteq 1..MaxInstances /\ launched \in 0..MaxInstances
    BY DEF TypeInv, ServersOK
  <2>1. CASE ServerReconciles
    <3>1. CASE Life!Protect
      BY <1>0, <2>0, <3>1 DEF Life!Protect, Life!Server
    <3>2. CASE Life!Launch
      BY <1>0, <2>0, <3>2, ClusterAssumption DEF Life!Launch
    <3>3. CASE \E id \in live : Life!Report(id, "ACTIVE")
      <4>1. PICK id \in live : Life!Report(id, "ACTIVE")
        BY <3>3
      <4>2. id \in 0..MaxInstances /\ "ACTIVE" \in Life!ServerStates
        BY <2>0, ClusterAssumption DEF Life!ServerStates
      <4>3. server' = [server EXCEPT !.id = id, !.state = "ACTIVE", !.ready = TRUE]
        BY <4>1 DEF Life!Report
      <4> QED BY <1>0, <2>0, <4>1, <4>2, <4>3 DEF Life!Report, Life!Server
    <3> QED BY <2>1, <3>1, <3>2, <3>3 DEF ServerReconciles
  <2>2. CASE ~ServerReconciles
    <3>1. /\ server' \in {server, Life!NewServer, Life!NoServer, Life!Deleted, Life!Moved}
          /\ launched' = launched
      BY <2>2, Zenon DEF Next, Worker, Normal, Bastion, Delete, vars, At, Start, PatchMeta, PatchStatus,
         Crash, AddFinalizer, ReconcileNetwork, ReconcileSubnet, ReconcileRouter,
         AddRouterInterface, DeleteBastionGroup, ReconcileSecurityGroups,
         ReconcileControlPlaneEndpoint, SetProvisioned, ReconcileBastionServer,
         GetBastionInstance, GetOrCreateFloatingIP, AssociateFloatingIP,
         DeleteStatusFloatingIP, DeleteInstanceFloatingIPs, DeleteBastionServer,
         WaitForMachines, WaitForBastion, DeleteLoadBalancer, RemoveRouterInterface,
         DeleteRouter, DeleteClusterPorts, DeleteNetwork, DeleteSecurityGroups,
         ClusterEvent, ServerEvent, Resync, DeleteCluster, EditBastion, MachinesGone,
         LoadBalancerGone, InstanceVanishes, ServerRemoved, Move, Ensure, Remove,
         bastion, lifecycle, Life!Vanish, Life!Remove
    <3>2. live' = live \/ InstanceVanishes
      BY <2>2, Zenon DEF Next, Worker, Normal, Bastion, Delete, vars, At, Start, PatchMeta, PatchStatus,
         Crash, AddFinalizer, ReconcileNetwork, ReconcileSubnet, ReconcileRouter,
         AddRouterInterface, DeleteBastionGroup, ReconcileSecurityGroups,
         ReconcileControlPlaneEndpoint, SetProvisioned, ReconcileBastionServer,
         GetBastionInstance, GetOrCreateFloatingIP, AssociateFloatingIP,
         DeleteStatusFloatingIP, DeleteInstanceFloatingIPs, DeleteBastionServer,
         WaitForMachines, WaitForBastion, DeleteLoadBalancer, RemoveRouterInterface,
         DeleteRouter, DeleteClusterPorts, DeleteNetwork, DeleteSecurityGroups,
         ClusterEvent, ServerEvent, Resync, DeleteCluster, EditBastion, MachinesGone,
         LoadBalancerGone, ServerRemoved, Move, lifecycle, Life!Remove
    <3>3. InstanceVanishes => live' \subseteq live
      BY DEF InstanceVanishes, Life!Vanish
    <3> QED BY <1>0, <2>0, <3>1, <3>2, <3>3, NewServerType, DeletedServer DEF TypeInv
  <2> QED BY <2>1, <2>2
<1> QED BY <1>0, <1>1, <1>2, <1>3, <1>4, NewServerType DEF TypeInv, ServersOK

\* Every step keeps the types of what exists in the cloud.
LEMMA CloudNext == TypeInv /\ [Next]_vars => CloudOK'
<1> SUFFICES ASSUME TypeInv, [Next]_vars PROVE CloudOK'
  OBVIOUS
<1>0. /\ CloudOK /\ w.fip \in FIPs /\ ChosenFIP \in FIPs /\ 0 \in FIPs
      /\ nfips < MaxFIPs => nfips + 1 \in 1..MaxFIPs /\ nfips + 1 \in FIPs \ {0}
      /\ ngroups + 1 \in Nat
  BY ClusterTypes, ClusterAssumption DEF TypeInv, CloudOK, ObjectsOK, Cluster, ChosenFIP, FIPs
<1>1. CASE \/ AddFinalizer \/ SetProvisioned \/ ReconcileBastionServer \/ GetBastionInstance
           \/ DeleteBastionServer \/ WaitForMachines \/ WaitForBastion \/ Start \/ PatchMeta
           \/ PatchStatus \/ Crash \/ ClusterEvent \/ ServerEvent \/ Resync \/ DeleteCluster
           \/ EditBastion \/ MachinesGone \/ ServerReconciles \/ InstanceVanishes \/ Move
           \/ UNCHANGED vars
  <2>1. UNCHANGED <<neutron, groups, ngroups, lb, fips, nfips, bound>>
    BY <1>1, Zenon DEF AddFinalizer, SetProvisioned, ReconcileBastionServer,
       GetBastionInstance, DeleteBastionServer, WaitForMachines, WaitForBastion, Start,
       PatchMeta, PatchStatus, Crash, ClusterEvent, ServerEvent, Resync, DeleteCluster,
       EditBastion, MachinesGone, ServerReconciles, InstanceVanishes, Move, vars, cloud,
       infra, bastion
  <2> QED BY <1>0, <2>1 DEF CloudOK
<1>2. CASE \/ ReconcileNetwork \/ ReconcileSubnet \/ ReconcileRouter \/ AddRouterInterface
           \/ RemoveRouterInterface \/ DeleteRouter \/ DeleteClusterPorts \/ DeleteNetwork
           \/ ServerRemoved
  <2>1. /\ UNCHANGED <<groups, ngroups, lb, fips, nfips>> /\ bound' \in {bound, 0}
        /\ \/ neutron' \subseteq neutron
           \/ \E x \in {"network", "subnet", "router", "interface", "port"} :
                neutron' = neutron \cup {x}
    BY <1>2 DEF ReconcileNetwork, ReconcileSubnet, ReconcileRouter, AddRouterInterface,
       RemoveRouterInterface, DeleteRouter, DeleteClusterPorts, DeleteNetwork, ServerRemoved,
       Ensure, Remove, infra, bastion
  <2> QED BY <1>0, <2>1 DEF CloudOK
<1>3. CASE DeleteBastionGroup \/ ReconcileSecurityGroups \/ DeleteSecurityGroups
  <2>1. /\ UNCHANGED <<neutron, lb, fips, nfips, bound>> /\ ngroups' \in {ngroups, ngroups + 1}
        /\ groups' \subseteq groups \/ \E g \in WantedGroups : groups' = groups \cup {g}
    BY <1>3 DEF DeleteBastionGroup, ReconcileSecurityGroups, DeleteSecurityGroups,
       GroupCreated, bastion
  <2> QED BY <1>0, <2>1 DEF CloudOK, WantedGroups
<1>4. CASE ReconcileControlPlaneEndpoint \/ DeleteLoadBalancer \/ LoadBalancerGone
  <2>1. /\ UNCHANGED <<neutron, groups, ngroups, fips, nfips, bound>>
        /\ lb' \in {lb, "active", "deleting", "absent"}
    BY <1>4 DEF ReconcileControlPlaneEndpoint, DeleteLoadBalancer, LoadBalancerGone, bastion
  <2> QED BY <1>0, <2>1 DEF CloudOK
<1>5. CASE \/ GetOrCreateFloatingIP \/ AssociateFloatingIP \/ DeleteStatusFloatingIP
           \/ DeleteInstanceFloatingIPs
  <2>1. UNCHANGED <<neutron, groups, ngroups, lb>> /\ bound' \in {bound, 0, w.fip}
    BY <1>5, Zenon DEF GetOrCreateFloatingIP, AssociateFloatingIP, DeleteStatusFloatingIP,
       DeleteInstanceFloatingIPs, DeleteOwnedIP, FloatingIPDeleted, infra
  <2>2. \/ fips' \subseteq fips /\ nfips' = nfips
        \/ fips' = fips \cup {ChosenFIP} /\ nfips' = nfips /\ ChosenFIP # 0
        \/ nfips < MaxFIPs /\ nfips' = nfips + 1 /\ fips' = fips \cup {nfips + 1}
    BY <1>5 DEF GetOrCreateFloatingIP, AssociateFloatingIP, DeleteStatusFloatingIP,
       DeleteInstanceFloatingIPs, DeleteOwnedIP, FloatingIPDeleted, Given
  <2> QED BY <1>0, <2>1, <2>2 DEF CloudOK
<1> QED BY <1>1, <1>2, <1>3, <1>4, <1>5 DEF Next, Worker, Normal, Bastion, Delete

\* Every step keeps the types of the control state and the counters.
LEMMA ControlNext == TypeInv /\ [Next]_vars => ControlOK'
<1> SUFFICES ASSUME TypeInv, [Next]_vars PROVE ControlOK'
  OBVIOUS
<1>1. /\ faults' = faults \/ (faults < MaxFaults /\ faults' = faults + 1)
      /\ edits' = edits \/ (edits < MaxEdits /\ edits' = edits + 1)
      /\ moves' = moves \/ (moves < MaxMoves /\ moves' = moves + 1)
  <2>1. faults' = faults \/ (faults < MaxFaults /\ faults' = faults + 1)
    BY Zenon DEF Next, Worker, Normal, Bastion, Delete, vars, At, Start, PatchMeta, PatchStatus,
       Crash, AddFinalizer, ReconcileNetwork, ReconcileSubnet, ReconcileRouter,
       AddRouterInterface, DeleteBastionGroup, ReconcileSecurityGroups,
       ReconcileControlPlaneEndpoint, SetProvisioned, ReconcileBastionServer,
       GetBastionInstance, GetOrCreateFloatingIP, AssociateFloatingIP,
       DeleteStatusFloatingIP, DeleteInstanceFloatingIPs, DeleteBastionServer,
       WaitForMachines, WaitForBastion, DeleteLoadBalancer, RemoveRouterInterface,
       DeleteRouter, DeleteClusterPorts, DeleteNetwork, DeleteSecurityGroups,
       ClusterEvent, ServerEvent, Resync, DeleteCluster, EditBastion, MachinesGone,
       LoadBalancerGone, ServerReconciles, InstanceVanishes, ServerRemoved, Move,
       controller, reconcile, counters, Works, Fails, Ensure, Remove, DeleteOwnedIP
  <2>2. edits' = edits \/ (edits < MaxEdits /\ edits' = edits + 1)
    BY Zenon DEF Next, Worker, Normal, Bastion, Delete, vars, At, Start, PatchMeta, PatchStatus,
       Crash, AddFinalizer, ReconcileNetwork, ReconcileSubnet, ReconcileRouter,
       AddRouterInterface, DeleteBastionGroup, ReconcileSecurityGroups,
       ReconcileControlPlaneEndpoint, SetProvisioned, ReconcileBastionServer,
       GetBastionInstance, GetOrCreateFloatingIP, AssociateFloatingIP,
       DeleteStatusFloatingIP, DeleteInstanceFloatingIPs, DeleteBastionServer,
       WaitForMachines, WaitForBastion, DeleteLoadBalancer, RemoveRouterInterface,
       DeleteRouter, DeleteClusterPorts, DeleteNetwork, DeleteSecurityGroups,
       ClusterEvent, ServerEvent, Resync, DeleteCluster, EditBastion, MachinesGone,
       LoadBalancerGone, ServerReconciles, InstanceVanishes, ServerRemoved, Move,
       counters
  <2>3. moves' = moves \/ (moves < MaxMoves /\ moves' = moves + 1)
    BY Zenon DEF Next, Worker, Normal, Bastion, Delete, vars, At, Start, PatchMeta, PatchStatus,
       Crash, AddFinalizer, ReconcileNetwork, ReconcileSubnet, ReconcileRouter,
       AddRouterInterface, DeleteBastionGroup, ReconcileSecurityGroups,
       ReconcileControlPlaneEndpoint, SetProvisioned, ReconcileBastionServer,
       GetBastionInstance, GetOrCreateFloatingIP, AssociateFloatingIP,
       DeleteStatusFloatingIP, DeleteInstanceFloatingIPs, DeleteBastionServer,
       WaitForMachines, WaitForBastion, DeleteLoadBalancer, RemoveRouterInterface,
       DeleteRouter, DeleteClusterPorts, DeleteNetwork, DeleteSecurityGroups,
       ClusterEvent, ServerEvent, Resync, DeleteCluster, EditBastion, MachinesGone,
       LoadBalancerGone, ServerReconciles, InstanceVanishes, ServerRemoved, Move,
       lifecycle, Life!Protect, Life!Launch, Life!Report, Life!Vanish, Life!Remove
  <2> QED BY <2>1, <2>2, <2>3
<1>2. /\ faults' \in 0..MaxFaults /\ edits' \in 0..MaxEdits /\ moves' \in 0..MaxMoves
  BY <1>1, ClusterAssumption DEF TypeInv, ControlOK
<1>3. result' \in {result, "done", "requeue", "error"}
  BY Zenon DEF Next, Worker, Normal, Bastion, Delete, vars, At, Start, PatchMeta, PatchStatus,
     Crash, AddFinalizer, ReconcileNetwork, ReconcileSubnet, ReconcileRouter,
     AddRouterInterface, DeleteBastionGroup, ReconcileSecurityGroups,
     ReconcileControlPlaneEndpoint, SetProvisioned, ReconcileBastionServer,
     GetBastionInstance, GetOrCreateFloatingIP, AssociateFloatingIP,
     DeleteStatusFloatingIP, DeleteInstanceFloatingIPs, DeleteBastionServer,
     WaitForMachines, WaitForBastion, DeleteLoadBalancer, RemoveRouterInterface,
     DeleteRouter, DeleteClusterPorts, DeleteNetwork, DeleteSecurityGroups,
     ClusterEvent, ServerEvent, Resync, DeleteCluster, EditBastion, MachinesGone,
     LoadBalancerGone, ServerReconciles, InstanceVanishes, ServerRemoved, Move,
     controller, reconcile, Finish, Stop, Goto, Return, Ensure, Remove, DeleteOwnedIP
<1>4. pc' \in Steps
  BY Zenon DEF Next, Worker, Normal, Bastion, Delete, vars, At, Start, PatchMeta, PatchStatus,
     Crash, AddFinalizer, ReconcileNetwork, ReconcileSubnet, ReconcileRouter,
     AddRouterInterface, DeleteBastionGroup, ReconcileSecurityGroups,
     ReconcileControlPlaneEndpoint, SetProvisioned, ReconcileBastionServer,
     GetBastionInstance, GetOrCreateFloatingIP, AssociateFloatingIP,
     DeleteStatusFloatingIP, DeleteInstanceFloatingIPs, DeleteBastionServer,
     WaitForMachines, WaitForBastion, DeleteLoadBalancer, RemoveRouterInterface,
     DeleteRouter, DeleteClusterPorts, DeleteNetwork, DeleteSecurityGroups,
     ClusterEvent, ServerEvent, Resync, DeleteCluster, EditBastion, MachinesGone,
     LoadBalancerGone, ServerReconciles, InstanceVanishes, ServerRemoved, Move,
     controller, reconcile, Finish, Stop, Goto, Return, Ensure, Remove, DeleteOwnedIP,
     Steps, TypeInv, ControlOK
<1> QED BY <1>2, <1>3, <1>4 DEF TypeInv, ControlOK

\* Every step leaves the flags Boolean.
LEMMA FlagsNext == FlagsOK /\ [Next]_vars => FlagsOK'
<1> SUFFICES ASSUME FlagsOK, [Next]_vars PROVE FlagsOK'
  OBVIOUS
<1>1. machines' \in {machines, FALSE}
  BY Zenon DEF Next, Worker, Normal, Bastion, Delete, vars, At, Start, PatchMeta, PatchStatus,
     Crash, AddFinalizer, ReconcileNetwork, ReconcileSubnet, ReconcileRouter,
     AddRouterInterface, DeleteBastionGroup, ReconcileSecurityGroups,
     ReconcileControlPlaneEndpoint, SetProvisioned, ReconcileBastionServer,
     GetBastionInstance, GetOrCreateFloatingIP, AssociateFloatingIP,
     DeleteStatusFloatingIP, DeleteInstanceFloatingIPs, DeleteBastionServer,
     WaitForMachines, WaitForBastion, DeleteLoadBalancer, RemoveRouterInterface,
     DeleteRouter, DeleteClusterPorts, DeleteNetwork, DeleteSecurityGroups,
     ClusterEvent, ServerEvent, Resync, DeleteCluster, EditBastion, MachinesGone,
     LoadBalancerGone, ServerReconciles, InstanceVanishes, ServerRemoved, Move
<1>2. queued' \in {queued, TRUE, FALSE}
  BY Zenon DEF Next, Worker, Normal, Bastion, Delete, vars, At, Start, PatchMeta, PatchStatus,
     Crash, AddFinalizer, ReconcileNetwork, ReconcileSubnet, ReconcileRouter,
     AddRouterInterface, DeleteBastionGroup, ReconcileSecurityGroups,
     ReconcileControlPlaneEndpoint, SetProvisioned, ReconcileBastionServer,
     GetBastionInstance, GetOrCreateFloatingIP, AssociateFloatingIP,
     DeleteStatusFloatingIP, DeleteInstanceFloatingIPs, DeleteBastionServer,
     WaitForMachines, WaitForBastion, DeleteLoadBalancer, RemoveRouterInterface,
     DeleteRouter, DeleteClusterPorts, DeleteNetwork, DeleteSecurityGroups,
     ClusterEvent, ServerEvent, Resync, DeleteCluster, EditBastion, MachinesGone,
     LoadBalancerGone, ServerReconciles, InstanceVanishes, ServerRemoved, Move,
     controller, Finish
<1>3. brought' \in {brought, TRUE, FALSE}
  BY Zenon DEF Next, Worker, Normal, Bastion, Delete, vars, At, Start, PatchMeta, PatchStatus,
     Crash, AddFinalizer, ReconcileNetwork, ReconcileSubnet, ReconcileRouter,
     AddRouterInterface, DeleteBastionGroup, ReconcileSecurityGroups,
     ReconcileControlPlaneEndpoint, SetProvisioned, ReconcileBastionServer,
     GetBastionInstance, GetOrCreateFloatingIP, AssociateFloatingIP,
     DeleteStatusFloatingIP, DeleteInstanceFloatingIPs, DeleteBastionServer,
     WaitForMachines, WaitForBastion, DeleteLoadBalancer, RemoveRouterInterface,
     DeleteRouter, DeleteClusterPorts, DeleteNetwork, DeleteSecurityGroups,
     ClusterEvent, ServerEvent, Resync, DeleteCluster, EditBastion, MachinesGone,
     LoadBalancerGone, ServerReconciles, InstanceVanishes, ServerRemoved, Move
<1> QED BY <1>1, <1>2, <1>3 DEF FlagsOK

\* Every step keeps the types.
LEMMA TypeNext == TypeInv /\ [Next]_vars => TypeInv'
BY ObjectsNext, ServersNext, CloudNext, ControlNext DEF TypeInv

\* The variables of the cluster controller stay in their types.
THEOREM TypeCorrect == Spec => []TypeOK
<1>1. TypeInv /\ FlagsOK => TypeOK
  BY DEF TypeInv, TypeOK
<1> QED BY <1>1, TypeInit, TypeNext, FlagsNext, PTL DEF Spec

-----------------------------------------------------------------------------
(* The finalizer guards what is built *)

\* A cluster that still exists after a step existed before it, and has lost neither its
\* finalizer nor its deletion timestamp.
LEMMA ClusterStep ==
  ASSUME TypeInv, Persisted(base), ReadOK, [Next]_vars
  PROVE  cluster'.exists => /\ cluster.exists
                            /\ cluster.finalizer => cluster'.finalizer
                            /\ cluster.deleting => cluster'.deleting
<1>0. cluster \in Cluster /\ base \in Cluster /\ w \in Cluster
  BY DEF TypeInv, ObjectsOK
<1>1. CASE PatchMeta
  <2>1. cluster' = cluster \/ (cluster.exists /\ cluster' = PatchedMeta(cluster))
    BY <1>1 DEF PatchMeta
  <2>2. CASE cluster.exists /\ cluster' = PatchedMeta(cluster)
    <3>1. cluster'.finalizer = Pick(cluster.finalizer, base.finalizer, w.finalizer)
      BY <1>0, <2>2 DEF PatchedMeta, Cluster
    <3>2. /\ cluster'.deleting = cluster.deleting
          /\ cluster'.exists = ~(cluster.deleting /\ base.finalizer /\ ~w.finalizer)
      BY <1>0, <2>2 DEF PatchedMeta, Cluster
    <3>3. base.finalizer /\ ~w.finalizer => cluster.deleting
      BY <2>2 DEF ReadOK, Persisted
    <3>4. cluster.finalizer /\ ~cluster'.finalizer => base.finalizer /\ ~w.finalizer
      BY <1>0, <3>1 DEF Pick, Cluster
    <3> QED BY <2>2, <3>2, <3>3, <3>4
  <2> QED BY <2>1, <2>2
<1>2. CASE PatchStatus \/ DeleteCluster \/ EditBastion \/ Move
  <2>1. \/ cluster' = cluster \/ cluster' = PatchedStatus(cluster)
        \/ cluster' = [cluster EXCEPT !.deleting = TRUE]
        \/ cluster' = [cluster EXCEPT !.exists = FALSE]
        \/ cluster' = [cluster EXCEPT !.enabled = ~@]
        \/ cluster' = [cluster EXCEPT !.flavor = 1 - @]
        \/ \E ip \in {0, UserFIP} : cluster' = [cluster EXCEPT !.specFIP = ip]
        \/ cluster' = [cluster EXCEPT !.net = "none", !.router = FALSE, !.group = 0,
                        !.provisioned = FALSE, !.bastion = FALSE, !.fip = 0]
    BY <1>2 DEF PatchStatus, DeleteCluster, EditBastion, Move
  <2>2. CASE cluster' = PatchedStatus(cluster)
    BY <1>0, <2>2 DEF PatchedStatus, Cluster
  <2>3. CASE cluster' = [cluster EXCEPT !.net = "none", !.router = FALSE, !.group = 0,
                           !.provisioned = FALSE, !.bastion = FALSE, !.fip = 0]
    BY <1>0, <2>3 DEF Cluster
  <2>4. CASE \/ cluster' = [cluster EXCEPT !.enabled = ~@]
             \/ cluster' = [cluster EXCEPT !.flavor = 1 - @]
             \/ \E ip \in {0, UserFIP} : cluster' = [cluster EXCEPT !.specFIP = ip]
    BY <1>0, <2>4 DEF Cluster
  <2>5. CASE \/ cluster' = [cluster EXCEPT !.deleting = TRUE]
             \/ cluster' = [cluster EXCEPT !.exists = FALSE]
    BY <1>0, <2>5 DEF Cluster
  <2> QED BY <2>1, <2>2, <2>3, <2>4, <2>5
<1> QED BY <1>1, <1>2, ClusterWriters

\* Nothing appears but under a step that creates.
LEMMA CreatedWhere ==
  ASSUME TypeInv, [Next]_vars, ~Resources, Resources'
  PROVE  pc \in CreatingSteps /\ cluster' = cluster
<1>0. neutron = {} /\ groups = {} /\ lb = "absent" /\ ~server.exists
  BY DEF Resources
<1>1. CASE \/ ReconcileNetwork \/ ReconcileSubnet \/ ReconcileRouter \/ AddRouterInterface
           \/ ReconcileSecurityGroups \/ ReconcileControlPlaneEndpoint
           \/ ReconcileBastionServer
  BY <1>1 DEF ReconcileNetwork, ReconcileSubnet, ReconcileRouter, AddRouterInterface,
     ReconcileSecurityGroups, ReconcileControlPlaneEndpoint, ReconcileBastionServer, At,
     CreatingSteps
<1>2. CASE \/ Start \/ AddFinalizer \/ SetProvisioned \/ GetBastionInstance
           \/ GetOrCreateFloatingIP \/ AssociateFloatingIP \/ DeleteStatusFloatingIP
           \/ DeleteInstanceFloatingIPs \/ WaitForMachines \/ WaitForBastion \/ PatchMeta
           \/ PatchStatus \/ Crash \/ ClusterEvent \/ ServerEvent \/ Resync \/ DeleteCluster
           \/ EditBastion \/ MachinesGone \/ UNCHANGED vars
  <2>1. UNCHANGED <<neutron, groups, lb, server>>
    BY <1>2, Zenon DEF Start, AddFinalizer, SetProvisioned, GetBastionInstance,
       GetOrCreateFloatingIP, AssociateFloatingIP, DeleteStatusFloatingIP,
       DeleteInstanceFloatingIPs, WaitForMachines, WaitForBastion, PatchMeta, PatchStatus,
       Crash, ClusterEvent, ServerEvent, Resync, DeleteCluster, EditBastion, MachinesGone,
       vars, cloud, infra, bastion, lifecycle
  <2> QED BY <1>0, <2>1 DEF Resources
<1>3. CASE DeleteBastionGroup \/ DeleteSecurityGroups
  <2>1. UNCHANGED <<neutron, lb, server>> /\ groups' \subseteq groups
    BY <1>3 DEF DeleteBastionGroup, DeleteSecurityGroups, bastion
  <2> QED BY <1>0, <2>1 DEF Resources
<1>4. CASE \/ RemoveRouterInterface \/ DeleteRouter \/ DeleteClusterPorts \/ DeleteNetwork
           \/ DeleteLoadBalancer \/ LoadBalancerGone
  <2>1. UNCHANGED <<groups, server>> /\ neutron' \subseteq neutron /\ lb' \in {lb, "absent"}
    BY <1>0, <1>4 DEF RemoveRouterInterface, DeleteRouter, DeleteClusterPorts, DeleteNetwork,
       DeleteLoadBalancer, LoadBalancerGone, Remove, infra, bastion, controller, reconcile,
       lifecycle
  <2> QED BY <1>0, <2>1 DEF Resources
<1>5. CASE DeleteBastionServer
  <2>1. UNCHANGED <<neutron, groups, lb, server>>
    BY <1>0, <1>5 DEF DeleteBastionServer, infra
  <2> QED BY <1>0, <2>1 DEF Resources
<1>6. CASE ServerReconciles \/ InstanceVanishes \/ ServerRemoved \/ Move
  <2>1. UNCHANGED <<neutron, groups, lb, server>>
    BY <1>0, <1>6 DEF ServerReconciles, InstanceVanishes, ServerRemoved, Move, cloud,
       Life!Protect, Life!Launch, Life!Report, Life!Vanish, Life!Remove, Life!Moved
  <2> QED BY <1>0, <2>1 DEF Resources
<1> QED BY <1>1, <1>2, <1>3, <1>4, <1>5, <1>6 DEF Next, Worker, Normal, Bastion, Delete

\* The reconcile goes on knowing what it has read.
LEMMA ReadNext == TypeInv /\ ReadOK /\ [Next]_vars => ReadOK'
<1> SUFFICES ASSUME TypeInv, ReadOK, [Next]_vars PROVE ReadOK'
  OBVIOUS
<1> USE DEF CreatingSteps, DeleteSteps, TeardownSteps, RouterSteps
<1>0. w \in Cluster
  BY DEF TypeInv, ObjectsOK
<1>1. CASE Start
  BY <1>1 DEF Start, Return, ReadOK
<1>2. CASE AddFinalizer
  <2>1. w = base /\ ~base.deleting /\ base' = base /\ w' = [w EXCEPT !.finalizer = TRUE]
    BY <1>2 DEF AddFinalizer, At, ReadOK
  <2>2. (pc' = "network" /\ w.finalizer) \/ pc' = "patchMeta"
    BY <1>2 DEF AddFinalizer, Goto, Return
  <2> QED BY <1>0, <2>1, <2>2 DEF ReadOK, Cluster
<1>3. CASE Normal /\ ~AddFinalizer
  <2>1. base' = base /\ base.finalizer /\ w.finalizer /\ ~base.deleting
    BY <1>3 DEF Normal, ReconcileNetwork, ReconcileSubnet, ReconcileRouter,
       AddRouterInterface, DeleteBastionGroup, ReconcileSecurityGroups,
       ReconcileControlPlaneEndpoint, SetProvisioned, At, ReadOK
  <2>2. pc' \in CreatingSteps \cup {"patchMeta"}
    BY <1>3, Zenon DEF Normal, ReconcileNetwork, ReconcileSubnet, ReconcileRouter,
       AddRouterInterface, DeleteBastionGroup, ReconcileSecurityGroups,
       ReconcileControlPlaneEndpoint, SetProvisioned, Ensure, Goto, Return
  <2>3. w'.finalizer = w.finalizer
    BY <1>0, <1>3 DEF Normal, ReconcileNetwork, ReconcileSubnet, ReconcileRouter,
       AddRouterInterface, DeleteBastionGroup, ReconcileSecurityGroups,
       ReconcileControlPlaneEndpoint, SetProvisioned, Ensure, Cluster
  <2> QED BY <2>1, <2>2, <2>3 DEF ReadOK
<1>4. CASE Bastion
  <2>1. /\ base' = base
        /\ pc \in CreatingSteps => base.finalizer /\ w.finalizer /\ ~base.deleting
    BY <1>4, Zenon DEF Bastion, ReconcileBastionServer, GetBastionInstance,
       GetOrCreateFloatingIP, AssociateFloatingIP, DeleteStatusFloatingIP,
       DeleteInstanceFloatingIPs, DeleteBastionServer, At, ReadOK
  <2>2. \/ pc \in CreatingSteps /\ pc' \in CreatingSteps
        \/ pc' \in BastionSteps \cup {"patchMeta"}
        \/ pc' = "dBastion" /\ base.deleting
    BY <1>4, Zenon DEF Bastion, ReconcileBastionServer, GetBastionInstance,
       GetOrCreateFloatingIP, AssociateFloatingIP, DeleteStatusFloatingIP,
       DeleteInstanceFloatingIPs, DeleteBastionServer, DeleteOwnedIP, At, Goto, Return,
       BastionSteps
  <2>3. w'.finalizer = w.finalizer
    BY <1>0, <1>4 DEF Bastion, ReconcileBastionServer, GetBastionInstance,
       GetOrCreateFloatingIP, AssociateFloatingIP, DeleteStatusFloatingIP,
       DeleteInstanceFloatingIPs, DeleteBastionServer, Cluster
  <2> QED BY <2>1, <2>2, <2>3 DEF ReadOK, BastionSteps
<1>5. CASE Delete
  <2>1. base' = base /\ base.deleting
    BY <1>5 DEF Delete, WaitForMachines, WaitForBastion, DeleteLoadBalancer,
       RemoveRouterInterface, DeleteRouter, DeleteClusterPorts, DeleteNetwork,
       DeleteSecurityGroups, At, ReadOK
  <2>2. pc' \in DeleteSteps \cup {"patchMeta", "bFloatingIP"}
    BY <1>5 DEF Delete, WaitForMachines, WaitForBastion, DeleteLoadBalancer,
       RemoveRouterInterface, DeleteRouter, DeleteClusterPorts, DeleteNetwork,
       DeleteSecurityGroups, Remove, Goto, Return
  <2> QED BY <2>1, <2>2 DEF ReadOK
<1>6. CASE PatchMeta \/ PatchStatus \/ Crash
  BY <1>6 DEF PatchMeta, PatchStatus, Crash, Finish, Stop, NewCluster, ReadOK
<1>7. CASE \/ ClusterEvent \/ ServerEvent \/ Resync \/ DeleteCluster \/ EditBastion
           \/ MachinesGone \/ LoadBalancerGone \/ ServerReconciles \/ InstanceVanishes
           \/ ServerRemoved \/ Move \/ UNCHANGED vars
  <2>1. UNCHANGED <<pc, base, w>>
    BY <1>7, Zenon DEF ClusterEvent, ServerEvent, Resync, DeleteCluster, EditBastion,
       MachinesGone, LoadBalancerGone, ServerReconciles, InstanceVanishes, ServerRemoved,
       Move, vars, controller, reconcile
  <2> QED BY <2>1 DEF ReadOK
<1> QED BY <1>1, <1>2, <1>3, <1>4, <1>5, <1>6, <1>7 DEF Next, Worker

\* The initial state satisfies the invariant.
LEMMA GuardInit == Init => GuardInv
BY DEF Init, GuardInv, FinalizerGuardsInfra, Resources, Persisted, ReadOK, NewCluster,
   Life!NoServer, CreatingSteps, DeleteSteps, TeardownSteps, RouterSteps

\* Every step keeps it.
LEMMA GuardNext == TypeInv /\ GuardInv /\ [Next]_vars => GuardInv'
<1> SUFFICES ASSUME TypeInv, GuardInv, [Next]_vars PROVE GuardInv'
  OBVIOUS
<1>1. cluster'.exists => /\ cluster.exists
                         /\ cluster.finalizer => cluster'.finalizer
                         /\ cluster.deleting => cluster'.deleting
  BY ClusterStep DEF GuardInv
<1>2. Persisted(ccache)' /\ Persisted(base)'
  BY <1>1, CopiesStep DEF GuardInv, Persisted, NewCluster
<1>3. FinalizerGuardsInfra'
  <2>1. CASE Resources
    BY <1>1, <2>1 DEF GuardInv, FinalizerGuardsInfra
  <2>2. CASE ~Resources /\ Resources'
    <3>1. pc \in CreatingSteps /\ cluster' = cluster
      BY <2>2, CreatedWhere
    <3>2. cluster.exists => cluster.finalizer
      BY <3>1 DEF GuardInv, ReadOK, Persisted
    <3> QED BY <3>1, <3>2 DEF FinalizerGuardsInfra
  <2> QED BY <2>1, <2>2 DEF FinalizerGuardsInfra
<1> QED BY <1>2, <1>3, ReadNext DEF GuardInv

\* Whatever lags, fails, crashes or moves, a network, router, security group, load
\* balancer or bastion exists only under a cluster that durably holds its finalizer.
THEOREM FinalizerGuards == Spec => []FinalizerGuardsInfra
<1>1. GuardInv => FinalizerGuardsInfra
  BY DEF GuardInv
<1> QED BY <1>1, TypeInit, TypeNext, GuardInit, GuardNext, PTL DEF Spec

-----------------------------------------------------------------------------
(* The order of the teardown *)

\* The ports of the bastion stay protected.
LEMMA PortsNext == TypeInv /\ PortsProtected /\ [Next]_vars => PortsProtected'
<1> SUFFICES ASSUME TypeInv, PortsProtected, [Next]_vars PROVE PortsProtected'
  OBVIOUS
<1>0. server \in Life!Server
  BY DEF TypeInv, ServersOK
<1>1. CASE ReconcileBastionServer
  <2>1. /\ UNCHANGED <<live, bound>>
        /\ server' = server \/ (~server.exists /\ server' = Life!NewServer)
    BY <1>1 DEF ReconcileBastionServer, At
  <2> QED BY <2>1 DEF PortsProtected
<1>2. CASE DeleteBastionServer
  <2>1. UNCHANGED <<live, bound>> /\ server' \in {server, Life!Deleted}
    BY <1>2 DEF DeleteBastionServer, At
  <2> QED BY <1>0, <2>1 DEF PortsProtected, Life!Deleted, Life!Server
<1>3. CASE AssociateFloatingIP \/ DeleteStatusFloatingIP \/ DeleteInstanceFloatingIPs
  <2>1. UNCHANGED <<live, server>> /\ (bound' \in {bound, 0} \/ PortsMayExist)
    BY <1>3, Zenon DEF AssociateFloatingIP, DeleteStatusFloatingIP,
       DeleteInstanceFloatingIPs, DeleteOwnedIP, FloatingIPDeleted, At
  <2> QED BY <2>1 DEF PortsProtected, PortsMayExist
<1>4. CASE ServerReconciles \/ InstanceVanishes \/ ServerRemoved
  <2>1. /\ \/ server' = server /\ live' \subseteq live
           \/ Life!Launch
           \/ server' = [server EXCEPT !.finalizer = TRUE] /\ live' = live
           \/ live' = {} /\ bound' = 0
           \/ \E id \in live :
                /\ server' = [server EXCEPT !.id = id, !.state = "ACTIVE",
                                            !.ready = "ACTIVE" = "ACTIVE"]
                /\ live' = live
        /\ bound' \in {bound, 0}
    BY <1>4 DEF ServerReconciles, InstanceVanishes, ServerRemoved, cloud, Life!Protect,
       Life!Report, Life!Vanish, Life!Remove
  <2> QED BY <1>0, <2>1 DEF PortsProtected, Life!Launch, Life!Server
<1>5. CASE Move
  <2>1. UNCHANGED <<live, bound>> /\ server' = Life!Moved
    BY <1>5 DEF Move, cloud
  <2> QED BY <1>0, <2>1, NewServerType DEF PortsProtected, Life!Moved, Life!NewServer,
             Life!NoServer, Life!Server
<1>6. CASE ~(\/ ReconcileBastionServer \/ DeleteBastionServer \/ AssociateFloatingIP
             \/ DeleteStatusFloatingIP \/ DeleteInstanceFloatingIPs \/ ServerReconciles
             \/ InstanceVanishes \/ ServerRemoved \/ Move)
  <2>1. UNCHANGED <<live, bound, server>>
    BY <1>6, Zenon DEF Next, Worker, Normal, Bastion, Delete, vars, At, Start, PatchMeta, PatchStatus,
       Crash, AddFinalizer, ReconcileNetwork, ReconcileSubnet, ReconcileRouter,
       AddRouterInterface, DeleteBastionGroup, ReconcileSecurityGroups,
       ReconcileControlPlaneEndpoint, SetProvisioned, GetBastionInstance,
       GetOrCreateFloatingIP, WaitForMachines, WaitForBastion, DeleteLoadBalancer,
       RemoveRouterInterface, DeleteRouter, DeleteClusterPorts, DeleteNetwork,
       DeleteSecurityGroups, ClusterEvent, ServerEvent, Resync, DeleteCluster,
       EditBastion, MachinesGone, LoadBalancerGone, Ensure, Remove, bastion, lifecycle,
       cloud
  <2> QED BY <2>1 DEF PortsProtected
<1> QED BY <1>1, <1>2, <1>3, <1>4, <1>5, <1>6

\* Subnets and ports stay within an existing network.
LEMMA NetworkNext == TypeInv /\ NetworkFirst /\ [Next]_vars => NetworkFirst'
<1> SUFFICES ASSUME TypeInv, NetworkFirst, [Next]_vars PROVE NetworkFirst'
  OBVIOUS
<1>0. network \in {"managed", "existing"} /\ network' = network
  BY ClusterAssumption, CopiesStep DEF TypeInv, ObjectsOK
<1>1. LoadBalanced \/ lb' = "absent"
  <2>1. CASE ReconcileControlPlaneEndpoint \/ DeleteLoadBalancer \/ LoadBalancerGone
    BY <2>1 DEF ReconcileControlPlaneEndpoint, DeleteLoadBalancer, LoadBalancerGone,
       NetworkFirst
  <2>2. CASE ~(ReconcileControlPlaneEndpoint \/ DeleteLoadBalancer \/ LoadBalancerGone)
    <3>1. lb' = lb
      BY <2>2, Zenon DEF Next, Worker, Normal, Bastion, Delete, vars, At, Start, PatchMeta, PatchStatus,
         Crash, AddFinalizer, ReconcileNetwork, ReconcileSubnet, ReconcileRouter,
         AddRouterInterface, DeleteBastionGroup, ReconcileSecurityGroups,
         SetProvisioned, ReconcileBastionServer, GetBastionInstance,
         GetOrCreateFloatingIP, AssociateFloatingIP, DeleteStatusFloatingIP,
         DeleteInstanceFloatingIPs, DeleteBastionServer, WaitForMachines,
         WaitForBastion, RemoveRouterInterface, DeleteRouter, DeleteClusterPorts,
         DeleteNetwork, DeleteSecurityGroups, ClusterEvent, ServerEvent, Resync,
         DeleteCluster, EditBastion, MachinesGone, ServerReconciles, InstanceVanishes,
         ServerRemoved, Move, Ensure, Remove, infra, cloud
    <3> QED BY <3>1 DEF NetworkFirst
  <2> QED BY <2>1, <2>2
<1>2. CASE ReconcileNetwork \/ ReconcileSubnet \/ ReconcileRouter \/ AddRouterInterface
  <2>1. /\ \/ /\ network = "managed"
              /\ neutron' = neutron \cup {"network"} /\ pc' \in {"subnet", "patchMeta"}
           \/ /\ network = "managed" /\ "network" \in neutron
              /\ neutron' = neutron \cup {"subnet"} /\ pc' \in {"router", "patchMeta"}
           \/ /\ network = "managed"
              /\ \E x \in {"router", "interface"} : neutron' = neutron \cup {x}
              /\ pc' \in {"interface", "bastionGroup", "patchMeta"}
           \/ neutron' = neutron /\ pc' \in {"bastionGroup", "patchMeta"}
    BY <1>0, <1>2 DEF ReconcileNetwork, ReconcileSubnet, ReconcileRouter, AddRouterInterface,
       Ensure, At, Goto, Return, infra, NetworkFirst
  <2> QED BY <1>0, <1>1, <2>1 DEF NetworkFirst
<1>3. CASE RemoveRouterInterface \/ DeleteRouter \/ DeleteClusterPorts \/ DeleteNetwork
  <2>1. /\ pc' \notin {"subnet", "router", "interface"}
        /\ \/ \E x \in {"interface", "router", "port"} : neutron' = neutron \ {x}
           \/ /\ {"interface", "port"} \cap neutron = {}
              /\ neutron' = neutron \ {"network", "subnet"}
           \/ neutron' = neutron
    BY <1>3 DEF RemoveRouterInterface, DeleteRouter, DeleteClusterPorts, DeleteNetwork,
       Remove, InUse, Goto, Return, infra
  <2> QED BY <1>0, <1>1, <2>1 DEF NetworkFirst
<1>4. CASE ServerRemoved
  <2>1. neutron' = neutron \/ ("network" \in neutron /\ neutron' = neutron \cup {"port"})
    BY <1>4 DEF ServerRemoved
  <2>2. pc' = pc
    BY <1>4 DEF ServerRemoved, controller, reconcile
  <2> QED BY <1>0, <1>1, <2>1, <2>2 DEF NetworkFirst
<1>5. CASE ~(\/ ReconcileNetwork \/ ReconcileSubnet \/ ReconcileRouter \/ AddRouterInterface
             \/ RemoveRouterInterface \/ DeleteRouter \/ DeleteClusterPorts \/ DeleteNetwork
             \/ ServerRemoved)
  <2>1. neutron' = neutron
    BY <1>5, Zenon DEF Next, Worker, Normal, Bastion, Delete, vars, At, Start, PatchMeta, PatchStatus,
       Crash, AddFinalizer, DeleteBastionGroup, ReconcileSecurityGroups,
       ReconcileControlPlaneEndpoint, SetProvisioned, ReconcileBastionServer,
       GetBastionInstance, GetOrCreateFloatingIP, AssociateFloatingIP,
       DeleteStatusFloatingIP, DeleteInstanceFloatingIPs, DeleteBastionServer,
       WaitForMachines, WaitForBastion, DeleteLoadBalancer, DeleteSecurityGroups,
       ClusterEvent, ServerEvent, Resync, DeleteCluster, EditBastion, MachinesGone,
       LoadBalancerGone, ServerReconciles, InstanceVanishes, Move, infra, cloud
  <2>2. pc' \in {pc} \cup (Steps \ {"subnet", "router", "interface"})
    BY <1>5, Zenon DEF Next, Worker, Normal, Bastion, Delete, vars, At, Start, PatchMeta, PatchStatus,
       Crash, AddFinalizer, DeleteBastionGroup, ReconcileSecurityGroups,
       ReconcileControlPlaneEndpoint, SetProvisioned, ReconcileBastionServer,
       GetBastionInstance, GetOrCreateFloatingIP, AssociateFloatingIP,
       DeleteStatusFloatingIP, DeleteInstanceFloatingIPs, DeleteBastionServer,
       WaitForMachines, WaitForBastion, DeleteLoadBalancer, DeleteSecurityGroups,
       ClusterEvent, ServerEvent, Resync, DeleteCluster, EditBastion, MachinesGone,
       LoadBalancerGone, ServerReconciles, InstanceVanishes, Move, Goto, Return, Finish,
       Stop, DeleteOwnedIP, Steps, controller, reconcile
  <2> QED BY <1>0, <1>1, <2>1, <2>2 DEF NetworkFirst
<1> QED BY <1>2, <1>3, <1>4, <1>5

\* Machines never come back, and without stale reads a bastion that was waited for
\* stays away: it is created at one step only.
LEMMA GoneStep ==
  ASSUME TypeInv, [Next]_vars
  PROVE  /\ ~machines => ~machines'
         /\ pc # "bastion" /\ ~server.exists => ~server'.exists
<1>1. ~machines => ~machines'
  BY Zenon DEF Next, Worker, Normal, Bastion, Delete, vars, At, Start, PatchMeta, PatchStatus,
     Crash, AddFinalizer, ReconcileNetwork, ReconcileSubnet, ReconcileRouter,
     AddRouterInterface, DeleteBastionGroup, ReconcileSecurityGroups,
     ReconcileControlPlaneEndpoint, SetProvisioned, ReconcileBastionServer,
     GetBastionInstance, GetOrCreateFloatingIP, AssociateFloatingIP,
     DeleteStatusFloatingIP, DeleteInstanceFloatingIPs, DeleteBastionServer,
     WaitForMachines, WaitForBastion, DeleteLoadBalancer, RemoveRouterInterface,
     DeleteRouter, DeleteClusterPorts, DeleteNetwork, DeleteSecurityGroups,
     ClusterEvent, ServerEvent, Resync, DeleteCluster, EditBastion, MachinesGone,
     LoadBalancerGone, ServerReconciles, InstanceVanishes, ServerRemoved, Move
<1>2. ASSUME pc # "bastion", ~server.exists PROVE server' = server
  <2>1. CASE DeleteBastionServer
    BY <1>2, <2>1 DEF DeleteBastionServer
  <2>2. CASE ServerReconciles \/ InstanceVanishes \/ ServerRemoved \/ Move
    BY <1>2, <2>2 DEF ServerReconciles, InstanceVanishes, ServerRemoved, Move, Life!Protect,
       Life!Launch, Life!Report, Life!Vanish, Life!Remove, Life!Moved
  <2>3. CASE ~(DeleteBastionServer \/ ServerReconciles \/ InstanceVanishes \/ ServerRemoved
               \/ Move)
    BY <1>2, <2>3, Zenon DEF Next, Worker, Normal, Bastion, Delete, vars, At, Start, PatchMeta, PatchStatus,
       Crash, AddFinalizer, ReconcileNetwork, ReconcileSubnet, ReconcileRouter,
       AddRouterInterface, DeleteBastionGroup, ReconcileSecurityGroups,
       ReconcileControlPlaneEndpoint, SetProvisioned, ReconcileBastionServer,
       GetBastionInstance, GetOrCreateFloatingIP, AssociateFloatingIP,
       DeleteStatusFloatingIP, DeleteInstanceFloatingIPs, WaitForMachines,
       WaitForBastion, DeleteLoadBalancer, RemoveRouterInterface, DeleteRouter,
       DeleteClusterPorts, DeleteNetwork, DeleteSecurityGroups, ClusterEvent,
       ServerEvent, Resync, DeleteCluster, EditBastion, MachinesGone, LoadBalancerGone,
       Ensure, Remove, bastion, lifecycle
  <2> QED BY <2>1, <2>2, <2>3
<1> QED BY <1>1, <1>2

\* The initial state satisfies the invariant.
LEMMA TeardownInit == Init => TeardownInv
BY DEF Init, TeardownInv, PortsProtected, NetworkFirst, Teardown, DroppedClean, NewCluster,
   Life!NoServer, DeleteSteps, TeardownSteps, RouterSteps, BastionSteps

\* The teardown goes in order, if reads of the bastion's server are fresh.
LEMMA TeardownNext ==
  ASSUME ~StaleServer, TypeInv, ReadOK, TeardownInv, [Next]_vars
  PROVE  Teardown' /\ DroppedClean'
<1> USE DEF CreatingSteps, DeleteSteps, TeardownSteps, RouterSteps, BastionSteps
<1>0. /\ PortsProtected /\ NetworkFirst /\ Teardown /\ DroppedClean
      /\ w \in Cluster /\ network \in {"managed", "existing"}
      /\ neutron \subseteq {"network", "subnet", "router", "interface", "port"}
  BY ClusterAssumption DEF TeardownInv, TypeInv, ObjectsOK, CloudOK
<1>1. CASE Start
  <2>1. \/ pc' = "idle" /\ UNCHANGED <<base, w>>
        \/ pc' \in {"dMachines", "normal", "patchMeta"} /\ w' = base'
    BY <1>1 DEF Start, Return
  <2> QED BY <2>1 DEF Teardown, DroppedClean
<1>2. CASE AddFinalizer
  <2>1. pc' \in {"network", "patchMeta"} /\ w'.finalizer
    BY <1>0, <1>2 DEF AddFinalizer, Goto, Return, Cluster
  <2> QED BY <2>1 DEF Teardown, DroppedClean
<1>3. CASE Normal /\ ~AddFinalizer
  <2>1. base' = base /\ w.finalizer
    BY <1>3 DEF Normal, ReconcileNetwork, ReconcileSubnet, ReconcileRouter,
       AddRouterInterface, DeleteBastionGroup, ReconcileSecurityGroups,
       ReconcileControlPlaneEndpoint, SetProvisioned, At, ReadOK
  <2>2. pc' \in CreatingSteps \cup {"patchMeta"}
    BY <1>3, Zenon DEF Normal, ReconcileNetwork, ReconcileSubnet, ReconcileRouter,
       AddRouterInterface, DeleteBastionGroup, ReconcileSecurityGroups,
       ReconcileControlPlaneEndpoint, SetProvisioned, Ensure, Goto, Return
  <2>3. w'.finalizer = w.finalizer
    BY <1>0, <1>3 DEF Normal, ReconcileNetwork, ReconcileSubnet, ReconcileRouter,
       AddRouterInterface, DeleteBastionGroup, ReconcileSecurityGroups,
       ReconcileControlPlaneEndpoint, SetProvisioned, Ensure, Cluster
  <2> QED BY <2>1, <2>2, <2>3 DEF Teardown, DroppedClean
<1>4. CASE Bastion
  <2>1. /\ UNCHANGED <<base, machines>>
        /\ base.finalizer => w.finalizer
        /\ pc \in CreatingSteps => ~base.deleting
    BY <1>0, <1>4, Zenon DEF Bastion, ReconcileBastionServer, GetBastionInstance,
       GetOrCreateFloatingIP, AssociateFloatingIP, DeleteStatusFloatingIP,
       DeleteInstanceFloatingIPs, DeleteBastionServer, At, ReadOK, DroppedClean
  <2>2. \/ pc' \in CreatingSteps \cup {"patchMeta"}
        \/ pc' = "bFloatingIP" /\ pc \in CreatingSteps
        \/ pc' \in BastionSteps /\ pc \in BastionSteps
        \/ pc' = "dBastion" /\ base.deleting /\ pc \in BastionSteps
    BY <1>4, Zenon DEF Bastion, ReconcileBastionServer, GetBastionInstance,
       GetOrCreateFloatingIP, AssociateFloatingIP, DeleteStatusFloatingIP,
       DeleteInstanceFloatingIPs, DeleteBastionServer, DeleteOwnedIP, At, Goto, Return
  <2>3. w'.finalizer = w.finalizer
    BY <1>0, <1>4 DEF Bastion, ReconcileBastionServer, GetBastionInstance,
       GetOrCreateFloatingIP, AssociateFloatingIP, DeleteStatusFloatingIP,
       DeleteInstanceFloatingIPs, DeleteBastionServer, Cluster
  <2> QED BY <1>0, <2>1, <2>2, <2>3 DEF Teardown, DroppedClean
<1>5. CASE WaitForMachines \/ WaitForBastion \/ DeleteLoadBalancer
  <2>1. UNCHANGED <<base, w, machines, neutron, server>> /\ pc \in DeleteSteps
    BY <1>5 DEF WaitForMachines, WaitForBastion, DeleteLoadBalancer, At, bastion, infra
  <2>2. \/ pc' = "patchMeta"
        \/ pc = "dMachines" /\ ~machines /\ pc' \in {"bFloatingIP", "dBastion"}
        \/ pc = "dBastion" /\ ~server.exists /\ pc' = "dLoadBalancer"
        \/ /\ pc = "dLoadBalancer" /\ lb = "absent" /\ lb' = lb
           /\ \/ pc' = "dInterface"
              \/ pc' = "dGroups" /\ network # "managed"
    <3>1. CASE WaitForMachines
      BY <3>1 DEF WaitForMachines, At, Goto, Return
    <3>2. CASE WaitForBastion
      BY <3>2 DEF WaitForBastion, At, Goto, Return, BastionFound
    <3>3. CASE DeleteLoadBalancer
      BY <1>0, <3>3 DEF DeleteLoadBalancer, At, Goto, Return, NetworkFirst
    <3> QED BY <1>5, <3>1, <3>2, <3>3
  <2> QED BY <1>0, <2>1, <2>2 DEF Teardown, DroppedClean, NetworkFirst
<1>6. CASE RemoveRouterInterface \/ DeleteRouter \/ DeleteClusterPorts \/ DeleteNetwork
  <2>1. UNCHANGED <<base, w, machines, lb, server>> /\ pc \in TeardownSteps
    BY <1>6 DEF RemoveRouterInterface, DeleteRouter, DeleteClusterPorts, DeleteNetwork, Remove,
       At, bastion, infra
  <2>2. \/ pc' = "patchMeta"
        \/ pc = "dInterface" /\ pc' = "dRouter" /\ neutron' = neutron \ {"interface"}
        \/ pc = "dRouter" /\ pc' = "dPorts" /\ neutron' = neutron \ {"router"}
        \/ /\ pc = "dPorts" /\ pc' = "dNetwork"
           /\ neutron' = neutron \ {"port"} \/ (neutron' = neutron /\ w.net = "none")
        \/ /\ pc = "dNetwork" /\ pc' = "dGroups"
           /\ \/ "network" \notin neutron /\ neutron' = neutron
              \/ "port" \notin neutron /\ neutron' = neutron \ {"network", "subnet"}
    BY <1>6 DEF RemoveRouterInterface, DeleteRouter, DeleteClusterPorts, DeleteNetwork, Remove,
       InUse, At, Goto, Return, infra
  <2> QED BY <1>0, <2>1, <2>2 DEF Teardown, DroppedClean, NetworkFirst
<1>7. CASE DeleteSecurityGroups
  <2>1. UNCHANGED <<base, machines, lb, server, neutron>> /\ pc = "dGroups"
    BY <1>7 DEF DeleteSecurityGroups, At, bastion
  <2>2. \/ pc' = "patchMeta" /\ groups' = {}
        \/ pc' \in {"patchMeta", "dGroups"} /\ w' = w
    BY <1>7 DEF DeleteSecurityGroups, Goto, Return
  <2> QED BY <1>0, <2>1, <2>2 DEF Teardown, DroppedClean, Resources
<1>8. CASE PatchMeta \/ PatchStatus \/ Crash
  <2>1. pc' \in {"patchStatus", "idle"}
    BY <1>8 DEF PatchMeta, PatchStatus, Crash, Finish, Stop
  <2> QED BY <2>1 DEF Teardown, DroppedClean
<1>9. CASE \/ ClusterEvent \/ ServerEvent \/ Resync \/ DeleteCluster \/ EditBastion
           \/ MachinesGone \/ LoadBalancerGone \/ ServerReconciles \/ InstanceVanishes
           \/ ServerRemoved \/ Move \/ UNCHANGED vars
  <2>1. UNCHANGED <<pc, base, w>>
    BY <1>9, Zenon DEF ClusterEvent, ServerEvent, Resync, DeleteCluster, EditBastion,
       MachinesGone, LoadBalancerGone, ServerReconciles, InstanceVanishes, ServerRemoved,
       Move, vars, controller, reconcile
  <2>2. (lb' = lb \/ lb' = "absent") /\ (neutron' = neutron \/ server.exists)
    BY <1>9, Zenon DEF ClusterEvent, ServerEvent, Resync, DeleteCluster, EditBastion,
       MachinesGone, LoadBalancerGone, ServerReconciles, InstanceVanishes, ServerRemoved,
       Move, vars, cloud, infra, Life!Remove
  <2>3. Teardown'
    BY <1>0, <2>1, <2>2, GoneStep DEF Teardown
  <2>4. DroppedClean'
    BY <1>0, <2>1, CreatedWhere DEF DroppedClean
  <2> QED BY <2>3, <2>4
<1> QED BY <1>1, <1>2, <1>3, <1>4, <1>5, <1>6, <1>7, <1>8, <1>9 DEF Next, Worker, Delete

\* With fresh reads of the bastion's server, nothing that Neutron still needs is asked
\* for on the delete path, for every kind of cluster and wherever an earlier deletion
\* was interrupted.
THEOREM TeardownOrdered == ASSUME ~StaleServer PROVE Spec => []DeletedInOrder
<1>1. TypeInv /\ TeardownInv => DeletedInOrder
  <2> SUFFICES ASSUME TypeInv, TeardownInv PROVE DeletedInOrder
    OBVIOUS
  <2> USE DEF DeleteSteps, TeardownSteps, RouterSteps
  <2>1. PortsProtected /\ Teardown
    BY DEF TeardownInv
  <2>2. pc = "dInterface" => ~InUse("interface")
    BY <2>1 DEF PortsProtected, Teardown, InUse
  <2>3. pc = "dRouter" => ~InUse("router")
    BY <2>1 DEF Teardown, InUse
  <2>4. pc = "dNetwork" => ~InUse("network") \/ (w.net = "none" /\ "port" \in neutron)
    BY <2>1 DEF PortsProtected, Teardown, InUse, PortsMustExist
  <2>5. pc = "dGroups" => \A g \in groups : GroupFree(g)
    BY <2>1 DEF PortsProtected, Teardown, GroupFree, PortsMustExist
  <2> QED BY <2>2, <2>3, <2>4, <2>5 DEF DeletedInOrder
<1>2. TypeInv /\ ReadOK /\ TeardownInv /\ [Next]_vars => TeardownInv'
  BY TeardownNext, PortsNext, NetworkNext DEF TeardownInv
<1>3. GuardInv => ReadOK
  BY DEF GuardInv
<1> QED BY <1>1, <1>2, <1>3, TypeInit, TypeNext, GuardInit, GuardNext, TeardownInit, PTL DEF Spec

\* With fresh reads of the bastion's server, a cluster goes only when nothing that was
\* built for it by name is left.
THEOREM RemovedClean == ASSUME ~StaleServer PROVE Spec => ClusterRemovedClean
<1>1. TypeInv /\ TeardownInv /\ [Next]_vars =>
        [cluster.exists /\ cluster.finalizer /\ ~cluster'.exists => ~Resources]_vars
  <2> SUFFICES ASSUME TypeInv, TeardownInv, [Next]_vars,
                      cluster.exists, cluster.finalizer, ~cluster'.exists
               PROVE  ~Resources
    OBVIOUS
  <2>0. cluster \in Cluster
    BY DEF TypeInv, ObjectsOK
  <2>1. CASE PatchMeta
    <3>1. cluster' = PatchedMeta(cluster) /\ pc = "patchMeta"
      BY <2>1 DEF PatchMeta
    <3>2. base.finalizer /\ ~w.finalizer
      BY <2>0, <3>1 DEF PatchedMeta, Cluster
    <3> QED BY <3>1, <3>2 DEF TeardownInv, DroppedClean
  <2>2. CASE PatchStatus
    BY <2>0, <2>2 DEF PatchStatus, PatchedStatus, Cluster
  <2>3. CASE DeleteCluster \/ EditBastion
    BY <2>0, <2>3 DEF DeleteCluster, EditBastion, Cluster
  <2>4. CASE Move
    BY <2>0, <2>4 DEF Move, Cluster
  <2> QED BY <2>1, <2>2, <2>3, <2>4, ClusterWriters
<1>2. TypeInv /\ ReadOK /\ TeardownInv /\ [Next]_vars => TeardownInv'
  BY TeardownNext, PortsNext, NetworkNext DEF TeardownInv
<1>3. GuardInv => ReadOK
  BY DEF GuardInv
<1> QED
  BY <1>1, <1>2, <1>3, TypeInit, TypeNext, GuardInit, GuardNext, TeardownInit, PTL
     DEF Spec, ClusterRemovedClean

-----------------------------------------------------------------------------
(* The floating IP of the bastion *)

\* How the cluster's own record of floating IPs changes.
LEMMA RecordedIPStep ==
  ASSUME TypeInv, [Next]_vars
  PROVE  /\ cluster'.fip \in {cluster.fip, w.fip, 0}
         /\ pc \in Steps \ {"idle", "patchStatus"} => cluster'.fip = cluster.fip
         /\ EditBastion \/ cluster'.specFIP = cluster.specFIP
<1>0. cluster \in Cluster
  BY DEF TypeInv, ObjectsOK
<1>1. CASE PatchMeta
  <2>1. cluster' \in {cluster, PatchedMeta(cluster)}
    BY <1>1 DEF PatchMeta
  <2>2. /\ PatchedMeta(cluster).fip = cluster.fip
        /\ PatchedMeta(cluster).specFIP = cluster.specFIP
    BY <1>0 DEF PatchedMeta, Cluster
  <2> QED BY <2>1, <2>2
<1>2. CASE PatchStatus
  <2>1. cluster' \in {cluster, PatchedStatus(cluster)} /\ pc = "patchStatus"
    BY <1>2 DEF PatchStatus
  <2>2. /\ PatchedStatus(cluster).fip \in {cluster.fip, w.fip}
        /\ PatchedStatus(cluster).specFIP = cluster.specFIP
    BY <1>0 DEF PatchedStatus, Pick, Cluster
  <2> QED BY <2>1, <2>2
<1>3. CASE DeleteCluster \/ EditBastion
  BY <1>0, <1>3 DEF DeleteCluster, EditBastion, Cluster
<1>4. CASE Move
  BY <1>0, <1>4 DEF Move, Cluster
<1> QED BY <1>1, <1>2, <1>3, <1>4, ClusterWriters

\* How the working copy's floating IPs change: they are read at the start, and then
\* the record follows the bastion.
LEMMA WorkingIPStep ==
  ASSUME TypeInv, [Next]_vars
  PROVE  \/ w' = ccache /\ Start
         \/ w' = NewCluster(0, TRUE) /\ pc' = "idle"
         \/ w' = w
         \/ /\ w'.specFIP = w.specFIP /\ pc # "idle"
            /\ \/ w'.fip = w.fip
               \/ w'.fip \in {0, bound, ChosenFIP} /\ pc' \in {"patchMeta", "associate", "dBastion"}
               \/ /\ w'.fip = nfips + 1 /\ nfips < MaxFIPs
                  /\ pc' \in {"patchMeta", "associate", "dBastion"}
<1>0. w \in Cluster
  BY DEF TypeInv, ObjectsOK
<1>1. CASE Start
  BY <1>1 DEF Start
<1>2. CASE PatchStatus \/ Crash
  BY <1>2 DEF PatchStatus, Crash, Finish, Stop
<1>3. CASE Normal
  BY <1>0, <1>3 DEF Normal, AddFinalizer, ReconcileNetwork, ReconcileSubnet,
     ReconcileRouter, AddRouterInterface, DeleteBastionGroup, ReconcileSecurityGroups,
     ReconcileControlPlaneEndpoint, SetProvisioned, Ensure, At, Cluster
<1>4. CASE GetOrCreateFloatingIP
  <2>1. /\ pc = "floatingIP" /\ pc' \in {"patchMeta", "associate"}
        /\ \/ w' \in {w, [w EXCEPT !.fip = bound], [w EXCEPT !.fip = ChosenFIP]}
           \/ w' = [w EXCEPT !.fip = nfips + 1] /\ nfips < MaxFIPs
    BY <1>4 DEF GetOrCreateFloatingIP, At, Goto, Return
  <2> HIDE DEF ChosenFIP
  <2> QED BY <1>0, <2>1 DEF Cluster
<1>5. CASE DeleteBastionServer
  <2>1. /\ pc = "bServer" /\ pc' \in {"patchMeta", "dBastion"}
        /\ w' \in {w, [w EXCEPT !.bastion = FALSE, !.fip = 0]}
    BY <1>5 DEF DeleteBastionServer, At, Goto, Return
  <2> QED BY <1>0, <2>1 DEF Cluster
<1>6. CASE GetBastionInstance \/ DeleteSecurityGroups
  <2>1. /\ pc # "idle"
        /\ w' \in {w, [w EXCEPT !.bastion = TRUE], [w EXCEPT !.finalizer = FALSE]}
    BY <1>6 DEF GetBastionInstance, DeleteSecurityGroups, At
  <2> QED BY <1>0, <2>1 DEF Cluster
<1>7. CASE ~(\/ Start \/ PatchStatus \/ Crash \/ Normal \/ GetOrCreateFloatingIP
             \/ DeleteBastionServer \/ GetBastionInstance \/ DeleteSecurityGroups)
  BY <1>7, Zenon DEF Next, Worker, Bastion, Delete, vars, At, PatchMeta, ReconcileBastionServer,
     AssociateFloatingIP, DeleteStatusFloatingIP, DeleteInstanceFloatingIPs,
     WaitForMachines, WaitForBastion, DeleteLoadBalancer, RemoveRouterInterface,
     DeleteRouter, DeleteClusterPorts, DeleteNetwork, ClusterEvent, ServerEvent, Resync,
     DeleteCluster, EditBastion, MachinesGone, LoadBalancerGone, ServerReconciles,
     InstanceVanishes, ServerRemoved, Move, Ensure, Remove, controller, reconcile
<1> QED BY <1>1, <1>2, <1>3, <1>4, <1>5, <1>6, <1>7

\* Only an edit of spec.bastion ends the time in which the spec names the user's IP.
LEMMA BroughtStep ==
  ASSUME [Next]_vars, brought'
  PROVE  brought /\ (EditBastion => cluster'.specFIP = UserFIP)
<1>1. CASE EditBastion
  BY <1>1, Zenon DEF EditBastion
<1>2. CASE ~EditBastion
  <2>1. brought' = brought
    BY <1>2, Zenon DEF Next, Worker, Normal, Bastion, Delete, vars, At, Start, PatchMeta, PatchStatus,
       Crash, AddFinalizer, ReconcileNetwork, ReconcileSubnet, ReconcileRouter,
       AddRouterInterface, DeleteBastionGroup, ReconcileSecurityGroups,
       ReconcileControlPlaneEndpoint, SetProvisioned, ReconcileBastionServer,
       GetBastionInstance, GetOrCreateFloatingIP, AssociateFloatingIP,
       DeleteStatusFloatingIP, DeleteInstanceFloatingIPs, DeleteBastionServer,
       WaitForMachines, WaitForBastion, DeleteLoadBalancer, RemoveRouterInterface,
       DeleteRouter, DeleteClusterPorts, DeleteNetwork, DeleteSecurityGroups,
       ClusterEvent, ServerEvent, Resync, DeleteCluster, MachinesGone,
       LoadBalancerGone, ServerReconciles, InstanceVanishes, ServerRemoved, Move
  <2> QED BY <1>2, <2>1, Zenon
<1> QED BY <1>1, <1>2, Zenon

\* The initial state satisfies the invariants.
LEMMA IPInit == Init => UserIPInv /\ KnownIPInv
<1> SUFFICES ASSUME Init PROVE UserIPInv /\ KnownIPInv
  OBVIOUS
<1>1. UserIPInv
  BY Zenon DEF Init, UserIPInv
<1>2. KnownIPInv
  BY DEF Init, KnownIPInv, CreatingSteps
<1> QED BY <1>1, <1>2

\* Every copy of the cluster names the user's floating IP as long as the spec has.
LEMMA UserIPNext ==
  ASSUME TypeInv, UserIPInv, [Next]_vars
  PROVE  UserIPInv'
<1> SUFFICES ASSUME brought'
             PROVE  /\ cluster'.specFIP = UserFIP /\ ccache'.specFIP = UserFIP
                    /\ pc' = "idle" \/ w'.specFIP = UserFIP
  BY Zenon DEF UserIPInv
<1>0. /\ cluster.specFIP = UserFIP /\ ccache.specFIP = UserFIP
      /\ pc = "idle" \/ w.specFIP = UserFIP
  BY BroughtStep, Zenon DEF UserIPInv
<1>1. cluster'.specFIP = UserFIP
  BY <1>0, BroughtStep, RecordedIPStep, Zenon
<1>2. ccache'.specFIP = UserFIP
  BY <1>0, <1>1, CopiesStep
<1>3. pc' = "idle" \/ w'.specFIP = UserFIP
  <2>1. w' = w => pc' = "idle" \/ pc # "idle" \/ Start
    BY Zenon DEF Next, Worker, Normal, Bastion, Delete, vars, At, PatchMeta, PatchStatus, Crash,
       AddFinalizer, ReconcileNetwork, ReconcileSubnet, ReconcileRouter,
       AddRouterInterface, DeleteBastionGroup, ReconcileSecurityGroups,
       ReconcileControlPlaneEndpoint, SetProvisioned, ReconcileBastionServer,
       GetBastionInstance, GetOrCreateFloatingIP, AssociateFloatingIP,
       DeleteStatusFloatingIP, DeleteInstanceFloatingIPs, DeleteBastionServer,
       WaitForMachines, WaitForBastion, DeleteLoadBalancer, RemoveRouterInterface,
       DeleteRouter, DeleteClusterPorts, DeleteNetwork, DeleteSecurityGroups,
       ClusterEvent, ServerEvent, Resync, DeleteCluster, EditBastion, MachinesGone,
       LoadBalancerGone, ServerReconciles, InstanceVanishes, ServerRemoved, Move,
       Finish, Stop, controller, reconcile
  <2>2. Start => w' = ccache \/ pc' = "idle"
    BY DEF Start
  <2> QED BY <1>0, <2>1, <2>2, WorkingIPStep
<1> QED BY <1>1, <1>2, <1>3

\* A floating IP that the user brought for the bastion is never deleted as long as
\* spec.bastion has named it ever since, whatever lags or fails and however often the
\* bastion is enabled, disabled, changed or moved.
THEOREM UserIPSafe == Spec => UserIPKept
<1>1. TypeInv /\ UserIPInv /\ [Next]_vars => [brought /\ UserFIP \in fips => UserFIP \in fips']_vars
  <2> SUFFICES ASSUME TypeInv, UserIPInv, [Next]_vars, brought, UserFIP \in fips
               PROVE  UserFIP \in fips'
    BY Zenon
  <2>1. CASE DeleteStatusFloatingIP \/ DeleteInstanceFloatingIPs
    <3>1. \/ fips' = fips
          \/ \E ip \in {0, w.fip, bound} : Owned(ip) /\ fips' = fips \ {ip}
      BY <2>1 DEF DeleteStatusFloatingIP, DeleteInstanceFloatingIPs, DeleteOwnedIP,
         FloatingIPDeleted
    <3>2. pc # "idle"
      BY <2>1 DEF DeleteStatusFloatingIP, DeleteInstanceFloatingIPs, At
    <3>3. w.specFIP = UserFIP
      BY <3>2, Zenon DEF UserIPInv
    <3> QED BY <3>1, <3>3 DEF Owned
  <2>2. CASE ~(DeleteStatusFloatingIP \/ DeleteInstanceFloatingIPs)
    <3>1. fips' = fips \/ \E x \in {ChosenFIP, nfips'} : fips' = fips \cup {x}
      BY <2>2, Zenon DEF Next, Worker, Normal, Bastion, Delete, vars, At, Start, PatchMeta, PatchStatus,
         Crash, AddFinalizer, ReconcileNetwork, ReconcileSubnet, ReconcileRouter,
         AddRouterInterface, DeleteBastionGroup, ReconcileSecurityGroups,
         ReconcileControlPlaneEndpoint, SetProvisioned, ReconcileBastionServer,
         GetBastionInstance, GetOrCreateFloatingIP, AssociateFloatingIP,
         DeleteBastionServer, WaitForMachines, WaitForBastion, DeleteLoadBalancer,
         RemoveRouterInterface, DeleteRouter, DeleteClusterPorts, DeleteNetwork,
         DeleteSecurityGroups, ClusterEvent, ServerEvent, Resync, DeleteCluster,
         EditBastion, MachinesGone, LoadBalancerGone, ServerReconciles,
         InstanceVanishes, ServerRemoved, Move, Ensure, Remove, bastion, cloud
    <3> QED BY <3>1
  <2> QED BY <2>1, <2>2
<1>2. TypeInv /\ UserIPInv /\ [Next]_vars => UserIPInv'
  BY UserIPNext
<1>3. Init => UserIPInv
  BY IPInit
<1> QED BY <1>1, <1>2, <1>3, TypeInit, TypeNext, PTL DEF Spec, UserIPKept

\* With fresh reads of the cluster, the reconcile knows the recorded floating IP until
\* it has found or allocated one.
LEMMA KnownIPNext ==
  ASSUME ~StaleCluster, TypeInv, KnownIPInv, [Next]_vars
  PROVE  KnownIPInv'
<1> DEFINE Early == (CreatingSteps \ {"associate"}) \cup {"normal"}
<1> USE DEF CreatingSteps
<1>1. CASE Start
  <2>1. ccache = cluster /\ cluster' = cluster /\ (w' = ccache \/ pc' = "idle")
    BY <1>1 DEF Start
  <2> QED BY <2>1 DEF KnownIPInv
<1>2. CASE ~Start
  <2>1. pc' \in Early => pc \in Early
    BY <1>2, Zenon DEF Next, Worker, Normal, Bastion, Delete, vars, At, PatchMeta, PatchStatus, Crash,
       AddFinalizer, ReconcileNetwork, ReconcileSubnet, ReconcileRouter,
       AddRouterInterface, DeleteBastionGroup, ReconcileSecurityGroups,
       ReconcileControlPlaneEndpoint, SetProvisioned, ReconcileBastionServer,
       GetBastionInstance, GetOrCreateFloatingIP, AssociateFloatingIP,
       DeleteStatusFloatingIP, DeleteInstanceFloatingIPs, DeleteBastionServer,
       WaitForMachines, WaitForBastion, DeleteLoadBalancer, RemoveRouterInterface,
       DeleteRouter, DeleteClusterPorts, DeleteNetwork, DeleteSecurityGroups,
       ClusterEvent, ServerEvent, Resync, DeleteCluster, EditBastion, MachinesGone,
       LoadBalancerGone, ServerReconciles, InstanceVanishes, ServerRemoved, Move,
       Ensure, Remove, DeleteOwnedIP, Goto, Return, Finish, Stop, controller, reconcile
  <2>2. pc' \in Early => w'.fip = w.fip
    BY <1>2, WorkingIPStep
  <2>3. pc \in Early => cluster'.fip = cluster.fip
    BY RecordedIPStep DEF Steps
  <2> QED BY <2>1, <2>2, <2>3 DEF KnownIPInv
<1> QED BY <1>1, <1>2

\* With fresh reads of the cluster, no floating IP is allocated while the bastion has
\* one, recorded or not, for every number of faults, edits and moves.
THEOREM BastionIPReused == ASSUME ~StaleCluster PROVE Spec => NoSecondBastionIP
<1>1. TypeInv /\ KnownIPInv /\ [Next]_vars =>
        [nfips' > nfips => {cluster.fip, bound} \cap Created = {}]_vars
  <2> SUFFICES ASSUME TypeInv, KnownIPInv, [Next]_vars, nfips' > nfips
               PROVE  {cluster.fip, bound} \cap Created = {}
    OBVIOUS
  <2>1. CASE GetOrCreateFloatingIP
    <3>1. pc = "floatingIP" /\ (nfips' = nfips \/ (bound = 0 /\ ~Given(ChosenFIP)))
      BY <2>1 DEF GetOrCreateFloatingIP, At
    <3>2. bound = 0 /\ w.fip = 0
      BY <3>1 DEF TypeInv, CloudOK, Given, ChosenFIP
    <3>3. w.fip = cluster.fip
      BY <3>1 DEF KnownIPInv, CreatingSteps
    <3> QED BY <3>2, <3>3 DEF Created, TypeInv, CloudOK
  <2>2. CASE ~GetOrCreateFloatingIP
    <3>1. nfips' = nfips
      BY <2>2, Zenon DEF Next, Worker, Normal, Bastion, Delete, vars, At, Start, PatchMeta, PatchStatus,
         Crash, AddFinalizer, ReconcileNetwork, ReconcileSubnet, ReconcileRouter,
         AddRouterInterface, DeleteBastionGroup, ReconcileSecurityGroups,
         ReconcileControlPlaneEndpoint, SetProvisioned, ReconcileBastionServer,
         GetBastionInstance, AssociateFloatingIP, DeleteStatusFloatingIP,
         DeleteInstanceFloatingIPs, DeleteBastionServer, WaitForMachines,
         WaitForBastion, DeleteLoadBalancer, RemoveRouterInterface, DeleteRouter,
         DeleteClusterPorts, DeleteNetwork, DeleteSecurityGroups, ClusterEvent,
         ServerEvent, Resync, DeleteCluster, EditBastion, MachinesGone,
         LoadBalancerGone, ServerReconciles, InstanceVanishes, ServerRemoved, Move,
         Ensure, Remove, bastion, cloud
    <3> QED BY <3>1 DEF TypeInv, CloudOK
  <2> QED BY <2>1, <2>2
<1>2. TypeInv /\ KnownIPInv /\ [Next]_vars => KnownIPInv'
  BY KnownIPNext
<1>3. Init => KnownIPInv
  BY IPInit
<1> QED BY <1>1, <1>2, <1>3, TypeInit, TypeNext, PTL DEF Spec, NoSecondBastionIP

=============================================================================
