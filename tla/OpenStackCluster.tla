--------------------------- MODULE OpenStackCluster ---------------------------
(***************************************************************************)
(* The OpenStackCluster controller: network, subnet, router, security        *)
(* groups, API server endpoint and bastion, built in this order and removed  *)
(* in the order that Neutron and Octavia accept.  The bastion is an          *)
(* OpenStackServer, of which only ServerLifecycle is known here.             *)
(***************************************************************************)
EXTENDS Naturals, FiniteSets

CONSTANTS
  Networks,       \* kinds of cluster network considered: "managed", "existing"
  ManagedGroups,  \* spec.managedSecurityGroups is set
  LoadBalanced,   \* the API server has a managed load balancer
  BastionIPs,     \* spec.bastion.floatingIP given by the user or not
  Enabled,        \* whether the bastion may be enabled at first
  Edits,          \* kinds of change that users make to spec.bastion
  StrayPorts,     \* a bastion may leave a port of the cluster behind
  StaleCluster,   \* the OpenStackCluster informer may lag
  StaleServer,    \* the OpenStackServer informer may lag
  FaultClasses,   \* subset of {"openstack", "kube", "crash"}
  MaxFaults,      \* bound: number of faults in a behaviour
  MaxEdits,       \* bound: changes of spec.bastion
  MaxFIPs,        \* bound: floating IPs ever created for the bastion
  MaxInstances,   \* bound: instances ever launched
  MaxMoves        \* bound: clusterctl moves

ASSUME ClusterAssumption ==
  /\ Networks # {} /\ Networks \subseteq {"managed", "existing"}
  /\ BastionIPs # {} /\ BastionIPs \subseteq {"given", "created"}
  /\ Enabled # {} /\ Enabled \subseteq BOOLEAN
  /\ Edits \subseteq {"toggle", "flavor", "floatingIP", "remove"}
  /\ ManagedGroups \in BOOLEAN /\ LoadBalanced \in BOOLEAN /\ StrayPorts \in BOOLEAN
  /\ StaleCluster \in BOOLEAN /\ StaleServer \in BOOLEAN
  /\ FaultClasses \subseteq {"openstack", "kube", "crash"}
  /\ MaxFaults \in Nat /\ MaxEdits \in Nat /\ MaxFIPs \in Nat
  /\ MaxInstances \in Nat /\ MaxMoves \in Nat

VARIABLES
  network,          \* kind of network of this cluster
  cluster, ccache,  \* the OpenStackCluster in the API server and in the cache
  server, scache,   \* the bastion's OpenStackServer, and the cache with its spec
  sspec,            \* the spec of the bastion's OpenStackServer
  live, launched, moves,
  machines,         \* some Machine of the cluster exists
  neutron,          \* what exists of network, subnet, router, interface, port
  groups,           \* managed security groups that exist
  ngroups,          \* bastion groups ever created; the last one's ID
  lb,               \* the API server's load balancer in Octavia
  fips, nfips,      \* floating IPs that exist, and how many were created
  bound,            \* the one on the bastion's port, or 0
  queued, pc, base, w,
  srv,              \* bastionServer, as read by this reconcile
  result, faults, edits,
  brought           \* the spec has named the user's floating IP ever since (history)

Life == INSTANCE ServerLifecycle

lifecycle == <<server, live, launched, moves>>
cloud     == <<neutron, groups, ngroups, lb, fips, nfips, bound>>
counters  == <<faults, edits>>
vars == <<network, cluster, ccache, lifecycle, scache, sspec, machines, cloud,
          queued, pc, base, w, srv, result, counters, brought>>

NodeGroups == {"controlplane", "worker"}
FIPs       == 0..(MaxFIPs + 1)
UserFIP    == MaxFIPs + 1

\* net is Status.Network: "network" without subnets; group and fip are IDs, 0 if
\* unknown; bastion tells whether Status.Bastion is set.
Cluster == [exists : BOOLEAN, deleting : BOOLEAN, finalizer : BOOLEAN,
            enabled : BOOLEAN, flavor : 0..1, specFIP : FIPs,
            endpoint : BOOLEAN, net : {"none", "network", "subnets"},
            router : BOOLEAN, group : Nat, provisioned : BOOLEAN,
            bastion : BOOLEAN, fip : FIPs]

NewCluster(ip, enabled) ==
  [exists |-> TRUE, deleting |-> FALSE, finalizer |-> FALSE, enabled |-> enabled,
   flavor |-> 0, specFIP |-> ip, endpoint |-> FALSE, net |-> "none",
   router |-> FALSE, group |-> 0, provisioned |-> FALSE, bastion |-> FALSE, fip |-> 0]

NoSpec == [flavor |-> 0, group |-> 0]

Steps == {"idle", "normal", "network", "subnet", "router", "interface",
          "bastionGroup", "groups", "endpoint", "zones", "bastion", "instance",
          "floatingIP", "associate", "bFloatingIP", "bAddresses", "bServer",
          "dMachines", "dBastion", "dLoadBalancer", "dInterface", "dRouter",
          "dPorts", "dNetwork", "dGroups", "patchMeta", "patchStatus"}

Init ==
  /\ network \in Networks
  /\ \E ip \in BastionIPs, enabled \in Enabled :
       cluster = NewCluster(IF ip = "given" THEN UserFIP ELSE 0, enabled)
  /\ ccache = cluster /\ base = cluster /\ w = cluster
  /\ brought = (cluster.specFIP = UserFIP)
  /\ server = Life!NoServer /\ sspec = NoSpec /\ srv = Life!NoServer
  /\ scache = [obj |-> server, spec |-> sspec]
  /\ live = {} /\ launched = 0 /\ moves = 0 /\ machines = TRUE
  /\ neutron = {} /\ groups = {} /\ ngroups = 0 /\ lb = "absent"
  /\ fips = {UserFIP} /\ nfips = 0 /\ bound = 0
  /\ queued = TRUE /\ pc = "idle" /\ result = "done" /\ faults = 0 /\ edits = 0

-----------------------------------------------------------------------------
Works    == faults' = faults
Fails(c) == c \in FaultClasses /\ faults < MaxFaults /\ faults' = faults + 1

At(step) == pc = step /\ UNCHANGED <<network, cluster, ccache, scache, live, launched,
                                     moves, machines, queued, base, edits, brought>>
Goto(step)  == pc' = step /\ result' = result
Return(res) == pc' = "patchMeta" /\ result' = res

bastion == <<server, sspec, fips, nfips, bound, srv>>
infra   == <<neutron, groups, ngroups, lb>>

-----------------------------------------------------------------------------
(* Reconcile *)

Start ==
  /\ pc = "idle" /\ queued
  /\ StaleCluster \/ ccache = cluster
  /\ queued' = FALSE
  /\ IF ccache.exists
       THEN /\ base' = ccache /\ w' = ccache
            /\ \/ /\ Works /\ result' = "done"
                  /\ pc' = IF ccache.deleting THEN "dMachines" ELSE "normal"
               \/ Fails("openstack") /\ Return("error")
       ELSE UNCHANGED <<pc, base, w, result, faults>>
  /\ UNCHANGED <<network, cluster, ccache, lifecycle, scache, sspec, machines, cloud,
                 srv, edits, brought>>

AddFinalizerOnly ==
  /\ At("normal") /\ Works
  /\ w' = [w EXCEPT !.finalizer = TRUE]
  /\ Goto("network")
  /\ UNCHANGED <<bastion, infra>>

\* reconcileNormal registers the finalizer in a reconcile of its own.
AddFinalizer ==
  /\ At("normal") /\ Works
  /\ w' = [w EXCEPT !.finalizer = TRUE]
  /\ IF w.finalizer THEN Goto("network") ELSE Return("done")
  /\ UNCHANGED <<bastion, infra>>

\* A get-or-create of x by name, found again by a retry.
Ensure(x, next, status) ==
  /\ \/ Works /\ Goto(next) /\ neutron' = neutron \cup {x} /\ w' = status
     \/ /\ Fails("openstack") /\ Return("error") /\ UNCHANGED w
        /\ neutron' \in {neutron, neutron \cup {x}}
  /\ UNCHANGED <<bastion, groups, ngroups, lb>>

\* ReconcileExternalNetwork, then ReconcileNetwork, which forgets the subnets, or
\* the lookups of reconcilePreExistingNetworkComponents.
ReconcileNetwork ==
  /\ At("network")
  /\ \/ network = "managed" /\ Ensure("network", "subnet", [w EXCEPT !.net = "network"])
     \/ /\ network = "existing"
        /\ \/ Works /\ Goto("bastionGroup") /\ w' = [w EXCEPT !.net = "subnets"]
           \/ /\ Fails("openstack") /\ Return("error")
              /\ w' \in {w, [w EXCEPT !.net = IF @ = "none" THEN "network" ELSE @]}
        /\ UNCHANGED <<bastion, infra>>

ReconcileSubnet ==
  /\ At("subnet") /\ Ensure("subnet", "router", [w EXCEPT !.net = "subnets"])

\* ReconcileRouter: the router, then its interface in the subnet.
ReconcileRouter ==
  /\ At("router") /\ Ensure("router", "interface", [w EXCEPT !.router = TRUE])

AddRouterInterface == At("interface") /\ Ensure("interface", "bastionGroup", w)

-----------------------------------------------------------------------------
(* ReconcileSecurityGroups *)

\* Ports of the bastion exist from before its instance until its server goes.
PortsMayExist  == server.exists /\ server.finalizer
PortsMustExist == live # {}

\* The group of a disabled bastion is deleted first.  Any failure of that ends
\* ReconcileSecurityGroups without an error.
DeleteBastionGroup ==
  /\ At("bastionGroup") /\ UNCHANGED <<w, bastion, neutron, ngroups, lb>>
  /\ LET present == "bastion" \in groups
     IN \/ ~ManagedGroups /\ Works /\ Goto("endpoint") /\ UNCHANGED groups
        \/ /\ ManagedGroups /\ (w.enabled \/ ~present)
           /\ Works /\ Goto("groups") /\ UNCHANGED groups
        \/ /\ ManagedGroups /\ ~w.enabled /\ present /\ ~PortsMustExist
           /\ Works /\ Goto("groups") /\ groups' = groups \ {"bastion"}
        \/ /\ ManagedGroups /\ ~w.enabled /\ present /\ PortsMayExist
           /\ Works /\ Goto("endpoint") /\ UNCHANGED groups
        \/ /\ ManagedGroups /\ ~w.enabled /\ Fails("openstack") /\ Goto("endpoint")
           /\ groups' \in {groups, IF PortsMustExist THEN groups ELSE groups \ {"bastion"}}

WantedGroups == NodeGroups \cup (IF w.enabled THEN {"bastion"} ELSE {})

GroupCreated(g) ==
  groups' = groups \cup {g} /\ ngroups' = IF g = "bastion" THEN ngroups + 1 ELSE ngroups

\* getOrCreateSecurityGroup for each group, then the rules and the status.
ReconcileSecurityGroups ==
  /\ At("groups") /\ UNCHANGED <<bastion, neutron, lb>>
  /\ \/ \E g \in WantedGroups \ groups :
          /\ Works /\ Goto("groups") /\ GroupCreated(g) /\ UNCHANGED w
     \/ \E g \in WantedGroups \ groups :
          /\ Fails("openstack") /\ Return("error") /\ UNCHANGED w
          /\ UNCHANGED <<groups, ngroups>> \/ GroupCreated(g)
     \/ /\ WantedGroups \subseteq groups /\ UNCHANGED <<groups, ngroups>>
        /\ \/ /\ Works /\ Goto("endpoint")
              /\ w' = [w EXCEPT !.group = IF w.enabled THEN ngroups ELSE 0]
           \/ Fails("openstack") /\ Return("error") /\ UNCHANGED w

-----------------------------------------------------------------------------
\* reconcileControlPlaneEndpoint, of which LoadBalancer has the detail.
ReconcileControlPlaneEndpoint ==
  /\ At("endpoint") /\ UNCHANGED <<bastion, neutron, groups, ngroups>>
  /\ LET built == IF LoadBalanced THEN "active" ELSE lb
     IN \/ Works /\ Goto("zones") /\ lb' = built /\ w' = [w EXCEPT !.endpoint = TRUE]
        \/ /\ LoadBalanced \/ ~w.endpoint
           /\ Fails("openstack") /\ Return("error") /\ lb' \in {lb, built} /\ UNCHANGED w

\* GetAvailabilityZones, then Initialization.Provisioned.
SetProvisioned ==
  /\ At("zones") /\ UNCHANGED <<bastion, infra>>
  /\ \/ Works /\ Goto("bastion") /\ w' = [w EXCEPT !.provisioned = TRUE]
     \/ Fails("openstack") /\ Return("error") /\ UNCHANGED w

-----------------------------------------------------------------------------
(* reconcileBastion *)

\* bastionToOpenStackServerSpec.
BastionSpec == [flavor |-> w.flavor, group |-> IF ManagedGroups THEN w.group ELSE 0]

KeepsWrongSpec == scache.obj.exists /\ ~w.enabled

\* The bastion must go: it is disabled, or its spec has changed.
Outdated == scache.obj.exists /\ (~w.enabled \/ scache.spec # BastionSpec)

\* reconcileBastionServer.
ReconcileBastionServer ==
  /\ At("bastion") /\ UNCHANGED <<w, infra, fips, nfips, bound>>
  /\ StaleServer \/ scache = [obj |-> server, spec |-> sspec]
  /\ srv' = scache.obj
  /\ LET found == scache.obj.exists
         created == server' = Life!NewServer /\ sspec' = BastionSpec
     IN \/ ~found /\ ~w.enabled /\ Works /\ Return("done") /\ UNCHANGED <<server, sspec>>
        \/ Outdated /\ Works /\ Goto("bFloatingIP") /\ UNCHANGED <<server, sspec>>
        \/ ~found /\ w.enabled /\ ~server.exists /\ Works /\ Return("requeue") /\ created
        \/ /\ ~found /\ w.enabled /\ server.exists /\ Works /\ Return("error")
           /\ UNCHANGED <<server, sspec>>
        \/ /\ ~found /\ w.enabled /\ Fails("kube") /\ Return("error")
           /\ UNCHANGED <<server, sspec>> \/ (~server.exists /\ created)
        \/ /\ found /\ ~Outdated /\ Works /\ UNCHANGED <<server, sspec>>
           /\ IF scache.obj.ready THEN Goto("instance") ELSE Return("requeue")

\* GetInstanceStatus, UpdateBastionStatus and GetManagementPort.
GetBastionInstance ==
  /\ At("instance") /\ UNCHANGED <<bastion, infra>>
  /\ \/ /\ srv.id \in live /\ Works /\ Goto("floatingIP")
        /\ w' = [w EXCEPT !.bastion = TRUE]
     \/ srv.id \notin live /\ Works /\ Return("error") /\ UNCHANGED w
     \/ /\ Fails("openstack") /\ Return("error")
        /\ w' \in {w, [w EXCEPT !.bastion = TRUE]}

\* Re-use the recorded floating IP, else the one in the spec, else a new one (0).
ChosenFIP == IF w.fip # 0 THEN w.fip ELSE w.specFIP

\* GetOrCreateFloatingIP looks for an address only if it is given one.
Given(ip) == ip # 0

AlwaysAllocate ==
  /\ At("floatingIP") /\ UNCHANGED <<server, sspec, bound, srv, infra>>
  /\ \/ /\ Given(ChosenFIP) /\ Works /\ Goto("associate")
        /\ w' = [w EXCEPT !.fip = ChosenFIP] /\ fips' = fips \cup {ChosenFIP}
        /\ UNCHANGED nfips
     \/ /\ ~Given(ChosenFIP) /\ nfips < MaxFIPs /\ Works /\ Goto("associate")
        /\ nfips' = nfips + 1 /\ fips' = fips \cup {nfips'}
        /\ w' = [w EXCEPT !.fip = nfips']

\* bastionAddFloatingIP up to the association.
GetOrCreateFloatingIP ==
  /\ At("floatingIP") /\ UNCHANGED <<server, sspec, bound, srv, infra>>
  /\ \/ /\ bound # 0 /\ Works /\ Return("done") /\ UNCHANGED <<fips, nfips>>
        /\ w' = [w EXCEPT !.fip = bound]
     \/ /\ bound = 0 /\ Given(ChosenFIP) /\ Works /\ Goto("associate")
        /\ w' = [w EXCEPT !.fip = ChosenFIP] /\ fips' = fips \cup {ChosenFIP}
        /\ UNCHANGED nfips
     \/ /\ bound = 0 /\ ~Given(ChosenFIP) /\ nfips < MaxFIPs /\ Works /\ Goto("associate")
        /\ nfips' = nfips + 1 /\ fips' = fips \cup {nfips'}
        /\ w' = [w EXCEPT !.fip = nfips']
     \/ /\ Fails("openstack") /\ Return("error") /\ UNCHANGED w
        /\ \/ UNCHANGED <<fips, nfips>>
           \/ /\ bound = 0 /\ ~Given(ChosenFIP) /\ nfips < MaxFIPs
              /\ nfips' = nfips + 1 /\ fips' = fips \cup {nfips'}

AssociateFloatingIP ==
  /\ At("associate") /\ UNCHANGED <<server, sspec, fips, nfips, srv, w, infra>>
  /\ \/ PortsMayExist /\ Works /\ Return("done") /\ bound' = w.fip
     \/ ~PortsMustExist /\ Works /\ Return("error") /\ UNCHANGED bound
     \/ /\ Fails("openstack") /\ Return("error")
        /\ bound' \in {bound, IF PortsMayExist THEN w.fip ELSE bound}

-----------------------------------------------------------------------------
(* deleteBastion, called on both paths *)

FloatingIPDeleted(ip) == fips' = fips \ {ip} /\ bound' = IF bound = ip THEN 0 ELSE bound

OwnsAll(ip) == ip # 0

\* A floating IP from the spec belongs to the user.
Owned(ip) == ip # 0 /\ ip # w.specFIP

\* DeleteFloatingIP of ip on behalf of the bastion, if it is not the user's.
DeleteOwnedIP(ip, next) ==
  \/ Owned(ip) /\ Works /\ Goto(next) /\ FloatingIPDeleted(ip)
  \/ ~Owned(ip) /\ Works /\ Goto(next) /\ UNCHANGED <<fips, bound>>
  \/ /\ Fails("openstack") /\ Return("error")
     /\ UNCHANGED <<fips, bound>> \/ (Owned(ip) /\ FloatingIPDeleted(ip))

DeleteStatusFloatingIP ==
  /\ At("bFloatingIP") /\ UNCHANGED <<server, sspec, nfips, w, infra>>
  /\ StaleServer \/ scache = [obj |-> server, spec |-> sspec]
  /\ srv' = scache.obj
  /\ DeleteOwnedIP(IF w.bastion THEN w.fip ELSE 0, "bAddresses")

\* The addresses of the instance, if Status.Bastion says that there is one.
DeleteInstanceFloatingIPs ==
  /\ At("bAddresses") /\ UNCHANGED <<server, sspec, nfips, srv, w, infra>>
  /\ IF w.bastion /\ srv.exists /\ srv.id # 0
       THEN DeleteOwnedIP(IF srv.id \in live THEN bound ELSE 0, "bServer")
       ELSE Works /\ Goto("bServer") /\ UNCHANGED <<fips, bound>>

\* reconcileDeleteBastionServer; then Status.Bastion is cleared.
DeleteBastionServer ==
  /\ At("bServer") /\ UNCHANGED <<sspec, fips, nfips, bound, srv, infra>>
  /\ StaleServer \/ scache = [obj |-> server, spec |-> sspec]
  /\ LET found == scache.obj.exists
         deleted == IF server.exists THEN Life!Deleted ELSE server
     IN \/ /\ ~found \/ server.exists
           /\ Works /\ server' = IF found THEN deleted ELSE server
           /\ w' = [w EXCEPT !.bastion = FALSE, !.fip = 0]
           /\ IF base.deleting THEN Goto("dBastion") ELSE Return("requeue")
        \/ /\ found /\ ~server.exists
           /\ Works /\ Return("error") /\ UNCHANGED <<server, w>>
        \/ /\ found /\ Fails("kube") /\ Return("error") /\ UNCHANGED w
           /\ server' \in {server, deleted}

-----------------------------------------------------------------------------
(* reconcileDelete *)

\* The bastion is deleted only if Status.Network was written.
WaitForMachines ==
  /\ At("dMachines") /\ Works /\ UNCHANGED <<w, bastion, infra>>
  /\ CASE machines -> Return("requeue")
       [] ~machines /\ w.net # "none" -> Goto("bFloatingIP")
       [] ~machines /\ w.net = "none" -> Goto("dBastion")

BastionFound == scache.obj.exists

WaitForBastion ==
  /\ At("dBastion") /\ Works /\ UNCHANGED <<w, bastion, infra>>
  /\ StaleServer \/ scache = [obj |-> server, spec |-> sspec]
  /\ IF BastionFound THEN Return("requeue") ELSE Goto("dLoadBalancer")

DeleteLoadBalancerNoWait ==
  /\ At("dLoadBalancer") /\ UNCHANGED <<w, bastion, neutron, groups, ngroups>>
  /\ Works /\ lb' = (IF lb = "absent" THEN lb ELSE "deleting")
  /\ Goto(IF network = "managed" THEN "dInterface" ELSE "dGroups")

\* DeleteLoadBalancer: requeue until Octavia has removed it and its ports.
DeleteLoadBalancer ==
  /\ At("dLoadBalancer") /\ UNCHANGED <<w, bastion, neutron, groups, ngroups>>
  /\ \/ /\ ~LoadBalanced \/ lb = "absent"
        /\ Works /\ UNCHANGED lb
        /\ Goto(IF network = "managed" THEN "dInterface" ELSE "dGroups")
     \/ LoadBalanced /\ lb # "absent" /\ Works /\ Return("requeue") /\ lb' = "deleting"
     \/ /\ LoadBalanced /\ Fails("openstack") /\ Return("error")
        /\ lb' \in {lb, IF lb = "active" THEN "deleting" ELSE lb}

\* What Neutron refuses to delete because something still depends on it.
InUse(x) ==
  CASE x = "interface" -> bound # 0 \/ lb = "active"
    [] x = "router"    -> "interface" \in neutron
    [] x = "network"   -> \/ {"interface", "port"} \cap neutron # {} \/ lb # "absent"
                          \/ machines \/ PortsMustExist
    [] OTHER           -> machines

\* The delete of x, which stands for everything in gone; an absent x is skipped.
Remove(x, gone, next) ==
  /\ UNCHANGED <<w, bastion, groups, ngroups, lb>>
  /\ \/ x \in neutron /\ ~InUse(x) /\ Works /\ Goto(next) /\ neutron' = neutron \ gone
     \/ x \notin neutron /\ Works /\ Goto(next) /\ UNCHANGED neutron
     \/ x \in neutron /\ InUse(x) /\ Works /\ Return("error") /\ UNCHANGED neutron
     \/ /\ Fails("openstack") /\ Return("error")
        /\ neutron' \in {neutron, IF InUse(x) THEN neutron ELSE neutron \ gone}

\* DeleteRouter: its interface, then the router.
RemoveRouterInterface == At("dInterface") /\ Remove("interface", {"interface"}, "dRouter")

RouterKept == At("dRouter") /\ Works /\ Goto("dPorts") /\ UNCHANGED <<w, bastion, infra>>

DeleteRouter == At("dRouter") /\ Remove("router", {"router"}, "dPorts")

\* DeleteClusterPorts finds the ports through Status.Network.
DeleteClusterPorts ==
  /\ At("dPorts")
  /\ \/ w.net # "none" /\ Remove("port", {"port"}, "dNetwork")
     \/ w.net = "none" /\ Works /\ Goto("dNetwork") /\ UNCHANGED <<w, bastion, infra>>

\* Neutron removes the subnets with their network.
DeleteNetwork == At("dNetwork") /\ Remove("network", {"network", "subnet"}, "dGroups")

GroupFree(g) == IF g = "bastion" THEN ~PortsMustExist ELSE ~machines

\* DeleteSecurityGroups, which ends with an error if Neutron refuses to delete a group
\* that is in use; then the finalizer is removed.
DeleteSecurityGroups ==
  /\ At("dGroups") /\ UNCHANGED <<bastion, neutron, ngroups, lb>>
  /\ \/ /\ groups = {} /\ Works /\ Return("done") /\ UNCHANGED groups
        /\ w' = [w EXCEPT !.finalizer = FALSE]
     \/ \E g \in groups :
          /\ Works /\ UNCHANGED w
          /\ IF GroupFree(g) THEN Goto("dGroups") /\ groups' = groups \ {g}
                             ELSE Return("error") /\ UNCHANGED groups
     \/ \E g \in groups :
          /\ Fails("openstack") /\ Return("error") /\ UNCHANGED w
          /\ groups' \in {groups, IF GroupFree(g) THEN groups \ {g} ELSE groups}

-----------------------------------------------------------------------------
(* The deferred patch: metadata and spec first, then status *)

Pick(now, old, new) == IF new = old THEN now ELSE new

PatchedMeta(o) ==
  [o EXCEPT !.endpoint  = Pick(@, base.endpoint, w.endpoint),
            !.finalizer = Pick(@, base.finalizer, w.finalizer),
            !.exists    = ~(o.deleting /\ base.finalizer /\ ~w.finalizer)]

PatchedStatus(o) ==
  [o EXCEPT !.net         = Pick(@, base.net, w.net),
            !.router      = Pick(@, base.router, w.router),
            !.group       = Pick(@, base.group, w.group),
            !.provisioned = Pick(@, base.provisioned, w.provisioned),
            !.bastion     = Pick(@, base.bastion, w.bastion),
            !.fip         = Pick(@, base.fip, w.fip)]

MetaChanged == w.finalizer # base.finalizer \/ w.endpoint # base.endpoint

\* A finalizer cannot be added to an object that is being deleted; NotFound is
\* ignored once a deleted object has no finalizer.
MetaAccepted ==
  \/ ~MetaChanged
  \/ cluster.exists /\ ~(w.finalizer /\ ~base.finalizer /\ cluster.deleting)
  \/ ~cluster.exists /\ base.deleting /\ ~w.finalizer

PatchMeta ==
  /\ pc = "patchMeta" /\ pc' = "patchStatus"
  /\ \/ /\ Works
        /\ cluster' = IF cluster.exists /\ MetaAccepted THEN PatchedMeta(cluster) ELSE cluster
        /\ result' = IF MetaAccepted THEN result ELSE "error"
     \/ Fails("kube") /\ UNCHANGED cluster /\ result' = "error"
  /\ UNCHANGED <<network, ccache, lifecycle, scache, sspec, machines, cloud, queued,
                 base, w, srv, edits, brought>>

\* The reconcile ends, and its local variables with it.
Stop ==
  /\ pc' = "idle" /\ result' = "done" /\ srv' = Life!NoServer
  /\ base' = NewCluster(0, TRUE) /\ w' = NewCluster(0, TRUE)

FinishForgettingErrors(res) == Stop /\ queued' = (queued \/ res = "requeue")

Finish(res) == Stop /\ queued' = (queued \/ res # "done")

PatchStatus ==
  /\ pc = "patchStatus"
  /\ \/ /\ Works
        /\ cluster' = IF cluster.exists THEN PatchedStatus(cluster) ELSE cluster
        /\ Finish(IF cluster.exists \/ (base.deleting /\ ~w.finalizer) THEN result ELSE "error")
     \/ Fails("kube") /\ UNCHANGED cluster /\ Finish("error")
  /\ UNCHANGED <<network, ccache, lifecycle, scache, sspec, machines, cloud, edits, brought>>

Crash ==
  /\ pc # "idle" /\ Fails("crash")
  /\ Stop /\ queued' = TRUE
  /\ ccache' = cluster /\ scache' = [obj |-> server, spec |-> sspec]
  /\ UNCHANGED <<network, cluster, lifecycle, sspec, machines, cloud, edits, brought>>

-----------------------------------------------------------------------------
(* Watches *)

reconcile == <<pc, base, w, srv, result, faults>>

ClusterEvent ==
  /\ ccache # cluster /\ ccache' = cluster /\ queued' = TRUE
  /\ UNCHANGED <<network, cluster, lifecycle, scache, sspec, machines, cloud,
                 reconcile, edits, brought>>

ServerEvent ==
  /\ scache # [obj |-> server, spec |-> sspec]
  /\ scache' = [obj |-> server, spec |-> sspec]
  /\ queued' = (queued \/ Life!StatusReportable(scache.obj, server))
  /\ UNCHANGED <<network, cluster, ccache, lifecycle, sspec, machines, cloud,
                 reconcile, edits, brought>>

Resync ==
  /\ ~queued /\ queued' = TRUE
  /\ UNCHANGED <<network, cluster, ccache, lifecycle, scache, sspec, machines, cloud,
                 reconcile, edits, brought>>

-----------------------------------------------------------------------------
(* The world around the controller *)

controller == <<ccache, scache, queued, reconcile>>

DeleteCluster ==
  /\ cluster.exists /\ ~cluster.deleting
  /\ cluster' = IF cluster.finalizer THEN [cluster EXCEPT !.deleting = TRUE]
                                     ELSE [cluster EXCEPT !.exists = FALSE]
  /\ UNCHANGED <<network, lifecycle, sspec, machines, cloud, edits, brought, controller>>

\* Users change spec.bastion, its floating IP included; the webhook lets it be removed
\* once disabled.
EditBastion ==
  /\ cluster.exists /\ ~cluster.deleting /\ edits < MaxEdits /\ edits' = edits + 1
  /\ \/ "toggle" \in Edits /\ cluster' = [cluster EXCEPT !.enabled = ~@]
     \/ /\ "flavor" \in Edits /\ cluster.enabled
        /\ cluster' = [cluster EXCEPT !.flavor = 1 - @]
     \/ /\ "floatingIP" \in Edits
        /\ cluster' = [cluster EXCEPT !.specFIP = IF @ = UserFIP THEN 0 ELSE UserFIP]
     \/ /\ "remove" \in Edits /\ ~cluster.enabled /\ cluster.specFIP # 0
        /\ cluster' = [cluster EXCEPT !.specFIP = 0]
  /\ brought' = (brought /\ cluster'.specFIP = UserFIP)
  /\ UNCHANGED <<network, lifecycle, sspec, machines, cloud, controller>>

\* Cluster API removes the machines of a cluster under deletion.
MachinesGone ==
  /\ cluster.deleting /\ machines /\ machines' = FALSE
  /\ UNCHANGED <<network, cluster, lifecycle, sspec, cloud, edits, brought, controller>>

\* Octavia finishes a deletion.
LoadBalancerGone ==
  /\ lb = "deleting" /\ lb' = "absent"
  /\ UNCHANGED <<network, cluster, lifecycle, sspec, machines, neutron, groups, ngroups,
                 fips, nfips, bound, edits, brought, controller>>

\* The OpenStackServer controller, as it appears from here (an instance that it
\* launches with an old copy of a deleted server counts as launched before).
ServerReconciles ==
  /\ \/ Life!Protect \/ (~server.deleting /\ Life!Launch)
     \/ \E id \in live : (server.id # id \/ ~server.ready) /\ Life!Report(id, "ACTIVE")
  /\ UNCHANGED <<network, cluster, sspec, machines, cloud, edits, brought, controller>>

InstanceVanishes ==
  /\ server.deleting /\ Life!Vanish
  /\ UNCHANGED <<network, cluster, sspec, machines, cloud, edits, brought, controller>>

\* With the server go its ports, but for one it lost track of.
ServerRemoved ==
  /\ Life!Remove /\ bound' = 0 /\ sspec' = NoSpec
  /\ \/ UNCHANGED neutron
     \/ StrayPorts /\ "network" \in neutron /\ neutron' = neutron \cup {"port"}
  /\ UNCHANGED <<network, cluster, machines, groups, ngroups, lb, fips, nfips, edits, brought,
                 controller>>

\* clusterctl move recreates a provisioned cluster without its status.
Move ==
  /\ pc = "idle" /\ moves < MaxMoves /\ moves' = moves + 1
  /\ cluster.exists /\ ~cluster.deleting /\ cluster.provisioned /\ ~server.deleting
  /\ cluster' = [cluster EXCEPT !.net = "none", !.router = FALSE, !.group = 0,
                                !.provisioned = FALSE, !.bastion = FALSE, !.fip = 0]
  /\ server' = Life!Moved
  /\ ccache' = cluster' /\ scache' = [obj |-> server', spec |-> sspec] /\ queued' = TRUE
  /\ UNCHANGED <<network, live, launched, sspec, machines, cloud, reconcile, edits, brought>>

-----------------------------------------------------------------------------
Normal ==
  \/ AddFinalizer \/ ReconcileNetwork \/ ReconcileSubnet \/ ReconcileRouter
  \/ AddRouterInterface \/ DeleteBastionGroup \/ ReconcileSecurityGroups
  \/ ReconcileControlPlaneEndpoint \/ SetProvisioned

Bastion ==
  \/ ReconcileBastionServer \/ GetBastionInstance \/ GetOrCreateFloatingIP
  \/ AssociateFloatingIP \/ DeleteStatusFloatingIP \/ DeleteInstanceFloatingIPs
  \/ DeleteBastionServer

Delete ==
  \/ WaitForMachines \/ WaitForBastion \/ DeleteLoadBalancer \/ RemoveRouterInterface
  \/ DeleteRouter \/ DeleteClusterPorts \/ DeleteNetwork \/ DeleteSecurityGroups

Worker == Start \/ Normal \/ Bastion \/ Delete \/ PatchMeta \/ PatchStatus

Next ==
  \/ Worker \/ Crash \/ ClusterEvent \/ ServerEvent \/ Resync
  \/ DeleteCluster \/ EditBastion \/ MachinesGone \/ LoadBalancerGone
  \/ ServerReconciles \/ InstanceVanishes \/ ServerRemoved \/ Move

Spec == Init /\ [][Next]_vars

\* Queued keys run, watch events arrive, Cluster API removes the machines of a
\* deleted cluster, Octavia finishes, and the OpenStackServer controller works.
FairSpec ==
  /\ Spec
  /\ WF_vars(Worker) /\ WF_vars(ClusterEvent) /\ WF_vars(ServerEvent)
  /\ WF_vars(MachinesGone) /\ WF_vars(LoadBalancerGone)
  /\ WF_vars(ServerReconciles) /\ WF_vars(InstanceVanishes) /\ WF_vars(ServerRemoved)

-----------------------------------------------------------------------------
(* Properties *)

\* Every variable stays in its type.
ObjectsOK ==
  /\ network \in Networks
  /\ cluster \in Cluster /\ ccache \in Cluster /\ base \in Cluster /\ w \in Cluster

ServerSpec == [flavor : 0..1, group : Nat]

ServersOK ==
  /\ server \in Life!Server /\ srv \in Life!Server /\ sspec \in ServerSpec
  /\ scache \in [obj : Life!Server, spec : ServerSpec]
  /\ live \subseteq 1..MaxInstances /\ launched \in 0..MaxInstances

CloudOK ==
  /\ neutron \subseteq {"network", "subnet", "router", "interface", "port"}
  /\ groups \subseteq NodeGroups \cup {"bastion"} /\ ngroups \in Nat
  /\ lb \in {"absent", "active", "deleting"}
  /\ fips \subseteq FIPs \ {0} /\ nfips \in 0..MaxFIPs /\ bound \in FIPs

ControlOK ==
  /\ pc \in Steps /\ result \in {"done", "requeue", "error"}
  /\ moves \in 0..MaxMoves /\ faults \in 0..MaxFaults /\ edits \in 0..MaxEdits

FlagsOK == machines \in BOOLEAN /\ queued \in BOOLEAN /\ brought \in BOOLEAN

TypeOK == ObjectsOK /\ ServersOK /\ CloudOK /\ ControlOK /\ FlagsOK

Resources == neutron # {} \/ groups # {} \/ lb # "absent" \/ server.exists

\* Nothing is created for a cluster that does not durably hold the finalizer.
FinalizerGuardsInfra == cluster.exists /\ Resources => cluster.finalizer

\* The finalizer goes only after everything that was built by name is gone, however
\* the deletion was interrupted.
ClusterRemovedClean ==
  [][cluster.exists /\ cluster.finalizer /\ ~cluster'.exists => ~Resources]_vars

\* reconcileDelete asks Neutron for nothing that is still in use: by the time it
\* comes to a resource, what depends on it has been removed or waited for.  Only a
\* stray port may be left, if the copy of the status it works on has no network.
DeletedInOrder ==
  /\ pc = "dInterface" => ~InUse("interface")
  /\ pc = "dRouter" => ~InUse("router")
  /\ pc = "dNetwork" => ~InUse("network") \/ (w.net = "none" /\ "port" \in neutron)
  /\ pc = "dGroups" => \A g \in groups : GroupFree(g)

Created == fips \ {UserFIP}

\* No floating IP is allocated while the bastion has one: one that the status
\* records is re-used, and one on the bastion's port is found, even if the reconcile
\* that put it there was interrupted before it could be recorded.
NoSecondBastionIP ==
  [][nfips' > nfips => {cluster.fip, bound} \cap Created = {}]_vars

\* A floating IP that the user brought for the bastion is never deleted as long as
\* spec.bastion has named it ever since, although it passes through the same delete
\* paths as one that the controller allocated.  (The code knows it by the spec alone:
\* an edit that takes it out of the spec while the bastion has it gives it away.)
UserIPKept == [][brought /\ UserFIP \in fips => UserFIP \in fips']_vars

Gone == cluster.deleting \/ ~cluster.exists

Running == server.exists /\ sspec.flavor = cluster.flavor /\ bound # 0 /\ bound = cluster.fip

Removed == ~server.exists /\ ("bastion" \notin groups \/ faults > 0)

\* Once users leave it alone, a cluster is provisioned whatever partial work failures
\* and moves left behind, and its bastion is what the spec says: enabled, it runs the
\* spec's flavor with the recorded floating IP on its port; disabled, it goes, and
\* after it its security group, which cannot be deleted while the bastion uses it
\* (only a failure of the best-effort delete may leave the group).
ClusterSettles ==
  <>[](\/ Gone
       \/ cluster.provisioned /\ IF cluster.enabled THEN Running ELSE Removed)

\* A deleted cluster goes, unless the status that tells of its network was lost
\* while the bastion exists, since then nobody deletes the bastion.
ClusterDeletionCompletes ==
  cluster.deleting ~> ~cluster.exists \/ (server.exists /\ cluster.net = "none")

\* A deleted cluster goes: its bastion is deleted even if no status was written.
ClusterAlwaysDeleted == cluster.deleting ~> ~cluster.exists
=============================================================================
