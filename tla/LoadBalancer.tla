----------------------------- MODULE LoadBalancer -----------------------------
(***************************************************************************)
(* The API server endpoint of a cluster behind an Octavia load balancer.     *)
(* One worker of the cluster controller builds the load balancer, its        *)
(* floating IP, listeners, pools and monitors, and publishes the endpoint;   *)
(* one worker of the machine controller per control plane machine keeps the  *)
(* pool members.  Octavia refuses a change while it carries out another.     *)
(***************************************************************************)
EXTENDS Naturals, FiniteSets

CONSTANTS
  Machines,      \* control plane machines
  NPorts,        \* the API server port and the additional ports: 1..NPorts
  IPModes,       \* subset of {"given", "endpoint", "created", "none"}: the floating IP
                 \* wanted, by spec.apiServerFloatingIP or spec.controlPlaneEndpoint
  Features,      \* subset of {"monitors", "cidrs"}: what the Octavia provider supports
  StaleCluster,  \* the cluster informer may lag behind the API server
  FaultClasses,  \* subset of {"openstack", "kube", "crash"}
  MaxFaults,     \* bound: number of faults in a behaviour
  MaxFIPs,       \* bound: floating IPs ever created
  MaxChanges     \* bound: changes of settings or addresses, and clusterctl moves

ASSUME LoadBalancerAssumption ==
  /\ NPorts \in Nat \ {0}
  /\ IPModes # {} /\ IPModes \subseteq {"given", "endpoint", "created", "none"}
  /\ Features \subseteq {"monitors", "cidrs"} /\ StaleCluster \in BOOLEAN
  /\ FaultClasses \subseteq {"openstack", "kube", "crash"}
  /\ MaxFaults \in Nat /\ MaxFIPs \in Nat /\ MaxChanges \in Nat

VARIABLES
  mode,                       \* the floating IP that the spec asks for
  cluster,                    \* the OpenStackCluster in the API server
  ccache,                     \* the informer's copy of it
  lb,                         \* provisioning status of the load balancer
  listeners, pools, monitors, \* what exists per port, with the settings it has
  members,                    \* address of each machine in the pool of each port
  fips, nfips, bound,         \* floating IPs; the one on the VIP port, or 0
  queued, pc, port, then, fip, base, w, result,  \* the cluster worker
  machine, addr,              \* machines, and their current addresses
  mpc, mport, mip,            \* the machine workers
  faults, changes

Ports   == 1..NPorts
UserFIP == MaxFIPs + 1
VIP     == MaxFIPs + 2
Hosts   == 0..VIP
Absent  == MaxChanges + 1
Settings == 0..MaxChanges

octavia  == <<lb, listeners, pools, monitors, members>>
floating == <<fips, nfips, bound>>
worker   == <<pc, port, then, fip, base, w, result>>
member   == <<machine, mpc, mport, mip>>
vars     == <<mode, cluster, ccache, octavia, floating, queued, worker, member, addr,
              faults, changes>>

\* ip is Status.APIServerManagedLoadBalancer.IP, ready is Initialization.Provisioned,
\* and settings the version of the allowed CIDRs and the monitor in the spec.
Cluster == [exists : BOOLEAN, deleting : BOOLEAN, settings : Settings,
            endpoint : Hosts, ip : Hosts, ready : BOOLEAN]

NewCluster == [exists |-> TRUE, deleting |-> FALSE, settings |-> 0,
               endpoint |-> 0, ip |-> 0, ready |-> FALSE]

Steps == {"idle", "lb", "wait", "floatingIP", "associate", "listener", "pool",
          "monitor", "cidrs", "machines", "delete", "disassociate", "deleteIP",
          "deleteLB", "patchMeta", "patchStatus"}

MemberSteps == {"idle", "member", "waitDelete", "delete", "waitCreate", "create", "waitDone"}

\* A user who sets the control plane endpoint does so with the floating IP.
Init ==
  /\ mode \in IPModes
  /\ cluster = [NewCluster EXCEPT !.endpoint = IF mode = "endpoint" THEN UserFIP ELSE 0]
  /\ ccache = cluster /\ base = NewCluster /\ w = NewCluster
  /\ lb = "absent" /\ pools = {}
  /\ listeners = [p \in Ports |-> Absent] /\ monitors = listeners
  /\ members = [p \in Ports |-> [m \in Machines |-> 0]]
  /\ fips = {UserFIP} /\ nfips = 0 /\ bound = 0
  /\ queued = TRUE /\ pc = "idle" /\ port = 1 /\ then = "idle" /\ fip = 0 /\ result = "done"
  /\ machine = [m \in Machines |-> "running"] /\ addr = [m \in Machines |-> 1]
  /\ mpc = [m \in Machines |-> "idle"] /\ mport = [m \in Machines |-> 1]
  /\ mip = [m \in Machines |-> 0]
  /\ faults = 0 /\ changes = 0

-----------------------------------------------------------------------------
Works    == faults' = faults
Fails(c) == c \in FaultClasses /\ faults < MaxFaults /\ faults' = faults + 1

At(step) ==
  pc = step /\ UNCHANGED <<mode, cluster, ccache, queued, base, member, addr, changes>>

Goto(step)  == pc' = step /\ UNCHANGED <<port, then, result>>
Await(step) == pc' = "wait" /\ then' = step /\ UNCHANGED <<port, result>>
Return(res) == pc' = "patchMeta" /\ result' = res /\ UNCHANGED <<port, then>>

SpecFIP == IF mode = "given" THEN UserFIP ELSE 0

\* Octavia accepts a change of a load balancer that is not being changed, and
\* answers 409 otherwise.
Accepted == lb = "ACTIVE"
Changing == lb' = "PENDING_UPDATE"

-----------------------------------------------------------------------------
(* reconcileControlPlaneEndpoint and ReconcileLoadBalancer *)

Start ==
  /\ pc = "idle" /\ queued /\ queued' = FALSE
  /\ StaleCluster \/ ccache = cluster
  /\ IF ccache.exists
       THEN /\ pc' = (IF ccache.deleting THEN "machines" ELSE "lb")
            /\ base' = ccache /\ w' = ccache
       ELSE UNCHANGED <<pc, base, w>>
  /\ UNCHANGED <<mode, cluster, ccache, octavia, floating, port, then, fip, result, member,
                 addr, faults, changes>>

\* getOrCreateAPILoadBalancer.
GetOrCreateLoadBalancer ==
  /\ At("lb") /\ UNCHANGED <<floating, listeners, pools, monitors, members, fip, w>>
  /\ LET created == IF lb = "absent" THEN "PENDING_CREATE" ELSE lb
     IN \/ /\ Works /\ lb' = created
           /\ Await(IF mode = "none" THEN "listener" ELSE "floatingIP")
        \/ Fails("openstack") /\ lb' \in {lb, created} /\ Return("error")

\* waitForLoadBalancerActive gives up after a timeout, or if there is none.
WaitForLoadBalancerActive ==
  /\ At("wait") /\ UNCHANGED <<octavia, floating, fip>>
  /\ \/ /\ lb = "ACTIVE" /\ Works
        /\ pc' = then /\ then' = "idle" /\ UNCHANGED <<port, result, w>>
     \/ lb # "ACTIVE" /\ Works /\ Return("error") /\ UNCHANGED w

FloatingIPForgettingEndpoint == IF w.ip # 0 THEN w.ip ELSE SpecFIP

\* getAPIServerFloatingIP: the recorded one, the one in the spec, the endpoint, which
\* is an address (a host name would be looked up).
APIServerFloatingIP ==
  CASE w.ip # 0                    -> w.ip
    [] w.ip = 0 /\ SpecFIP # 0     -> SpecFIP
    [] w.ip = 0 /\ SpecFIP = 0     -> w.endpoint

\* GetOrCreateFloatingIP, which is written to the status in memory.
GetOrCreateFloatingIP ==
  /\ At("floatingIP") /\ UNCHANGED <<octavia, bound, fip>>
  /\ LET ip  == APIServerFloatingIP
         new == IF ip = 0 THEN nfips + 1 ELSE ip
         allocated == fips' = fips \cup {new} /\ nfips' = (IF ip = 0 THEN new ELSE nfips)
     IN /\ new # UserFIP \/ ip = UserFIP
        /\ \/ Works /\ allocated /\ w' = [w EXCEPT !.ip = new] /\ Goto("associate")
           \/ /\ Fails("openstack") /\ Return("error") /\ UNCHANGED w
              /\ allocated \/ UNCHANGED <<fips, nfips>>

AssociateIgnoringConflict ==
  /\ At("associate") /\ UNCHANGED <<octavia, fips, nfips, fip, w>>
  /\ Works /\ bound' = (IF bound = 0 THEN w.ip ELSE bound) /\ Goto("listener")

\* Neutron refuses a second floating IP on a port.
AssociateFloatingIP ==
  /\ At("associate") /\ UNCHANGED <<octavia, fips, nfips, fip, w>>
  /\ \/ bound \in {0, w.ip} /\ Works /\ bound' = w.ip /\ Goto("listener")
     \/ bound \notin {0, w.ip} /\ Works /\ Return("error") /\ UNCHANGED bound
     \/ /\ Fails("openstack") /\ Return("error")
        /\ bound' \in {bound, IF bound = 0 THEN w.ip ELSE bound}

-----------------------------------------------------------------------------
(* reconcileAPILoadBalancerListener, for each port *)

\* A request that changes the load balancer, the new part being what change says.
Request(change, unchanged, next) ==
  \/ Accepted /\ Works /\ change /\ Changing /\ next
  \/ ~Accepted /\ Works /\ UNCHANGED unchanged /\ UNCHANGED lb /\ Return("error")
  \/ /\ Fails("openstack") /\ Return("error")
     /\ \/ UNCHANGED unchanged /\ UNCHANGED lb
        \/ Accepted /\ change /\ Changing

\* What is looked for is there; but looking may fail.
Found(next) == (Works /\ next) \/ (Fails("openstack") /\ Return("error"))

GetOrCreateListener ==
  /\ At("listener") /\ UNCHANGED <<floating, pools, monitors, members, fip, w>>
  /\ \/ listeners[port] # Absent /\ Found(Goto("pool")) /\ UNCHANGED <<lb, listeners>>
     \/ /\ listeners[port] = Absent
        /\ Request(listeners' = [listeners EXCEPT ![port] = w.settings], listeners,
                   Await("pool"))

GetOrCreatePool ==
  /\ At("pool") /\ UNCHANGED <<floating, listeners, monitors, members, fip, w>>
  /\ \/ port \in pools /\ Found(Goto("monitor")) /\ UNCHANGED <<lb, pools>>
     \/ port \notin pools /\ Request(pools' = pools \cup {port}, pools, Await("monitor"))

\* Whether the monitor is there and has the settings of the spec; a provider without
\* monitors answers that it has none, which is not an error.
MonitorCurrent == "monitors" \notin Features \/ monitors[port] = w.settings

EnsureMonitor ==
  /\ At("monitor") /\ UNCHANGED <<floating, listeners, pools, members, fip, w>>
  /\ \/ MonitorCurrent /\ Found(Goto("cidrs")) /\ UNCHANGED <<lb, monitors>>
     \/ /\ ~MonitorCurrent
        /\ Request(monitors' = [monitors EXCEPT ![port] = w.settings], monitors,
                   Await("cidrs"))

HostFromOldStatus == IF base.ip # 0 THEN base.ip ELSE VIP

\* The endpoint is the floating IP, or the VIP if there is none.
Host == IF w.ip # 0 THEN w.ip ELSE VIP

\* After the last port the endpoint is set, and the cluster is provisioned.
NextPort ==
  IF port < NPorts
    THEN pc' = "listener" /\ port' = port + 1 /\ UNCHANGED <<then, w, result>>
    ELSE Return("done") /\ w' = [w EXCEPT !.endpoint = Host, !.ready = TRUE]

\* Whether the listener has the allowed CIDRs, or the provider does not support them.
CIDRsCurrent == "cidrs" \notin Features \/ listeners[port] = w.settings

\* getOrUpdateAllowedCIDRs goes on without waiting for the load balancer.
UpdateAllowedCIDRs ==
  /\ At("cidrs") /\ UNCHANGED <<floating, pools, monitors, members, fip>>
  /\ LET updated == listeners' = [listeners EXCEPT ![port] = w.settings] /\ Changing
     IN \/ CIDRsCurrent /\ Works /\ NextPort /\ UNCHANGED <<lb, listeners>>
        \/ ~CIDRsCurrent /\ Accepted /\ Works /\ updated /\ NextPort
        \/ /\ ~CIDRsCurrent /\ ~Accepted /\ Works /\ Return("error")
           /\ UNCHANGED <<lb, listeners, w>>
        \/ /\ ~CIDRsCurrent /\ Fails("openstack") /\ Return("error") /\ UNCHANGED w
           /\ UNCHANGED <<lb, listeners>> \/ (Accepted /\ updated)

-----------------------------------------------------------------------------
(* reconcileDelete and DeleteLoadBalancer *)

\* The cluster waits for its machines.
WaitForMachines ==
  /\ At("machines") /\ UNCHANGED <<octavia, floating, fip, w>>
  /\ \/ (\A m \in Machines : machine[m] = "gone") /\ Works /\ Goto("delete")
     \/ (\E m \in Machines : machine[m] # "gone") /\ Works /\ Return("requeue")
     \/ Fails("kube") /\ Return("error")

Kept == [w EXCEPT !.exists = FALSE]

DeleteLoadBalancer ==
  /\ At("delete") /\ UNCHANGED <<octavia, floating, fip>>
  /\ \/ lb = "absent" /\ Works /\ Return("done") /\ w' = Kept
     \/ lb = "PENDING_DELETE" /\ Works /\ Return("requeue") /\ UNCHANGED w
     \/ /\ lb \notin {"absent", "PENDING_DELETE"} /\ Works /\ Goto("disassociate")
        /\ UNCHANGED w
     \/ Fails("openstack") /\ Return("error") /\ UNCHANGED w

\* GetFloatingIPByPortID and DisassociateFloatingIP.
DisassociateFloatingIP ==
  /\ At("disassociate") /\ UNCHANGED <<octavia, fips, nfips, w>>
  /\ \/ /\ Works /\ fip' = bound /\ bound' = 0
        /\ Goto(IF bound = 0 THEN "deleteLB" ELSE "deleteIP")
     \/ Fails("openstack") /\ bound' \in {bound, 0} /\ Return("error") /\ UNCHANGED fip

\* A floating IP that spec.apiServerFloatingIP names is not deleted.
UserProvided == fip = SpecFIP

DeleteFloatingIP ==
  /\ At("deleteIP") /\ UNCHANGED <<octavia, nfips, bound, fip, w>>
  /\ LET left == IF UserProvided THEN fips ELSE fips \ {fip}
     IN \/ Works /\ fips' = left /\ Goto("deleteLB")
        \/ Fails("openstack") /\ fips' \in {fips, left} /\ Return("error")

\* The cascading delete; the load balancer is gone only later.
RequestDeletion ==
  /\ At("deleteLB")
  /\ UNCHANGED <<floating, listeners, pools, monitors, members, fip, w>>
  /\ \/ Accepted /\ Works /\ lb' = "PENDING_DELETE" /\ Return("requeue")
     \/ lb = "absent" /\ Works /\ UNCHANGED lb /\ Return("requeue")
     \/ ~Accepted /\ lb # "absent" /\ Works /\ UNCHANGED lb /\ Return("error")
     \/ /\ Fails("openstack") /\ Return("error")
        /\ lb' \in {lb, IF Accepted THEN "PENDING_DELETE" ELSE lb}

-----------------------------------------------------------------------------
(* The deferred patch: metadata and spec first, then status *)

Pick(now, old, new) == IF new = old THEN now ELSE new

PatchMeta ==
  /\ pc = "patchMeta" /\ pc' = "patchStatus"
  /\ \/ /\ Works /\ UNCHANGED result
        /\ cluster' = [cluster EXCEPT !.endpoint = Pick(@, base.endpoint, w.endpoint),
                                      !.exists   = w.exists]
     \/ Fails("kube") /\ UNCHANGED cluster /\ result' = "error"
  /\ UNCHANGED <<mode, ccache, octavia, floating, queued, port, then, fip, base, w, member,
                 addr, changes>>

\* The reconcile ends, and its local variables with it.
Stop ==
  /\ pc' = "idle" /\ port' = 1 /\ then' = "idle" /\ fip' = 0 /\ result' = "done"
  /\ base' = NewCluster /\ w' = NewCluster

FinishForgettingErrors(res) == Stop /\ queued' = (queued \/ res = "requeue")

Finish(res) == Stop /\ queued' = (queued \/ res # "done")

PatchStatus ==
  /\ pc = "patchStatus"
  /\ \/ /\ Works
        /\ cluster' = [cluster EXCEPT !.ip    = Pick(@, base.ip, w.ip),
                                      !.ready = Pick(@, base.ready, w.ready)]
        /\ Finish(result)
     \/ Fails("kube") /\ UNCHANGED cluster /\ Finish("error")
  /\ UNCHANGED <<mode, ccache, octavia, floating, member, addr, changes>>

-----------------------------------------------------------------------------
(* The machine workers *)

MemberAt(m, step) ==
  mpc[m] = step /\ UNCHANGED <<mode, cluster, ccache, floating, queued, worker, addr,
                               changes, listeners, pools, monitors>>

MemberGoto(m, step) ==
  mpc' = [mpc EXCEPT ![m] = step] /\ UNCHANGED <<machine, mport, mip>>

\* An error, after which the machine is reconciled again.
MemberError(m) ==
  /\ mpc' = [mpc EXCEPT ![m] = "idle"] /\ mport' = [mport EXCEPT ![m] = 1]
  /\ mip' = [mip EXCEPT ![m] = 0] /\ UNCHANGED machine

\* The next port; after the last one a deleted machine goes on to be removed.
MemberNext(m) ==
  IF mport[m] < NPorts
    THEN /\ mpc' = [mpc EXCEPT ![m] = "member"] /\ mport' = [mport EXCEPT ![m] = @ + 1]
         /\ UNCHANGED <<machine, mip>>
    ELSE /\ mpc' = [mpc EXCEPT ![m] = "idle"] /\ mport' = [mport EXCEPT ![m] = 1]
         /\ mip' = [mip EXCEPT ![m] = 0]
         /\ machine' = IF mip[m] = 0 THEN [machine EXCEPT ![m] = "gone"] ELSE machine

MemberWrong(m) == \E p \in Ports : members[p][m] # addr[m]

\* The cluster is read from the informer's cache.  A machine waits for it to be
\* provisioned and to have an endpoint; one that is deleted goes at once if it is not,
\* and else removes its members, if there is a load balancer.  A reconcile that finds
\* nothing to do is left out.
MemberStart(m) ==
  /\ MemberAt(m, "idle") /\ UNCHANGED <<lb, members, mport, faults>>
  /\ \/ /\ machine[m] = "running" /\ ccache.ready /\ ccache.endpoint # 0 /\ MemberWrong(m)
        /\ mpc' = [mpc EXCEPT ![m] = "member"] /\ mip' = [mip EXCEPT ![m] = addr[m]]
        /\ UNCHANGED machine
     \/ /\ machine[m] = "deleting" /\ ccache.ready /\ lb # "absent"
        /\ mpc' = [mpc EXCEPT ![m] = "member"] /\ UNCHANGED <<machine, mip>>
     \/ /\ machine[m] = "deleting" /\ ~(ccache.ready /\ lb # "absent")
        /\ machine' = [machine EXCEPT ![m] = "gone"] /\ UNCHANGED <<mpc, mip>>

Member(m) == members[mport[m]][m]

MemberOfAnyAddress(m) == IF mip[m] = 0 THEN Member(m) = 0 ELSE Member(m) # 0

MemberCurrent(m) == Member(m) = mip[m]

\* checkIfPoolExists and checkIfLbMemberExists; mip is 0 on the delete path.
FindMember(m) ==
  /\ MemberAt(m, "member") /\ UNCHANGED <<lb, members>>
  /\ \/ mport[m] \notin pools /\ Works /\ IF mip[m] = 0 THEN MemberNext(m) ELSE MemberError(m)
     \/ /\ mport[m] \in pools /\ Works
        /\ CASE MemberCurrent(m)                      -> MemberNext(m)
             [] ~MemberCurrent(m) /\ Member(m) # 0    -> MemberGoto(m, "waitDelete")
             [] ~MemberCurrent(m) /\ Member(m) = 0    -> MemberGoto(m, "waitCreate")
     \/ Fails("openstack") /\ MemberError(m)

\* The three waits for an active load balancer.
MemberWait(m) ==
  /\ UNCHANGED <<lb, members>>
  /\ \/ /\ MemberAt(m, "waitDelete")
        /\ lb = "ACTIVE" /\ Works /\ MemberGoto(m, "delete")
     \/ /\ MemberAt(m, "waitCreate")
        /\ lb = "ACTIVE" /\ Works /\ IF mip[m] = 0 THEN MemberNext(m) ELSE MemberGoto(m, "create")
     \/ /\ MemberAt(m, "waitDone")
        /\ lb = "ACTIVE" /\ Works /\ MemberNext(m)
     \/ \E step \in {"waitDelete", "waitCreate", "waitDone"} :
          MemberAt(m, step) /\ lb # "ACTIVE" /\ Works /\ MemberError(m)

MemberRequest(m, address, step) ==
  LET change == members' = [members EXCEPT ![mport[m]][m] = address] /\ Changing
  IN \/ Accepted /\ Works /\ change /\ MemberGoto(m, step)
     \/ ~Accepted /\ Works /\ UNCHANGED <<lb, members>> /\ MemberError(m)
     \/ /\ Fails("openstack") /\ MemberError(m)
        /\ UNCHANGED <<lb, members>> \/ (Accepted /\ change)

DeleteIgnoringConflict(m) ==
  /\ MemberAt(m, "delete")
  /\ \/ Accepted /\ MemberRequest(m, 0, "waitCreate")
     \/ ~Accepted /\ Works /\ UNCHANGED <<lb, members>> /\ MemberGoto(m, "waitCreate")

DeletePoolMember(m) == MemberAt(m, "delete") /\ MemberRequest(m, 0, "waitCreate")

CreatePoolMember(m) == MemberAt(m, "create") /\ MemberRequest(m, mip[m], "waitDone")

MemberWorker(m) ==
  MemberStart(m) \/ FindMember(m) \/ MemberWait(m) \/ DeletePoolMember(m) \/ CreatePoolMember(m)

-----------------------------------------------------------------------------
(* The world around the controllers *)

\* Octavia finishes a creation, a change or a deletion.
OctaviaFinishes ==
  /\ \/ /\ lb \in {"PENDING_CREATE", "PENDING_UPDATE"} /\ lb' = "ACTIVE"
        /\ UNCHANGED <<listeners, pools, monitors, members>>
     \/ /\ lb = "PENDING_DELETE" /\ lb' = "absent"
        /\ listeners' = [p \in Ports |-> Absent] /\ monitors' = listeners' /\ pools' = {}
        /\ members' = [p \in Ports |-> [m \in Machines |-> 0]]
  /\ UNCHANGED <<mode, cluster, ccache, floating, queued, worker, member, addr, faults,
                 changes>>

\* The watch on OpenStackClusters.
ClusterEvent ==
  /\ ccache # cluster /\ ccache' = cluster /\ queued' = TRUE
  /\ UNCHANGED <<mode, cluster, octavia, floating, worker, member, addr, faults, changes>>

outside == <<mode, octavia, floating, worker, mpc, mport, mip, faults>>

Change == changes < MaxChanges /\ changes' = changes + 1

\* A user changes the settings; the allowed CIDRs change with the addresses of bastion,
\* subnets and router too.
EditSpec ==
  /\ cluster.exists /\ ~cluster.deleting /\ Change
  /\ cluster' = [cluster EXCEPT !.settings = @ + 1]
  /\ UNCHANGED <<outside, ccache, queued, machine, addr>>

DeleteCluster ==
  /\ cluster.exists /\ ~cluster.deleting
  /\ cluster' = [cluster EXCEPT !.deleting = TRUE]
  /\ UNCHANGED <<outside, ccache, queued, machine, addr, changes>>

\* A machine is deleted by a user, or by Cluster API with its cluster; a reconcile of it
\* goes on with what it has read.
DeleteMachine(m) ==
  /\ machine[m] = "running" /\ machine' = [machine EXCEPT ![m] = "deleting"]
  /\ UNCHANGED <<outside, cluster, ccache, queued, addr, changes>>

\* The instance gets another address, which the machine controller reads from Nova.
Readdress(m) ==
  /\ machine[m] = "running" /\ Change /\ addr' = [addr EXCEPT ![m] = @ + 1]
  /\ UNCHANGED <<outside, cluster, ccache, queued, machine>>

\* clusterctl move recreates a provisioned cluster without its status.
Move ==
  /\ pc = "idle" /\ \A m \in Machines : mpc[m] = "idle"
  /\ cluster.exists /\ ~cluster.deleting /\ cluster.ready
  /\ Change /\ cluster' = [cluster EXCEPT !.ip = 0, !.ready = FALSE]
  /\ ccache' = cluster' /\ queued' = TRUE
  /\ UNCHANGED <<outside, machine, addr>>

Crash ==
  /\ pc # "idle" \/ \E m \in Machines : mpc[m] # "idle"
  /\ Fails("crash") /\ Stop /\ ccache' = cluster /\ queued' = TRUE
  /\ mpc' = [m \in Machines |-> "idle"] /\ mport' = [m \in Machines |-> 1]
  /\ mip' = [m \in Machines |-> 0]
  /\ UNCHANGED <<mode, cluster, octavia, floating, machine, addr, changes>>

-----------------------------------------------------------------------------
Build ==
  \/ GetOrCreateLoadBalancer \/ WaitForLoadBalancerActive \/ GetOrCreateFloatingIP
  \/ AssociateFloatingIP \/ GetOrCreateListener \/ GetOrCreatePool \/ EnsureMonitor
  \/ UpdateAllowedCIDRs

Delete ==
  \/ WaitForMachines \/ DeleteLoadBalancer \/ DisassociateFloatingIP \/ DeleteFloatingIP
  \/ RequestDeletion

Worker == Start \/ Build \/ Delete \/ PatchMeta \/ PatchStatus

Next ==
  \/ Worker \/ OctaviaFinishes \/ ClusterEvent \/ EditSpec \/ DeleteCluster \/ Move \/ Crash
  \/ \E m \in Machines : MemberWorker(m) \/ DeleteMachine(m) \/ Readdress(m)

Spec == Init /\ [][Next]_vars

\* Queued keys run, events arrive, machines with work to do are retried, Octavia
\* finishes what it has begun, and Cluster API deletes the machines of a deleted cluster.
FairSpec ==
  /\ Spec
  /\ WF_vars(Worker) /\ WF_vars(ClusterEvent) /\ WF_vars(OctaviaFinishes)
  /\ \A m \in Machines : WF_vars(MemberWorker(m)) /\ WF_vars(cluster.deleting /\ DeleteMachine(m))

-----------------------------------------------------------------------------
(* Properties *)

ClustersOK ==
  /\ mode \in IPModes
  /\ cluster \in Cluster /\ ccache \in Cluster /\ base \in Cluster /\ w \in Cluster

OctaviaOK ==
  /\ lb \in {"absent", "PENDING_CREATE", "ACTIVE", "PENDING_UPDATE", "PENDING_DELETE"}
  /\ listeners \in [Ports -> Settings \cup {Absent}] /\ pools \subseteq Ports
  /\ monitors \in [Ports -> Settings \cup {Absent}]
  /\ members \in [Ports -> [Machines -> 0..(MaxChanges + 1)]]

FloatingOK ==
  /\ fips \subseteq Hosts \ {0} /\ nfips \in 0..MaxFIPs /\ bound \in Hosts /\ fip \in Hosts

WorkerOK ==
  /\ pc \in Steps /\ port \in Ports /\ then \in Steps
  /\ result \in {"done", "requeue", "error"}

MembersOK ==
  /\ machine \in [Machines -> {"running", "deleting", "gone"}]
  /\ addr \in [Machines -> 1..(MaxChanges + 1)]
  /\ mpc \in [Machines -> MemberSteps] /\ mport \in [Machines -> Ports]
  /\ mip \in [Machines -> 0..(MaxChanges + 1)]

CountersOK == faults \in 0..MaxFaults /\ changes \in 0..MaxChanges

\* Every variable stays in its type.
TypeOK ==
  /\ ClustersOK /\ OctaviaOK /\ FloatingOK /\ WorkerOK /\ MembersOK /\ CountersOK
  /\ queued \in BOOLEAN

\* The control plane endpoint never changes once it is published, although every
\* reconcile writes it, from a status that a crash or a move may have lost.
EndpointStable ==
  [][cluster.endpoint # 0 => cluster'.endpoint = cluster.endpoint]_vars

\* An endpoint that the controller published is served: its floating IP is on the VIP
\* port, and every port has its listener and its pool, until the cluster is deleted.
EndpointServed ==
  cluster.endpoint # 0 /\ mode # "endpoint" /\ ~cluster.deleting
    => /\ cluster.endpoint \in {VIP, bound}
       /\ pools = Ports /\ \A p \in Ports : listeners[p] # Absent

\* No floating IP is allocated once there is one in the status or in the endpoint,
\* although the status may be lost by a failed patch or a move and the endpoint may be
\* the user's: every later reconcile comes back to the same address.
NoSecondIP == [][nfips' > nfips => cluster.ip = 0 /\ cluster.endpoint = 0]_vars

\* A machine of a provisioned cluster goes only after its members have been removed
\* from all pools, whatever conflicts and timeouts the removal met.  (After a move the
\* cluster does not count as provisioned until it is reconciled.)
MemberRemovedFirst ==
  [][\A m \in Machines : machine[m] # "gone" /\ machine'[m] = "gone" /\ ccache.ready
       => \A p \in Ports : members'[p][m] = 0]_vars

Gone == cluster.deleting \/ ~cluster.exists

\* A floating IP that a crash left unrecorded occupies the VIP port.
Blocked == bound \notin {0, cluster.ip, cluster.endpoint, SpecFIP}

Configured ==
  \A p \in Ports :
    /\ listeners[p] = cluster.settings \/ "cidrs" \notin Features
    /\ monitors[p] = cluster.settings \/ "monitors" \notin Features

Serves(m) == cluster.endpoint # 0 /\ \A p \in Ports : members[p][m] = addr[m]

\* Once users leave them alone, listeners and monitors of all ports come to have the
\* settings of the spec, and every running machine is a member of every pool with its
\* current address behind a published endpoint, and this remains so, although
\* Octavia refuses changes that follow each other too fast.
LoadBalancerSettles ==
  <>[](\/ Gone \/ Blocked
       \/ Configured /\ \A m \in Machines : machine[m] # "running" \/ Serves(m))

\* A deleted cluster goes, with its load balancer and machines.
ClusterDeletionCompletes == cluster.deleting ~> ~cluster.exists /\ lb = "absent"
=============================================================================
