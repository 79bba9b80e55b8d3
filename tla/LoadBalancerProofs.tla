------------------------- MODULE LoadBalancerProofs -------------------------
(***************************************************************************)
(* Proofs about LoadBalancer, for every set of machines, every number of     *)
(* ports, faults, floating IPs and changes, and every kind of floating IP.   *)
(***************************************************************************)
EXTENDS LoadBalancer, TLAPS

\* The bounds that the counters of changes put on settings and addresses.
Counted == cluster.settings <= changes /\ \A m \in Machines : addr[m] <= changes + 1

LoopSteps   == {"listener", "pool", "monitor", "cidrs"}
BuildSteps  == {"lb", "wait", "floatingIP", "associate"} \cup LoopSteps
DeleteSteps == {"machines", "delete", "disassociate", "deleteIP", "deleteLB"}
PatchSteps  == {"patchMeta", "patchStatus"}

\* The step that the cluster worker is at, or waits to go on to.
Stage == IF pc = "wait" THEN then ELSE pc

\* Whether the cluster worker knows, or will learn, that the cluster is deleted.
Going == IF pc = "idle" THEN ccache.deleting ELSE base.deleting

\* Endpoint e and floating IP i are ones that the wanted kind of IP allows.
Fits(e, i) ==
  /\ mode = "none" => i = 0 /\ e \in {0, VIP}
  /\ mode = "given" => i \in {0, UserFIP} /\ e \in {0, UserFIP}
  /\ mode = "endpoint" => i \in {0, UserFIP} /\ e = UserFIP
  /\ mode = "created" => e # VIP /\ i # VIP

\* What the informer and the cluster worker have may be older than what is stored, but
\* it has no other endpoint.
EndpointInv ==
  /\ Fits(cluster.endpoint, cluster.ip) /\ Fits(ccache.endpoint, ccache.ip)
  /\ ccache.endpoint \in {0, cluster.endpoint} /\ base.endpoint \in {0, cluster.endpoint}
  /\ pc # "idle" => Fits(base.endpoint, base.ip) /\ Fits(w.endpoint, w.ip)
  /\ \/ w.endpoint = base.endpoint
     \/ pc \in PatchSteps /\ ~base.deleting /\ w.endpoint # 0
  /\ Stage \in {"floatingIP", "associate"} => mode # "none"
  /\ Stage \in {"associate"} \cup LoopSteps => (mode = "none" <=> w.ip = 0)

\* The teardown begins only when the worker has read that the cluster is deleted, and
\* from then on nothing is built.
TeardownInv ==
  /\ ccache.deleting => cluster.deleting
  /\ base.deleting => ccache.deleting
  /\ pc \in DeleteSteps => base.deleting
  /\ pc \in BuildSteps => ~base.deleting
  /\ lb = "PENDING_DELETE" => Going
  /\ pc = "wait" => then \in {"floatingIP"} \cup LoopSteps

Ready == pools = Ports /\ \A p \in Ports : listeners[p] # Absent

\* A published endpoint is served as long as the worker has not read the deletion.
Served ==
  cluster.endpoint # 0 /\ mode # "endpoint" => Ready /\ cluster.endpoint \in {VIP, bound}

\* How far the load balancer is built.
BuildInv ==
  /\ Stage \in {"idle", "lb", "floatingIP", "associate"} => port = 1
  /\ ~Going =>
       /\ Stage \in LoopSteps =>
            /\ \A p \in Ports : p < port => p \in pools /\ listeners[p] # Absent
            /\ mode # "none" => bound = w.ip
       /\ Stage \in {"pool", "monitor", "cidrs"} => listeners[port] # Absent
       /\ Stage \in {"monitor", "cidrs"} => port \in pools
       /\ pc \in PatchSteps /\ w.endpoint # base.endpoint =>
            Ready /\ w.endpoint \in {VIP, bound}
       /\ Served

\* A pool that is not there has no members, and the load balancer goes only after
\* the machines.
PoolInv ==
  /\ \A p \in Ports \ pools, m \in Machines : members[p][m] = 0
  /\ lb = "absent" => pools = {}
  /\ lb = "PENDING_DELETE" \/ pc \in DeleteSteps \ {"machines"} =>
       \A m \in Machines : machine[m] = "gone"

\* How far the worker of a deleted machine has removed its members.
MemberInv ==
  \A m \in Machines :
    /\ mpc[m] # "idle" => machine[m] # "gone"
    /\ mpc[m] # "idle" /\ mip[m] = 0 =>
         /\ machine[m] = "deleting" /\ mpc[m] \in {"member", "waitDelete", "delete", "waitCreate"}
         /\ \A p \in Ports : p < mport[m] => members[p][m] = 0
         /\ mpc[m] = "waitCreate" => members[mport[m]][m] = 0
    /\ mpc[m] \notin {"idle", "member"} => mport[m] \in pools
    /\ mpc[m] = "idle" => mport[m] = 1 /\ mip[m] = 0

-----------------------------------------------------------------------------
(* What the steps change *)

MemberRequests == \E m \in Machines : DeletePoolMember(m) \/ CreatePoolMember(m)
MachineSteps   == \E m \in Machines : MemberWorker(m) \/ DeleteMachine(m)

\* The steps that write each variable, and what they write.
LEMMA Frame ==
  ASSUME [Next]_vars
  PROVE  /\ mode' = mode
         /\ PatchMeta \/ PatchStatus \/ EditSpec \/ DeleteCluster \/ Move \/ cluster' = cluster
         /\ ClusterEvent \/ Move \/ Crash \/ ccache' = ccache
         /\ base' \in {base, ccache, NewCluster}
         /\ \/ GetOrCreateFloatingIP \/ UpdateAllowedCIDRs \/ DeleteLoadBalancer
            \/ w' \in {w, ccache, NewCluster}
         /\ GetOrCreateListener \/ UpdateAllowedCIDRs \/ OctaviaFinishes \/ listeners' = listeners
         /\ GetOrCreatePool \/ OctaviaFinishes \/ pools' = pools
         /\ EnsureMonitor \/ OctaviaFinishes \/ monitors' = monitors
         /\ MemberRequests \/ OctaviaFinishes \/ members' = members
         /\ \/ GetOrCreateFloatingIP \/ DeleteFloatingIP
            \/ fips' = fips /\ nfips' = nfips
         /\ AssociateFloatingIP \/ DisassociateFloatingIP \/ bound' = bound
         /\ DisassociateFloatingIP \/ fip' \in {fip, 0}
         /\ MachineSteps \/ Crash \/ UNCHANGED member
         /\ (\E m \in Machines : Readdress(m)) \/ addr' = addr
         /\ EditSpec \/ Move \/ (\E m \in Machines : Readdress(m)) \/ changes' = changes
<1> USE DEF Next, Worker, Build, Delete, MemberWorker, vars, At, MemberAt, Start, PatchMeta,
   PatchStatus, GetOrCreateLoadBalancer, WaitForLoadBalancerActive, GetOrCreateFloatingIP,
   AssociateFloatingIP, GetOrCreateListener, GetOrCreatePool, EnsureMonitor,
   UpdateAllowedCIDRs, WaitForMachines, DeleteLoadBalancer, DisassociateFloatingIP,
   DeleteFloatingIP, RequestDeletion, MemberStart, FindMember, MemberWait, DeletePoolMember,
   CreatePoolMember, OctaviaFinishes, ClusterEvent, EditSpec, DeleteCluster, Move, Crash,
   DeleteMachine, Readdress
<1>1. mode' = mode
  BY Zenon DEF outside
<1>2. PatchMeta \/ PatchStatus \/ EditSpec \/ DeleteCluster \/ Move \/ cluster' = cluster
  BY Zenon
<1>3. base' \in {base, ccache, NewCluster}
  BY Zenon DEF outside, worker, Finish, Stop
<1>4. \/ GetOrCreateFloatingIP \/ UpdateAllowedCIDRs \/ DeleteLoadBalancer
      \/ w' \in {w, ccache, NewCluster}
  BY Zenon DEF outside, worker, Finish, Stop
<1>5. GetOrCreateListener \/ UpdateAllowedCIDRs \/ OctaviaFinishes \/ listeners' = listeners
  BY Zenon DEF outside, octavia
<1>6. GetOrCreatePool \/ OctaviaFinishes \/ pools' = pools
  BY Zenon DEF outside, octavia
<1>7. EnsureMonitor \/ OctaviaFinishes \/ monitors' = monitors
  BY Zenon DEF outside, octavia
<1>8. MemberRequests \/ OctaviaFinishes \/ members' = members
  BY Zenon DEF outside, octavia, MemberRequests
<1>9. GetOrCreateFloatingIP \/ DeleteFloatingIP \/ (fips' = fips /\ nfips' = nfips)
  BY Zenon DEF outside, floating
<1>10. AssociateFloatingIP \/ DisassociateFloatingIP \/ bound' = bound
  BY Zenon DEF outside, floating
<1>11. DisassociateFloatingIP \/ fip' \in {fip, 0}
  BY Zenon DEF outside, worker, Finish, Stop
<1>12. MachineSteps \/ Crash \/ UNCHANGED member
  BY Zenon DEF outside, member, MachineSteps
<1>13. (\E m \in Machines : Readdress(m)) \/ addr' = addr
  BY Zenon
<1>14. EditSpec \/ Move \/ (\E m \in Machines : Readdress(m)) \/ changes' = changes
  BY Zenon
<1>15. ClusterEvent \/ Move \/ Crash \/ ccache' = ccache
  BY Zenon
<1> QED BY <1>1, <1>2, <1>3, <1>4, <1>5, <1>6, <1>7, <1>8, <1>9, <1>10, <1>11, <1>12,
           <1>13, <1>14, <1>15

-----------------------------------------------------------------------------
(* Types *)

\* What the assumptions on the constants say about the sets built from them.
LEMMA Constants ==
  /\ NPorts \in Nat /\ NPorts >= 1 /\ 1 \in Ports /\ Ports \subseteq Nat
  /\ MaxFIPs \in Nat /\ MaxChanges \in Nat
  /\ UserFIP = MaxFIPs + 1 /\ VIP = MaxFIPs + 2
  /\ UserFIP \in Hosts \ {0} /\ VIP \in Hosts \ {0} /\ 0 \in Hosts /\ 0..MaxFIPs \subseteq Hosts
  /\ 0 \in Settings /\ Absent \notin Settings /\ NewCluster \in Cluster
<1>1. NPorts \in Nat /\ NPorts >= 1 /\ MaxFIPs \in Nat /\ MaxChanges \in Nat
  BY LoadBalancerAssumption
<1>2. 0 \in Hosts /\ 0 \in Settings
  BY <1>1 DEF Hosts, VIP, Settings
<1>3. NewCluster \in Cluster
  BY <1>2 DEF NewCluster, Cluster
<1> QED BY <1>1, <1>2, <1>3 DEF Ports, UserFIP, VIP, Hosts, Settings, Absent

\* A field that the patch writes has the type of the fields it chooses from.
LEMMA PickType == ASSUME NEW S, NEW a \in S, NEW b, NEW c \in S PROVE Pick(a, b, c) \in S
BY DEF Pick

\* The load balancer starts in its types.
LEMMA InitTypes == Init => TypeOK /\ Counted
<1> SUFFICES ASSUME Init PROVE TypeOK /\ Counted
  OBVIOUS
<1>1. ClustersOK
  <2>1. ASSUME NEW h \in Hosts PROVE [NewCluster EXCEPT !.endpoint = h] \in Cluster
    BY Constants DEF Cluster
  <2>2. cluster \in Cluster
    BY <2>1, Constants DEF Init
  <2> QED BY <2>2, Constants, LoadBalancerAssumption DEF Init, ClustersOK
<1>2. OctaviaOK
  BY Constants DEF Init, OctaviaOK
<1>3. FloatingOK
  BY Constants DEF Init, FloatingOK
<1>4. WorkerOK
  BY Constants DEF Init, WorkerOK, Steps
<1>5. MembersOK
  BY Constants DEF Init, MembersOK, MemberSteps
<1>6. CountersOK
  BY Constants, LoadBalancerAssumption DEF Init, CountersOK
<1>7. Counted
  BY DEF Init, Counted, NewCluster
<1> QED BY <1>1, <1>2, <1>3, <1>4, <1>5, <1>6, <1>7, Zenon DEF Init, TypeOK

\* The floating IP that getAPIServerFloatingIP finds, and the endpoint, are hosts.
LEMMA FoundIP ==
  ASSUME TypeOK
  PROVE  APIServerFloatingIP \in Hosts /\ Host \in Hosts
<1>1. w.ip \in Hosts /\ w.endpoint \in Hosts /\ SpecFIP \in Hosts
  BY Constants DEF TypeOK, ClustersOK, Cluster, SpecFIP
<1> QED BY <1>1, Constants DEF APIServerFloatingIP, Host

\* What GetOrCreateFloatingIP does to the working copy and to the floating IPs.
LEMMA FloatingIPStep ==
  ASSUME TypeOK, GetOrCreateFloatingIP
  PROVE  \E new \in Hosts \ {0} :
           /\ \/ new = APIServerFloatingIP
              \/ APIServerFloatingIP = 0 /\ new = nfips + 1 /\ nfips < MaxFIPs
           /\ \/ w' = [w EXCEPT !.ip = new] /\ pc' = "associate"
              \/ w' = w /\ pc' = "patchMeta"
           /\ fips' \in {fips, fips \cup {new}}
           /\ nfips' \in {nfips} \cup (IF APIServerFloatingIP = 0 THEN {new} ELSE {})
<1> DEFINE ip  == APIServerFloatingIP
           new == IF ip = 0 THEN nfips + 1 ELSE ip
<1>1. ip \in Hosts /\ nfips \in 0..MaxFIPs
  BY FoundIP DEF TypeOK, FloatingOK
<1>2. new # UserFIP \/ ip = UserFIP
  BY DEF GetOrCreateFloatingIP
<1>3. new \in Hosts \ {0} /\ (ip = 0 => nfips < MaxFIPs)
  BY <1>1, <1>2, Constants DEF Hosts
<1>4. /\ \/ w' = [w EXCEPT !.ip = new] /\ pc' = "associate"
         \/ w' = w /\ pc' = "patchMeta"
      /\ fips' \in {fips, fips \cup {new}}
      /\ nfips' \in {nfips} \cup (IF ip = 0 THEN {new} ELSE {})
  BY DEF GetOrCreateFloatingIP, Goto, Return
<1>5. new = ip \/ (ip = 0 /\ new = nfips + 1 /\ nfips < MaxFIPs)
  BY <1>3
<1> HIDE DEF new
<1> QED BY <1>3, <1>4, <1>5

\* Every step keeps the types of the cluster and its copies.
LEMMA ClustersNext == TypeOK /\ Counted /\ [Next]_vars => ClustersOK' /\ Counted'
<1> SUFFICES ASSUME TypeOK, Counted, [Next]_vars PROVE ClustersOK' /\ Counted'
  OBVIOUS
<1>0. /\ cluster \in Cluster /\ ccache \in Cluster /\ base \in Cluster /\ w \in Cluster
      /\ mode \in IPModes
      /\ NewCluster \in Cluster /\ changes \in 0..MaxChanges /\ MaxChanges \in Nat
      /\ addr \in [Machines -> 1..(MaxChanges + 1)] /\ cluster.settings \in 0..MaxChanges
  BY Constants DEF TypeOK, ClustersOK, CountersOK, MembersOK, Cluster, Settings
<1>1. cluster' \in Cluster /\ cluster'.settings <= changes'
  <2>1. CASE PatchMeta
    <3> DEFINE e == Pick(cluster.endpoint, base.endpoint, w.endpoint)  x == w.exists
    <3>1. e \in Hosts /\ x \in BOOLEAN
      BY <1>0, PickType DEF Cluster
    <3>2. /\ cluster' = cluster \/ cluster' = [cluster EXCEPT !.endpoint = e, !.exists = x]
          /\ changes' = changes
      BY <2>1 DEF PatchMeta
    <3> HIDE DEF e, x
    <3>3. [cluster EXCEPT !.endpoint = e, !.exists = x] \in Cluster
      BY <1>0, <3>1 DEF Cluster
    <3>4. [cluster EXCEPT !.endpoint = e, !.exists = x].settings = cluster.settings
      BY <1>0 DEF Cluster
    <3> QED BY <1>0, <3>2, <3>3, <3>4 DEF Counted
  <2>2. CASE PatchStatus
    <3> DEFINE i == Pick(cluster.ip, base.ip, w.ip)  r == Pick(cluster.ready, base.ready, w.ready)
    <3>1. i \in Hosts /\ r \in BOOLEAN
      BY <1>0, PickType DEF Cluster
    <3>2. /\ cluster' = cluster \/ cluster' = [cluster EXCEPT !.ip = i, !.ready = r]
          /\ changes' = changes
      BY <2>2 DEF PatchStatus
    <3> HIDE DEF i, r
    <3>3. [cluster EXCEPT !.ip = i, !.ready = r] \in Cluster
      BY <1>0, <3>1 DEF Cluster
    <3>4. [cluster EXCEPT !.ip = i, !.ready = r].settings = cluster.settings
      BY <1>0 DEF Cluster
    <3> QED BY <1>0, <3>2, <3>3, <3>4 DEF Counted
  <2>3. CASE EditSpec
    <3>1. /\ changes < MaxChanges /\ changes' = changes + 1
          /\ cluster' = [cluster EXCEPT !.settings = cluster.settings + 1]
      BY <2>3 DEF EditSpec, Change
    <3>2. cluster.settings + 1 \in Settings /\ cluster.settings + 1 <= changes'
      BY <1>0, <3>1 DEF Counted, Settings
    <3> QED BY <1>0, <3>1, <3>2 DEF Cluster
  <2>4. CASE DeleteCluster
    BY <1>0, <2>4 DEF DeleteCluster, Cluster, Counted
  <2>5. CASE Move
    <3>1. ASSUME NEW h \in Hosts, NEW b \in BOOLEAN
          PROVE  /\ [cluster EXCEPT !.ip = h, !.ready = b] \in Cluster
                 /\ [cluster EXCEPT !.ip = h, !.ready = b].settings = cluster.settings
      BY <1>0 DEF Cluster
    <3>2. cluster' = [cluster EXCEPT !.ip = 0, !.ready = FALSE] /\ changes' = changes + 1
      BY <2>5 DEF Move, Change
    <3>3. cluster' \in Cluster /\ cluster'.settings = cluster.settings
      <4>1. 0 \in Hosts /\ FALSE \in BOOLEAN
        BY Constants
      <4> QED BY <3>1, <3>2, <4>1, Zenon
    <3> QED BY <1>0, <3>2, <3>3 DEF Counted
  <2>6. CASE cluster' = cluster
    <3>1. changes' \in {changes, changes + 1}
      BY Frame DEF EditSpec, Move, Readdress, Change
    <3> QED BY <1>0, <2>6, <3>1 DEF Counted
  <2> QED BY <2>1, <2>2, <2>3, <2>4, <2>5, <2>6, Frame
<1>2. \A m \in Machines : addr'[m] <= changes' + 1
  <2>1. CASE \E m \in Machines : Readdress(m)
    <3>1. PICK m \in Machines : /\ changes' = changes + 1
                                /\ addr' = [addr EXCEPT ![m] = addr[m] + 1]
      BY <2>1 DEF Readdress, Change
    <3> QED BY <1>0, <3>1 DEF Counted
  <2>2. CASE addr' = addr
    <3>1. changes' \in {changes, changes + 1}
      BY Frame DEF EditSpec, Move, Readdress, Change
    <3> QED BY <1>0, <2>2, <3>1 DEF Counted
  <2> QED BY <2>1, <2>2, Frame
<1>3. w' \in Cluster
  <2>1. CASE DeleteLoadBalancer
    <3>1. w' \in {w, [w EXCEPT !.exists = FALSE]}
      BY <2>1 DEF DeleteLoadBalancer, Kept
    <3> QED BY <1>0, <3>1 DEF Cluster
  <2>2. CASE GetOrCreateFloatingIP
    <3>1. w' = w \/ \E h \in Hosts : w' = [w EXCEPT !.ip = h]
      BY <2>2, FloatingIPStep
    <3> QED BY <1>0, <3>1 DEF Cluster
  <2>3. CASE UpdateAllowedCIDRs
    <3>1. w' = w \/ w' = [w EXCEPT !.endpoint = Host, !.ready = TRUE]
      BY <2>3 DEF UpdateAllowedCIDRs, NextPort
    <3> QED BY <1>0, <3>1, FoundIP DEF Cluster
  <2> QED BY <1>0, <2>1, <2>2, <2>3, Frame
<1>4. ccache' \in Cluster
  BY <1>0, <1>1, Frame DEF ClusterEvent, Move, Crash
<1> QED BY <1>0, <1>1, <1>2, <1>3, <1>4, Frame DEF ClustersOK, Counted

\* Every step keeps the types of what Octavia holds.
LEMMA OctaviaNext == TypeOK /\ Counted /\ [Next]_vars => OctaviaOK'
<1> SUFFICES ASSUME TypeOK, Counted, [Next]_vars PROVE OctaviaOK'
  OBVIOUS
<1>0. /\ w.settings \in Settings /\ port \in Ports
      /\ mip \in [Machines -> 0..(MaxChanges + 1)] /\ mport \in [Machines -> Ports]
      /\ listeners \in [Ports -> Settings \cup {Absent}]
      /\ monitors \in [Ports -> Settings \cup {Absent}]
      /\ members \in [Ports -> [Machines -> 0..(MaxChanges + 1)]]
      /\ 0 \in 0..(MaxChanges + 1)
  BY Constants DEF TypeOK, ClustersOK, Cluster, WorkerOK, MembersOK, OctaviaOK
<1>1. lb' \in {"absent", "PENDING_CREATE", "ACTIVE", "PENDING_UPDATE", "PENDING_DELETE"}
  <2>1. lb' \in {lb, "absent", "PENDING_CREATE", "ACTIVE", "PENDING_UPDATE", "PENDING_DELETE"}
    <3>1. CASE GetOrCreateLoadBalancer
      BY <3>1 DEF GetOrCreateLoadBalancer
    <3>2. CASE RequestDeletion
      BY <3>2 DEF RequestDeletion
    <3>3. CASE ~GetOrCreateLoadBalancer /\ ~RequestDeletion
      BY <3>3, Zenon DEF Next, Worker, Build, Delete, MemberWorker, vars, At, MemberAt, Start,
         PatchMeta, PatchStatus, WaitForLoadBalancerActive, GetOrCreateFloatingIP,
         AssociateFloatingIP, GetOrCreateListener, GetOrCreatePool, EnsureMonitor,
         UpdateAllowedCIDRs, WaitForMachines, DeleteLoadBalancer, DisassociateFloatingIP,
         DeleteFloatingIP, MemberStart, FindMember, MemberWait, DeletePoolMember,
         CreatePoolMember, OctaviaFinishes, ClusterEvent, EditSpec, DeleteCluster, Move, Crash,
         DeleteMachine, Readdress, outside, octavia, Request, Found, MemberRequest, Changing
    <3> QED BY <3>1, <3>2, <3>3
  <2> QED BY <2>1 DEF TypeOK, OctaviaOK
<1>2. listeners' \in [Ports -> Settings \cup {Absent}]
  <2>1. CASE GetOrCreateListener \/ UpdateAllowedCIDRs
    <3>1. listeners' \in {listeners, [listeners EXCEPT ![port] = w.settings]}
      BY <2>1 DEF GetOrCreateListener, UpdateAllowedCIDRs, Request, Found
    <3> QED BY <1>0, <3>1
  <2>2. CASE OctaviaFinishes
    BY <1>0, <2>2 DEF OctaviaFinishes
  <2> QED BY <1>0, <2>1, <2>2, Frame
<1>3. monitors' \in [Ports -> Settings \cup {Absent}]
  <2>1. CASE EnsureMonitor
    <3>1. monitors' \in {monitors, [monitors EXCEPT ![port] = w.settings]}
      BY <2>1 DEF EnsureMonitor, Request, Found
    <3> QED BY <1>0, <3>1
  <2>2. CASE OctaviaFinishes
    BY <1>0, <2>2 DEF OctaviaFinishes
  <2> QED BY <1>0, <2>1, <2>2, Frame
<1>4. pools' \subseteq Ports
  <2>1. CASE GetOrCreatePool
    BY <1>0, <2>1 DEF GetOrCreatePool, Request, Found, TypeOK, OctaviaOK
  <2>2. CASE OctaviaFinishes
    BY <2>2 DEF OctaviaFinishes, TypeOK, OctaviaOK
  <2> QED BY <2>1, <2>2, Frame DEF TypeOK, OctaviaOK
<1>5. members' \in [Ports -> [Machines -> 0..(MaxChanges + 1)]]
  <2>1. CASE MemberRequests
    <3>1. \/ members' = members
          \/ \E m \in Machines, a \in 0..(MaxChanges + 1) :
               members' = [members EXCEPT ![mport[m]][m] = a]
      BY <1>0, <2>1 DEF MemberRequests, DeletePoolMember, CreatePoolMember, MemberRequest
    <3>2. ASSUME NEW m \in Machines, NEW a \in 0..(MaxChanges + 1),
                 members' = [members EXCEPT ![mport[m]][m] = a]
          PROVE  members' \in [Ports -> [Machines -> 0..(MaxChanges + 1)]]
      BY <1>0, <3>2
    <3> QED BY <1>0, <3>1, <3>2
  <2>2. CASE OctaviaFinishes
    BY <1>0, <2>2 DEF OctaviaFinishes
  <2> QED BY <1>0, <2>1, <2>2, Frame
<1> QED BY <1>1, <1>2, <1>3, <1>4, <1>5 DEF OctaviaOK

\* Every step keeps the types of the floating IPs.
LEMMA FloatingNext == TypeOK /\ [Next]_vars => FloatingOK'
<1> SUFFICES ASSUME TypeOK, [Next]_vars PROVE FloatingOK'
  OBVIOUS
<1>0. /\ fips \subseteq Hosts \ {0} /\ nfips \in 0..MaxFIPs /\ bound \in Hosts /\ fip \in Hosts
      /\ w.ip \in Hosts /\ 0 \in Hosts
  BY Constants DEF TypeOK, FloatingOK, ClustersOK, Cluster
<1>1. fips' \subseteq Hosts \ {0} /\ nfips' \in 0..MaxFIPs
  <2>1. CASE GetOrCreateFloatingIP
    BY <1>0, <2>1, FloatingIPStep, Constants DEF Hosts
  <2>2. CASE DeleteFloatingIP
    BY <1>0, <2>2 DEF DeleteFloatingIP
  <2> QED BY <1>0, <2>1, <2>2, Frame
<1>2. bound' \in Hosts
  BY <1>0, Frame DEF AssociateFloatingIP, DisassociateFloatingIP
<1>3. fip' \in Hosts
  BY <1>0, Frame DEF DisassociateFloatingIP
<1> QED BY <1>1, <1>2, <1>3 DEF FloatingOK

\* Every step keeps the types of the state of the cluster worker.
LEMMA WorkerNext == TypeOK /\ [Next]_vars => WorkerOK' /\ queued' \in BOOLEAN
<1> SUFFICES ASSUME TypeOK, [Next]_vars PROVE WorkerOK' /\ queued' \in BOOLEAN
  OBVIOUS
<1>1. pc' \in Steps /\ then' \in Steps
  <2>0. pc \in Steps /\ then \in Steps
    BY DEF TypeOK, WorkerOK
  <2>1. CASE \/ Start \/ GetOrCreateLoadBalancer \/ WaitForLoadBalancerActive
             \/ DisassociateFloatingIP
    BY <2>0, <2>1 DEF Start, GetOrCreateLoadBalancer, WaitForLoadBalancerActive,
       DisassociateFloatingIP, Goto, Await, Return, Steps
  <2>2. CASE ~(\/ Start \/ GetOrCreateLoadBalancer \/ WaitForLoadBalancerActive
               \/ DisassociateFloatingIP)
    <3>1. \/ pc' = pc
          \/ pc' \in {"idle", "wait", "associate", "listener", "pool", "monitor", "cidrs",
                      "delete", "disassociate", "deleteLB", "patchMeta", "patchStatus"}
      BY <2>2, Zenon DEF Next, Worker, Build, Delete, MemberWorker, vars, At, MemberAt,
         PatchMeta, PatchStatus, GetOrCreateFloatingIP, AssociateFloatingIP,
         GetOrCreateListener, GetOrCreatePool, EnsureMonitor, UpdateAllowedCIDRs,
         WaitForMachines, DeleteLoadBalancer, DeleteFloatingIP, RequestDeletion, MemberStart,
         FindMember, MemberWait, DeletePoolMember, CreatePoolMember, OctaviaFinishes,
         ClusterEvent, EditSpec, DeleteCluster, Move, Crash, DeleteMachine, Readdress, outside,
         worker, Request, Found, NextPort, Goto, Await, Return, Finish, Stop
    <3>2. then' \in Steps
      BY <2>0, <2>2, Zenon DEF Next, Worker, Build, Delete, MemberWorker, vars, At, MemberAt,
         PatchMeta, PatchStatus, GetOrCreateFloatingIP, AssociateFloatingIP,
         GetOrCreateListener, GetOrCreatePool, EnsureMonitor, UpdateAllowedCIDRs,
         WaitForMachines, DeleteLoadBalancer, DeleteFloatingIP, RequestDeletion, MemberStart,
         FindMember, MemberWait, DeletePoolMember, CreatePoolMember, OctaviaFinishes,
         ClusterEvent, EditSpec, DeleteCluster, Move, Crash, DeleteMachine, Readdress, outside,
         worker, Request, Found, NextPort, Goto, Await, Return, Finish, Stop, Steps
    <3> QED BY <2>0, <3>1, <3>2 DEF Steps
  <2> QED BY <2>1, <2>2
<1> USE DEF Next, Worker, Build, Delete, MemberWorker, vars, At, MemberAt, Start, PatchMeta,
   PatchStatus, GetOrCreateLoadBalancer, WaitForLoadBalancerActive, GetOrCreateFloatingIP,
   AssociateFloatingIP, GetOrCreateListener, GetOrCreatePool, EnsureMonitor,
   UpdateAllowedCIDRs, WaitForMachines, DeleteLoadBalancer, DisassociateFloatingIP,
   DeleteFloatingIP, RequestDeletion, MemberStart, FindMember, MemberWait, DeletePoolMember,
   CreatePoolMember, OctaviaFinishes, ClusterEvent, EditSpec, DeleteCluster, Move, Crash,
   DeleteMachine, Readdress
<1>3. result' \in {"done", "requeue", "error"}
  BY Zenon DEF outside, worker, Request, Found, NextPort, Goto, Await, Return, Finish, Stop,
     TypeOK, WorkerOK
<1>4. queued' \in BOOLEAN
  BY Zenon DEF outside, Finish, TypeOK
<1>5. port' \in {port, 1} \/ (port < NPorts /\ port' = port + 1)
  BY Zenon DEF outside, worker, Request, Found, NextPort, Goto, Await, Return, Finish, Stop
<1> HIDE DEF Next, Worker, Build, Delete, MemberWorker, vars, At, MemberAt, Start, PatchMeta,
   PatchStatus, GetOrCreateLoadBalancer, WaitForLoadBalancerActive, GetOrCreateFloatingIP,
   AssociateFloatingIP, GetOrCreateListener, GetOrCreatePool, EnsureMonitor,
   UpdateAllowedCIDRs, WaitForMachines, DeleteLoadBalancer, DisassociateFloatingIP,
   DeleteFloatingIP, RequestDeletion, MemberStart, FindMember, MemberWait, DeletePoolMember,
   CreatePoolMember, OctaviaFinishes, ClusterEvent, EditSpec, DeleteCluster, Move, Crash,
   DeleteMachine, Readdress
<1>6. port' \in Ports
  BY <1>5, Constants DEF Ports, TypeOK, WorkerOK
<1> QED BY <1>1, <1>3, <1>4, <1>6 DEF WorkerOK

\* What a step does to the worker of one machine, and that it leaves the others alone.
LEMMA OwnEntries ==
  ASSUME TypeOK, NEW m \in Machines, MemberWorker(m) \/ DeleteMachine(m)
  PROVE  \/ UNCHANGED member
         \/ \E s \in MemberSteps, p \in Ports, a \in 0..(MaxChanges + 1),
               t \in {"running", "deleting", "gone"} :
              /\ mpc' = [mpc EXCEPT ![m] = s] /\ mport' = [mport EXCEPT ![m] = p]
              /\ mip' = [mip EXCEPT ![m] = a] /\ machine' = [machine EXCEPT ![m] = t]
<1>0. /\ machine \in [Machines -> {"running", "deleting", "gone"}]
      /\ addr \in [Machines -> 1..(MaxChanges + 1)]
      /\ mpc \in [Machines -> MemberSteps] /\ mport \in [Machines -> Ports]
      /\ mip \in [Machines -> 0..(MaxChanges + 1)] /\ 1 \in Ports /\ 0 \in 0..(MaxChanges + 1)
  BY Constants DEF TypeOK, MembersOK
<1>1. /\ mpc = [mpc EXCEPT ![m] = mpc[m]] /\ mport = [mport EXCEPT ![m] = mport[m]]
      /\ mip = [mip EXCEPT ![m] = mip[m]] /\ machine = [machine EXCEPT ![m] = machine[m]]
  BY <1>0
<1>2. mpc' = mpc \/ \E s \in MemberSteps : mpc' = [mpc EXCEPT ![m] = s]
  <2>1. \/ mpc' = mpc
        \/ \E s \in {"idle", "member", "waitDelete", "delete", "waitCreate", "create",
                     "waitDone"} : mpc' = [mpc EXCEPT ![m] = s]
    BY DEF MemberWorker, DeleteMachine, outside, MemberStart, FindMember, MemberWait,
       DeletePoolMember, CreatePoolMember, MemberRequest, MemberNext, MemberGoto, MemberError
  <2> QED BY <2>1 DEF MemberSteps
<1>3. mport' = mport \/ \E p \in Ports : mport' = [mport EXCEPT ![m] = p]
  <2>1. \/ mport' = mport \/ mport' = [mport EXCEPT ![m] = 1]
        \/ mport[m] < NPorts /\ mport' = [mport EXCEPT ![m] = mport[m] + 1]
    BY DEF MemberWorker, DeleteMachine, outside, MemberStart, FindMember, MemberWait,
       DeletePoolMember, CreatePoolMember, MemberRequest, MemberNext, MemberGoto, MemberError
  <2>2. mport[m] < NPorts => mport[m] + 1 \in Ports
    BY <1>0, Constants DEF Ports
  <2> QED BY <1>0, <2>1, <2>2
<1>4. mip' = mip \/ \E a \in 0..(MaxChanges + 1) : mip' = [mip EXCEPT ![m] = a]
  <2>1. mip' \in {mip, [mip EXCEPT ![m] = 0], [mip EXCEPT ![m] = addr[m]]}
    BY DEF MemberWorker, DeleteMachine, outside, MemberStart, FindMember, MemberWait,
       DeletePoolMember, CreatePoolMember, MemberRequest, MemberNext, MemberGoto, MemberError
  <2>2. addr[m] \in 0..(MaxChanges + 1)
    BY <1>0, Constants
  <2> QED BY <1>0, <2>1, <2>2
<1>5. \/ machine' = machine
      \/ \E t \in {"running", "deleting", "gone"} : machine' = [machine EXCEPT ![m] = t]
  BY DEF MemberWorker, DeleteMachine, outside, MemberStart, FindMember, MemberWait,
     DeletePoolMember, CreatePoolMember, MemberRequest, MemberNext, MemberGoto, MemberError
<1> QED BY <1>0, <1>1, <1>2, <1>3, <1>4, <1>5

\* Steps of machines, seen by all machine workers.
LEMMA MachineStep ==
  ASSUME TypeOK, [Next]_vars
  PROVE  \/ UNCHANGED member
         \/ Crash /\ machine' = machine
         \/ \E m \in Machines :
              /\ \E s \in MemberSteps, p \in Ports, a \in 0..(MaxChanges + 1),
                    t \in {"running", "deleting", "gone"} :
                   /\ mpc' = [mpc EXCEPT ![m] = s] /\ mport' = [mport EXCEPT ![m] = p]
                   /\ mip' = [mip EXCEPT ![m] = a] /\ machine' = [machine EXCEPT ![m] = t]
              /\ MemberWorker(m) \/ DeleteMachine(m)
<1>1. Crash => machine' = machine
  BY DEF Crash
<1> QED BY <1>1, OwnEntries, Frame DEF MachineSteps

\* Every step keeps the types of pools and members.
LEMMA MembersNext == TypeOK /\ Counted /\ [Next]_vars => MembersOK'
<1> SUFFICES ASSUME TypeOK, Counted, [Next]_vars PROVE MembersOK'
  OBVIOUS
<1>0. /\ machine \in [Machines -> {"running", "deleting", "gone"}]
      /\ addr \in [Machines -> 1..(MaxChanges + 1)]
      /\ mpc \in [Machines -> MemberSteps] /\ mport \in [Machines -> Ports]
      /\ mip \in [Machines -> 0..(MaxChanges + 1)] /\ 1 \in Ports /\ 0 \in 0..(MaxChanges + 1)
      /\ changes \in 0..MaxChanges
  BY Constants DEF TypeOK, MembersOK, CountersOK
<1>1. addr' \in [Machines -> 1..(MaxChanges + 1)]
  <2>1. CASE \E m \in Machines : Readdress(m)
    <3>1. PICK m \in Machines : /\ changes < MaxChanges
                                /\ addr' = [addr EXCEPT ![m] = addr[m] + 1]
      BY <2>1 DEF Readdress, Change
    <3>2. addr[m] + 1 \in 1..(MaxChanges + 1)
      BY <1>0, <3>1, Constants DEF Counted
    <3> QED BY <1>0, <3>1, <3>2
  <2> QED BY <1>0, <2>1, Frame
<1>2. /\ machine' \in [Machines -> {"running", "deleting", "gone"}]
      /\ mpc' \in [Machines -> MemberSteps] /\ mport' \in [Machines -> Ports]
      /\ mip' \in [Machines -> 0..(MaxChanges + 1)]
  <2>1. CASE UNCHANGED member
    BY <1>0, <2>1 DEF member
  <2>2. CASE Crash
    BY <1>0, <2>2 DEF Crash, MemberSteps
  <2>3. ASSUME NEW m \in Machines, NEW s \in MemberSteps, NEW q \in Ports,
               NEW a \in 0..(MaxChanges + 1), NEW t \in {"running", "deleting", "gone"},
               mpc' = [mpc EXCEPT ![m] = s], mport' = [mport EXCEPT ![m] = q],
               mip' = [mip EXCEPT ![m] = a], machine' = [machine EXCEPT ![m] = t]
        PROVE  /\ machine' \in [Machines -> {"running", "deleting", "gone"}]
               /\ mpc' \in [Machines -> MemberSteps] /\ mport' \in [Machines -> Ports]
               /\ mip' \in [Machines -> 0..(MaxChanges + 1)]
    BY <1>0, <2>3
  <2> QED BY <2>1, <2>2, <2>3, MachineStep
<1> QED BY <1>1, <1>2 DEF MembersOK

\* Every step keeps the counters within their bounds.
LEMMA CountersNext == TypeOK /\ [Next]_vars => CountersOK'
<1> SUFFICES ASSUME TypeOK, [Next]_vars PROVE CountersOK'
  OBVIOUS
<1>1. faults' = faults \/ (faults < MaxFaults /\ faults' = faults + 1)
  BY Zenon DEF Next, Worker, Build, Delete, MemberWorker, vars, At, MemberAt, Start, PatchMeta,
     PatchStatus, GetOrCreateLoadBalancer, WaitForLoadBalancerActive, GetOrCreateFloatingIP,
     AssociateFloatingIP, GetOrCreateListener, GetOrCreatePool, EnsureMonitor,
     UpdateAllowedCIDRs, WaitForMachines, DeleteLoadBalancer, DisassociateFloatingIP,
     DeleteFloatingIP, RequestDeletion, MemberStart, FindMember, MemberWait, DeletePoolMember,
     CreatePoolMember, OctaviaFinishes, ClusterEvent, EditSpec, DeleteCluster, Move, Crash,
     DeleteMachine, Readdress, outside, Works, Fails, Request, Found, MemberRequest
<1>2. changes' = changes \/ (changes < MaxChanges /\ changes' = changes + 1)
  BY Frame DEF EditSpec, Move, Readdress, Change
<1> QED BY <1>1, <1>2, LoadBalancerAssumption DEF TypeOK, CountersOK

\* Every step keeps the types.
LEMMA TypeNext == TypeOK /\ Counted /\ [Next]_vars => TypeOK' /\ Counted'
BY ClustersNext, OctaviaNext, FloatingNext, WorkerNext, MembersNext, CountersNext DEF TypeOK

\* Every variable stays in its type, whichever calls fail and whenever the cluster,
\* its machines and Octavia change.
THEOREM TypeCorrect == Spec => []TypeOK
BY InitTypes, TypeNext, PTL DEF Spec

-----------------------------------------------------------------------------
(* The endpoint *)

\* The steps as the cluster worker sees them.
LEMMA Flow ==
  ASSUME [Next]_vars
  PROVE  \/ (Start /\ pc' # pc) \/ PatchStatus \/ Crash \/ PatchMeta \/ Build \/ Delete
         \/ UNCHANGED <<pc, port, then, base, w>>
<1>1. CASE Start
  <2>1. pc' # pc \/ UNCHANGED <<pc, port, then, base, w>>
    BY <1>1 DEF Start
  <2> QED BY <1>1, <2>1
<1>2. CASE ~Start
  BY <1>2, Zenon DEF Next, Worker, MemberWorker, vars, MemberAt, MemberStart, FindMember,
     MemberWait, DeletePoolMember, CreatePoolMember, OctaviaFinishes, ClusterEvent, EditSpec,
     DeleteCluster, Move, DeleteMachine, Readdress, outside, worker
<1> QED BY <1>1, <1>2

\* What the steps do to the stored cluster and to the informer's copy.
LEMMA ClusterStep ==
  ASSUME TypeOK, [Next]_vars
  PROVE  /\ cluster.deleting => cluster'.deleting
         /\ \/ cluster'.endpoint = cluster.endpoint
            \/ PatchMeta /\ cluster'.endpoint = Pick(cluster.endpoint, base.endpoint, w.endpoint)
         /\ \/ cluster'.ip = cluster.ip
            \/ PatchStatus /\ cluster'.ip = Pick(cluster.ip, base.ip, w.ip)
            \/ Move /\ cluster'.ip = 0
         /\ ccache' \in {ccache, cluster, cluster'}
<1>0. cluster \in Cluster
  BY DEF TypeOK, ClustersOK
<1>1. ccache' \in {ccache, cluster, cluster'}
  BY Frame DEF ClusterEvent, Move, Crash
<1>2. CASE PatchMeta
  BY <1>0, <1>1, <1>2 DEF PatchMeta, Cluster
<1>3. CASE PatchStatus
  BY <1>0, <1>1, <1>3 DEF PatchStatus, Cluster
<1>4. CASE EditSpec \/ DeleteCluster
  BY <1>0, <1>1, <1>4 DEF EditSpec, DeleteCluster, Cluster
<1>5. CASE Move
  BY <1>0, <1>1, <1>5 DEF Move, Cluster
<1> QED BY <1>1, <1>2, <1>3, <1>4, <1>5, Frame

\* The steps by which a run begins, goes on and ends, and what it has read.
LEMMA RunStep ==
  ASSUME TeardownInv, [Next]_vars
  PROVE  \/ pc = "idle" /\ pc' \in {"machines", "lb"} /\ base' = ccache /\ ccache' = ccache
         \/ pc' = "idle" /\ base' = NewCluster
         \/ pc # "idle" /\ pc' # "idle" /\ base' = base
         \/ UNCHANGED <<pc, port, then, base, w>>
<1>1. CASE Start /\ pc' # pc
  BY <1>1 DEF Start
<1>2. CASE PatchStatus \/ Crash
  BY <1>2 DEF PatchStatus, Crash, Finish, Stop
<1>3. CASE PatchMeta
  BY <1>3 DEF PatchMeta
<1>4. CASE WaitForLoadBalancerActive
  <2>1. pc = "wait" /\ base' = base /\ pc' \in {then, "patchMeta"}
    BY <1>4 DEF WaitForLoadBalancerActive, At, Return
  <2> QED BY <2>1 DEF TeardownInv, LoopSteps
<1>5. CASE Build /\ ~WaitForLoadBalancerActive
  BY <1>5 DEF Build, GetOrCreateLoadBalancer, GetOrCreateFloatingIP, AssociateFloatingIP,
     GetOrCreateListener, GetOrCreatePool, EnsureMonitor, UpdateAllowedCIDRs, Request, Found,
     NextPort, At, Goto, Await, Return
<1>6. CASE Delete
  BY <1>6 DEF Delete, WaitForMachines, DeleteLoadBalancer, DisassociateFloatingIP,
     DeleteFloatingIP, RequestDeletion, At, Goto, Return
<1> QED BY <1>1, <1>2, <1>3, <1>4, <1>5, <1>6, Flow

\* What is known of the deletion is not forgotten, by the informer or by the worker.
LEMMA GoingStep ==
  ASSUME TypeOK, TeardownInv, [Next]_vars
  PROVE  /\ ccache'.deleting => cluster'.deleting
         /\ ccache.deleting => ccache'.deleting
         /\ base'.deleting => ccache'.deleting
         /\ Going => Going'
<1>0. ~NewCluster.deleting
  BY DEF NewCluster
<1>1. /\ ccache'.deleting => cluster'.deleting
      /\ ccache.deleting => ccache'.deleting
  BY ClusterStep DEF TeardownInv
<1>2. base'.deleting => ccache'.deleting
  BY <1>0, <1>1, Frame DEF TeardownInv
<1>3. Going => Going'
  BY <1>1, RunStep DEF Going, TeardownInv
<1> QED BY <1>1, <1>2, <1>3

\* No step begins the teardown before the worker has read that the cluster is deleted.
LEMMA TeardownNext == TypeOK /\ TeardownInv /\ [Next]_vars => TeardownInv'
<1> SUFFICES ASSUME TypeOK, TeardownInv, [Next]_vars PROVE TeardownInv'
  OBVIOUS
<1>1. /\ pc' \in DeleteSteps => base'.deleting
      /\ pc' \in BuildSteps => ~base'.deleting
      /\ pc' = "wait" => then' \in {"floatingIP"} \cup LoopSteps
  <2> USE DEF DeleteSteps, BuildSteps, LoopSteps
  <2>1. CASE Start /\ pc' # pc
    BY <2>1 DEF Start
  <2>2. CASE PatchStatus \/ Crash \/ PatchMeta
    BY <2>2 DEF PatchStatus, Crash, PatchMeta, Finish, Stop
  <2>3. CASE GetOrCreateLoadBalancer
    BY <2>3 DEF GetOrCreateLoadBalancer, At, Await, Return, TeardownInv
  <2>4. CASE WaitForLoadBalancerActive
    BY <2>4 DEF WaitForLoadBalancerActive, At, Return, TeardownInv
  <2>5. CASE \/ GetOrCreateFloatingIP \/ AssociateFloatingIP \/ GetOrCreateListener
             \/ GetOrCreatePool \/ EnsureMonitor \/ UpdateAllowedCIDRs
    <3>1. /\ pc' \in {"associate", "patchMeta", "wait", "listener", "pool", "monitor", "cidrs"}
          /\ pc' = "wait" => then' \in {"listener", "pool", "monitor", "cidrs"}
      BY <2>5 DEF GetOrCreateFloatingIP, AssociateFloatingIP, GetOrCreateListener,
         GetOrCreatePool, EnsureMonitor, UpdateAllowedCIDRs, Request, Found, NextPort, Goto,
         Await, Return
    <3>2. pc \in BuildSteps /\ base' = base
      BY <2>5 DEF GetOrCreateFloatingIP, AssociateFloatingIP, GetOrCreateListener,
         GetOrCreatePool, EnsureMonitor, UpdateAllowedCIDRs, At
    <3> QED BY <3>1, <3>2 DEF TeardownInv
  <2>6. CASE Delete
    <3>1. /\ pc \in DeleteSteps /\ base' = base
          /\ pc' \in {"delete", "disassociate", "deleteIP", "deleteLB", "patchMeta"}
      BY <2>6 DEF Delete, WaitForMachines, DeleteLoadBalancer, DisassociateFloatingIP,
         DeleteFloatingIP, RequestDeletion, At, Goto, Return
    <3> QED BY <3>1 DEF TeardownInv
  <2>7. CASE UNCHANGED <<pc, port, then, base, w>>
    BY <2>7 DEF TeardownInv
  <2> QED BY <2>1, <2>2, <2>3, <2>4, <2>5, <2>6, <2>7, Flow DEF Build
<1>2. lb' = "PENDING_DELETE" => Going'
  <2>1. CASE RequestDeletion
    <3>1. Going
      BY <2>1 DEF RequestDeletion, At, TeardownInv, DeleteSteps, Going
    <3> QED BY <3>1, GoingStep
  <2>2. CASE GetOrCreateLoadBalancer
    <3>1. lb' = "PENDING_DELETE" => lb = "PENDING_DELETE"
      BY <2>2 DEF GetOrCreateLoadBalancer
    <3> QED BY <3>1, GoingStep DEF TeardownInv
  <2>3. CASE ~RequestDeletion /\ ~GetOrCreateLoadBalancer
    <3>1. lb' \in {lb, "ACTIVE", "PENDING_UPDATE", "absent"}
      BY <2>3, Zenon DEF Next, Worker, Build, Delete, MemberWorker, vars, At, MemberAt, Start,
         PatchMeta, PatchStatus, WaitForLoadBalancerActive, GetOrCreateFloatingIP,
         AssociateFloatingIP, GetOrCreateListener, GetOrCreatePool, EnsureMonitor,
         UpdateAllowedCIDRs, WaitForMachines, DeleteLoadBalancer, DisassociateFloatingIP,
         DeleteFloatingIP, MemberStart, FindMember, MemberWait, DeletePoolMember,
         CreatePoolMember, OctaviaFinishes, ClusterEvent, EditSpec, DeleteCluster, Move, Crash,
         DeleteMachine, Readdress, outside, octavia, Request, MemberRequest, Changing
    <3> QED BY <3>1, GoingStep DEF TeardownInv
  <2> QED BY <2>1, <2>2, <2>3
<1> QED BY <1>1, <1>2, GoingStep DEF TeardownInv

\* What the steps of the cluster worker do to the working copy.
LEMMA WorkingCopy ==
  ASSUME TypeOK, TeardownInv, Build \/ Delete
  PROVE  /\ base' = base /\ pc \notin {"idle"} \cup PatchSteps
         /\ pc' \notin {"idle", "lb", "patchStatus"}
         /\ cluster' = cluster
         /\ \/ w'.endpoint = w.endpoint /\ w'.ip = w.ip
            \/ GetOrCreateFloatingIP /\ pc' = "associate" /\ w'.endpoint = w.endpoint
            \/ /\ UpdateAllowedCIDRs /\ port >= NPorts /\ pc' = "patchMeta"
               /\ w'.endpoint = Host /\ w'.ip = w.ip
<1> USE DEF PatchSteps
<1>0. w \in Cluster /\ port \in Ports /\ NPorts \in Nat /\ Ports \subseteq Nat
  BY Constants DEF TypeOK, ClustersOK, WorkerOK
<1>1. CASE WaitForLoadBalancerActive
  BY <1>1 DEF WaitForLoadBalancerActive, At, Return, TeardownInv, LoopSteps
<1>2. CASE GetOrCreateLoadBalancer
  BY <1>0, <1>2 DEF GetOrCreateLoadBalancer, At, Await, Return, Cluster
<1>3. CASE GetOrCreateFloatingIP
  <2>1. base' = base /\ pc = "floatingIP" /\ pc' \in {"associate", "patchMeta"} /\ cluster' = cluster
    BY <1>3 DEF GetOrCreateFloatingIP, At, Goto, Return
  <2>2. w' = w \/ (pc' = "associate" /\ \E h : w' = [w EXCEPT !.ip = h])
    BY <1>3, FloatingIPStep
  <2>3. w' = w \/ (pc' = "associate" /\ w'.endpoint = w.endpoint)
    BY <1>0, <2>2 DEF Cluster
  <2> QED BY <1>3, <2>1, <2>3
<1>4. CASE AssociateFloatingIP \/ GetOrCreateListener \/ GetOrCreatePool \/ EnsureMonitor
  BY <1>4 DEF AssociateFloatingIP, GetOrCreateListener, GetOrCreatePool, EnsureMonitor,
     Request, Found, At, Goto, Await, Return
<1>5. CASE UpdateAllowedCIDRs
  <2>1. base' = base /\ pc = "cidrs" /\ pc' \in {"listener", "patchMeta"} /\ cluster' = cluster
    BY <1>5 DEF UpdateAllowedCIDRs, At, NextPort, Return
  <2>2. \/ w' = w
        \/ /\ ~(port < NPorts) /\ pc' = "patchMeta"
           /\ w' = [w EXCEPT !.endpoint = Host, !.ready = TRUE]
    BY <1>5 DEF UpdateAllowedCIDRs, NextPort, Return
  <2>3. \/ w' = w
        \/ /\ port >= NPorts /\ pc' = "patchMeta" /\ w'.endpoint = Host /\ w'.ip = w.ip
    <3> DEFINE set == [w EXCEPT !.endpoint = Host, !.ready = TRUE]
    <3>1. set.endpoint = Host /\ set.ip = w.ip
      BY <1>0 DEF Cluster
    <3>2. w' = w \/ (~(port < NPorts) /\ pc' = "patchMeta" /\ w' = set)
      BY <2>2, Zenon
    <3> HIDE DEF set
    <3> QED BY <1>0, <3>1, <3>2
  <2> QED BY <1>5, <2>1, <2>3
<1>6. CASE Delete
  <2>1. /\ base' = base /\ pc \in DeleteSteps /\ pc' \in DeleteSteps \cup {"patchMeta"}
        /\ w' \in {w, [w EXCEPT !.exists = FALSE]} /\ cluster' = cluster
    BY <1>6 DEF Delete, WaitForMachines, DeleteLoadBalancer, DisassociateFloatingIP,
       DeleteFloatingIP, RequestDeletion, At, Goto, Return, DeleteSteps, Kept
  <2>2. w'.endpoint = w.endpoint /\ w'.ip = w.ip
    BY <1>0, <2>1 DEF Cluster
  <2> QED BY <2>1, <2>2 DEF DeleteSteps
<1> QED BY <1>1, <1>2, <1>3, <1>4, <1>5, <1>6 DEF Build

\* How the cluster worker gets from stage to stage.
LEMMA StageStep ==
  ASSUME TypeOK, TeardownInv, [Next]_vars
  PROVE  \/ Stage' = Stage /\ port' = port /\ (pc' = "idle" <=> pc = "idle")
         \/ pc' \in {"idle", "lb", "patchMeta", "patchStatus"} \cup DeleteSteps
         \/ Stage = "lb" /\ Stage' = (IF mode = "none" THEN "listener" ELSE "floatingIP") /\ port' = port
         \/ GetOrCreateFloatingIP /\ pc = "floatingIP" /\ pc' = "associate" /\ port' = port
         \/ /\ AssociateFloatingIP /\ pc = "associate" /\ pc' = "listener" /\ port' = port
            /\ bound' = w.ip
         \/ /\ GetOrCreateListener /\ pc = "listener" /\ Stage' = "pool" /\ port' = port
            /\ listeners'[port] # Absent
         \/ /\ GetOrCreatePool /\ pc = "pool" /\ Stage' = "monitor" /\ port' = port
            /\ port \in pools'
         \/ EnsureMonitor /\ pc = "monitor" /\ Stage' = "cidrs" /\ port' = port
         \/ UpdateAllowedCIDRs /\ pc = "cidrs" /\ pc' = "listener" /\ port' = port + 1
<1>0. /\ listeners \in [Ports -> Settings \cup {Absent}] /\ port \in Ports
      /\ w.settings \in Settings /\ Absent \notin Settings
  BY Constants DEF TypeOK, OctaviaOK, WorkerOK, ClustersOK, Cluster
<1>1. CASE Start /\ pc' # pc
  BY <1>1 DEF Start, DeleteSteps
<1>2. CASE PatchStatus \/ Crash \/ PatchMeta
  BY <1>2 DEF PatchStatus, Crash, PatchMeta, Finish, Stop
<1>3. CASE UNCHANGED <<pc, port, then, base, w>>
  BY <1>3 DEF Stage
<1>4. CASE Delete
  BY <1>4 DEF Delete, WaitForMachines, DeleteLoadBalancer, DisassociateFloatingIP,
     DeleteFloatingIP, RequestDeletion, Goto, Return, DeleteSteps
<1>5. CASE GetOrCreateLoadBalancer
  <2>1. \/ pc' = "patchMeta"
        \/ /\ pc' = "wait" /\ then' = (IF mode = "none" THEN "listener" ELSE "floatingIP")
           /\ pc = "lb" /\ port' = port
    BY <1>5 DEF GetOrCreateLoadBalancer, At, Await, Return
  <2> QED BY <2>1 DEF Stage
<1>6. CASE WaitForLoadBalancerActive
  <2>1. pc = "wait" /\ (pc' = "patchMeta" \/ (pc' = then /\ port' = port))
    BY <1>6 DEF WaitForLoadBalancerActive, At, Return
  <2> QED BY <2>1 DEF Stage, TeardownInv, LoopSteps
<1>7. CASE GetOrCreateFloatingIP \/ AssociateFloatingIP
  BY <1>7 DEF GetOrCreateFloatingIP, AssociateFloatingIP, At, Goto, Return
<1>8. CASE GetOrCreateListener
  <2>1. \/ pc' = "patchMeta"
        \/ /\ pc = "listener" /\ port' = port
           /\ pc' = "pool" \/ (pc' = "wait" /\ then' = "pool")
           /\ \/ listeners[port] # Absent /\ listeners' = listeners
              \/ listeners' = [listeners EXCEPT ![port] = w.settings]
    BY <1>8 DEF GetOrCreateListener, Request, Found, At, Goto, Await, Return
  <2> QED BY <1>0, <1>8, <2>1 DEF Stage
<1>9. CASE GetOrCreatePool
  <2>1. \/ pc' = "patchMeta"
        \/ /\ pc = "pool" /\ port' = port /\ port \in pools'
           /\ pc' = "monitor" \/ (pc' = "wait" /\ then' = "monitor")
    BY <1>9 DEF GetOrCreatePool, Request, Found, At, Goto, Await, Return
  <2> QED BY <1>9, <2>1 DEF Stage
<1>10. CASE EnsureMonitor
  <2>1. \/ pc' = "patchMeta"
        \/ /\ pc = "monitor" /\ port' = port
           /\ pc' = "cidrs" \/ (pc' = "wait" /\ then' = "cidrs")
    BY <1>10 DEF EnsureMonitor, Request, Found, At, Goto, Await, Return
  <2> QED BY <1>10, <2>1 DEF Stage
<1>11. CASE UpdateAllowedCIDRs
  BY <1>11 DEF UpdateAllowedCIDRs, NextPort, At, Return
<1> QED BY <1>1, <1>2, <1>3, <1>4, <1>5, <1>6, <1>7, <1>8, <1>9, <1>10, <1>11, Flow DEF Build

\* A published endpoint is not changed: a worker that has read none comes, in the end, to
\* the floating IP on the VIP port, which a served endpoint is.
LEMMA EndpointStep ==
  ASSUME TypeOK, TeardownInv, EndpointInv, BuildInv, [Next]_vars, cluster.endpoint # 0
  PROVE  cluster'.endpoint = cluster.endpoint
<1> SUFFICES ASSUME cluster'.endpoint # cluster.endpoint PROVE FALSE
  OBVIOUS
<1>0. mode \in {"given", "endpoint", "created", "none"}
  BY LoadBalancerAssumption DEF TypeOK, ClustersOK
<1>1. pc = "patchMeta" /\ cluster'.endpoint = w.endpoint /\ w.endpoint # base.endpoint
  BY ClusterStep DEF Pick, PatchMeta
<1>2. ~base.deleting /\ w.endpoint # 0
  BY <1>1 DEF EndpointInv
<1>3. w.endpoint \in {VIP, bound} /\ Served
  BY <1>1, <1>2 DEF BuildInv, Going, PatchSteps
<1>4. Fits(cluster.endpoint, cluster.ip) /\ Fits(w.endpoint, w.ip)
  BY <1>1 DEF EndpointInv
<1> QED BY <1>0, <1>1, <1>2, <1>3, <1>4 DEF Served, Fits

\* Every step keeps the endpoints in hand fitting the one that is stored.
LEMMA EndpointNext ==
  TypeOK /\ TeardownInv /\ EndpointInv /\ BuildInv /\ [Next]_vars => EndpointInv'
<1> SUFFICES ASSUME TypeOK, TeardownInv, EndpointInv, BuildInv, [Next]_vars
             PROVE  EndpointInv'
  OBVIOUS
<1>0. mode' = mode /\ mode \in {"given", "endpoint", "created", "none"}
  BY Frame, LoadBalancerAssumption DEF TypeOK, ClustersOK
<1>1. /\ Fits(cluster'.endpoint, cluster'.ip) /\ Fits(ccache'.endpoint, ccache'.ip)
      /\ ccache'.endpoint \in {0, cluster'.endpoint} /\ base'.endpoint \in {0, cluster'.endpoint}
  <2>1. cluster'.endpoint = cluster.endpoint \/ (pc # "idle" /\ cluster'.endpoint = w.endpoint)
    BY ClusterStep DEF PatchMeta, Pick
  <2>2. cluster'.ip \in {cluster.ip, 0} \/ (pc # "idle" /\ cluster'.ip = w.ip)
    BY ClusterStep DEF PatchStatus, Pick
  <2>3. Fits(cluster'.endpoint, cluster'.ip)
    BY <1>0, <2>1, <2>2, Constants DEF EndpointInv, Fits
  <2>4. Fits(ccache'.endpoint, ccache'.ip)
    BY <2>3, ClusterStep DEF EndpointInv
  <2>5. cluster.endpoint # 0 => cluster'.endpoint = cluster.endpoint
    BY EndpointStep
  <2>6. ccache'.endpoint \in {0, cluster'.endpoint}
    BY <2>5, ClusterStep DEF EndpointInv
  <2>7. base'.endpoint \in {0, cluster'.endpoint}
    BY <2>5, Frame DEF EndpointInv, NewCluster
  <2> QED BY <2>3, <2>4, <2>6, <2>7
<1> SUFFICES /\ pc' # "idle" => Fits(base'.endpoint, base'.ip) /\ Fits(w'.endpoint, w'.ip)
             /\ \/ w'.endpoint = base'.endpoint
                \/ pc' \in PatchSteps /\ ~base'.deleting /\ w'.endpoint # 0
             /\ Stage' \in {"floatingIP", "associate"} => mode # "none"
             /\ Stage' \in {"associate"} \cup LoopSteps => (mode = "none" <=> w'.ip = 0)
  BY <1>0, <1>1 DEF EndpointInv, Fits
<1> USE DEF PatchSteps
<1>2. CASE Start /\ pc' # pc
  <2>1. base' = ccache /\ w' = ccache /\ pc' \in {"lb", "machines"}
    BY <1>2 DEF Start
  <2>2. Stage' = pc'
    BY <2>1 DEF Stage
  <2> QED BY <2>1, <2>2 DEF EndpointInv, LoopSteps
<1>3. CASE PatchStatus \/ Crash
  <2>1. pc' = "idle" /\ base' = NewCluster /\ w' = NewCluster
    BY <1>3 DEF PatchStatus, Crash, Finish, Stop
  <2>2. Stage' = "idle"
    BY <2>1 DEF Stage
  <2> QED BY <2>1, <2>2 DEF LoopSteps
<1>4. CASE PatchMeta
  <2>1. pc = "patchMeta" /\ pc' = "patchStatus" /\ base' = base /\ w' = w
    BY <1>4 DEF PatchMeta
  <2>2. Stage' = "patchStatus"
    BY <2>1 DEF Stage
  <2> QED BY <2>1, <2>2 DEF EndpointInv, LoopSteps
<1>5. CASE Build \/ Delete
  <2>1. base' = base /\ pc \notin {"idle"} \cup PatchSteps
    BY <1>5, WorkingCopy
  <2>2. /\ w.endpoint = base.endpoint /\ Fits(base.endpoint, base.ip)
        /\ Fits(w.endpoint, w.ip)
    BY <2>1 DEF EndpointInv
  <2>3. CASE /\ w'.endpoint = w.endpoint /\ w'.ip = w.ip
             /\ ~(GetOrCreateFloatingIP /\ pc' = "associate")
    <3>1. /\ Stage' \in {"floatingIP", "associate"} => mode # "none"
          /\ Stage' \in {"associate"} \cup LoopSteps => (mode = "none" <=> w.ip = 0)
      <4>1. \/ Stage' \in {"idle", "lb", "patchMeta", "patchStatus"} \cup DeleteSteps
            \/ Stage' = Stage
            \/ Stage = "lb" /\ Stage' = (IF mode = "none" THEN "listener" ELSE "floatingIP")
            \/ Stage \in {"associate"} \cup LoopSteps /\ Stage' \in LoopSteps
        BY <2>3, StageStep DEF Stage, LoopSteps, DeleteSteps
      <4> QED BY <2>2, <4>1 DEF EndpointInv, Fits, LoopSteps, DeleteSteps
    <3> QED BY <2>1, <2>2, <2>3, <3>1
  <2>4. CASE GetOrCreateFloatingIP /\ pc' = "associate"
    <3>1. PICK new \in Hosts \ {0} :
            /\ \/ new = APIServerFloatingIP
               \/ APIServerFloatingIP = 0 /\ new = nfips + 1 /\ nfips < MaxFIPs
            /\ w' = [w EXCEPT !.ip = new]
      BY <2>4, FloatingIPStep
    <3>2. w'.ip = new /\ w'.endpoint = w.endpoint
      BY <3>1 DEF TypeOK, ClustersOK, Cluster
    <3>3. nfips \in 0..MaxFIPs /\ MaxFIPs \in Nat /\ UserFIP = MaxFIPs + 1 /\ VIP = MaxFIPs + 2
      BY Constants DEF TypeOK, FloatingOK
    <3>4. APIServerFloatingIP =
            (IF w.ip # 0 THEN w.ip ELSE IF SpecFIP # 0 THEN SpecFIP ELSE w.endpoint)
      BY DEF APIServerFloatingIP
    <3>5. SpecFIP = (IF mode = "given" THEN UserFIP ELSE 0)
      BY DEF SpecFIP
    <3>6. mode # "none"
      BY <2>4 DEF GetOrCreateFloatingIP, At, Stage, EndpointInv
    <3>7. Fits(w.endpoint, new)
      BY <1>0, <2>2, <3>1, <3>3, <3>4, <3>5, <3>6 DEF Fits
    <3>8. Stage' = "associate"
      BY <2>4 DEF Stage
    <3> QED BY <2>1, <2>2, <3>1, <3>2, <3>6, <3>7, <3>8
  <2>5. CASE UpdateAllowedCIDRs /\ pc' = "patchMeta" /\ w'.endpoint = Host /\ w'.ip = w.ip
    <3>1. (mode = "none" <=> w.ip = 0) /\ ~base.deleting
      BY <2>5 DEF UpdateAllowedCIDRs, At, EndpointInv, Stage, TeardownInv, LoopSteps, BuildSteps
    <3>2. Host = (IF mode = "none" THEN VIP ELSE w.ip) /\ Host # 0
      BY <3>1, Constants DEF Host
    <3>3. Fits(Host, w.ip)
      BY <1>0, <2>2, <3>1, <3>2 DEF Fits
    <3>4. Stage' = "patchMeta"
      BY <2>5 DEF Stage
    <3> QED BY <2>1, <2>2, <2>5, <3>1, <3>2, <3>3, <3>4 DEF LoopSteps
  <2> QED BY <1>5, <2>3, <2>4, <2>5, WorkingCopy
<1>6. CASE UNCHANGED <<pc, port, then, base, w>>
  <2>1. Stage' = Stage
    BY <1>6 DEF Stage
  <2> QED BY <1>6, <2>1 DEF EndpointInv
<1> QED BY <1>2, <1>3, <1>4, <1>5, <1>6, Flow

\* Until the worker reads the deletion nothing that serves the endpoint is taken away.
LEMMA NothingRemoved ==
  ASSUME TypeOK, TeardownInv, [Next]_vars, ~Going'
  PROVE  /\ ~Going /\ pools \subseteq pools'
         /\ \A p \in Ports : listeners[p] # Absent => listeners'[p] # Absent
         /\ bound' = bound \/ (bound = 0 /\ pc = "associate")
<1>0. /\ listeners \in [Ports -> Settings \cup {Absent}] /\ port \in Ports
      /\ w.settings \in Settings /\ Absent \notin Settings
  BY Constants DEF TypeOK, OctaviaOK, WorkerOK, ClustersOK, Cluster
<1>1. ~Going
  BY GoingStep
<1>2. OctaviaFinishes => pools' = pools /\ listeners' = listeners
  BY <1>1 DEF OctaviaFinishes, TeardownInv
<1>3. pools \subseteq pools'
  <2>1. GetOrCreatePool => pools' \in {pools, pools \cup {port}}
    BY DEF GetOrCreatePool, Request
  <2> QED BY <1>2, <2>1, Frame
<1>4. listeners' \in {listeners, [listeners EXCEPT ![port] = w.settings]}
  <2>1. GetOrCreateListener => listeners' \in {listeners, [listeners EXCEPT ![port] = w.settings]}
    BY DEF GetOrCreateListener, Request
  <2>2. UpdateAllowedCIDRs => listeners' \in {listeners, [listeners EXCEPT ![port] = w.settings]}
    BY DEF UpdateAllowedCIDRs
  <2> QED BY <1>2, <2>1, <2>2, Frame
<1>5. bound' = bound \/ (bound = 0 /\ pc = "associate")
  <2>1. ~DisassociateFloatingIP
    BY <1>1 DEF DisassociateFloatingIP, At, TeardownInv, DeleteSteps, Going
  <2>2. AssociateFloatingIP => bound' = bound \/ (bound = 0 /\ pc = "associate")
    BY DEF AssociateFloatingIP, At
  <2> QED BY <2>1, <2>2, Frame
<1> QED BY <1>0, <1>1, <1>3, <1>4, <1>5

\* Every step keeps what a run has built up to the port it is at.
LEMMA BuildNext ==
  TypeOK /\ Counted /\ TeardownInv /\ EndpointInv /\ BuildInv /\ [Next]_vars => BuildInv'
<1> SUFFICES ASSUME TypeOK, Counted, TeardownInv, EndpointInv, BuildInv, [Next]_vars
             PROVE  BuildInv'
  OBVIOUS
<1>0. /\ mode' = mode /\ port \in Ports /\ Ports = 1..NPorts /\ NPorts \in Nat
      /\ pools' \subseteq Ports
  BY Frame, Constants, OctaviaNext DEF TypeOK, WorkerOK, OctaviaOK, Ports
<1>1. Stage' \in {"idle", "lb", "floatingIP", "associate"} => port' = 1
  <2>1. CASE Start /\ pc' # pc
    BY <2>1 DEF Start, Stage, BuildInv
  <2>2. CASE PatchStatus \/ Crash \/ PatchMeta
    BY <2>2 DEF PatchStatus, Crash, Finish, Stop, PatchMeta, Stage
  <2>3. CASE Build \/ Delete
    <3>1. pc' \notin {"idle", "lb", "patchStatus"}
      BY <1>0, <2>3, WorkingCopy
    <3>2. \/ Stage' \in {"patchMeta"} \cup DeleteSteps \cup LoopSteps
          \/ Stage' = Stage /\ port' = port
          \/ Stage \in {"lb", "floatingIP"} /\ port' = port
      BY <1>0, <3>1, StageStep DEF Stage, DeleteSteps, LoopSteps
    <3> QED BY <3>2 DEF BuildInv, DeleteSteps, LoopSteps
  <2>4. CASE UNCHANGED <<pc, port, then, base, w>>
    BY <2>4 DEF Stage, BuildInv
  <2> QED BY <2>1, <2>2, <2>3, <2>4, Flow
<1> SUFFICES ASSUME ~Going'
             PROVE  /\ Stage' \in LoopSteps =>
                         /\ \A p \in Ports : p < port' => p \in pools' /\ listeners'[p] # Absent
                         /\ mode # "none" => bound' = w'.ip
                    /\ Stage' \in {"pool", "monitor", "cidrs"} => listeners'[port'] # Absent
                    /\ Stage' \in {"monitor", "cidrs"} => port' \in pools'
                    /\ pc' \in PatchSteps /\ w'.endpoint # base'.endpoint =>
                         Ready' /\ w'.endpoint \in {VIP, bound'}
                    /\ Served'
  BY <1>0, <1>1 DEF BuildInv
<1>2. /\ ~Going /\ pools \subseteq pools'
      /\ \A p \in Ports : listeners[p] # Absent => listeners'[p] # Absent
      /\ bound' = bound \/ (bound = 0 /\ pc = "associate")
  BY NothingRemoved
<1>3. /\ Stage \in LoopSteps =>
           /\ \A p \in Ports : p < port => p \in pools' /\ listeners'[p] # Absent
           /\ mode # "none" => bound' = w.ip
      /\ Stage \in {"pool", "monitor", "cidrs"} => listeners'[port] # Absent
      /\ Stage \in {"monitor", "cidrs"} => port \in pools'
      /\ pc \in PatchSteps /\ w.endpoint # base.endpoint =>
           Ready' /\ w.endpoint \in {VIP, bound'}
      /\ Ready => Ready'
  <2>1. Stage \in LoopSteps \/ pc \in PatchSteps => bound' = bound
    BY <1>2 DEF Stage, LoopSteps, PatchSteps
  <2>2. Ready => Ready'
    BY <1>0, <1>2 DEF Ready
  <2> QED BY <1>0, <1>2, <2>1, <2>2 DEF BuildInv
<1>4. Served'
  <2> SUFFICES ASSUME cluster'.endpoint # 0, mode # "endpoint"
               PROVE  Ready' /\ cluster'.endpoint \in {VIP, bound'}
    BY <1>0 DEF Served
  <2>1. CASE cluster'.endpoint = cluster.endpoint
    BY <1>2, <1>3, <2>1 DEF BuildInv, Served
  <2>2. CASE cluster'.endpoint # cluster.endpoint
    <3>1. pc = "patchMeta" /\ cluster'.endpoint = w.endpoint /\ w.endpoint # base.endpoint
      BY <2>2, ClusterStep DEF Pick, PatchMeta
    <3> QED BY <1>3, <3>1 DEF PatchSteps
  <2> QED BY <2>1, <2>2
<1>5. CASE Start /\ pc' # pc
  <2>1. w' = base' /\ Stage' = pc' /\ pc' \in {"lb", "machines"}
    BY <1>5 DEF Start, Stage
  <2> QED BY <1>4, <2>1 DEF LoopSteps, PatchSteps
<1>6. CASE PatchStatus \/ Crash
  <2>1. w' = base' /\ Stage' = "idle"
    BY <1>6 DEF PatchStatus, Crash, Finish, Stop, Stage
  <2> QED BY <1>4, <2>1 DEF LoopSteps
<1>7. CASE PatchMeta
  <2>1. w' = w /\ base' = base /\ Stage' = "patchStatus" /\ pc \in PatchSteps
    BY <1>7 DEF PatchMeta, Stage, PatchSteps
  <2> QED BY <1>3, <1>4, <2>1 DEF LoopSteps
<1>8. CASE Delete
  <2>1. FALSE
    BY <1>2, <1>8 DEF Delete, WaitForMachines, DeleteLoadBalancer, DisassociateFloatingIP,
       DeleteFloatingIP, RequestDeletion, At, TeardownInv, DeleteSteps, Going
  <2> QED BY <2>1
<1>9. CASE UNCHANGED <<pc, port, then, base, w>>
  BY <1>3, <1>4, <1>9 DEF Stage
<1>10. CASE Build
  <2>1. base' = base /\ pc \notin PatchSteps /\ w.endpoint = base.endpoint
    BY <1>10, WorkingCopy DEF EndpointInv
  <2>2. CASE /\ UpdateAllowedCIDRs /\ port >= NPorts /\ pc' = "patchMeta"
             /\ w'.endpoint = Host /\ w'.ip = w.ip
    <3>1. pc = "cidrs" /\ Stage = "cidrs"
      BY <2>2 DEF UpdateAllowedCIDRs, At, Stage
    <3>2. Ready'
      <4>1. \A p \in Ports : p \in pools' /\ listeners'[p] # Absent
        BY <1>0, <1>3, <2>2, <3>1 DEF LoopSteps
      <4> QED BY <1>0, <4>1 DEF Ready
    <3>3. Host \in {VIP, bound'}
      BY <1>0, <1>3, <3>1 DEF Host, LoopSteps, EndpointInv
    <3> QED BY <1>4, <2>2, <3>2, <3>3 DEF Stage, LoopSteps
  <2>3. CASE w'.endpoint = w.endpoint
    <3>1. Stage' \in LoopSteps => w'.ip = w.ip
      BY <1>10, WorkingCopy DEF Stage, LoopSteps
    <3>2. \/ Stage' = Stage /\ port' = port
          \/ Stage' \notin LoopSteps
          \/ Stage = "lb" /\ mode = "none" /\ port' = port /\ Stage' = "listener"
          \/ Stage = "associate" /\ Stage' = "listener" /\ port' = port /\ bound' = w.ip
          \/ Stage = "listener" /\ Stage' = "pool" /\ port' = port /\ listeners'[port] # Absent
          \/ Stage = "pool" /\ Stage' = "monitor" /\ port' = port /\ port \in pools'
          \/ Stage = "monitor" /\ Stage' = "cidrs" /\ port' = port
          \/ Stage = "cidrs" /\ Stage' = "listener" /\ port' = port + 1
      BY <1>0, StageStep DEF Stage, LoopSteps, DeleteSteps
    <3>3. Stage \in {"lb", "associate"} => port = 1
      BY DEF BuildInv
    <3>4. /\ Stage' \in LoopSteps =>
               \A p \in Ports : p < port' => p \in pools' /\ listeners'[p] # Absent
      BY <1>0, <1>3, <3>2, <3>3 DEF LoopSteps
    <3>5. Stage' \in LoopSteps /\ mode # "none" => bound' = w'.ip
      BY <1>3, <3>1, <3>2 DEF LoopSteps
    <3>6. /\ Stage' \in {"pool", "monitor", "cidrs"} => listeners'[port'] # Absent
          /\ Stage' \in {"monitor", "cidrs"} => port' \in pools'
      BY <1>3, <3>2 DEF LoopSteps
    <3> QED BY <1>4, <2>1, <2>3, <3>4, <3>5, <3>6
  <2> QED BY <1>10, <2>2, <2>3, WorkingCopy
<1> QED BY <1>5, <1>6, <1>7, <1>8, <1>9, <1>10, Flow

\* The invariants of the cluster worker.
WorkerInv == TypeOK /\ Counted /\ TeardownInv /\ EndpointInv /\ BuildInv

\* Every step keeps the invariants of the cluster worker.
LEMMA WorkerInvNext == WorkerInv /\ [Next]_vars => WorkerInv'
BY TypeNext, TeardownNext, EndpointNext, BuildNext DEF WorkerInv

\* The invariants of the cluster worker hold together.
LEMMA WorkerInvHolds == Spec => []WorkerInv
<1>1. ASSUME Init PROVE TeardownInv /\ EndpointInv /\ BuildInv
  <2>1. /\ cluster.endpoint = (IF mode = "endpoint" THEN UserFIP ELSE 0)
        /\ cluster.ip = 0 /\ ~cluster.deleting
    BY <1>1 DEF Init, NewCluster
  <2>2. /\ ccache = cluster /\ pc = "idle" /\ w = base /\ base = NewCluster /\ port = 1
        /\ lb = "absent"
    BY <1>1 DEF Init
  <2>3. base.endpoint = 0 /\ ~base.deleting /\ Stage = "idle"
    BY <2>2 DEF NewCluster, Stage
  <2>4. TeardownInv
    BY <2>1, <2>2, <2>3 DEF TeardownInv, BuildSteps, DeleteSteps, LoopSteps
  <2>5. EndpointInv
    BY <2>1, <2>2, <2>3, Constants DEF EndpointInv, Fits, LoopSteps
  <2>6. BuildInv
    BY <2>1, <2>2, <2>3 DEF BuildInv, Served, LoopSteps
  <2> QED BY <2>4, <2>5, <2>6
<1> QED BY <1>1, InitTypes, WorkerInvNext, PTL DEF Spec, WorkerInv

\* The endpoint that is published is never changed by a later reconcile, however old
\* the cluster that it has read.
THEOREM EndpointKept == Spec => EndpointStable
<1>1. WorkerInv /\ [Next]_vars => [cluster.endpoint # 0 => cluster'.endpoint = cluster.endpoint]_vars
  BY EndpointStep DEF WorkerInv
<1> QED BY <1>1, WorkerInvHolds, PTL DEF Spec, EndpointStable

\* A published endpoint has its address, its listeners and its pools until the cluster
\* is deleted.
THEOREM PublishedServed == Spec => []EndpointServed
<1>1. WorkerInv => EndpointServed
  <2> SUFFICES ASSUME WorkerInv, cluster.endpoint # 0, mode # "endpoint", ~cluster.deleting
               PROVE  cluster.endpoint \in {VIP, bound} /\ Ready
    BY DEF EndpointServed, Ready
  <2>1. ~Going
    BY DEF WorkerInv, TeardownInv, Going
  <2> QED BY <2>1 DEF WorkerInv, BuildInv, Served
<1> QED BY <1>1, WorkerInvHolds, PTL

\* As long as what the worker has read is what is stored, it works from the floating IP
\* and the endpoint that are recorded.
FreshInv ==
  /\ pc # "idle" => base.ip = cluster.ip /\ (base.ip # 0 => w.ip = base.ip)
  /\ pc \notin {"idle", "patchStatus"} => base.endpoint = cluster.endpoint

\* Every step keeps it so, if the informer does not lag when a reconcile starts.
LEMMA FreshNext == ~StaleCluster /\ WorkerInv /\ FreshInv /\ [Next]_vars => FreshInv'
<1> SUFFICES ASSUME ~StaleCluster, WorkerInv, FreshInv, [Next]_vars PROVE FreshInv'
  OBVIOUS
<1>0. TypeOK /\ TeardownInv /\ EndpointInv
  BY DEF WorkerInv
<1>1. CASE Start /\ pc' # pc
  BY <1>1 DEF Start, FreshInv
<1>2. CASE PatchStatus \/ Crash
  BY <1>2 DEF PatchStatus, Crash, Finish, Stop, FreshInv
<1>3. CASE PatchMeta
  <2>1. pc = "patchMeta" /\ pc' = "patchStatus" /\ base' = base /\ w' = w
    BY <1>3 DEF PatchMeta
  <2>2. cluster'.ip = cluster.ip
    BY <1>0, <2>1, ClusterStep DEF PatchStatus, Move
  <2> QED BY <2>1, <2>2 DEF FreshInv
<1>4. CASE Build \/ Delete
  <2>1. /\ base' = base /\ cluster' = cluster /\ pc \notin {"idle"} \cup PatchSteps
        /\ pc' \notin {"idle", "patchStatus"}
        /\ w'.ip = w.ip \/ GetOrCreateFloatingIP
    BY <1>0, <1>4, WorkingCopy
  <2>2. GetOrCreateFloatingIP /\ w.ip # 0 => w'.ip = w.ip
    <3> SUFFICES ASSUME GetOrCreateFloatingIP, w.ip # 0 PROVE w'.ip = w.ip
      OBVIOUS
    <3>1. APIServerFloatingIP = w.ip
      BY DEF APIServerFloatingIP
    <3>2. w' = w \/ w' = [w EXCEPT !.ip = w.ip]
      BY <1>0, <3>1, FloatingIPStep
    <3> QED BY <1>0, <3>2 DEF TypeOK, ClustersOK, Cluster
  <2> QED BY <2>1, <2>2 DEF FreshInv, PatchSteps
<1>5. CASE UNCHANGED <<pc, port, then, base, w>>
  <2>1. cluster'.endpoint = cluster.endpoint /\ (pc # "idle" => cluster'.ip = cluster.ip)
    BY <1>0, <1>5, ClusterStep DEF PatchMeta, PatchStatus, Move, Finish, Stop
  <2> QED BY <1>5, <2>1 DEF FreshInv
<1> QED BY <1>1, <1>2, <1>3, <1>4, <1>5, Flow

\* No floating IP is allocated while the status or the endpoint records one, if the
\* informer does not lag when a reconcile starts.
THEOREM SameIPFound == ASSUME ~StaleCluster PROVE Spec => NoSecondIP
<1>1. Init => FreshInv
  BY DEF Init, FreshInv
<1>2. WorkerInv /\ FreshInv /\ [Next]_vars =>
        [nfips' > nfips => cluster.ip = 0 /\ cluster.endpoint = 0]_vars
  <2> SUFFICES ASSUME WorkerInv, FreshInv, [Next]_vars, nfips' > nfips
               PROVE  cluster.ip = 0 /\ cluster.endpoint = 0
    OBVIOUS
  <2>1. TypeOK /\ nfips \in Nat
    BY Constants DEF WorkerInv, TypeOK, FloatingOK
  <2>2. GetOrCreateFloatingIP
    BY <2>1, Frame DEF DeleteFloatingIP
  <2>3. pc = "floatingIP" /\ w.endpoint = base.endpoint
    BY <2>2 DEF GetOrCreateFloatingIP, At, WorkerInv, EndpointInv, PatchSteps
  <2>4. APIServerFloatingIP = 0
    BY <2>1, <2>2, FloatingIPStep
  <2>5. w.ip = 0 /\ w.endpoint = 0
    BY <2>4 DEF APIServerFloatingIP
  <2> QED BY <2>3, <2>5 DEF FreshInv
<1>3. WorkerInv /\ FreshInv /\ [Next]_vars => FreshInv'
  BY FreshNext
<1> QED BY <1>1, <1>2, <1>3, WorkerInvHolds, PTL DEF Spec, NoSecondIP

-----------------------------------------------------------------------------
(* The members *)

\* What the worker of machine m does to its own entries: it stays at the port, gives
\* up, or goes on to the next port.
Stays(m, step) ==
  mpc'[m] = step /\ mport'[m] = mport[m] /\ mip'[m] = mip[m] /\ machine'[m] = machine[m]

GivesUp(m) == mpc'[m] = "idle" /\ mport'[m] = 1 /\ mip'[m] = 0 /\ machine'[m] = machine[m]

GoesOn(m) ==
  \/ /\ mport[m] < NPorts /\ mpc'[m] = "member" /\ mport'[m] = mport[m] + 1
     /\ mip'[m] = mip[m] /\ machine'[m] = machine[m]
  \/ /\ ~(mport[m] < NPorts) /\ mpc'[m] = "idle" /\ mport'[m] = 1 /\ mip'[m] = 0
     /\ machine'[m] = (IF mip[m] = 0 THEN "gone" ELSE machine[m])

\* What the helpers of the machine workers do to the entries of their machine.
LEMMA Helpers ==
  ASSUME TypeOK, NEW m \in Machines
  PROVE  /\ MemberNext(m) => GoesOn(m)
         /\ MemberError(m) => GivesUp(m)
         /\ \A s \in MemberSteps : MemberGoto(m, s) => Stays(m, s)
<1>0. /\ machine \in [Machines -> {"running", "deleting", "gone"}]
      /\ mpc \in [Machines -> MemberSteps] /\ mport \in [Machines -> Ports]
      /\ mip \in [Machines -> 0..(MaxChanges + 1)]
  BY DEF TypeOK, MembersOK
<1>1. MemberNext(m) => GoesOn(m)
  <2>1. CASE mport[m] < NPorts
    BY <1>0, <2>1 DEF MemberNext, GoesOn
  <2>2. CASE ~(mport[m] < NPorts)
    BY <1>0, <2>2 DEF MemberNext, GoesOn
  <2> QED BY <2>1, <2>2
<1>2. MemberError(m) => GivesUp(m)
  BY <1>0 DEF MemberError, GivesUp
<1>3. \A s \in MemberSteps : MemberGoto(m, s) => Stays(m, s)
  BY <1>0 DEF MemberGoto, Stays
<1> QED BY <1>1, <1>2, <1>3

\* The life of a member, as the worker of machine m sees it.
OwnStep(m) ==
  \/ /\ machine[m] = "running" /\ mpc'[m] = mpc[m] /\ mport'[m] = mport[m]
     /\ mip'[m] = mip[m] /\ machine'[m] = "deleting"
  \/ /\ mpc[m] = "idle" /\ machine[m] = "running" /\ mpc'[m] = "member"
     /\ mport'[m] = mport[m] /\ mip'[m] # 0 /\ machine'[m] = "running"
  \/ mpc[m] = "idle" /\ machine[m] = "deleting" /\ Stays(m, "member")
  \/ /\ mpc[m] = "idle" /\ machine[m] = "deleting" /\ mpc'[m] = "idle"
     /\ ~(ccache.ready /\ lb # "absent") /\ mport'[m] = mport[m] /\ mip'[m] = mip[m] /\ machine'[m] = "gone"
  \/ mpc[m] # "idle" /\ GivesUp(m)
  \/ /\ mpc[m] = "member" /\ GoesOn(m)
     /\ \/ mport[m] \notin pools /\ mip[m] = 0
        \/ mport[m] \in pools /\ Member(m) = mip[m]
  \/ /\ mpc[m] = "member" /\ mport[m] \in pools
     /\ Stays(m, "waitDelete") \/ (mip[m] # 0 /\ Stays(m, "waitCreate"))
  \/ mpc[m] = "waitDelete" /\ Stays(m, "delete")
  \/ mpc[m] = "waitCreate" /\ mip[m] = 0 /\ GoesOn(m)
  \/ mpc[m] = "waitCreate" /\ mip[m] # 0 /\ Stays(m, "create")
  \/ mpc[m] = "waitDone" /\ GoesOn(m)
  \/ mpc[m] = "delete" /\ Stays(m, "waitCreate")
  \/ mpc[m] = "create" /\ Stays(m, "waitDone")

\* What a step of machine m does to the members.
OwnMembers(m) ==
  \/ members' = members /\ mpc'[m] # "waitCreate"
  \/ members' = members /\ mpc[m] # "delete"
  \/ /\ mpc[m] \in {"delete", "create"}
     /\ \E a : /\ members' = [members EXCEPT ![mport[m]][m] = a]
               /\ mpc[m] = "delete" => a = 0

\* The worker of a machine changes only its own steps and its own members.
LEMMA MachineWorks ==
  ASSUME TypeOK, NEW m \in Machines, MemberWorker(m) \/ DeleteMachine(m)
  PROVE  OwnStep(m) /\ OwnMembers(m) /\ pools' = pools
<1>0. /\ machine \in [Machines -> {"running", "deleting", "gone"}]
      /\ addr \in [Machines -> 1..(MaxChanges + 1)] /\ MaxChanges \in Nat
      /\ mpc \in [Machines -> MemberSteps] /\ mport \in [Machines -> Ports]
      /\ mip \in [Machines -> 0..(MaxChanges + 1)]
      /\ {"waitDelete", "delete", "waitCreate", "create", "waitDone"} \subseteq MemberSteps
  BY Constants DEF TypeOK, MembersOK, MemberSteps
<1>1. CASE DeleteMachine(m)
  <2>1. OwnStep(m)
    BY <1>0, <1>1 DEF DeleteMachine, outside, OwnStep
  <2>2. members' = members /\ mpc' = mpc /\ pools' = pools
    BY <1>1 DEF DeleteMachine, outside, octavia
  <2> QED BY <2>1, <2>2 DEF OwnMembers
<1>2. CASE MemberStart(m)
  <2>1. OwnStep(m)
    <3>1. \/ /\ mpc[m] = "idle" /\ machine[m] = "running" /\ mpc' = [mpc EXCEPT ![m] = "member"]
             /\ mip' = [mip EXCEPT ![m] = addr[m]] /\ UNCHANGED <<machine, mport>>
          \/ /\ mpc[m] = "idle" /\ machine[m] = "deleting" /\ mpc' = [mpc EXCEPT ![m] = "member"]
             /\ UNCHANGED <<machine, mip, mport>>
          \/ /\ mpc[m] = "idle" /\ machine[m] = "deleting" /\ ~(ccache.ready /\ lb # "absent")
             /\ machine' = [machine EXCEPT ![m] = "gone"] /\ UNCHANGED <<mpc, mip, mport>>
      BY <1>2 DEF MemberStart, MemberAt
    <3>2. addr[m] # 0
      BY <1>0
    <3> QED BY <1>0, <3>1, <3>2 DEF OwnStep, Stays
  <2>2. members' = members /\ pools' = pools /\ mpc[m] = "idle"
    BY <1>2 DEF MemberStart, MemberAt
  <2> QED BY <2>1, <2>2 DEF OwnMembers
<1>3. CASE FindMember(m)
  <2>1. OwnStep(m)
    <3>1. /\ mpc[m] = "member"
          /\ \/ mport[m] \notin pools /\ mip[m] = 0 /\ MemberNext(m)
             \/ MemberError(m)
             \/ /\ mport[m] \in pools
                /\ \/ MemberCurrent(m) /\ MemberNext(m)
                   \/ MemberGoto(m, "waitDelete")
                   \/ ~MemberCurrent(m) /\ Member(m) = 0 /\ MemberGoto(m, "waitCreate")
      BY <1>3 DEF FindMember, MemberAt
    <3>2. /\ mpc[m] = "member"
          /\ \/ mport[m] \notin pools /\ mip[m] = 0 /\ GoesOn(m)
             \/ GivesUp(m)
             \/ /\ mport[m] \in pools
                /\ \/ Member(m) = mip[m] /\ GoesOn(m)
                   \/ Stays(m, "waitDelete")
                   \/ Member(m) # mip[m] /\ Member(m) = 0 /\ Stays(m, "waitCreate")
      BY <1>0, <3>1, Helpers, Zenon DEF MemberCurrent
    <3> QED BY <3>2 DEF OwnStep
  <2>2. members' = members /\ pools' = pools /\ mpc[m] = "member"
    BY <1>3 DEF FindMember, MemberAt
  <2> QED BY <2>1, <2>2 DEF OwnMembers
<1>4. CASE MemberWait(m)
  <2>1. OwnStep(m)
    <3>1. \/ mpc[m] = "waitDelete" /\ MemberGoto(m, "delete")
          \/ mpc[m] = "waitCreate" /\ mip[m] = 0 /\ MemberNext(m)
          \/ mpc[m] = "waitCreate" /\ mip[m] # 0 /\ MemberGoto(m, "create")
          \/ mpc[m] = "waitDone" /\ MemberNext(m)
          \/ mpc[m] # "idle" /\ MemberError(m)
      BY <1>4 DEF MemberWait, MemberAt
    <3>2. \/ mpc[m] = "waitDelete" /\ Stays(m, "delete")
          \/ mpc[m] = "waitCreate" /\ mip[m] = 0 /\ GoesOn(m)
          \/ mpc[m] = "waitCreate" /\ mip[m] # 0 /\ Stays(m, "create")
          \/ mpc[m] = "waitDone" /\ GoesOn(m)
          \/ mpc[m] # "idle" /\ GivesUp(m)
      BY <1>0, <3>1, Helpers, Zenon
    <3> QED BY <3>2, Zenon DEF OwnStep
  <2>2. members' = members /\ pools' = pools /\ mpc[m] # "delete"
    BY <1>4 DEF MemberWait, MemberAt
  <2> QED BY <2>1, <2>2 DEF OwnMembers
<1>5. ASSUME NEW s \in {"delete", "create"}, NEW a, NEW t \in {"waitCreate", "waitDone"},
             MemberAt(m, s), MemberRequest(m, a, t), t = "waitCreate" <=> s = "delete",
             s = "delete" => a = 0
      PROVE  OwnStep(m) /\ OwnMembers(m) /\ pools' = pools
  <2>1. /\ mpc[m] = s /\ pools' = pools
        /\ \/ members' = [members EXCEPT ![mport[m]][m] = a] /\ Stays(m, t)
           \/ members' = members /\ GivesUp(m)
           \/ members' = [members EXCEPT ![mport[m]][m] = a] /\ GivesUp(m)
    <3>1. /\ mpc[m] = s /\ pools' = pools
          /\ \/ members' = [members EXCEPT ![mport[m]][m] = a] /\ MemberGoto(m, t)
             \/ members' = members /\ MemberError(m)
             \/ members' = [members EXCEPT ![mport[m]][m] = a] /\ MemberError(m)
      BY <1>5 DEF MemberRequest, MemberAt
    <3> QED BY <1>0, <1>5, <3>1, Helpers
  <2>2. mpc'[m] = "idle" \/ members' = [members EXCEPT ![mport[m]][m] = a]
    BY <2>1 DEF GivesUp
  <2> QED BY <1>5, <2>1, <2>2 DEF OwnStep, OwnMembers
<1>6. CASE DeletePoolMember(m) \/ CreatePoolMember(m)
  BY <1>5, <1>6 DEF DeletePoolMember, CreatePoolMember
<1> QED BY <1>1, <1>2, <1>3, <1>4, <1>6 DEF MemberWorker

\* A step as machine n sees it: one of its own, a crash, one that leaves it and its
\* members alone, or the end of the deletion of the load balancer.
LEMMA MachineView ==
  ASSUME TypeOK, [Next]_vars, NEW n \in Machines
  PROVE  \/ MemberWorker(n) \/ DeleteMachine(n)
         \/ GivesUp(n) /\ members' = members /\ pools \subseteq pools'
         \/ /\ Stays(n, mpc[n]) /\ pools \subseteq pools'
            /\ \A p \in Ports : members'[p][n] = members[p][n]
         \/ /\ Stays(n, mpc[n]) /\ lb = "PENDING_DELETE"
            /\ \A p \in Ports : members'[p][n] = 0
<1>0. /\ machine \in [Machines -> {"running", "deleting", "gone"}]
      /\ mpc \in [Machines -> MemberSteps] /\ mport \in [Machines -> Ports]
      /\ mip \in [Machines -> 0..(MaxChanges + 1)]
      /\ members \in [Ports -> [Machines -> 0..(MaxChanges + 1)]]
  BY DEF TypeOK, MembersOK, OctaviaOK
<1>1. ASSUME NEW m \in Machines, MemberWorker(m) \/ DeleteMachine(m), m # n
      PROVE  /\ Stays(n, mpc[n]) /\ pools \subseteq pools'
             /\ \A p \in Ports : members'[p][n] = members[p][n]
  <2>1. Stays(n, mpc[n])
    BY <1>0, <1>1, OwnEntries DEF Stays, member
  <2>2. pools' = pools /\ OwnMembers(m)
    BY <1>1, MachineWorks
  <2>3. ASSUME NEW p \in Ports PROVE members'[p][n] = members[p][n]
    <3>1. members' = members \/ \E a : members' = [members EXCEPT ![mport[m]][m] = a]
      BY <2>2 DEF OwnMembers
    <3> QED BY <1>0, <1>1, <3>1
  <2> QED BY <2>1, <2>2, <2>3
<1>2. CASE Crash
  BY <1>0, <1>2 DEF Crash, GivesUp, octavia
<1>3. CASE ~Crash /\ ~MachineSteps
  <2>1. Stays(n, mpc[n])
    BY <1>3, Frame DEF Stays, member
  <2>2. ~MemberRequests
    BY <1>3 DEF MachineSteps, MemberRequests, MemberWorker
  <2>3. CASE OctaviaFinishes
    BY <2>1, <2>3 DEF OctaviaFinishes
  <2>4. CASE ~OctaviaFinishes
    <3>1. members' = members
      BY <2>2, <2>4, Frame
    <3>2. pools \subseteq pools'
      BY <2>4, Frame DEF GetOrCreatePool, Request, Found
    <3> QED BY <2>1, <3>1, <3>2
  <2> QED BY <2>3, <2>4
<1> QED BY <1>1, <1>2, <1>3 DEF MachineSteps

\* A step of machine m changes no member but the one that it is working on.
LEMMA OwnMember ==
  ASSUME TypeOK, NEW m \in Machines, OwnMembers(m)
  PROVE  /\ \A p \in Ports : p # mport[m] => members'[p][m] = members[p][m]
         /\ mpc[m] \notin {"delete", "create"} => members' = members
         /\ mpc[m] = "delete" /\ mpc'[m] = "waitCreate" => members'[mport[m]][m] = 0
<1>1. /\ members \in [Ports -> [Machines -> 0..(MaxChanges + 1)]] /\ mport[m] \in Ports
  BY DEF TypeOK, OctaviaOK, MembersOK
<1>2. CASE members' = members /\ ~(mpc[m] = "delete" /\ mpc'[m] = "waitCreate")
  BY <1>2
<1>3. ASSUME NEW a, members' = [members EXCEPT ![mport[m]][m] = a], mpc[m] \in {"delete", "create"},
             mpc[m] = "delete" => a = 0
      PROVE  /\ \A p \in Ports : p # mport[m] => members'[p][m] = members[p][m]
             /\ mpc[m] = "delete" => members'[mport[m]][m] = 0
  BY <1>1, <1>3
<1> QED BY <1>2, <1>3 DEF OwnMembers

\* Every step keeps the ports behind a deleted machine free of its members.
LEMMA MembersKept == TypeOK /\ PoolInv /\ MemberInv /\ [Next]_vars => MemberInv'
<1> SUFFICES ASSUME TypeOK, PoolInv, MemberInv, [Next]_vars, NEW m \in Machines
             PROVE  /\ mpc'[m] # "idle" => machine'[m] # "gone"
                    /\ mpc'[m] # "idle" /\ mip'[m] = 0 =>
                         /\ machine'[m] = "deleting"
                         /\ mpc'[m] \in {"member", "waitDelete", "delete", "waitCreate"}
                         /\ \A p \in Ports : p < mport'[m] => members'[p][m] = 0
                         /\ mpc'[m] = "waitCreate" => members'[mport'[m]][m] = 0
                    /\ mpc'[m] \notin {"idle", "member"} => mport'[m] \in pools'
                    /\ mpc'[m] = "idle" => mport'[m] = 1 /\ mip'[m] = 0
  BY DEF MemberInv
<1>0. mport[m] \in Ports /\ Ports = 1..NPorts /\ NPorts \in Nat
  BY Constants DEF TypeOK, MembersOK, Ports
<1>1. CASE MemberWorker(m) \/ DeleteMachine(m)
  <2>1. OwnStep(m) /\ OwnMembers(m) /\ pools' = pools
    BY <1>1, MachineWorks
  <2>2. /\ \A p \in Ports : p # mport[m] => members'[p][m] = members[p][m]
        /\ mpc[m] \notin {"delete", "create"} => members' = members
        /\ mpc[m] = "delete" /\ mpc'[m] = "waitCreate" => members'[mport[m]][m] = 0
    BY <2>1, OwnMember
  <2>3. mport[m] \notin pools => members[mport[m]][m] = 0
    BY <1>0 DEF PoolInv
  <2> QED BY <1>0, <2>1, <2>2, <2>3 DEF OwnStep, Stays, GivesUp, GoesOn, MemberInv, Member
<1>2. CASE GivesUp(m)
  BY <1>2 DEF GivesUp
<1>3. CASE /\ Stays(m, mpc[m]) /\ pools \subseteq pools'
           /\ \A p \in Ports : members'[p][m] = members[p][m]
  BY <1>0, <1>3 DEF Stays, MemberInv
<1>4. CASE Stays(m, mpc[m]) /\ lb = "PENDING_DELETE"
  BY <1>4 DEF Stays, MemberInv, PoolInv
<1> QED BY <1>1, <1>2, <1>3, <1>4, MachineView

\* Every step keeps members in pools that exist, and the load balancer until the machines go.
LEMMA PoolsKept == TypeOK /\ TeardownInv /\ PoolInv /\ MemberInv /\ [Next]_vars => PoolInv'
<1> SUFFICES ASSUME TypeOK, TeardownInv, PoolInv, MemberInv, [Next]_vars PROVE PoolInv'
  OBVIOUS
<1>1. ASSUME NEW p \in Ports \ pools', NEW m \in Machines PROVE members'[p][m] = 0
  <2>1. CASE MemberWorker(m) \/ DeleteMachine(m)
    <3>1. OwnMembers(m) /\ pools' = pools
      BY <2>1, MachineWorks
    <3>2. /\ \A q \in Ports : q # mport[m] => members'[q][m] = members[q][m]
          /\ mpc[m] \notin {"delete", "create"} => members' = members
      BY <3>1, OwnMember
    <3>3. mpc[m] \in {"delete", "create"} => mport[m] \in pools
      BY DEF MemberInv
    <3> QED BY <3>1, <3>2, <3>3 DEF PoolInv
  <2> QED BY <1>1, <2>1, MachineView DEF PoolInv
<1>2. lb' = "absent" => pools' = {}
  <2>1. CASE OctaviaFinishes
    BY <2>1 DEF OctaviaFinishes
  <2>2. CASE GetOrCreatePool
    BY <2>2 DEF GetOrCreatePool, Request, Found, Changing, PoolInv
  <2>3. CASE ~OctaviaFinishes /\ ~GetOrCreatePool
    <3>1. pools' = pools
      BY <2>3, Frame
    <3>2. lb' \in {lb, "PENDING_CREATE", "PENDING_UPDATE", "PENDING_DELETE"}
      BY <2>3, Zenon DEF Next, Worker, Build, Delete, MemberWorker, vars, At, MemberAt, Start,
         PatchMeta, PatchStatus, GetOrCreateLoadBalancer, WaitForLoadBalancerActive,
         GetOrCreateFloatingIP, AssociateFloatingIP, GetOrCreateListener, EnsureMonitor,
         UpdateAllowedCIDRs, WaitForMachines, DeleteLoadBalancer, DisassociateFloatingIP,
         DeleteFloatingIP, RequestDeletion, MemberStart, FindMember, MemberWait,
         DeletePoolMember, CreatePoolMember, ClusterEvent, EditSpec, DeleteCluster, Move,
         Crash, DeleteMachine, Readdress, outside, octavia, Request, Found, MemberRequest,
         Changing
    <3> QED BY <3>1, <3>2 DEF PoolInv
  <2> QED BY <2>1, <2>2, <2>3
<1>3. lb' = "PENDING_DELETE" \/ pc' \in DeleteSteps \ {"machines"} =>
        \A m \in Machines : machine'[m] = "gone"
  <2>1. ASSUME NEW m \in Machines, machine[m] = "gone" PROVE machine'[m] = "gone"
    <3>1. CASE MemberWorker(m) \/ DeleteMachine(m)
      <4>1. OwnStep(m)
        BY <3>1, MachineWorks
      <4> QED BY <2>1, <4>1 DEF OwnStep, Stays, GivesUp, GoesOn, MemberInv
    <3> QED BY <2>1, <3>1, MachineView DEF Stays, GivesUp
  <2>2. \/ lb' = "PENDING_DELETE" => lb = "PENDING_DELETE"
        \/ pc = "deleteLB"
    <3>1. CASE RequestDeletion
      BY <3>1 DEF RequestDeletion, At
    <3>2. CASE GetOrCreateLoadBalancer
      BY <3>2 DEF GetOrCreateLoadBalancer
    <3>3. CASE ~RequestDeletion /\ ~GetOrCreateLoadBalancer
      <4>1. lb' \in {lb, "ACTIVE", "PENDING_UPDATE", "absent"}
        BY <3>3, Zenon DEF Next, Worker, Build, Delete, MemberWorker, vars, At, MemberAt,
           Start, PatchMeta, PatchStatus, WaitForLoadBalancerActive, GetOrCreateFloatingIP,
           AssociateFloatingIP, GetOrCreateListener, GetOrCreatePool, EnsureMonitor,
           UpdateAllowedCIDRs, WaitForMachines, DeleteLoadBalancer, DisassociateFloatingIP,
           DeleteFloatingIP, MemberStart, FindMember, MemberWait, DeletePoolMember,
           CreatePoolMember, OctaviaFinishes, ClusterEvent, EditSpec, DeleteCluster, Move,
           Crash, DeleteMachine, Readdress, outside, octavia, Request, Found, MemberRequest,
           Changing
      <4> QED BY <4>1
    <3> QED BY <3>1, <3>2, <3>3
  <2>3. \/ pc' \notin DeleteSteps \ {"machines"} \/ pc \in DeleteSteps \ {"machines"}
        \/ \A m \in Machines : machine[m] = "gone"
    <3>1. CASE (Start /\ pc' # pc) \/ PatchStatus \/ Crash \/ PatchMeta
      BY <3>1 DEF Start, PatchStatus, Crash, PatchMeta, Finish, Stop, DeleteSteps
    <3>2. CASE Build
      <4>1. pc' \notin DeleteSteps
        <5>1. CASE WaitForLoadBalancerActive
          BY <5>1 DEF WaitForLoadBalancerActive, At, Return, TeardownInv, DeleteSteps, LoopSteps
        <5>2. CASE ~WaitForLoadBalancerActive
          BY <3>2, <5>2 DEF Build, GetOrCreateLoadBalancer, GetOrCreateFloatingIP,
             AssociateFloatingIP, GetOrCreateListener, GetOrCreatePool, EnsureMonitor,
             UpdateAllowedCIDRs, Request, Found, NextPort, Goto, Await, Return, DeleteSteps
        <5> QED BY <5>1, <5>2
      <4> QED BY <4>1
    <3>3. CASE Delete
      BY <3>3 DEF Delete, WaitForMachines, DeleteLoadBalancer, DisassociateFloatingIP,
         DeleteFloatingIP, RequestDeletion, At, Goto, Return, DeleteSteps
    <3>4. CASE UNCHANGED <<pc, port, then, base, w>>
      BY <3>4
    <3> QED BY <3>1, <3>2, <3>3, <3>4, Flow
  <2> QED BY <2>1, <2>2, <2>3 DEF PoolInv, DeleteSteps
<1> QED BY <1>1, <1>2, <1>3 DEF PoolInv

\* A machine of a provisioned cluster goes only when none of its members is left in a
\* pool.
THEOREM MembersGoFirst == Spec => MemberRemovedFirst
<1> DEFINE Inv == WorkerInv /\ PoolInv /\ MemberInv
<1>1. Init => PoolInv /\ MemberInv
  BY DEF Init, PoolInv, MemberInv, DeleteSteps
<1>2. Inv /\ [Next]_vars => Inv'
  BY WorkerInvNext, PoolsKept, MembersKept DEF WorkerInv
<1>3. Inv /\ [Next]_vars =>
        \A m \in Machines : machine[m] # "gone" /\ machine'[m] = "gone" /\ ccache.ready
          => \A p \in Ports : members'[p][m] = 0
  <2> SUFFICES ASSUME Inv, [Next]_vars, NEW m \in Machines,
                      machine[m] # "gone", machine'[m] = "gone", ccache.ready
               PROVE  \A p \in Ports : members'[p][m] = 0
    OBVIOUS
  <2>0. TypeOK /\ mport[m] \in Ports /\ Ports = 1..NPorts /\ NPorts \in Nat
    BY Constants DEF WorkerInv, TypeOK, MembersOK, Ports
  <2>1. MemberWorker(m) \/ DeleteMachine(m)
    BY <2>0, MachineView DEF Stays, GivesUp
  <2>2. OwnStep(m) /\ OwnMembers(m)
    BY <2>0, <2>1, MachineWorks
  <2>3. /\ \A p \in Ports : p # mport[m] => members'[p][m] = members[p][m]
        /\ mpc[m] \notin {"delete", "create"} => members' = members
    BY <2>0, <2>2, OwnMember
  <2>4. CASE mpc[m] = "idle"
    <3>1. lb = "absent"
      BY <2>2, <2>4 DEF OwnStep, Stays, GivesUp, GoesOn
    <3> QED BY <2>3, <2>4, <3>1 DEF PoolInv
  <2>5. CASE mpc[m] # "idle"
    <3>1. /\ mip[m] = 0 /\ ~(mport[m] < NPorts) /\ mpc[m] \in {"member", "waitCreate", "waitDone"}
          /\ mpc[m] = "member" => mport[m] \notin pools \/ Member(m) = 0
      BY <2>2, <2>5 DEF OwnStep, Stays, GivesUp, GoesOn
    <3>2. /\ \A p \in Ports : p < mport[m] => members[p][m] = 0
          /\ mpc[m] \in {"member", "waitCreate"}
          /\ mpc[m] = "waitCreate" => members[mport[m]][m] = 0
      BY <2>5, <3>1 DEF MemberInv
    <3>3. members[mport[m]][m] = 0
      BY <2>0, <3>1, <3>2 DEF PoolInv, Member
    <3>4. members' = members
      BY <2>3, <3>2
    <3> QED BY <2>0, <3>1, <3>2, <3>3, <3>4
  <2> QED BY <2>4, <2>5
<1> HIDE DEF Inv
<1>4. Inv /\ [Next]_vars =>
        [\A m \in Machines : machine[m] # "gone" /\ machine'[m] = "gone" /\ ccache.ready
           => \A p \in Ports : members'[p][m] = 0]_vars
  BY <1>3
<1>5. Spec => Inv
  BY <1>1, InitTypes, WorkerInvHolds, PTL DEF Inv, Spec
<1> QED BY <1>2, <1>4, <1>5, PTL DEF Spec, MemberRemovedFirst

=============================================================================
