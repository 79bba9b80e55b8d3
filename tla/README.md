# Formal models of the Cluster API provider for OpenStack

TLA+ models of the controllers of cluster-api-provider-openstack (CAPO), TLC
configurations that check them on small instances, and TLAPS proofs. Source
paths below are relative to `src/`.

## 1. The system

CAPO is a Kubernetes manager (`main.go`) that runs five controllers. Each one
watches its own kind of object, reads it from an informer cache, calls
OpenStack through `pkg/cloud/services`, changes a working copy and writes it
back in a deferred patch (metadata and spec first, then status; only changed
fields, no resource version). A key is never reconciled by two workers at once;
different controllers run concurrently and meet only in the API server and in
OpenStack.

| component | state it keeps | operations | talks to |
|---|---|---|---|
| OpenStackServer controller (`controllers/openstackserver_controller.go`) | finalizer; `Status.Resolved`, `Resources.Ports`, `InstanceID`, `InstanceState`, `Ready`, conditions | resolve the spec, adopt, claim, ports, volumes, instance, floating IP, report; delete in reverse | Nova, Neutron, Cinder; IPAddressClaims; images (ORC) |
| spec resolution and adoption (`compute/referenced_resources.go`, `server_resources.go`) | `Status.Resolved`, `Status.Resources` | one setter per field, adoption of ports by name | Glance/ORC, Neutron |
| compute service (`compute/instance.go`) | instances and volumes in OpenStack | get-or-create volume, create instance, poll, delete | Nova, Cinder |
| port and trunk service (`networking/port.go`, `trunk.go`) | ports in Neutron | ensure, adopt, delete | Neutron |
| OpenStackFloatingIPPool controller (`controllers/openstackfloatingippool_controller.go`) | finalizer; `Status.AvailableIPs`, `ClaimedIPs`, `FailedIPs`, network | reclaim released IPs, hand out IPs to claims, delete | Neutron; IPAddressClaims, IPAddresses |
| OpenStackMachine controller (`controllers/openstackmachine_controller.go`) | finalizer; `ProviderID`; `Initialization.Provisioned`, `InstanceID`, conditions | create the OpenStackServer, mirror its state, join the API server's load balancer or floating IP; delete | OpenStackServer objects, Octavia, Neutron |
| OpenStackCluster controller (`controllers/openstackcluster_controller.go`) with the bastion | finalizer; network, router, security groups, load balancer, failure domains, bastion in the status | network components, control plane endpoint, bastion; ordered delete | Neutron, Octavia, OpenStackServer objects |
| load balancer service (`loadbalancer/loadbalancer.go`) | load balancer, listeners, pools, monitors, members in Octavia | get-or-create each, wait for ACTIVE, cascade delete | Octavia |
| security groups (`networking/securitygroups*.go`) | groups and rules in Neutron | desired rules, diff, create, delete | Neutron |
| networks, subnets, routers (`networking/network.go`, `router.go`) | the same in Neutron | get-or-create, delete | Neutron |
| OpenStackMachineTemplate controller | capacity and node info in the status | read flavor and image | Nova, Glance |
| scope (`pkg/scope`) | LRU cache of authenticated clients, keyed by a hash of the credentials | get or authenticate | Keystone |
| webhooks (`pkg/webhooks`) and conversion (`api/v1beta1/conversion.go`) | none | admit updates of immutable specs; v1beta1 and v1beta2 round trips | API server |

Interactions: the machine controller creates and deletes OpenStackServer
objects, is woken up by those of their changes that
`OpenStackServerStatusReportable` lets through, and dereferences their
`InstanceID`; the server controller creates IPAddressClaims that the pool
controller binds; the cluster controller creates the bastion's OpenStackServer
and shares the load balancer with the machine controller, which waits for
`Initialization.Provisioned` of the cluster; the garbage collector deletes what
lost its owner; `clusterctl move` recreates all objects without their status.

What is hard, and what makes each component correct:

* reads are stale: a reconcile may see an object without its last patch or
  without its deletion. Nothing may be created for an object that does not
  durably hold the finalizer;
* every call may fail, also after it took effect, and the manager may die
  between two calls. A retry must find what exists instead of creating it
  again, and the delete path must find everything;
* metadata and status are patched separately, so one may be lost;
* controllers wait for watch events or requeue timers. Every wait must end;
* things vanish or change behind the controller's back (instances, ports,
  claims, rules, servers deleted by users), and users edit the bastion and the
  security group rules while a reconcile runs;
* Neutron refuses to delete what is in use and Octavia refuses every change of a
  load balancer that is being changed. The order of the calls must respect the
  first, the retries must outlast the second.

`PROJECT.json` lists each of these at its line, under `hazards`.

## 2. Modules

| module | models |
|---|---|
| `ServerLifecycle` | the abstract specification of an OpenStackServer object, as its owners rely on it |
| `OpenStackServer` | the OpenStackServer controller with the compute and port services; shown to implement `ServerLifecycle` |
| `OpenStackServerProofs`, `OpenStackServerCloudProofs` | theorems about `OpenStackServer`, with proofs: types and guards; what it creates, deletes and reports |
| `OpenStackMachine` | the OpenStackMachine controller with load balancer members and the API server's floating IP, composed with `ServerLifecycle` |
| `FloatingIPPool` | the OpenStackFloatingIPPool controller |
| `OpenStackCluster` | the OpenStackCluster controller with network, router and bastion, composed with `ServerLifecycle` |
| `LoadBalancer` | the load balancer service: a worker of the cluster controller and one per machine on one load balancer |
| `SecurityGroups`, `MCSecurityGroups` | rule generation and diff of the managed security groups; the values of its sequence constants |
| `OpenStackMachineProofs`, `FloatingIPPoolProofs`, `OpenStackClusterProofs`, `LoadBalancerProofs`, `SecurityGroupsProofs` | theorems about these modules, with proofs |

### Conventions

Each controller module has one worker. `pc` names the step of the running
reconcile ("idle" between two), `base` is the object as read (what the patch
helper compares with), `w` the working copy. An action is one request to
OpenStack or to the API server together with the local computation around it.
`Return(res)` ends the body with "done", "requeue" or "error"; the deferred
patch follows in two steps (`PatchMeta`, `PatchStatus`; one step in
`FloatingIPPool`), and `Finish` puts the key back into the queue unless the
result is "done". `Works` and `Fails(class)` account for faults: a failing call
of class "openstack" or "kube" returns an error, with or without its effect
wherever the effect could have happened; "crash" is a restart of the manager,
which loses the working copy and lists everything anew. `FaultClasses` and
`MaxFaults` say which faults occur. The flags `Stale...` let an informer lag
arbitrarily; without them a read waits for the event. `queued` is the presence
of the key in the work queue, set by the watches, by errors and by requeues.

Data is abstracted: a port is an ID and the index of the desired port it
carries the name of, an instance an ID and a state, a floating IP or a claim a
model value, `Status.Resolved` the set of resolved fields, and an instance ID
also stands for the instance's address in the load balancer.

### `OpenStackServer`

`Start` is `Reconcile` up to the choice of the path, which it may not reach (the
client scope or the owner cluster cannot be had); the delete path runs
`reconcileNormal` first unless `Status.Resolved` and `Status.Resources` are both
there. `ResolveServerSpec`, `Adopt`, `ReconcileFloatingAddressFromPool`,
`EnsurePort` (per port), `GetServer`, `GetOrCreateVolume` (per volume),
`CreateInstance`, `AssociateIPAddress` and `ReportStatus` are `reconcileNormal`.
`AdoptForDelete`, `GetServerStatus`, `DeleteVolume`, `DeleteServer`,
`PollInstanceDeleted`, `DeletePort` and `ReleaseClaim` are `reconcileDelete`.
The environment binds claims, collects garbage, lets Nova finish or fail, stops
and starts instances, loses instances and ports (a floating IP may go with its
port), and moves the cluster. The association of a floating IP is taken to succeed
also when somebody deleted the port meanwhile; no property is claimed there.

### `FloatingIPPool`

`ListIPAddresses`, `ReclaimIPAddress` and `ReleaseIPAddress` are
`reconcileIPAddresses`; `AddFinalizer`, `ReconcileFloatingIPNetwork` and the loop
`ListClaims`, `NextClaim` (with `GetIP`), `CreateFloatingIP`, `TagFloatingIP`,
`CreateIPAddress`, `BindClaim`, `UpdateStatus` are the normal path;
`WaitForAddresses`, `DeleteAvailableIP`, `RemoveFinalizer` are `reconcileDelete`.
The lists of IPs are sets, except that the length of `ClaimedIPs` is kept in
`nclaimed` because `getIP` appends reused IPs twice and compares the length with
`maxIPs`. An update with a resource version is accepted exactly when the object
is unchanged since it was read. A creation of a floating IP that fails may have
had its effect; nothing then names the IP.

### `OpenStackMachine` and `ServerLifecycle`

`Start`, `ReconcileNormal`, `ReconcileMachineServer` (with
`ReconcileMachineState`), `GetInstanceStatus`, `ReconcileLoadBalancerMember`
(per listener) or `ReconcileFloatingIP` are the normal path; `ReconcileDelete`,
`GetMachineServer`, `DeleteLoadBalancerMember` or `DeleteFloatingIP`, and
`DeleteServer` the delete path. The server is not the detailed one but
`ServerLifecycle`: the finalizer first, then at most one instance at a time, an
instance ID that is set once, states that come with the ID, Ready exactly with
ACTIVE, removal only after the instance. The run `server_crash` checks that
`OpenStackServer` implements it (`ImplementsLifecycle`, under the refinement
mapping that keeps the owner's view of the object and the live instances).
Only the Ready condition of the machine is kept, not its other conditions.

### `OpenStackCluster`

`Start`, `AddFinalizer`, `ReconcileNetwork`, `ReconcileSubnet`, `ReconcileRouter`,
`AddRouterInterface`, `DeleteBastionGroup`, `ReconcileSecurityGroups`,
`ReconcileControlPlaneEndpoint`, `SetProvisioned` are `reconcileNormal` up to
`Initialization.Provisioned`; `ReconcileBastionServer`, `GetBastionInstance`,
`GetOrCreateFloatingIP`, `AssociateFloatingIP` the bastion;
`DeleteStatusFloatingIP`, `DeleteInstanceFloatingIPs`, `DeleteBastionServer` are
`deleteBastion`, which the normal path takes for a disabled or changed bastion;
`WaitForMachines`, `WaitForBastion`, `DeleteLoadBalancer`,
`RemoveRouterInterface`, `DeleteRouter`, `DeleteClusterPorts`, `DeleteNetwork`,
`DeleteSecurityGroups` are `reconcileDelete`. `InUse` and `GroupFree` say what
Neutron refuses to delete. Rules of groups and parts of the load balancer are
one step each here; the next two modules take them apart. The environment
deletes the cluster, edits `spec.bastion`, deletes machines, lets the bastion's
server run through its lifecycle, leaves a port behind, and moves the cluster. The
edits are those that the webhook admits (`openstackcluster_webhook.go:140-149`), as
far as the controller tells them apart: enable or disable, another flavor (for any
change of the server's spec), `floatingIP` set or unset, also while enabled, and
the removal of a disabled bastion. There is one user's IP: a change to a second one
appears as unsetting the first. Neutron may refuse to delete a group in use, and
that is an error as in the code. `brought` remembers whether `spec.bastion` has named
the user's IP ever since creation.

### `LoadBalancer`

The cluster worker runs `GetOrCreateLoadBalancer`, `WaitForLoadBalancerActive`,
`APIServerFloatingIP`, `GetOrCreateFloatingIP`, `AssociateFloatingIP` and, per
port, `GetOrCreateListener`, `GetOrCreatePool`, `EnsureMonitor`,
`UpdateAllowedCIDRs`, then publishes the host; `DeleteLoadBalancer`,
`DisassociateFloatingIP`, `DeleteFloatingIP`, `RequestDeletion` remove it. A
machine worker runs `FindMember`, `MemberWait`, `DeletePoolMember`,
`CreatePoolMember` per port. Every accepted change makes the load balancer
PENDING until `OctaviaFinishes`; a change of a load balancer that is not ACTIVE is
refused. `mode` is the floating IP wanted: given in `spec.apiServerFloatingIP`, given
by the user as the control plane endpoint, created, or none. `Features` says
whether the Octavia provider supports allowed CIDRs and monitors; a step of one it
does not support is skipped. Allowed CIDRs and monitor options are one version
number; `EditSpec` stands also for the addresses of bastion, subnets and router that
enter the CIDRs (`loadbalancer.go:252-271`). The cluster worker and the machine
workers read the cluster from `ccache`, which `ClusterEvent` brings up to date; with
`StaleCluster` it may lag for the cluster worker, and it may always for the machine workers.
`WaitForMachines` begins the delete path; the bastion in between
(`openstackcluster_controller.go:178-195`) is in `OpenStackCluster`.

A host name as the control plane endpoint is not modelled: `lookupHost` would turn
it into an address, and the reconcile would try to write that address over the name
(`openstackcluster_controller.go:1018`), which only the webhook refuses
(`openstackcluster_webhook.go:119-125`). That `lookupHost` may fail is the failing
`GetOrCreateFloatingIP`.

### `SecurityGroups`

`Start`, `DeleteBastionGroup`, `GetOrCreateSecurityGroup`, `ReplaceTags`,
`GenerateDesiredSecGroups`, `ReconcileGroupRules`, `DeleteRule`, `CreateRule`,
`RulesDone` are `ReconcileSecurityGroups`; `ReconcileBastion` is the use of the
group by the bastion and `PatchStatus` the publication of the IDs. `Desired` is
the list of rules for a spec and the observed IDs, with `remoteManagedGroups`
resolved. The diff works on a snapshot of the rules (`observed`), as in the
code; missing rules are positions in the desired list, so that a rule listed
twice is created twice. Of the three lists of user rules only
`allNodesSecurityGroupRules` is there; those of the control plane and of the workers
(`securitygroups.go:255-264`) are appended the same way, to one group each. What Neutron makes of a
rule (the case of a protocol, an address without prefix length) is taken as the
identity, so a rule that never matches for that reason does not appear in
`Obsolete`. Reads of the spec are fresh. A rule removed by hand is a fault of class "drift", counted
in `drift`. There is no queue: a
reconcile may start at any time, see fairness.

## 3. Runs

Bounds are named in the CONSTANTS; every run explores its whole state space.

| run | instance | distinct states | shows |
|---|---|---|---|
| `server_stale` | 2 ports, lagging server informer, one fault of any class, one lost port | 4.6 M | `FinalizerGuardsCloud`: whatever exists in OpenStack belongs to an object that holds the finalizer; `CreatedAfterPersisted`: creation only after finalizer and resolved spec are durable; `OneInstance`; `TypeOK` |
| `server_crash` | 1 port, 1 volume, two faults of any class, one lost instance, one move | 0.50 M | `FinalizerRemovedClean`, `OnePortPerName`, `ReadyHasAddress`, `ImplementsLifecycle`; `DeletionCompletes`, `StateReported` |
| `pool_faults` | 3 IPs, one pre-allocated that may not exist, 2 claims, `maxIPs` 1, both policies, lagging pool and claim informers, one fault of any class | 9.4 M | `NoOrphanedAddress`, `NoSharedAddress`, `CreatedWithinMax`, `NoBoundIPDeleted`, `PreAllocatedKept` |
| `pool_live` | 3 IPs, one pre-allocated, 2 claims, one failing OpenStack call | 0.48 M | `ClaimServed`, `PoolDeletionCompletes`; `AvailableDeletedFirst`: the pool goes only when the IPs its status lists as available are gone |
| `machine_safe` | control plane machine, 2 listeners or floating IP, lagging machine informer, one fault of any class, users delete the server | 4.4 M | `FinalizerGuardsServer`, `MachineRemovedClean` |
| `machine_live` | worker machine, lagging informers, one failed API call, one move, instance ACTIVE or SHUTOFF | 0.27 M | `MachineFollowsServer`: state, instance ID and provider ID end up those of the server; `MachineDeletionCompletes` |
| `cluster_safe` | managed network, bastion with the user's floating IP enabled or not, one edit of any kind, a stray port, lagging cluster informer, one fault of any class, one move | 3.8 M | `FinalizerGuardsInfra`, `DeletedInOrder`, `ClusterRemovedClean`, `UserIPKept` |
| `cluster_live` | existing network, bastion with a created floating IP, one edit, one fault of any class, one move | 0.46 M | `NoSecondBastionIP`, `ClusterSettles`, `ClusterDeletionCompletes` |
| `loadbalancer` | one machine, 2 ports, floating IP given, given as endpoint, created or none, one change (settings, address or move), one fault of any class | 0.61 M | `EndpointStable`, `EndpointServed` (of endpoints the controller chose), `NoSecondIP`, `MemberRemovedFirst`, `LoadBalancerSettles`, `ClusterDeletionCompletes` |
| `security_groups` | 3 groups, two edits, one fault (call, patch, crash or a rule changed by hand), 2 lists of user rules | 0.78 M | `OneGroupPerName`, `NeededRuleKept`, `PublishedComplete`, `BastionGroupLive`, `GroupsConverge` |
| `server_lostport`, `cluster_stuck` | see below | stops at the first | violations |

Every module defines one `TypeOK`. Section 4 proves all of them; the run
`server_stale` checks the one of `OpenStackServer` as well.

Why the bounds are enough: each property needs at most two faults between a
creation and the retry (effect without answer, then a lost patch), two ports to
fail between two of a kind, two instances or ports to show a duplicate, two
claims to share an IP, and two edits to change a setting and change it back.
Port, instance and floating IP numbers are bounded one above what a correct run
uses, so a duplicate would be created. One machine is enough for the load
balancer, as the pools' members are independent and what machine workers share
is the PENDING state, which the cluster worker contends for as well.

Fairness: `WF(Worker)`, because controller-runtime runs queued keys and requeues
errors without limit; weak fairness of watch events, of the garbage collector
and of the services that finish what they started (Nova builds and deletions,
Octavia's changes, the pool that binds claims, the cluster that gets ready, the
machines of a deleted cluster that go). In `LoadBalancer` the watch is
`WF(ClusterEvent)`. Faults are finitely many. The periodic
resync is an action but never assumed by the server, pool, machine and cluster
runs, so that a missing watch or requeue shows. `SecurityGroups` has reconciles
start at any time, which is the resync of `main.go:157`: only so are rules that
were changed by hand repaired and groups deleted whose first deletion failed. In
`LoadBalancer` a member that is wrong makes its machine reconcile: errors are
requeued, and a change of address is seen at the latest by the resync. In the
liveness runs of server and machine the informer may lag or the read waits for
the event; neither starves the worker.

### Disagreements between code and comments

* `server_lostport`: `EnsurePorts` writes the old port status back instead of
  the ID of the port it created, so the new port is never deleted.
* `cluster_stuck`: `reconcileDelete` calls `deleteBastion` only if `Status.Network`
  is set, and its comment says that this covers a status that was never
  written. After a crash between the creation of the bastion and the patch the
  bastion is deleted by nobody and the cluster waits for its end for ever.
  `ClusterDeletionCompletes` excuses exactly this state.

Two more, without a run of their own:

* `openstackcluster_controller.go:283` says that with "a pre-created floating IP that
  is intended to only be used for the bastion, the floating IP won't get removed once
  the bastion is destroyed". :284 compares the IP of the status with the one that the
  spec names now: after an edit that changes or unsets `floatingIP`, or removes a
  disabled bastion, while the bastion has the user's IP, the deletion of cluster or
  bastion deletes that IP. TLC finds it when `UserIPKept` is stated without
  `brought`; with it the property and its proof are about specs that named the IP all
  along.
* `loadbalancer.go:807` says that a user-provided ("BYO") floating IP is not deleted, but :808 asks only for
  `spec.apiServer.floatingIP`. A floating IP that the user gave as the control plane
  endpoint is taken over by :229-235 and deleted with the cluster at :809.

### Known limits of the code

Each of these is found by TLC after changing the named constants, or is
visible in a property that allows for it.

* `OpenStackServer` with `StaleServer = TRUE` (`FinalizerRemovedClean`): a delete
  reconcile that reads the deletion timestamp but not the last status forgets
  what an earlier reconcile created, and `ImplementsLifecycle` fails. With `StaleClaim = TRUE`: a claim that is
  not in the cache yet keeps its finalizer.
* `OpenStackServer` with `MaxPortLosses = 1` (`OnePortPerName`): the status keeps the ID
  of a port that somebody deleted, so every further reconcile creates another
  port under the same name. This is the cause of `server_lostport`, too.
* `OpenStackServer` with two ports and crashes (`FinalizerRemovedClean`):
  `AdoptPortsServer` stops at the first missing port because ports are created in
  order (`port.go:693`), but the delete path removes ports from the
  front.
* `OpenStackServer`: `reconcileNormal` returns before it resets `Status.Ready`
  when the instance is gone (`openstackserver_controller.go:385`).
* `FloatingIPPool` with `StaleAddress = TRUE`: an IP is handed out twice
  (`NoSharedAddress`), the pool goes before its address (`NoOrphanedAddress`).
* `FloatingIPPool`: `getIP` takes an IP off the list before it is bound. When what
  follows fails (looking it up, creating the IPAddress), the deferred patch records
  the shorter list and the IP is in none when the pool goes (comments at
  `openstackfloatingippool_controller.go:196` and :324). `AvailableDeletedFirst`
  is therefore about the IPs that the status lists.
* `FloatingIPPool` with `StalePool = TRUE` (`AvailableDeletedFirst`): a delete reconcile
  that did not see the last list goes through; its update is refused for the old
  resource version, but the deferred patch, which has none, removes the finalizer.
* `FloatingIPPool` with a failing tag request, a creation whose answer is lost, or a
  crash between creating and tagging a floating IP: an untagged IP without an IPAddress is in no list, and
  another is created. `CreatedWithinMax` counts tagged IPs. Available IPs,
  pre-allocated ones included, are handed out before `maxIPs` is looked at.
* `FloatingIPPool` with `MaxIPs = 2` and more than one missing pre-allocated IP:
  `getIP` takes a missing IP off the list and then creates one although the list
  still has others, so more than `maxIPs` are created in the end, against
  `openstackfloatingippool_types.go:54`. `CreatedWithinMax` claims the bound where
  this cannot happen (`NeverMissing`).
* `FloatingIPPool` with two missing pre-allocated IPs: OpenStack may allocate an
  address that is still in the list, and it serves two claims (`NoSharedAddress`).
  The theorems about sharing exclude exactly this step (`NotListed`).
* `FloatingIPPool`: a claim that is deleted and created again under its name
  gets the address of the old one until that is collected
  (`openstackfloatingippool_controller.go:144`). The model uses a name once.
* `OpenStackMachine` with `MaxMoves = 1` (`MachineRemovedClean`): a machine
  deleted after a move and before the OpenStackCluster is provisioned again
  loses its finalizer at once. With `StaleServer = TRUE`: the machine goes before
  a server that is not in the cache yet.
* `OpenStackCluster` with `StaleServer = TRUE` (`DeletedInOrder`,
  `ClusterRemovedClean`): a bastion that is not in the cache yet is not waited
  for. With `StaleCluster = TRUE` (`NoSecondBastionIP`): a status that does not
  yet name the floating IP, while it is not on the port yet, leads to another.
* `OpenStackCluster`: a floating IP allocated for a bastion whose status is lost
  before the association is deleted by nobody (comment at
  `openstackcluster_controller.go:315`, guard at :294). A user's floating IP that
  an edit takes out of `spec.bastion` while the bastion has it is deleted like one of
  the controller's (see above).
* `OpenStackCluster`: `ReconcileNetwork` sets a network status without subnets and
  `ReconcileSubnet` adds them; when it fails, the deferred patch erases the subnets
  known before. A floating IP for an API
  server without load balancer is not deleted with the cluster.
* `ReconcileSecurityGroups` returns without an error when it cannot delete the
  bastion's group (`securitygroups.go:73`): the node groups are then left as they
  are until the next reconcile, yet the cluster is marked provisioned. Hence the
  exception for faults in `ClusterSettles` (`Removed`); `GroupsConverge` needs the
  resync.
* `SecurityGroups`: a change of `AllowAllInClusterTraffic` deletes the old rules
  before it creates the new ones; traffic that both allow is interrupted.
  `NeededRuleKept` is about rules, not about traffic.
* `LoadBalancer`: the floating IP is written to the working copy only; after a
  crash that follows the association the retry allocates another, which Neutron
  refuses to put on the port (comment at `loadbalancer.go:157`). This is `Blocked`,
  which `LoadBalancerSettles` excuses. When the IP has been disassociated and its
  deletion fails, the retry looks for an IP on the port, finds none, and the IP is
  left in OpenStack; no property covers this.
* `LoadBalancer` with `StaleCluster = TRUE` (`NoSecondIP`, `LoadBalancerSettles`): a read
  that has neither the status nor the endpoint of the reconcile before allocates
  another floating IP (`loadbalancer.go:149-160`), without any fault; Neutron refuses
  to put it on the port, yet the deferred patch records it, and every later reconcile
  fails on it. The endpoint stays what it was (`EndpointKept` holds for stale reads).
* `LoadBalancer`: a machine that is deleted after a move, before the cluster is
  provisioned again, goes with its members left behind
  (`openstackmachine_controller.go:237`); `MemberRemovedFirst` is about provisioned
  clusters.

## 4. Proofs

The theorems hold for every value of the constants that the modules' ASSUMEs
admit: every number of ports, volumes, listeners, machines, claims, IPs, rules
and edits, every kind and number of faults. What a theorem assumes beyond that
stands in its ASSUME and is in the table; each such hypothesis excludes a known limit
of section 3, where TLC finds the property violated. (`BoundIPKept` rests on
`AddressNotShared` and shares its hypotheses.) A flag `~Stale...` says that
this one read waits for the informer. The other reads that have a flag may lag:
of servers, claims, pools, addresses, machines and clusters, also in
`LoadBalancer`, whose run reads the cluster fresh. `SecurityGroups` has no cache:
there the spec is read fresh.

| module | theorem | states | hypotheses |
|---|---|---|---|
| each proof module but `OpenStackServerCloudProofs` | `TypeCorrect` | `[]TypeOK` | |
| `OpenStackServerProofs` | `FinalizerGuards` | `[]FinalizerGuardsCloud` | |
| | `CreationAfterPersistence` | `CreatedAfterPersisted` | |
| `OpenStackServerCloudProofs` | `InstanceUnique` | `[]OneInstance` | |
| | `ReadyAfterAddress` | `[]ReadyHasAddress` | `MaxPortLosses = 0` |
| | `PortUnique` | `[]OnePortPerName` | `MaxPortLosses = 0` |
| | `ImplementsOwnersView` | `ImplementsLifecycle` | `~StaleServer` |
| | `RemovedClean` | `FinalizerRemovedClean` | `~StaleServer`, `~StaleClaim`, `MaxPortLosses = 0`, `NPorts = 1` |
| `OpenStackMachineProofs` | `FinalizerGuards` | `[]FinalizerGuardsServer` | |
| | `RemovedClean` | `MachineRemovedClean` | `~StaleServer`, `MaxMoves = 0` |
| `OpenStackClusterProofs` | `FinalizerGuards` | `[]FinalizerGuardsInfra` | |
| | `TeardownOrdered` | `[]DeletedInOrder` | `~StaleServer` |
| | `RemovedClean` | `ClusterRemovedClean` | `~StaleServer` |
| | `UserIPSafe` | `UserIPKept` | |
| | `BastionIPReused` | `NoSecondBastionIP` | `~StaleCluster` |
| `FloatingIPPoolProofs` | `PreAllocatedSafe` | `PreAllocatedKept` | |
| | `NoAddressOrphaned` | `[]NoOrphanedAddress` | `~StaleAddress` |
| | `AddressNotShared` | `[]NoSharedAddress` | `~StaleAddress`, `[][NotListed]_vars` |
| | `BoundIPKept` | `NoBoundIPDeleted` | `~StaleAddress`, `[][NotListed]_vars` |
| | `CreatedBounded` | `[]CreatedWithinMax` | |
| `LoadBalancerProofs` | `EndpointKept` | `EndpointStable` | |
| | `PublishedServed` | `[]EndpointServed` | |
| | `SameIPFound` | `NoSecondIP` | `~StaleCluster` |
| | `MembersGoFirst` | `MemberRemovedFirst` | |
| `SecurityGroupsProofs` | `GroupsUnique` | `[]OneGroupPerName` | |
| | `BastionGroupExists` | `BastionGroupLive` | |
| | `NeededRulesStay` | `NeededRuleKept` | |
| | `PublishedIsComplete` | `PublishedComplete` | |

### The inductive invariants

No property is inductive as it stands: a step relies on what the running reconcile
read, or on how far it has come. The strengthenings below hold, by TLC, on the instances
of the runs that check the properties:

* **Types.** Next to the types they bound the loop indices by their loop
  (`LoopOK`, `Counted`); otherwise volume, port or listener `k` is not known to
  exist.
* **Guards** (`GuardInv` of server, machine, cluster and pool). The cached object and
  the object as read are never ahead of the API server in what they call durable,
  and from the step after the finalizer was asked for the reconcile works on a
  read that held it. This is why lagging caches do no harm here: finalizers are
  only dropped by the worker itself, so an old read of one is still true.
* **One instance** (`InstInv`). Between `GetServer` and `CreateInstance` there is no
  live instance, IDs are never used again, and the instance that a reconcile reports
  is one that was created. Staleness does not matter because the lookup asks Nova.
* **Ready** (`ReadyInv`). While the floating IP is not on the port, no copy of the
  object says Ready and no reconcile is at the report.
* **Ports** (`ListedInv`). The list of ports in every copy of the object, cached, read
  or written, names ports that exist (`There`), unless the copy shows a deletion and
  `Status.Resources`, with which `reconcileNormal` does not run again. Ports are
  deleted only after a read of the deletion, which the cache never takes back, so no
  older list can make `EnsurePort` create a port anew. `RemovedClean` needs more, and
  fresh reads: nobody but the running reconcile changes the status since it was read
  (`SyncInv`), and no other port has a name that the list covers (`Known` in `PortInv`).
* **Refinement** (`SyncInv`, `InstInv`, `GoneInv`). The instance of a status is the only
  one that may be live, the working copy differs from the read one by a report or
  by an ERROR, and the delete path is past the instance only when it is gone. The
  lemma `Simulation` maps steps: `CreateInstance` to `Launch`, Nova's deletions and
  losses to `Vanish`, `PatchMeta` to `Protect` or `Remove`, `PatchStatus` to `Report`,
  `DeleteObject` and `Move` to themselves, all others to stuttering. With it, what
  `OpenStackMachine` and `OpenStackCluster` show about the abstract server holds for
  the detailed one, as long as its reads are fresh.
* **Nothing left behind** (`CleanInv` of the server, `RemovalInv` of the machine,
  `TeardownInv` of the cluster). Each stage of the delete path knows what the stages
  before it removed, up to the patch that drops the finalizer, and no step brings
  it back. For the server the ports are all in the list that is worked off
  (`ListInv`); that is where `NPorts = 1` enters, since adoption stops at the
  first missing port.
* **Bastion** (`UserIPInv`, `KnownIPInv`). While `brought` holds, every copy of the
  spec, cached or read, names the user's floating IP, so no delete path takes it for
  the controller's; a run that is about to allocate has read a
  status without one.
* **Pool** (`OrphanInv`, `SharedInv`, `RetainInv`, `MaxInv`). Past the reclaim phase all
  addresses hold claimed IPs and the available IPs are not claimed; the IP that
  is about to be handed out is held by nobody. A floating IP is created only when
  all tagged ones are claimed, and `ClaimedIPs` is never shorter than the set of its
  elements, so the comparison with `maxIPs` errs on the safe side.
* **Load balancer** (`EndpointInv`, `BuildInv`, `TeardownInv`, `PoolInv`, `MemberInv`, `FreshInv`). Every
  copy of endpoint and status, stale ones included, fits the mode (`Fits`); a cached or read
  endpoint is the stored one or none, which is why stale reads do not change it; as
  long as no reconcile is deleting (`Going`), what is behind a stored endpoint
  exists (`Served`); with fresh reads a run that allocates has read what is stored
  (`FreshInv`); ports before the current one are complete;
  members are only in pools that exist, and the ports that the worker of a deleted
  machine has passed hold none of its members.
* **Security groups** (`Unique`, `SeenInv`, `ChangesInv`, `RulesInv`). The groups observed are
  still there; pending deletions are obsolete rules and pending creations missing
  ones; and without changes by hand the rules of each group are as observed, as
  desired, or the snapshot with the applied part of the diff.

Proofs have one step per action and under it one per conjunct; lemmas called
`...Flow`, `...Step` and `Frame` state once what an action does to the control, to a copy
of the object and to the other variables.

### Only model-checked

* Liveness: `DeletionCompletes`, `StateReported`, `ClaimServed`, `PoolDeletionCompletes`,
  `MachineFollowsServer`, `MachineDeletionCompletes`, `ClusterSettles`,
  `ClusterDeletionCompletes`, `LoadBalancerSettles`, `GroupsConverge`. Liveness under
  fairness is out of the prover's reach.
* `AvailableDeletedFirst` of `FloatingIPPool`.
* `FinalizerRemovedClean` of `OpenStackServer` for more than one port: it fails with
  crashes or failed patches (section 3).

## 5. Plan

1. (done) `OpenStackServer`, `FloatingIPPool`, `ServerLifecycle`,
   `OpenStackMachine`; type correctness and the two guards of `OpenStackServer`
   proved.
2. (done) `OpenStackCluster` with network, router and bastion; `LoadBalancer`;
   `SecurityGroups`.
3. (done) Types, safety invariants and action properties of all six components, and
   the refinement of `ServerLifecycle`, proved.
4. Next: `AvailableDeletedFirst`; `FinalizerRemovedClean` for any
   number of ports when neither the API server nor the manager fails.

## 6. Not modelled

* Generated code, events, metrics, the thin OpenStack clients and the manager's
  wiring keep no state the controllers read back.
* The OpenStackMachineTemplate controller copies flavor and image data into a
  status. The client cache of `pkg/scope` is transparent: its failures are the
  failing `Start` of the server, machine and cluster controllers, and in
  `FloatingIPPool` and `LoadBalancer` a failure of the first call after `Start`.
* Webhooks appear only as the edits that they admit. Conversion between API
  versions and `ConstructPorts` are field-by-field data transformations.
* Pausing appears only as `Move`. Trunks share the fate of their port. Addresses,
  user data, block devices, scheduler details, filters and failure domains are
  data that no property tells apart. Octavia's ERROR state, provider and flavor
  lookups, and changes of the additional ports are left out.
