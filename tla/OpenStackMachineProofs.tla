------------------------ MODULE OpenStackMachineProofs ------------------------
(***************************************************************************)
(* Proofs about OpenStackMachine, for every number of listeners, instances,  *)
(* faults and moves, and informers that lag arbitrarily unless a theorem     *)
(* says otherwise.                                                           *)
(***************************************************************************)
EXTENDS OpenStackMachine, TLAPS

\* What a copy of the machine promises about the machine itself: the finalizer
\* and the deletion timestamp that it shows are persisted.
Persisted(o) ==
  machine.exists => /\ o.finalizer => machine.finalizer
                    /\ o.deleting => machine.deleting

CreatingSteps == {"server", "instance", "member", "floatingIP"}
DeleteSteps   == {"dCluster", "dServer", "dInstance", "dMember", "dDelete"}

\* What the running reconcile knows at each step: it creates only after a read that
\* showed the finalizer, it deletes only after one that showed the timestamp, and
\* only there it drops the finalizer.
ReadOK ==
  /\ pc = "normal" => w = base
  /\ pc \in CreatingSteps => base.finalizer /\ w.finalizer
  /\ pc \in DeleteSteps => base.deleting
  /\ base.finalizer /\ ~w.finalizer => base.deleting

GuardInv ==
  /\ FinalizerGuardsServer
  /\ Persisted(mcache) /\ Persisted(base)
  /\ ReadOK

Unrouted == \A l \in Listeners : members[l] = 0

\* What is known when reads of the server are fresh and the machine has never been
\* moved.  Nothing is created without a provisioned cluster, and no member without a
\* load balancer.
NothingEarly ==
  /\ ~infra => ~server.exists /\ Unrouted
  /\ (ControlPlane /\ endpoint = "lb") \/ Unrouted
  /\ pc \in CreatingSteps => infra
  /\ pc = "member" => ControlPlane /\ endpoint = "lb"

\* The delete path: a server not found does not come back, and members go one
\* listener at a time.
DeletedSoFar ==
  /\ pc \in {"dInstance", "dMember", "dDelete"} /\ ~srv.exists => ~server.exists
  /\ pc = "dMember" => k <= NListeners /\ \A l \in 1..(k - 1) : members[l] = 0
  /\ pc \in {"dInstance", "dDelete"} => Unrouted

\* The finalizer is dropped with nothing left.
DroppedClean ==
  /\ pc \in DeleteSteps /\ base.finalizer => w.finalizer
  /\ pc = "patchMeta" /\ base.finalizer /\ ~w.finalizer => ~server.exists /\ Unrouted

RemovalInv == NothingEarly /\ DeletedSoFar /\ DroppedClean

\* The types of everything but the Boolean variables.
TypeInv == ObjectsOK /\ ServersOK /\ IngressOK /\ ControlOK

\* The initial value of a machine has its type.
LEMMA NewMachineType == NewMachine \in Machine
BY MachineAssumption DEF NewMachine, Machine

\* The patches keep the type of the machine.
LEMMA PatchedType ==
  ASSUME ObjectsOK
  PROVE  PatchedMeta(machine) \in Machine /\ PatchedStatus(machine) \in Machine
<1> DEFINE pid == IF w.providerID = base.providerID THEN machine.providerID ELSE w.providerID
           spec == [machine EXCEPT !.providerID = pid]
<1>1. /\ machine \in Machine /\ pid \in 0..MaxInstances
      /\ machine.deleting \in BOOLEAN
      /\ (IF w.id = base.id THEN machine.id ELSE w.id) \in 0..MaxInstances
      /\ (IF w.provisioned = base.provisioned THEN machine.provisioned ELSE w.provisioned)
            \in BOOLEAN
      /\ (IF w.ready = base.ready THEN machine.ready ELSE w.ready)
            \in {"none", "True", "False", "Unknown"}
  BY DEF ObjectsOK, Machine
<1>2. spec \in Machine
  BY <1>1 DEF Machine
<1>3. PatchedMeta(machine) \in {spec, [spec EXCEPT !.finalizer = TRUE],
                   [spec EXCEPT !.finalizer = FALSE, !.exists = ~machine.deleting]}
  BY <1>1 DEF PatchedMeta
<1>4. PatchedMeta(machine) \in Machine
  <2>1. (~machine.deleting) \in BOOLEAN
    OBVIOUS
  <2> HIDE DEF spec
  <2> QED BY <1>2, <1>3, <2>1 DEF Machine
<1>5. PatchedStatus(machine) \in Machine
  <2> DEFINE i == IF w.id = base.id THEN machine.id ELSE w.id
             p == IF w.provisioned = base.provisioned THEN machine.provisioned ELSE w.provisioned
             r == IF w.ready = base.ready THEN machine.ready ELSE w.ready
  <2>1. PatchedStatus(machine) = [machine EXCEPT !.id = i, !.provisioned = p, !.ready = r]
    BY DEF PatchedStatus
  <2> HIDE DEF i, p, r
  <2>2. i \in 0..MaxInstances /\ p \in BOOLEAN /\ r \in {"none", "True", "False", "Unknown"}
    BY <1>1 DEF i, p, r
  <2> QED BY <1>1, <2>1, <2>2 DEF Machine
<1> QED BY <1>4, <1>5

\* An absent and a new server have the type of servers.
LEMMA NewServerType == Life!NoServer \in Life!Server /\ Life!NewServer \in Life!Server
<1>1. Life!NoServer \in Life!Server
  BY MachineAssumption DEF Life!Server, Life!NoServer, Life!ServerStates
<1>2. Life!NewServer = [Life!NoServer EXCEPT !.exists = TRUE]
  BY DEF Life!NewServer
<1>3. [Life!NoServer EXCEPT !.exists = TRUE] \in Life!Server
  BY <1>1 DEF Life!Server
<1> QED BY <1>1, <1>2, <1>3

\* The object after its deletion or a move.
LEMMA DeletedServer ==
  ASSUME ServersOK
  PROVE  Life!Deleted \in Life!Server /\ Life!Moved \in Life!Server
<1>1. server \in Life!Server /\ server.finalizer \in BOOLEAN
  BY DEF ServersOK, Life!Server
<1>2. [server EXCEPT !.deleting = TRUE] \in Life!Server
  BY <1>1 DEF Life!Server
<1>3. [Life!NewServer EXCEPT !.finalizer = server.finalizer] \in Life!Server
  BY <1>1, NewServerType DEF Life!Server
<1> QED BY <1>1, <1>2, <1>3, NewServerType DEF Life!Deleted, Life!Moved

\* The initial state has the right types.
LEMMA TypeInit == Init => TypeInv /\ FlagsOK
<1> SUFFICES ASSUME Init PROVE TypeInv /\ FlagsOK
  OBVIOUS
<1>1. ObjectsOK
  BY NewMachineType DEF Init, ObjectsOK
<1>2. ServersOK
  BY NewServerType, MachineAssumption DEF Init, ServersOK
<1>3. IngressOK
  BY MachineAssumption DEF Init, IngressOK
<1>4. ControlOK
  BY MachineAssumption DEF Init, ControlOK, Steps
<1>5. FlagsOK
  BY Zenon DEF Init, FlagsOK
<1> QED BY <1>1, <1>2, <1>3, <1>4, <1>5 DEF TypeInv

\* Every step keeps the types.
LEMMA TypeNext == TypeInv /\ [Next]_vars => TypeInv'
<1> SUFFICES ASSUME TypeInv, [Next]_vars PROVE TypeInv'
  OBVIOUS
<1> USE MachineAssumption
<1>1. CASE Start
  <2>1. ObjectsOK'
    BY <1>1 DEF Start, Works, Fails, lifecycle, cluster, ingress, TypeInv,
       ObjectsOK, Machine
  <2>2. ServersOK'
    BY <1>1 DEF Start, Works, Fails, lifecycle, cluster, ingress, TypeInv,
       ServersOK
  <2>3. IngressOK'
    BY <1>1 DEF Start, Works, Fails, lifecycle, cluster, ingress, TypeInv,
       IngressOK
  <2>4. ControlOK'
    BY <1>1 DEF Start, Works, Fails, lifecycle, cluster, TypeInv, ObjectsOK, Machine,
       ControlOK, Steps
  <2> QED BY <2>1, <2>2, <2>3, <2>4 DEF TypeInv
<1>2. CASE ReconcileNormal
  <2>1. ObjectsOK'
    <3>1. w' \in {w, [w EXCEPT !.finalizer = TRUE]}
      BY <1>2 DEF ReconcileNormal
    <3>2. w' \in Machine
      BY <3>1 DEF TypeInv, ObjectsOK, Machine
    <3> QED BY <1>2, <3>2 DEF ReconcileNormal, At, TypeInv, ObjectsOK
  <2>2. ServersOK'
    BY <1>2 DEF ReconcileNormal, At, Works, Return, Goto, MustPersist, cluster,
       ingress, TypeInv, ServersOK
  <2>3. IngressOK'
    BY <1>2 DEF ReconcileNormal, At, Works, Return, Goto, MustPersist, cluster,
       ingress, TypeInv, IngressOK
  <2>4. ControlOK'
    <3>1. Return("requeue") \/ Return("done") \/ Goto("server")
      BY <1>2 DEF ReconcileNormal, TypeInv, ControlOK
    <3> QED BY <1>2, <3>1 DEF ReconcileNormal, At, Works, Return, Goto, cluster,
           TypeInv, ControlOK, Steps
  <2> QED BY <2>1, <2>2, <2>3, <2>4 DEF TypeInv
<1>3. CASE ReconcileMachineServer
  <2>1. ObjectsOK'
    <3>1. \/ w' = w
          \/ \E s \in {scache, Life!NewServer} :
               \/ w' = Provision(s)
               \/ w' = [w EXCEPT !.ready = ReadyFor(s.state)]
      BY <1>3 DEF ReconcileMachineServer, ReconcileMachineState
    <3>2. w \in Machine /\ scache \in Life!Server /\ Life!NewServer \in Life!Server
      BY NewServerType DEF TypeInv, ObjectsOK, ServersOK
    <3>3. ASSUME NEW s \in Life!Server
          PROVE  ReadyFor(s.state) \in {"none", "True", "False", "Unknown"}
                 /\ s.id \in 0..MaxInstances
      BY DEF ReadyFor, Life!Server
    <3>4. ASSUME NEW s \in Life!Server
          PROVE  Provision(s) \in Machine /\ [w EXCEPT !.ready = ReadyFor(s.state)] \in Machine
      BY <3>2, <3>3 DEF Provision, Machine
    <3>5. w' \in Machine
      BY <3>1, <3>2, <3>4
    <3> QED BY <1>3, <3>5 DEF ReconcileMachineServer, At, TypeInv, ObjectsOK
  <2>2. ServersOK'
    <3>1. /\ server' \in {server, Life!NewServer}
          /\ srv' \in {srv, scache, Life!NewServer}
          /\ UNCHANGED <<scache, live, launched>>
      BY <1>3 DEF ReconcileMachineServer, At
    <3> QED BY <3>1, NewServerType DEF TypeInv, ServersOK
  <2>3. IngressOK'
    BY <1>3 DEF ReconcileMachineServer, At, Works, Fails, Return, Goto,
       ReconcileMachineState, Provision, ReadyFor, RequeueFor, Life!NewServer,
       Life!NoServer, cluster, ingress, TypeInv, IngressOK
  <2>4. ControlOK'
    BY <1>3 DEF ReconcileMachineServer, At, Works, Fails, Return, Goto,
       ReconcileMachineState, Provision, ReadyFor, RequeueFor, Life!NewServer,
       Life!NoServer, cluster, ingress, TypeInv, ControlOK, Steps
  <2> QED BY <2>1, <2>2, <2>3, <2>4 DEF TypeInv
<1>4. CASE GetInstanceStatus
  <2>1. ObjectsOK'
    BY <1>4 DEF GetInstanceStatus, At, Works, Fails, Return, Goto, cluster,
       ingress, TypeInv, ObjectsOK, Machine
  <2>2. ServersOK'
    BY <1>4 DEF GetInstanceStatus, At, Works, Fails, Return, Goto, cluster,
       ingress, TypeInv, ServersOK
  <2>3. IngressOK'
    BY <1>4 DEF GetInstanceStatus, At, Works, Fails, Return, Goto, cluster,
       ingress, TypeInv, IngressOK
  <2>4. ControlOK'
    BY <1>4 DEF GetInstanceStatus, At, Works, Fails, Return, Goto, cluster,
       ingress, TypeInv, ControlOK, Steps
  <2> QED BY <2>1, <2>2, <2>3, <2>4 DEF TypeInv
<1>5. CASE ReconcileLoadBalancerMember
  <2>1. ObjectsOK'
    BY <1>5 DEF ReconcileLoadBalancerMember, At, Works, Fails, Return, Again,
       cluster, TypeInv, ObjectsOK
  <2>2. ServersOK'
    BY <1>5 DEF ReconcileLoadBalancerMember, At, Works, Fails, Return, Again,
       cluster, TypeInv, ServersOK
  <2>3. IngressOK'
    <3>1. srv.id \in 0..MaxInstances /\ 0 \in 0..MaxInstances
      BY DEF TypeInv, ServersOK, Life!Server
    <3>2. members' \in {members, [members EXCEPT ![k] = 0], [members EXCEPT ![k] = srv.id]}
      BY <1>5 DEF ReconcileLoadBalancerMember
    <3>3. members' \in [Listeners -> 0..MaxInstances]
      BY <3>1, <3>2 DEF TypeInv, IngressOK
    <3> QED BY <1>5, <3>3 DEF ReconcileLoadBalancerMember, At, TypeInv, IngressOK
  <2>4. ControlOK'
    BY <1>5 DEF ReconcileLoadBalancerMember, At, Works, Fails, Return, Again,
       cluster, TypeInv, ControlOK, Steps
  <2> QED BY <2>1, <2>2, <2>3, <2>4 DEF TypeInv
<1>6. CASE ReconcileFloatingIP
  <2>1. ObjectsOK'
    BY <1>6 DEF ReconcileFloatingIP, At, Works, Fails, Return, cluster, TypeInv,
       ObjectsOK
  <2>2. ServersOK'
    BY <1>6 DEF ReconcileFloatingIP, At, Works, Fails, Return, cluster, TypeInv,
       ServersOK
  <2>3. IngressOK'
    BY <1>6 DEF ReconcileFloatingIP, At, Works, Fails, Return, cluster, TypeInv,
       IngressOK
  <2>4. ControlOK'
    BY <1>6 DEF ReconcileFloatingIP, At, Works, Fails, Return, cluster, TypeInv,
       ControlOK, Steps
  <2> QED BY <2>1, <2>2, <2>3, <2>4 DEF TypeInv
<1>7. CASE ReconcileDelete
  <2>1. ObjectsOK'
    <3>1. w' \in {w, [w EXCEPT !.finalizer = FALSE]}
      BY <1>7 DEF ReconcileDelete
    <3>2. w' \in Machine
      BY <3>1 DEF TypeInv, ObjectsOK, Machine
    <3> QED BY <1>7, <3>2 DEF ReconcileDelete, At, TypeInv, ObjectsOK
  <2>2. ServersOK'
    BY <1>7 DEF ReconcileDelete, At, Works, Return, Goto, cluster, ingress,
       TypeInv, ServersOK
  <2>3. IngressOK'
    BY <1>7 DEF ReconcileDelete, At, Works, Return, Goto, cluster, ingress,
       TypeInv, IngressOK
  <2>4. ControlOK'
    BY <1>7 DEF ReconcileDelete, At, Works, Return, Goto, cluster, ingress,
       TypeInv, ControlOK, Steps
  <2> QED BY <2>1, <2>2, <2>3, <2>4 DEF TypeInv
<1>8. CASE GetMachineServer
  <2>1. ObjectsOK'
    BY <1>8 DEF GetMachineServer, At, Works, Fails, Return, Goto, EndpointStep,
       cluster, ingress, TypeInv, ObjectsOK
  <2>2. ServersOK'
    BY <1>8 DEF GetMachineServer, At, Works, Fails, Return, Goto, EndpointStep,
       cluster, ingress, TypeInv, ServersOK
  <2>3. IngressOK'
    BY <1>8 DEF GetMachineServer, At, Works, Fails, Return, Goto, EndpointStep,
       cluster, ingress, TypeInv, IngressOK
  <2>4. ControlOK'
    BY <1>8 DEF GetMachineServer, At, Works, Fails, Return, Goto, EndpointStep,
       cluster, ingress, TypeInv, ControlOK, Steps
  <2> QED BY <2>1, <2>2, <2>3, <2>4 DEF TypeInv
<1>9. CASE DeleteFloatingIP
  <2>1. ObjectsOK'
    BY <1>9 DEF DeleteFloatingIP, At, Works, Fails, Return, Goto, cluster,
       TypeInv, ObjectsOK
  <2>2. ServersOK'
    BY <1>9 DEF DeleteFloatingIP, At, Works, Fails, Return, Goto, cluster,
       TypeInv, ServersOK
  <2>3. IngressOK'
    BY <1>9 DEF DeleteFloatingIP, At, Works, Fails, Return, Goto, cluster,
       TypeInv, IngressOK
  <2>4. ControlOK'
    BY <1>9 DEF DeleteFloatingIP, At, Works, Fails, Return, Goto, cluster,
       TypeInv, ControlOK, Steps
  <2> QED BY <2>1, <2>2, <2>3, <2>4 DEF TypeInv
<1>10. CASE DeleteLoadBalancerMember
  <2>1. ObjectsOK'
    BY <1>10 DEF DeleteLoadBalancerMember, At, Works, Fails, Return, Goto,
       Again, cluster, TypeInv, ObjectsOK
  <2>2. ServersOK'
    BY <1>10 DEF DeleteLoadBalancerMember, At, Works, Fails, Return, Goto,
       Again, cluster, TypeInv, ServersOK
  <2>3. IngressOK'
    <3>1. members' \in {members, [members EXCEPT ![k] = 0]}
      BY <1>10 DEF DeleteLoadBalancerMember
    <3>2. [members EXCEPT ![k] = 0] \in [Listeners -> 0..MaxInstances]
      <4>1. 0 \in 0..MaxInstances
        OBVIOUS
      <4> QED BY <4>1 DEF TypeInv, IngressOK
    <3> QED BY <1>10, <3>1, <3>2 DEF DeleteLoadBalancerMember, At, TypeInv, IngressOK
  <2>4. ControlOK'
    BY <1>10 DEF DeleteLoadBalancerMember, At, Works, Fails, Return, Goto,
       Again, cluster, TypeInv, ControlOK, Steps
  <2> QED BY <2>1, <2>2, <2>3, <2>4 DEF TypeInv
<1>11. CASE DeleteServer
  <2>1. ObjectsOK'
    <3>1. w' \in {w, [w EXCEPT !.finalizer = FALSE]}
      BY <1>11 DEF DeleteServer
    <3>2. w' \in Machine
      BY <3>1 DEF TypeInv, ObjectsOK, Machine
    <3> QED BY <1>11, <3>2 DEF DeleteServer, At, TypeInv, ObjectsOK
  <2>2. ServersOK'
    <3>1. server' \in {server, Life!Deleted} /\ UNCHANGED <<srv, scache, live, launched>>
      BY <1>11 DEF DeleteServer, At
    <3> QED BY <3>1, DeletedServer DEF TypeInv, ServersOK
  <2>3. IngressOK'
    BY <1>11 DEF DeleteServer, At, Works, Fails, Return, Life!Deleted,
       Life!NoServer, cluster, ingress, TypeInv, IngressOK
  <2>4. ControlOK'
    BY <1>11 DEF DeleteServer, At, Works, Fails, Return, Life!Deleted,
       Life!NoServer, cluster, ingress, TypeInv, ControlOK, Steps
  <2> QED BY <2>1, <2>2, <2>3, <2>4 DEF TypeInv
<1>12. CASE PatchMeta
  <2>1. ObjectsOK'
    <3>1. machine' \in {machine, PatchedMeta(machine)} /\ UNCHANGED <<mcache, base, w>>
      BY <1>12 DEF PatchMeta, local
    <3> QED BY <3>1, PatchedType DEF TypeInv, ObjectsOK
  <2>2. ServersOK'
    BY <1>12 DEF PatchMeta, Works, Fails, PatchedMeta, lifecycle, cluster,
       ingress, local, TypeInv, ServersOK
  <2>3. IngressOK'
    BY <1>12 DEF PatchMeta, Works, Fails, PatchedMeta, lifecycle, cluster,
       ingress, local, TypeInv, IngressOK
  <2>4. ControlOK'
    BY <1>12 DEF PatchMeta, Works, Fails, PatchedMeta, lifecycle, cluster,
       ingress, local, TypeInv, ControlOK, Steps
  <2> QED BY <2>1, <2>2, <2>3, <2>4 DEF TypeInv
<1>13. CASE PatchStatus
  <2>1. ObjectsOK'
    <3>1. /\ machine' \in {machine, PatchedStatus(machine)} /\ UNCHANGED mcache
          /\ base' = NewMachine /\ w' = NewMachine
      BY <1>13 DEF PatchStatus, Finish, Stop
    <3> QED BY <3>1, PatchedType, NewMachineType DEF TypeInv, ObjectsOK
  <2>2. ServersOK'
    <3>1. UNCHANGED <<server, scache, live, launched>> /\ srv' = Life!NoServer
      BY <1>13 DEF PatchStatus, Finish, Stop, lifecycle
    <3> QED BY <3>1, NewServerType DEF TypeInv, ServersOK
  <2>3. IngressOK'
    BY <1>13 DEF PatchStatus, Works, Fails, PatchedStatus, Finish, Stop,
       NewMachine, Life!NoServer, lifecycle, cluster, ingress, TypeInv,
       IngressOK
  <2>4. ControlOK'
    <3>1. /\ Works \/ Fails("kube")
          /\ Finish("done") \/ Finish("requeue") \/ Finish("error")
      BY <1>13 DEF PatchStatus, TypeInv, ControlOK
    <3> QED BY <1>13, <3>1 DEF PatchStatus, Works, Fails, Finish, Stop, lifecycle, cluster,
           TypeInv, ControlOK, Steps
  <2> QED BY <2>1, <2>2, <2>3, <2>4 DEF TypeInv
<1>14. CASE Crash
  <2>1. ObjectsOK'
    BY <1>14, NewMachineType DEF Crash, Stop, TypeInv, ObjectsOK
  <2>2. ServersOK'
    BY <1>14, NewServerType DEF Crash, Stop, lifecycle, TypeInv, ServersOK
  <2>3. IngressOK'
    BY <1>14 DEF Crash, Fails, Stop, NewMachine, Life!NoServer, lifecycle,
       cluster, ingress, TypeInv, IngressOK
  <2>4. ControlOK'
    BY <1>14 DEF Crash, Fails, Stop, NewMachine, Life!NoServer, lifecycle,
       cluster, ingress, TypeInv, ControlOK, Steps
  <2> QED BY <2>1, <2>2, <2>3, <2>4 DEF TypeInv
<1>15. CASE MachineEvent
  <2>1. ObjectsOK'
    BY <1>15 DEF MachineEvent, lifecycle, cluster, ingress, local, TypeInv,
       ObjectsOK
  <2>2. ServersOK'
    BY <1>15 DEF MachineEvent, lifecycle, cluster, ingress, local, TypeInv,
       ServersOK
  <2>3. IngressOK'
    BY <1>15 DEF MachineEvent, lifecycle, cluster, ingress, local, TypeInv,
       IngressOK
  <2>4. ControlOK'
    BY <1>15 DEF MachineEvent, lifecycle, cluster, ingress, local, TypeInv,
       ControlOK, Steps
  <2> QED BY <2>1, <2>2, <2>3, <2>4 DEF TypeInv
<1>16. CASE ServerEvent
  <2>1. ObjectsOK'
    BY <1>16 DEF ServerEvent, lifecycle, cluster, ingress, local, TypeInv,
       ObjectsOK
  <2>2. ServersOK'
    BY <1>16 DEF ServerEvent, lifecycle, cluster, ingress, local, TypeInv,
       ServersOK, Life!Server, Life!ServerStates
  <2>3. IngressOK'
    BY <1>16 DEF ServerEvent, lifecycle, cluster, ingress, local, TypeInv,
       IngressOK
  <2>4. ControlOK'
    BY <1>16 DEF ServerEvent, lifecycle, cluster, ingress, local, TypeInv,
       ControlOK, Steps
  <2> QED BY <2>1, <2>2, <2>3, <2>4 DEF TypeInv
<1>17. CASE Prerequisite
  <2>1. ObjectsOK'
    BY <1>17 DEF Prerequisite, lifecycle, ingress, local, TypeInv, ObjectsOK
  <2>2. ServersOK'
    BY <1>17 DEF Prerequisite, lifecycle, ingress, local, TypeInv, ServersOK
  <2>3. IngressOK'
    BY <1>17 DEF Prerequisite, lifecycle, ingress, local, TypeInv, IngressOK
  <2>4. ControlOK'
    BY <1>17 DEF Prerequisite, lifecycle, ingress, local, TypeInv, ControlOK,
       Steps
  <2> QED BY <2>1, <2>2, <2>3, <2>4 DEF TypeInv
<1>18. CASE Resync
  <2>1. ObjectsOK'
    BY <1>18 DEF Resync, lifecycle, cluster, ingress, local, TypeInv, ObjectsOK
  <2>2. ServersOK'
    BY <1>18 DEF Resync, lifecycle, cluster, ingress, local, TypeInv, ServersOK
  <2>3. IngressOK'
    BY <1>18 DEF Resync, lifecycle, cluster, ingress, local, TypeInv, IngressOK
  <2>4. ControlOK'
    BY <1>18 DEF Resync, lifecycle, cluster, ingress, local, TypeInv, ControlOK,
       Steps
  <2> QED BY <2>1, <2>2, <2>3, <2>4 DEF TypeInv
<1>19. CASE DeleteMachine
  <2>1. ObjectsOK'
    <3>1. machine' \in {[machine EXCEPT !.deleting = TRUE], [machine EXCEPT !.exists = FALSE]}
      BY <1>19 DEF DeleteMachine
    <3>2. machine' \in Machine
      BY <3>1 DEF TypeInv, ObjectsOK, Machine
    <3> QED BY <1>19, <3>2 DEF DeleteMachine, controller, local, TypeInv, ObjectsOK
  <2>2. ServersOK'
    BY <1>19 DEF DeleteMachine, lifecycle, cluster, ingress, local, controller,
       TypeInv, ServersOK
  <2>3. IngressOK'
    BY <1>19 DEF DeleteMachine, lifecycle, cluster, ingress, local, controller,
       TypeInv, IngressOK
  <2>4. ControlOK'
    BY <1>19 DEF DeleteMachine, lifecycle, cluster, ingress, local, controller,
       TypeInv, ControlOK, Steps
  <2> QED BY <2>1, <2>2, <2>3, <2>4 DEF TypeInv
<1>20. CASE DeleteServerObject
  <2>1. ObjectsOK'
    BY <1>20 DEF DeleteServerObject, Life!Delete, Life!Deleted, Life!NoServer,
       cluster, ingress, local, controller, TypeInv, ObjectsOK
  <2>2. ServersOK'
    <3>1. server' = Life!Deleted /\ UNCHANGED <<scache, srv, live, launched>>
      BY <1>20 DEF DeleteServerObject, Life!Delete, controller, local
    <3> QED BY <3>1, DeletedServer DEF TypeInv, ServersOK
  <2>3. IngressOK'
    BY <1>20 DEF DeleteServerObject, Life!Delete, Life!Deleted, Life!NoServer,
       cluster, ingress, local, controller, TypeInv, IngressOK
  <2>4. ControlOK'
    BY <1>20 DEF DeleteServerObject, Life!Delete, Life!Deleted, Life!NoServer,
       cluster, ingress, local, controller, TypeInv, ControlOK, Steps
  <2> QED BY <2>1, <2>2, <2>3, <2>4 DEF TypeInv
<1>21. CASE ServerReconciles
  <2>1. ObjectsOK'
    BY <1>21 DEF ServerReconciles, controller, local, TypeInv, ObjectsOK
  <2>2. ServersOK'
    <3>1. UNCHANGED <<scache, srv>>
      BY <1>21 DEF ServerReconciles, controller, local
    <3>2. CASE Life!Protect
      <4>1. [server EXCEPT !.finalizer = TRUE] \in Life!Server
        BY DEF TypeInv, ServersOK, Life!Server
      <4> QED BY <3>1, <3>2, <4>1 DEF Life!Protect, TypeInv, ServersOK
    <3>3. CASE Life!Launch
      BY <3>1, <3>3 DEF Life!Launch, TypeInv, ServersOK
    <3>4. CASE \E id \in 0..launched, state \in NovaStates : Life!Report(id, state)
      <4>1. PICK id \in 0..launched, state \in NovaStates : Life!Report(id, state)
        BY <3>4
      <4>2. id \in 0..MaxInstances /\ state \in Life!ServerStates
        BY DEF TypeInv, ServersOK, Life!ServerStates
      <4>3. (state = "ACTIVE") \in BOOLEAN /\ server \in Life!Server
        BY DEF TypeInv, ServersOK
      <4>4. [server EXCEPT !.id = id, !.state = state, !.ready = state = "ACTIVE"]
              \in Life!Server
        BY <4>2, <4>3 DEF Life!Server
      <4> QED BY <3>1, <4>1, <4>4 DEF Life!Report, TypeInv, ServersOK
    <3> QED BY <1>21, <3>2, <3>3, <3>4 DEF ServerReconciles
  <2>3. IngressOK'
    BY <1>21 DEF ServerReconciles, Life!Protect, Life!Launch, Life!Report,
       cluster, ingress, local, controller, TypeInv, IngressOK
  <2>4. ControlOK'
    BY <1>21 DEF ServerReconciles, Life!Protect, Life!Launch, Life!Report,
       cluster, ingress, local, controller, TypeInv, ControlOK, Steps
  <2> QED BY <2>1, <2>2, <2>3, <2>4 DEF TypeInv
<1>22. CASE InstanceVanishes
  <2>1. ObjectsOK'
    BY <1>22 DEF InstanceVanishes, Life!Vanish, cluster, ingress, local,
       controller, TypeInv, ObjectsOK
  <2>2. ServersOK'
    BY <1>22 DEF InstanceVanishes, Life!Vanish, cluster, ingress, local,
       controller, TypeInv, ServersOK, Life!Server, Life!ServerStates
  <2>3. IngressOK'
    BY <1>22 DEF InstanceVanishes, Life!Vanish, cluster, ingress, local,
       controller, TypeInv, IngressOK
  <2>4. ControlOK'
    BY <1>22 DEF InstanceVanishes, Life!Vanish, cluster, ingress, local,
       controller, TypeInv, ControlOK, Steps
  <2> QED BY <2>1, <2>2, <2>3, <2>4 DEF TypeInv
<1>23. CASE ServerRemoved
  <2>1. ObjectsOK'
    BY <1>23 DEF ServerRemoved, Life!Remove, Life!NoServer, cluster, local,
       controller, TypeInv, ObjectsOK
  <2>2. ServersOK'
    BY <1>23 DEF ServerRemoved, Life!Remove, Life!NoServer, cluster, local,
       controller, TypeInv, ServersOK, Life!Server, Life!ServerStates
  <2>3. IngressOK'
    BY <1>23 DEF ServerRemoved, Life!Remove, Life!NoServer, cluster, local,
       controller, TypeInv, IngressOK
  <2>4. ControlOK'
    BY <1>23 DEF ServerRemoved, Life!Remove, Life!NoServer, cluster, local,
       controller, TypeInv, ControlOK, Steps
  <2> QED BY <2>1, <2>2, <2>3, <2>4 DEF TypeInv
<1>24. CASE Move
  <2>1. ObjectsOK'
    <3>1. machine.finalizer \in BOOLEAN /\ machine.providerID \in 0..MaxInstances
      BY DEF TypeInv, ObjectsOK, Machine
    <3>2. [NewMachine EXCEPT !.finalizer = machine.finalizer,
                             !.providerID = machine.providerID] \in Machine
      BY <3>1, NewMachineType DEF Machine
    <3> QED BY <1>24, <3>2 DEF Move, local, TypeInv, ObjectsOK
  <2>2. ServersOK'
    BY <1>24, DeletedServer DEF Move, local, TypeInv, ServersOK
  <2>3. IngressOK'
    BY <1>24 DEF Move, NewMachine, Life!Moved, Life!NewServer, Life!NoServer,
       ingress, local, TypeInv, IngressOK
  <2>4. ControlOK'
    BY <1>24 DEF Move, local, TypeInv, ControlOK
  <2> QED BY <2>1, <2>2, <2>3, <2>4 DEF TypeInv
<1>25. CASE UNCHANGED vars
  BY <1>25 DEF vars, lifecycle, cluster, ingress, local, TypeInv, ObjectsOK,
     ServersOK, IngressOK, ControlOK
<1> QED
  BY <1>1, <1>2, <1>3, <1>4, <1>5, <1>6, <1>7, <1>8, <1>9, <1>10, <1>11, <1>12,
     <1>13, <1>14, <1>15, <1>16, <1>17, <1>18, <1>19, <1>20, <1>21, <1>22,
     <1>23, <1>24, <1>25 DEF Next, Worker

\* Every step leaves the flags Boolean.
LEMMA FlagsNext == FlagsOK /\ [Next]_vars => FlagsOK'
<1> SUFFICES ASSUME FlagsOK, [Next]_vars PROVE FlagsOK'
  OBVIOUS
<1>1. linked' \in {linked, TRUE} /\ bootstrap' \in {bootstrap, TRUE} /\ infra' \in {infra, TRUE, FALSE}
  BY Zenon DEF Next, Worker, vars, cluster, At, Start, ReconcileNormal, ReconcileMachineServer,
     GetInstanceStatus, ReconcileLoadBalancerMember, ReconcileFloatingIP,
     ReconcileDelete, GetMachineServer, DeleteFloatingIP, DeleteLoadBalancerMember,
     DeleteServer, PatchMeta, PatchStatus, Crash, MachineEvent, ServerEvent,
     Prerequisite, Resync, DeleteMachine, DeleteServerObject, ServerReconciles,
     InstanceVanishes, ServerRemoved, Move
<1>2. queued' \in {queued, TRUE, FALSE}
  BY Zenon DEF Next, Worker, vars, At, Finish, Start, ReconcileNormal, ReconcileMachineServer,
     GetInstanceStatus, ReconcileLoadBalancerMember, ReconcileFloatingIP,
     ReconcileDelete, GetMachineServer, DeleteFloatingIP, DeleteLoadBalancerMember,
     DeleteServer, PatchMeta, PatchStatus, Crash, MachineEvent, ServerEvent,
     Prerequisite, Resync, DeleteMachine, DeleteServerObject, ServerReconciles,
     InstanceVanishes, ServerRemoved, Move
<1> QED BY <1>1, <1>2 DEF FlagsOK

\* The variables of the machine controller stay in their types.
THEOREM TypeCorrect == Spec => []TypeOK
<1>1. TypeInv /\ FlagsOK => TypeOK
  BY DEF TypeInv, TypeOK
<1> QED BY <1>1, TypeInit, TypeNext, FlagsNext, PTL DEF Spec

-----------------------------------------------------------------------------
(* The finalizer guards server and members *)

\* The patch drops a finalizer only from a machine that is being deleted, which then
\* goes; nothing else drops a finalizer or a deletion timestamp.
LEMMA MachineStep ==
  ASSUME TypeInv, Persisted(base), ReadOK, [Next]_vars
  PROVE  machine'.exists => /\ machine.exists
                            /\ machine.finalizer => machine'.finalizer
                            /\ machine.deleting => machine'.deleting
<1>0. machine \in Machine /\ base \in Machine /\ w \in Machine
  BY DEF TypeInv, ObjectsOK
<1>1. CASE PatchMeta
  <2>1. machine' = machine \/ (machine.exists /\ machine' = PatchedMeta(machine))
    BY <1>1 DEF PatchMeta
  <2>2. base.finalizer /\ ~w.finalizer /\ machine.exists => machine.deleting
    BY DEF ReadOK, Persisted
  <2>3. ASSUME machine.exists, PatchedMeta(machine).exists
        PROVE  /\ machine.finalizer => PatchedMeta(machine).finalizer
               /\ machine.deleting = PatchedMeta(machine).deleting
    <3> DEFINE spec == [machine EXCEPT !.providerID =
                          IF w.providerID = base.providerID THEN @ ELSE w.providerID]
    <3>1. /\ spec.finalizer = machine.finalizer /\ spec.deleting = machine.deleting
          /\ DOMAIN spec = DOMAIN machine
      BY <1>0 DEF Machine
    <3>2. \/ PatchedMeta(machine) = spec
          \/ PatchedMeta(machine) = [spec EXCEPT !.finalizer = TRUE]
          \/ /\ PatchedMeta(machine) = [spec EXCEPT !.finalizer = FALSE, !.exists = ~machine.deleting]
             /\ base.finalizer /\ ~w.finalizer
      BY <1>0 DEF PatchedMeta, Machine
    <3> HIDE DEF spec
    <3> QED BY <1>0, <2>2, <2>3, <3>1, <3>2 DEF Machine
  <2> QED BY <2>1, <2>3
<1>2. CASE PatchStatus
  <2>1. machine' = machine \/ machine' = PatchedStatus(machine)
    BY <1>2 DEF PatchStatus
  <2> QED BY <1>0, <2>1 DEF PatchedStatus, Machine
<1>3. CASE DeleteMachine
  BY <1>0, <1>3 DEF DeleteMachine, Machine
<1>4. CASE Move
  BY <1>0, <1>4 DEF Move, NewMachine, Machine
<1>5. CASE ~(PatchMeta \/ PatchStatus \/ DeleteMachine \/ Move)
  <2>1. machine' = machine
    BY <1>5, Zenon DEF Next, Worker, vars, At, Start, ReconcileNormal, ReconcileMachineServer, GetInstanceStatus,
     ReconcileLoadBalancerMember, ReconcileFloatingIP, ReconcileDelete, GetMachineServer,
     DeleteFloatingIP, DeleteLoadBalancerMember, DeleteServer, Crash, MachineEvent, ServerEvent, Prerequisite,
     Resync, DeleteServerObject, ServerReconciles, InstanceVanishes, ServerRemoved
  <2> QED BY <2>1
<1> QED BY <1>1, <1>2, <1>3, <1>4, <1>5

\* Only reconcileNormal, past the check of the finalizer, creates the server or a
\* member.
LEMMA CreatedWhere ==
  ASSUME TypeInv, [Next]_vars,
         \/ server'.exists /\ ~server.exists
         \/ ~Unrouted' /\ Unrouted
  PROVE  pc \in {"server", "member"} /\ machine' = machine
<1>1. CASE ReconcileMachineServer \/ ReconcileLoadBalancerMember
  BY <1>1 DEF ReconcileMachineServer, ReconcileLoadBalancerMember, At
<1>2. CASE ~(ReconcileMachineServer \/ ReconcileLoadBalancerMember)
  <2>1. Unrouted => Unrouted'
    <3>1. UNCHANGED members \/ DeleteLoadBalancerMember
      BY <1>2, Zenon DEF Next, Worker, vars, ingress, Start, ReconcileNormal, ReconcileMachineServer, GetInstanceStatus,
     ReconcileLoadBalancerMember, ReconcileFloatingIP, ReconcileDelete, GetMachineServer,
     DeleteFloatingIP, DeleteLoadBalancerMember, DeleteServer, PatchMeta, PatchStatus, Crash, MachineEvent,
         ServerEvent, Prerequisite, Resync, DeleteMachine, DeleteServerObject,
         ServerReconciles, InstanceVanishes, ServerRemoved, Move
    <3>2. ASSUME DeleteLoadBalancerMember, Unrouted PROVE Unrouted'
      <4>1. members' \in {members, [members EXCEPT ![k] = 0]}
        BY <3>2 DEF DeleteLoadBalancerMember
      <4> QED BY <3>2, <4>1 DEF Unrouted, TypeInv, IngressOK
    <3> QED BY <3>1, <3>2 DEF Unrouted
  <2>2. server'.exists => server.exists
    <3>1. \/ UNCHANGED server
          \/ DeleteServer \/ DeleteServerObject \/ ServerReconciles \/ ServerRemoved \/ Move
      BY <1>2, Zenon DEF Next, Worker, vars, lifecycle, Life!Vanish, Start, ReconcileNormal, ReconcileMachineServer, GetInstanceStatus,
     ReconcileLoadBalancerMember, ReconcileFloatingIP, ReconcileDelete, GetMachineServer,
     DeleteFloatingIP, DeleteLoadBalancerMember, DeleteServer, PatchMeta, PatchStatus, Crash, MachineEvent,
         ServerEvent, Prerequisite, Resync, DeleteMachine, InstanceVanishes
    <3>2. server \in Life!Server
      BY DEF TypeInv, ServersOK
    <3>3. CASE DeleteServer
      BY <3>2, <3>3 DEF DeleteServer, Life!Deleted, Life!NoServer, Life!Server
    <3>4. CASE DeleteServerObject \/ ServerReconciles \/ ServerRemoved
      BY <3>2, <3>4 DEF DeleteServerObject, ServerReconciles, ServerRemoved, Life!Delete,
         Life!Deleted, Life!Protect, Life!Launch, Life!Report, Life!Remove, Life!NoServer
    <3>5. CASE Move
      BY <3>2, <3>5 DEF Move, Life!Moved
    <3> QED BY <3>1, <3>3, <3>4, <3>5
  <2> QED BY <2>1, <2>2
<1> QED BY <1>1, <1>2

\* Every step keeps what the reconcile knows about its read.
LEMMA ReadNext ==
  ASSUME TypeInv, ReadOK, [Next]_vars PROVE ReadOK'
<1> USE DEF CreatingSteps, DeleteSteps
<1>0. mcache \in Machine /\ base \in Machine /\ w \in Machine
  BY DEF TypeInv, ObjectsOK
<1>1. CASE Start
  BY <1>0, <1>1 DEF Start, ReadOK, Machine
<1>2. CASE ReconcileNormal
  <2>1. \/ w' = w /\ pc' = "patchMeta"
        \/ /\ w' = [w EXCEPT !.finalizer = TRUE]
           /\ pc' = "patchMeta" \/ (pc' = "server" /\ w.finalizer)
    BY <1>2 DEF ReconcileNormal, Return, Goto, MustPersist
  <2>2. base' = base /\ pc = "normal"
    BY <1>2 DEF ReconcileNormal, At
  <2> QED BY <1>0, <2>1, <2>2 DEF ReadOK, Machine
<1>3. CASE ReconcileMachineServer
  <2>1. w'.finalizer = w.finalizer
    BY <1>0, <1>3 DEF ReconcileMachineServer, ReconcileMachineState, Provision, Machine
  <2>2. pc = "server" /\ base' = base /\ pc' \in {"instance", "patchMeta"}
    BY <1>3 DEF ReconcileMachineServer, ReconcileMachineState, At, Return, Goto
  <2> QED BY <2>1, <2>2 DEF ReadOK
<1>4. CASE GetInstanceStatus
  <2>1. w'.finalizer = w.finalizer
    BY <1>0, <1>4 DEF GetInstanceStatus, Machine
  <2>2. pc = "instance" /\ base' = base /\ pc' \in {"member", "floatingIP", "patchMeta"}
    BY <1>4 DEF GetInstanceStatus, At, Return, Goto
  <2> QED BY <2>1, <2>2 DEF ReadOK
<1>5. CASE ReconcileLoadBalancerMember \/ ReconcileFloatingIP
  BY <1>5 DEF ReconcileLoadBalancerMember, ReconcileFloatingIP, At, Return, Again, ReadOK
<1>6. CASE ReconcileDelete \/ DeleteServer
  <2>1. w' \in {w, [w EXCEPT !.finalizer = FALSE]} /\ base' = base /\ base.deleting
    BY <1>6 DEF ReconcileDelete, DeleteServer, At, ReadOK
  <2>2. pc' \in {"dServer", "patchMeta"}
    BY <1>6 DEF ReconcileDelete, DeleteServer, Return, Goto
  <2> QED BY <2>1, <2>2 DEF ReadOK
<1>7. CASE GetMachineServer \/ DeleteFloatingIP \/ DeleteLoadBalancerMember
  <2>1. UNCHANGED <<w, base>> /\ pc \in DeleteSteps
    BY <1>7 DEF GetMachineServer, DeleteFloatingIP, DeleteLoadBalancerMember, At
  <2>2. pc' \in DeleteSteps \/ pc' = "patchMeta"
    BY <1>7 DEF GetMachineServer, DeleteFloatingIP, DeleteLoadBalancerMember, At, Return,
       Goto, Again, EndpointStep
  <2> QED BY <2>1, <2>2 DEF ReadOK
<1>8. CASE PatchMeta
  BY <1>8 DEF PatchMeta, local, ReadOK
<1>9. CASE PatchStatus \/ Crash
  BY <1>9 DEF PatchStatus, Crash, Finish, Stop, NewMachine, ReadOK
<1>10. CASE \/ MachineEvent \/ ServerEvent \/ Prerequisite \/ Resync \/ DeleteMachine
            \/ DeleteServerObject \/ ServerReconciles \/ InstanceVanishes \/ ServerRemoved
            \/ Move \/ UNCHANGED vars
  <2>1. UNCHANGED <<pc, base, w>>
    BY <1>10 DEF MachineEvent, ServerEvent, Prerequisite, Resync, DeleteMachine,
       DeleteServerObject, ServerReconciles, InstanceVanishes, ServerRemoved, Move, vars,
       local, controller
  <2> QED BY <2>1 DEF ReadOK
<1> QED BY <1>1, <1>2, <1>3, <1>4, <1>5, <1>6, <1>7, <1>8, <1>9, <1>10 DEF Next, Worker

\* The initial state satisfies the invariant.
LEMMA GuardInit == Init => GuardInv
BY DEF Init, GuardInv, FinalizerGuardsServer, Persisted, ReadOK, NewMachine, Life!NoServer,
   CreatingSteps, DeleteSteps

\* Every step keeps it.
LEMMA GuardNext == TypeInv /\ GuardInv /\ [Next]_vars => GuardInv'
<1> SUFFICES ASSUME TypeInv, GuardInv, [Next]_vars PROVE GuardInv'
  OBVIOUS
<1>1. machine'.exists => /\ machine.exists
                         /\ machine.finalizer => machine'.finalizer
                         /\ machine.deleting => machine'.deleting
  BY MachineStep DEF GuardInv
<1>2. mcache' \in {mcache, machine, machine'}
  BY Zenon DEF Next, Worker, vars, At, controller, Start, ReconcileNormal, ReconcileMachineServer, GetInstanceStatus,
     ReconcileLoadBalancerMember, ReconcileFloatingIP, ReconcileDelete, GetMachineServer,
     DeleteFloatingIP, DeleteLoadBalancerMember, DeleteServer, PatchMeta, PatchStatus, Crash,
     MachineEvent, ServerEvent, Prerequisite, Resync, DeleteMachine, DeleteServerObject,
     ServerReconciles, InstanceVanishes, ServerRemoved, Move
<1>3. base' \in {base, mcache, NewMachine}
  BY Zenon DEF Next, Worker, vars, At, controller, local, Finish, Stop, Start, ReconcileNormal, ReconcileMachineServer, GetInstanceStatus,
     ReconcileLoadBalancerMember, ReconcileFloatingIP, ReconcileDelete, GetMachineServer,
     DeleteFloatingIP, DeleteLoadBalancerMember, DeleteServer, PatchMeta, PatchStatus, Crash,
     MachineEvent, ServerEvent, Prerequisite, Resync, DeleteMachine, DeleteServerObject,
     ServerReconciles, InstanceVanishes, ServerRemoved, Move
<1>4. Persisted(mcache)' /\ Persisted(base)'
  BY <1>1, <1>2, <1>3 DEF GuardInv, Persisted, NewMachine
<1>5. FinalizerGuardsServer'
  <2>1. CASE server.exists \/ ~Unrouted
    BY <1>1, <2>1 DEF GuardInv, FinalizerGuardsServer, Unrouted
  <2>2. CASE ~(server.exists \/ ~Unrouted) /\ (server'.exists \/ ~Unrouted')
    <3>1. pc \in {"server", "member"} /\ machine' = machine
      BY <2>2, CreatedWhere
    <3>2. machine.exists => machine.finalizer
      BY <3>1 DEF GuardInv, ReadOK, Persisted, CreatingSteps
    <3> QED BY <3>1, <3>2 DEF FinalizerGuardsServer
  <2>3. CASE ~(server'.exists \/ ~Unrouted')
    BY <2>3 DEF FinalizerGuardsServer, Unrouted, Listeners
  <2> QED BY <2>1, <2>2, <2>3
<1>6. ReadOK'
  BY ReadNext DEF GuardInv
<1> QED BY <1>4, <1>5, <1>6 DEF GuardInv

\* Whatever lags, fails, crashes or moves, a server or a load balancer member exists
\* only under a machine that durably holds its finalizer.
THEOREM FinalizerGuards == Spec => []FinalizerGuardsServer
<1>1. GuardInv => FinalizerGuardsServer
  BY DEF GuardInv
<1> QED BY <1>1, TypeInit, TypeNext, GuardInit, GuardNext, PTL DEF Spec

-----------------------------------------------------------------------------
(* The finalizer goes last *)

\* The initial state satisfies the invariant.
LEMMA RemovalInit == Init => RemovalInv
BY DEF Init, RemovalInv, NothingEarly, DeletedSoFar, DroppedClean, NewMachine, Life!NoServer,
   Unrouted, CreatingSteps, DeleteSteps

\* Every step keeps it, if reads of the server are fresh and nothing is moved.
LEMMA RemovalNext ==
  ASSUME ~StaleServer, MaxMoves = 0, TypeInv, ReadOK, RemovalInv, [Next]_vars
  PROVE  RemovalInv'
<1> USE DEF CreatingSteps, DeleteSteps
<1>0. /\ mcache \in Machine /\ base \in Machine /\ w \in Machine
      /\ server \in Life!Server /\ scache \in Life!Server /\ srv \in Life!Server
      /\ members \in [Listeners -> 0..MaxInstances] /\ k \in Nat \ {0}
      /\ NListeners \in Nat \ {0}
  BY MachineAssumption DEF TypeInv, ObjectsOK, ServersOK, IngressOK, ControlOK
<1>1. CASE Start
  <2>1. UNCHANGED <<server, members, infra, endpoint, k>>
    BY <1>1 DEF Start, lifecycle, ingress, cluster
  <2>2. /\ pc' \in {"idle", "dCluster", "normal", "patchMeta"}
        /\ pc' \in {"dCluster", "patchMeta"} => base' = w'
    BY <1>1 DEF Start
  <2> QED BY <1>0, <2>1, <2>2 DEF RemovalInv, NothingEarly, DeletedSoFar, DroppedClean, Unrouted, Machine
<1>2. CASE ReconcileNormal
  <2>1. UNCHANGED <<server, members, infra, endpoint, base>> /\ pc = "normal"
    BY <1>2 DEF ReconcileNormal, At, ingress, cluster
  <2>2. \/ pc' = "patchMeta" /\ w' \in {w, [w EXCEPT !.finalizer = TRUE]}
        \/ pc' = "server" /\ infra
    BY <1>2 DEF ReconcileNormal, Return, Goto
  <2> QED BY <1>0, <2>1, <2>2 DEF ReadOK, RemovalInv, NothingEarly, DeletedSoFar, DroppedClean, Unrouted, Machine
<1>3. CASE ReconcileMachineServer
  <2>1. UNCHANGED <<members, infra, endpoint, base>> /\ pc = "server" /\ infra
    BY <1>3 DEF ReconcileMachineServer, At, ingress, cluster, RemovalInv, NothingEarly
  <2>2. pc' \in {"instance", "patchMeta"}
    BY <1>3 DEF ReconcileMachineServer, ReconcileMachineState, Return, Goto
  <2>3. w'.finalizer = w.finalizer
    BY <1>0, <1>3 DEF ReconcileMachineServer, ReconcileMachineState, Provision, Machine
  <2> QED BY <1>0, <2>1, <2>2, <2>3 DEF ReadOK, RemovalInv, NothingEarly, DeletedSoFar, DroppedClean, Unrouted
<1>4. CASE GetInstanceStatus
  <2>1. UNCHANGED <<server, members, infra, endpoint, base>> /\ pc = "instance" /\ infra
    BY <1>4 DEF GetInstanceStatus, At, ingress, cluster, RemovalInv, NothingEarly
  <2>2. pc' \in {"floatingIP", "patchMeta"} \/ (pc' = "member" /\ ControlPlane /\ endpoint = "lb")
    BY <1>4 DEF GetInstanceStatus, Return, Goto
  <2>3. w'.finalizer = w.finalizer
    BY <1>0, <1>4 DEF GetInstanceStatus, Machine
  <2> QED BY <1>0, <2>1, <2>2, <2>3 DEF ReadOK, RemovalInv, NothingEarly, DeletedSoFar, DroppedClean, Unrouted
<1>5. CASE ReconcileLoadBalancerMember \/ ReconcileFloatingIP
  <2>1. /\ UNCHANGED <<server, infra, endpoint, base, w>> /\ infra
        /\ pc \in {"member", "floatingIP"} /\ pc' \in {pc, "patchMeta"}
        /\ UNCHANGED members \/ pc = "member"
    BY <1>5 DEF ReconcileLoadBalancerMember, ReconcileFloatingIP, At, Return, Again,
       cluster, RemovalInv, NothingEarly
  <2> QED BY <1>0, <2>1 DEF ReadOK, RemovalInv, NothingEarly, DeletedSoFar, DroppedClean, Unrouted
<1>6. CASE ReconcileDelete
  <2>1. UNCHANGED <<server, members, infra, endpoint, base>> /\ pc = "dCluster"
    BY <1>6 DEF ReconcileDelete, At, ingress, cluster
  <2>2. (pc' = "patchMeta" /\ ~infra) \/ (pc' = "dServer" /\ w' = w)
    BY <1>6 DEF ReconcileDelete, Return, Goto
  <2> QED BY <2>1, <2>2 DEF RemovalInv, NothingEarly, DeletedSoFar, DroppedClean, Unrouted
<1>7. CASE GetMachineServer
  <2>1. UNCHANGED <<server, members, infra, endpoint, base, w>> /\ pc = "dServer"
    BY <1>7 DEF GetMachineServer, At, ingress, cluster
  <2>2. /\ srv' = server
        /\ \/ pc' \in {"dDelete", "dInstance"} /\ ~(ControlPlane /\ endpoint = "lb")
           \/ pc' = "dMember" /\ k' = 1
           \/ pc' = "patchMeta"
    BY <1>7 DEF GetMachineServer, Return, Goto, EndpointStep
  <2> QED BY <1>0, <2>1, <2>2 DEF RemovalInv, NothingEarly, DeletedSoFar, DroppedClean, Unrouted
<1>8. CASE DeleteFloatingIP
  <2>1. UNCHANGED <<server, members, infra, endpoint, base, w, srv>> /\ pc = "dInstance"
    BY <1>8 DEF DeleteFloatingIP, At, ingress, cluster
  <2>2. pc' \in {"dDelete", "patchMeta"}
    BY <1>8 DEF DeleteFloatingIP, Return, Goto
  <2> QED BY <1>0, <2>1, <2>2 DEF RemovalInv, NothingEarly, DeletedSoFar, DroppedClean, Unrouted
<1>9. CASE DeleteLoadBalancerMember
  <2>1. UNCHANGED <<server, infra, endpoint, base, w, srv>> /\ pc = "dMember"
    BY <1>9 DEF DeleteLoadBalancerMember, At, cluster
  <2>2. \/ /\ members' = [members EXCEPT ![k] = 0]
           /\ \/ k = NListeners /\ pc' = "dDelete"
              \/ k # NListeners /\ pc' = pc /\ k' = k + 1
        \/ pc' = "patchMeta" /\ members' \in {members, [members EXCEPT ![k] = 0]}
    BY <1>9 DEF DeleteLoadBalancerMember, Return, Goto, Again
  <2>3. k <= NListeners /\ \A l \in 1..(k - 1) : members[l] = 0
    BY <2>1 DEF RemovalInv, DeletedSoFar
  <2>4. Unrouted => Unrouted'
    BY <1>0, <2>2 DEF Unrouted
  <2>5. NothingEarly' /\ DroppedClean'
    BY <2>1, <2>2, <2>4 DEF RemovalInv, NothingEarly, DroppedClean
  <2>6. DeletedSoFar'
    <3>1. CASE members' = [members EXCEPT ![k] = 0] /\ k = NListeners /\ pc' = "dDelete"
      <4>1. Unrouted'
        BY <1>0, <2>3, <3>1 DEF Unrouted, Listeners
      <4> QED BY <2>1, <3>1, <4>1 DEF RemovalInv, DeletedSoFar
    <3>2. CASE /\ members' = [members EXCEPT ![k] = 0]
               /\ k # NListeners /\ pc' = pc /\ k' = k + 1
      <4>1. k + 1 <= NListeners /\ \A l \in 1..k : members'[l] = 0
        BY <1>0, <2>3, <3>2 DEF Listeners
      <4>2. (k + 1) - 1 = k
        BY <1>0
      <4> QED BY <2>1, <3>2, <4>1, <4>2 DEF RemovalInv, DeletedSoFar
    <3>3. CASE pc' = "patchMeta"
      BY <3>3 DEF DeletedSoFar
    <3> QED BY <2>2, <3>1, <3>2, <3>3
  <2> QED BY <2>5, <2>6 DEF RemovalInv
<1>10. CASE DeleteServer
  <2>1. UNCHANGED <<members, infra, endpoint, base>> /\ pc = "dDelete" /\ pc' = "patchMeta"
    BY <1>10 DEF DeleteServer, At, Return, ingress, cluster
  <2>2. \/ ~srv.exists /\ server' = server
        \/ w' = w /\ server' \in {server, Life!Deleted} /\ server.exists
        \/ w' = w /\ server' = server
    BY <1>10 DEF DeleteServer
  <2> QED BY <1>0, <2>1, <2>2 DEF RemovalInv, NothingEarly, DeletedSoFar, DroppedClean, Unrouted
<1>11. CASE PatchMeta \/ PatchStatus \/ Crash
  <2>1. UNCHANGED <<server, members, infra, endpoint>> /\ pc' \in {"patchStatus", "idle"}
    BY <1>11 DEF PatchMeta, PatchStatus, Crash, Finish, Stop, lifecycle, ingress, cluster
  <2> QED BY <2>1 DEF RemovalInv, NothingEarly, DeletedSoFar, DroppedClean, Unrouted
<1>12. CASE \/ MachineEvent \/ ServerEvent \/ Prerequisite \/ Resync \/ DeleteMachine
            \/ UNCHANGED vars
  <2>1. UNCHANGED <<server, members, endpoint, pc, base, w, srv, k>> /\ infra' \in {infra, TRUE}
    BY <1>12 DEF MachineEvent, ServerEvent, Prerequisite, Resync, DeleteMachine, vars,
       lifecycle, ingress, cluster, controller, local
  <2> QED BY <2>1 DEF RemovalInv, NothingEarly, DeletedSoFar, DroppedClean, Unrouted
<1>13. CASE DeleteServerObject \/ ServerReconciles \/ InstanceVanishes \/ ServerRemoved
  <2>1. UNCHANGED <<members, infra, endpoint, pc, base, w, srv, k>>
    BY <1>13 DEF DeleteServerObject, ServerReconciles, InstanceVanishes, ServerRemoved,
       ingress, cluster, controller, local
  <2>2. server'.exists => server.exists
    BY <1>0, <1>13 DEF DeleteServerObject, ServerReconciles, InstanceVanishes, ServerRemoved,
       Life!Delete, Life!Protect, Life!Launch, Life!Report, Life!Vanish, Life!Remove,
       Life!NoServer
  <2> QED BY <2>1, <2>2 DEF RemovalInv, NothingEarly, DeletedSoFar, DroppedClean, Unrouted
<1>14. CASE Move
  BY <1>14 DEF Move, TypeInv, ControlOK
<1> QED BY <1>1, <1>2, <1>3, <1>4, <1>5, <1>6, <1>7, <1>8, <1>9, <1>10, <1>11, <1>12, <1>13,
        <1>14 DEF Next, Worker

\* A machine goes only when its server is gone and no listener routes to it, for
\* every number of listeners, faults and server deletions by others, if reads of the
\* server are fresh and the cluster is not moved.
THEOREM RemovedClean ==
  ASSUME ~StaleServer, MaxMoves = 0 PROVE Spec => MachineRemovedClean
<1>1. TypeInv /\ RemovalInv /\ [Next]_vars =>
        [machine.exists /\ machine.finalizer /\ ~machine'.exists
           => ~server.exists /\ \A l \in Listeners : members[l] = 0]_vars
  <2> SUFFICES ASSUME TypeInv, RemovalInv, [Next]_vars,
                      machine.exists, machine.finalizer, ~machine'.exists
               PROVE  ~server.exists /\ Unrouted
    BY DEF Unrouted
  <2>0. machine \in Machine /\ base \in Machine /\ w \in Machine
    BY DEF TypeInv, ObjectsOK
  <2>1. CASE PatchMeta
    <3>1. machine' = PatchedMeta(machine) /\ pc = "patchMeta"
      BY <2>1 DEF PatchMeta
    <3>2. base.finalizer /\ ~w.finalizer
      BY <2>0, <3>1 DEF PatchedMeta, Machine
    <3> QED BY <3>1, <3>2 DEF RemovalInv, DroppedClean
  <2>2. CASE PatchStatus
    BY <2>0, <2>2 DEF PatchStatus, PatchedStatus, Machine
  <2>3. CASE DeleteMachine \/ Move
    BY <2>0, <2>3 DEF DeleteMachine, Move, NewMachine, Machine
  <2>4. CASE ~(PatchMeta \/ PatchStatus \/ DeleteMachine \/ Move)
    <3>1. machine' = machine
      BY <2>4, Zenon DEF Next, Worker, vars, At, Start, ReconcileNormal, ReconcileMachineServer, GetInstanceStatus,
     ReconcileLoadBalancerMember, ReconcileFloatingIP, ReconcileDelete, GetMachineServer,
     DeleteFloatingIP, DeleteLoadBalancerMember, DeleteServer, Crash, MachineEvent, ServerEvent, Prerequisite,
     Resync, DeleteServerObject, ServerReconciles, InstanceVanishes, ServerRemoved
    <3> QED BY <3>1
  <2> QED BY <2>1, <2>2, <2>3, <2>4
<1>2. TypeInv /\ ReadOK /\ RemovalInv /\ [Next]_vars => RemovalInv'
  BY RemovalNext
<1>3. GuardInv => ReadOK
  BY DEF GuardInv
<1> QED
  BY <1>1, <1>2, <1>3, TypeInit, TypeNext, GuardInit, GuardNext, RemovalInit, PTL
     DEF Spec, MachineRemovedClean
=============================================================================
