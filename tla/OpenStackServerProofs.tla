------------------------ MODULE OpenStackServerProofs ------------------------
(***************************************************************************)
(* Proofs about OpenStackServer, for every number of ports and volumes, any *)
(* set of resolvable fields, stale or fresh reads, and any number of faults, *)
(* losses and moves.                                                         *)
(***************************************************************************)
EXTENDS OpenStackServer, SequenceTheorems, TLAPS

\* The loop over ports and the loop over volumes stay within the spec.
LoopOK ==
  /\ pc = "ports" => k <= NPorts
  /\ pc = "volumes" => k <= NVolumes

TypeInv == ObjectsOK /\ CloudOK /\ ControlOK /\ LoopOK

\* A function on an initial segment of the naturals is a sequence.
LEMMA FunctionIsSeq ==
  ASSUME NEW S, NEW n \in Nat, NEW f \in [1..n -> S]
  PROVE  f \in Seq(S)
OBVIOUS

USE DEF NoID, NoInst, States, DeletedStates, Port, Instance, Steps, NormalSteps, DeleteSteps

\* A record update of the working copy by adoption keeps its type.
LEMMA AdoptedType ==
  ASSUME TypeInv, NEW m \in Len(w.ports)..NPorts, AdoptionReach(w, m),
         NEW n \in Len(w.ports)..m
  PROVE  Adopted(w, n) \in Seq(1..MaxPortID)
<1>1. w.ports \in Seq(1..MaxPortID) /\ Len(w.ports) \in Nat
  BY DEF TypeInv, ObjectsOK, ServerObj
<1>2. NPorts \in Nat
  BY ConstantsAssumption
<1>3. n \in Nat /\ n <= m /\ m \in Nat
  BY <1>1, <1>2
<1>4. ASSUME NEW i \in 1..n
      PROVE  Adopted(w, n)[i] \in 1..MaxPortID
  <2>1. CASE i <= Len(w.ports)
    <3>1. i \in 1..Len(w.ports)
      BY <1>1, <1>3, <2>1
    <3>2. w.ports[i] \in 1..MaxPortID
      BY <1>1, <3>1, ElementOfSeq
    <3> QED BY <2>1, <3>2 DEF Adopted
  <2>2. CASE ~(i <= Len(w.ports))
    <3>1. i \in Len(w.ports) + 1 .. m
      BY <1>1, <1>3, <2>2
    <3>2. \E x \in Named(i) : TRUE
      BY <3>1 DEF AdoptionReach, Single
    <3>3. (CHOOSE p \in Named(i) : TRUE) \in Named(i)
      BY <3>2
    <3>4. (CHOOSE p \in Named(i) : TRUE).id \in 1..MaxPortID
      BY <3>3 DEF Named, TypeInv, CloudOK
    <3> QED BY <2>2, <3>4 DEF Adopted
  <2> QED BY <2>1, <2>2
<1>5. Adopted(w, n) = [i \in 1..n |-> Adopted(w, n)[i]]
  BY DEF Adopted
<1>6. Adopted(w, n) \in [1..n -> 1..MaxPortID]
  BY <1>4, <1>5
<1> QED BY <1>3, <1>6, FunctionIsSeq

\* The initial state has the right types.
LEMMA TypeInit == Init => TypeInv
<1> SUFFICES ASSUME Init PROVE TypeInv
  OBVIOUS
<1>1. NewServer \in ServerObj
  BY ConstantsAssumption, EmptySeq DEF NewServer, ServerObj
<1>2. NoClaim \in ClaimObj
  BY DEF NoClaim, ClaimObj
<1> QED BY <1>1, <1>2, ConstantsAssumption DEF Init, TypeInv, ObjectsOK,
   CloudOK, ControlOK, LoopOK

Conds == {"none", "True", "False", "Unknown"}

\* Record updates stay in the type: what the tail of reconcileNormal writes.
LEMMA ReportRecord ==
  ASSUME NEW o \in ServerObj, NEW i \in 0..MaxInstID,
         NEW st \in States \cup {"none"}, NEW r \in BOOLEAN, NEW c \in Conds
  PROVE  [o EXCEPT !.instanceID = i, !.instanceState = st, !.ready = r,
                   !.cond = c] \in ServerObj
BY DEF ServerObj, Conds

\* What ResolveServerSpec writes.
LEMMA ResolveRecord ==
  ASSUME NEW o \in ServerObj, NEW re \in SUBSET Setters, NEW f \in BOOLEAN,
         NEW c \in Conds
  PROVE  [o EXCEPT !.hasResolved = TRUE, !.resolved = re, !.finalizer = f,
                   !.cond = c] \in ServerObj
BY DEF ServerObj, Conds

\* What adoption writes.
LEMMA AdoptRecord ==
  ASSUME NEW o \in ServerObj, NEW s \in Seq(1..MaxPortID)
  PROVE  /\ [o EXCEPT !.hasResources = TRUE] \in ServerObj
         /\ [o EXCEPT !.hasResources = TRUE, !.ports = s] \in ServerObj
BY DEF ServerObj

\* What the metadata patch and Move write.
LEMMA MetaRecord ==
  ASSUME NEW o \in ServerObj, NEW f \in BOOLEAN, NEW e \in BOOLEAN
  PROVE  /\ [o EXCEPT !.finalizer = f, !.exists = e] \in ServerObj
         /\ [o EXCEPT !.finalizer = f] \in ServerObj
BY DEF ServerObj

\* What the error paths, the delete path and the deletion of the object write.
LEMMA SmallRecords ==
  ASSUME NEW o \in ServerObj
  PROVE  /\ [o EXCEPT !.cond = "False"] \in ServerObj
         /\ [o EXCEPT !.cond = "False", !.instanceState = "ERROR"] \in ServerObj
         /\ [o EXCEPT !.finalizer = FALSE] \in ServerObj
         /\ [o EXCEPT !.deleting = TRUE] \in ServerObj
         /\ [o EXCEPT !.exists = FALSE] \in ServerObj
BY DEF ServerObj

\* ResolveServerSpec leaves a well-typed working copy.
LEMMA ResolveType ==
  ASSUME TypeInv, ResolveServerSpec PROVE w' \in ServerObj
<1>1. PICK got \in SUBSET (deps \ w.resolved) :
        w' = [w EXCEPT !.hasResolved = TRUE, !.resolved = w.resolved \cup got,
                 !.finalizer = w.finalizer \/ w.resolved \cup got = Setters,
                 !.cond = IF w.resolved \cup got = Setters THEN w.cond ELSE "False"]
  BY DEF ResolveServerSpec
<1>2. w.resolved \cup got \in SUBSET Setters
  BY DEF TypeInv, ObjectsOK, ControlOK, ServerObj
<1>3. (w.finalizer \/ w.resolved \cup got = Setters) \in BOOLEAN
  OBVIOUS
<1>4. (IF w.resolved \cup got = Setters THEN w.cond ELSE "False") \in Conds
  BY DEF TypeInv, ObjectsOK, ServerObj, Conds
<1>5. w \in ServerObj
  BY DEF TypeInv, ObjectsOK
<1> QED BY <1>1, <1>2, <1>3, <1>4, <1>5, ResolveRecord

\* So does the tail of reconcileNormal.
LEMMA ReportType ==
  ASSUME TypeInv, ReportStatus PROVE w' \in ServerObj
<1>1. CondFor(inst.state, w.cond) \in Conds
  BY DEF TypeInv, ObjectsOK, ServerObj, CondFor, Conds
<1>2. inst.id \in 0..MaxInstID /\ inst.state \in States \cup {"none"}
  BY ConstantsAssumption DEF TypeInv, ControlOK
<1>3. (inst.state = "ACTIVE") \in BOOLEAN
  OBVIOUS
<1>4. w \in ServerObj
  BY DEF TypeInv, ObjectsOK
<1>5. w' = [w EXCEPT !.instanceID = inst.id, !.instanceState = inst.state,
                     !.ready = inst.state = "ACTIVE",
                     !.cond = CondFor(inst.state, w.cond)]
  BY DEF ReportStatus
<1> HIDE DEF States, Instance, NoInst
<1> QED BY <1>1, <1>2, <1>3, <1>4, <1>5, ReportRecord

\* The status patch leaves a well-typed object.
LEMMA PatchedStatusType == TypeInv => PatchedStatus(obj) \in ServerObj
<1> SUFFICES ASSUME TypeInv PROVE PatchedStatus(obj) \in ServerObj
  OBVIOUS
<1> DEFINE hr == IF w.hasResolved = base.hasResolved THEN obj.hasResolved ELSE w.hasResolved
           re == obj.resolved \cup (w.resolved \ base.resolved)
           hs == IF w.hasResources = base.hasResources THEN obj.hasResources ELSE w.hasResources
           ps == IF w.ports = base.ports THEN obj.ports ELSE w.ports
           i  == IF w.instanceID = base.instanceID THEN obj.instanceID ELSE w.instanceID
           st == IF w.instanceState = base.instanceState THEN obj.instanceState ELSE w.instanceState
           r  == IF w.ready = base.ready THEN obj.ready ELSE w.ready
           c  == IF w.cond = base.cond THEN obj.cond ELSE w.cond
<1>0. obj \in ServerObj /\ w \in ServerObj
  BY DEF TypeInv, ObjectsOK
<1>1. hr \in BOOLEAN /\ hs \in BOOLEAN /\ r \in BOOLEAN
  BY <1>0, Zenon DEF ServerObj
<1>2. re \in SUBSET Setters /\ ps \in Seq(1..MaxPortID) /\ i \in 0..MaxInstID
  BY <1>0 DEF ServerObj
<1>3. st \in States \cup {"none"} /\ c \in Conds
  BY <1>0 DEF ServerObj, Conds
<1>4. PatchedStatus(obj) =
        [obj EXCEPT !.hasResolved = hr, !.resolved = re, !.hasResources = hs,
                    !.ports = ps, !.instanceID = i, !.instanceState = st,
                    !.ready = r, !.cond = c]
  BY DEF PatchedStatus
<1> HIDE DEF hr, re, hs, ps, i, st, r, c, States
<1>5. [obj EXCEPT !.hasResolved = hr, !.resolved = re, !.hasResources = hs,
                    !.ports = ps, !.instanceID = i, !.instanceState = st,
                    !.ready = r, !.cond = c] \in ServerObj
  BY <1>0, <1>1, <1>2, <1>3 DEF ServerObj, Conds
<1> QED BY <1>4, <1>5

\* So does the metadata patch.
LEMMA PatchedMetaType == TypeInv => PatchedMeta(obj) \in ServerObj
<1> SUFFICES ASSUME TypeInv PROVE PatchedMeta(obj) \in ServerObj
  OBVIOUS
<1>1. obj \in ServerObj
  BY DEF TypeInv, ObjectsOK
<1>2. (~obj.deleting) \in BOOLEAN
  OBVIOUS
<1>3. PatchedMeta(obj) \in
        {obj, [obj EXCEPT !.finalizer = TRUE],
         [obj EXCEPT !.finalizer = FALSE, !.exists = ~obj.deleting]}
  BY DEF PatchedMeta
<1> QED BY <1>1, <1>2, <1>3, MetaRecord

\* Adoption leaves a well-typed working copy, whatever it finds.
LEMMA AdoptType ==
  ASSUME TypeInv, Adopt \/ AdoptForDelete
  PROVE  w' \in ServerObj
<1>1. w \in ServerObj
  BY DEF TypeInv, ObjectsOK
<1>2. \/ w' = [w EXCEPT !.hasResources = TRUE]
      \/ \E m \in Len(w.ports)..NPorts : \E n \in Len(w.ports)..m :
           /\ AdoptionReach(w, m)
           /\ w' = [w EXCEPT !.hasResources = TRUE, !.ports = Adopted(w, n)]
  <2>1. Len(w.ports) \in Nat /\ NPorts \in Nat
    BY <1>1, ConstantsAssumption DEF ServerObj
  <2>2. \A m \in Len(w.ports)..NPorts : m \in Len(w.ports)..m
    BY <2>1
  <2> QED BY <2>2 DEF Adopt, AdoptForDelete, AdoptServerResources
<1>3. CASE w' = [w EXCEPT !.hasResources = TRUE]
  BY <1>1, <1>3, AdoptRecord, EmptySeq
<1>4. CASE \E m \in Len(w.ports)..NPorts : \E n \in Len(w.ports)..m :
           /\ AdoptionReach(w, m)
           /\ w' = [w EXCEPT !.hasResources = TRUE, !.ports = Adopted(w, n)]
  <2>0. PICK m \in Len(w.ports)..NPorts : \E n \in Len(w.ports)..m :
           /\ AdoptionReach(w, m)
           /\ w' = [w EXCEPT !.hasResources = TRUE, !.ports = Adopted(w, n)]
    BY <1>4
  <2>1. PICK n \in Len(w.ports)..m :
           /\ AdoptionReach(w, m)
           /\ w' = [w EXCEPT !.hasResources = TRUE, !.ports = Adopted(w, n)]
    BY <2>0
  <2>2. Adopted(w, n) \in Seq(1..MaxPortID)
    BY <2>1, AdoptedType
  <2> QED BY <1>1, <2>1, <2>2, AdoptRecord
<1> QED BY <1>2, <1>3, <1>4

\* EnsurePorts leaves a well-typed working copy.
LEMMA AppendedPort ==
  ASSUME NEW o \in ServerObj, NEW i, NEW id \in 1..MaxPortID
  PROVE  RecordPort(o, i, id) \in ServerObj
<1>1. Append(o.ports, id) \in Seq(1..MaxPortID)
  BY DEF ServerObj
<1> QED BY <1>1 DEF RecordPort, ServerObj

\* Every step keeps the types and the loop bounds.
LEMMA TypeNext == TypeInv /\ [Next]_vars => TypeInv'
<1> SUFFICES ASSUME TypeInv, [Next]_vars PROVE TypeInv'
  OBVIOUS
<1> USE ConstantsAssumption
<1>1. CASE Start
  <2>1. ObjectsOK'
    BY <1>1 DEF Start, kube, TypeInv, ObjectsOK
  <2>2. CloudOK'
    BY <1>1 DEF Start, cloud, TypeInv, CloudOK
  <2>3. ControlOK' /\ LoopOK'
    BY <1>1 DEF Start, FirstStep, Works, Fails, env, TypeInv, ControlOK, LoopOK
  <2> QED BY <2>1, <2>2, <2>3 DEF TypeInv
<1>2. CASE ResolveServerSpec
  <2>1. ObjectsOK'
    BY <1>2, ResolveType DEF ResolveServerSpec, kube, At, Return, Goto,
       TypeInv, ObjectsOK
  <2>2. CloudOK'
    BY <1>2 DEF ResolveServerSpec, cloud, TypeInv, CloudOK
  <2>3. ControlOK' /\ LoopOK'
    BY <1>2 DEF ResolveServerSpec, Return, Goto, At, Works, Fails, env,
       TypeInv, ControlOK, LoopOK
  <2> QED BY <2>1, <2>2, <2>3 DEF TypeInv
<1>3. CASE Adopt
  <2>1. ObjectsOK'
    BY <1>3, AdoptType DEF Adopt, AdoptServerResources, kube, Return, Goto,
       TypeInv, ObjectsOK
  <2>2. CloudOK'
    BY <1>3 DEF Adopt, cloud, TypeInv, CloudOK
  <2>3. ControlOK' /\ LoopOK'
    <3>1. (Goto("claim") \/ Return("error")) /\ (Works \/ Fails("openstack"))
      BY <1>3 DEF Adopt, AdoptServerResources
    <3> QED BY <1>3, <3>1 DEF Adopt, Return, Goto, At, Works, Fails, env,
       TypeInv, ControlOK, LoopOK
  <2> QED BY <2>1, <2>2, <2>3 DEF TypeInv
<1>4. CASE ReconcileFloatingAddressFromPool
  <2>1. ObjectsOK'
    BY <1>4 DEF ReconcileFloatingAddressFromPool, Return, Goto, NoClaim,
       ClaimObj, TypeInv, ObjectsOK
  <2>2. CloudOK'
    BY <1>4 DEF ReconcileFloatingAddressFromPool, cloud, TypeInv, CloudOK
  <2>3. ControlOK' /\ LoopOK'
    BY <1>4 DEF ReconcileFloatingAddressFromPool, Return, Goto, At, Works,
       Fails, env, TypeInv, ControlOK, LoopOK
  <2> QED BY <2>1, <2>2, <2>3 DEF TypeInv
<1>5. CASE EnsurePort
  <2>0. k \in 1..NPorts
    BY <1>5 DEF EnsurePort, At, TypeInv, ControlOK, LoopOK
  <2>1. ObjectsOK'
    <3>1. w \in ServerObj /\ [w EXCEPT !.cond = "False"] \in ServerObj
      BY DEF TypeInv, ObjectsOK, ServerObj
    <3>2. \A p \in ExistingPorts(w, k) : p.id \in 1..MaxPortID
      BY DEF ExistingPorts, Named, TypeInv, CloudOK
    <3>3. portIDs < MaxPortID => portIDs + 1 \in 1..MaxPortID
      BY DEF TypeInv, CloudOK
    <3>4. \/ w' = [w EXCEPT !.cond = "False"]
          \/ \E p \in ExistingPorts(w, k) : w' = RecordPort(w, k, p.id)
          \/ portIDs < MaxPortID /\ w' = RecordPort(w, k, portIDs + 1)
      BY <1>5 DEF EnsurePort, PortFailed, NewPort
    <3>5. w' \in ServerObj
      BY <3>1, <3>2, <3>3, <3>4, AppendedPort
    <3> QED BY <1>5, <3>5 DEF EnsurePort, PortFailed, NextPort, Return, Goto,
           Again, kube, TypeInv, ObjectsOK
  <2>2. CloudOK'
    BY <1>5, <2>0 DEF EnsurePort, NewPort, TypeInv, CloudOK
  <2>3. ControlOK' /\ LoopOK'
    BY <1>5 DEF EnsurePort, NextPort, PortFailed, NewPort, Return, Goto,
       Again, At, Works, Fails, env, TypeInv, ControlOK, LoopOK
  <2> QED BY <2>1, <2>2, <2>3 DEF TypeInv
<1>6. CASE GetServer
  <2>1. ObjectsOK'
    <3>1. w' \in {w, [w EXCEPT !.cond = "False"],
                 [w EXCEPT !.cond = "False", !.instanceState = "ERROR"]}
      BY <1>6 DEF GetServer
    <3>2. w \in ServerObj /\ base' = base /\ UNCHANGED kube
      BY <1>6 DEF GetServer, Return, ReturnDelete, Goto, Again, TypeInv,
         ObjectsOK
    <3>3. w' \in ServerObj
      BY <3>1, <3>2, SmallRecords
    <3> QED BY <3>2, <3>3 DEF kube, TypeInv, ObjectsOK
  <2>2. CloudOK'
    BY <1>6 DEF GetServer, cloud, TypeInv, CloudOK
  <2>3. ControlOK' /\ LoopOK'
    BY <1>6 DEF GetServer, Return, Goto, InstanceByID, InstancesByName,
       CloudOK, At, Works, Fails, env, TypeInv, ControlOK, LoopOK
  <2> QED BY <2>1, <2>2, <2>3 DEF TypeInv
<1>7. CASE GetOrCreateVolume
  <2>1. ObjectsOK'
    <3>1. w' \in {w, [w EXCEPT !.cond = "False"],
                 [w EXCEPT !.cond = "False", !.instanceState = "ERROR"]}
      BY <1>7 DEF GetOrCreateVolume, CreateFailed
    <3>2. w \in ServerObj /\ base' = base /\ UNCHANGED kube
      BY <1>7 DEF GetOrCreateVolume, Return, ReturnDelete, Goto, Again,
         CreateFailed, TypeInv, ObjectsOK
    <3>3. w' \in ServerObj
      BY <3>1, <3>2, SmallRecords
    <3> QED BY <3>2, <3>3 DEF kube, TypeInv, ObjectsOK
  <2>2. CloudOK'
    <3>1. vols' \in {vols, vols \cup {k}} /\ k \in 1..NVolumes
      BY <1>7 DEF GetOrCreateVolume, At, TypeInv, ControlOK, LoopOK
    <3> QED BY <1>7, <3>1 DEF GetOrCreateVolume, TypeInv, CloudOK
  <2>3. ControlOK' /\ LoopOK'
    BY <1>7 DEF GetOrCreateVolume, CreateFailed, Return, Goto, Again, At,
       Works, Fails, env, TypeInv, ControlOK, LoopOK
  <2> QED BY <2>1, <2>2, <2>3 DEF TypeInv
<1>8. CASE CreateInstance
  <2>1. ObjectsOK'
    <3>1. w' \in {w, [w EXCEPT !.cond = "False"],
                 [w EXCEPT !.cond = "False", !.instanceState = "ERROR"]}
      BY <1>8 DEF CreateInstance, CreateFailed
    <3>2. w \in ServerObj /\ base' = base /\ UNCHANGED kube
      BY <1>8 DEF CreateInstance, Return, ReturnDelete, Goto, Again,
         CreateFailed, TypeInv, ObjectsOK
    <3>3. w' \in ServerObj
      BY <3>1, <3>2, SmallRecords
    <3> QED BY <3>2, <3>3 DEF kube, TypeInv, ObjectsOK
  <2>2. CloudOK'
    BY <1>8 DEF CreateInstance, CanCreate, NewInstance, TypeInv, CloudOK
  <2>3. ControlOK' /\ LoopOK'
    <3>1. /\ Works \/ Fails("openstack")
          /\ \/ /\ pc' = "associate" /\ UNCHANGED <<base, k, result>>
                /\ inst' = NewInstance /\ instIDs < MaxInstID
             \/ Return("error")
      BY <1>8 DEF CreateInstance, CreateFailed, CanCreate
    <3> QED BY <1>8, <3>1 DEF CreateInstance, NewInstance, Return, At, Works,
       Fails, env, TypeInv, CloudOK, ControlOK, LoopOK
  <2> QED BY <2>1, <2>2, <2>3 DEF TypeInv
<1>9. CASE AssociateIPAddress
  <2>1. ObjectsOK'
    BY <1>9 DEF AssociateIPAddress, Return, kube, TypeInv, ObjectsOK
  <2>2. CloudOK'
    BY <1>9 DEF AssociateIPAddress, TypeInv, CloudOK
  <2>3. ControlOK' /\ LoopOK'
    <3>1. /\ Works \/ Fails("openstack")
          /\ (pc' = "status" /\ UNCHANGED <<base, k, inst, result>>) \/ Return("error")
      BY <1>9 DEF AssociateIPAddress
    <3> QED BY <1>9, <3>1 DEF AssociateIPAddress, Return, At, Works, Fails, env,
           TypeInv, ControlOK, LoopOK
  <2> QED BY <2>1, <2>2, <2>3 DEF TypeInv
<1>10. CASE ReportStatus
  <2>1. ObjectsOK'
    BY <1>10, ReportType DEF ReportStatus, Return, kube, TypeInv, ObjectsOK
  <2>2. CloudOK'
    BY <1>10 DEF ReportStatus, cloud, TypeInv, CloudOK
  <2>3. ControlOK' /\ LoopOK'
    BY <1>10 DEF ReportStatus, Return, RequeueFor, At, Works, Fails, env,
       TypeInv, ControlOK, LoopOK
  <2> QED BY <2>1, <2>2, <2>3 DEF TypeInv
<1>11. CASE AdoptForDelete
  <2>1. ObjectsOK'
    BY <1>11, AdoptType DEF AdoptForDelete, AdoptServerResources, kube,
       Return, Goto, TypeInv, ObjectsOK
  <2>2. CloudOK'
    BY <1>11 DEF AdoptForDelete, cloud, TypeInv, CloudOK
  <2>3. ControlOK' /\ LoopOK'
    <3>1. (Goto("dGet") \/ Return("error")) /\ (Works \/ Fails("openstack"))
      BY <1>11 DEF AdoptForDelete, AdoptServerResources
    <3> QED BY <1>11, <3>1 DEF AdoptForDelete, Return, Goto, At, Works,
       Fails, env, TypeInv, ControlOK, LoopOK
  <2> QED BY <2>1, <2>2, <2>3 DEF TypeInv
<1>12. CASE GetServerStatus
  <2>1. ObjectsOK'
    BY <1>12 DEF GetServerStatus, ReturnDelete, kube, TypeInv, ObjectsOK
  <2>2. CloudOK'
    BY <1>12 DEF GetServerStatus, cloud, TypeInv, CloudOK
  <2>3. ControlOK' /\ LoopOK'
    BY <1>12 DEF GetServerStatus, ReturnDelete, InstanceByID, InstancesByName,
       CloudOK, At, Works, Fails, env, TypeInv, ControlOK, LoopOK
  <2> QED BY <2>1, <2>2, <2>3 DEF TypeInv
<1>13. CASE DeleteVolume
  <2>1. ObjectsOK'
    BY <1>13 DEF DeleteVolume, ReturnDelete, Goto, Again, kube, TypeInv,
       ObjectsOK
  <2>2. CloudOK'
    BY <1>13 DEF DeleteVolume, TypeInv, CloudOK
  <2>3. ControlOK' /\ LoopOK'
    BY <1>13 DEF DeleteVolume, ReturnDelete, Goto, Again, At, Works, Fails,
       env, TypeInv, ControlOK, LoopOK
  <2> QED BY <2>1, <2>2, <2>3 DEF TypeInv
<1>14. CASE DeleteServer
  <2>1. ObjectsOK'
    <3>1. w' \in {w, [w EXCEPT !.cond = "False"],
                 [w EXCEPT !.cond = "False", !.instanceState = "ERROR"]}
      BY <1>14 DEF DeleteServer
    <3>2. w \in ServerObj /\ base' = base /\ UNCHANGED kube
      BY <1>14 DEF DeleteServer, Return, ReturnDelete, Goto, Again, TypeInv,
         ObjectsOK
    <3>3. w' \in ServerObj
      BY <3>1, <3>2, SmallRecords
    <3> QED BY <3>2, <3>3 DEF kube, TypeInv, ObjectsOK
  <2>2. CloudOK'
    BY <1>14 DEF DeleteServer, DeleteRequested, TypeInv, CloudOK
  <2>3. ControlOK' /\ LoopOK'
    BY <1>14 DEF DeleteServer, ReturnDelete, Goto, At, Works, Fails, env,
       TypeInv, ControlOK, LoopOK
  <2> QED BY <2>1, <2>2, <2>3 DEF TypeInv
<1>15. CASE PollInstanceDeleted
  <2>1. ObjectsOK'
    <3>1. w' \in {w, [w EXCEPT !.cond = "False"],
                 [w EXCEPT !.cond = "False", !.instanceState = "ERROR"]}
      BY <1>15 DEF PollInstanceDeleted
    <3>2. w \in ServerObj /\ base' = base /\ UNCHANGED kube
      BY <1>15 DEF PollInstanceDeleted, Return, ReturnDelete, Goto, Again,
         TypeInv, ObjectsOK
    <3>3. w' \in ServerObj
      BY <3>1, <3>2, SmallRecords
    <3> QED BY <3>2, <3>3 DEF kube, TypeInv, ObjectsOK
  <2>2. CloudOK'
    BY <1>15 DEF PollInstanceDeleted, cloud, TypeInv, CloudOK
  <2>3. ControlOK' /\ LoopOK'
    BY <1>15 DEF PollInstanceDeleted, ReturnDelete, Goto, At, Works, Fails,
       env, TypeInv, ControlOK, LoopOK
  <2> QED BY <2>1, <2>2, <2>3 DEF TypeInv
<1>16. CASE DeletePort
  <2>1. ObjectsOK'
    BY <1>16 DEF DeletePort, ReturnDelete, Goto, Again, kube, TypeInv,
       ObjectsOK
  <2>2. CloudOK'
    BY <1>16 DEF DeletePort, TypeInv, CloudOK
  <2>3. ControlOK' /\ LoopOK'
    BY <1>16 DEF DeletePort, ReturnDelete, Goto, Again, At, Works, Fails, env,
       TypeInv, ControlOK, LoopOK
  <2> QED BY <2>1, <2>2, <2>3 DEF TypeInv
<1>17. CASE ReleaseClaim
  <2>1. ObjectsOK'
    <3>1. w' \in {w, [w EXCEPT !.finalizer = FALSE]} /\ claim' \in {claim, Released}
      BY <1>17 DEF ReleaseClaim
    <3>2. Released \in ClaimObj
      BY DEF Released, TypeInv, ObjectsOK, ClaimObj
    <3>3. w' \in ServerObj
      BY <3>1, SmallRecords DEF TypeInv, ObjectsOK
    <3> QED BY <1>17, <3>1, <3>2, <3>3 DEF ReleaseClaim, ReturnDelete,
       TypeInv, ObjectsOK
  <2>2. CloudOK'
    BY <1>17 DEF ReleaseClaim, cloud, TypeInv, CloudOK
  <2>3. ControlOK' /\ LoopOK'
    BY <1>17 DEF ReleaseClaim, ReturnDelete, At, Works, Fails, env, TypeInv,
       ControlOK, LoopOK
  <2> QED BY <2>1, <2>2, <2>3 DEF TypeInv
<1>18. CASE PatchMeta
  <2>1. ObjectsOK'
    BY <1>18, PatchedMetaType DEF PatchMeta, TypeInv, ObjectsOK
  <2>2. CloudOK'
    BY <1>18 DEF PatchMeta, cloud, TypeInv, CloudOK
  <2>3. ControlOK' /\ LoopOK'
    BY <1>18 DEF PatchMeta, At, Works, Fails, env, TypeInv, ControlOK, LoopOK
  <2> QED BY <2>1, <2>2, <2>3 DEF TypeInv
<1>19. CASE PatchStatus
  <2>1. ObjectsOK'
    BY <1>19, PatchedStatusType DEF PatchStatus, Finish, TypeInv, ObjectsOK
  <2>2. CloudOK'
    BY <1>19 DEF PatchStatus, cloud, TypeInv, CloudOK
  <2>3. ControlOK' /\ LoopOK'
    BY <1>19 DEF PatchStatus, Finish, Works, Fails, env, TypeInv, ControlOK,
       LoopOK
  <2> QED BY <2>1, <2>2, <2>3 DEF TypeInv
<1>20. CASE Crash
  <2>1. ObjectsOK'
    BY <1>20 DEF Crash, TypeInv, ObjectsOK
  <2>2. CloudOK'
    BY <1>20 DEF Crash, cloud, TypeInv, CloudOK
  <2>3. ControlOK' /\ LoopOK'
    BY <1>20 DEF Crash, Fails, env, TypeInv, ControlOK, LoopOK
  <2> QED BY <2>1, <2>2, <2>3 DEF TypeInv
<1>21. CASE ServerEvent
  <2>1. ObjectsOK'
    BY <1>21 DEF ServerEvent, local, TypeInv, ObjectsOK
  <2>2. CloudOK'
    BY <1>21 DEF ServerEvent, cloud, TypeInv, CloudOK
  <2>3. ControlOK' /\ LoopOK'
    BY <1>21 DEF ServerEvent, local, env, TypeInv, ControlOK, LoopOK
  <2> QED BY <2>1, <2>2, <2>3 DEF TypeInv
<1>22. CASE ClaimEvent
  <2>1. ObjectsOK'
    BY <1>22 DEF ClaimEvent, local, TypeInv, ObjectsOK
  <2>2. CloudOK'
    BY <1>22 DEF ClaimEvent, cloud, TypeInv, CloudOK
  <2>3. ControlOK' /\ LoopOK'
    BY <1>22 DEF ClaimEvent, local, env, TypeInv, ControlOK, LoopOK
  <2> QED BY <2>1, <2>2, <2>3 DEF TypeInv
<1>23. CASE DependencyEvent
  <2>1. ObjectsOK'
    BY <1>23 DEF DependencyEvent, kube, local, TypeInv, ObjectsOK
  <2>2. CloudOK'
    BY <1>23 DEF DependencyEvent, cloud, TypeInv, CloudOK
  <2>3. ControlOK' /\ LoopOK'
    BY <1>23 DEF DependencyEvent, local, TypeInv, ControlOK, LoopOK
  <2> QED BY <2>1, <2>2, <2>3 DEF TypeInv
<1>24. CASE Resync
  <2>1. ObjectsOK'
    BY <1>24 DEF Resync, kube, local, TypeInv, ObjectsOK
  <2>2. CloudOK'
    BY <1>24 DEF Resync, cloud, TypeInv, CloudOK
  <2>3. ControlOK' /\ LoopOK'
    BY <1>24 DEF Resync, local, env, TypeInv, ControlOK, LoopOK
  <2> QED BY <2>1, <2>2, <2>3 DEF TypeInv
<1>25. CASE DeleteObject
  <2>1. ObjectsOK'
    <3>1. obj' \in {[obj EXCEPT !.deleting = TRUE], [obj EXCEPT !.exists = FALSE]}
      BY <1>25 DEF DeleteObject
    <3>2. obj' \in ServerObj
      BY <3>1, SmallRecords DEF TypeInv, ObjectsOK
    <3> QED BY <1>25, <3>2 DEF DeleteObject, local, TypeInv, ObjectsOK
  <2>2. CloudOK'
    BY <1>25 DEF DeleteObject, cloud, TypeInv, CloudOK
  <2>3. ControlOK' /\ LoopOK'
    BY <1>25 DEF DeleteObject, local, env, TypeInv, ControlOK, LoopOK
  <2> QED BY <2>1, <2>2, <2>3 DEF TypeInv
<1>26. CASE Move
  <2>1. ObjectsOK'
    <3>1. NewServer \in ServerObj
      BY EmptySeq DEF NewServer, ServerObj
    <3>2. obj.finalizer \in BOOLEAN
      BY DEF TypeInv, ObjectsOK, ServerObj
    <3>3. obj' \in ServerObj
      BY <1>26, <3>1, <3>2, MetaRecord DEF Move
    <3>4. claim' \in ClaimObj
      BY <1>26 DEF Move, TypeInv, ObjectsOK, ClaimObj
    <3> QED BY <1>26, <3>3, <3>4 DEF Move, local, TypeInv, ObjectsOK
  <2>2. CloudOK'
    BY <1>26 DEF Move, cloud, TypeInv, CloudOK
  <2>3. ControlOK' /\ LoopOK'
    BY <1>26 DEF Move, local, TypeInv, ControlOK, LoopOK
  <2> QED BY <2>1, <2>2, <2>3 DEF TypeInv
<1>27. CASE PoolAllocates
  <2>1. ObjectsOK'
    BY <1>27 DEF PoolAllocates, local, ClaimObj, TypeInv, ObjectsOK
  <2>2. CloudOK'
    BY <1>27 DEF PoolAllocates, cloud, TypeInv, CloudOK
  <2>3. ControlOK' /\ LoopOK'
    BY <1>27 DEF PoolAllocates, local, env, TypeInv, ControlOK, LoopOK
  <2> QED BY <2>1, <2>2, <2>3 DEF TypeInv
<1>28. CASE CollectClaim
  <2>1. ObjectsOK'
    BY <1>28 DEF CollectClaim, local, ClaimObj, TypeInv, ObjectsOK
  <2>2. CloudOK'
    BY <1>28 DEF CollectClaim, cloud, TypeInv, CloudOK
  <2>3. ControlOK' /\ LoopOK'
    BY <1>28 DEF CollectClaim, local, env, TypeInv, ControlOK, LoopOK
  <2> QED BY <2>1, <2>2, <2>3 DEF TypeInv
<1>29. CASE NovaFinishes
  <2>1. ObjectsOK'
    BY <1>29 DEF NovaFinishes, kube, local, TypeInv, ObjectsOK
  <2>2. CloudOK'
    BY <1>29 DEF NovaFinishes, Gone, SetState, TypeInv, CloudOK
  <2>3. ControlOK' /\ LoopOK'
    BY <1>29 DEF NovaFinishes, local, env, TypeInv, ControlOK, LoopOK
  <2> QED BY <2>1, <2>2, <2>3 DEF TypeInv
<1>30. CASE NovaToggles
  <2>1. ObjectsOK'
    BY <1>30 DEF NovaToggles, kube, local, TypeInv, ObjectsOK
  <2>2. CloudOK'
    BY <1>30 DEF NovaToggles, SetState, TypeInv, CloudOK
  <2>3. ControlOK' /\ LoopOK'
    BY <1>30 DEF NovaToggles, local, env, TypeInv, ControlOK, LoopOK
  <2> QED BY <2>1, <2>2, <2>3 DEF TypeInv
<1>31. CASE LoseInstance
  <2>1. ObjectsOK'
    BY <1>31 DEF LoseInstance, kube, local, TypeInv, ObjectsOK
  <2>2. CloudOK'
    BY <1>31 DEF LoseInstance, Gone, TypeInv, CloudOK
  <2>3. ControlOK' /\ LoopOK'
    BY <1>31 DEF LoseInstance, local, TypeInv, ControlOK, LoopOK
  <2> QED BY <2>1, <2>2, <2>3 DEF TypeInv
<1>32. CASE LosePort
  <2>1. ObjectsOK'
    BY <1>32 DEF LosePort, kube, local, TypeInv, ObjectsOK
  <2>2. CloudOK'
    BY <1>32 DEF LosePort, TypeInv, CloudOK
  <2>3. ControlOK' /\ LoopOK'
    BY <1>32 DEF LosePort, local, TypeInv, ControlOK, LoopOK
  <2> QED BY <2>1, <2>2, <2>3 DEF TypeInv
<1>33. CASE UNCHANGED vars
  BY <1>33 DEF vars, kube, cloud, local, env, TypeInv, ObjectsOK, CloudOK,
     ControlOK, LoopOK
<1> QED
  BY <1>1, <1>2, <1>3, <1>4, <1>5, <1>6, <1>7, <1>8, <1>9, <1>10, <1>11,
     <1>12, <1>13, <1>14, <1>15, <1>16, <1>17, <1>18, <1>19, <1>20, <1>21,
     <1>22, <1>23, <1>24, <1>25, <1>26, <1>27, <1>28, <1>29, <1>30, <1>31,
     <1>32, <1>33 DEF Next, Worker, Watches, World

-----------------------------------------------------------------------------
\* The two Boolean variables.
FlagsOK == fip \in BOOLEAN /\ queued \in BOOLEAN

\* Every step leaves the two flags Boolean.
LEMMA FlagsNext == FlagsOK /\ [Next]_vars => FlagsOK'
<1> SUFFICES ASSUME FlagsOK, [Next]_vars PROVE FlagsOK'
  OBVIOUS
<1>1. fip' \in {fip, TRUE, FALSE}
  BY Zenon DEF Next, Worker, Watches, World, vars, cloud, Start,
     ResolveServerSpec, Adopt, ReconcileFloatingAddressFromPool, EnsurePort,
     GetServer, GetOrCreateVolume, CreateInstance, AssociateIPAddress,
     ReportStatus, AdoptForDelete, GetServerStatus, DeleteVolume,
     DeleteServer, PollInstanceDeleted, DeletePort, ReleaseClaim, PatchMeta,
     PatchStatus, Crash, ServerEvent, ClaimEvent, DependencyEvent, Resync,
     DeleteObject, Move, PoolAllocates, CollectClaim, NovaFinishes,
     NovaToggles, LoseInstance, LosePort
<1>2. queued' \in {queued, TRUE, FALSE}
  BY Zenon DEF Next, Worker, Watches, World, vars, At, Finish, Start,
     ResolveServerSpec, Adopt, ReconcileFloatingAddressFromPool, EnsurePort,
     GetServer, GetOrCreateVolume, CreateInstance, AssociateIPAddress,
     ReportStatus, AdoptForDelete, GetServerStatus, DeleteVolume,
     DeleteServer, PollInstanceDeleted, DeletePort, ReleaseClaim, PatchMeta,
     PatchStatus, Crash, ServerEvent, ClaimEvent, DependencyEvent, Resync,
     DeleteObject, Move, PoolAllocates, CollectClaim, NovaFinishes,
     NovaToggles, LoseInstance, LosePort
<1> QED BY <1>1, <1>2 DEF FlagsOK

\* Every variable stays in its type, whatever the number of ports, volumes,
\* setters, faults, losses and moves.
THEOREM TypeCorrect == Spec => []TypeOK
<1>1. Init => FlagsOK
  BY DEF Init, FlagsOK
<1>2. TypeInv /\ FlagsOK => TypeOK
  BY DEF TypeInv, FlagsOK, TypeOK
<1> QED BY <1>1, <1>2, TypeInit, TypeNext, FlagsNext, PTL DEF Spec

-----------------------------------------------------------------------------
\* What a copy of the object promises about the object itself: the finalizer,
\* the deletion timestamp and the resolved fields it shows are persisted.
Persisted(o) ==
  obj.exists => /\ o.finalizer => obj.finalizer
                /\ o.deleting => obj.deleting
                /\ o.resolved \subseteq obj.resolved

\* What the running reconcile knows at each step: past the resolve step its
\* read showed the finalizer and the whole resolved spec; the delete path reads
\* a deletion timestamp, and only there the finalizer is dropped.
ReadOK ==
  /\ pc = "resolve" => w = base
  /\ pc \in NormalSteps \ {"resolve"} =>
       base.finalizer /\ w.finalizer /\ base.resolved = Setters
  /\ pc \in DeleteSteps => base.deleting
  /\ base.finalizer /\ ~w.finalizer => base.deleting

GuardInv ==
  /\ FinalizerGuardsCloud
  /\ Persisted(cache)
  /\ pc # "idle" => Persisted(base) /\ ReadOK
\* The metadata patch keeps the object's promises: a dropped finalizer was
\* dropped by a delete reconcile, so the object goes with it.
LEMMA MetaGuard ==
  ASSUME TypeInv, GuardInv, PatchMeta
  PROVE  obj'.exists => /\ obj.exists
                        /\ obj.finalizer => obj'.finalizer
                        /\ obj'.deleting = obj.deleting
                        /\ obj'.resolved = obj.resolved
<1>1. obj' = obj \/ obj' = PatchedMeta(obj)
  BY DEF PatchMeta
<1>2. base.finalizer /\ ~w.finalizer /\ obj.exists => obj.deleting
  BY DEF PatchMeta, At, GuardInv, ReadOK, Persisted
<1>3. obj \in ServerObj /\ w \in ServerObj /\ base \in ServerObj
  BY DEF TypeInv, ObjectsOK
<1> QED BY <1>1, <1>2, <1>3 DEF PatchedMeta, ServerObj

\* The status patch only adds resolved fields.
LEMMA StatusGuard ==
  ASSUME TypeInv, PatchStatus
  PROVE  /\ obj'.exists = obj.exists /\ obj'.finalizer = obj.finalizer
         /\ obj'.deleting = obj.deleting /\ obj.resolved \subseteq obj'.resolved
<1>1. obj' = obj \/ obj' = PatchedStatus(obj)
  BY DEF PatchStatus
<1>2. obj \in ServerObj
  BY DEF TypeInv, ObjectsOK
<1>3. PatchedStatus(obj).resolved = obj.resolved \cup (w.resolved \ base.resolved)
  BY <1>2 DEF PatchedStatus, ServerObj
<1>4. /\ PatchedStatus(obj).exists = obj.exists
      /\ PatchedStatus(obj).finalizer = obj.finalizer
      /\ PatchedStatus(obj).deleting = obj.deleting
  BY <1>2 DEF PatchedStatus, ServerObj
<1> QED BY <1>1, <1>3, <1>4

\* Between the resolve step and the release of the claim, no step touches the
\* working copy's finalizer.
LEMMA WorkingFinalizer ==
  ASSUME TypeInv,
         \/ Adopt \/ ReconcileFloatingAddressFromPool \/ EnsurePort \/ GetServer
         \/ GetOrCreateVolume \/ CreateInstance \/ AssociateIPAddress
         \/ ReportStatus \/ AdoptForDelete
  PROVE  w'.finalizer = w.finalizer
<1>0. w \in ServerObj
  BY DEF TypeInv, ObjectsOK
<1>1. CASE Adopt \/ AdoptForDelete
  <2>1. \/ w' = [w EXCEPT !.hasResources = TRUE]
        \/ \E s : w' = [w EXCEPT !.hasResources = TRUE, !.ports = s]
    BY <1>1, Zenon DEF Adopt, AdoptForDelete, AdoptServerResources
  <2>2. ASSUME NEW s, w' = [w EXCEPT !.hasResources = TRUE, !.ports = s]
        PROVE  w'.finalizer = w.finalizer
    BY <1>0, <2>2 DEF ServerObj
  <2>3. CASE w' = [w EXCEPT !.hasResources = TRUE]
    BY <1>0, <2>3 DEF ServerObj
  <2> QED BY <2>1, <2>2, <2>3, Zenon
<1>2. CASE EnsurePort
  <2>1. \/ w' = w \/ w' = [w EXCEPT !.cond = "False"]
        \/ \E s : w' = [w EXCEPT !.ports = s]
    BY <1>2 DEF EnsurePort, PortFailed, RecordPort
  <2> QED BY <1>0, <2>1 DEF ServerObj
<1>3. CASE GetServer \/ GetOrCreateVolume \/ CreateInstance
  <2>1. \/ w' = w \/ w' = [w EXCEPT !.cond = "False"]
        \/ w' = [w EXCEPT !.cond = "False", !.instanceState = "ERROR"]
    BY <1>3 DEF GetServer, GetOrCreateVolume, CreateInstance, CreateFailed
  <2> QED BY <1>0, <2>1 DEF ServerObj
<1>4. CASE ReportStatus
  BY <1>0, <1>4 DEF ReportStatus, ServerObj
<1>5. CASE ReconcileFloatingAddressFromPool \/ AssociateIPAddress
  BY <1>5 DEF ReconcileFloatingAddressFromPool, AssociateIPAddress
<1> QED BY <1>1, <1>2, <1>3, <1>4, <1>5

\* The guard invariant holds initially.
LEMMA GuardInit == Init => GuardInv
BY DEF Init, GuardInv, FinalizerGuardsCloud, CloudInUse, Persisted, NoClaim,
   NewServer

\* Every step keeps the guard invariant.
LEMMA GuardNext == TypeInv /\ GuardInv /\ [Next]_vars => GuardInv'
<1> SUFFICES ASSUME TypeInv, GuardInv, [Next]_vars PROVE GuardInv'
  OBVIOUS
<1>1. CASE Start
  <2>1. FinalizerGuardsCloud'
    BY <1>1 DEF Start, At, kube, cloud, GuardInv, FinalizerGuardsCloud,
       CloudInUse
  <2>2. Persisted(cache)'
    BY <1>1 DEF Start, kube, GuardInv, Persisted
  <2>3. (pc # "idle" => Persisted(base) /\ ReadOK)'
    BY <1>1 DEF Start, FirstStep, kube, local, GuardInv, Persisted, ReadOK
  <2> QED BY <2>1, <2>2, <2>3 DEF GuardInv
<1>2. CASE ResolveServerSpec
  <2>1. FinalizerGuardsCloud'
    BY <1>2 DEF ResolveServerSpec, At, kube, cloud, GuardInv,
       FinalizerGuardsCloud, CloudInUse
  <2>2. Persisted(cache)'
    BY <1>2 DEF ResolveServerSpec, kube, GuardInv, Persisted
  <2>3. (pc # "idle" => Persisted(base) /\ ReadOK)'
    <3>1. w \in ServerObj /\ w = base
      BY <1>2 DEF ResolveServerSpec, At, GuardInv, ReadOK, TypeInv, ObjectsOK
    <3>2. PICK got \in SUBSET (deps \ w.resolved) :
            /\ w' = [w EXCEPT !.hasResolved = TRUE, !.resolved = w.resolved \cup got,
                 !.finalizer = w.finalizer \/ w.resolved \cup got = Setters,
                 !.cond = IF w.resolved \cup got = Setters THEN w.cond ELSE "False"]
            /\ \/ Return("error") \/ Return("done")
               \/ /\ Goto("adopt") /\ w.resolved \cup got = Setters
                  /\ got = {} /\ w.finalizer
      BY <1>2, Zenon DEF ResolveServerSpec, MustPersist
    <3>3. w.finalizer => w'.finalizer
      BY <3>1, <3>2 DEF ServerObj
    <3>4. UNCHANGED <<obj, base>> /\ pc = "resolve"
      BY <1>2, <3>2 DEF ResolveServerSpec, At, kube, Return, Goto
    <3> QED BY <3>1, <3>2, <3>3, <3>4 DEF Return, Goto, GuardInv, Persisted,
       ReadOK
  <2> QED BY <2>1, <2>2, <2>3 DEF GuardInv
<1>3. CASE Adopt
  <2>1. FinalizerGuardsCloud'
    BY <1>3 DEF Adopt, At, kube, cloud, GuardInv, FinalizerGuardsCloud,
       CloudInUse, ReadOK, Persisted
  <2>2. Persisted(cache)'
    BY <1>3 DEF Adopt, kube, GuardInv, Persisted
  <2>3. (pc # "idle" => Persisted(base) /\ ReadOK)'
    <3>1. Goto("claim") \/ Return("error")
      BY <1>3, Zenon DEF Adopt, AdoptServerResources
    <3>2. w'.finalizer = w.finalizer /\ UNCHANGED obj /\ pc = "adopt"
      BY <1>3, WorkingFinalizer DEF Adopt, At, kube
    <3> QED BY <3>1, <3>2 DEF Return, Goto, GuardInv, Persisted, ReadOK
  <2> QED BY <2>1, <2>2, <2>3 DEF GuardInv
<1>4. CASE ReconcileFloatingAddressFromPool
  <2>1. FinalizerGuardsCloud'
    BY <1>4 DEF ReconcileFloatingAddressFromPool, At, kube, cloud, GuardInv,
       FinalizerGuardsCloud, CloudInUse, ReadOK, Persisted
  <2>2. Persisted(cache)'
    BY <1>4 DEF ReconcileFloatingAddressFromPool, kube, GuardInv, Persisted
  <2>3. (pc # "idle" => Persisted(base) /\ ReadOK)'
    <3>1. /\ pc' \in NormalSteps \ {"resolve"} \/ pc' = "patchMeta"
             \/ (pc' = "dAdopt" /\ base.deleting)
          /\ base' = base /\ pc \in NormalSteps \ {"resolve"}
      BY <1>4 DEF ReconcileFloatingAddressFromPool, At, Return, Goto, Again
    <3>2. w'.finalizer = w.finalizer /\ UNCHANGED obj
      BY <1>4, WorkingFinalizer DEF ReconcileFloatingAddressFromPool, kube
    <3> QED BY <3>1, <3>2 DEF GuardInv, Persisted, ReadOK
  <2> QED BY <2>1, <2>2, <2>3 DEF GuardInv
<1>5. CASE EnsurePort
  <2>1. FinalizerGuardsCloud'
    BY <1>5 DEF EnsurePort, At, kube, cloud, NewPort, GuardInv,
       FinalizerGuardsCloud, CloudInUse, ReadOK, Persisted
  <2>2. Persisted(cache)'
    BY <1>5 DEF EnsurePort, kube, GuardInv, Persisted
  <2>3. (pc # "idle" => Persisted(base) /\ ReadOK)'
    <3>1. /\ pc' \in NormalSteps \ {"resolve"} \/ pc' = "patchMeta"
             \/ (pc' = "dAdopt" /\ base.deleting)
          /\ base' = base /\ pc \in NormalSteps \ {"resolve"}
      BY <1>5 DEF EnsurePort, NextPort, PortFailed, At, Return, Goto, Again
    <3>2. w'.finalizer = w.finalizer /\ UNCHANGED obj
      BY <1>5, WorkingFinalizer DEF EnsurePort, kube
    <3> QED BY <3>1, <3>2 DEF GuardInv, Persisted, ReadOK
  <2> QED BY <2>1, <2>2, <2>3 DEF GuardInv
<1>6. CASE GetServer
  <2>1. FinalizerGuardsCloud'
    BY <1>6 DEF GetServer, At, kube, cloud, GuardInv, FinalizerGuardsCloud,
       CloudInUse, ReadOK, Persisted
  <2>2. Persisted(cache)'
    BY <1>6 DEF GetServer, kube, GuardInv, Persisted
  <2>3. (pc # "idle" => Persisted(base) /\ ReadOK)'
    <3>1. /\ pc' \in NormalSteps \ {"resolve"} \/ pc' = "patchMeta"
             \/ (pc' = "dAdopt" /\ base.deleting)
          /\ base' = base /\ pc \in NormalSteps \ {"resolve"}
      BY <1>6 DEF GetServer, At, Return, Goto, Again
    <3>2. w'.finalizer = w.finalizer /\ UNCHANGED obj
      BY <1>6, WorkingFinalizer DEF GetServer, kube
    <3> QED BY <3>1, <3>2 DEF GuardInv, Persisted, ReadOK
  <2> QED BY <2>1, <2>2, <2>3 DEF GuardInv
<1>7. CASE GetOrCreateVolume
  <2>1. FinalizerGuardsCloud'
    BY <1>7 DEF GetOrCreateVolume, At, kube, cloud, GuardInv,
       FinalizerGuardsCloud, CloudInUse, ReadOK, Persisted
  <2>2. Persisted(cache)'
    BY <1>7 DEF GetOrCreateVolume, kube, GuardInv, Persisted
  <2>3. (pc # "idle" => Persisted(base) /\ ReadOK)'
    <3>1. /\ pc' \in NormalSteps \ {"resolve"} \/ pc' = "patchMeta"
             \/ (pc' = "dAdopt" /\ base.deleting)
          /\ base' = base /\ pc \in NormalSteps \ {"resolve"}
      BY <1>7 DEF GetOrCreateVolume, CreateFailed, At, Return, Goto, Again
    <3>2. w'.finalizer = w.finalizer /\ UNCHANGED obj
      BY <1>7, WorkingFinalizer DEF GetOrCreateVolume, kube
    <3> QED BY <3>1, <3>2 DEF GuardInv, Persisted, ReadOK
  <2> QED BY <2>1, <2>2, <2>3 DEF GuardInv
<1>8. CASE CreateInstance
  <2>1. FinalizerGuardsCloud'
    BY <1>8 DEF CreateInstance, At, kube, cloud, NewInstance, GuardInv,
       FinalizerGuardsCloud, CloudInUse, ReadOK, Persisted
  <2>2. Persisted(cache)'
    BY <1>8 DEF CreateInstance, kube, GuardInv, Persisted
  <2>3. (pc # "idle" => Persisted(base) /\ ReadOK)'
    <3>1. /\ pc' \in NormalSteps \ {"resolve"} \/ pc' = "patchMeta"
             \/ (pc' = "dAdopt" /\ base.deleting)
          /\ base' = base /\ pc \in NormalSteps \ {"resolve"}
      BY <1>8 DEF CreateInstance, CreateFailed, At, Return, Goto, Again
    <3>2. w'.finalizer = w.finalizer /\ UNCHANGED obj
      BY <1>8, WorkingFinalizer DEF CreateInstance, kube
    <3> QED BY <3>1, <3>2 DEF GuardInv, Persisted, ReadOK
  <2> QED BY <2>1, <2>2, <2>3 DEF GuardInv
<1>9. CASE AssociateIPAddress
  <2>1. FinalizerGuardsCloud'
    BY <1>9 DEF AssociateIPAddress, At, kube, cloud, GuardInv,
       FinalizerGuardsCloud, CloudInUse, ReadOK, Persisted
  <2>2. Persisted(cache)'
    BY <1>9 DEF AssociateIPAddress, kube, GuardInv, Persisted
  <2>3. (pc # "idle" => Persisted(base) /\ ReadOK)'
    <3>1. /\ pc' \in NormalSteps \ {"resolve"} \/ pc' = "patchMeta"
             \/ (pc' = "dAdopt" /\ base.deleting)
          /\ base' = base /\ pc \in NormalSteps \ {"resolve"}
      BY <1>9 DEF AssociateIPAddress, At, Return, Goto, Again
    <3>2. w'.finalizer = w.finalizer /\ UNCHANGED obj
      BY <1>9, WorkingFinalizer DEF AssociateIPAddress, kube
    <3> QED BY <3>1, <3>2 DEF GuardInv, Persisted, ReadOK
  <2> QED BY <2>1, <2>2, <2>3 DEF GuardInv
<1>10. CASE ReportStatus
  <2>1. FinalizerGuardsCloud'
    BY <1>10 DEF ReportStatus, At, kube, cloud, GuardInv,
       FinalizerGuardsCloud, CloudInUse, ReadOK, Persisted
  <2>2. Persisted(cache)'
    BY <1>10 DEF ReportStatus, kube, GuardInv, Persisted
  <2>3. (pc # "idle" => Persisted(base) /\ ReadOK)'
    <3>1. /\ pc' \in NormalSteps \ {"resolve"} \/ pc' = "patchMeta"
             \/ (pc' = "dAdopt" /\ base.deleting)
          /\ base' = base /\ pc \in NormalSteps \ {"resolve"}
      BY <1>10 DEF ReportStatus, At, Return, Goto, Again, RequeueFor
    <3>2. w'.finalizer = w.finalizer /\ UNCHANGED obj
      BY <1>10, WorkingFinalizer DEF ReportStatus, kube
    <3> QED BY <3>1, <3>2 DEF GuardInv, Persisted, ReadOK
  <2> QED BY <2>1, <2>2, <2>3 DEF GuardInv
<1>11. CASE AdoptForDelete
  <2>1. FinalizerGuardsCloud'
    BY <1>11 DEF AdoptForDelete, At, kube, cloud, GuardInv,
       FinalizerGuardsCloud, CloudInUse
  <2>2. Persisted(cache)'
    BY <1>11 DEF AdoptForDelete, kube, GuardInv, Persisted
  <2>3. (pc # "idle" => Persisted(base) /\ ReadOK)'
    <3>1. Goto("dGet") \/ Return("error")
      BY <1>11, Zenon DEF AdoptForDelete, AdoptServerResources
    <3>2. w'.finalizer = w.finalizer /\ UNCHANGED obj /\ pc = "dAdopt"
      BY <1>11, WorkingFinalizer DEF AdoptForDelete, At, kube
    <3> QED BY <3>1, <3>2 DEF Return, Goto, GuardInv, Persisted, ReadOK
  <2> QED BY <2>1, <2>2, <2>3 DEF GuardInv
<1>12. CASE GetServerStatus
  <2>1. FinalizerGuardsCloud'
    BY <1>12 DEF GetServerStatus, At, kube, cloud, GuardInv,
       FinalizerGuardsCloud, CloudInUse
  <2>2. Persisted(cache)'
    BY <1>12 DEF GetServerStatus, kube, GuardInv, Persisted
  <2>3. (pc # "idle" => Persisted(base) /\ ReadOK)'
    BY <1>12 DEF GetServerStatus, At, ReturnDelete, Goto, Again, kube,
       GuardInv, Persisted, ReadOK
  <2> QED BY <2>1, <2>2, <2>3 DEF GuardInv
<1>13. CASE DeleteVolume
  <2>1. FinalizerGuardsCloud'
    BY <1>13 DEF DeleteVolume, At, kube, cloud, GuardInv,
       FinalizerGuardsCloud, CloudInUse
  <2>2. Persisted(cache)'
    BY <1>13 DEF DeleteVolume, kube, GuardInv, Persisted
  <2>3. (pc # "idle" => Persisted(base) /\ ReadOK)'
    BY <1>13 DEF DeleteVolume, At, ReturnDelete, Goto, Again, kube, GuardInv,
       Persisted, ReadOK
  <2> QED BY <2>1, <2>2, <2>3 DEF GuardInv
<1>14. CASE DeleteServer
  <2>1. FinalizerGuardsCloud'
    BY <1>14 DEF DeleteServer, At, kube, cloud, DeleteRequested, GuardInv,
       FinalizerGuardsCloud, CloudInUse
  <2>2. Persisted(cache)'
    BY <1>14 DEF DeleteServer, kube, GuardInv, Persisted
  <2>3. (pc # "idle" => Persisted(base) /\ ReadOK)'
    BY <1>14 DEF DeleteServer, At, ReturnDelete, Goto, Again, kube, GuardInv,
       Persisted, ReadOK
  <2> QED BY <2>1, <2>2, <2>3 DEF GuardInv
<1>15. CASE PollInstanceDeleted
  <2>1. FinalizerGuardsCloud'
    BY <1>15 DEF PollInstanceDeleted, At, kube, cloud, GuardInv,
       FinalizerGuardsCloud, CloudInUse
  <2>2. Persisted(cache)'
    BY <1>15 DEF PollInstanceDeleted, kube, GuardInv, Persisted
  <2>3. (pc # "idle" => Persisted(base) /\ ReadOK)'
    BY <1>15 DEF PollInstanceDeleted, At, ReturnDelete, Goto, Again, kube,
       GuardInv, Persisted, ReadOK
  <2> QED BY <2>1, <2>2, <2>3 DEF GuardInv
<1>16. CASE DeletePort
  <2>1. FinalizerGuardsCloud'
    BY <1>16 DEF DeletePort, At, kube, cloud, GuardInv, FinalizerGuardsCloud,
       CloudInUse
  <2>2. Persisted(cache)'
    BY <1>16 DEF DeletePort, kube, GuardInv, Persisted
  <2>3. (pc # "idle" => Persisted(base) /\ ReadOK)'
    BY <1>16 DEF DeletePort, At, ReturnDelete, Goto, Again, kube, GuardInv,
       Persisted, ReadOK
  <2> QED BY <2>1, <2>2, <2>3 DEF GuardInv
<1>17. CASE ReleaseClaim
  <2>1. FinalizerGuardsCloud'
    BY <1>17 DEF ReleaseClaim, At, kube, cloud, Released, GuardInv,
       FinalizerGuardsCloud, CloudInUse
  <2>2. Persisted(cache)'
    BY <1>17 DEF ReleaseClaim, kube, GuardInv, Persisted
  <2>3. (pc # "idle" => Persisted(base) /\ ReadOK)'
    BY <1>17 DEF ReleaseClaim, At, ReturnDelete, Goto, Again, kube, GuardInv,
       Persisted, ReadOK
  <2> QED BY <2>1, <2>2, <2>3 DEF GuardInv
<1>18. CASE PatchMeta
  <2>1. FinalizerGuardsCloud'
    BY <1>18, MetaGuard DEF PatchMeta, cloud, GuardInv, FinalizerGuardsCloud,
       CloudInUse
  <2>2. Persisted(cache)'
    BY <1>18, MetaGuard DEF PatchMeta, GuardInv, Persisted
  <2>3. (pc # "idle" => Persisted(base) /\ ReadOK)'
    BY <1>18, MetaGuard DEF PatchMeta, At, GuardInv, Persisted, ReadOK
  <2> QED BY <2>1, <2>2, <2>3 DEF GuardInv
<1>19. CASE PatchStatus
  <2>1. FinalizerGuardsCloud'
    BY <1>19, StatusGuard DEF PatchStatus, cloud, GuardInv,
       FinalizerGuardsCloud, CloudInUse
  <2>2. Persisted(cache)'
    BY <1>19, StatusGuard DEF PatchStatus, GuardInv, Persisted
  <2>3. (pc # "idle" => Persisted(base) /\ ReadOK)'
    BY <1>19 DEF PatchStatus, Finish
  <2> QED BY <2>1, <2>2, <2>3 DEF GuardInv
<1>20. CASE Crash
  <2>1. FinalizerGuardsCloud'
    BY <1>20 DEF Crash, At, kube, cloud, GuardInv, FinalizerGuardsCloud,
       CloudInUse
  <2>2. Persisted(cache)'
    BY <1>20 DEF Crash, kube, GuardInv, Persisted
  <2>3. (pc # "idle" => Persisted(base) /\ ReadOK)'
    BY <1>20 DEF Crash, kube, local, GuardInv, Persisted, ReadOK
  <2> QED BY <2>1, <2>2, <2>3 DEF GuardInv
<1>21. CASE ServerEvent
  <2>1. FinalizerGuardsCloud'
    BY <1>21 DEF ServerEvent, At, kube, cloud, GuardInv, FinalizerGuardsCloud,
       CloudInUse
  <2>2. Persisted(cache)'
    BY <1>21 DEF ServerEvent, kube, GuardInv, Persisted
  <2>3. (pc # "idle" => Persisted(base) /\ ReadOK)'
    BY <1>21 DEF ServerEvent, kube, local, GuardInv, Persisted, ReadOK
  <2> QED BY <2>1, <2>2, <2>3 DEF GuardInv
<1>22. CASE ClaimEvent
  <2>1. FinalizerGuardsCloud'
    BY <1>22 DEF ClaimEvent, At, kube, cloud, GuardInv, FinalizerGuardsCloud,
       CloudInUse
  <2>2. Persisted(cache)'
    BY <1>22 DEF ClaimEvent, kube, GuardInv, Persisted
  <2>3. (pc # "idle" => Persisted(base) /\ ReadOK)'
    BY <1>22 DEF ClaimEvent, kube, local, GuardInv, Persisted, ReadOK
  <2> QED BY <2>1, <2>2, <2>3 DEF GuardInv
<1>23. CASE DependencyEvent
  <2>1. FinalizerGuardsCloud'
    BY <1>23 DEF DependencyEvent, At, kube, cloud, GuardInv,
       FinalizerGuardsCloud, CloudInUse
  <2>2. Persisted(cache)'
    BY <1>23 DEF DependencyEvent, kube, GuardInv, Persisted
  <2>3. (pc # "idle" => Persisted(base) /\ ReadOK)'
    BY <1>23 DEF DependencyEvent, kube, local, GuardInv, Persisted, ReadOK
  <2> QED BY <2>1, <2>2, <2>3 DEF GuardInv
<1>24. CASE Resync
  <2>1. FinalizerGuardsCloud'
    BY <1>24 DEF Resync, At, kube, cloud, GuardInv, FinalizerGuardsCloud,
       CloudInUse
  <2>2. Persisted(cache)'
    BY <1>24 DEF Resync, kube, GuardInv, Persisted
  <2>3. (pc # "idle" => Persisted(base) /\ ReadOK)'
    BY <1>24 DEF Resync, kube, local, GuardInv, Persisted, ReadOK
  <2> QED BY <2>1, <2>2, <2>3 DEF GuardInv
<1>25. CASE DeleteObject
  <2>1. FinalizerGuardsCloud'
    BY <1>25 DEF DeleteObject, At, kube, cloud, GuardInv,
       FinalizerGuardsCloud, CloudInUse
  <2>2. Persisted(cache)'
    BY <1>25 DEF DeleteObject, kube, GuardInv, Persisted
  <2>3. (pc # "idle" => Persisted(base) /\ ReadOK)'
    BY <1>25 DEF DeleteObject, kube, local, GuardInv, Persisted, ReadOK
  <2> QED BY <2>1, <2>2, <2>3 DEF GuardInv
<1>26. CASE Move
  <2>1. FinalizerGuardsCloud'
    BY <1>26 DEF Move, At, kube, cloud, GuardInv, FinalizerGuardsCloud,
       CloudInUse
  <2>2. Persisted(cache)'
    BY <1>26 DEF Move, kube, GuardInv, Persisted, NewServer
  <2>3. (pc # "idle" => Persisted(base) /\ ReadOK)'
    BY <1>26 DEF Move, kube, local, GuardInv, Persisted, ReadOK
  <2> QED BY <2>1, <2>2, <2>3 DEF GuardInv
<1>27. CASE PoolAllocates
  <2>1. FinalizerGuardsCloud'
    BY <1>27 DEF PoolAllocates, At, kube, cloud, GuardInv,
       FinalizerGuardsCloud, CloudInUse
  <2>2. Persisted(cache)'
    BY <1>27 DEF PoolAllocates, kube, GuardInv, Persisted
  <2>3. (pc # "idle" => Persisted(base) /\ ReadOK)'
    BY <1>27 DEF PoolAllocates, kube, local, GuardInv, Persisted, ReadOK
  <2> QED BY <2>1, <2>2, <2>3 DEF GuardInv
<1>28. CASE CollectClaim
  <2>1. FinalizerGuardsCloud'
    BY <1>28 DEF CollectClaim, At, kube, cloud, GuardInv,
       FinalizerGuardsCloud, CloudInUse
  <2>2. Persisted(cache)'
    BY <1>28 DEF CollectClaim, kube, GuardInv, Persisted
  <2>3. (pc # "idle" => Persisted(base) /\ ReadOK)'
    BY <1>28 DEF CollectClaim, kube, local, GuardInv, Persisted, ReadOK
  <2> QED BY <2>1, <2>2, <2>3 DEF GuardInv
<1>29. CASE NovaFinishes
  <2>1. FinalizerGuardsCloud'
    BY <1>29 DEF NovaFinishes, At, kube, cloud, SetState, Gone, GuardInv,
       FinalizerGuardsCloud, CloudInUse
  <2>2. Persisted(cache)'
    BY <1>29 DEF NovaFinishes, kube, GuardInv, Persisted
  <2>3. (pc # "idle" => Persisted(base) /\ ReadOK)'
    BY <1>29 DEF NovaFinishes, kube, local, GuardInv, Persisted, ReadOK
  <2> QED BY <2>1, <2>2, <2>3 DEF GuardInv
<1>30. CASE NovaToggles
  <2>1. FinalizerGuardsCloud'
    BY <1>30 DEF NovaToggles, At, kube, cloud, SetState, GuardInv,
       FinalizerGuardsCloud, CloudInUse
  <2>2. Persisted(cache)'
    BY <1>30 DEF NovaToggles, kube, GuardInv, Persisted
  <2>3. (pc # "idle" => Persisted(base) /\ ReadOK)'
    BY <1>30 DEF NovaToggles, kube, local, GuardInv, Persisted, ReadOK
  <2> QED BY <2>1, <2>2, <2>3 DEF GuardInv
<1>31. CASE LoseInstance
  <2>1. FinalizerGuardsCloud'
    BY <1>31 DEF LoseInstance, At, kube, cloud, Gone, GuardInv,
       FinalizerGuardsCloud, CloudInUse
  <2>2. Persisted(cache)'
    BY <1>31 DEF LoseInstance, kube, GuardInv, Persisted
  <2>3. (pc # "idle" => Persisted(base) /\ ReadOK)'
    BY <1>31 DEF LoseInstance, kube, local, GuardInv, Persisted, ReadOK
  <2> QED BY <2>1, <2>2, <2>3 DEF GuardInv
<1>32. CASE LosePort
  <2>1. FinalizerGuardsCloud'
    BY <1>32 DEF LosePort, At, kube, cloud, GuardInv, FinalizerGuardsCloud,
       CloudInUse
  <2>2. Persisted(cache)'
    BY <1>32 DEF LosePort, kube, GuardInv, Persisted
  <2>3. (pc # "idle" => Persisted(base) /\ ReadOK)'
    BY <1>32 DEF LosePort, kube, local, GuardInv, Persisted, ReadOK
  <2> QED BY <2>1, <2>2, <2>3 DEF GuardInv
<1>33. CASE UNCHANGED vars
  BY <1>33 DEF vars, kube, cloud, local, GuardInv, FinalizerGuardsCloud,
     CloudInUse, Persisted, ReadOK
<1> QED
  BY <1>1, <1>2, <1>3, <1>4, <1>5, <1>6, <1>7, <1>8, <1>9, <1>10, <1>11,
     <1>12, <1>13, <1>14, <1>15, <1>16, <1>17, <1>18, <1>19, <1>20, <1>21,
     <1>22, <1>23, <1>24, <1>25, <1>26, <1>27, <1>28, <1>29, <1>30, <1>31,
     <1>32, <1>33 DEF Next, Worker, Watches, World

\* While anything created for the server exists, its object holds the finalizer
\* or is gone: for any staleness of the reads, and with crashes and failed calls
\* at every step.
THEOREM FinalizerGuards == Spec => []FinalizerGuardsCloud
<1>1. GuardInv => FinalizerGuardsCloud
  BY DEF GuardInv
<1> QED BY <1>1, TypeInit, TypeNext, GuardInit, GuardNext, PTL DEF Spec

\* Only the four creating steps of reconcileNormal create anything, and they
\* leave the object alone.
LEMMA CreatedWhere ==
  ASSUME TypeInv, [Next]_vars, Created
  PROVE  pc \in {"claim", "ports", "volumes", "create"} /\ UNCHANGED obj
<1>1. CASE \/ ReconcileFloatingAddressFromPool \/ EnsurePort
           \/ GetOrCreateVolume \/ CreateInstance
  BY <1>1 DEF ReconcileFloatingAddressFromPool, EnsurePort, GetOrCreateVolume,
     CreateInstance, At, kube
<1>2. CASE ~(\/ ReconcileFloatingAddressFromPool \/ EnsurePort
             \/ GetOrCreateVolume \/ CreateInstance)
  <2>1. UNCHANGED <<ports, vols>> \/ DeletePort \/ DeleteVolume
        \/ NovaFinishes \/ LoseInstance \/ LosePort
    BY <1>2, Zenon DEF Next, Worker, Watches, World, vars, cloud, Start,
       ResolveServerSpec, Adopt, GetServer, AssociateIPAddress, ReportStatus,
       AdoptForDelete, GetServerStatus, DeleteServer, PollInstanceDeleted,
       ReleaseClaim, PatchMeta, PatchStatus, Crash, ServerEvent, ClaimEvent,
       DependencyEvent, Resync, DeleteObject, Move, PoolAllocates,
       CollectClaim, NovaToggles
  <2>2. ports' \subseteq ports /\ vols' \subseteq vols
    BY <2>1 DEF DeletePort, DeleteVolume, NovaFinishes, LoseInstance,
       LosePort, Gone
  <2>3. instIDs' = instIDs
    BY <1>2, Zenon DEF Next, Worker, Watches, World, vars, cloud, Start,
       ResolveServerSpec, Adopt, GetServer, AssociateIPAddress, ReportStatus,
       AdoptForDelete, GetServerStatus, DeleteVolume, DeleteServer,
       PollInstanceDeleted, DeletePort, ReleaseClaim, PatchMeta, PatchStatus,
       Crash, ServerEvent, ClaimEvent, DependencyEvent, Resync, DeleteObject,
       Move, PoolAllocates, CollectClaim, NovaFinishes, NovaToggles,
       LoseInstance, LosePort
  <2>4. UNCHANGED claim \/ ReleaseClaim \/ Move \/ PoolAllocates \/ CollectClaim
    BY <1>2, Zenon DEF Next, Worker, Watches, World, vars, kube, Start,
       ResolveServerSpec, Adopt, GetServer, AssociateIPAddress, ReportStatus,
       AdoptForDelete, GetServerStatus, DeleteVolume, DeleteServer,
       PollInstanceDeleted, DeletePort, PatchMeta, PatchStatus, Crash,
       ServerEvent, ClaimEvent, DependencyEvent, Resync, DeleteObject,
       NovaFinishes, NovaToggles, LoseInstance, LosePort
  <2>5. claim'.exists => claim.exists
    BY <2>4 DEF ReleaseClaim, Move, PoolAllocates, CollectClaim, Released,
       TypeInv, ObjectsOK, ClaimObj
  <2> QED BY <2>2, <2>3, <2>5 DEF Created
<1> QED BY <1>1, <1>2

\* Resources are created only by a reconcile whose read showed a persisted
\* finalizer and a completely resolved spec, which the object still has.
THEOREM CreationAfterPersistence == Spec => CreatedAfterPersisted
<1>1. TypeInv /\ GuardInv /\ [Next]_vars =>
        [Created => /\ base.finalizer /\ base.resolved = Setters
                    /\ obj.exists => obj.finalizer /\ obj.resolved = Setters]_vars
  <2> SUFFICES ASSUME TypeInv, GuardInv, [Next]_vars, Created
               PROVE  /\ base.finalizer /\ base.resolved = Setters
                      /\ obj.exists => obj.finalizer /\ obj.resolved = Setters
    OBVIOUS
  <2>1. pc \in NormalSteps \ {"resolve"}
    BY CreatedWhere
  <2>2. Persisted(base) /\ base.finalizer /\ base.resolved = Setters
    BY <2>1 DEF GuardInv, ReadOK
  <2> QED BY <2>2 DEF Persisted, TypeInv, ObjectsOK, ServerObj
<1> QED
  BY <1>1, TypeInit, TypeNext, GuardInit, GuardNext, PTL
     DEF Spec, CreatedAfterPersisted
=============================================================================
