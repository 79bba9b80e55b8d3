--------------------- MODULE OpenStackServerCloudProofs ---------------------
(***************************************************************************)
(* Proofs about what OpenStackServer creates and deletes in OpenStack and    *)
(* what it tells the owner of the object, for every number of volumes,       *)
(* faults, lost instances and moves.                                         *)
(***************************************************************************)
EXTENDS OpenStackServerProofs

USE DEF NoID, NoInst, DeletedStates

-----------------------------------------------------------------------------
(* What the steps change *)

\* Which actions may change which variable.
LEMMA Frame ==
  ASSUME [Next]_vars
  PROVE  /\ PatchMeta \/ PatchStatus \/ DeleteObject \/ Move \/ obj' = obj
         /\ Crash \/ ServerEvent \/ Move \/ cache' = cache
         /\ \/ ReconcileFloatingAddressFromPool \/ ReleaseClaim
            \/ Move \/ PoolAllocates \/ CollectClaim \/ claim' = claim
         /\ EnsurePort \/ DeletePort \/ LosePort \/ UNCHANGED <<ports, portIDs>>
         /\ GetOrCreateVolume \/ DeleteVolume \/ NovaFinishes \/ LoseInstance \/ vols' = vols
         /\ \/ CreateInstance \/ DeleteServer \/ NovaFinishes \/ NovaToggles \/ LoseInstance
            \/ insts' = insts
         /\ CreateInstance \/ instIDs' = instIDs
         /\ AssociateIPAddress \/ DeletePort \/ LosePort \/ fip' = fip
         /\ Move \/ moves' = moves
         /\ Worker \/ Crash \/ UNCHANGED <<pc, base, w, k, inst>>
<1> USE DEF Next, Worker, Watches, World, vars, kube, cloud, local, env, At, Start,
     ResolveServerSpec, Adopt, ReconcileFloatingAddressFromPool, EnsurePort,
     GetServer, GetOrCreateVolume, CreateInstance, AssociateIPAddress,
     ReportStatus, AdoptForDelete, GetServerStatus, DeleteVolume,
     DeleteServer, PollInstanceDeleted, DeletePort, ReleaseClaim, PatchMeta,
     PatchStatus, Crash, ServerEvent, ClaimEvent, DependencyEvent, Resync,
     DeleteObject, Move, PoolAllocates, CollectClaim, NovaFinishes,
     NovaToggles, LoseInstance, LosePort
<1>1. PatchMeta \/ PatchStatus \/ DeleteObject \/ Move \/ obj' = obj
  BY Zenon
<1>2. Crash \/ ServerEvent \/ Move \/ cache' = cache
  BY Zenon
<1>3. \/ ReconcileFloatingAddressFromPool \/ ReleaseClaim
      \/ Move \/ PoolAllocates \/ CollectClaim \/ claim' = claim
  BY Zenon
<1>4. EnsurePort \/ DeletePort \/ LosePort \/ UNCHANGED <<ports, portIDs>>
  BY Zenon
<1>5. GetOrCreateVolume \/ DeleteVolume \/ NovaFinishes \/ LoseInstance \/ vols' = vols
  BY Zenon
<1>6. CreateInstance \/ DeleteServer \/ NovaFinishes \/ NovaToggles \/ LoseInstance \/ insts' = insts
  BY Zenon
<1>7. CreateInstance \/ instIDs' = instIDs
  BY Zenon
<1>8. AssociateIPAddress \/ DeletePort \/ LosePort \/ fip' = fip
  BY Zenon
<1>9. Worker \/ Crash \/ UNCHANGED <<pc, base, w, k, inst>>
  BY Zenon
<1>10. Move \/ moves' = moves
  BY Zenon
<1> QED BY <1>1, <1>2, <1>3, <1>4, <1>5, <1>6, <1>7, <1>8, <1>9, <1>10, Zenon

-----------------------------------------------------------------------------
(* Instances *)

\* Every instance has an ID of its own that has been used.
InstIDsOK ==
  /\ \A x \in insts : x.id <= instIDs
  /\ \A x, y \in insts : x.id = y.id => x = y

\* Between the look for an instance and its creation there is none, and the instance
\* that a reconcile reports is one that was created.
InstInv ==
  /\ InstIDsOK /\ OneInstance
  /\ pc \in {"volumes", "create"} => LiveInstances = {}
  /\ pc \in {"associate", "status"} => inst.id \in 1..instIDs /\ inst.state \in States

\* S comes from the instances by changes of state that bring no instance back.
Aged(S) ==
  /\ \A x \in S : \E y \in insts : y.id = x.id /\ (x.state \notin DeletedStates => y.state \notin DeletedStates)
  /\ \A x, y \in S : x.id = y.id => x = y

\* The instances, once the one with the ID has got a new state.
Restated(id, s) ==
  {IF x.id = id /\ x.state \notin DeletedStates THEN [x EXCEPT !.state = s] ELSE x : x \in insts}

\* A change of state keeps the IDs of the instances.
LEMMA SetStateAged ==
  ASSUME TypeInv, InstIDsOK, NEW id, NEW s \in States
  PROVE  Aged(Restated(id, s)) /\ \A y \in insts : \E x \in Restated(id, s) : x.id = y.id
<1>0. insts \subseteq [id : 1..MaxInstID, state : States]
  BY DEF TypeInv, CloudOK, Instance
<1> DEFINE New(x) == IF x.id = id /\ x.state \notin DeletedStates THEN [x EXCEPT !.state = s] ELSE x
<1>1. ASSUME NEW y \in insts
      PROVE  New(y).id = y.id /\ (New(y).state \notin DeletedStates => y.state \notin DeletedStates)
  BY <1>0
<1> DEFINE Q == Restated(id, s)
<1>2. Q = {New(x) : x \in insts}
  BY Zenon DEF Restated
<1> HIDE DEF New, Q
<1>3. ASSUME NEW x \in Q, NEW y \in Q, x.id = y.id PROVE x = y
  <2>1. PICK a \in insts : x = New(a)
    BY <1>2
  <2>2. PICK b \in insts : y = New(b)
    BY <1>2
  <2>3. a = b
    BY <1>1, <1>3, <2>1, <2>2 DEF InstIDsOK
  <2> QED BY <2>1, <2>2, <2>3
<1>4. Aged(Q) /\ \A y \in insts : \E x \in Q : x.id = y.id
  BY <1>1, <1>2, <1>3 DEF Aged
<1> QED BY <1>4 DEF Q

\* What a step does to the instances: one is created, or they change their states and
\* go; with the last one its volumes go.
LEMMA InstStep ==
  ASSUME TypeInv, InstIDsOK, [Next]_vars
  PROVE  \/ /\ CreateInstance /\ pc = "create" /\ CanCreate
            /\ insts' = insts \cup {NewInstance} /\ instIDs' = instIDs + 1
         \/ /\ instIDs' = instIDs /\ Aged(insts')
            /\ \/ \A y \in insts : \E x \in insts' : x.id = y.id
               \/ vols' = {}
<1>0. insts \subseteq [id : 1..MaxInstID, state : States]
  BY DEF TypeInv, CloudOK, Instance
<1>1. Aged(insts)
  BY DEF Aged, InstIDsOK
<1>2. CASE CreateInstance
  BY <1>1, <1>2 DEF CreateInstance, At
<1>3. ASSUME NEW id
      PROVE  /\ Aged(DeleteRequested(id))
             /\ \A y \in insts : \E x \in DeleteRequested(id) : x.id = y.id
  <2>1. DeleteRequested(id) = Restated(id, "DELETING")
    BY Zenon DEF DeleteRequested, Restated
  <2>2. "DELETING" \in States
    BY DEF States
  <2> QED BY <2>1, <2>2, SetStateAged
<1>4. ASSUME NEW y \in insts, y.state \notin DeletedStates, NEW s \in States
      PROVE  /\ Aged(SetState(y.id, s))
             /\ \A z \in insts : \E x \in SetState(y.id, s) : x.id = z.id
  <2>1. SetState(y.id, s) = Restated(y.id, s)
    BY <1>4 DEF SetState, Restated, InstIDsOK
  <2> QED BY <2>1, SetStateAged
<1>5. ASSUME NEW x \in insts, Gone(x) PROVE Aged(insts') /\ vols' = {}
  BY <1>5 DEF Gone, Aged, InstIDsOK
<1>6. CASE DeleteServer
  BY <1>1, <1>3, <1>6 DEF DeleteServer
<1>7. CASE NovaFinishes
  <2>1. PICK x \in insts :
          \/ x.state \notin DeletedStates /\ \E s \in States : insts' = SetState(x.id, s)
          \/ Gone(x)
    BY <1>7 DEF NovaFinishes, States
  <2> QED BY <1>4, <1>5, <1>7, <2>1 DEF NovaFinishes
<1>8. CASE NovaToggles
  <2>1. PICK x \in insts : x.state \notin DeletedStates /\ \E s \in States : insts' = SetState(x.id, s)
    BY <1>8 DEF NovaToggles, States
  <2> QED BY <1>4, <1>8, <2>1 DEF NovaToggles
<1>9. CASE LoseInstance
  BY <1>5, <1>9 DEF LoseInstance
<1> QED BY <1>1, <1>2, <1>6, <1>7, <1>8, <1>9, Frame


\* Instances that are live after a step have been live before, or there was none.
LEMMA LiveStep ==
  ASSUME TypeInv, InstInv, [Next]_vars
  PROVE  \/ /\ CreateInstance /\ pc = "create" /\ LiveInstances = {}
            /\ LiveInstances' = {NewInstance} /\ instIDs' = instIDs + 1
         \/ instIDs' = instIDs /\ \A x \in LiveInstances' : \E y \in LiveInstances : y.id = x.id
<1>1. CASE /\ CreateInstance /\ pc = "create" /\ CanCreate
           /\ insts' = insts \cup {NewInstance} /\ instIDs' = instIDs + 1
  <2>1. LiveInstances = {}
    BY <1>1 DEF InstInv
  <2>2. NewInstance.state \notin DeletedStates
    BY DEF NewInstance
  <2> QED BY <1>1, <2>1, <2>2 DEF LiveInstances
<1>2. CASE instIDs' = instIDs /\ Aged(insts')
  BY <1>2 DEF LiveInstances, Aged
<1> QED BY <1>1, <1>2, InstStep DEF InstInv

\* Every step keeps one instance at a time, with IDs that were handed out.
LEMMA InstIDsNext == TypeInv /\ InstInv /\ [Next]_vars => InstIDsOK' /\ OneInstance'
<1> SUFFICES ASSUME TypeInv, InstInv, [Next]_vars PROVE InstIDsOK' /\ OneInstance'
  OBVIOUS
<1>0. InstIDsOK /\ OneInstance /\ instIDs \in Nat /\ insts \subseteq [id : 1..MaxInstID, state : States]
  BY ConstantsAssumption DEF InstInv, TypeInv, CloudOK, Instance
<1>1. InstIDsOK'
  <2>1. CASE insts' = insts \cup {NewInstance} /\ instIDs' = instIDs + 1
    <3>1. NewInstance.id = instIDs + 1
      BY DEF NewInstance
    <3>2. \A x \in insts : x.id <= instIDs /\ x.id \in Nat
      BY <1>0 DEF InstIDsOK
    <3>3. \A x \in insts : x.id # NewInstance.id
      BY <1>0, <3>1, <3>2
    <3>4. \A x \in insts' : x.id <= instIDs'
      BY <1>0, <2>1, <3>1, <3>2
    <3>5. \A x, y \in insts' : x.id = y.id => x = y
      BY <1>0, <2>1, <3>3 DEF InstIDsOK
    <3> QED BY <3>4, <3>5 DEF InstIDsOK
  <2>2. CASE instIDs' = instIDs /\ Aged(insts')
    BY <1>0, <2>2 DEF Aged, InstIDsOK
  <2> QED BY <1>0, <2>1, <2>2, InstStep
<1>2. OneInstance'
  <2>1. CASE LiveInstances' = {NewInstance}
    BY <2>1 DEF OneInstance, Several
  <2>2. CASE \A x \in LiveInstances' : \E y \in LiveInstances : y.id = x.id
    <3>1. SUFFICES ASSUME NEW x \in LiveInstances', NEW y \in LiveInstances' PROVE x = y
      BY DEF OneInstance, Several
    <3>2. PICK a \in LiveInstances : a.id = x.id
      BY <2>2
    <3>3. PICK b \in LiveInstances : b.id = y.id
      BY <2>2
    <3>4. a = b
      BY <1>0 DEF OneInstance, Several
    <3>5. x \in insts' /\ y \in insts' /\ x.id = y.id
      BY <3>2, <3>3, <3>4 DEF LiveInstances
    <3> QED BY <1>1, <3>5 DEF InstIDsOK
  <2> QED BY <2>1, <2>2, LiveStep
<1> QED BY <1>1, <1>2

\* An instance is created only after none was found, by name.
LEMMA CreateFlow ==
  ASSUME TypeInv, [Next]_vars, pc' \in {"volumes", "create"}
  PROVE  /\ \/ pc \in {"volumes", "create"}
            \/ pc = "server" /\ InstancesByName = {} /\ w.instanceID = NoID
         /\ UNCHANGED <<base, w>> /\ ~CreateInstance
<1> USE DEF At, Goto, Return, ReturnDelete, Again
<1>0. ~CreateInstance
  BY DEF CreateInstance, CreateFailed
<1>1. CASE Start
  BY <1>1 DEF Start, FirstStep, cloud
<1>2. CASE ResolveServerSpec
  BY <1>2 DEF ResolveServerSpec
<1>3. CASE Adopt \/ AdoptForDelete
  BY <1>3 DEF Adopt, AdoptForDelete, AdoptServerResources
<1>4. CASE ReconcileFloatingAddressFromPool \/ ReleaseClaim
  BY <1>4 DEF ReconcileFloatingAddressFromPool, ReleaseClaim
<1>5. CASE EnsurePort
  BY <1>5 DEF EnsurePort, NextPort, PortFailed
<1>6. CASE GetServer
  BY <1>0, <1>6 DEF GetServer, cloud
<1>7. CASE GetOrCreateVolume
  BY <1>0, <1>7 DEF GetOrCreateVolume, CreateFailed
<1>8. CASE AssociateIPAddress \/ ReportStatus
  BY <1>8 DEF AssociateIPAddress, ReportStatus
<1>9. CASE GetServerStatus \/ DeleteVolume \/ DeleteServer \/ PollInstanceDeleted \/ DeletePort
  BY <1>9 DEF GetServerStatus, DeleteVolume, DeleteServer, PollInstanceDeleted, DeletePort
<1>10. CASE PatchMeta \/ PatchStatus \/ Crash
  BY <1>10 DEF PatchMeta, PatchStatus, Finish, Crash
<1>11. CASE UNCHANGED <<pc, base, w, k, inst>>
  BY <1>0, <1>11
<1> QED BY <1>0, <1>1, <1>2, <1>3, <1>4, <1>5, <1>6, <1>7, <1>8, <1>9, <1>10, <1>11, Frame
       DEF Worker


\* The instance that is reported has been found or created.
LEMMA ReportFlow ==
  ASSUME TypeInv, [Next]_vars, pc' \in {"associate", "status"}
  PROVE  /\ \/ pc \in {"associate", "status"} /\ inst' = inst
            \/ /\ pc = "server" /\ inst' \in insts /\ insts' = insts /\ instIDs' = instIDs
               /\ \/ inst'.id = w.instanceID
                  \/ w.instanceID = NoID /\ InstancesByName = {inst'}
            \/ /\ pc = "create" /\ inst' = NewInstance /\ instIDs' = instIDs + 1
               /\ CreateInstance
         /\ UNCHANGED <<base, w>>
<1> USE DEF At, Goto, Return, ReturnDelete, Again
<1>1. CASE Start
  BY <1>1 DEF Start, FirstStep
<1>2. CASE ResolveServerSpec
  BY <1>2 DEF ResolveServerSpec
<1>3. CASE Adopt \/ AdoptForDelete
  BY <1>3 DEF Adopt, AdoptForDelete, AdoptServerResources
<1>4. CASE ReconcileFloatingAddressFromPool \/ ReleaseClaim
  BY <1>4 DEF ReconcileFloatingAddressFromPool, ReleaseClaim
<1>5. CASE EnsurePort
  BY <1>5 DEF EnsurePort, NextPort, PortFailed
<1>6. CASE GetServer
  BY <1>6 DEF GetServer, cloud, InstanceByID, InstancesByName
<1>7. CASE GetOrCreateVolume
  BY <1>7 DEF GetOrCreateVolume, CreateFailed
<1>8. CASE CreateInstance
  BY <1>8 DEF CreateInstance, CreateFailed
<1>9. CASE AssociateIPAddress \/ ReportStatus
  BY <1>9 DEF AssociateIPAddress, ReportStatus
<1>10. CASE GetServerStatus \/ DeleteVolume \/ DeleteServer \/ PollInstanceDeleted \/ DeletePort
  BY <1>10 DEF GetServerStatus, DeleteVolume, DeleteServer, PollInstanceDeleted, DeletePort
<1>11. CASE PatchMeta \/ PatchStatus \/ Crash
  BY <1>11 DEF PatchMeta, PatchStatus, Finish, Crash
<1>12. CASE UNCHANGED <<pc, base, w, k, inst>>
  BY <1>12
<1> QED BY <1>1, <1>2, <1>3, <1>4, <1>5, <1>6, <1>7, <1>8, <1>9, <1>10, <1>11, <1>12, Frame
       DEF Worker

\* Every step keeps what a reconcile has learnt of the instance.
LEMMA InstNext == TypeInv /\ InstInv /\ [Next]_vars => InstInv'
<1> SUFFICES ASSUME TypeInv, InstInv, [Next]_vars PROVE InstInv'
  OBVIOUS
<1>0. instIDs \in Nat /\ instIDs' \in Nat /\ insts \subseteq [id : 1..MaxInstID, state : States]
  BY TypeNext, ConstantsAssumption DEF TypeInv, CloudOK, Instance
<1>1. (pc \in {"volumes", "create"} => LiveInstances = {})'
  <2> SUFFICES ASSUME pc' \in {"volumes", "create"} PROVE LiveInstances' = {}
    OBVIOUS
  <2>1. LiveInstances = {} /\ ~CreateInstance
    BY CreateFlow DEF InstInv, InstancesByName, LiveInstances
  <2> QED BY <2>1, LiveStep
<1>2. (pc \in {"associate", "status"} => inst.id \in 1..instIDs /\ inst.state \in States)'
  <2> SUFFICES ASSUME pc' \in {"associate", "status"}
               PROVE  inst'.id \in 1..instIDs' /\ inst'.state \in States
    OBVIOUS
  <2>1. CASE pc \in {"associate", "status"} /\ inst' = inst
    <3>1. instIDs <= instIDs'
      BY <1>0, InstStep DEF InstInv
    <3> QED BY <1>0, <2>1, <3>1 DEF InstInv
  <2>2. CASE inst' \in insts /\ instIDs' = instIDs
    BY <1>0, <2>2 DEF InstInv, InstIDsOK
  <2>3. CASE inst' = NewInstance /\ instIDs' = instIDs + 1
    BY <1>0, <2>3 DEF NewInstance, States
  <2> QED BY <2>1, <2>2, <2>3, ReportFlow
<1> QED BY <1>1, <1>2, InstIDsNext DEF InstInv

\* getOrCreateServer never leaves two live instances with the server's name, whatever
\* was lost between CreateServer and the patch of InstanceID and however stale the
\* object was that the reconcile read.
THEOREM InstanceUnique == Spec => []OneInstance
<1>1. Init => InstInv
  BY DEF Init, InstInv, InstIDsOK, OneInstance, Several, LiveInstances
<1>2. InstInv => OneInstance
  BY DEF InstInv
<1> QED BY <1>1, <1>2, TypeInit, TypeNext, InstNext, PTL DEF Spec


-----------------------------------------------------------------------------
(* The working copy *)

\* The fields of two working copies that agree but for the ports.
KeepsStatus(a, b) ==
  /\ a.instanceID = b.instanceID /\ a.instanceState = b.instanceState /\ a.ready = b.ready

KeepsResolved(a, b) == a.hasResolved = b.hasResolved /\ a.resolved = b.resolved

\* Which fields of the working copy the steps of a reconcile write.
LEMMA WorkFields ==
  ASSUME TypeInv, [Next]_vars, pc # "idle", pc' # "idle"
  PROVE  /\ base' = base
         /\ ReportStatus \/ KeepsStatus(w', w)
            \/ /\ pc \in {"volumes", "create"} /\ w'.instanceState = "ERROR"
               /\ w'.instanceID = w.instanceID /\ w'.ready = w.ready
         /\ ResolveServerSpec \/ KeepsResolved(w', w)
         /\ Adopt \/ AdoptForDelete \/ w'.hasResources = w.hasResources
         /\ Adopt \/ AdoptForDelete \/ EnsurePort \/ w'.ports = w.ports
         /\ ResolveServerSpec \/ ReleaseClaim \/ w'.finalizer = w.finalizer
<1> USE DEF At, Goto, Return, ReturnDelete, Again
<1>0. w \in ServerObj
  BY DEF TypeInv, ObjectsOK
<1>1. CASE Start
  BY <1>1 DEF Start
<1>2. CASE ResolveServerSpec
  <2>1. base' = base
    BY <1>2 DEF ResolveServerSpec
  <2>2. PICK got \in SUBSET (deps \ w.resolved) :
          w' = [w EXCEPT !.hasResolved = TRUE, !.resolved = w.resolved \cup got,
                   !.finalizer = w.finalizer \/ w.resolved \cup got = Setters,
                   !.cond = IF w.resolved \cup got = Setters THEN w.cond ELSE "False"]
    BY <1>2 DEF ResolveServerSpec
  <2> QED BY <1>0, <1>2, <2>1, <2>2 DEF ServerObj, KeepsStatus
<1>3. CASE Adopt \/ AdoptForDelete
  <2>1. /\ base' = base
        /\ \/ w' = [w EXCEPT !.hasResources = TRUE]
           \/ \E s : w' = [w EXCEPT !.hasResources = TRUE, !.ports = s]
    BY <1>3 DEF Adopt, AdoptForDelete, AdoptServerResources
  <2> QED BY <1>0, <1>3, <2>1 DEF ServerObj, KeepsStatus, KeepsResolved
<1>4. CASE ReconcileFloatingAddressFromPool
  BY <1>4 DEF ReconcileFloatingAddressFromPool, KeepsStatus, KeepsResolved
<1>5. CASE EnsurePort
  <2>1. /\ base' = base
        /\ \/ w' = w \/ w' = [w EXCEPT !.cond = "False"]
           \/ \E s : w' = [w EXCEPT !.ports = s]
    BY <1>5 DEF EnsurePort, PortFailed, RecordPort, NextPort
  <2> QED BY <1>0, <1>5, <2>1 DEF ServerObj, KeepsStatus, KeepsResolved
<1>6. CASE GetServer \/ DeleteServer \/ PollInstanceDeleted
  <2>1. base' = base /\ (w' = w \/ w' = [w EXCEPT !.cond = "False"])
    BY <1>6 DEF GetServer, DeleteServer, PollInstanceDeleted
  <2> QED BY <1>0, <2>1 DEF ServerObj, KeepsStatus, KeepsResolved
<1>7. CASE GetOrCreateVolume \/ CreateInstance
  <2>1. /\ base' = base /\ pc \in {"volumes", "create"}
        /\ w' = w \/ w' = [w EXCEPT !.cond = "False", !.instanceState = "ERROR"]
    BY <1>7 DEF GetOrCreateVolume, CreateInstance, CreateFailed
  <2> QED BY <1>0, <2>1 DEF ServerObj, KeepsStatus, KeepsResolved
<1>8. CASE AssociateIPAddress \/ GetServerStatus \/ DeleteVolume \/ DeletePort \/ PatchMeta
  BY <1>8 DEF AssociateIPAddress, GetServerStatus, DeleteVolume, DeletePort, PatchMeta,
     KeepsStatus, KeepsResolved
<1>9. CASE ReportStatus
  BY <1>0, <1>9 DEF ReportStatus, ServerObj, KeepsStatus, KeepsResolved
<1>10. CASE ReleaseClaim
  <2>1. base' = base /\ (w' = w \/ w' = [w EXCEPT !.finalizer = FALSE])
    BY <1>10 DEF ReleaseClaim
  <2> QED BY <1>0, <1>10, <2>1 DEF ServerObj, KeepsStatus, KeepsResolved
<1>11. CASE PatchStatus \/ Crash
  BY <1>11 DEF PatchStatus, Finish, Crash
<1>12. CASE UNCHANGED <<pc, base, w, k, inst>>
  BY <1>12 DEF KeepsStatus, KeepsResolved
<1> QED BY <1>1, <1>2, <1>3, <1>4, <1>5, <1>6, <1>7, <1>8, <1>9, <1>10, <1>11, <1>12, Frame
       DEF Worker

\* A reconcile starts with a copy of the cached object.
LEMMA StartStep ==
  ASSUME [Next]_vars, pc = "idle", pc' # "idle"
  PROVE  /\ pc' \in {FirstStep(cache), "patchMeta"} /\ base' = cache /\ w' = cache /\ cache.exists
         /\ StaleServer \/ cache = obj
         /\ k' = 1 /\ UNCHANGED <<kube, cloud>>
<1>1. CASE Start
  BY <1>1 DEF Start
<1>2. CASE Worker /\ ~Start
  BY <1>2 DEF Worker, At, ResolveServerSpec, Adopt, ReconcileFloatingAddressFromPool,
     EnsurePort, GetServer, GetOrCreateVolume, CreateInstance, AssociateIPAddress,
     ReportStatus, AdoptForDelete, GetServerStatus, DeleteVolume,
     DeleteServer, PollInstanceDeleted, DeletePort, ReleaseClaim, PatchMeta, PatchStatus
<1>3. CASE Crash
  BY <1>3 DEF Crash
<1> QED BY <1>1, <1>2, <1>3, Frame

\* What a step does to the object: the patches of a reconcile, or its deletion or move.
LEMMA ObjStep ==
  ASSUME TypeInv, GuardInv, [Next]_vars
  PROVE  /\ obj'.exists => obj.exists
         /\ obj'.exists /\ ~obj'.deleting => ~obj.deleting
         /\ obj'.ready => obj.ready \/ (pc = "patchStatus" /\ w.ready)
<1>0. obj \in ServerObj /\ w \in ServerObj /\ base \in ServerObj /\ obj' \in ServerObj
  BY TypeNext DEF TypeInv, ObjectsOK
<1>1. CASE PatchMeta
  <2>1. obj' = obj \/ obj' = PatchedMeta(obj)
    BY <1>1 DEF PatchMeta
  <2>2. PatchedMeta(obj).ready = obj.ready
    BY <1>0 DEF PatchedMeta, ServerObj
  <2> QED BY <1>1, <2>1, <2>2, MetaGuard
<1>2. CASE PatchStatus
  <2>1. obj' = obj \/ obj' = PatchedStatus(obj)
    BY <1>2 DEF PatchStatus
  <2>2. PatchedStatus(obj).ready = IF w.ready = base.ready THEN obj.ready ELSE w.ready
    BY <1>0 DEF PatchedStatus, ServerObj
  <2>3. pc = "patchStatus"
    BY <1>2 DEF PatchStatus
  <2> QED BY <1>2, <2>1, <2>2, <2>3, StatusGuard
<1>3. CASE DeleteObject
  BY <1>0, <1>3 DEF DeleteObject, ServerObj
<1>4. CASE Move
  BY <1>0, <1>4 DEF Move, NewServer
<1> QED BY <1>1, <1>2, <1>3, <1>4, Frame


-----------------------------------------------------------------------------
(* Ready *)

\* As long as the floating IP is not associated no copy of the object says Ready, and
\* no reconcile is about to report.
ReadyInv ==
  UsesPool /\ obj.exists /\ ~obj.deleting /\ ~fip =>
    /\ ~obj.ready /\ ~cache.ready
    /\ pc # "idle" => ~base.ready /\ ~w.ready /\ pc # "status"

\* The state is reported after associateIPAddressFromIPAddressClaim only.
LEMMA OnlyAssociateReports ==
  ASSUME [Next]_vars, pc # "idle", pc # "status", pc' = "status"
  PROVE  AssociateIPAddress
<1> USE DEF At, Goto, Return, ReturnDelete, Again
<1>1. CASE Start
  BY <1>1 DEF Start
<1>2. CASE ResolveServerSpec \/ Adopt \/ AdoptForDelete
  BY <1>2 DEF ResolveServerSpec, Adopt, AdoptForDelete, AdoptServerResources
<1>3. CASE ReconcileFloatingAddressFromPool \/ ReleaseClaim
  BY <1>3 DEF ReconcileFloatingAddressFromPool, ReleaseClaim
<1>4. CASE EnsurePort
  BY <1>4 DEF EnsurePort, NextPort, PortFailed
<1>5. CASE GetServer \/ GetOrCreateVolume \/ CreateInstance
  BY <1>5 DEF GetServer, GetOrCreateVolume, CreateInstance, CreateFailed
<1>6. CASE ReportStatus
  BY <1>6 DEF ReportStatus
<1>7. CASE GetServerStatus \/ DeleteVolume \/ DeleteServer \/ PollInstanceDeleted \/ DeletePort
  BY <1>7 DEF GetServerStatus, DeleteVolume, DeleteServer, PollInstanceDeleted, DeletePort
<1>8. CASE PatchMeta \/ PatchStatus \/ Crash
  BY <1>8 DEF PatchMeta, PatchStatus, Finish, Crash
<1> QED BY <1>1, <1>2, <1>3, <1>4, <1>5, <1>6, <1>7, <1>8, Frame DEF Worker

\* Every step keeps Ready behind the association of the floating IP.
LEMMA ReadyNext ==
  ASSUME MaxPortLosses = 0
  PROVE  TypeInv /\ GuardInv /\ ReadyInv /\ [Next]_vars => ReadyInv'
<1> SUFFICES ASSUME TypeInv, GuardInv, ReadyInv, [Next]_vars,
                    UsesPool, obj'.exists, ~obj'.deleting, ~fip'
             PROVE  /\ ~obj'.ready /\ ~cache'.ready
                    /\ pc' # "idle" => ~base'.ready /\ ~w'.ready /\ pc' # "status"
  BY DEF ReadyInv
<1>1. obj.exists /\ ~obj.deleting
  BY ObjStep
<1>2. ~fip
  <2>1. CASE AssociateIPAddress
    BY <2>1 DEF AssociateIPAddress
  <2>2. DeletePort => FALSE
    BY <1>1 DEF DeletePort, At, GuardInv, ReadOK, Persisted, DeleteSteps
  <2>3. LosePort => FALSE
    BY DEF LosePort, TypeInv, ControlOK
  <2> QED BY <2>1, <2>2, <2>3, Frame
<1>3. ~obj.ready /\ ~cache.ready /\ (pc # "idle" => ~base.ready /\ ~w.ready /\ pc # "status")
  BY <1>1, <1>2 DEF ReadyInv
<1>4. ~obj'.ready
  BY <1>3, ObjStep
<1>5. ~cache'.ready
  BY <1>3, <1>4, Frame DEF Crash, ServerEvent, Move
<1>6. ASSUME pc' # "idle" PROVE ~base'.ready /\ ~w'.ready /\ pc' # "status"
  <2>1. CASE pc = "idle"
    BY <1>3, <1>6, <2>1, StartStep DEF FirstStep
  <2>2. CASE pc # "idle"
    <3>1. pc # "status" /\ ~base.ready /\ ~w.ready
      BY <1>3, <2>2
    <3>2. ~ReportStatus
      BY <3>1 DEF ReportStatus, At
    <3>3. ~base'.ready /\ ~w'.ready
      BY <1>6, <2>2, <3>1, <3>2, WorkFields DEF KeepsStatus
    <3>4. pc' # "status"
      <4> SUFFICES ASSUME pc' = "status" PROVE FALSE
        OBVIOUS
      <4>1. AssociateIPAddress => FALSE
        BY DEF AssociateIPAddress, At, Return
      <4> QED BY <2>2, <3>1, <4>1, OnlyAssociateReports
    <3> QED BY <3>3, <3>4
  <2> QED BY <2>1, <2>2
<1> QED BY <1>4, <1>5, <1>6

\* Ready is reported only after the floating IP from the pool was associated, whatever
\* lags, fails or crashes, for every number of ports, volumes and moves, as long as
\* nobody deletes the port that has it.
THEOREM ReadyAfterAddress ==
  ASSUME MaxPortLosses = 0
  PROVE  Spec => []ReadyHasAddress
<1>1. Init => ReadyInv
  BY DEF Init, ReadyInv, NewServer
<1>2. ReadyInv => ReadyHasAddress
  BY DEF ReadyInv, ReadyHasAddress
<1>3. TypeInv /\ GuardInv /\ ReadyInv /\ [Next]_vars => ReadyInv'
  BY ReadyNext
<1> QED BY <1>1, <1>2, <1>3, TypeInit, TypeNext, GuardInit, GuardNext, PTL DEF Spec


-----------------------------------------------------------------------------
(* A reconcile of the object as it is *)

SameStatus(o, b) ==
  KeepsStatus(o, b) /\ KeepsResolved(o, b) /\ o.hasResources = b.hasResources /\ o.ports = b.ports

\* With fresh reads, nobody but the running reconcile has changed the status since it
\* read the object, and an object with the finalizer stays.
SyncInv ==
  pc # "idle" =>
    /\ SameStatus(obj, base) /\ (base.deleting => obj.deleting)
    /\ pc # "patchStatus" => obj.finalizer = base.finalizer /\ (base.finalizer => obj.exists)
    /\ pc \notin {"patchMeta", "patchStatus"} /\ base.finalizer => w.finalizer

\* After the body of a reconcile come the two patches.
LEMMA PatchFlow ==
  ASSUME [Next]_vars, pc \in {"patchMeta", "patchStatus"}
  PROVE  \/ UNCHANGED <<pc, base, w, k, inst>>
         \/ pc' = "idle"
         \/ PatchMeta /\ pc' = "patchStatus" /\ UNCHANGED <<base, w, k, inst>>
<1>1. CASE PatchMeta \/ PatchStatus \/ Crash
  BY <1>1 DEF PatchMeta, PatchStatus, Crash, Finish
<1>2. CASE Worker /\ ~PatchMeta /\ ~PatchStatus
  BY <1>2 DEF Worker, At, Start, ResolveServerSpec, Adopt, ReconcileFloatingAddressFromPool,
     EnsurePort, GetServer, GetOrCreateVolume, CreateInstance, AssociateIPAddress,
     ReportStatus, AdoptForDelete, GetServerStatus, DeleteVolume,
     DeleteServer, PollInstanceDeleted, DeletePort, ReleaseClaim
<1> QED BY <1>1, <1>2, Frame

\* The metadata patch leaves the status alone.
LEMMA MetaFields ==
  ASSUME TypeInv
  PROVE  /\ SameStatus(PatchedMeta(obj), obj) /\ PatchedMeta(obj).deleting = obj.deleting
         /\ PatchedMeta(obj).exists => obj.exists
<1>1. obj \in ServerObj
  BY DEF TypeInv, ObjectsOK
<1>2. \/ PatchedMeta(obj) = obj \/ PatchedMeta(obj) = [obj EXCEPT !.finalizer = TRUE]
      \/ PatchedMeta(obj) = [obj EXCEPT !.finalizer = FALSE, !.exists = ~obj.deleting] /\ obj.exists
  BY DEF PatchedMeta
<1> QED BY <1>1, <1>2 DEF ServerObj, SameStatus, KeepsStatus, KeepsResolved

\* With fresh reads, every step keeps the status as the running reconcile read it.
LEMMA SyncNext ==
  ASSUME ~StaleServer
  PROVE  TypeInv /\ SyncInv /\ [Next]_vars => SyncInv'
<1> SUFFICES ASSUME TypeInv, SyncInv, [Next]_vars, pc' # "idle"
             PROVE  /\ SameStatus(obj, base)' /\ (base'.deleting => obj'.deleting)
                    /\ pc' # "patchStatus" =>
                         obj'.finalizer = base'.finalizer /\ (base'.finalizer => obj'.exists)
                    /\ pc' \notin {"patchMeta", "patchStatus"} /\ base'.finalizer => w'.finalizer
  BY DEF SyncInv
<1>0. obj \in ServerObj /\ w \in ServerObj
  BY DEF TypeInv, ObjectsOK
<1>1. CASE pc = "idle"
  <2>1. base' = obj /\ w' = obj /\ obj' = obj /\ obj.exists
    BY <1>1, StartStep DEF kube
  <2> QED BY <2>1 DEF SameStatus, KeepsStatus, KeepsResolved
<1>2. CASE pc # "idle"
  <2>0. /\ SameStatus(obj, base) /\ (base.deleting => obj.deleting)
        /\ pc # "patchStatus" => obj.finalizer = base.finalizer /\ (base.finalizer => obj.exists)
        /\ pc \notin {"patchMeta", "patchStatus"} /\ base.finalizer => w.finalizer
    BY <1>2 DEF SyncInv
  <2>1. base' = base /\ (ResolveServerSpec \/ ReleaseClaim \/ w'.finalizer = w.finalizer)
    BY <1>2, WorkFields
  <2>2. pc' \notin {"patchMeta", "patchStatus"} => pc \notin {"patchMeta", "patchStatus"}
    BY PatchFlow
  <2>3. pc' \notin {"patchMeta", "patchStatus"} /\ base'.finalizer => w'.finalizer
    <3>1. CASE ResolveServerSpec
      <4>1. PICK got \in SUBSET (deps \ w.resolved) :
              w' = [w EXCEPT !.hasResolved = TRUE, !.resolved = w.resolved \cup got,
                       !.finalizer = w.finalizer \/ w.resolved \cup got = Setters,
                       !.cond = IF w.resolved \cup got = Setters THEN w.cond ELSE "False"]
        BY <3>1 DEF ResolveServerSpec
      <4>2. w.finalizer => w'.finalizer
        BY <1>0, <4>1 DEF ServerObj
      <4> QED BY <2>0, <2>1, <2>2, <4>2
    <3>2. CASE ReleaseClaim
      BY <3>2 DEF ReleaseClaim, ReturnDelete
    <3>3. CASE w'.finalizer = w.finalizer
      BY <2>0, <2>1, <2>2, <3>3
    <3> QED BY <2>1, <3>1, <3>2, <3>3
  <2>4. CASE PatchMeta
    <3>1. pc' = "patchStatus" /\ (obj' = obj \/ obj' = PatchedMeta(obj))
      BY <2>4 DEF PatchMeta
    <3> QED BY <2>0, <2>1, <3>1, MetaFields DEF SameStatus, KeepsStatus, KeepsResolved
  <2>5. CASE DeleteObject
    <3>1. \/ obj.finalizer /\ obj' = [obj EXCEPT !.deleting = TRUE]
          \/ ~obj.finalizer /\ obj' = [obj EXCEPT !.exists = FALSE]
      BY <2>5 DEF DeleteObject
    <3>2. SameStatus(obj', obj) /\ obj'.finalizer = obj.finalizer /\ (obj.deleting => obj'.deleting)
          /\ (obj.finalizer => obj'.exists = obj.exists)
      BY <1>0, <3>1 DEF ServerObj, SameStatus, KeepsStatus, KeepsResolved
    <3>3. pc' = pc
      BY <2>5 DEF DeleteObject
    <3> QED BY <2>0, <2>1, <2>3, <3>2, <3>3 DEF SameStatus, KeepsStatus, KeepsResolved
  <2>6. CASE obj' = obj
    <3>1. pc' # "patchStatus" => pc # "patchStatus"
      BY PatchFlow
    <3> QED BY <2>0, <2>1, <2>3, <2>6, <3>1 DEF SameStatus, KeepsStatus, KeepsResolved
  <2>7. ~PatchStatus /\ ~Move
    BY <1>2 DEF PatchStatus, Finish, Move
  <2> QED BY <2>4, <2>5, <2>6, <2>7, Frame
<1> QED BY <1>1, <1>2


-----------------------------------------------------------------------------
(* Ports *)

\* A list s of port IDs, as in a status: its ports exist, and no others with the names
\* that it covers.
There(s, P) == \A i \in 1..Len(s) : \E p \in P : p.id = s[i] /\ p.idx = i
Known(s, P) == \A p \in P : p.idx <= Len(s) => p.id = s[p.idx]

PortIDsOK ==
  /\ \A p \in ports : p.id <= portIDs
  /\ \A p, q \in ports : p.id = q.id \/ p.idx = q.idx => p = q

\* What a copy of the object says of the ports is true, as far as it goes.
CopyOK(o, P) ==
  /\ Known(o.ports, P)
  /\ ~o.hasResources => o.ports = <<>>
  /\ o.hasResources => o.hasResolved /\ "ports" \in o.resolved

\* The steps after the spec has been resolved, and after ports have been adopted.
ResolvedSteps == (NormalSteps \ {"resolve"}) \cup DeleteSteps
AdoptedSteps  == (NormalSteps \ {"resolve", "adopt"}) \cup (DeleteSteps \ {"dAdopt"})

\* Ports that are in a status exist until reconcileDelete has begun to delete them, and
\* then reconcileNormal does not run again.
PortInv ==
  /\ PortIDsOK /\ Setters \ WaitSetters \subseteq deps
  /\ CopyOK(obj, ports)
  /\ obj.exists => There(obj.ports, ports) \/ (obj.deleting /\ obj.hasResources)
  /\ pc # "idle" => /\ CopyOK(w, ports)
                    /\ There(w.ports, ports) \/ (base.deleting /\ w.hasResources)
  /\ pc \in NormalSteps => There(w.ports, ports) /\ There(base.ports, ports)
  /\ pc \in ResolvedSteps => w.hasResolved /\ "ports" \in w.resolved
  /\ pc \in AdoptedSteps => w.hasResources
  /\ pc = "ports" => k <= Len(w.ports) + 1

\* However stale the copies are, a list in one names ports that exist, unless the copy
\* shows a deletion that skips reconcileNormal.
Listed(o, deleting, P) ==
  /\ ~o.hasResources => o.ports = <<>>
  /\ o.hasResources => o.hasResolved
  /\ There(o.ports, P) \/ (deleting /\ o.hasResources)

\* What a copy has of the status is not missing in the object.
Recorded(o) ==
  obj.exists => (o.hasResources => obj.hasResources) /\ (o.hasResolved => obj.hasResolved)

\* Ports go only after a read of the deletion, which the cache does not take back, and
\* nothing that was recorded is erased.
ListedInv ==
  /\ PortIDsOK
  /\ obj.exists => Listed(obj, obj.deleting, ports)
  /\ cache.exists => Listed(cache, cache.deleting, ports) /\ Recorded(cache)
  /\ pc # "idle" =>
       /\ Recorded(base) /\ (cache.exists /\ base.deleting => cache.deleting)
       /\ base.hasResources => w.hasResources
       /\ base.hasResolved => w.hasResolved
       /\ ~base.hasResources => base.ports = <<>>
       /\ Listed(w, base.deleting, ports)
  /\ pc \in NormalSteps => There(w.ports, ports)
  /\ pc \in ResolvedSteps => w.hasResolved
  /\ pc \in AdoptedSteps => w.hasResources
  /\ pc = "ports" => k <= Len(w.ports) + 1

\* How a reconcile goes on.
LEMMA StepFlow ==
  ASSUME TypeInv, [Next]_vars, pc # "idle", pc' # "idle"
  PROVE  /\ pc' \in NormalSteps => pc \in NormalSteps
         /\ pc' = "resolve" => pc = "resolve"
         /\ pc' \in ResolvedSteps => pc \in ResolvedSteps \/ ResolveServerSpec
         /\ pc' \in AdoptedSteps => pc \in AdoptedSteps \/ Adopt \/ AdoptForDelete
         /\ pc' = "ports" => \/ UNCHANGED <<pc, w, k>>
                             \/ EnsurePort
                             \/ ReconcileFloatingAddressFromPool /\ k' = 1 /\ w' = w
         /\ pc' \in DeleteSteps /\ pc \in NormalSteps => pc' = "dAdopt" /\ base.deleting
         /\ pc' \in DeleteSteps => pc \in NormalSteps \cup DeleteSteps
<1> USE DEF At, Goto, Return, ReturnDelete, Again, NormalSteps, DeleteSteps, ResolvedSteps, AdoptedSteps
<1>1. CASE Start
  BY <1>1 DEF Start
<1>2. CASE ResolveServerSpec
  BY <1>2 DEF ResolveServerSpec
<1>3. CASE Adopt \/ AdoptForDelete
  BY <1>3 DEF Adopt, AdoptForDelete, AdoptServerResources
<1>4. CASE ReconcileFloatingAddressFromPool \/ ReleaseClaim
  BY <1>4 DEF ReconcileFloatingAddressFromPool, ReleaseClaim
<1>5. CASE EnsurePort
  <2>1. pc = "ports" /\ (NextPort \/ Return("error"))
    BY <1>5 DEF EnsurePort, PortFailed
  <2>2. pc' \in {"server", "ports", "patchMeta"}
    BY <2>1 DEF NextPort
  <2> QED BY <1>5, <2>1, <2>2
<1>6. CASE GetServer
  BY <1>6 DEF GetServer
<1>7. CASE GetOrCreateVolume \/ CreateInstance
  BY <1>7 DEF GetOrCreateVolume, CreateInstance, CreateFailed
<1>8. CASE AssociateIPAddress \/ ReportStatus
  BY <1>8 DEF AssociateIPAddress, ReportStatus
<1>9. CASE GetServerStatus \/ DeleteVolume \/ DeleteServer \/ PollInstanceDeleted \/ DeletePort
  BY <1>9 DEF GetServerStatus, DeleteVolume, DeleteServer, PollInstanceDeleted, DeletePort
<1>10. CASE PatchMeta \/ PatchStatus \/ Crash
  BY <1>10 DEF PatchMeta, PatchStatus, Finish, Crash
<1>11. CASE UNCHANGED <<pc, base, w, k, inst>>
  BY <1>11
<1> QED BY <1>1, <1>2, <1>3, <1>4, <1>5, <1>6, <1>7, <1>8, <1>9, <1>10, <1>11, Frame DEF Worker

\* What a step does to the ports, if none is lost.
LEMMA PortStep ==
  ASSUME TypeInv, [Next]_vars, MaxPortLosses = 0
  PROVE  \/ UNCHANGED <<ports, portIDs>>
         \/ /\ EnsurePort /\ pc = "ports" /\ ExistingPorts(w, k) = {}
            /\ ports' = ports \cup {[id |-> portIDs + 1, idx |-> k]} /\ portIDs' = portIDs + 1
            /\ w' = RecordPort(w, k, portIDs + 1) \/ w' = [w EXCEPT !.cond = "False"]
         \/ pc = "dPorts" /\ ports' \subseteq ports /\ portIDs' = portIDs /\ w' = w
<1>1. CASE EnsurePort
  BY <1>1 DEF EnsurePort, At, NewPort, PortFailed
<1>2. CASE DeletePort
  BY <1>2 DEF DeletePort, At
<1>3. LosePort => FALSE
  BY ConstantsAssumption DEF LosePort, TypeInv, ControlOK
<1> QED BY <1>1, <1>2, <1>3, Frame

\* Resolving the spec without an error resolves the ports.
LEMMA PortsResolved ==
  ASSUME TypeInv, PortInv, ResolveServerSpec, pc' # "patchMeta"
  PROVE  w'.hasResolved /\ "ports" \in w'.resolved
<1>0. w \in ServerObj /\ "ports" \in deps
  BY ConstantsAssumption DEF TypeInv, ObjectsOK, PortInv
<1>1. PICK got \in SUBSET (deps \ w.resolved) :
        /\ w' = [w EXCEPT !.hasResolved = TRUE, !.resolved = w.resolved \cup got,
                 !.finalizer = w.finalizer \/ w.resolved \cup got = Setters,
                 !.cond = IF w.resolved \cup got = Setters THEN w.cond ELSE "False"]
        /\ got # deps \ w.resolved => Return("error")
  BY DEF ResolveServerSpec
<1>2. got = deps \ w.resolved
  BY <1>1 DEF Return
<1> QED BY <1>0, <1>1, <1>2 DEF ServerObj


\* A port is appended to the list when it is the one with the next name.
LEMMA AppendPort ==
  ASSUME NEW P \in SUBSET Port, NEW s \in Seq(1..MaxPortID), There(s, P), Known(s, P),
         NEW p \in P, p.idx = Len(s) + 1, \A q \in P : q.idx = p.idx => q = p
  PROVE  There(Append(s, p.id), P) /\ Known(Append(s, p.id), P)
<1> DEFINE t == Append(s, p.id)
<1>1. /\ Len(s) \in Nat /\ Len(t) = Len(s) + 1 /\ t[Len(s) + 1] = p.id
      /\ \A i \in 1..Len(s) : t[i] = s[i]
  BY ConstantsAssumption, AppendProperties DEF Port
<1> HIDE DEF t
<1>2. ASSUME NEW i \in 1..Len(t) PROVE \E q \in P : q.id = t[i] /\ q.idx = i
  BY <1>1 DEF There
<1>3. ASSUME NEW q \in P, q.idx <= Len(t) PROVE q.id = t[q.idx]
  <2>1. q.idx \in 1..NPorts
    BY DEF Port
  <2>2. CASE q.idx = Len(s) + 1
    BY <1>1, <2>2
  <2>3. CASE q.idx # Len(s) + 1
    <3>1. q.idx <= Len(s) /\ q.idx \in 1..Len(s)
      BY <1>1, <1>3, <2>1, <2>3, ConstantsAssumption
    <3> QED BY <1>1, <3>1 DEF Known
  <2> QED BY <2>2, <2>3
<1>4. There(t, P) /\ Known(t, P)
  BY <1>2, <1>3 DEF There, Known
<1> QED BY <1>4 DEF t

\* What is said of the ports stays true when a port with a name is created that
\* had none.
LEMMA NewPortKept ==
  ASSUME NEW P \in SUBSET Port, NEW s \in Seq(1..MaxPortID), There(s, P), Known(s, P),
         NEW p, \A q \in P : q.idx # p.idx, p.idx \in 1..NPorts
  PROVE  There(s, P \cup {p}) /\ Known(s, P \cup {p})
<1>1. There(s, P \cup {p})
  BY DEF There
<1>2. ~(p.idx <= Len(s))
  <2>1. Len(s) \in Nat
    OBVIOUS
  <2> QED BY <2>1, ConstantsAssumption DEF There
<1> QED BY <1>1, <1>2 DEF Known

\* The list of ports in the working copy.
LEMMA WorkList ==
  ASSUME TypeInv
  PROVE  /\ w.ports \in Seq(1..MaxPortID) /\ base.ports \in Seq(1..MaxPortID)
         /\ obj.ports \in Seq(1..MaxPortID)
         /\ Len(w.ports) \in Nat /\ ports \in SUBSET Port /\ portIDs \in Nat /\ k \in Nat
         /\ NPorts \in Nat
BY ConstantsAssumption DEF TypeInv, ObjectsOK, ServerObj, CloudOK, ControlOK, Port

\* If every name has one port, a list of ports that exist names them all.
LEMMA ThereKnown ==
  ASSUME PortIDsOK, ports \in SUBSET Port, NEW s \in Seq(1..MaxPortID), There(s, ports)
  PROVE  Known(s, ports)
<1> SUFFICES ASSUME NEW p \in ports, p.idx <= Len(s) PROVE p.id = s[p.idx]
  BY DEF Known
<1>1. p.idx \in 1..Len(s)
  BY ConstantsAssumption DEF Port
<1>2. PICK q \in ports : q.id = s[p.idx] /\ q.idx = p.idx
  BY <1>1 DEF There
<1> QED BY <1>2 DEF PortIDsOK

\* EnsurePort creates a port only if there is none with the name.
LEMMA NewPortName ==
  ASSUME TypeInv, There(w.ports, ports), k <= Len(w.ports) + 1, pc = "ports",
         ExistingPorts(w, k) = {}
  PROVE  /\ k = Len(w.ports) + 1 /\ \A q \in ports : q.idx # k
         /\ k \in 1..NPorts
<1>2. k \in 1..NPorts
  BY WorkList DEF TypeInv, LoopOK, ControlOK
<1>3. ~(k <= Len(w.ports))
  <2> SUFFICES ASSUME k <= Len(w.ports) PROVE FALSE
    OBVIOUS
  <2>1. k \in 1..Len(w.ports)
    BY <1>2, WorkList
  <2>2. PICK p \in ports : p.id = w.ports[k]
    BY <2>1 DEF There
  <2> QED BY <2>2 DEF ExistingPorts
<1>4. k = Len(w.ports) + 1
  BY <1>3, WorkList
<1>5. Named(k) = {}
  BY <1>3 DEF ExistingPorts
<1> QED BY <1>2, <1>4, <1>5 DEF Named

\* EnsurePorts keeps the list in step with the ports.
LEMMA EnsureStep ==
  ASSUME TypeInv, PortIDsOK, There(w.ports, ports), k <= Len(w.ports) + 1, EnsurePort
  PROVE  /\ There(w'.ports, ports') /\ Known(w'.ports, ports') /\ PortIDsOK'
         /\ pc' = "ports" => k' <= Len(w'.ports) + 1
         /\ w'.hasResources = w.hasResources /\ KeepsResolved(w', w)
<1>0. /\ pc = "ports" /\ There(w.ports, ports) /\ Known(w.ports, ports) /\ PortIDsOK
      /\ k <= Len(w.ports) + 1 /\ w \in ServerObj
  BY ThereKnown, WorkList DEF EnsurePort, At, TypeInv, ObjectsOK
<1>1. ASSUME w' = [w EXCEPT !.cond = "False"], Return("error"), UNCHANGED <<ports, portIDs>>
      PROVE  /\ There(w'.ports, ports') /\ Known(w'.ports, ports') /\ PortIDsOK'
             /\ pc' = "ports" => k' <= Len(w'.ports) + 1
             /\ w'.hasResources = w.hasResources /\ KeepsResolved(w', w)
  BY <1>0, <1>1 DEF Return, ServerObj, PortIDsOK, KeepsResolved
<1>2. ASSUME NEW p, w' = RecordPort(w, k, p.id), p.idx = k \/ k <= Len(w.ports), p \in ports',
             NextPort, ports' \in SUBSET Port,
             There(w.ports, ports'), Known(w.ports, ports'), PortIDsOK'
      PROVE  /\ There(w'.ports, ports') /\ Known(w'.ports, ports')
             /\ pc' = "ports" => k' <= Len(w'.ports) + 1
             /\ w'.hasResources = w.hasResources /\ KeepsResolved(w', w)
  <2>1. pc' = "ports" => k' = k + 1
    BY <1>2 DEF NextPort, Goto, Again
  <2>2. CASE k <= Len(w.ports)
    <3>1. w' = w
      BY <1>2, <2>2 DEF RecordPort
    <3> QED BY <1>2, <2>1, <2>2, <3>1, WorkList DEF KeepsResolved
  <2>3. CASE ~(k <= Len(w.ports))
    <3>1. k = Len(w.ports) + 1 /\ p.idx = k
      <4>1. k = Len(w.ports) + 1
        <5>1. k <= Len(w.ports) + 1
          BY <1>0
        <5>2. k \in Nat /\ Len(w.ports) \in Nat
          BY WorkList
        <5> QED BY <2>3, <5>1, <5>2
      <4>2. p.idx = k
        BY <1>2, <2>3, Zenon
      <4> QED BY <4>1, <4>2
    <3>2. w' = [w EXCEPT !.ports = Append(w.ports, p.id)]
      BY <1>2, <2>3 DEF RecordPort
    <3>3. w'.ports = Append(w.ports, p.id) /\ w'.hasResources = w.hasResources /\ KeepsResolved(w', w)
      BY <1>0, <3>2 DEF ServerObj, KeepsResolved
    <3>4. There(w'.ports, ports') /\ Known(w'.ports, ports')
      <4>1. \A q \in ports' : q.idx = p.idx => q = p
        BY <1>2 DEF PortIDsOK
      <4>2. p \in ports' /\ p.idx = Len(w.ports) + 1
        BY <1>2, <3>1
      <4>3. There(Append(w.ports, p.id), ports') /\ Known(Append(w.ports, p.id), ports')
        BY <1>2, <4>1, <4>2, AppendPort, WorkList
      <4> QED BY <3>3, <4>3
    <3>5. Len(w'.ports) = Len(w.ports) + 1
      <4>1. p.id \in 1..MaxPortID
        BY <1>2 DEF Port
      <4> QED BY <3>3, <4>1, WorkList, AppendProperties
    <3> QED BY <2>1, <3>1, <3>3, <3>4, <3>5, WorkList
  <2> QED BY <2>2, <2>3
<1>3. ASSUME NEW p \in ExistingPorts(w, k), ExistingPorts(w, k) = {p}, NextPort,
             w' = RecordPort(w, k, p.id), UNCHANGED <<ports, portIDs>>
      PROVE  /\ There(w'.ports, ports') /\ Known(w'.ports, ports') /\ PortIDsOK'
             /\ pc' = "ports" => k' <= Len(w'.ports) + 1
             /\ w'.hasResources = w.hasResources /\ KeepsResolved(w', w)
  <2>1. p \in ports /\ (p.idx = k \/ k <= Len(w.ports))
    BY <1>3 DEF ExistingPorts, Named
  <2>2. PortIDsOK'
    BY <1>0, <1>3 DEF PortIDsOK
  <2> QED BY <1>0, <1>2, <1>3, <2>1, <2>2, WorkList
<1>4. ASSUME ExistingPorts(w, k) = {}, NewPort
      PROVE  /\ There(w.ports, ports') /\ Known(w.ports, ports') /\ PortIDsOK'
             /\ ports' \in SUBSET Port /\ k = Len(w.ports) + 1
             /\ [id |-> portIDs + 1, idx |-> k] \in ports'
  <2> DEFINE p == [id |-> portIDs + 1, idx |-> k]
  <2>1. k = Len(w.ports) + 1 /\ (\A q \in ports : q.idx # k) /\ k \in 1..NPorts
    BY <1>0, <1>4, NewPortName
  <2>2. ports' = ports \cup {p} /\ portIDs' = portIDs + 1 /\ p \in Port
    BY <1>4, <2>1, WorkList, ConstantsAssumption DEF NewPort, Port
  <2>3. There(w.ports, ports') /\ Known(w.ports, ports')
    BY <1>0, <2>1, <2>2, WorkList, NewPortKept
  <2>4. PortIDsOK'
    <3>1. \A q \in ports : q.id <= portIDs /\ q.id \in Nat
      BY <1>0, WorkList, ConstantsAssumption DEF PortIDsOK, Port
    <3> QED BY <1>0, <2>1, <2>2, <3>1, WorkList DEF PortIDsOK
  <2> QED BY <2>1, <2>2, <2>3, <2>4, WorkList
<1>5. ASSUME ExistingPorts(w, k) = {}, NewPort, PortFailed
      PROVE  /\ There(w'.ports, ports') /\ Known(w'.ports, ports')
             /\ pc' = "ports" => k' <= Len(w'.ports) + 1
             /\ w'.hasResources = w.hasResources /\ KeepsResolved(w', w)
  BY <1>0, <1>4, <1>5 DEF PortFailed, Return, ServerObj, KeepsResolved
<1>6. ASSUME ExistingPorts(w, k) = {}, NewPort, NextPort, w' = RecordPort(w, k, portIDs + 1)
      PROVE  /\ There(w'.ports, ports') /\ Known(w'.ports, ports')
             /\ pc' = "ports" => k' <= Len(w'.ports) + 1
             /\ w'.hasResources = w.hasResources /\ KeepsResolved(w', w)
  <2> DEFINE p == [id |-> portIDs + 1, idx |-> k]
  <2>1. p.id = portIDs + 1 /\ p.idx = k
    OBVIOUS
  <2>2. p \in ports'
    BY <1>4, <1>6
  <2> HIDE DEF p
  <2> QED BY <1>2, <1>4, <1>6, <2>1, <2>2
<1>7. \/ PortFailed /\ UNCHANGED <<ports, portIDs>>
      \/ \E p \in ExistingPorts(w, k) : /\ ExistingPorts(w, k) = {p} /\ NextPort
                                        /\ w' = RecordPort(w, k, p.id) /\ UNCHANGED <<ports, portIDs>>
      \/ /\ ExistingPorts(w, k) = {} /\ NewPort
         /\ (NextPort /\ w' = RecordPort(w, k, portIDs + 1)) \/ PortFailed
  BY DEF EnsurePort
<1> QED BY <1>1, <1>3, <1>4, <1>5, <1>6, <1>7 DEF PortFailed


\* Adoption adds the ports it finds by name to the list.
LEMMA AdoptedPorts ==
  ASSUME TypeInv, NEW m \in Len(w.ports)..NPorts, AdoptionReach(w, m), NEW n \in Len(w.ports)..m,
         Known(w.ports, ports)
  PROVE  /\ Known(Adopted(w, n), ports) /\ Len(Adopted(w, n)) = n
         /\ There(w.ports, ports) => There(Adopted(w, n), ports)
<1>0. Len(w.ports) \in Nat /\ n \in Nat /\ m \in Nat /\ n <= m /\ ports \in SUBSET Port /\ NPorts \in Nat
  BY WorkList
<1>1. Len(Adopted(w, n)) = n
  BY <1>0 DEF Adopted
<1>2. ASSUME NEW i \in 1..n, ~(i <= Len(w.ports))
      PROVE  \E p \in ports : p.idx = i /\ Named(i) = {p} /\ Adopted(w, n)[i] = p.id
  <2>1. i \in Len(w.ports) + 1 .. m
    BY <1>0, <1>2
  <2>2. PICK p \in Named(i) : Named(i) = {p}
    BY <2>1 DEF AdoptionReach, Single
  <2>3. (CHOOSE q \in Named(i) : TRUE) = p
    BY <2>2
  <2>4. Adopted(w, n)[i] = p.id
    BY <1>2, <2>3 DEF Adopted
  <2> QED BY <2>2, <2>4 DEF Named
<1>3. ASSUME NEW i \in 1..n, i <= Len(w.ports)
      PROVE  Adopted(w, n)[i] = w.ports[i] /\ i \in 1..Len(w.ports)
  BY <1>0, <1>3 DEF Adopted
<1>4. ASSUME NEW p \in ports, p.idx <= n PROVE p.id = Adopted(w, n)[p.idx]
  <2>1. p.idx \in 1..n
    BY <1>0, <1>4 DEF Port
  <2>2. CASE p.idx <= Len(w.ports)
    BY <1>3, <2>1, <2>2 DEF Known
  <2>3. CASE ~(p.idx <= Len(w.ports))
    <3>1. PICK q \in ports : Named(p.idx) = {q} /\ Adopted(w, n)[p.idx] = q.id
      BY <1>2, <2>1, <2>3
    <3>2. p \in Named(p.idx)
      BY DEF Named
    <3> QED BY <3>1, <3>2
  <2> QED BY <2>2, <2>3
<1>5. ASSUME There(w.ports, ports), NEW i \in 1..n
      PROVE  \E p \in ports : p.id = Adopted(w, n)[i] /\ p.idx = i
  BY <1>2, <1>3, <1>5 DEF There
<1> QED BY <1>1, <1>4, <1>5 DEF Known, There

\* Adoption adds ports that exist and forgets none.
LEMMA AdoptStep ==
  ASSUME TypeInv, Adopt \/ AdoptForDelete, Known(w.ports, ports)
  PROVE  /\ w'.hasResources /\ KeepsResolved(w', w) /\ KeepsStatus(w', w)
         /\ Known(w'.ports, ports) /\ (There(w.ports, ports) => There(w'.ports, ports))
         /\ UNCHANGED <<ports, portIDs>>
<1>0. w \in ServerObj /\ UNCHANGED <<ports, portIDs>> /\ Len(w.ports) \in Nat /\ NPorts \in Nat
  BY WorkList DEF TypeInv, ObjectsOK, Adopt, AdoptForDelete, cloud
<1>1. \/ w' = [w EXCEPT !.hasResources = TRUE]
      \/ \E m \in Len(w.ports)..NPorts : \E n \in Len(w.ports)..m :
           /\ AdoptionReach(w, m)
           /\ w' = [w EXCEPT !.hasResources = TRUE, !.ports = Adopted(w, n)]
  <2>1. \A m \in Len(w.ports)..NPorts : m \in Len(w.ports)..m
    BY <1>0
  <2> QED BY <2>1 DEF Adopt, AdoptForDelete, AdoptServerResources
<1>2. CASE w' = [w EXCEPT !.hasResources = TRUE]
  BY <1>0, <1>2 DEF ServerObj, KeepsResolved, KeepsStatus
<1>3. ASSUME NEW m \in Len(w.ports)..NPorts, NEW n \in Len(w.ports)..m, AdoptionReach(w, m),
             w' = [w EXCEPT !.hasResources = TRUE, !.ports = Adopted(w, n)]
      PROVE  /\ w'.hasResources /\ KeepsResolved(w', w) /\ KeepsStatus(w', w)
             /\ Known(w'.ports, ports) /\ (There(w.ports, ports) => There(w'.ports, ports))
  <2>1. w'.hasResources /\ KeepsResolved(w', w) /\ KeepsStatus(w', w) /\ w'.ports = Adopted(w, n)
    BY <1>0, <1>3 DEF ServerObj, KeepsResolved, KeepsStatus
  <2> QED BY <1>3, <2>1, AdoptedPorts
<1> QED BY <1>0, <1>1, <1>2, <1>3

\* The status patch writes the ports of the working copy.
LEMMA StatusFields ==
  ASSUME TypeInv, SyncInv, pc # "idle"
  PROVE  /\ PatchedStatus(obj).ports = w.ports
         /\ PatchedStatus(obj).hasResources = w.hasResources
         /\ PatchedStatus(obj).hasResolved = w.hasResolved
         /\ w.resolved \subseteq PatchedStatus(obj).resolved
         /\ KeepsStatus(PatchedStatus(obj), w)
         /\ PatchedStatus(obj).exists = obj.exists /\ PatchedStatus(obj).deleting = obj.deleting
         /\ PatchedStatus(obj).finalizer = obj.finalizer
<1>1. obj \in ServerObj /\ SameStatus(obj, base)
  BY DEF TypeInv, ObjectsOK, SyncInv
<1>2. /\ PatchedStatus(obj).ports = w.ports
      /\ PatchedStatus(obj).hasResources = w.hasResources
      /\ PatchedStatus(obj).hasResolved = w.hasResolved
  BY <1>1 DEF PatchedStatus, ServerObj, SameStatus, KeepsResolved
<1>3. w.resolved \subseteq PatchedStatus(obj).resolved
  BY <1>1 DEF PatchedStatus, ServerObj, SameStatus, KeepsResolved
<1>4. KeepsStatus(PatchedStatus(obj), w)
  BY <1>1 DEF PatchedStatus, ServerObj, SameStatus, KeepsStatus
<1>5. /\ PatchedStatus(obj).exists = obj.exists /\ PatchedStatus(obj).deleting = obj.deleting
      /\ PatchedStatus(obj).finalizer = obj.finalizer
  BY <1>1 DEF PatchedStatus, ServerObj
<1> QED BY <1>2, <1>3, <1>4, <1>5


\* A list of ports that holds before a step holds after it, until ports are deleted.
LEMMA ListsKept ==
  ASSUME TypeInv, PortInv, [Next]_vars, MaxPortLosses = 0,
         NEW s \in Seq(1..MaxPortID), Known(s, ports), pc = "ports" => There(s, ports)
  PROVE  Known(s, ports') /\ (There(s, ports) => There(s, ports') \/ pc = "dPorts")
<1>1. CASE UNCHANGED <<ports, portIDs>>
  BY <1>1
<1>2. CASE /\ pc = "ports" /\ ExistingPorts(w, k) = {}
           /\ ports' = ports \cup {[id |-> portIDs + 1, idx |-> k]}
  <2> DEFINE p == [id |-> portIDs + 1, idx |-> k]
  <2>1. (\A q \in ports : q.idx # p.idx) /\ p.idx \in 1..NPorts
    BY <1>2, NewPortName DEF PortInv, NormalSteps
  <2>2. ports \in SUBSET Port /\ There(s, ports) /\ ports' = ports \cup {p}
    BY <1>2, WorkList
  <2> HIDE DEF p
  <2> QED BY <2>1, <2>2, NewPortKept
<1>3. CASE pc = "dPorts" /\ ports' \subseteq ports
  BY <1>3 DEF Known
<1> QED BY <1>1, <1>2, <1>3, PortStep

\* What the object says of its ports stays true.
LEMMA ObjPorts ==
  ASSUME ~StaleServer, MaxPortLosses = 0, TypeInv, GuardInv, SyncInv, PortInv, [Next]_vars
  PROVE  /\ CopyOK(obj', ports')
         /\ obj'.exists => There(obj'.ports, ports') \/ (obj'.deleting /\ obj'.hasResources)
<1>0. obj \in ServerObj /\ obj.ports \in Seq(1..MaxPortID)
  BY WorkList DEF TypeInv, ObjectsOK
<1>1. /\ CopyOK(obj, ports) /\ Known(obj.ports, ports)
      /\ obj.exists => There(obj.ports, ports) \/ (obj.deleting /\ obj.hasResources)
  BY DEF PortInv, CopyOK
<1>2. pc = "ports" => There(obj.ports, ports)
  BY DEF PortInv, SyncInv, SameStatus, NormalSteps
<1>3. Known(obj.ports, ports') /\ (There(obj.ports, ports) => There(obj.ports, ports') \/ pc = "dPorts")
  BY <1>0, <1>1, <1>2, ListsKept
<1>4. ASSUME SameStatus(obj', obj), obj'.exists => obj.exists, obj.deleting => obj'.deleting
      PROVE  /\ CopyOK(obj', ports')
             /\ obj'.exists => There(obj'.ports, ports') \/ (obj'.deleting /\ obj'.hasResources)
  <2>1. CopyOK(obj', ports')
    BY <1>1, <1>3, <1>4 DEF CopyOK, SameStatus, KeepsResolved
  <2>2. pc = "dPorts" => obj.deleting
    BY DEF SyncInv, GuardInv, ReadOK, DeleteSteps
  <2>3. ~obj.hasResources => There(obj.ports, ports')
    BY <1>1 DEF CopyOK, There
  <2> QED BY <1>1, <1>3, <1>4, <2>1, <2>2, <2>3 DEF SameStatus
<1>5. CASE PatchMeta
  BY <1>4, <1>5, MetaFields DEF PatchMeta, SameStatus, KeepsStatus, KeepsResolved
<1>6. CASE PatchStatus /\ obj' # obj
  <2>1. obj' = PatchedStatus(obj) /\ obj.exists /\ pc = "patchStatus" /\ UNCHANGED <<ports, portIDs>>
    BY <1>6 DEF PatchStatus, cloud
  <2>2. /\ CopyOK(w, ports)
        /\ There(w.ports, ports) \/ (base.deleting /\ w.hasResources)
        /\ base.deleting => obj.deleting
    BY <2>1 DEF PortInv, SyncInv
  <2>3. /\ obj'.ports = w.ports /\ obj'.hasResources = w.hasResources
        /\ obj'.hasResolved = w.hasResolved /\ w.resolved \subseteq obj'.resolved
        /\ obj'.deleting = obj.deleting
    BY <2>1, StatusFields
  <2> QED BY <2>1, <2>2, <2>3 DEF CopyOK
<1>7. CASE DeleteObject
  <2>1. obj' = [obj EXCEPT !.deleting = TRUE] \/ obj' = [obj EXCEPT !.exists = FALSE]
    BY <1>7 DEF DeleteObject
  <2>2. SameStatus(obj', obj) /\ (obj.deleting => obj'.deleting) /\ (obj'.exists => obj.exists)
    BY <1>0, <2>1 DEF ServerObj, SameStatus, KeepsStatus, KeepsResolved
  <2> QED BY <1>4, <2>2
<1>8. CASE Move
  <2>1. obj'.ports = <<>> /\ ~obj'.hasResources
    BY <1>8 DEF Move, NewServer
  <2>2. Known(obj'.ports, ports')
    BY <1>8, <2>1, WorkList, ConstantsAssumption DEF Move, cloud, Known, Port
  <2> QED BY <2>1, <2>2 DEF CopyOK, There
<1>9. CASE obj' = obj
  BY <1>4, <1>9 DEF SameStatus, KeepsStatus, KeepsResolved
<1> QED BY <1>5, <1>6, <1>7, <1>8, <1>9, Frame

\* Where adoption goes on to.
LEMMA AdoptFlow ==
  ASSUME Adopt \/ AdoptForDelete
  PROVE  \/ pc = "adopt" /\ pc' \in {"claim", "dAdopt", "patchMeta"}
         \/ pc = "dAdopt" /\ pc' \in {"dGet", "patchMeta"}
<1>1. CASE Adopt
  <2>1. pc = "adopt" /\ (Goto("claim") \/ Return("error"))
    BY <1>1, Zenon DEF Adopt, AdoptServerResources, At
  <2> QED BY <2>1 DEF Goto, Return
<1>2. CASE AdoptForDelete
  <2>1. pc = "dAdopt" /\ (Goto("dGet") \/ Return("error"))
    BY <1>2, Zenon DEF AdoptForDelete, AdoptServerResources, At
  <2> QED BY <2>1 DEF Goto, Return
<1> QED BY <1>1, <1>2

\* So does what the working copy says.
LEMMA WorkPorts ==
  ASSUME ~StaleServer, MaxPortLosses = 0, TypeInv, GuardInv, SyncInv, PortInv, [Next]_vars,
         pc' # "idle"
  PROVE  /\ CopyOK(w', ports')
         /\ There(w'.ports, ports') \/ (base'.deleting /\ w'.hasResources)
         /\ pc' \in NormalSteps => There(w'.ports, ports') /\ There(base'.ports, ports')
         /\ pc' \in ResolvedSteps => w'.hasResolved /\ "ports" \in w'.resolved
         /\ pc' \in AdoptedSteps => w'.hasResources
         /\ pc' = "ports" => k' <= Len(w'.ports) + 1
<1> USE DEF NormalSteps, DeleteSteps, ResolvedSteps, AdoptedSteps
<1>0. /\ w \in ServerObj /\ w.ports \in Seq(1..MaxPortID) /\ base.ports \in Seq(1..MaxPortID)
      /\ w'.ports \in Seq(1..MaxPortID)
  BY WorkList, TypeNext DEF TypeInv, ObjectsOK, ServerObj
<1>1. CASE pc = "idle"
  <2>1. /\ w' = obj /\ base' = obj /\ obj.exists /\ UNCHANGED <<ports, portIDs>>
        /\ pc' \in {FirstStep(obj), "patchMeta"}
    BY <1>1, StartStep DEF cloud
  <2>2. /\ CopyOK(obj, ports)
        /\ There(obj.ports, ports) \/ (obj.deleting /\ obj.hasResources)
    BY <2>1 DEF PortInv
  <2> QED BY <2>1, <2>2 DEF FirstStep, CopyOK
<1>2. CASE pc # "idle"
  <2>0. /\ CopyOK(w, ports) /\ Known(w.ports, ports)
        /\ There(w.ports, ports) \/ (base.deleting /\ w.hasResources)
        /\ pc \in NormalSteps => There(w.ports, ports) /\ There(base.ports, ports)
        /\ pc \in ResolvedSteps => w.hasResolved /\ "ports" \in w.resolved
        /\ pc \in AdoptedSteps => w.hasResources
        /\ pc = "ports" => k <= Len(w.ports) + 1
        /\ Known(base.ports, ports) /\ base' = base
    BY <1>2, WorkFields DEF PortInv, CopyOK, SyncInv, SameStatus
  <2>1. Known(w.ports, ports') /\ (There(w.ports, ports) => There(w.ports, ports') \/ pc = "dPorts")
    BY <1>0, <2>0, ListsKept
  <2>2. pc' \in NormalSteps => There(base'.ports, ports')
    <3>1. Known(base.ports, ports') /\ (There(base.ports, ports) => There(base.ports, ports') \/ pc = "dPorts")
      BY <1>0, <2>0, ListsKept
    <3> QED BY <1>2, <2>0, <3>1, StepFlow
  <2>3. CASE EnsurePort
    <3>1. pc = "ports"
      BY <2>3 DEF EnsurePort, At
    <3>2. PortIDsOK
      BY DEF PortInv
    <3> QED BY <2>0, <2>2, <2>3, <3>1, <3>2, EnsureStep DEF CopyOK, KeepsResolved
  <2>4. CASE Adopt \/ AdoptForDelete
    <3>1. /\ w'.hasResources /\ KeepsResolved(w', w) /\ UNCHANGED <<ports, portIDs>>
          /\ Known(w'.ports, ports) /\ (There(w.ports, ports) => There(w'.ports, ports))
      BY <2>0, <2>4, AdoptStep
    <3>2. pc \in {"adopt", "dAdopt"} /\ (pc = "dAdopt" => pc' \notin NormalSteps) /\ pc' # "ports"
      BY <2>4, AdoptFlow
    <3> QED BY <2>0, <2>2, <3>1, <3>2 DEF CopyOK, KeepsResolved
  <2>5. CASE ResolveServerSpec
    <3>1. pc = "resolve"
      BY <2>5 DEF ResolveServerSpec, At
    <3>2. w'.ports = w.ports /\ w'.hasResources = w.hasResources
      BY <1>2, <3>1, WorkFields DEF Adopt, AdoptForDelete, EnsurePort, At
    <3>3. w'.hasResolved /\ w.resolved \subseteq w'.resolved
      BY <1>0, <2>5 DEF ResolveServerSpec, ServerObj
    <3>4. pc' \in ResolvedSteps => "ports" \in w'.resolved
      BY <2>5, PortsResolved
    <3>5. pc' \notin AdoptedSteps \/ pc' = "dAdopt"
      BY <1>2, <3>1, StepFlow DEF Adopt, AdoptForDelete, At
    <3> QED BY <2>0, <2>1, <2>2, <3>1, <3>2, <3>3, <3>4, <3>5 DEF CopyOK
  <2>6. CASE ~EnsurePort /\ ~Adopt /\ ~AdoptForDelete /\ ~ResolveServerSpec
    <3>1. w'.ports = w.ports /\ w'.hasResources = w.hasResources /\ KeepsResolved(w', w)
      BY <1>2, <2>6, WorkFields
    <3>2. There(w'.ports, ports') \/ (base'.deleting /\ w'.hasResources)
      <4>1. pc = "dPorts" => base.deleting /\ w.hasResources
        BY <2>0 DEF GuardInv, ReadOK
      <4> QED BY <2>0, <2>1, <3>1, <4>1
    <3>3. pc' \in NormalSteps => There(w'.ports, ports')
      BY <1>2, <2>0, <2>1, <3>1, StepFlow
    <3>4. pc' \in ResolvedSteps => w'.hasResolved /\ "ports" \in w'.resolved
      BY <1>2, <2>0, <2>6, <3>1, StepFlow DEF KeepsResolved
    <3>5. pc' \in AdoptedSteps => w'.hasResources
      BY <1>2, <2>0, <2>6, <3>1, StepFlow
    <3>6. pc' = "ports" => k' <= Len(w'.ports) + 1
      <4>1. Len(w'.ports) \in Nat
        BY <1>0
      <4> QED BY <1>2, <2>0, <2>6, <3>1, <4>1, StepFlow
    <3> QED BY <2>0, <2>1, <2>2, <3>1, <3>2, <3>3, <3>4, <3>5, <3>6 DEF CopyOK, KeepsResolved
  <2> QED BY <2>3, <2>4, <2>5, <2>6
<1> QED BY <1>1, <1>2

\* Every step keeps what the copies of the object say of the ports true.
LEMMA PortNext ==
  ASSUME ~StaleServer, MaxPortLosses = 0
  PROVE  TypeInv /\ GuardInv /\ SyncInv /\ PortInv /\ [Next]_vars => PortInv'
<1> SUFFICES ASSUME TypeInv, GuardInv, SyncInv, PortInv, [Next]_vars PROVE PortInv'
  OBVIOUS
<1>1. PortIDsOK'
  <2>1. CASE UNCHANGED <<ports, portIDs>>
    BY <2>1 DEF PortInv, PortIDsOK
  <2>2. CASE EnsurePort
    BY <2>2, EnsureStep DEF PortInv, EnsurePort, At, NormalSteps
  <2>3. CASE ports' \subseteq ports /\ portIDs' = portIDs
    BY <2>3 DEF PortInv, PortIDsOK
  <2> QED BY <2>1, <2>2, <2>3, PortStep
<1>2. (Setters \ WaitSetters \subseteq deps)'
  <2>1. deps' = deps \/ DependencyEvent
    BY Zenon DEF Next, Worker, Watches, World, vars, env, At, Start,
     ResolveServerSpec, Adopt, ReconcileFloatingAddressFromPool, EnsurePort,
     GetServer, GetOrCreateVolume, CreateInstance, AssociateIPAddress,
     ReportStatus, AdoptForDelete, GetServerStatus, DeleteVolume,
     DeleteServer, PollInstanceDeleted, DeletePort, ReleaseClaim, PatchMeta,
     PatchStatus, Crash, ServerEvent, ClaimEvent, Resync,
     DeleteObject, Move, PoolAllocates, CollectClaim, NovaFinishes,
     NovaToggles, LoseInstance, LosePort
  <2> QED BY <2>1 DEF DependencyEvent, PortInv
<1>3. (pc \in NormalSteps \/ pc \in ResolvedSteps \/ pc \in AdoptedSteps \/ pc = "ports" => pc # "idle")'
  BY DEF NormalSteps, DeleteSteps, ResolvedSteps, AdoptedSteps
<1>4. CopyOK(w, ports)' <=> CopyOK(w', ports')
  BY DEF CopyOK, Known
<1>5. CopyOK(obj, ports)' <=> CopyOK(obj', ports')
  BY DEF CopyOK, Known
<1> QED BY <1>1, <1>2, <1>3, <1>4, <1>5, ObjPorts, WorkPorts DEF PortInv, There

\* A list keeps naming ports that exist, until ports are deleted.
LEMMA ThereKept ==
  ASSUME TypeInv, [Next]_vars, MaxPortLosses = 0, NEW s, There(s, ports)
  PROVE  There(s, ports') \/ pc = "dPorts"
BY PortStep DEF There

\* A copy of the object that a step leaves alone stays true.
LEMMA ListedKept ==
  ASSUME TypeInv, [Next]_vars, MaxPortLosses = 0, NEW o, NEW d, Listed(o, d, ports), pc = "dPorts" => d
  PROVE  Listed(o, d, ports')
<1>1. CASE There(o.ports, ports) /\ pc = "dPorts"
  <2>1. o.ports = <<>> => There(o.ports, ports')
    BY DEF There
  <2> QED BY <1>1, <2>1 DEF Listed
<1>2. CASE There(o.ports, ports) /\ pc # "dPorts"
  BY <1>2, ThereKept DEF Listed
<1> QED BY <1>1, <1>2 DEF Listed

\* The object after a step: what was recorded stays so, and its list stays true.
LEMMA ObjListed ==
  ASSUME TypeInv, GuardInv, ListedInv, [Next]_vars, MaxPortLosses = 0, obj'.exists
  PROVE  /\ Listed(obj', obj'.deleting, ports')
         /\ Move \/ /\ obj.exists /\ (obj.deleting => obj'.deleting)
                    /\ obj.hasResources => obj'.hasResources
                    /\ obj.hasResolved => obj'.hasResolved
<1>0. obj \in ServerObj
  BY DEF TypeInv, ObjectsOK
<1>1. ASSUME SameStatus(obj', obj), obj.exists, obj.deleting => obj'.deleting
      PROVE  Listed(obj', obj'.deleting, ports')
  <2>1. pc = "dPorts" => obj.deleting
    BY <1>1 DEF GuardInv, ReadOK, Persisted, DeleteSteps
  <2>2. Listed(obj, obj.deleting, ports')
    BY <1>1, <2>1, ListedKept DEF ListedInv
  <2> QED BY <1>1, <2>2 DEF Listed, SameStatus, KeepsResolved
<1>2. CASE PatchMeta
  <2>1. SameStatus(obj', obj) /\ obj.exists /\ obj'.deleting = obj.deleting
    BY <1>2, MetaFields DEF PatchMeta, SameStatus, KeepsStatus, KeepsResolved
  <2> QED BY <1>1, <2>1 DEF SameStatus, KeepsResolved
<1>3. CASE PatchStatus /\ obj' # obj
  <2>1. obj' = PatchedStatus(obj) /\ obj.exists /\ pc = "patchStatus" /\ ports' = ports
    BY <1>3 DEF PatchStatus, cloud
  <2>2. /\ obj'.hasResources = (IF w.hasResources = base.hasResources THEN obj.hasResources ELSE w.hasResources)
        /\ obj'.hasResolved = (IF w.hasResolved = base.hasResolved THEN obj.hasResolved ELSE w.hasResolved)
        /\ obj'.ports = (IF w.ports = base.ports THEN obj.ports ELSE w.ports)
        /\ obj'.deleting = obj.deleting
    BY <1>0, <2>1 DEF PatchedStatus, ServerObj
  <2>3. /\ Listed(obj, obj.deleting, ports) /\ Listed(w, base.deleting, ports)
        /\ (base.hasResources => w.hasResources /\ obj.hasResources)
        /\ (base.hasResolved => w.hasResolved /\ obj.hasResolved)
        /\ (~base.hasResources => base.ports = <<>>)
        /\ (base.deleting => obj.deleting)
    BY <2>1 DEF ListedInv, Recorded, GuardInv, Persisted
  <2>4. (obj.hasResources => obj'.hasResources) /\ (obj.hasResolved => obj'.hasResolved)
        /\ (w.hasResources => obj'.hasResources) /\ (w.hasResolved => obj'.hasResolved)
    <3>1. \A o \in {w, base} : o.hasResources \in BOOLEAN /\ o.hasResolved \in BOOLEAN
      BY DEF TypeInv, ObjectsOK, ServerObj
    <3>2. w.hasResources = base.hasResources \/ (w.hasResources /\ ~base.hasResources)
      BY <2>3, <3>1
    <3>3. w.hasResolved = base.hasResolved \/ (w.hasResolved /\ ~base.hasResolved)
      BY <2>3, <3>1
    <3> QED BY <2>2, <2>3, <3>2, <3>3
  <2>5. ~obj'.hasResources => obj'.ports = <<>>
    BY <2>2, <2>3, <2>4 DEF Listed
  <2>6. obj'.hasResources => obj'.hasResolved
    BY <2>2, <2>3, <2>4 DEF Listed
  <2>7. There(obj'.ports, ports') \/ (obj'.deleting /\ obj'.hasResources)
    BY <2>1, <2>2, <2>3, <2>4 DEF Listed
  <2> QED BY <2>1, <2>2, <2>4, <2>5, <2>6, <2>7 DEF Listed
<1>4. CASE DeleteObject
  <2>1. obj' = [obj EXCEPT !.deleting = TRUE] \/ obj' = [obj EXCEPT !.exists = FALSE]
    BY <1>4 DEF DeleteObject
  <2>2. SameStatus(obj', obj) /\ obj.exists /\ (obj.deleting => obj'.deleting)
    BY <1>0, <1>4, <2>1 DEF DeleteObject, ServerObj, SameStatus, KeepsStatus, KeepsResolved
  <2> QED BY <1>1, <2>2 DEF SameStatus, KeepsResolved
<1>5. CASE Move
  <2>1. obj'.ports = <<>> /\ ~obj'.hasResources
    BY <1>5 DEF Move, NewServer
  <2> QED BY <1>5, <2>1 DEF Listed, There
<1>6. CASE obj' = obj
  BY <1>1, <1>6 DEF SameStatus, KeepsStatus, KeepsResolved
<1> QED BY <1>2, <1>3, <1>4, <1>5, <1>6, Frame

\* The cache and the object as read after a step.
LEMMA CacheListed ==
  ASSUME TypeInv, GuardInv, ListedInv, [Next]_vars, MaxPortLosses = 0
  PROVE  /\ cache'.exists => Listed(cache', cache'.deleting, ports') /\ Recorded(cache)'
         /\ pc' # "idle" => Recorded(base)' /\ (cache'.exists /\ base'.deleting => cache'.deleting)
<1>1. CASE Crash \/ ServerEvent \/ Move
  <2>1. cache' = obj' /\ ports' = ports /\ (Move => pc' = "idle") /\ (Crash => pc' = "idle")
    BY <1>1 DEF Crash, ServerEvent, Move, cloud
  <2>2. cache'.exists => Listed(cache', cache'.deleting, ports') /\ Recorded(cache)'
    BY <2>1, ObjListed DEF Recorded
  <2>3. CASE ServerEvent /\ pc' # "idle"
    <3>1. pc' = pc /\ base' = base /\ obj' = obj
      BY <2>3 DEF ServerEvent, local
    <3>2. Recorded(base) /\ (obj.exists /\ base.deleting => obj.deleting)
      BY <2>3, <3>1 DEF ListedInv, GuardInv, Persisted
    <3> QED BY <2>1, <2>2, <3>1, <3>2 DEF Recorded
  <2> QED BY <1>1, <2>1, <2>2, <2>3
<1>2. CASE cache' = cache /\ ~Move
  <2>1. ASSUME NEW o, Recorded(o), obj'.exists
        PROVE  (o.hasResources => obj'.hasResources) /\ (o.hasResolved => obj'.hasResolved)
    BY <1>2, <2>1, ObjListed DEF Recorded
  <2>2. cache'.exists => Listed(cache', cache'.deleting, ports') /\ Recorded(cache)'
    <3> SUFFICES ASSUME cache.exists PROVE Listed(cache, cache.deleting, ports') /\ Recorded(cache)'
      BY <1>2
    <3>1. pc = "dPorts" => cache.deleting
      BY DEF ListedInv, GuardInv, ReadOK, DeleteSteps
    <3>2. Listed(cache, cache.deleting, ports')
      BY <3>1, ListedKept DEF ListedInv
    <3> QED BY <1>2, <2>1, <3>2 DEF ListedInv, Recorded
  <2>3. CASE pc = "idle" /\ pc' # "idle"
    <3>1. base' = cache /\ cache.exists
      BY <2>3, StartStep
    <3> QED BY <1>2, <2>1, <2>2, <3>1 DEF ListedInv, Recorded
  <2>4. CASE pc # "idle" /\ pc' # "idle"
    <3>1. base' = base
      BY <2>4, WorkFields
    <3> QED BY <1>2, <2>1, <2>2, <2>4, <3>1 DEF ListedInv, Recorded
  <2> QED BY <2>2, <2>3, <2>4
<1> QED BY <1>1, <1>2, Frame

\* The working copy after a step.
LEMMA WorkListed ==
  ASSUME TypeInv, GuardInv, ListedInv, [Next]_vars, MaxPortLosses = 0, pc' # "idle"
  PROVE  /\ base'.hasResources => w'.hasResources
         /\ base'.hasResolved => w'.hasResolved
         /\ ~base'.hasResources => base'.ports = <<>>
         /\ Listed(w', base'.deleting, ports')
         /\ pc' \in NormalSteps => There(w'.ports, ports')
         /\ pc' \in ResolvedSteps => w'.hasResolved
         /\ pc' \in AdoptedSteps => w'.hasResources
         /\ pc' = "ports" => k' <= Len(w'.ports) + 1
<1> USE DEF NormalSteps, DeleteSteps, ResolvedSteps, AdoptedSteps
<1>0. w \in ServerObj /\ w.ports \in Seq(1..MaxPortID) /\ w'.ports \in Seq(1..MaxPortID)
  BY WorkList, TypeNext DEF TypeInv, ObjectsOK, ServerObj
<1>1. CASE pc = "idle"
  <2>1. /\ w' = cache /\ base' = cache /\ cache.exists /\ ports' = ports
        /\ pc' \in {FirstStep(cache), "patchMeta"}
    BY <1>1, StartStep DEF cloud
  <2>2. Listed(cache, cache.deleting, ports)
    BY <2>1 DEF ListedInv
  <2> QED BY <2>1, <2>2 DEF FirstStep, Listed
<1>2. CASE pc # "idle"
  <2>0. /\ base.hasResources => w.hasResources
        /\ base.hasResolved => w.hasResolved
        /\ ~base.hasResources => base.ports = <<>>
        /\ Listed(w, base.deleting, ports) /\ base' = base /\ PortIDsOK
        /\ pc \in NormalSteps => There(w.ports, ports)
        /\ pc \in ResolvedSteps => w.hasResolved
        /\ pc \in AdoptedSteps => w.hasResources
        /\ pc = "ports" => k <= Len(w.ports) + 1
    BY <1>2, WorkFields DEF ListedInv
  <2>1. Listed(w, base.deleting, ports')
    <3>1. pc = "dPorts" => base.deleting
      BY DEF GuardInv, ReadOK
    <3> QED BY <2>0, <3>1, ListedKept
  <2>2. There(w.ports, ports) => There(w.ports, ports') \/ pc = "dPorts"
    BY ThereKept
  <2>3. CASE EnsurePort
    <3>1. pc = "ports" /\ There(w.ports, ports) /\ k <= Len(w.ports) + 1 /\ w.hasResources /\ w.hasResolved
      BY <2>0, <2>3 DEF EnsurePort, At
    <3>2. /\ There(w'.ports, ports') /\ (pc' = "ports" => k' <= Len(w'.ports) + 1)
          /\ w'.hasResources /\ w'.hasResolved
      BY <2>0, <2>3, <3>1, EnsureStep DEF KeepsResolved
    <3> QED BY <2>0, <3>2 DEF Listed
  <2>4. CASE Adopt \/ AdoptForDelete
    <3>1. w'.hasResources /\ w'.hasResolved = w.hasResolved /\ ports' = ports
      <4>1. \/ w' = [w EXCEPT !.hasResources = TRUE]
            \/ \E s : w' = [w EXCEPT !.hasResources = TRUE, !.ports = s]
        BY <2>4, Zenon DEF Adopt, AdoptForDelete, AdoptServerResources
      <4>2. CASE w' = [w EXCEPT !.hasResources = TRUE]
        BY <1>0, <2>4, <4>2 DEF Adopt, AdoptForDelete, cloud, ServerObj
      <4>3. ASSUME NEW s, w' = [w EXCEPT !.hasResources = TRUE, !.ports = s]
            PROVE  w'.hasResources /\ w'.hasResolved = w.hasResolved
        BY <1>0, <4>3 DEF ServerObj
      <4>4. ports' = ports
        BY <2>4 DEF Adopt, AdoptForDelete, cloud
      <4> QED BY <4>1, <4>2, <4>3, <4>4
    <3>2. There(w.ports, ports) => There(w'.ports, ports)
      BY <1>0, <2>0, <2>4, AdoptStep, ThereKnown, WorkList
    <3>3. pc \in {"adopt", "dAdopt"} /\ (pc = "dAdopt" => pc' \notin NormalSteps) /\ pc' # "ports"
      BY <2>4, AdoptFlow
    <3> QED BY <2>0, <3>1, <3>2, <3>3 DEF Listed
  <2>5. CASE ResolveServerSpec
    <3>1. pc = "resolve"
      BY <2>5 DEF ResolveServerSpec, At
    <3>2. w'.ports = w.ports /\ w'.hasResources = w.hasResources
      BY <1>2, <3>1, WorkFields DEF Adopt, AdoptForDelete, EnsurePort, At
    <3>3. w'.hasResolved
      BY <1>0, <2>5 DEF ResolveServerSpec, ServerObj
    <3>5. pc' \notin AdoptedSteps
      BY <1>2, <3>1, StepFlow DEF Adopt, AdoptForDelete, At
    <3> QED BY <2>0, <2>1, <2>2, <3>1, <3>2, <3>3, <3>5 DEF Listed
  <2>6. CASE ~EnsurePort /\ ~Adopt /\ ~AdoptForDelete /\ ~ResolveServerSpec
    <3>1. w'.ports = w.ports /\ w'.hasResources = w.hasResources /\ KeepsResolved(w', w)
      BY <1>2, <2>6, WorkFields
    <3>2. Listed(w', base'.deleting, ports')
      BY <2>0, <2>1, <3>1 DEF Listed, KeepsResolved
    <3>3. pc' \in NormalSteps => There(w'.ports, ports')
      BY <1>2, <2>0, <2>2, <3>1, StepFlow
    <3>4. pc' \in ResolvedSteps => w'.hasResolved
      BY <1>2, <2>0, <2>6, <3>1, StepFlow DEF KeepsResolved
    <3>5. pc' \in AdoptedSteps => w'.hasResources
      BY <1>2, <2>0, <2>6, <3>1, StepFlow
    <3>6. pc' = "ports" => k' <= Len(w'.ports) + 1
      <4>1. Len(w'.ports) \in Nat
        BY <1>0
      <4> QED BY <1>2, <2>0, <2>6, <3>1, <4>1, StepFlow
    <3> QED BY <2>0, <3>1, <3>2, <3>3, <3>4, <3>5, <3>6 DEF KeepsResolved
  <2> QED BY <2>3, <2>4, <2>5, <2>6
<1> QED BY <1>1, <1>2

\* Every step keeps what the copies of the object list, however stale they are.
LEMMA ListedNext ==
  ASSUME MaxPortLosses = 0
  PROVE  TypeInv /\ GuardInv /\ ListedInv /\ [Next]_vars => ListedInv'
<1> SUFFICES ASSUME TypeInv, GuardInv, ListedInv, [Next]_vars PROVE ListedInv'
  OBVIOUS
<1>1. PortIDsOK'
  <2>1. CASE UNCHANGED <<ports, portIDs>>
    BY <2>1 DEF ListedInv, PortIDsOK
  <2>2. CASE EnsurePort
    BY <2>2, EnsureStep DEF ListedInv, EnsurePort, At, NormalSteps
  <2>3. CASE ports' \subseteq ports /\ portIDs' = portIDs
    BY <2>3 DEF ListedInv, PortIDsOK
  <2> QED BY <2>1, <2>2, <2>3, PortStep
<1>2. (pc \in NormalSteps \/ pc \in ResolvedSteps \/ pc \in AdoptedSteps \/ pc = "ports" => pc # "idle")'
  BY DEF NormalSteps, DeleteSteps, ResolvedSteps, AdoptedSteps
<1>3. /\ Listed(w, base.deleting, ports)' <=> Listed(w', base'.deleting, ports')
      /\ Listed(obj, obj.deleting, ports)' <=> Listed(obj', obj'.deleting, ports')
      /\ Listed(cache, cache.deleting, ports)' <=> Listed(cache', cache'.deleting, ports')
  BY DEF Listed, There
<1> QED BY <1>1, <1>2, <1>3, ObjListed, CacheListed, WorkListed DEF ListedInv, There

\* EnsurePort never creates a second port for the same name and network, whatever was
\* lost between the creation of a port and the patch of the status, wherever a reconcile
\* was cut off and however stale the object was that it read, as long as nobody else
\* deletes a port.
THEOREM PortUnique ==
  ASSUME MaxPortLosses = 0
  PROVE  Spec => []OnePortPerName
<1>1. Init => ListedInv
  BY ConstantsAssumption DEF Init, ListedInv, PortIDsOK, Listed, Recorded, There, NewServer,
     NormalSteps, DeleteSteps, ResolvedSteps, AdoptedSteps
<1>2. ListedInv => OnePortPerName
  BY DEF ListedInv, PortIDsOK, OnePortPerName, Several, Named
<1> QED BY <1>1, <1>2, TypeInit, TypeNext, GuardInit, GuardNext, ListedNext, PTL DEF Spec


-----------------------------------------------------------------------------
(* The instance goes before the finalizer *)

LiveIs(id) == \A x \in LiveInstances : x.id = id

\* A copy of the object that names an instance names the only one that may be live.
LastID(o) == o.instanceID # NoID => LiveIs(o.instanceID)

\* What a reconcile may have done to the status since it read it: nothing, an ERROR for
\* an instance that was not created, or a report on an instance.
ReportOK ==
  \/ KeepsStatus(w, base)
  \/ w.instanceID = base.instanceID /\ w.instanceState = "ERROR" /\ ~w.ready
  \/ /\ w.instanceID \in 1..instIDs /\ base.instanceID \in {NoID, w.instanceID}
     /\ w.instanceState \in States /\ w.ready = (w.instanceState = "ACTIVE")

\* An instance is created for a status that names none; the delete path gets past the
\* instance only when it is gone, and the finalizer after that.
GoneInv ==
  /\ LastID(obj) /\ obj.instanceID <= instIDs /\ (obj.instanceID = NoID => ~obj.ready)
  /\ pc # "idle" => LastID(w) /\ ReportOK
  /\ pc \in NormalSteps => KeepsStatus(w, base)
  /\ pc \in {"volumes", "create"} => w.instanceID = NoID
  /\ pc \in {"associate", "status"} => w.instanceID \in {NoID, inst.id} /\ LiveIs(inst.id)
  /\ pc \in {"dInstance", "dPoll"} => LiveIs(inst.id)
  /\ pc \in {"dVolumes", "dPorts", "dClaim"} => LiveInstances = {}
  /\ pc = "patchMeta" /\ base.finalizer /\ ~w.finalizer => LiveInstances = {}

\* What GetServerStatus finds.
FoundServer == IF w.instanceID # NoID THEN InstanceByID(w.instanceID) ELSE InstancesByName

\* How reconcileDelete goes past the instance.
LEMMA DeleteFlow ==
  ASSUME TypeInv, [Next]_vars, pc' \in {"dInstance", "dPoll", "dVolumes", "dPorts", "dClaim"}
  PROVE  \/ pc' = pc /\ inst' = inst /\ (k' = k \/ DeleteVolume \/ DeletePort)
         \/ /\ pc = "dGet" /\ pc' \in {"dVolumes", "dPorts"} /\ FoundServer = {} /\ insts' = insts
            /\ k' = 1 /\ (pc' = "dPorts" => NVolumes = 0)
         \/ pc = "dGet" /\ pc' = "dInstance" /\ FoundServer = {inst'} /\ insts' = insts
         \/ pc = "dInstance" /\ pc' = "dPoll" /\ inst' = inst
         \/ /\ pc = "dInstance" /\ pc' = "dPorts" /\ InstanceByID(inst.id) = {} /\ insts' = insts
            /\ k' = 1
         \/ /\ pc = "dPoll" /\ pc' = "dPorts" /\ insts' = insts /\ k' = 1
            /\ \A x \in InstanceByID(inst.id) : x.state \in DeletedStates
         \/ pc = "dVolumes" /\ pc' = "dPorts" /\ k' = 1 /\ DeleteVolume
         \/ pc = "dPorts" /\ pc' = "dClaim" /\ DeletePort
<1> USE DEF At, Goto, Return, ReturnDelete, Again
<1>1. CASE Start
  BY <1>1 DEF Start, FirstStep
<1>2. CASE ResolveServerSpec
  BY <1>2 DEF ResolveServerSpec
<1>3. CASE Adopt \/ AdoptForDelete
  BY <1>3, AdoptFlow
<1>4. CASE ReconcileFloatingAddressFromPool \/ ReleaseClaim
  BY <1>4 DEF ReconcileFloatingAddressFromPool, ReleaseClaim
<1>5. CASE EnsurePort
  BY <1>5 DEF EnsurePort, NextPort, PortFailed
<1>6. CASE GetServer
  BY <1>6 DEF GetServer
<1>7. CASE GetOrCreateVolume \/ CreateInstance
  BY <1>7 DEF GetOrCreateVolume, CreateInstance, CreateFailed
<1>8. CASE AssociateIPAddress \/ ReportStatus
  BY <1>8 DEF AssociateIPAddress, ReportStatus
<1>9. CASE GetServerStatus
  BY <1>9 DEF GetServerStatus, FoundServer, cloud
<1>10. CASE DeleteServer \/ PollInstanceDeleted
  BY <1>10 DEF DeleteServer, PollInstanceDeleted, cloud
<1>11. CASE DeleteVolume \/ DeletePort
  BY <1>11 DEF DeleteVolume, DeletePort
<1>12. CASE PatchMeta \/ PatchStatus \/ Crash
  BY <1>12 DEF PatchMeta, PatchStatus, Finish, Crash
<1>13. CASE UNCHANGED <<pc, base, w, k, inst>>
  BY <1>13
<1> QED BY <1>1, <1>2, <1>3, <1>4, <1>5, <1>6, <1>7, <1>8, <1>9, <1>10, <1>11, <1>12, <1>13, Frame
       DEF Worker

\* As long as reconcileNormal goes on it leaves the status of the instance alone.
LEMMA NormalKeeps ==
  ASSUME TypeInv, [Next]_vars, pc # "idle", pc' \in NormalSteps
  PROVE  KeepsStatus(w', w)
<1>1. pc' # "idle"
  BY DEF NormalSteps
<1>2. ReportStatus => FALSE
  BY DEF ReportStatus, Return, NormalSteps
<1>3. CASE pc \in {"volumes", "create"} /\ ~(w' = w)
  <2>1. Worker => GetOrCreateVolume \/ CreateInstance
    <3>0. pc \notin {"idle", "resolve", "adopt", "claim", "ports", "server", "associate", "status"}
      BY <1>3
    <3>1. ~Start /\ ~ResolveServerSpec /\ ~Adopt /\ ~ReconcileFloatingAddressFromPool
          /\ ~EnsurePort /\ ~GetServer /\ ~AssociateIPAddress /\ ~ReportStatus
      BY <3>0, Zenon DEF At, Start, ResolveServerSpec, Adopt, ReconcileFloatingAddressFromPool,
         EnsurePort, GetServer, AssociateIPAddress, ReportStatus
    <3>2. ~AdoptForDelete /\ ~GetServerStatus /\ ~DeleteVolume /\ ~DeleteServer
          /\ ~PollInstanceDeleted /\ ~DeletePort /\ ~ReleaseClaim /\ ~PatchMeta /\ ~PatchStatus
      BY <1>3 DEF At, AdoptForDelete, GetServerStatus, DeleteVolume, DeleteServer,
         PollInstanceDeleted, DeletePort, ReleaseClaim, PatchMeta, PatchStatus
    <3> QED BY <3>1, <3>2 DEF Worker
  <2>2. GetOrCreateVolume \/ CreateInstance => Return("error")
    BY <1>3 DEF GetOrCreateVolume, CreateInstance, CreateFailed
  <2>3. Return("error") => pc' = "patchMeta"
    BY DEF Return
  <2>4. Crash => pc' = "idle"
    BY DEF Crash
  <2>5. pc' \notin {"idle", "patchMeta"}
    BY DEF NormalSteps
  <2>6. Worker \/ Crash \/ w' = w
    BY Frame
  <2> QED BY <1>3, <2>1, <2>2, <2>3, <2>4, <2>5, <2>6
<1>4. CASE pc \in {"volumes", "create"} /\ w' = w
  BY <1>4 DEF KeepsStatus
<1> QED BY <1>1, <1>2, <1>3, <1>4, WorkFields

\* An instance that may be live stays the only one unless a new one is created.
LEMMA LiveKept ==
  ASSUME TypeInv, InstInv, [Next]_vars
  PROVE  /\ instIDs <= instIDs' /\ instIDs \in Nat
         /\ pc # "create" => /\ \A id : LiveIs(id) => LiveIs(id)'
                             /\ LiveInstances = {} => LiveInstances' = {}
<1>1. instIDs \in Nat
  BY ConstantsAssumption DEF TypeInv, CloudOK
<1> QED BY <1>1, LiveStep DEF LiveIs


\* What the object says of the instance stays true.
LEMMA ObjInstance ==
  ASSUME ~StaleServer, TypeInv, SyncInv, InstInv, GoneInv, [Next]_vars
  PROVE  /\ obj'.instanceID # NoID => \A x \in LiveInstances' : x.id = obj'.instanceID
         /\ obj'.instanceID <= instIDs' /\ (obj'.instanceID = NoID => ~obj'.ready)
<1>0. obj \in ServerObj /\ w \in ServerObj /\ instIDs' \in Nat /\ MaxInstID \in Nat
  BY TypeNext, ConstantsAssumption DEF TypeInv, ObjectsOK, CloudOK
<1>1. \A id : LiveIs(id) /\ pc # "create" => \A x \in LiveInstances' : x.id = id
  BY LiveKept DEF LiveIs
<1>2. instIDs <= instIDs' /\ instIDs \in Nat
  BY LiveKept
<1>3. ASSUME KeepsStatus(obj', obj)
      PROVE  /\ obj'.instanceID # NoID => \A x \in LiveInstances' : x.id = obj'.instanceID
             /\ obj'.instanceID <= instIDs' /\ (obj'.instanceID = NoID => ~obj'.ready)
  <2>1. pc = "create" => obj.instanceID = NoID
    BY DEF GoneInv, SyncInv, SameStatus, KeepsStatus, NormalSteps
  <2>2. /\ obj.instanceID # NoID => LiveIs(obj.instanceID)
        /\ obj.instanceID <= instIDs /\ (obj.instanceID = NoID => ~obj.ready)
    BY DEF GoneInv, LastID
  <2>3. obj.instanceID \in Nat
    BY <1>0 DEF ServerObj
  <2> QED BY <1>0, <1>1, <1>2, <1>3, <2>1, <2>2, <2>3 DEF KeepsStatus
<1>4. CASE PatchMeta
  BY <1>3, <1>4, MetaFields DEF PatchMeta, SameStatus, KeepsStatus
<1>5. CASE PatchStatus /\ obj' # obj
  <2>1. obj' = PatchedStatus(obj) /\ pc = "patchStatus"
    BY <1>5 DEF PatchStatus
  <2>2. KeepsStatus(obj', w)
    BY <2>1, StatusFields
  <2>3. /\ w.instanceID # NoID => LiveIs(w.instanceID)
        /\ ReportOK /\ obj.instanceID <= instIDs /\ (obj.instanceID = NoID => ~obj.ready)
        /\ KeepsStatus(obj, base)
    BY <2>1 DEF GoneInv, LastID, SyncInv, SameStatus
  <2>4. w.instanceID <= instIDs /\ (w.instanceID = NoID => ~w.ready) /\ w.instanceID \in Nat
    BY <1>0, <1>2, <2>3 DEF ReportOK, KeepsStatus, ServerObj
  <2> QED BY <1>0, <1>1, <1>2, <2>1, <2>2, <2>3, <2>4 DEF KeepsStatus
<1>6. CASE DeleteObject
  <2>1. obj' = [obj EXCEPT !.deleting = TRUE] \/ obj' = [obj EXCEPT !.exists = FALSE]
    BY <1>6 DEF DeleteObject
  <2>2. KeepsStatus(obj', obj)
    BY <1>0, <2>1 DEF ServerObj, KeepsStatus
  <2> QED BY <1>3, <2>2
<1>7. CASE Move
  BY <1>0, <1>7 DEF Move, NewServer
<1>8. CASE obj' = obj
  BY <1>3, <1>8 DEF KeepsStatus
<1> QED BY <1>4, <1>5, <1>6, <1>7, <1>8, Frame

\* So does what the working copy says.
LEMMA WorkInstance ==
  ASSUME ~StaleServer, TypeInv, SyncInv, InstInv, GoneInv, [Next]_vars, pc' # "idle"
  PROVE  /\ w'.instanceID # NoID => \A x \in LiveInstances' : x.id = w'.instanceID
         /\ ReportOK' /\ (pc' \in NormalSteps => KeepsStatus(w', base'))
<1>0. obj \in ServerObj /\ w \in ServerObj
  BY DEF TypeInv, ObjectsOK
<1>1. \A id : LiveIs(id) /\ pc # "create" => \A x \in LiveInstances' : x.id = id
  BY LiveKept DEF LiveIs
<1>2. instIDs <= instIDs' /\ instIDs \in Nat /\ instIDs' \in Nat
  BY LiveKept, TypeNext, ConstantsAssumption DEF TypeInv, CloudOK
<1>3. CASE pc = "idle"
  <2>1. w' = obj /\ base' = obj
    BY <1>3, StartStep
  <2>2. obj.instanceID # NoID => LiveIs(obj.instanceID)
    BY DEF GoneInv, LastID
  <2> QED BY <1>1, <1>3, <2>1, <2>2 DEF ReportOK, KeepsStatus
<1>4. CASE pc # "idle"
  <2>0. /\ w.instanceID # NoID => LiveIs(w.instanceID)
        /\ ReportOK /\ KeepsStatus(obj, base) /\ (obj.instanceID = NoID => ~obj.ready)
        /\ pc \in NormalSteps => KeepsStatus(w, base)
        /\ pc \in {"volumes", "create"} => w.instanceID = NoID
        /\ base' = base
    BY <1>4, WorkFields DEF GoneInv, LastID, SyncInv, SameStatus
  <2>1. pc' \in NormalSteps => KeepsStatus(w', base')
    BY <1>4, <2>0, NormalKeeps, StepFlow DEF KeepsStatus
  <2>2. CASE ReportStatus
    <3>1. /\ pc = "status" /\ w'.instanceID = inst.id /\ w'.instanceState = inst.state
          /\ w'.ready = (inst.state = "ACTIVE")
      BY <1>0, <2>2 DEF ReportStatus, At, ServerObj
    <3>2. /\ w.instanceID \in {NoID, inst.id} /\ LiveIs(inst.id)
          /\ inst.id \in 1..instIDs /\ inst.state \in States
      BY <3>1 DEF GoneInv, InstInv
    <3>3. w.instanceID = base.instanceID
      BY <2>0, <3>1 DEF NormalSteps, KeepsStatus
    <3>4. ReportOK'
      BY <1>2, <2>0, <3>1, <3>2, <3>3 DEF ReportOK
    <3> QED BY <1>1, <2>1, <3>1, <3>2, <3>4
  <2>3. CASE ~ReportStatus
    <3>1. w'.instanceID = w.instanceID
      BY <1>4, <2>3, WorkFields DEF KeepsStatus
    <3>2. w'.instanceID # NoID => \A x \in LiveInstances' : x.id = w'.instanceID
      BY <1>1, <2>0, <3>1
    <3>3. ReportOK'
      <4>1. CASE KeepsStatus(w', w)
        BY <1>2, <2>0, <4>1 DEF ReportOK, KeepsStatus
      <4>2. CASE /\ pc \in {"volumes", "create"} /\ w'.instanceState = "ERROR"
                 /\ w'.instanceID = w.instanceID /\ w'.ready = w.ready
        BY <2>0, <4>2 DEF ReportOK, KeepsStatus, NormalSteps
      <4> QED BY <1>4, <2>3, <4>1, <4>2, WorkFields
    <3> QED BY <2>1, <3>2, <3>3
  <2> QED BY <2>2, <2>3
<1> QED BY <1>3, <1>4

\* Resolving the spec never drops the finalizer.
LEMMA ResolveProtects ==
  ASSUME TypeInv, ResolveServerSpec
  PROVE  w.finalizer => w'.finalizer
<1>1. PICK got \in SUBSET (deps \ w.resolved) :
        w' = [w EXCEPT !.hasResolved = TRUE, !.resolved = w.resolved \cup got,
                 !.finalizer = w.finalizer \/ w.resolved \cup got = Setters,
                 !.cond = IF w.resolved \cup got = Setters THEN w.cond ELSE "False"]
  BY Zenon DEF ResolveServerSpec
<1> QED BY <1>1 DEF TypeInv, ObjectsOK, ServerObj

\* Every step keeps the instance of the status the only live one, and the finalizer until it goes.
LEMMA GoneNext ==
  ASSUME ~StaleServer
  PROVE  TypeInv /\ SyncInv /\ InstInv /\ GoneInv /\ [Next]_vars => GoneInv'
<1> SUFFICES ASSUME TypeInv, SyncInv, InstInv, GoneInv, [Next]_vars PROVE GoneInv'
  OBVIOUS
<1>0. insts \subseteq [id : 1..MaxInstID, state : States] /\ MaxInstID \in Nat
  BY ConstantsAssumption DEF TypeInv, CloudOK, Instance
<1>1. \A id : LiveIs(id) /\ pc # "create" => \A x \in LiveInstances' : x.id = id
  BY LiveKept DEF LiveIs
<1>2. pc # "create" /\ LiveInstances = {} => LiveInstances' = {}
  BY LiveKept
<1>3. (LastID(obj) /\ obj.instanceID <= instIDs /\ (obj.instanceID = NoID => ~obj.ready))'
  BY ObjInstance DEF LastID, LiveIs
<1>4. (pc # "idle" => LastID(w) /\ ReportOK)'
  BY WorkInstance DEF LastID, LiveIs
<1>5. (pc \in NormalSteps => KeepsStatus(w, base))'
  BY WorkInstance DEF NormalSteps, KeepsStatus
<1>6. (pc \in {"volumes", "create"} => w.instanceID = NoID)'
  BY CreateFlow DEF GoneInv
<1>7. ASSUME pc' \in {"associate", "status"}
      PROVE  w'.instanceID \in {NoID, inst'.id} /\ \A x \in LiveInstances' : x.id = inst'.id
  <2>1. CASE pc \in {"associate", "status"} /\ inst' = inst
    BY <1>1, <1>7, <2>1, ReportFlow DEF GoneInv
  <2>2. CASE pc = "server" /\ inst' \in insts /\ insts' = insts /\ inst'.id = w.instanceID
    <3>1. w.instanceID # NoID /\ LastID(w)
      BY <1>0, <2>2 DEF GoneInv
    <3> QED BY <1>7, <2>2, <3>1, ReportFlow DEF LastID, LiveIs, LiveInstances
  <2>3. CASE insts' = insts /\ w.instanceID = NoID /\ InstancesByName = {inst'}
    BY <1>7, <2>3, ReportFlow DEF InstancesByName, LiveInstances
  <2>4. CASE pc = "create" /\ inst' = NewInstance /\ CreateInstance /\ instIDs' = instIDs + 1
    <3>1. instIDs' # instIDs
      BY <2>4, LiveKept
    <3>2. LiveInstances' = {NewInstance}
      BY <3>1, LiveStep
    <3> QED BY <1>7, <2>4, <3>2, ReportFlow DEF GoneInv
  <2> QED BY <1>7, <2>1, <2>2, <2>3, <2>4, ReportFlow
<1>8. ASSUME pc' \in {"dInstance", "dPoll"} PROVE \A x \in LiveInstances' : x.id = inst'.id
  <2>1. CASE pc \in {"dInstance", "dPoll"} /\ inst' = inst
    BY <1>1, <2>1 DEF GoneInv
  <2>2. CASE pc = "dGet" /\ FoundServer = {inst'} /\ insts' = insts
    <3>1. LastID(w)
      BY <2>2 DEF GoneInv
    <3>2. CASE w.instanceID # NoID
      <4>1. inst'.id = w.instanceID
        BY <2>2, <3>2 DEF FoundServer, InstanceByID
      <4> QED BY <2>2, <3>1, <3>2, <4>1 DEF LastID, LiveIs, LiveInstances
    <3>3. CASE w.instanceID = NoID
      BY <2>2, <3>3 DEF FoundServer, InstancesByName, LiveInstances
    <3> QED BY <3>2, <3>3
  <2> QED BY <1>8, <2>1, <2>2, DeleteFlow
<1>9. ASSUME pc' \in {"dVolumes", "dPorts", "dClaim"} PROVE LiveInstances' = {}
  <2>1. CASE pc \in {"dVolumes", "dPorts"} \/ (pc = "dClaim" /\ pc' = "dClaim")
    BY <1>2, <2>1 DEF GoneInv
  <2>2. CASE pc = "dGet" /\ FoundServer = {} /\ insts' = insts
    <3>1. LastID(w)
      BY <2>2 DEF GoneInv
    <3>2. LiveInstances = {}
      BY <2>2, <3>1 DEF FoundServer, InstanceByID, InstancesByName, LiveInstances, LastID, LiveIs
    <3> QED BY <1>2, <2>2, <3>2
  <2>3. CASE /\ pc \in {"dInstance", "dPoll"} /\ insts' = insts
             /\ \A x \in InstanceByID(inst.id) : x.state \in DeletedStates
    <3>1. LiveIs(inst.id)
      BY <2>3 DEF GoneInv
    <3>2. LiveInstances = {}
      BY <2>3, <3>1 DEF InstanceByID, LiveInstances, LiveIs
    <3> QED BY <1>2, <2>3, <3>2
  <2> QED BY <1>9, <2>1, <2>2, <2>3, DeleteFlow
<1>10. ASSUME pc' = "patchMeta", base'.finalizer, ~w'.finalizer PROVE LiveInstances' = {}
  <2>1. CASE pc = "idle"
    BY <1>10, <2>1, StartStep DEF FirstStep
  <2>2. CASE pc \in {"patchMeta", "patchStatus"}
    BY <1>2, <1>10, <2>2, PatchFlow DEF GoneInv
  <2>3. CASE pc \notin {"idle", "patchMeta", "patchStatus"}
    <3>1. base' = base /\ w.finalizer /\ w \in ServerObj
      BY <1>10, <2>3, WorkFields DEF SyncInv, TypeInv, ObjectsOK
    <3>2. ResolveServerSpec => w'.finalizer
      BY <3>1, ResolveProtects
    <3>3. ReleaseClaim
      BY <1>10, <2>3, <3>1, <3>2, WorkFields
    <3> QED BY <1>2, <3>3 DEF ReleaseClaim, At, GoneInv
  <2> QED BY <2>1, <2>2, <2>3
<1> QED BY <1>3, <1>4, <1>5, <1>6, <1>7, <1>8, <1>9, <1>10 DEF GoneInv, LiveIs


-----------------------------------------------------------------------------
(* The owner's view *)

Shown(e, d, f, i, s, r) ==
  [exists |-> e, deleting |-> d, finalizer |-> f, id |-> i, state |-> s, ready |-> r]

NotShown == [exists |-> FALSE, deleting |-> FALSE, finalizer |-> FALSE,
             id |-> NoID, state |-> "none", ready |-> FALSE]

View(o) == IF o.exists THEN Shown(TRUE, o.deleting, o.finalizer, o.instanceID, o.instanceState, o.ready)
                       ELSE NotShown

\* The owner's view after a change of the finalizer.
LEMMA ShownFinalizer ==
  ASSUME NEW e, NEW d, NEW f, NEW i, NEW s, NEW r, NEW x
  PROVE  [Shown(e, d, f, i, s, r) EXCEPT !.finalizer = x] = Shown(e, d, x, i, s, r)
BY DEF Shown

\* The owner's view after a deletion request.
LEMMA ShownDeleting ==
  ASSUME NEW e, NEW d, NEW f, NEW i, NEW s, NEW r, NEW x
  PROVE  [Shown(e, d, f, i, s, r) EXCEPT !.deleting = x] = Shown(e, x, f, i, s, r)
BY DEF Shown

ReportOn(v, j, t, q) == [v EXCEPT !.id = j, !.state = t, !.ready = q]

\* The owner's view after a report.
LEMMA ShownReport ==
  ASSUME NEW e, NEW d, NEW f, NEW i, NEW s, NEW r, NEW j, NEW t, NEW q
  PROVE  ReportOn(Shown(e, d, f, i, s, r), j, t, q) = Shown(e, d, f, j, t, q)
<1> DEFINE A == [Shown(e, d, f, i, s, r) EXCEPT !.id = j, !.state = t, !.ready = q]
           B == Shown(e, d, f, j, t, q)
<1>1. DOMAIN A = DOMAIN B
  BY DEF Shown
<1>2. /\ A.exists = B.exists /\ A.deleting = B.deleting /\ A.finalizer = B.finalizer
      /\ A.id = B.id /\ A.state = B.state /\ A.ready = B.ready
  BY DEF Shown
<1>3. A = B
  BY <1>1, <1>2 DEF Shown
<1> QED BY <1>3, Zenon DEF ReportOn

LiveIDs == {x.id : x \in LiveInstances}

\* The IDs of the live instances: one is added to none, the only one goes, or they stay.
LEMMA LiveIDsStep ==
  ASSUME TypeInv, InstInv, [Next]_vars
  PROVE  \/ /\ CreateInstance /\ pc = "create" /\ LiveIDs = {} /\ LiveIDs' = {instIDs + 1}
            /\ instIDs' = instIDs + 1
         \/ instIDs' = instIDs /\ \E n \in LiveIDs : LiveIDs' = LiveIDs \ {n}
         \/ instIDs' = instIDs /\ LiveIDs' = LiveIDs
<1>1. CASE /\ CreateInstance /\ pc = "create" /\ LiveInstances = {}
           /\ LiveInstances' = {NewInstance} /\ instIDs' = instIDs + 1
  BY <1>1 DEF LiveIDs, NewInstance
<1>2. CASE instIDs' = instIDs /\ \A x \in LiveInstances' : \E y \in LiveInstances : y.id = x.id
  <2>1. LiveIDs' \subseteq LiveIDs
    BY <1>2 DEF LiveIDs
  <2>2. \A m, n \in LiveIDs : m = n
    BY DEF LiveIDs, InstInv, OneInstance, Several
  <2>3. LiveIDs' = LiveIDs \/ \E n \in LiveIDs : LiveIDs' = LiveIDs \ {n}
    BY <2>1, <2>2
  <2> QED BY <1>2, <2>3
<1> QED BY <1>1, <1>2, LiveStep

\* What the patches show the owner.
LEMMA MetaView ==
  ASSUME TypeInv, GuardInv, SyncInv, GoneInv, PatchMeta
  PROVE  \/ View(obj') = View(obj)
         \/ /\ obj.exists /\ ~obj.deleting /\ ~obj.finalizer
            /\ View(obj') = [View(obj) EXCEPT !.finalizer = TRUE]
         \/ /\ obj.exists /\ obj.deleting /\ LiveInstances = {} /\ ~obj'.exists
<1>0. obj \in ServerObj /\ w \in ServerObj /\ base \in ServerObj /\ pc = "patchMeta"
  BY DEF TypeInv, ObjectsOK, PatchMeta, At
<1>1. CASE obj' = obj
  BY <1>1
<1>2. CASE obj' = PatchedMeta(obj) /\ obj' # obj
  <2>1. obj.exists /\ w.finalizer # base.finalizer /\ obj.finalizer = base.finalizer
    BY <1>0, <1>2 DEF PatchedMeta, SyncInv
  <2>2. CASE w.finalizer
    <3>1. ~base.finalizer /\ ~obj.deleting /\ obj' = [obj EXCEPT !.finalizer = TRUE]
      BY <1>0, <1>2, <2>1, <2>2 DEF PatchedMeta, ServerObj
    <3>2. /\ obj'.exists /\ obj'.deleting = obj.deleting /\ obj'.finalizer = TRUE
          /\ KeepsStatus(obj', obj)
      BY <1>0, <2>1, <3>1 DEF KeepsStatus, ServerObj
    <3>3. View(obj') = Shown(TRUE, obj.deleting, TRUE, obj.instanceID, obj.instanceState, obj.ready)
      BY <3>2 DEF View, KeepsStatus
    <3>4. View(obj) = Shown(TRUE, obj.deleting, obj.finalizer, obj.instanceID, obj.instanceState, obj.ready)
      BY <2>1 DEF View
    <3>5. View(obj') = [View(obj) EXCEPT !.finalizer = TRUE]
      <4>1. [Shown(TRUE, obj.deleting, obj.finalizer, obj.instanceID, obj.instanceState, obj.ready)
               EXCEPT !.finalizer = TRUE]
              = Shown(TRUE, obj.deleting, TRUE, obj.instanceID, obj.instanceState, obj.ready)
        <5> DEFINE e == TRUE d == obj.deleting f == obj.finalizer i == obj.instanceID
                   s == obj.instanceState r == obj.ready
        <5> HIDE DEF e, d, f, i, s, r
        <5>1. [Shown(e, d, f, i, s, r) EXCEPT !.finalizer = e] = Shown(e, d, e, i, s, r)
          BY ShownFinalizer
        <5> QED BY <5>1 DEF e, d, f, i, s, r
      <4> QED BY <3>3, <3>4, <4>1, Zenon
    <3> QED BY <2>1, <3>1, <3>5
  <2>3. CASE ~w.finalizer
    <3>1. base.finalizer /\ obj' = [obj EXCEPT !.finalizer = FALSE, !.exists = ~obj.deleting]
      BY <1>0, <1>2, <2>1, <2>3 DEF PatchedMeta, ServerObj
    <3>2. obj.deleting /\ LiveInstances = {}
      BY <1>0, <2>1, <2>3, <3>1 DEF GuardInv, ReadOK, Persisted, GoneInv
    <3> QED BY <1>0, <2>1, <3>1, <3>2 DEF ServerObj
  <2> QED BY <2>2, <2>3
<1> QED BY <1>1, <1>2 DEF PatchMeta

\* The status patch is a report of the lifecycle.
Reports(id, state) ==
  /\ \/ id = obj.instanceID /\ state = "ERROR"
     \/ id \in 1..instIDs /\ obj.instanceID \in {0, id}
  /\ View(obj') = [View(obj) EXCEPT !.id = id, !.state = state, !.ready = state = "ACTIVE"]

\* A patch of the status shows nothing new or is a report.
LEMMA StatusView ==
  ASSUME TypeInv, SyncInv, GoneInv, PatchStatus
  PROVE  \/ View(obj') = View(obj)
         \/ obj.exists /\ \E id \in 0..MaxInstID, state \in States : Reports(id, state)
<1>0. obj \in ServerObj /\ w \in ServerObj /\ pc = "patchStatus"
  BY DEF TypeInv, ObjectsOK, PatchStatus
<1>1. CASE obj' = obj
  BY <1>1
<1>2. CASE obj' = PatchedStatus(obj) /\ obj.exists
  <2>1. /\ KeepsStatus(obj', w) /\ obj'.exists = obj.exists /\ obj'.deleting = obj.deleting
        /\ obj'.finalizer = obj.finalizer
    BY <1>0, <1>2, StatusFields
  <2>2. KeepsStatus(obj, base) /\ ReportOK
    BY <1>0 DEF SyncInv, SameStatus, GoneInv
  <2>3. /\ View(obj) = Shown(TRUE, obj.deleting, obj.finalizer, obj.instanceID, obj.instanceState, obj.ready)
        /\ View(obj') = Shown(TRUE, obj.deleting, obj.finalizer, w.instanceID, w.instanceState, w.ready)
    BY <1>2, <2>1 DEF View, KeepsStatus
  <2>4. ASSUME w.ready = (w.instanceState = "ACTIVE")
        PROVE  View(obj') = [View(obj) EXCEPT !.id = w.instanceID, !.state = w.instanceState,
                                              !.ready = w.instanceState = "ACTIVE"]
    <3>1. [Shown(TRUE, obj.deleting, obj.finalizer, obj.instanceID, obj.instanceState, obj.ready)
             EXCEPT !.id = w.instanceID, !.state = w.instanceState, !.ready = w.instanceState = "ACTIVE"]
            = Shown(TRUE, obj.deleting, obj.finalizer, w.instanceID, w.instanceState, w.instanceState = "ACTIVE")
      <4> DEFINE e == TRUE d == obj.deleting f == obj.finalizer i == obj.instanceID
                 s == obj.instanceState r == obj.ready
                 j == w.instanceID t == w.instanceState q == w.instanceState = "ACTIVE"
      <4> HIDE DEF e, d, f, i, s, r, j, t, q
      <4>1. ReportOn(Shown(e, d, f, i, s, r), j, t, q) = Shown(e, d, f, j, t, q)
        BY ShownReport
      <4> QED BY <4>1 DEF ReportOn, e, d, f, i, s, r, j, t, q
    <3> QED BY <2>3, <2>4, <3>1, Zenon
  <2>5. CASE KeepsStatus(w, base)
    BY <2>2, <2>3, <2>5 DEF KeepsStatus
  <2>6. CASE w.instanceID = base.instanceID /\ w.instanceState = "ERROR" /\ ~w.ready
    <3>1. w.ready = FALSE /\ (w.instanceState = "ACTIVE") = FALSE
      BY <1>0, <2>6 DEF ServerObj
    <3>2. w.instanceID = obj.instanceID /\ w.instanceID \in 0..MaxInstID /\ w.instanceState \in States
      BY <1>0, <2>2, <2>6 DEF KeepsStatus, ServerObj, States
    <3>3. Reports(w.instanceID, w.instanceState)
      BY <2>4, <2>6, <3>1, <3>2, Zenon DEF Reports
    <3> QED BY <1>2, <3>2, <3>3
  <2>7. CASE /\ w.instanceID \in 1..instIDs /\ base.instanceID \in {NoID, w.instanceID}
             /\ w.instanceState \in States /\ w.ready = (w.instanceState = "ACTIVE")
    <3>1. obj.instanceID \in {0, w.instanceID} /\ w.instanceID \in 0..MaxInstID
      BY <1>0, <2>2, <2>7 DEF KeepsStatus, ServerObj
    <3>2. Reports(w.instanceID, w.instanceState)
      BY <2>4, <2>7, <3>1, Zenon DEF Reports
    <3> QED BY <1>2, <2>7, <3>1, <3>2
  <2> QED BY <2>2, <2>5, <2>6, <2>7 DEF ReportOK
<1> QED BY <1>1, <1>2 DEF PatchStatus


\* What deletion and a move show the owner.
LEMMA DeleteView ==
  ASSUME TypeInv, DeleteObject
  PROVE  View(obj') = IF obj.finalizer THEN [View(obj) EXCEPT !.deleting = TRUE] ELSE NotShown
<1>0. obj \in ServerObj /\ obj.exists
  BY DEF TypeInv, ObjectsOK, DeleteObject
<1>1. CASE obj.finalizer
  <2>1. /\ obj'.exists /\ obj'.deleting = TRUE /\ obj'.finalizer = obj.finalizer
        /\ KeepsStatus(obj', obj)
    BY <1>0, <1>1 DEF DeleteObject, ServerObj, KeepsStatus
  <2>2. View(obj') = Shown(TRUE, TRUE, obj.finalizer, obj.instanceID, obj.instanceState, obj.ready)
    BY <2>1 DEF View, KeepsStatus
  <2>3. View(obj) = Shown(TRUE, obj.deleting, obj.finalizer, obj.instanceID, obj.instanceState, obj.ready)
    BY <1>0 DEF View
  <2>4. [Shown(TRUE, obj.deleting, obj.finalizer, obj.instanceID, obj.instanceState, obj.ready)
           EXCEPT !.deleting = TRUE]
          = Shown(TRUE, TRUE, obj.finalizer, obj.instanceID, obj.instanceState, obj.ready)
    <3> DEFINE e == TRUE d == obj.deleting f == obj.finalizer i == obj.instanceID
               s == obj.instanceState r == obj.ready
    <3> HIDE DEF e, d, f, i, s, r
    <3>1. [Shown(e, d, f, i, s, r) EXCEPT !.deleting = e] = Shown(e, e, f, i, s, r)
      BY ShownDeleting
    <3> QED BY <3>1 DEF e, d, f, i, s, r
  <2> QED BY <1>1, <2>2, <2>3, <2>4, Zenon
<1>2. CASE ~obj.finalizer
  <2>1. ~obj'.exists
    BY <1>0, <1>2 DEF DeleteObject, ServerObj
  <2> QED BY <1>2, <2>1 DEF View
<1> QED BY <1>1, <1>2

\* A move shows a new object without status.
LEMMA MoveView ==
  ASSUME TypeInv, Move
  PROVE  View(obj') = Shown(TRUE, FALSE, obj.finalizer, NoID, "none", FALSE)
<1>1. /\ obj'.exists /\ obj'.deleting = FALSE /\ obj'.finalizer = obj.finalizer
      /\ obj'.instanceID = NoID /\ obj'.instanceState = "none" /\ obj'.ready = FALSE
  BY DEF Move, NewServer
<1> QED BY <1>1, Zenon DEF View

\* A new object, as the owner sees it.
LEMMA ShownNew ==
  ASSUME NEW f
  PROVE  /\ [NotShown EXCEPT !.exists = TRUE] = Shown(TRUE, FALSE, FALSE, NoID, "none", FALSE)
         /\ [[NotShown EXCEPT !.exists = TRUE] EXCEPT !.finalizer = f]
              = Shown(TRUE, FALSE, f, NoID, "none", FALSE)
<1> DEFINE e == TRUE n == FALSE i == NoID s == "none"
<1>1. NotShown = Shown(n, n, n, i, s, n)
  BY DEF NotShown, Shown
<1> HIDE DEF e, n, i, s
<1>2. [Shown(n, n, n, i, s, n) EXCEPT !.exists = e] = Shown(e, n, n, i, s, n)
  BY DEF Shown
<1>3. [Shown(e, n, n, i, s, n) EXCEPT !.finalizer = f] = Shown(e, n, f, i, s, n)
  BY ShownFinalizer
<1>4. /\ [NotShown EXCEPT !.exists = e] = Shown(e, n, n, i, s, n)
      /\ [[NotShown EXCEPT !.exists = e] EXCEPT !.finalizer = f] = Shown(e, n, f, i, s, n)
  BY <1>1, <1>2, <1>3, Zenon
<1> QED BY <1>4 DEF e, n, i, s

\* Every step is a step of the lifecycle or leaves the owner's view as it is.
LEMMA Simulation ==
  ASSUME TypeInv, GuardInv, SyncInv, InstInv, GoneInv, [Next]_vars
  PROVE  [Lifecycle!Next]_(Lifecycle!lifecycle)
<1> DEFINE server == IF obj.exists THEN OwnersView
                     ELSE [exists |-> FALSE, deleting |-> FALSE, finalizer |-> FALSE,
                           id |-> NoID, state |-> "none", ready |-> FALSE]
           live == {x.id : x \in LiveInstances}
<1>0. obj \in ServerObj /\ instIDs \in Nat /\ MaxInstID \in Nat
  BY ConstantsAssumption DEF TypeInv, ObjectsOK, CloudOK
<1>1. server = View(obj) /\ server' = View(obj') /\ live = LiveIDs /\ live' = LiveIDs'
  BY DEF View, OwnersView, Shown, NotShown, LiveIDs
<1>2. /\ View(obj).exists = obj.exists
      /\ obj.exists => View(obj).deleting = obj.deleting /\ View(obj).finalizer = obj.finalizer
                       /\ View(obj).id = obj.instanceID
  BY <1>0 DEF View, Shown, NotShown, ServerObj
<1>3. CASE /\ CreateInstance /\ pc = "create" /\ LiveIDs = {} /\ LiveIDs' = {instIDs + 1}
           /\ instIDs' = instIDs + 1
  <2>1. instIDs < MaxInstID /\ obj' = obj /\ moves' = moves
    BY <1>0, <1>3 DEF CreateInstance, CanCreate, At, kube, env
  <2>2. obj.exists /\ obj.finalizer
    BY <1>3 DEF GuardInv, ReadOK, SyncInv, NormalSteps
  <2>3. server.exists /\ server.finalizer /\ server' = server
    BY <1>1, <1>2, <2>1, <2>2
  <2> HIDE DEF server, live
  <2>4. Lifecycle!Launch
    BY <1>1, <1>3, <2>1, <2>3 DEF Lifecycle!Launch, server, live
  <2> QED BY <2>4 DEF Lifecycle!Next
<1>4. CASE instIDs' = instIDs /\ LiveIDs' # LiveIDs /\ \E n \in LiveIDs : LiveIDs' = LiveIDs \ {n}
  <2>1. insts' # insts
    BY <1>4 DEF LiveIDs, LiveInstances
  <2>2. obj' = obj /\ moves' = moves
    BY <2>1, Frame DEF CreateInstance, DeleteServer, NovaFinishes, NovaToggles, LoseInstance, kube, env, At
  <2>3. server' = server
    BY <1>1, <2>2
  <2> HIDE DEF server, live
  <2>4. Lifecycle!Vanish
    BY <1>1, <1>4, <2>2, <2>3 DEF Lifecycle!Vanish, server, live
  <2> QED BY <2>4 DEF Lifecycle!Next
<1>5. CASE instIDs' = instIDs /\ LiveIDs' = LiveIDs
  <2>1. ASSUME server' = server, moves' = moves PROVE UNCHANGED Lifecycle!lifecycle
    BY <1>1, <1>5, <2>1 DEF Lifecycle!lifecycle
  <2>2. CASE PatchMeta
    <3>1. moves' = moves
      BY <2>2 DEF PatchMeta, At, env
    <3>2. CASE View(obj') = View(obj)
      BY <1>1, <2>1, <3>1, <3>2
    <3>3. CASE /\ obj.exists /\ ~obj.deleting /\ ~obj.finalizer
               /\ View(obj') = [View(obj) EXCEPT !.finalizer = TRUE]
      <4>1. server.exists /\ ~server.deleting /\ ~server.finalizer
        BY <1>1, <1>2, <3>3
      <4>2. server' = [server EXCEPT !.finalizer = TRUE]
        BY <1>1, <3>3, Zenon
      <4> HIDE DEF server, live
      <4>3. Lifecycle!Protect
        BY <1>1, <1>5, <3>1, <4>1, <4>2 DEF Lifecycle!Protect, server, live
      <4> QED BY <4>3 DEF Lifecycle!Next
    <3>4. CASE obj.exists /\ obj.deleting /\ LiveInstances = {} /\ ~obj'.exists
      <4>1. server.exists /\ server.deleting /\ live = {}
        BY <1>1, <1>2, <3>4
      <4>2. server' = NotShown
        BY <1>1, <3>4 DEF View
      <4> HIDE DEF server, live
      <4>3. Lifecycle!Remove
        BY <1>1, <1>5, <3>1, <4>1, <4>2 DEF Lifecycle!Remove, Lifecycle!NoServer, NotShown, server, live
      <4> QED BY <4>3 DEF Lifecycle!Next
    <3> QED BY <2>2, <3>2, <3>3, <3>4, MetaView
  <2>3. CASE PatchStatus
    <3>1. moves' = moves
      BY <2>3 DEF PatchStatus, env
    <3>2. CASE View(obj') = View(obj)
      BY <1>1, <2>1, <3>1, <3>2
    <3>3. ASSUME NEW id \in 0..MaxInstID, NEW state \in States, Reports(id, state), obj.exists
          PROVE  Lifecycle!Next
      <4>1. server.exists /\ server.id = obj.instanceID
        BY <1>1, <1>2, <3>3
      <4>2. server' = [server EXCEPT !.id = id, !.state = state, !.ready = state = "ACTIVE"]
        BY <1>1, <3>3, Zenon DEF Reports
      <4>3. \/ id = server.id /\ state = "ERROR"
            \/ id \in 1..instIDs /\ server.id \in {0, id}
        BY <3>3, <4>1 DEF Reports
      <4> HIDE DEF server, live
      <4>4. Lifecycle!Report(id, state)
        BY <1>1, <1>5, <3>1, <4>1, <4>2, <4>3 DEF Lifecycle!Report, server, live
      <4>5. state \in Lifecycle!ServerStates \ {"none"}
        BY DEF States, Lifecycle!ServerStates
      <4> QED BY <4>4, <4>5 DEF Lifecycle!Next
    <3> QED BY <2>3, <3>2, <3>3, StatusView
  <2>4. CASE DeleteObject
    <3>1. moves' = moves /\ obj.exists /\ ~obj.deleting
      BY <2>4 DEF DeleteObject, env
    <3>2. server.exists /\ ~server.deleting /\ server.finalizer = obj.finalizer
      BY <1>1, <1>2, <3>1
    <3>3. server' = IF server.finalizer THEN [server EXCEPT !.deleting = TRUE] ELSE NotShown
      BY <1>1, <2>4, <3>2, DeleteView, Zenon
    <3> HIDE DEF server, live
    <3>4. Lifecycle!Delete
      BY <1>1, <1>5, <3>1, <3>2, <3>3
         DEF Lifecycle!Delete, Lifecycle!Deleted, Lifecycle!NoServer, NotShown, server, live
    <3> QED BY <3>4 DEF Lifecycle!Next
  <2>5. CASE Move
    <3>1. moves' = moves + 1 /\ moves < MaxMoves /\ obj.exists /\ ~obj.deleting
      BY <2>5 DEF Move
    <3>2. server.exists /\ ~server.deleting /\ server.finalizer = obj.finalizer
      BY <1>1, <1>2, <3>1
    <3>3. server' = Shown(TRUE, FALSE, server.finalizer, NoID, "none", FALSE)
      BY <1>1, <2>5, <3>2, MoveView
    <3> HIDE DEF server, live
    <3>4. server' = [[NotShown EXCEPT !.exists = TRUE] EXCEPT !.finalizer = server.finalizer]
      BY <3>3, ShownNew, Zenon
    <3>5. Lifecycle!Move
      BY <1>1, <1>5, <3>1, <3>2, <3>4
         DEF Lifecycle!Move, Lifecycle!Moved, Lifecycle!NewServer, Lifecycle!NoServer, NotShown, server, live
    <3> QED BY <3>5 DEF Lifecycle!Next
  <2>6. CASE obj' = obj /\ ~Move
    BY <1>1, <2>1, <2>6, Frame
  <2> QED BY <2>2, <2>3, <2>4, <2>5, <2>6, Frame
<1> QED BY <1>3, <1>4, <1>5, LiveIDsStep

\* With fresh reads the controller implements the lifecycle that the OpenStackMachine and
\* OpenStackCluster controllers rely on: one instance at a time and only for a protected
\* object, an instance ID that never changes, no state that stems from Nova without it, and
\* no removal of the object before its instance.
THEOREM ImplementsOwnersView ==
  ASSUME ~StaleServer
  PROVE  Spec => ImplementsLifecycle
<1>1. Init => SyncInv /\ InstInv /\ GoneInv
  BY DEF Init, SyncInv, InstInv, InstIDsOK, OneInstance, Several, LiveInstances, GoneInv,
     LastID, NewServer, NormalSteps
<1>2. Init => Lifecycle!Init
  <2> SUFFICES ASSUME Init PROVE Lifecycle!Init
    OBVIOUS
  <2>1. obj = NewServer /\ insts = {} /\ instIDs = 0 /\ moves = 0
    BY DEF Init
  <2>2. {x.id : x \in LiveInstances} = {}
    BY <2>1 DEF LiveInstances
  <2> DEFINE server == IF obj.exists THEN OwnersView
                       ELSE [exists |-> FALSE, deleting |-> FALSE, finalizer |-> FALSE,
                             id |-> NoID, state |-> "none", ready |-> FALSE]
  <2>3. server = Shown(TRUE, FALSE, FALSE, NoID, "none", FALSE)
    BY <2>1 DEF NewServer, OwnersView, Shown
  <2>4. server = [NotShown EXCEPT !.exists = TRUE]
    BY <2>3, ShownNew, Zenon
  <2> HIDE DEF server
  <2> QED BY <2>1, <2>2, <2>4
         DEF Lifecycle!Init, Lifecycle!NewServer, Lifecycle!NoServer, NotShown, server
<1> QED
  BY <1>1, <1>2, Simulation, TypeInit, TypeNext, GuardInit, GuardNext, SyncNext, InstNext, GoneNext, PTL
     DEF Spec, ImplementsLifecycle, Lifecycle!Spec


-----------------------------------------------------------------------------
(* Everything goes before the finalizer *)

\* reconcileDelete has come to its end: the metadata patch will remove the object.
Dropped == pc = "patchMeta" /\ base.finalizer /\ ~w.finalizer

\* Volumes that are left belong to an instance that is, too: Nova will delete them.
VolInv ==
  /\ pc \in {"dInstance", "dPoll"} => InstanceByID(inst.id) # {} \/ vols = {}
  /\ pc = "dVolumes" => \A v \in vols : v >= k
  /\ pc \in {"dPorts", "dClaim"} \/ Dropped => vols = {} \/ insts # {}

\* Every port is in the list that reconcileDelete goes through, at its own place.
ListInv ==
  /\ pc \in {"dGet", "dInstance", "dPoll", "dVolumes"} => \A p \in ports : p.idx <= Len(w.ports)
  /\ pc = "dPorts" => \A p \in ports : k <= p.idx /\ p.idx <= Len(w.ports)
  /\ pc = "dClaim" \/ Dropped => ports = {}

\* The claim is let go.
ClaimInv ==
  /\ ~UsesPool => ~claim.exists
  /\ Dropped => (claim.exists => ~claim.finalizer)

CleanInv == VolInv /\ ListInv /\ ClaimInv

\* The finalizer is dropped at the end of reconcileDelete only.
LEMMA DroppedFlow ==
  ASSUME TypeInv, SyncInv, [Next]_vars, Dropped'
  PROVE  \/ Dropped /\ UNCHANGED <<pc, base, w, k, inst>>
         \/ ReleaseClaim /\ pc = "dClaim" /\ w.finalizer /\ ~w'.finalizer
<1>0. pc' = "patchMeta" /\ base'.finalizer /\ ~w'.finalizer
  BY DEF Dropped
<1>1. CASE pc = "idle"
  BY <1>0, <1>1, StartStep DEF FirstStep
<1>2. CASE pc \in {"patchMeta", "patchStatus"}
  BY <1>0, <1>2, PatchFlow DEF Dropped
<1>3. CASE pc \notin {"idle", "patchMeta", "patchStatus"}
  <2>1. base' = base /\ w.finalizer
    BY <1>0, <1>3, WorkFields DEF SyncInv
  <2>2. ReleaseClaim
    BY <1>0, <1>3, <2>1, ResolveProtects, WorkFields
  <2> QED BY <1>0, <2>1, <2>2 DEF ReleaseClaim, At
<1> QED BY <1>1, <1>2, <1>3

\* Volumes come from reconcileNormal only, and go with the last instance.
LEMMA VolStep ==
  ASSUME TypeInv, InstInv, [Next]_vars, pc \notin {"volumes", "create"}
  PROVE  /\ vols' \subseteq vols /\ Aged(insts')
         /\ (\A y \in insts : \E x \in insts' : x.id = y.id) \/ vols' = {}
         /\ vols = {} \/ insts # {} => vols' = {} \/ insts' # {}
<1>1. vols' \subseteq vols
  <2>1. ~GetOrCreateVolume
    BY DEF GetOrCreateVolume, At
  <2> QED BY <2>1, Frame DEF DeleteVolume, NovaFinishes, LoseInstance, Gone
<1>2. Aged(insts') /\ ((\A y \in insts : \E x \in insts' : x.id = y.id) \/ vols' = {})
  BY InstStep DEF InstInv
<1> QED BY <1>1, <1>2

\* Every step keeps the volumes that are left with an instance that takes them along.
LEMMA VolNext == TypeInv /\ SyncInv /\ InstInv /\ VolInv /\ [Next]_vars => VolInv'
<1> SUFFICES ASSUME TypeInv, SyncInv, InstInv, VolInv, [Next]_vars PROVE VolInv'
  OBVIOUS
<1>0. vols \subseteq 1..NVolumes /\ NVolumes \in Nat /\ k \in Nat
  BY ConstantsAssumption DEF TypeInv, CloudOK, ControlOK
<1>1. ASSUME pc' \in {"dInstance", "dPoll"} PROVE (InstanceByID(inst.id))' # {} \/ vols' = {}
  <2>1. CASE pc \in {"dInstance", "dPoll"} /\ inst' = inst
    <3>1. InstanceByID(inst.id) # {} \/ vols = {}
      BY <2>1 DEF VolInv
    <3> QED BY <2>1, <3>1, VolStep DEF InstanceByID
  <2>2. CASE FoundServer = {inst'} /\ insts' = insts
    BY <2>2 DEF FoundServer, InstanceByID, InstancesByName
  <2> QED BY <1>1, <2>1, <2>2, DeleteFlow
<1>2. ASSUME pc' = "dVolumes" PROVE \A v \in vols' : v >= k'
  <2>1. CASE pc = "dGet" /\ k' = 1
    <3>1. vols' \subseteq 1..NVolumes
      BY <1>0, <2>1, VolStep
    <3> QED BY <1>0, <2>1, <3>1
  <2>2. CASE pc = "dVolumes" /\ k' = k
    BY <1>0, <2>2, VolStep DEF VolInv
  <2>3. CASE DeleteVolume
    <3>1. pc = "dVolumes" /\ vols' = vols \ {k} /\ k' = k + 1
      BY <1>2, <2>3 DEF DeleteVolume, At, Goto, Again, ReturnDelete
    <3> QED BY <1>0, <3>1 DEF VolInv
  <2>4. ~DeletePort
    BY <1>2 DEF DeletePort, At, Goto, Again, ReturnDelete
  <2> QED BY <1>2, <2>1, <2>2, <2>3, <2>4, DeleteFlow
<1>3. ASSUME pc' \in {"dPorts", "dClaim"} PROVE vols' = {} \/ insts' # {}
  <2>1. CASE pc \in {"dPorts", "dClaim"}
    BY <2>1, VolStep DEF VolInv
  <2>2. CASE pc = "dGet" /\ NVolumes = 0
    BY <1>0, <2>2, VolStep
  <2>3. CASE pc = "dInstance" /\ InstanceByID(inst.id) = {}
    BY <2>3, VolStep DEF VolInv
  <2>4. CASE pc = "dPoll"
    BY <2>4, VolStep DEF VolInv, InstanceByID
  <2>5. CASE pc = "dVolumes" /\ DeleteVolume /\ pc' = "dPorts"
    <3>1. vols' = vols \ {k} /\ k = NVolumes
      BY <2>5 DEF DeleteVolume, Goto, Again, ReturnDelete
    <3> QED BY <1>0, <2>5, <3>1 DEF VolInv
  <2> QED BY <1>3, <2>1, <2>2, <2>3, <2>4, <2>5, DeleteFlow
<1>4. ASSUME Dropped' PROVE vols' = {} \/ insts' # {}
  <2>1. pc \in {"dClaim", "patchMeta"} /\ (vols = {} \/ insts # {})
    BY <1>4, DroppedFlow DEF VolInv, Dropped
  <2> QED BY <2>1, VolStep
<1> QED BY <1>1, <1>2, <1>3, <1>4 DEF VolInv


\* A server with one port: adoption finds it, if it exists.
LEMMA AdoptsAll ==
  ASSUME TypeInv, PortInv, NPorts = 1, AdoptForDelete, pc' = "dGet"
  PROVE  \A p \in ports' : p.idx <= Len(w'.ports)
<1>0. /\ w \in ServerObj /\ ports' = ports /\ ports \in SUBSET Port /\ pc = "dAdopt"
      /\ Len(w.ports) \in Nat
  BY WorkList DEF TypeInv, ObjectsOK, AdoptForDelete, At, cloud
<1>1. \A p \in ports : p.idx = 1
  BY <1>0 DEF Port
<1>2. SUFFICES ASSUME NEW p \in ports PROVE Len(w'.ports) = 1
  <2>1. SUFFICES ASSUME NEW p \in ports PROVE p.idx <= Len(w'.ports)
    BY <1>0
  <2>2. Len(w'.ports) = 1 /\ p.idx = 1
    BY <1>1
  <2>3. 1 <= 1
    OBVIOUS
  <2> QED BY <2>2, <2>3, Zenon
<1>3. DesiredPorts(w) = 1
  BY <1>0 DEF PortInv, ResolvedSteps, DeleteSteps, DesiredPorts
<1>4. \/ DesiredPorts(w) = Len(w.ports) /\ w' = [w EXCEPT !.hasResources = TRUE]
      \/ \E m \in Len(w.ports)..NPorts :
           AdoptionReach(w, m) /\ w' = [w EXCEPT !.hasResources = TRUE, !.ports = Adopted(w, m)]
  <2>1. Return("error") => pc' = "patchMeta"
    BY DEF Return
  <2> QED BY <2>1, Zenon DEF AdoptForDelete, AdoptServerResources
<1>5. CASE DesiredPorts(w) = Len(w.ports) /\ w' = [w EXCEPT !.hasResources = TRUE]
  <2>1. w'.ports = w.ports
    BY <1>0, <1>5 DEF ServerObj
  <2> QED BY <1>3, <1>5, <2>1, Zenon
<1>6. ASSUME NEW m \in Len(w.ports)..NPorts, AdoptionReach(w, m),
             w' = [w EXCEPT !.hasResources = TRUE, !.ports = Adopted(w, m)]
      PROVE  Len(w'.ports) = 1
  <2>1. Named(1) = {p}
    BY <1>1 DEF Named, PortInv, PortIDsOK
  <2>2. m = 1
    <3>1. m \in {0, 1}
      BY <1>0, <1>6
    <3>2. m = 0 => Named(m + 1) = {p}
      BY <2>1
    <3> QED BY <1>6, <3>1, <3>2 DEF AdoptionReach, Single
  <2>3. w'.ports = Adopted(w, m)
    BY <1>0, <1>6 DEF ServerObj
  <2>4. Known(w.ports, ports) /\ m \in Len(w.ports)..m
    BY <1>0, <1>6, <2>2 DEF PortInv, CopyOK
  <2>5. Len(Adopted(w, m)) = m
    BY <1>6, <2>4, AdoptedPorts
  <2> QED BY <2>2, <2>3, <2>5, Zenon
<1> QED BY <1>4, <1>5, <1>6, Zenon

\* The delete path gets to its instance from adoption only.
LEMMA GetFlow ==
  ASSUME TypeInv, [Next]_vars, pc' = "dGet"
  PROVE  AdoptForDelete \/ pc = "dGet"
<1> USE DEF At, Goto, Return, ReturnDelete, Again
<1>1. CASE Start
  BY <1>1 DEF Start, FirstStep
<1>2. CASE ResolveServerSpec
  BY <1>2 DEF ResolveServerSpec
<1>3. CASE Adopt
  BY <1>3, AdoptFlow DEF Adopt
<1>4. CASE ReconcileFloatingAddressFromPool \/ ReleaseClaim
  BY <1>4 DEF ReconcileFloatingAddressFromPool, ReleaseClaim
<1>5. CASE EnsurePort
  BY <1>5 DEF EnsurePort, NextPort, PortFailed
<1>6. CASE GetServer
  BY <1>6 DEF GetServer
<1>7. CASE GetOrCreateVolume \/ CreateInstance
  BY <1>7 DEF GetOrCreateVolume, CreateInstance, CreateFailed
<1>8. CASE AssociateIPAddress \/ ReportStatus
  BY <1>8 DEF AssociateIPAddress, ReportStatus
<1>9. CASE GetServerStatus \/ DeleteVolume \/ DeleteServer \/ PollInstanceDeleted \/ DeletePort
  BY <1>9 DEF GetServerStatus, DeleteVolume, DeleteServer, PollInstanceDeleted, DeletePort
<1>10. CASE PatchMeta \/ PatchStatus \/ Crash
  BY <1>10 DEF PatchMeta, PatchStatus, Finish, Crash
<1>11. CASE UNCHANGED <<pc, base, w, k, inst>>
  BY <1>11
<1> QED BY <1>1, <1>2, <1>3, <1>4, <1>5, <1>6, <1>7, <1>8, <1>9, <1>10, <1>11, Frame DEF Worker

\* Every step keeps all ports in the list that reconcileDelete works off.
LEMMA ListNext ==
  ASSUME MaxPortLosses = 0, NPorts = 1
  PROVE  TypeInv /\ SyncInv /\ PortInv /\ ListInv /\ [Next]_vars => ListInv'
<1> SUFFICES ASSUME TypeInv, SyncInv, PortInv, ListInv, [Next]_vars PROVE ListInv'
  OBVIOUS
<1>0. /\ ports \in SUBSET Port /\ k \in Nat /\ Len(w.ports) \in Nat
      /\ \A p \in ports : p.idx \in 1..NPorts
  BY WorkList DEF Port
<1>1. ASSUME pc \in DeleteSteps, pc' \in DeleteSteps, ~AdoptForDelete PROVE w'.ports = w.ports
  <2>1. ~Adopt /\ ~EnsurePort /\ pc # "idle" /\ pc' # "idle"
    BY <1>1 DEF Adopt, EnsurePort, At, DeleteSteps
  <2> QED BY <1>1, <2>1, WorkFields
<1>2. pc \in DeleteSteps => ports' \subseteq ports /\ (pc # "dPorts" => ports' = ports)
  BY PortStep DEF DeleteSteps
<1>3. ASSUME pc' = "dGet" PROVE \A p \in ports' : p.idx <= Len(w'.ports)
  <2>1. AdoptForDelete \/ (pc = "dGet" /\ ~AdoptForDelete)
    BY <1>3, GetFlow DEF AdoptForDelete, At
  <2>2. CASE pc = "dGet" /\ ~AdoptForDelete
    BY <1>1, <1>2, <1>3, <2>2 DEF ListInv, DeleteSteps
  <2> QED BY <1>3, <2>1, <2>2, AdoptsAll
<1>4. ASSUME pc' \in {"dInstance", "dPoll", "dVolumes", "dPorts", "dClaim"}
      PROVE  /\ pc \in DeleteSteps \ {"dAdopt"} /\ w'.ports = w.ports /\ ports' \subseteq ports
             /\ pc \notin {"dPorts", "dClaim"} => \A p \in ports' : p.idx <= Len(w'.ports)
  <2>1. pc \in {"dGet", "dInstance", "dPoll", "dVolumes", "dPorts", "dClaim"}
    BY <1>4, DeleteFlow
  <2>2. w'.ports = w.ports /\ ports' \subseteq ports
    BY <1>1, <1>2, <1>4, <2>1 DEF AdoptForDelete, At, DeleteSteps
  <2> QED BY <2>1, <2>2 DEF ListInv, DeleteSteps
<1>5. ASSUME pc' \in {"dInstance", "dPoll", "dVolumes"} PROVE \A p \in ports' : p.idx <= Len(w'.ports)
  <2>1. pc \notin {"dPorts", "dClaim"}
    BY <1>5, DeleteFlow
  <2> QED BY <1>4, <1>5, <2>1
<1>6. ASSUME pc' = "dPorts" PROVE \A p \in ports' : k' <= p.idx /\ p.idx <= Len(w'.ports)
  <2>1. CASE pc # "dPorts"
    <3>1. pc # "dClaim" /\ k' = 1
      BY <1>6, <2>1, DeleteFlow
    <3> QED BY <1>0, <1>4, <1>6, <2>1, <3>1
  <2>2. CASE pc = "dPorts" /\ k' = k
    BY <1>4, <1>6, <2>2 DEF ListInv
  <2>3. CASE pc = "dPorts" /\ DeletePort /\ k' # k
    <3>1. k' = k + 1 /\ k <= Len(w.ports) /\ ports' = {p \in ports : p.id # w.ports[k]}
      BY <1>6, <2>3 DEF DeletePort, Goto, Again, ReturnDelete
    <3>2. \A p \in ports : k <= p.idx /\ p.idx <= Len(w.ports) /\ p.id = w.ports[p.idx]
      BY <2>3 DEF ListInv, PortInv, CopyOK, Known
    <3>3. ASSUME NEW p \in ports' PROVE k + 1 <= p.idx /\ p.idx <= Len(w.ports)
      <4>1. p \in ports /\ p.idx # k
        BY <3>1, <3>2
      <4> QED BY <1>0, <3>2, <4>1
    <3> QED BY <1>4, <1>6, <3>1, <3>3
  <2>4. ~(pc = "dPorts" /\ DeleteVolume)
    BY DEF DeleteVolume, At
  <2> QED BY <1>6, <2>1, <2>2, <2>3, <2>4, DeleteFlow
<1>7. ASSUME pc' = "dClaim" PROVE ports' = {}
  <2>1. CASE pc = "dClaim"
    BY <1>4, <1>7, <2>1 DEF ListInv
  <2>2. CASE pc = "dPorts" /\ DeletePort
    <3>0. \A p \in ports : k <= p.idx /\ p.idx <= Len(w.ports) /\ p.id = w.ports[p.idx]
      BY <2>2 DEF ListInv, PortInv, CopyOK, Known
    <3>1. CASE Len(w.ports) = 0
      BY <1>0, <1>4, <1>7, <3>0, <3>1
    <3>2. CASE Len(w.ports) # 0
      <4>1. k = Len(w.ports) /\ ports' = {p \in ports : p.id # w.ports[k]}
        BY <1>7, <2>2, <3>2 DEF DeletePort, Goto, Again, ReturnDelete
      <4>2. \A p \in ports : p.idx = k
        BY <1>0, <3>0, <4>1
      <4> QED BY <3>0, <4>1, <4>2
    <3> QED BY <3>1, <3>2
  <2> QED BY <1>7, <2>1, <2>2, DeleteFlow
<1>8. ASSUME Dropped' PROVE ports' = {}
  <2>1. pc \in {"dClaim", "patchMeta"} /\ ports = {}
    BY <1>8, DroppedFlow DEF ListInv, Dropped
  <2> QED BY <2>1, PortStep
<1> QED BY <1>3, <1>5, <1>6, <1>7, <1>8 DEF ListInv

\* The finalizer is not dropped before the claim has been let go.
LEMMA ClaimNext ==
  ASSUME ~StaleClaim
  PROVE  TypeInv /\ SyncInv /\ ClaimInv /\ [Next]_vars => ClaimInv'
<1> SUFFICES ASSUME TypeInv, SyncInv, ClaimInv, [Next]_vars PROVE ClaimInv'
  OBVIOUS
<1>0. claim \in ClaimObj
  BY DEF TypeInv, ObjectsOK
<1>1. ASSUME ~UsesPool PROVE ~claim'.exists
  <2>1. ReconcileFloatingAddressFromPool \/ ReleaseClaim => claim' = claim
    BY <1>1 DEF ReconcileFloatingAddressFromPool, ReleaseClaim
  <2>2. Move => claim'.exists = claim.exists
    BY <1>0 DEF Move, ClaimObj
  <2>3. PoolAllocates \/ CollectClaim => claim.exists
    BY DEF PoolAllocates, CollectClaim
  <2> QED BY <1>1, <2>1, <2>2, <2>3, Frame DEF ClaimInv
<1>2. ASSUME Dropped' PROVE claim'.exists => ~claim'.finalizer
  <2>1. CASE Dropped /\ UNCHANGED <<pc, base, w, k, inst>>
    <3>1. claim.exists => ~claim.finalizer
      BY <2>1 DEF ClaimInv
    <3>2. ~ReconcileFloatingAddressFromPool /\ ~ReleaseClaim /\ ~Move
      BY <2>1 DEF Dropped, ReconcileFloatingAddressFromPool, ReleaseClaim, Move, At
    <3>3. CASE PoolAllocates \/ CollectClaim
      BY <1>0, <3>1, <3>3 DEF PoolAllocates, CollectClaim, ClaimObj
    <3> QED BY <3>1, <3>2, <3>3, Frame
  <2>2. CASE ReleaseClaim /\ w.finalizer /\ ~w'.finalizer
    <3>1. \/ (~UsesPool \/ ~claim.exists) /\ claim' = claim
          \/ claim' = Released
      BY <2>2 DEF ReleaseClaim
    <3>2. ~Released.finalizer
      BY <1>0 DEF Released, ClaimObj
    <3> QED BY <3>1, <3>2 DEF ClaimInv
  <2> QED BY <1>2, <2>1, <2>2, DroppedFlow
<1> QED BY <1>1, <1>2 DEF ClaimInv

\* With fresh reads, a server with one port leaves nothing behind: the finalizer goes only
\* when the instance and its ports are gone, its volumes are gone or left to a deleted
\* instance that Nova has yet to reclaim, and the claim has been let go, whatever fails
\* and wherever the controller crashes.
THEOREM RemovedClean ==
  ASSUME ~StaleServer, ~StaleClaim, MaxPortLosses = 0, NPorts = 1
  PROVE  Spec => FinalizerRemovedClean
<1>1. Init => SyncInv /\ InstInv /\ GoneInv /\ PortInv /\ CleanInv
  <2> SUFFICES ASSUME Init PROVE SyncInv /\ InstInv /\ GoneInv /\ PortInv /\ CleanInv
    OBVIOUS
  <2>1. SyncInv /\ PortInv
    BY ConstantsAssumption DEF Init, SyncInv, PortInv, PortIDsOK, CopyOK, Known, There, NewServer,
       NormalSteps, DeleteSteps, ResolvedSteps, AdoptedSteps
  <2>2. InstInv /\ GoneInv
    BY DEF Init, InstInv, InstIDsOK, OneInstance, Several, LiveInstances, GoneInv,
       LastID, NewServer, NormalSteps
  <2>3. CleanInv
    BY DEF Init, CleanInv, VolInv, ListInv, ClaimInv, Dropped, NoClaim
  <2> QED BY <2>1, <2>2, <2>3
<1>2. TypeInv /\ SyncInv /\ InstInv /\ PortInv /\ CleanInv /\ [Next]_vars => CleanInv'
  BY VolNext, ListNext, ClaimNext DEF CleanInv
<1>3. TypeInv /\ GuardInv /\ SyncInv /\ GoneInv /\ CleanInv /\ [Next]_vars =>
        [obj.exists /\ obj.finalizer /\ ~obj'.exists => CloudReleased]_vars
  <2> SUFFICES ASSUME TypeInv, SyncInv, GoneInv, CleanInv, [Next]_vars,
                      obj.exists, obj.finalizer, ~obj'.exists
               PROVE  CloudReleased
    OBVIOUS
  <2>0. obj \in ServerObj /\ w \in ServerObj /\ base \in ServerObj
    BY DEF TypeInv, ObjectsOK
  <2>1. PatchMeta
    <3>1. ~PatchStatus
      BY StatusGuard
    <3>2. ~DeleteObject
      BY <2>0 DEF DeleteObject, ServerObj
    <3>3. ~Move
      BY DEF Move, NewServer
    <3> QED BY <3>1, <3>2, <3>3, Frame
  <2>2. pc = "patchMeta" /\ base.finalizer
    BY <2>1 DEF PatchMeta, At, SyncInv
  <2>3. ~w.finalizer
    BY <2>0, <2>1, <2>2 DEF PatchMeta, PatchedMeta, ServerObj
  <2> QED BY <2>2, <2>3 DEF CloudReleased, CleanInv, VolInv, ListInv, ClaimInv, Dropped, GoneInv
<1> QED
  BY <1>1, <1>2, <1>3, TypeInit, TypeNext, GuardInit, GuardNext, SyncNext, InstNext, GoneNext,
     PortNext, PTL
     DEF Spec, FinalizerRemovedClean

=============================================================================
