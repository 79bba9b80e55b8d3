--------------------------- MODULE ServerLifecycle ---------------------------
(***************************************************************************)
(* What the OpenStackServer controller promises to the controllers that own *)
(* an OpenStackServer and read its status: the OpenStackMachine controller   *)
(* and, for the bastion, the OpenStackCluster controller.  OpenStackServer   *)
(* implements it; OpenStackMachine is composed with it.                      *)
(***************************************************************************)
EXTENDS Naturals

CONSTANTS MaxInstances,  \* bound: instances ever launched
          MaxMoves       \* bound: clusterctl moves

VARIABLES server,    \* the OpenStackServer object, as its owner sees it
          live,      \* instances of the server that Nova runs
          launched,  \* number of instances ever launched
          moves

lifecycle == <<server, live, launched, moves>>

ServerStates == {"none", "BUILD", "ACTIVE", "ERROR", "SHUTOFF", "DELETING",
                 "DELETED", "SOFT_DELETED"}

Server == [exists : BOOLEAN, deleting : BOOLEAN, finalizer : BOOLEAN,
           id : 0..MaxInstances, state : ServerStates, ready : BOOLEAN]

NoServer == [exists |-> FALSE, deleting |-> FALSE, finalizer |-> FALSE,
             id |-> 0, state |-> "none", ready |-> FALSE]

NewServer == [NoServer EXCEPT !.exists = TRUE]

Init ==
  /\ server \in {NoServer, NewServer}
  /\ live = {} /\ launched = 0 /\ moves = 0

\* The owner creates the object.
Create ==
  /\ ~server.exists /\ server' = NewServer
  /\ UNCHANGED <<live, launched, moves>>

\* The finalizer is persisted before anything is created.
Protect ==
  /\ server.exists /\ ~server.deleting /\ ~server.finalizer
  /\ server' = [server EXCEPT !.finalizer = TRUE]
  /\ UNCHANGED <<live, launched, moves>>

\* An instance is launched only for a protected object, and one at a time.
Launch ==
  /\ server.exists /\ server.finalizer /\ live = {} /\ launched < MaxInstances
  /\ launched' = launched + 1 /\ live' = {launched + 1}
  /\ UNCHANGED <<server, moves>>

\* The status: the ID is set once; a state that stems from Nova comes with the
\* ID of the instance, and Ready with ACTIVE only.
Report(id, state) ==
  /\ server.exists
  /\ \/ id = server.id /\ state = "ERROR"
     \/ id \in 1..launched /\ server.id \in {0, id}
  /\ server' = [server EXCEPT !.id = id, !.state = state, !.ready = state = "ACTIVE"]
  /\ UNCHANGED <<live, launched, moves>>

\* An instance ends, by request or behind the controller's back.
Vanish ==
  /\ \E n \in live : live' = live \ {n}
  /\ UNCHANGED <<server, launched, moves>>

\* The owner, or the garbage collector after it, deletes the object.
Deleted == IF server.finalizer THEN [server EXCEPT !.deleting = TRUE] ELSE NoServer

Delete ==
  /\ server.exists /\ ~server.deleting /\ server' = Deleted
  /\ UNCHANGED <<live, launched, moves>>

\* The object goes when no instance is left.
Remove ==
  /\ server.exists /\ server.deleting /\ live = {}
  /\ server' = NoServer
  /\ UNCHANGED <<live, launched, moves>>

\* clusterctl move does not carry the status over.
Moved == IF server.exists THEN [NewServer EXCEPT !.finalizer = server.finalizer] ELSE server

Move ==
  /\ server.exists /\ ~server.deleting /\ moves < MaxMoves
  /\ server' = Moved /\ moves' = moves + 1
  /\ UNCHANGED <<live, launched>>

-----------------------------------------------------------------------------
InstanceStateReportable(state) == state \in {"ACTIVE", "ERROR", "DELETED"}

ReportableWhenEntered(old, new) ==
  IF old.exists /\ new.exists
    THEN old.state # new.state /\ InstanceStateReportable(new.state)
    ELSE ~new.exists

\* OpenStackServerStatusReportable: creations and updates of an OpenStackServer
\* that wake up its owner; a deletion always does.
StatusReportable(old, new) ==
  CASE ~new.exists -> TRUE
    [] new.exists /\ ~old.exists -> new.ready \/ InstanceStateReportable(new.state)
    [] new.exists /\ old.exists ->
         \/ old.ready # new.ready
         \/ /\ old.state # new.state
            /\ InstanceStateReportable(old.state) \/ InstanceStateReportable(new.state)

Next ==
  \/ Create \/ Protect \/ Launch \/ Vanish \/ Delete \/ Remove \/ Move
  \/ \E id \in 0..MaxInstances, state \in ServerStates \ {"none"} : Report(id, state)

Spec == Init /\ [][Next]_lifecycle
=============================================================================
