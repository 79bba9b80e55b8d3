---------------------------- MODULE SecurityGroups ----------------------------
(***************************************************************************)
(* The managed security groups of a cluster.  A reconcile deletes or creates *)
(* the groups, takes a snapshot of the rules they have, compares it with the *)
(* rules that the spec calls for and deletes and creates rules, one call at  *)
(* a time, while users edit the spec and somebody changes rules by hand.     *)
(***************************************************************************)
EXTENDS Naturals, FiniteSets, SequencesExt

CONSTANTS
  AllowAll,      \* the values AllowAllInClusterTraffic may have
  ExtraRules,    \* the values ClusterNodesSecurityGroupRules may have: the remotes of
                 \* one kubelet rule, a sequence of managed groups or <<"any">>
  Ports,         \* AdditionalPorts of the API server's load balancer, a sequence
  Drifting,      \* the services whose rules are removed by hand
  TagSupport,    \* whether Neutron has the standard-attr-tag extension
  FaultClasses,  \* subset of {"openstack", "kube", "crash", "drift"}
  MaxFaults,     \* bound: number of faults in a behaviour
  MaxEdits       \* bound: number of spec edits

Suffix == {"controlplane", "worker", "bastion"}

ASSUME SecurityGroupsAssumption ==
  /\ AllowAll # {} /\ AllowAll \subseteq BOOLEAN /\ TagSupport \in BOOLEAN
  /\ ExtraRules # {} /\ ExtraRules \subseteq Seq(Suffix \cup {"any"})
  /\ Ports \in Seq(STRING)
  /\ FaultClasses \subseteq {"openstack", "kube", "crash", "drift"}
  /\ MaxFaults \in Nat /\ MaxEdits \in Nat

VARIABLES
  spec,      \* what the user asks for
  groups,    \* the groups in Neutron: rules and tags by group ID
  serial,    \* groups created so far, by suffix
  status,    \* the group IDs published in the OpenStackCluster
  bastion,   \* the bastion's group, and whether the bastion is being deleted
  pc, work, todo, observed, result,  \* the worker: its copies of spec and status,
                                     \* the groups to go, the groups it has seen,
  group, deletes, creates,           \* and the rules of one group it is changing
  faults, edits,
  drift      \* how often somebody has changed rules by hand

worker == <<pc, work, todo, observed, result, group, deletes, creates>>
change == <<group, deletes, creates>>
vars   == <<spec, groups, serial, status, bastion, worker, faults, edits, drift>>

\* A group ID is never used twice.
ID   == Suffix \X (Nat \ {0})
None == <<"none", 0>>

Anywhere == <<"any", 0>>
Subnet   == <<"subnet", 0>>
Self     == <<"self", 0>>

\* A rule: what it allows, and from where.  One stands for the TCP and UDP or the
\* IPv4 and IPv6 twins that the code always lists together.
Services == {"egress", "https", "nodeport", "etcd", "kubelet", "all", "ssh"} \cup ToSet(Ports)
Rule     == [service : Services, remote : ID \cup {Anywhere, Subnet}]

R(service, remote) == [service |-> service, remote |-> remote]

Settings == [bastion : BOOLEAN, allowAll : AllowAll, extra : ExtraRules]

NoBastion == [group |-> None, leaving |-> FALSE]

Steps == {"idle", "delete", "get", "tag", "generate", "rules", "apply", "bastion", "patch"}

Unpublished == [s \in Suffix |-> None]

\* The worker's variables between two reconciles.
Idle == [work |-> CHOOSE sp \in Settings : TRUE, result |-> Unpublished]

Init ==
  /\ spec \in Settings
  /\ groups = <<>> /\ serial = [s \in Suffix |-> 0]
  /\ status = Unpublished /\ bastion = NoBastion
  /\ pc = "idle" /\ work = Idle.work /\ todo = {} /\ observed = <<>>
  /\ result = Idle.result /\ group = "none" /\ deletes = {} /\ creates = {}
  /\ faults = 0 /\ edits = 0 /\ drift = 0

-----------------------------------------------------------------------------
(* generateDesiredSecGroups *)

\* The groups that a spec calls for.
Wanted(sp) == IF sp.bastion THEN Suffix ELSE Suffix \ {"bastion"}

DefaultRules == <<R("egress", Anywhere)>>

SGControlPlaneHTTPS           == <<R("https", Anywhere)>>
SGControlPlaneAdditionalPorts == [i \in DOMAIN Ports |-> R(Ports[i], Anywhere)]
SGControlPlaneAllowAll(id)    == <<R("all", Self), R("all", id["worker"])>>
SGControlPlaneCommon(id) ==
  <<R("etcd", Self), R("kubelet", Self), R("kubelet", id["worker"])>>

SGWorkerNodePortCIDR == <<R("nodeport", Subnet)>>
SGWorkerNodePort(id) == <<R("nodeport", id["worker"]), R("nodeport", id["controlplane"])>>
SGWorkerAllowAll(id) == <<R("all", Self), R("all", id["controlplane"])>>
SGWorkerCommon(id)   == <<R("kubelet", Self), R("kubelet", id["controlplane"])>>

ControlPlaneRules(sp, id) ==
  DefaultRules \o SGControlPlaneHTTPS \o SGControlPlaneAdditionalPorts
    \o (IF sp.allowAll THEN SGControlPlaneAllowAll(id) ELSE SGControlPlaneCommon(id))

WorkerRules(sp, id) ==
  DefaultRules \o SGWorkerNodePortCIDR \o SGWorkerNodePort(id)
    \o (IF sp.allowAll THEN SGWorkerAllowAll(id) ELSE SGWorkerCommon(id))

\* getRulesFromSpecs: one rule for each of the remote managed groups.
RulesFromSpecs(sp, id) ==
  [i \in DOMAIN sp.extra |->
     R("kubelet", IF sp.extra[i] = "any" THEN Anywhere ELSE id[sp.extra[i]])]

\* validateRemoteManagedGroups: a rule may name only a group that there is.
RemotesValid(sp) == ToSet(sp.extra) \subseteq Wanted(sp) \cup {"any"}

SSHRules(sp, id) == IF sp.bastion THEN <<R("ssh", id["bastion"])>> ELSE <<>>

DesiredRules(sp, id, s) ==
  CASE s = "controlplane" -> ControlPlaneRules(sp, id) \o RulesFromSpecs(sp, id) \o SSHRules(sp, id)
    [] s = "worker"       -> WorkerRules(sp, id) \o RulesFromSpecs(sp, id) \o SSHRules(sp, id)
    [] s = "bastion"      -> <<R("ssh", Anywhere)>> \o DefaultRules

\* The group's own ID stands where a rule says self.
Resolve(r, id) == IF r.remote = Self THEN [r EXCEPT !.remote = id] ELSE r

Desired(sp, id, s) ==
  LET rules == DesiredRules(sp, id, s)
  IN [i \in DOMAIN rules |-> Resolve(rules[i], id[s])]

-----------------------------------------------------------------------------
(* ReconcileSecurityGroups *)

\* The function f with the value v at x.
With(f, x, v) == [y \in DOMAIN f \cup {x} |-> IF y = x THEN v ELSE f[y]]

Works    == faults' = faults
Fails(c) == c \in FaultClasses /\ faults < MaxFaults /\ faults' = faults + 1

ByName(s) == {id \in DOMAIN groups : id[1] = s}

\* The reconcile ends.  An error puts the cluster back on the queue, and the
\* resync does so every sync-period in any case.
Stop ==
  /\ pc' = "idle" /\ work' = Idle.work /\ todo' = {} /\ observed' = <<>>
  /\ result' = Idle.result /\ group' = "none" /\ deletes' = {} /\ creates' = {}

At(step) == pc = step /\ UNCHANGED <<spec, status, bastion, edits, drift>>

First == IF spec.bastion THEN "get" ELSE "delete"

Start ==
  /\ At("idle") /\ Works
  /\ pc' = First /\ work' = spec /\ todo' = Wanted(spec) /\ result' = status
  /\ UNCHANGED <<groups, serial, observed, change>>

Goto(step) == pc' = step /\ UNCHANGED <<work, todo, observed, result, change>>

\* Neutron removes the rules that refer to a removed group.
Without(id) ==
  [g \in DOMAIN groups \ {id} |->
     [groups[g] EXCEPT !.rules = {r \in @ : r.remote # id}]]

\* deleteSecurityGroup of the bastion's group, best effort: an error, as when the
\* bastion still uses the group, ends the reconcile of the groups with success.
DeleteBastionGroup ==
  /\ At("delete") /\ UNCHANGED serial
  /\ \/ ByName("bastion") = {} /\ Works /\ Goto("get") /\ UNCHANGED groups
     \/ \E id \in ByName("bastion") :
          /\ bastion.group # id /\ Works /\ Goto("get") /\ groups' = Without(id)
     \/ bastion.group \in ByName("bastion") /\ Works /\ Goto("bastion") /\ UNCHANGED groups
     \/ /\ Fails("openstack") /\ Goto("bastion")
        /\ \/ UNCHANGED groups
           \/ \E id \in ByName("bastion") : bastion.group # id /\ groups' = Without(id)

\* A new group has Neutron's default rules.
NewGroup == [rules |-> {R("egress", Anywhere)}, tagged |-> FALSE]

Create(s) ==
  /\ serial' = [serial EXCEPT ![s] = @ + 1]
  /\ groups' = With(groups, <<s, serial[s] + 1>>, NewGroup)

NeedsTagsIfNew(id, new) == TagSupport /\ ~new.tagged /\ id \notin DOMAIN groups

\* Whether the tags differ from those of the spec, and can be replaced.
NeedsTags(id, new) == TagSupport /\ ~new.tagged

NextGroup(left) == IF left = {} THEN "generate" ELSE "get"

Observe(s, id, new) ==
  /\ observed' = With(observed, s, [id |-> id, rules |-> new.rules])
  /\ todo' = todo \ {s}
  /\ pc' = IF NeedsTags(id, new) THEN "tag" ELSE NextGroup(todo')
  /\ UNCHANGED <<work, result, change>>

AlwaysCreateSecurityGroup(s) ==
  /\ At("get") /\ s \in todo /\ Works
  /\ Create(s) /\ Observe(s, <<s, serial[s] + 1>>, NewGroup)

\* The map of groups is walked in any order.
GetOrCreateSecurityGroup(s) ==
  /\ At("get") /\ s \in todo
  /\ \/ \E id \in ByName(s) :
          Works /\ Observe(s, id, groups[id]) /\ UNCHANGED <<groups, serial>>
     \/ /\ ByName(s) = {} /\ Works
        /\ Create(s) /\ Observe(s, <<s, serial[s] + 1>>, NewGroup)
     \/ /\ Fails("openstack") /\ Stop
        /\ UNCHANGED <<groups, serial>> \/ (ByName(s) = {} /\ Create(s))

\* ReplaceAllAttributesTags on the group just observed without its tags.
ReplaceTags ==
  /\ At("tag") /\ UNCHANGED serial
  /\ LET ids    == {observed[s].id : s \in DOMAIN observed}
         tagged == [g \in DOMAIN groups |->
                      [groups[g] EXCEPT !.tagged = @ \/ g \in ids]]
     IN \/ Works /\ groups' = tagged /\ Goto(NextGroup(todo))
        \/ Fails("openstack") /\ groups' \in {groups, tagged} /\ Stop

\* A rule that names a group the cluster does not have is an error.
GenerateDesiredSecGroups ==
  /\ At("generate") /\ Works /\ UNCHANGED <<groups, serial>>
  /\ \/ /\ RemotesValid(work) /\ pc' = "rules" /\ todo' = Wanted(work)
        /\ UNCHANGED <<work, observed, result, change>>
     \/ ~RemotesValid(work) /\ Stop

IDs == [s \in DOMAIN observed |-> observed[s].id]

DeletesOwn(s) == observed[s].rules \ ToSet(DesiredRules(work, IDs, s))

\* observed - desired, and desired - observed: the positions in the list of desired
\* rules, where a rule may stand twice.
Obsolete(s) == observed[s].rules \ ToSet(Desired(work, IDs, s))
Missing(s)  ==
  LET desired == Desired(work, IDs, s)
  IN {i \in DOMAIN desired : desired[i] \notin observed[s].rules}

\* reconcileGroupRules for one group after the other, in any order.
ReconcileGroupRules(s) ==
  /\ At("rules") /\ Works /\ s \in todo /\ UNCHANGED <<groups, serial>>
  /\ pc' = "apply" /\ todo' = todo \ {s}
  /\ group' = s /\ deletes' = Obsolete(s) /\ creates' = Missing(s)
  /\ UNCHANGED <<work, observed, result>>

SetRules(rules) == groups' = [groups EXCEPT ![IDs[group]].rules = rules]
RulesNow        == groups[IDs[group]].rules

\* Rules are deleted by ID: one that is gone already is an error.
DeleteRule(r) ==
  /\ At("apply") /\ r \in deletes /\ UNCHANGED serial
  /\ \/ /\ r \in RulesNow /\ Works /\ SetRules(RulesNow \ {r})
        /\ deletes' = deletes \ {r}
        /\ UNCHANGED <<pc, work, todo, observed, result, group, creates>>
     \/ r \notin RulesNow /\ Works /\ UNCHANGED groups /\ Stop
     \/ Fails("openstack") /\ (UNCHANGED groups \/ SetRules(RulesNow \ {r})) /\ Stop

\* The rules are created in the order of the list.
NextRule(i) == i \in creates /\ \A j \in creates : i <= j

CreateIgnoringErrors(i) ==
  /\ At("apply") /\ deletes = {} /\ NextRule(i) /\ UNCHANGED serial
  /\ \/ Works /\ SetRules(RulesNow \cup {Desired(work, IDs, group)[i]})
     \/ Fails("openstack") /\ UNCHANGED groups
  /\ creates' = creates \ {i}
  /\ UNCHANGED <<pc, work, todo, observed, result, group, deletes>>

\* Neutron refuses a rule that the group has already.
CreateRule(i) ==
  /\ At("apply") /\ deletes = {} /\ NextRule(i) /\ UNCHANGED serial
  /\ LET r == Desired(work, IDs, group)[i]
     IN \/ /\ r \notin RulesNow /\ Works /\ SetRules(RulesNow \cup {r})
           /\ creates' = creates \ {i}
           /\ UNCHANGED <<pc, work, todo, observed, result, group, deletes>>
        \/ r \in RulesNow /\ Works /\ UNCHANGED groups /\ Stop
        \/ /\ Fails("openstack") /\ Stop
           /\ UNCHANGED groups \/ SetRules(RulesNow \cup {r})

\* The group IDs that go into the status.
Published == [s \in Suffix |-> IF s \in Wanted(work) THEN IDs[s] ELSE None]

\* The end of a group's rules, and of ReconcileSecurityGroups.
RulesDone ==
  /\ At("apply") /\ deletes = {} /\ creates = {} /\ Works /\ UNCHANGED <<groups, serial>>
  /\ \/ todo # {} /\ pc' = "rules" /\ UNCHANGED result
     \/ todo = {} /\ pc' = "bastion" /\ result' = Published
  /\ group' = "none" /\ UNCHANGED <<work, todo, observed, deletes, creates>>

-----------------------------------------------------------------------------
(* reconcileBastion and the deferred patch, as far as the groups matter *)

BastionGroupFromBase == IF status["bastion"] = None THEN result["bastion"] ELSE status["bastion"]

\* getBastionSecurityGroupID: the ID that this reconcile has found.
BastionGroupID == result["bastion"]

ReconcileBastion ==
  /\ pc = "bastion" /\ Goto("patch")
  /\ \/ /\ Works /\ work.bastion /\ bastion.group = None
        /\ bastion' = [group |-> BastionGroupID, leaving |-> FALSE]
     \/ /\ Works /\ ~work.bastion /\ bastion.group # None
        /\ bastion' = [bastion EXCEPT !.leaving = TRUE]
     \/ Works /\ work.bastion = (bastion.group # None) /\ UNCHANGED bastion
     \/ Fails("kube") /\ UNCHANGED bastion
  /\ UNCHANGED <<spec, groups, serial, status, edits, drift>>

PatchStatus ==
  /\ pc = "patch" /\ Stop
  /\ \/ Works /\ status' = result
     \/ Fails("kube") /\ UNCHANGED status
  /\ UNCHANGED <<spec, groups, serial, bastion, edits, drift>>

-----------------------------------------------------------------------------
(* The world around the worker *)

\* The OpenStackServer of the bastion and its port are gone.
BastionGone ==
  /\ bastion.leaving /\ bastion' = NoBastion
  /\ UNCHANGED <<spec, groups, serial, status, worker, faults, edits, drift>>

\* One setting at a time.
EditSpec ==
  /\ edits < MaxEdits /\ edits' = edits + 1
  /\ \E sp \in Settings \ {spec} :
       /\ Cardinality({f \in DOMAIN sp : sp[f] # spec[f]}) = 1
       /\ spec' = sp
  /\ UNCHANGED <<groups, serial, status, bastion, worker, faults, drift>>

\* Somebody removes a rule, or adds one that nobody wants.
Drift ==
  /\ Fails("drift") /\ drift' = drift + 1
  /\ \E id \in DOMAIN groups :
       \/ \E r \in groups[id].rules :
            r.service \in Drifting /\ groups' = [groups EXCEPT ![id].rules = @ \ {r}]
       \/ groups' = [groups EXCEPT ![id].rules = @ \cup {R("all", Anywhere)}]
  /\ UNCHANGED <<spec, serial, status, bastion, worker, edits>>

Crash ==
  /\ pc # "idle" /\ Fails("crash") /\ Stop
  /\ UNCHANGED <<spec, groups, serial, status, bastion, edits, drift>>

-----------------------------------------------------------------------------
Worker ==
  \/ Start \/ DeleteBastionGroup \/ ReplaceTags \/ GenerateDesiredSecGroups
  \/ \E s \in Suffix : GetOrCreateSecurityGroup(s) \/ ReconcileGroupRules(s)
  \/ \E r \in deletes : DeleteRule(r)
  \/ \E i \in creates : CreateRule(i)
  \/ RulesDone \/ ReconcileBastion \/ PatchStatus

Next == Worker \/ BastionGone \/ EditSpec \/ Drift \/ Crash

Spec == Init /\ [][Next]_vars

\* The cluster is reconciled at least every sync-period, and a bastion that is
\* deleted goes.
FairSpec == Spec /\ WF_vars(Worker) /\ WF_vars(BastionGone)

-----------------------------------------------------------------------------
(* Properties *)

GroupsOK ==
  /\ DOMAIN groups \subseteq ID /\ serial \in [Suffix -> Nat]
  /\ groups \in [DOMAIN groups -> [rules : SUBSET Rule, tagged : BOOLEAN]]

PublishedOK ==
  /\ status \in [Suffix -> ID \cup {None}] /\ result \in [Suffix -> ID \cup {None}]
  /\ bastion \in [group : ID \cup {None}, leaving : BOOLEAN]

WorkerOK ==
  /\ spec \in Settings /\ work \in Settings
  /\ pc \in Steps /\ todo \subseteq Suffix /\ group \in Suffix \cup {"none"}
  /\ DOMAIN observed \subseteq Suffix
  /\ observed \in [DOMAIN observed -> [id : ID, rules : SUBSET Rule]]
  /\ deletes \subseteq Rule /\ creates \subseteq Nat

CountersOK == faults \in 0..MaxFaults /\ edits \in 0..MaxEdits /\ drift \in 0..faults

\* Every variable stays in its type.
TypeOK == GroupsOK /\ PublishedOK /\ WorkerOK /\ CountersOK

\* However often a reconcile is interrupted, no group is created a second time.
OneGroupPerName == \A s \in Suffix : Cardinality(ByName(s)) <= 1

\* The groups of all names, if there are.
Current == [s \in {x \in Suffix : ByName(x) # {}} |-> CHOOSE id \in ByName(s) : TRUE]

Complete(sp) ==
  /\ \A s \in Wanted(sp) : ByName(s) # {}
  /\ \A s \in Wanted(sp) : groups[Current[s]].rules = ToSet(Desired(sp, Current, s))

\* A reconcile never takes away a rule that the spec it works on calls for:
\* traffic that stays allowed is not interrupted.
NeededRuleKept ==
  [][pc = "apply" /\ drift' = drift
       => \A r \in RulesNow \ groups'[IDs[group]].rules :
            r \notin ToSet(Desired(work, Current, group))]_vars

\* Group IDs are published when all groups have exactly the rules of the spec, so
\* no machine gets a group that is still open or closed too far.
PublishedComplete ==
  [][status' # status /\ drift = 0 => Complete(work)]_vars

\* A bastion is created with the group that there is, not with one that has been
\* deleted since its ID was published.
BastionGroupLive ==
  [][bastion.group = None /\ bastion'.group # None => bastion'.group \in DOMAIN groups]_vars

\* Once users leave the spec alone, groups, rules and tags come to be what it says,
\* and the status says so.  A disabled bastion's group goes in any case, although
\* every attempt to delete it is best effort and fails as long as it is used.
GroupsConverge ==
  <>[](/\ ~spec.bastion => ByName("bastion") = {}
       /\ \/ ~RemotesValid(spec)
          \/ /\ Complete(spec)
             /\ status = [s \in Suffix |-> IF s \in Wanted(spec) THEN Current[s] ELSE None]
             /\ TagSupport => \A id \in DOMAIN groups : groups[id].tagged)
=============================================================================
