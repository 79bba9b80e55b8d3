------------------------ MODULE SecurityGroupsProofs ------------------------
(***************************************************************************)
(* Proofs about SecurityGroups, for every list of user rules and additional  *)
(* ports and every number of faults, edits and changes by hand.              *)
(***************************************************************************)
EXTENDS SecurityGroups, TLAPS, FiniteSetTheorems

\* No two groups have the same name.
Unique == \A a, b \in DOMAIN groups : a[1] = b[1] => a = b

RuleSteps == {"rules", "apply"}

\* What the worker has seen of the groups is still there.
SeenInv ==
  /\ \A s \in DOMAIN observed :
       observed[s].id \in DOMAIN groups /\ observed[s].id[1] = s
  /\ pc \in {"idle", "delete"} => DOMAIN observed = {}
  /\ pc = "delete" => ~work.bastion /\ todo = Wanted(work)
  /\ pc \in {"get", "tag"} =>
       todo \subseteq Wanted(work) /\ DOMAIN observed = Wanted(work) \ todo
  /\ pc \in {"generate"} \cup RuleSteps => DOMAIN observed = Wanted(work)
  /\ pc = "get" => todo # {}
  /\ pc \in RuleSteps => RemotesValid(work) /\ todo \subseteq Wanted(work)
  /\ pc = "apply" => group \in Wanted(work) \ todo
  /\ pc = "bastion" /\ work.bastion => result["bastion"] \in DOMAIN groups

\* Only rules that the spec does not call for are deleted, and only ones that it calls
\* for are created.
ChangesInv == pc = "apply" => deletes \subseteq Obsolete(group) /\ creates \subseteq Missing(group)

\* The rules of group s are as they were seen, as they should be, or on the way.
AsSeen(s)  == groups[observed[s].id].rules = observed[s].rules
Settled(s) == groups[observed[s].id].rules = ToSet(Desired(work, IDs, s))
Halfway(s) ==
  groups[observed[s].id].rules =
    (observed[s].rules \ (Obsolete(s) \ deletes))
      \cup {Desired(work, IDs, s)[i] : i \in Missing(s) \ creates}

\* The worker knows the rules of all groups.
RulesKnown ==
  /\ pc \in {"get", "tag", "generate"} => \A s \in DOMAIN observed : AsSeen(s)
  /\ pc \in RuleSteps =>
       /\ \A s \in todo : AsSeen(s)
       /\ \A s \in Wanted(work) \ todo : (pc = "apply" /\ s = group) \/ Settled(s)
  /\ pc = "apply" => Halfway(group)
  /\ pc \in {"bastion", "patch"} /\ result # status =>
       /\ DOMAIN observed = Wanted(work) /\ RemotesValid(work)
       /\ \A s \in Wanted(work) : Settled(s)

\* It does, unless rules are changed by hand, and it publishes nothing early.
RulesInv ==
  /\ pc \notin {"idle", "bastion", "patch"} => result = status
  /\ drift = 0 => RulesKnown

-----------------------------------------------------------------------------
(* What the steps change *)

\* Which actions may change which variable.
LEMMA Frame ==
  ASSUME [Next]_vars
  PROVE  /\ \/ DeleteBastionGroup \/ ReplaceTags \/ Drift
            \/ \E s \in Suffix : GetOrCreateSecurityGroup(s)
            \/ \E r \in deletes : DeleteRule(r)
            \/ \E i \in creates : CreateRule(i)
            \/ groups' = groups
         /\ (\E s \in Suffix : GetOrCreateSecurityGroup(s)) \/ serial' = serial
         /\ PatchStatus \/ status' = status
         /\ ReconcileBastion \/ BastionGone \/ bastion' = bastion
         /\ EditSpec \/ spec' = spec
         /\ Drift \/ drift' = drift
         /\ EditSpec \/ edits' = edits
         /\ Worker \/ Crash \/ UNCHANGED worker
<1> USE DEF Next, Worker, vars, At, Start, DeleteBastionGroup, ReplaceTags,
     GenerateDesiredSecGroups, GetOrCreateSecurityGroup, ReconcileGroupRules, DeleteRule,
     CreateRule, RulesDone, ReconcileBastion, PatchStatus, BastionGone, EditSpec, Drift, Crash
<1>1. \/ DeleteBastionGroup \/ ReplaceTags \/ Drift
      \/ \E s \in Suffix : GetOrCreateSecurityGroup(s)
      \/ \E r \in deletes : DeleteRule(r)
      \/ \E i \in creates : CreateRule(i)
      \/ groups' = groups
  BY Zenon
<1>2. (\E s \in Suffix : GetOrCreateSecurityGroup(s)) \/ serial' = serial
  BY Zenon
<1>3. PatchStatus \/ status' = status
  BY Zenon
<1>4. ReconcileBastion \/ BastionGone \/ bastion' = bastion
  BY Zenon
<1>5. EditSpec \/ spec' = spec
  BY Zenon
<1>6. Drift \/ drift' = drift
  BY Zenon
<1>7. EditSpec \/ edits' = edits
  BY Zenon
<1>8. Worker \/ Crash \/ UNCHANGED worker
  BY Zenon DEF worker
<1> QED BY <1>1, <1>2, <1>3, <1>4, <1>5, <1>6, <1>7, <1>8, Zenon

\* What a step does to the set of groups.
LEMMA DomainStep ==
  ASSUME [Next]_vars
  PROVE  \/ DOMAIN groups' = DOMAIN groups
         \/ \E s \in Suffix : /\ ByName(s) = {} /\ pc = "get"
                              /\ DOMAIN groups' = DOMAIN groups \cup {<<s, serial[s] + 1>>}
         \/ pc = "delete" /\ DOMAIN groups' \subseteq DOMAIN groups
<1>1. CASE DeleteBastionGroup
  BY <1>1 DEF DeleteBastionGroup, At, Without
<1>2. CASE ReplaceTags
  BY <1>2 DEF ReplaceTags
<1>3. CASE Drift
  BY <1>3 DEF Drift
<1>4. ASSUME NEW s \in Suffix, GetOrCreateSecurityGroup(s)
      PROVE  \/ groups' = groups
             \/ /\ ByName(s) = {} /\ pc = "get"
                /\ DOMAIN groups' = DOMAIN groups \cup {<<s, serial[s] + 1>>}
  BY <1>4 DEF GetOrCreateSecurityGroup, At, Create, With
<1>5. ASSUME NEW r, DeleteRule(r) PROVE DOMAIN groups' = DOMAIN groups
  BY <1>5 DEF DeleteRule, SetRules
<1>6. ASSUME NEW i, CreateRule(i) PROVE DOMAIN groups' = DOMAIN groups
  BY <1>6 DEF CreateRule, SetRules
<1> QED BY <1>1, <1>2, <1>3, <1>4, <1>5, <1>6, Frame

\* Every step keeps one group per name, with IDs that were handed out.
LEMMA UniqueNext == Unique /\ [Next]_vars => Unique'
<1> SUFFICES ASSUME Unique, [Next]_vars PROVE Unique'
  OBVIOUS
<1>1. ASSUME NEW s \in Suffix, NEW n, ByName(s) = {},
             DOMAIN groups' = DOMAIN groups \cup {<<s, n>>}
      PROVE  Unique'
  <2>1. \A a \in DOMAIN groups : a[1] # s
    BY <1>1 DEF ByName
  <2>2. <<s, n>>[1] = s
    OBVIOUS
  <2> QED BY <1>1, <2>1, <2>2 DEF Unique
<1>2. CASE DOMAIN groups' \subseteq DOMAIN groups
  BY <1>2 DEF Unique
<1> QED BY <1>1, <1>2, DomainStep

\* However often a reconcile is interrupted between looking for a group and creating
\* it, there are never two groups of one name.
THEOREM GroupsUnique == Spec => []OneGroupPerName
<1>1. Init => Unique
  BY DEF Init, Unique
<1>2. Unique => OneGroupPerName
  <2> SUFFICES ASSUME Unique, NEW s \in Suffix PROVE Cardinality(ByName(s)) <= 1
    BY DEF OneGroupPerName
  <2>1. CASE ByName(s) = {}
    BY <2>1, FS_EmptySet
  <2>2. CASE ByName(s) # {}
    <3>1. PICK id \in ByName(s) : TRUE
      BY <2>2
    <3>2. ByName(s) = {id}
      BY <3>1 DEF ByName, Unique
    <3>3. Cardinality({id}) = 1
      BY FS_Singleton
    <3> QED BY <3>2, <3>3
  <2> QED BY <2>1, <2>2
<1> QED BY <1>1, <1>2, UniqueNext, PTL DEF Spec

-----------------------------------------------------------------------------
(* The lists of rules *)

\* A rule before the group's own ID has been put in.
OpenRule == [service : Services, remote : ID \cup {Anywhere, Subnet, Self}]

\* The rules that a spec calls for are rules, if the groups that it needs have IDs.
LEMMA DesiredType ==
  ASSUME NEW sp \in Settings, NEW id, \A x \in Wanted(sp) : id[x] \in ID,
         RemotesValid(sp), NEW s \in Wanted(sp)
  PROVE  Desired(sp, id, s) \in Seq(Rule)
<1>0. /\ "controlplane" \in Wanted(sp) /\ "worker" \in Wanted(sp) /\ s \in Suffix
      /\ sp.bastion => "bastion" \in Wanted(sp)
  BY DEF Wanted, Suffix
<1>1. ASSUME NEW t \in Services, NEW x \in ID \cup {Anywhere, Subnet, Self}
      PROVE  R(t, x) \in OpenRule
  BY DEF R, OpenRule
<1>2. {"egress", "https", "nodeport", "etcd", "kubelet", "all", "ssh"} \subseteq Services
  BY DEF Services
<1>3. DefaultRules \in Seq(OpenRule) /\ SGControlPlaneHTTPS \in Seq(OpenRule)
  BY <1>1, <1>2 DEF DefaultRules, SGControlPlaneHTTPS
<1>4. SGControlPlaneAdditionalPorts \in Seq(OpenRule)
  <2>1. Ports \in Seq(STRING)
    BY SecurityGroupsAssumption
  <2>2. \A i \in DOMAIN Ports : Ports[i] \in Services
    BY <2>1 DEF Services, ToSet
  <2>3. \A i \in DOMAIN Ports : R(Ports[i], Anywhere) \in OpenRule
    BY <1>1, <2>2
  <2> QED BY <2>1, <2>3 DEF SGControlPlaneAdditionalPorts
<1>5. /\ SGControlPlaneAllowAll(id) \in Seq(OpenRule) /\ SGControlPlaneCommon(id) \in Seq(OpenRule)
  BY <1>0, <1>1, <1>2 DEF SGControlPlaneAllowAll, SGControlPlaneCommon
<1>6. /\ SGWorkerNodePortCIDR \in Seq(OpenRule) /\ SGWorkerNodePort(id) \in Seq(OpenRule)
      /\ SGWorkerAllowAll(id) \in Seq(OpenRule) /\ SGWorkerCommon(id) \in Seq(OpenRule)
  BY <1>0, <1>1, <1>2 DEF SGWorkerNodePortCIDR, SGWorkerNodePort, SGWorkerAllowAll, SGWorkerCommon
<1>7. RulesFromSpecs(sp, id) \in Seq(OpenRule)
  <2>1. sp.extra \in Seq(Suffix \cup {"any"})
    BY SecurityGroupsAssumption DEF Settings
  <2>2. \A i \in DOMAIN sp.extra : sp.extra[i] = "any" \/ id[sp.extra[i]] \in ID
    BY DEF RemotesValid, ToSet
  <2>3. \A i \in DOMAIN sp.extra :
          R("kubelet", IF sp.extra[i] = "any" THEN Anywhere ELSE id[sp.extra[i]]) \in OpenRule
    BY <1>1, <1>2, <2>2
  <2> QED BY <2>1, <2>3 DEF RulesFromSpecs
<1>8. SSHRules(sp, id) \in Seq(OpenRule) /\ <<R("ssh", Anywhere)>> \in Seq(OpenRule)
  BY <1>0, <1>1, <1>2 DEF SSHRules
<1>9. ControlPlaneRules(sp, id) \in Seq(OpenRule)
  BY <1>3, <1>4, <1>5 DEF ControlPlaneRules
<1>10. WorkerRules(sp, id) \in Seq(OpenRule)
  BY <1>3, <1>6 DEF WorkerRules
<1>11. DesiredRules(sp, id, s) \in Seq(OpenRule)
  BY <1>0, <1>3, <1>7, <1>8, <1>9, <1>10 DEF DesiredRules, Suffix
<1>12. ASSUME NEW r \in OpenRule PROVE Resolve(r, id[s]) \in Rule
  BY <1>12 DEF Resolve, OpenRule, Rule
<1>13. ASSUME NEW rules \in Seq(OpenRule)
       PROVE  [i \in DOMAIN rules |-> Resolve(rules[i], id[s])] \in Seq(Rule)
  BY <1>12, <1>13
<1> QED BY <1>11, <1>13 DEF Desired

\* The rules depend on the IDs of the groups that the spec needs and on no others.
LEMMA DesiredSame ==
  ASSUME NEW sp \in Settings, NEW id, NEW jd, \A x \in Wanted(sp) : id[x] = jd[x],
         RemotesValid(sp), NEW s \in Wanted(sp)
  PROVE  Desired(sp, id, s) = Desired(sp, jd, s)
<1>0. /\ id["controlplane"] = jd["controlplane"] /\ id["worker"] = jd["worker"] /\ s \in Suffix
      /\ id[s] = jd[s] /\ (sp.bastion => id["bastion"] = jd["bastion"])
  BY DEF Wanted, Suffix
<1>1. /\ SGControlPlaneAllowAll(id) = SGControlPlaneAllowAll(jd)
      /\ SGControlPlaneCommon(id) = SGControlPlaneCommon(jd)
      /\ SGWorkerNodePort(id) = SGWorkerNodePort(jd) /\ SGWorkerAllowAll(id) = SGWorkerAllowAll(jd)
      /\ SGWorkerCommon(id) = SGWorkerCommon(jd)
  BY <1>0 DEF SGControlPlaneAllowAll, SGControlPlaneCommon, SGWorkerNodePort, SGWorkerAllowAll,
     SGWorkerCommon
<1>2. RulesFromSpecs(sp, id) = RulesFromSpecs(sp, jd)
  <2>1. \A i \in DOMAIN sp.extra : sp.extra[i] = "any" \/ id[sp.extra[i]] = jd[sp.extra[i]]
    BY DEF RemotesValid, ToSet
  <2> QED BY <2>1 DEF RulesFromSpecs
<1>3. SSHRules(sp, id) = SSHRules(sp, jd)
  BY <1>0 DEF SSHRules
<1>4. ControlPlaneRules(sp, id) = ControlPlaneRules(sp, jd)
  BY <1>1 DEF ControlPlaneRules
<1>5. WorkerRules(sp, id) = WorkerRules(sp, jd)
  BY <1>1 DEF WorkerRules
<1>6. DesiredRules(sp, id, s) = DesiredRules(sp, jd, s)
  BY <1>0, <1>2, <1>3, <1>4, <1>5, Zenon DEF DesiredRules
<1> QED BY <1>0, <1>6 DEF Desired

-----------------------------------------------------------------------------
(* The course of a reconcile *)

\* The steps of the worker that do not end the reconcile.
LEMMA Flow ==
  ASSUME [Next]_vars
  PROVE  \/ Stop \/ UNCHANGED worker \/ Start \/ DeleteBastionGroup \/ RulesDone
         \/ ReconcileBastion
         \/ \E s \in Suffix : ReconcileGroupRules(s) \/ (GetOrCreateSecurityGroup(s) /\ ~Stop)
         \/ ReplaceTags /\ ~Stop
         \/ GenerateDesiredSecGroups /\ ~Stop
         \/ \E r \in deletes : DeleteRule(r) /\ ~Stop
         \/ \E i \in creates : CreateRule(i) /\ ~Stop
BY Zenon DEF Next, Worker, vars, worker, PatchStatus, BastionGone, EditSpec, Drift, Crash

\* getOrCreateSecurityGroup returns a group of the name that is there.
LEMMA GroupFound ==
  ASSUME NEW s \in Suffix, GetOrCreateSecurityGroup(s), ~Stop
  PROVE  /\ pc = "get" /\ s \in todo /\ todo' = todo \ {s} /\ UNCHANGED <<work, result, change>>
         /\ pc' \in {"tag", NextGroup(todo')}
         /\ \E id \in DOMAIN groups' :
              /\ id[1] = s
              /\ observed' = With(observed, s, [id |-> id, rules |-> groups'[id].rules])
              /\ \/ groups' = groups /\ serial' = serial
                 \/ /\ ByName(s) = {} /\ id = <<s, serial[s] + 1>>
                    /\ serial' = [serial EXCEPT ![s] = @ + 1]
                    /\ groups' = With(groups, id, NewGroup)
<1>1. /\ pc = "get" /\ s \in todo
      /\ \/ \E id \in ByName(s) : Observe(s, id, groups[id]) /\ UNCHANGED <<groups, serial>>
         \/ ByName(s) = {} /\ Create(s) /\ Observe(s, <<s, serial[s] + 1>>, NewGroup)
  BY DEF GetOrCreateSecurityGroup, At
<1>2. ASSUME NEW id \in ByName(s), Observe(s, id, groups[id]), groups' = groups, serial' = serial
      PROVE  /\ todo' = todo \ {s} /\ UNCHANGED <<work, result, change>>
             /\ pc' \in {"tag", NextGroup(todo')}
             /\ id \in DOMAIN groups' /\ id[1] = s
             /\ observed' = With(observed, s, [id |-> id, rules |-> groups'[id].rules])
  BY <1>2 DEF Observe, ByName
<1>3. ASSUME ByName(s) = {}, Create(s), Observe(s, <<s, serial[s] + 1>>, NewGroup)
      PROVE  /\ todo' = todo \ {s} /\ UNCHANGED <<work, result, change>>
             /\ pc' \in {"tag", NextGroup(todo')}
             /\ \E id \in DOMAIN groups' :
                  /\ id[1] = s /\ id = <<s, serial[s] + 1>>
                  /\ observed' = With(observed, s, [id |-> id, rules |-> groups'[id].rules])
                  /\ serial' = [serial EXCEPT ![s] = @ + 1]
                  /\ groups' = With(groups, id, NewGroup)
  <2> DEFINE id == <<s, serial[s] + 1>>
  <2>1. groups' = With(groups, id, NewGroup) /\ serial' = [serial EXCEPT ![s] = @ + 1]
    BY <1>3 DEF Create
  <2>2. id \in DOMAIN groups' /\ groups'[id] = NewGroup
    BY <2>1 DEF With
  <2>3. id[1] = s
    OBVIOUS
  <2>4. /\ todo' = todo \ {s} /\ UNCHANGED <<work, result, change>>
        /\ pc' \in {"tag", NextGroup(todo')}
        /\ observed' = With(observed, s, [id |-> id, rules |-> NewGroup.rules])
    BY <1>3 DEF Observe
  <2> HIDE DEF id
  <2>5. observed' = With(observed, s, [id |-> id, rules |-> groups'[id].rules])
    BY <2>2, <2>4
  <2> QED BY <2>1, <2>2, <2>3, <2>4, <2>5 DEF id
<1> QED BY <1>1, <1>2, <1>3

\* The end of a reconcile, and a step of somebody else, leave nothing wrong.
LEMMA SeenNext == SeenInv /\ [Next]_vars => SeenInv'
<1> SUFFICES ASSUME SeenInv, [Next]_vars PROVE SeenInv'
  OBVIOUS
<1> USE DEF RuleSteps
<1>0. pc # "delete" => DOMAIN groups \subseteq DOMAIN groups'
  BY DomainStep
<1>1. CASE Stop
  <2>1. DOMAIN <<>> = {}
    OBVIOUS
  <2> QED BY <1>1, <2>1 DEF Stop, SeenInv
<1>2. CASE UNCHANGED worker
  BY <1>0, <1>2 DEF worker, SeenInv, Obsolete, Wanted, RemotesValid
<1>3. CASE Start
  <2>1. /\ pc = "idle" /\ pc' = (IF spec.bastion THEN "get" ELSE "delete") /\ work' = spec
        /\ todo' = Wanted(spec) /\ observed' = observed
    BY <1>3 DEF Start, At, First
  <2>2. Wanted(spec) # {}
    BY DEF Wanted, Suffix
  <2> QED BY <2>1, <2>2 DEF SeenInv
<1>4. CASE DeleteBastionGroup
  <2>1. /\ pc = "delete" /\ pc' \in {"get", "bastion"}
        /\ work' = work /\ todo' = todo /\ observed' = observed
    BY <1>4 DEF DeleteBastionGroup, At, Goto
  <2>2. Wanted(work) # {}
    BY DEF Wanted, Suffix
  <2> QED BY <2>1, <2>2 DEF SeenInv
<1>5. CASE RulesDone
  <2>1. /\ pc = "apply" /\ work' = work /\ todo' = todo /\ observed' = observed
        /\ groups' = groups
        /\ pc' = "rules" \/ (pc' = "bastion" /\ result' = Published)
    BY <1>5 DEF RulesDone, At
  <2>2. work.bastion => Published["bastion"] = observed["bastion"].id /\ "bastion" \in DOMAIN observed
    BY <2>1 DEF Published, IDs, SeenInv, Wanted, Suffix
  <2> QED BY <2>1, <2>2 DEF SeenInv
<1>6. CASE ReconcileBastion
  BY <1>0, <1>6 DEF ReconcileBastion, Goto, SeenInv
<1>7. ASSUME NEW s \in Suffix, ReconcileGroupRules(s) PROVE SeenInv'
  BY <1>0, <1>7 DEF ReconcileGroupRules, At, SeenInv
<1>8. ASSUME NEW s \in Suffix, GetOrCreateSecurityGroup(s), ~Stop PROVE SeenInv'
  <2>1. /\ pc = "get" /\ s \in todo /\ todo' = todo \ {s} /\ work' = work
        /\ pc' \in {"tag", NextGroup(todo')}
    BY <1>8, GroupFound
  <2>2. PICK id \in DOMAIN groups' :
               /\ id[1] = s
               /\ observed' = With(observed, s, [id |-> id, rules |-> groups'[id].rules])
    BY <1>8, GroupFound
  <2>3. /\ DOMAIN observed' = DOMAIN observed \cup {s} /\ observed'[s].id = id
        /\ \A t \in DOMAIN observed : t # s => observed'[t] = observed[t]
    BY <2>2 DEF With
  <2>4. \A t \in DOMAIN observed' :
          observed'[t].id \in DOMAIN groups' /\ observed'[t].id[1] = t
    BY <1>0, <2>1, <2>2, <2>3 DEF SeenInv
  <2> QED BY <2>1, <2>3, <2>4 DEF SeenInv, NextGroup
<1>9. CASE ReplaceTags /\ ~Stop
  BY <1>0, <1>9 DEF ReplaceTags, At, Goto, NextGroup, SeenInv
<1>10. CASE GenerateDesiredSecGroups /\ ~Stop
  BY <1>0, <1>10 DEF GenerateDesiredSecGroups, At, SeenInv
<1>11. ASSUME NEW r \in deletes, DeleteRule(r), ~Stop PROVE SeenInv'
  BY <1>0, <1>11 DEF DeleteRule, At, SeenInv
<1>12. ASSUME NEW i \in creates, CreateRule(i), ~Stop PROVE SeenInv'
  BY <1>0, <1>12 DEF CreateRule, At, SeenInv
<1> QED BY <1>1, <1>2, <1>3, <1>4, <1>5, <1>6, <1>7, <1>8, <1>9, <1>10, <1>11, <1>12, Flow

\* Nothing has been observed at the start.
LEMMA SeenInit == Init => SeenInv
<1>1. DOMAIN <<>> = {}
  OBVIOUS
<1> QED BY <1>1 DEF Init, SeenInv, RuleSteps

\* A bastion is created with a group that exists: the ID comes from this reconcile,
\* which deletes no group after it has looked at them.
THEOREM BastionGroupExists == Spec => BastionGroupLive
<1>1. SeenInv /\ [Next]_vars =>
        [bastion.group = None /\ bastion'.group # None => bastion'.group \in DOMAIN groups]_vars
  <2> SUFFICES ASSUME SeenInv, [Next]_vars, bastion.group = None, bastion'.group # None
               PROVE  bastion'.group \in DOMAIN groups
    OBVIOUS
  <2>1. CASE ReconcileBastion
    <3>1. pc = "bastion" /\ work.bastion /\ bastion' = [group |-> BastionGroupID, leaving |-> FALSE]
      BY <2>1 DEF ReconcileBastion
    <3> QED BY <3>1 DEF SeenInv, BastionGroupID
  <2>2. CASE BastionGone
    BY <2>2 DEF BastionGone, NoBastion
  <2> QED BY <2>1, <2>2, Frame
<1> QED BY <1>1, SeenInit, SeenNext, PTL DEF Spec, BastionGroupLive

-----------------------------------------------------------------------------
(* Types *)

\* What is to be changed depends on what the worker has seen, not on the groups.
LEMMA SameDiff ==
  ASSUME UNCHANGED <<work, observed>>
  PROVE  /\ IDs' = IDs
         /\ \A s : /\ Obsolete(s)' = Obsolete(s) /\ Missing(s)' = Missing(s)
                   /\ Desired(work, IDs, s)' = Desired(work, IDs, s)
<1>1. IDs' = IDs
  BY DEF IDs
<1>2. ASSUME NEW s PROVE Desired(work, IDs, s)' = Desired(work, IDs, s)
  BY <1>1 DEF Desired
<1>3. ASSUME NEW s PROVE Obsolete(s)' = Obsolete(s) /\ Missing(s)' = Missing(s)
  BY <1>2 DEF Obsolete, Missing
<1> QED BY <1>1, <1>2, <1>3

\* Every step keeps pending changes within the diff of the group at work.
LEMMA ChangesNext == ChangesInv /\ [Next]_vars => ChangesInv'
<1> SUFFICES ASSUME ChangesInv, [Next]_vars, pc' = "apply"
             PROVE  deletes' \subseteq Obsolete(group)' /\ creates' \subseteq Missing(group)'
  BY DEF ChangesInv
<1>1. ASSUME UNCHANGED <<work, observed, group>>, pc = "apply",
             deletes' \subseteq deletes, creates' \subseteq creates
      PROVE  deletes' \subseteq Obsolete(group)' /\ creates' \subseteq Missing(group)'
  <2>1. Obsolete(group)' = Obsolete(group) /\ Missing(group)' = Missing(group)
    BY <1>1 DEF Obsolete, Missing, IDs, Desired
  <2> QED BY <1>1, <2>1 DEF ChangesInv
<1>2. ASSUME NEW s \in Suffix, ReconcileGroupRules(s)
      PROVE  deletes' \subseteq Obsolete(group)' /\ creates' \subseteq Missing(group)'
  <2>1. /\ UNCHANGED <<work, observed>> /\ group' = s
        /\ deletes' = Obsolete(s) /\ creates' = Missing(s)
    BY <1>2 DEF ReconcileGroupRules
  <2>2. Obsolete(group)' = Obsolete(s) /\ Missing(group)' = Missing(s)
    BY <2>1 DEF Obsolete, Missing, IDs, Desired
  <2> QED BY <2>1, <2>2
<1>3. \/ \E s \in Suffix : ReconcileGroupRules(s)
      \/ /\ UNCHANGED <<work, observed, group>> /\ pc = "apply"
         /\ deletes' \subseteq deletes /\ creates' \subseteq creates
  <2>1. CASE Stop
    BY <2>1 DEF Stop
  <2>2. CASE UNCHANGED worker
    BY <2>2 DEF worker
  <2>3. CASE Start
    BY <2>3 DEF Start, First
  <2>4. CASE DeleteBastionGroup \/ RulesDone \/ ReconcileBastion
    BY <2>4 DEF DeleteBastionGroup, RulesDone, ReconcileBastion, Goto
  <2>5. ASSUME NEW s \in Suffix, GetOrCreateSecurityGroup(s), ~Stop PROVE FALSE
    BY <2>5, GroupFound DEF NextGroup
  <2>6. CASE ReplaceTags /\ ~Stop
    BY <2>6 DEF ReplaceTags, Goto, NextGroup
  <2>7. CASE GenerateDesiredSecGroups /\ ~Stop
    BY <2>7 DEF GenerateDesiredSecGroups
  <2>8. ASSUME NEW r \in deletes, DeleteRule(r), ~Stop
        PROVE  /\ UNCHANGED <<work, observed, group>> /\ pc = "apply"
               /\ deletes' \subseteq deletes /\ creates' \subseteq creates
    BY <2>8 DEF DeleteRule, At
  <2>9. ASSUME NEW i \in creates, CreateRule(i), ~Stop
        PROVE  /\ UNCHANGED <<work, observed, group>> /\ pc = "apply"
               /\ deletes' \subseteq deletes /\ creates' \subseteq creates
    BY <2>9 DEF CreateRule, At
  <2> QED BY <2>1, <2>2, <2>3, <2>4, <2>5, <2>6, <2>7, <2>8, <2>9, Flow
<1> QED BY <1>1, <1>2, <1>3

\* The rules that the worker's spec calls for, in the groups that it has seen.
LEMMA WorkType ==
  ASSUME TypeOK, SeenInv, pc \in RuleSteps, NEW s \in Wanted(work)
  PROVE  Desired(work, IDs, s) \in Seq(Rule)
<1>1. work \in Settings /\ RemotesValid(work)
  BY DEF TypeOK, WorkerOK, SeenInv
<1>2. \A x \in Wanted(work) : IDs[x] \in ID
  BY DEF IDs, SeenInv, TypeOK, WorkerOK, RuleSteps
<1> QED BY <1>1, <1>2, DesiredType

\* The record of a group in Neutron.
GroupRecord == [rules : SUBSET Rule, tagged : BOOLEAN]

\* What a step does to the groups: all but one keep their rules, the others at most
\* lose the rules that refer to a removed group.
LEMMA SetRulesType ==
  ASSUME GroupsOK, NEW g \in DOMAIN groups, NEW rules \in SUBSET Rule
  PROVE  [groups EXCEPT ![g].rules = rules] \in [DOMAIN groups -> GroupRecord]
BY DEF GroupsOK, GroupRecord

\* Every step keeps the type of the groups.
LEMMA GroupsNext == TypeOK /\ SeenInv /\ ChangesInv /\ [Next]_vars => GroupsOK'
<1> SUFFICES ASSUME TypeOK, SeenInv, ChangesInv, [Next]_vars PROVE GroupsOK'
  OBVIOUS
<1>0. /\ GroupsOK /\ groups \in [DOMAIN groups -> GroupRecord] /\ DOMAIN groups \subseteq ID
      /\ serial \in [Suffix -> Nat]
  BY DEF TypeOK, GroupsOK, GroupRecord
<1>1. {R("egress", Anywhere), R("all", Anywhere)} \subseteq Rule
  BY DEF R, Rule, Services
<1>2. SUFFICES /\ groups' \in [DOMAIN groups' -> GroupRecord] /\ DOMAIN groups' \subseteq ID
               /\ serial' \in [Suffix -> Nat]
  BY DEF GroupsOK, GroupRecord
<1>3. ASSUME NEW g \in DOMAIN groups, NEW rules \in SUBSET Rule,
             groups' = [groups EXCEPT ![g].rules = rules]
      PROVE  groups' \in [DOMAIN groups' -> GroupRecord] /\ DOMAIN groups' \subseteq ID
  BY <1>0, <1>3, SetRulesType
<1>4. CASE DeleteBastionGroup
  <2>1. ASSUME NEW id PROVE Without(id) \in [DOMAIN groups \ {id} -> GroupRecord]
    BY <1>0 DEF Without, GroupRecord
  <2>2. serial' = serial /\ (groups' = groups \/ \E id : groups' = Without(id))
    BY <1>4 DEF DeleteBastionGroup
  <2> QED BY <1>0, <2>1, <2>2
<1>5. CASE ReplaceTags
  <2>1. ASSUME NEW ids
        PROVE  [g \in DOMAIN groups |-> [groups[g] EXCEPT !.tagged = @ \/ g \in ids]]
                 \in [DOMAIN groups -> GroupRecord]
    BY <1>0 DEF GroupRecord
  <2>2. /\ serial' = serial
        /\ \/ groups' = groups
           \/ \E ids : groups' = [g \in DOMAIN groups |-> [groups[g] EXCEPT !.tagged = @ \/ g \in ids]]
    BY <1>5 DEF ReplaceTags
  <2> QED BY <1>0, <2>1, <2>2
<1>6. CASE Drift
  <2>1. PICK id \in DOMAIN groups :
          \/ \E r : groups' = [groups EXCEPT ![id].rules = groups[id].rules \ {r}]
          \/ groups' = [groups EXCEPT ![id].rules = groups[id].rules \cup {R("all", Anywhere)}]
    BY <1>0, <1>6 DEF Drift, GroupRecord
  <2>2. groups[id].rules \subseteq Rule
    BY <1>0 DEF GroupRecord
  <2>3. serial' = serial
    BY <1>6 DEF Drift
  <2> QED BY <1>0, <1>1, <1>3, <2>1, <2>2, <2>3
<1>7. ASSUME NEW s \in Suffix, GetOrCreateSecurityGroup(s)
      PROVE  /\ groups' \in [DOMAIN groups' -> GroupRecord] /\ DOMAIN groups' \subseteq ID
             /\ serial' \in [Suffix -> Nat]
  <2>1. \/ UNCHANGED <<groups, serial>>
        \/ /\ serial' = [serial EXCEPT ![s] = serial[s] + 1]
           /\ groups' = With(groups, <<s, serial[s] + 1>>, NewGroup)
    BY <1>0, <1>7 DEF GetOrCreateSecurityGroup, Create
  <2>2. <<s, serial[s] + 1>> \in ID
    BY <1>0 DEF ID
  <2>3. NewGroup \in GroupRecord
    BY <1>1 DEF NewGroup, GroupRecord
  <2>4. ASSUME NEW id \in ID, groups' = With(groups, id, NewGroup)
        PROVE  groups' \in [DOMAIN groups' -> GroupRecord] /\ DOMAIN groups' \subseteq ID
    BY <1>0, <2>3, <2>4 DEF With
  <2> QED BY <1>0, <2>1, <2>2, <2>4
<1>8. (\E r \in deletes : DeleteRule(r)) \/ (\E i \in creates : CreateRule(i)) =>
        /\ IDs[group] \in DOMAIN groups /\ RulesNow \subseteq Rule
        /\ \A i \in creates : Desired(work, IDs, group)[i] \in Rule
  <2> SUFFICES ASSUME pc = "apply"
               PROVE  /\ IDs[group] \in DOMAIN groups /\ RulesNow \subseteq Rule
                      /\ \A i \in creates : Desired(work, IDs, group)[i] \in Rule
    BY DEF DeleteRule, CreateRule, At
  <2>1. group \in Wanted(work) /\ group \in DOMAIN observed
    BY DEF SeenInv, RuleSteps
  <2>2. IDs[group] \in DOMAIN groups
    BY <2>1 DEF IDs, SeenInv
  <2>3. RulesNow \subseteq Rule
    BY <1>0, <2>2 DEF RulesNow, GroupRecord
  <2>4. Desired(work, IDs, group) \in Seq(Rule)
    BY <2>1, WorkType DEF RuleSteps
  <2>5. creates \subseteq DOMAIN Desired(work, IDs, group)
    BY DEF ChangesInv, Missing
  <2> QED BY <2>2, <2>3, <2>4, <2>5
<1>9. ASSUME NEW r \in deletes, DeleteRule(r)
      PROVE  /\ groups' \in [DOMAIN groups' -> GroupRecord] /\ DOMAIN groups' \subseteq ID
             /\ serial' \in [Suffix -> Nat]
  <2>1. serial' = serial /\ (groups' = groups \/ SetRules(RulesNow \ {r}))
    BY <1>9 DEF DeleteRule
  <2> QED BY <1>0, <1>3, <1>8, <1>9, <2>1 DEF SetRules
<1>10. ASSUME NEW i \in creates, CreateRule(i)
      PROVE  /\ groups' \in [DOMAIN groups' -> GroupRecord] /\ DOMAIN groups' \subseteq ID
             /\ serial' \in [Suffix -> Nat]
  <2>1. serial' = serial /\ (groups' = groups \/ SetRules(RulesNow \cup {Desired(work, IDs, group)[i]}))
    BY <1>10 DEF CreateRule
  <2> QED BY <1>0, <1>3, <1>8, <1>10, <2>1 DEF SetRules
<1> QED BY <1>0, <1>4, <1>5, <1>6, <1>7, <1>9, <1>10, Frame

\* A worker between two reconciles has its type.
LEMMA IdleType == Idle.work \in Settings /\ Idle.result \in [Suffix -> ID \cup {None}]
<1>1. Settings # {}
  <2>1. PICK a \in AllowAll, e \in ExtraRules : TRUE
    BY SecurityGroupsAssumption
  <2>2. [bastion |-> TRUE, allowAll |-> a, extra |-> e] \in Settings
    BY DEF Settings
  <2> QED BY <2>2
<1>2. (CHOOSE sp \in Settings : TRUE) \in Settings
  BY <1>1
<1> QED BY <1>2 DEF Idle, Unpublished

\* Every step keeps the type of the published IDs.
LEMMA PublishedNext == TypeOK /\ SeenInv /\ [Next]_vars => PublishedOK'
<1> SUFFICES ASSUME TypeOK, SeenInv, [Next]_vars PROVE PublishedOK'
  OBVIOUS
<1>0. /\ status \in [Suffix -> ID \cup {None}] /\ result \in [Suffix -> ID \cup {None}]
      /\ bastion \in [group : ID \cup {None}, leaving : BOOLEAN]
  BY DEF TypeOK, PublishedOK
<1>1. status' \in [Suffix -> ID \cup {None}]
  <2>1. PatchStatus => status' \in {status, result}
    BY DEF PatchStatus
  <2> QED BY <1>0, <2>1, Frame
<1>2. bastion' \in [group : ID \cup {None}, leaving : BOOLEAN]
  <2>1. CASE ReconcileBastion
    <3>1. "bastion" \in Suffix
      BY DEF Suffix
    <3>2. \/ bastion' = [group |-> result["bastion"], leaving |-> FALSE]
          \/ bastion' = [bastion EXCEPT !.leaving = TRUE] \/ bastion' = bastion
      BY <2>1 DEF ReconcileBastion, BastionGroupID
    <3>3. result["bastion"] \in ID \cup {None}
      BY <1>0, <3>1
    <3>4. ASSUME NEW g \in ID \cup {None}
          PROVE  [group |-> g, leaving |-> FALSE] \in [group : ID \cup {None}, leaving : BOOLEAN]
      OBVIOUS
    <3>5. [bastion EXCEPT !.leaving = TRUE] \in [group : ID \cup {None}, leaving : BOOLEAN]
      BY <1>0
    <3> QED BY <1>0, <3>2, <3>3, <3>4, <3>5
  <2>2. CASE BastionGone
    BY <2>2 DEF BastionGone, NoBastion
  <2> QED BY <1>0, <2>1, <2>2, Frame
<1>3. result' \in [Suffix -> ID \cup {None}]
  <2>1. CASE Stop
    BY <2>1, IdleType DEF Stop
  <2>2. CASE RulesDone
    <3>1. pc = "apply" /\ result' \in {result, Published}
      BY <2>2 DEF RulesDone, At
    <3>2. \A s \in Wanted(work) : IDs[s] \in ID
      BY <3>1 DEF IDs, SeenInv, TypeOK, WorkerOK, RuleSteps
    <3>3. Published \in [Suffix -> ID \cup {None}]
      BY <3>2 DEF Published
    <3> QED BY <1>0, <3>1, <3>3
  <2>3. CASE ~Stop /\ ~RulesDone
    <3>1. result' \in {result, status}
      BY <2>3, Flow, GroupFound DEF worker, Start, DeleteBastionGroup, ReconcileBastion,
         ReconcileGroupRules, ReplaceTags, GenerateDesiredSecGroups, DeleteRule, CreateRule, Goto
    <3> QED BY <1>0, <3>1
  <2> QED BY <2>1, <2>2, <2>3
<1> QED BY <1>1, <1>2, <1>3 DEF PublishedOK

\* Every step keeps the type of the worker.
LEMMA WorkerNext == TypeOK /\ SeenInv /\ ChangesInv /\ [Next]_vars => WorkerOK'
<1> SUFFICES ASSUME TypeOK, SeenInv, ChangesInv, [Next]_vars PROVE WorkerOK'
  OBVIOUS
<1> DEFINE Seen == [id : ID, rules : SUBSET Rule]
<1>0. /\ spec \in Settings /\ work \in Settings /\ pc \in Steps /\ todo \subseteq Suffix
      /\ group \in Suffix \cup {"none"} /\ DOMAIN observed \subseteq Suffix
      /\ observed \in [DOMAIN observed -> Seen]
      /\ deletes \subseteq Rule /\ creates \subseteq Nat
      /\ \A sp \in Settings : Wanted(sp) \subseteq Suffix
  BY DEF TypeOK, WorkerOK, Wanted
<1>1. spec' \in Settings
  BY <1>0, Frame DEF EditSpec
<1> SUFFICES /\ work' \in Settings /\ pc' \in Steps /\ todo' \subseteq Suffix
             /\ group' \in Suffix \cup {"none"} /\ DOMAIN observed' \subseteq Suffix
             /\ observed' \in [DOMAIN observed' -> Seen]
             /\ deletes' \subseteq Rule /\ creates' \subseteq Nat
  BY <1>1 DEF WorkerOK
<1>2. CASE Stop
  <2>1. DOMAIN <<>> = {} /\ <<>> \in [{} -> Seen]
    OBVIOUS
  <2> QED BY <1>2, <2>1, IdleType DEF Stop, Steps
<1>3. CASE UNCHANGED worker
  BY <1>0, <1>3 DEF worker
<1>4. CASE Start
  BY <1>0, <1>4 DEF Start, First, change, Steps
<1>5. CASE DeleteBastionGroup \/ ReconcileBastion
  BY <1>0, <1>5 DEF DeleteBastionGroup, ReconcileBastion, Goto, change, Steps
<1>6. CASE RulesDone
  BY <1>0, <1>6 DEF RulesDone, Steps
<1>7. ASSUME NEW s \in Suffix, ReconcileGroupRules(s)
      PROVE  /\ work' \in Settings /\ pc' \in Steps /\ todo' \subseteq Suffix
             /\ group' \in Suffix \cup {"none"} /\ DOMAIN observed' \subseteq Suffix
             /\ observed' \in [DOMAIN observed' -> Seen]
             /\ deletes' \subseteq Rule /\ creates' \subseteq Nat
  <2>1. /\ pc = "rules" /\ pc' = "apply" /\ s \in todo /\ todo' = todo \ {s} /\ group' = s
        /\ UNCHANGED <<work, observed>> /\ deletes' = Obsolete(s) /\ creates' = Missing(s)
    BY <1>7 DEF ReconcileGroupRules, At
  <2>2. s \in Wanted(work) /\ s \in DOMAIN observed
    BY <2>1 DEF SeenInv, RuleSteps
  <2>3. Obsolete(s) \subseteq Rule
    BY <1>0, <2>2 DEF Obsolete
  <2>4. Missing(s) \subseteq Nat
    <3>1. Desired(work, IDs, s) \in Seq(Rule)
      BY <2>1, <2>2, WorkType DEF RuleSteps
    <3>2. Missing(s) \subseteq DOMAIN Desired(work, IDs, s)
      BY DEF Missing
    <3> QED BY <3>1, <3>2
  <2> QED BY <1>0, <2>1, <2>3, <2>4 DEF Steps
<1>8. ASSUME NEW s \in Suffix, GetOrCreateSecurityGroup(s), ~Stop
      PROVE  /\ work' \in Settings /\ pc' \in Steps /\ todo' \subseteq Suffix
             /\ group' \in Suffix \cup {"none"} /\ DOMAIN observed' \subseteq Suffix
             /\ observed' \in [DOMAIN observed' -> Seen]
             /\ deletes' \subseteq Rule /\ creates' \subseteq Nat
  <2>1. /\ todo' = todo \ {s} /\ UNCHANGED <<work, group, deletes, creates>>
        /\ pc' \in {"tag", NextGroup(todo')}
    BY <1>8, GroupFound DEF change
  <2>2. PICK id \in DOMAIN groups' :
          observed' = With(observed, s, [id |-> id, rules |-> groups'[id].rules])
    BY <1>8, GroupFound
  <2>3. [id |-> id, rules |-> groups'[id].rules] \in Seen
    BY GroupsNext DEF GroupsOK
  <2>4. ASSUME NEW v \in Seen, observed' = With(observed, s, v)
        PROVE  DOMAIN observed' \subseteq Suffix /\ observed' \in [DOMAIN observed' -> Seen]
    BY <1>0, <2>4 DEF With
  <2> QED BY <1>0, <2>1, <2>2, <2>3, <2>4 DEF NextGroup, Steps
<1>9. CASE (ReplaceTags \/ GenerateDesiredSecGroups) /\ ~Stop
  BY <1>0, <1>9 DEF ReplaceTags, GenerateDesiredSecGroups, Goto, NextGroup, change, Steps
<1>10. ASSUME NEW r \in deletes, DeleteRule(r), ~Stop
       PROVE  /\ UNCHANGED <<pc, work, todo, observed, group, creates>> /\ deletes' \subseteq deletes
  BY <1>10 DEF DeleteRule
<1>11. ASSUME NEW i \in creates, CreateRule(i), ~Stop
       PROVE  /\ UNCHANGED <<pc, work, todo, observed, group, deletes>> /\ creates' \subseteq creates
  BY <1>11 DEF CreateRule
<1>12. CASE \/ \E r \in deletes : DeleteRule(r) /\ ~Stop
            \/ \E i \in creates : CreateRule(i) /\ ~Stop
  BY <1>0, <1>10, <1>11, <1>12
<1> QED BY <1>2, <1>3, <1>4, <1>5, <1>6, <1>7, <1>8, <1>9, <1>12, Flow

\* Every step keeps the counters within their bounds.
LEMMA CountersNext == TypeOK /\ [Next]_vars => CountersOK'
<1> SUFFICES ASSUME TypeOK, [Next]_vars PROVE CountersOK'
  OBVIOUS
<1>0. /\ faults \in 0..MaxFaults /\ edits \in 0..MaxEdits /\ drift \in 0..faults
      /\ MaxFaults \in Nat /\ MaxEdits \in Nat
  BY SecurityGroupsAssumption DEF TypeOK, CountersOK
<1>1. faults' = faults \/ (faults < MaxFaults /\ faults' = faults + 1)
  BY Zenon DEF Next, Worker, vars, Start, DeleteBastionGroup, ReplaceTags,
     GenerateDesiredSecGroups, GetOrCreateSecurityGroup, ReconcileGroupRules, DeleteRule,
     CreateRule, RulesDone, ReconcileBastion, PatchStatus, BastionGone, EditSpec, Drift, Crash,
     Works, Fails
<1>2. drift' = drift \/ (drift' = drift + 1 /\ faults' = faults + 1)
  BY Frame DEF Drift, Fails
<1>3. edits' = edits \/ (edits < MaxEdits /\ edits' = edits + 1)
  BY Frame DEF EditSpec
<1> QED BY <1>0, <1>1, <1>2, <1>3 DEF CountersOK

\* The invariant of the worker, apart from the rules.
CoreInv == TypeOK /\ Unique /\ SeenInv /\ ChangesInv

\* Types, observed groups and pending changes are invariant together.
LEMMA CoreHolds == Spec => []CoreInv
<1>1. Init => CoreInv
  <2> SUFFICES ASSUME Init PROVE CoreInv
    OBVIOUS
  <2>0. DOMAIN <<>> = {} /\ \A S : <<>> \in [{} -> S]
    OBVIOUS
  <2>1. GroupsOK
    BY <2>0 DEF Init, GroupsOK
  <2>2. PublishedOK
    BY IdleType DEF Init, PublishedOK, Unpublished, NoBastion
  <2>3. WorkerOK
    BY <2>0, IdleType DEF Init, WorkerOK, Steps
  <2>4. CountersOK
    BY SecurityGroupsAssumption DEF Init, CountersOK
  <2>5. Unique /\ ChangesInv
    BY <2>0 DEF Init, Unique, ChangesInv
  <2> QED BY <2>1, <2>2, <2>3, <2>4, <2>5, SeenInit DEF CoreInv, TypeOK
<1>2. CoreInv /\ [Next]_vars => CoreInv'
  BY GroupsNext, PublishedNext, WorkerNext, CountersNext, UniqueNext, SeenNext, ChangesNext
     DEF CoreInv, TypeOK
<1> QED BY <1>1, <1>2, PTL DEF Spec

\* Every variable stays in its type: what is sent to Neutron is a rule whose remote
\* group exists or has existed, never the placeholder for the group itself.
THEOREM TypeCorrect == Spec => []TypeOK
<1>1. CoreInv => TypeOK
  BY DEF CoreInv
<1> QED BY <1>1, CoreHolds, PTL

-----------------------------------------------------------------------------
(* The rules *)

\* The groups that the worker has seen are the ones that there are.
LEMMA SeenIsCurrent ==
  ASSUME CoreInv, NEW s \in DOMAIN observed
  PROVE  /\ ByName(s) # {} /\ Current[s] = IDs[s] /\ IDs[s] = observed[s].id
         /\ observed[s].id \in DOMAIN groups
<1>1. s \in Suffix /\ observed[s].id \in DOMAIN groups /\ observed[s].id[1] = s
  BY DEF CoreInv, TypeOK, WorkerOK, SeenInv
<1>2. ByName(s) = {observed[s].id}
  BY <1>1 DEF ByName, CoreInv, Unique
<1>3. (CHOOSE id \in {observed[s].id} : TRUE) = observed[s].id
  OBVIOUS
<1>4. Current[s] = observed[s].id
  BY <1>1, <1>2, <1>3 DEF Current
<1>5. IDs[s] = observed[s].id
  BY DEF IDs
<1> QED BY <1>1, <1>2, <1>4, <1>5

\* Once every group was observed, the desired rules refer to the groups there are.
LEMMA CurrentRules ==
  ASSUME CoreInv, DOMAIN observed = Wanted(work), RemotesValid(work), NEW s \in Wanted(work)
  PROVE  Desired(work, Current, s) = Desired(work, IDs, s)
<1>1. work \in Settings /\ \A x \in Wanted(work) : Current[x] = IDs[x]
  BY SeenIsCurrent DEF CoreInv, TypeOK, WorkerOK
<1> QED BY <1>1, DesiredSame

\* While the worker changes the rules of a group, these are the changes.
LEMMA ApplyStep ==
  ASSUME CoreInv, [Next]_vars, pc = "apply"
  PROVE  \/ groups' = groups \/ Drift
         \/ \E r \in deletes : /\ groups' = [groups EXCEPT ![IDs[group]].rules = RulesNow \ {r}]
                               /\ Stop \/ (deletes' = deletes \ {r} /\ creates' = creates)
         \/ \E i \in creates :
              /\ groups' = [groups EXCEPT ![IDs[group]].rules =
                              RulesNow \cup {Desired(work, IDs, group)[i]}]
              /\ Stop \/ (deletes' = deletes /\ creates' = creates \ {i})
<1>1. CASE DeleteBastionGroup \/ ReplaceTags \/ \E s \in Suffix : GetOrCreateSecurityGroup(s)
  BY <1>1 DEF DeleteBastionGroup, ReplaceTags, GetOrCreateSecurityGroup, At
<1>2. ASSUME NEW r \in deletes, DeleteRule(r)
      PROVE  \/ groups' = groups
             \/ /\ groups' = [groups EXCEPT ![IDs[group]].rules = RulesNow \ {r}]
                /\ Stop \/ (deletes' = deletes \ {r} /\ creates' = creates)
  BY <1>2 DEF DeleteRule, SetRules
<1>3. ASSUME NEW i \in creates, CreateRule(i)
      PROVE  \/ groups' = groups
             \/ /\ groups' = [groups EXCEPT ![IDs[group]].rules =
                                RulesNow \cup {Desired(work, IDs, group)[i]}]
                /\ Stop \/ (deletes' = deletes /\ creates' = creates \ {i})
  BY <1>3 DEF CreateRule, SetRules
<1> QED BY <1>1, <1>2, <1>3, Frame

\* No rule that the spec calls for is deleted, although the diff is made of a snapshot
\* and applied call by call, also when rules have been changed by hand in between.
THEOREM NeededRulesStay == Spec => NeededRuleKept
<1>1. CoreInv /\ [Next]_vars =>
        [pc = "apply" /\ drift' = drift
           => \A r \in RulesNow \ groups'[IDs[group]].rules :
                r \notin ToSet(Desired(work, Current, group))]_vars
  <2> SUFFICES ASSUME CoreInv, [Next]_vars, pc = "apply", drift' = drift,
                      NEW r \in RulesNow, r \notin groups'[IDs[group]].rules
               PROVE  r \notin ToSet(Desired(work, Current, group))
    OBVIOUS
  <2>1. /\ group \in Wanted(work) /\ DOMAIN observed = Wanted(work) /\ RemotesValid(work)
        /\ deletes \subseteq Obsolete(group) /\ groups \in [DOMAIN groups -> GroupRecord]
        /\ drift \in Nat
    BY SecurityGroupsAssumption
       DEF CoreInv, SeenInv, ChangesInv, RuleSteps, TypeOK, GroupsOK, GroupRecord, CountersOK
  <2>2. IDs[group] \in DOMAIN groups
    BY <2>1, SeenIsCurrent
  <2>3. ~Drift
    BY <2>1 DEF Drift
  <2>4. ASSUME NEW rules, groups' = [groups EXCEPT ![IDs[group]].rules = rules]
        PROVE  r \notin rules
    BY <2>1, <2>2, <2>4 DEF GroupRecord
  <2>5. r \in deletes
    <3>1. groups' # groups
      BY DEF RulesNow
    <3>2. ASSUME NEW i \in creates,
                 groups' = [groups EXCEPT ![IDs[group]].rules =
                              RulesNow \cup {Desired(work, IDs, group)[i]}]
          PROVE  FALSE
      <4>1. r \notin RulesNow \cup {Desired(work, IDs, group)[i]}
        BY <2>4, <3>2
      <4> QED BY <4>1
    <3>3. PICK q \in deletes : groups' = [groups EXCEPT ![IDs[group]].rules = RulesNow \ {q}]
      BY <2>3, <3>1, <3>2, ApplyStep
    <3>4. r \notin RulesNow \ {q}
      BY <2>4, <3>3
    <3> QED BY <3>3, <3>4
  <2>6. r \notin ToSet(Desired(work, IDs, group))
    BY <2>1, <2>5 DEF Obsolete
  <2> QED BY <2>1, <2>6, CurrentRules
<1> QED BY <1>1, CoreHolds, PTL DEF Spec, NeededRuleKept


\* What is known of a group whose rules stay is still known.
LEMMA SameRules ==
  ASSUME UNCHANGED <<work, observed>>, NEW s,
         groups'[observed[s].id].rules = groups[observed[s].id].rules
  PROVE  (AsSeen(s) => AsSeen(s)') /\ (Settled(s) => Settled(s)')
BY SameDiff DEF AsSeen, Settled

\* The groups seen are different ones, and changing one leaves the others alone.
LEMMA OthersStay ==
  ASSUME CoreInv, NEW g \in DOMAIN observed, NEW rules,
         groups' = [groups EXCEPT ![IDs[g]].rules = rules], UNCHANGED <<work, observed>>
  PROVE  /\ groups'[observed[g].id].rules = rules
         /\ \A s \in DOMAIN observed : s # g =>
              groups'[observed[s].id].rules = groups[observed[s].id].rules
<1>1. \A s \in DOMAIN observed : observed[s].id \in DOMAIN groups /\ observed[s].id[1] = s
  BY DEF CoreInv, SeenInv
<1>2. IDs[g] = observed[g].id
  BY DEF IDs
<1>3. groups \in [DOMAIN groups -> GroupRecord]
  BY DEF CoreInv, TypeOK, GroupsOK, GroupRecord
<1>4. groups'[observed[g].id].rules = rules
  BY <1>1, <1>2, <1>3 DEF GroupRecord
<1>5. ASSUME NEW s \in DOMAIN observed, s # g
      PROVE  groups'[observed[s].id].rules = groups[observed[s].id].rules
  <2>1. observed[s].id # observed[g].id
    BY <1>1, <1>5
  <2> QED BY <1>1, <1>2, <2>1
<1> QED BY <1>4, <1>5

\* A step that is none of the worker's leaves the rules alone, unless it is a change by hand.
LEMMA WorkerIdle ==
  ASSUME [Next]_vars, UNCHANGED worker, ~Drift
  PROVE  groups' = groups /\ status' = status
<1> USE DEF worker
<1>1. DeleteBastionGroup => FALSE
  BY DEF DeleteBastionGroup, At, Goto
<1>2. ReplaceTags => FALSE
  BY DEF ReplaceTags, At, Goto, Stop, NextGroup
<1>3. ASSUME NEW s \in Suffix, GetOrCreateSecurityGroup(s) PROVE FALSE
  <2>1. Stop => FALSE
    BY <1>3 DEF Stop, GetOrCreateSecurityGroup, At
  <2>2. s \in todo /\ todo' = todo \ {s}
    BY <1>3, <2>1, GroupFound
  <2> QED BY <2>2
<1>4. ASSUME NEW r \in deletes, DeleteRule(r) PROVE FALSE
  BY <1>4 DEF DeleteRule, At, Stop
<1>5. ASSUME NEW i \in creates, CreateRule(i) PROVE FALSE
  BY <1>5 DEF CreateRule, At, Stop
<1>6. PatchStatus => FALSE
  BY DEF PatchStatus, Stop
<1> QED BY <1>1, <1>2, <1>3, <1>4, <1>5, <1>6, Frame

\* Until all rules are there the worker leaves the published IDs as they are.
LEMMA ResultNext ==
  ASSUME RulesInv, [Next]_vars
  PROVE  (pc \notin {"idle", "bastion", "patch"} => result = status)'
<1>1. PatchStatus => Stop
  BY DEF PatchStatus
<1>2. CASE Stop
  BY <1>2 DEF Stop
<1>3. CASE UNCHANGED worker /\ ~Stop
  BY <1>1, <1>3, Frame DEF worker, RulesInv
<1>4. CASE Start
  BY <1>4 DEF Start, At
<1>5. CASE DeleteBastionGroup
  BY <1>5 DEF DeleteBastionGroup, At, Goto, RulesInv
<1>6. CASE RulesDone
  BY <1>6 DEF RulesDone, At, RulesInv
<1>7. CASE ReconcileBastion
  BY <1>7 DEF ReconcileBastion, Goto
<1>8. ASSUME NEW s \in Suffix, ReconcileGroupRules(s)
      PROVE  (pc \notin {"idle", "bastion", "patch"} => result = status)'
  BY <1>8 DEF ReconcileGroupRules, At, RulesInv
<1>9. ASSUME NEW s \in Suffix, GetOrCreateSecurityGroup(s), ~Stop
      PROVE  (pc \notin {"idle", "bastion", "patch"} => result = status)'
  <2>1. pc = "get" /\ result' = result
    BY <1>9, GroupFound
  <2>2. status' = status
    BY <1>9 DEF GetOrCreateSecurityGroup, At
  <2> QED BY <2>1, <2>2 DEF RulesInv
<1>10. CASE ReplaceTags /\ ~Stop
  BY <1>10 DEF ReplaceTags, At, Goto, RulesInv
<1>11. CASE GenerateDesiredSecGroups /\ ~Stop
  BY <1>11 DEF GenerateDesiredSecGroups, At, RulesInv
<1>12. ASSUME NEW r \in deletes, DeleteRule(r), ~Stop
       PROVE  (pc \notin {"idle", "bastion", "patch"} => result = status)'
  BY <1>12 DEF DeleteRule, At, RulesInv
<1>13. ASSUME NEW i \in creates, CreateRule(i), ~Stop
       PROVE  (pc \notin {"idle", "bastion", "patch"} => result = status)'
  BY <1>13 DEF CreateRule, At, RulesInv
<1> QED BY <1>2, <1>3, <1>4, <1>5, <1>6, <1>7, <1>8, <1>9, <1>10, <1>11, <1>12, <1>13, Flow

\* getOrCreateSecurityGroup takes the snapshot of a group, and leaves the others alone.
LEMMA SnapshotTaken ==
  ASSUME CoreInv, RulesKnown, NEW s \in Suffix, GetOrCreateSecurityGroup(s), ~Stop
  PROVE  RulesKnown'
<1>1. PICK id \in DOMAIN groups' :
        /\ id[1] = s
        /\ observed' = With(observed, s, [id |-> id, rules |-> groups'[id].rules])
        /\ \/ groups' = groups
           \/ ByName(s) = {} /\ groups' = With(groups, id, NewGroup)
  BY GroupFound
<1>2. pc = "get" /\ pc' \in {"get", "tag", "generate"}
  BY GroupFound DEF NextGroup
<1>3. \A x \in DOMAIN observed : /\ observed[x].id \in DOMAIN groups /\ observed[x].id[1] = x
                                 /\ groups[observed[x].id].rules = observed[x].rules
  BY <1>2 DEF CoreInv, SeenInv, RulesKnown, AsSeen
<1>4. ASSUME NEW x \in DOMAIN observed' PROVE AsSeen(x)'
  <2>1. CASE x = s
    BY <1>1, <2>1 DEF AsSeen, With
  <2>2. CASE x # s
    <3>1. x \in DOMAIN observed /\ observed'[x] = observed[x]
      BY <1>1, <2>2 DEF With
    <3>2. observed[x].id # id
      BY <1>1, <1>3, <2>2, <3>1
    <3>3. groups'[observed[x].id] = groups[observed[x].id]
      BY <1>1, <1>3, <3>1, <3>2 DEF With
    <3> QED BY <1>3, <3>1, <3>3 DEF AsSeen
  <2> QED BY <2>1, <2>2
<1> QED BY <1>2, <1>4 DEF RulesKnown, RuleSteps

\* deleteSecurityGroup comes before any snapshot.
LEMMA DeleteBeforeSnapshot ==
  ASSUME CoreInv, RulesInv, DeleteBastionGroup
  PROVE  RulesKnown'
<1>1. pc = "delete" /\ pc' \in {"get", "bastion"} /\ UNCHANGED <<observed, result, status>>
  BY DEF DeleteBastionGroup, At, Goto
<1>2. DOMAIN observed' = {} /\ result' = status'
  BY <1>1 DEF CoreInv, SeenInv, RulesInv
<1> QED BY <1>1, <1>2 DEF RulesKnown, RuleSteps

\* Replacing tags leaves the rules as they were known.
LEMMA TagsKeepRules ==
  ASSUME CoreInv, RulesKnown, ReplaceTags, ~Stop
  PROVE  RulesKnown'
<1>1. /\ pc = "tag" /\ pc' \in {"get", "generate"} /\ UNCHANGED <<work, observed>>
      /\ DOMAIN groups' = DOMAIN groups
      /\ \A g \in DOMAIN groups : groups'[g].rules = groups[g].rules
  <2>1. groups \in [DOMAIN groups -> GroupRecord]
    BY DEF CoreInv, TypeOK, GroupsOK, GroupRecord
  <2> QED BY <2>1 DEF ReplaceTags, At, Goto, NextGroup, GroupRecord
<1>2. ASSUME NEW x \in DOMAIN observed PROVE AsSeen(x)'
  <2>1. observed[x].id \in DOMAIN groups /\ AsSeen(x)
    BY <1>1 DEF CoreInv, SeenInv, RulesKnown
  <2> QED BY <1>1, <2>1, SameRules
<1> QED BY <1>1, <1>2 DEF RulesKnown, RuleSteps

\* Generating the desired rules leaves the groups as they were seen.
LEMMA GenerateKeepsRules ==
  ASSUME CoreInv, RulesKnown, GenerateDesiredSecGroups, ~Stop
  PROVE  RulesKnown'
<1>1. /\ pc = "generate" /\ pc' = "rules" /\ todo' = Wanted(work)
      /\ UNCHANGED <<work, observed, groups>>
  BY DEF GenerateDesiredSecGroups, At
<1>2. \A x \in Wanted(work) : AsSeen(x)'
  BY <1>1, SameRules DEF CoreInv, SeenInv, RulesKnown
<1> QED BY <1>1, <1>2 DEF RulesKnown, RuleSteps

\* reconcileGroupRules starts from the snapshot.
LEMMA DiffStarts ==
  ASSUME CoreInv, RulesKnown, NEW s \in Suffix, ReconcileGroupRules(s)
  PROVE  RulesKnown'
<1>1. /\ pc = "rules" /\ pc' = "apply" /\ s \in todo /\ todo' = todo \ {s} /\ group' = s
      /\ deletes' = Obsolete(s) /\ creates' = Missing(s) /\ UNCHANGED <<work, observed, groups>>
  BY DEF ReconcileGroupRules, At
<1>2. /\ \A x \in todo : AsSeen(x)
      /\ \A x \in Wanted(work) \ todo : Settled(x)
  BY <1>1 DEF RulesKnown, RuleSteps
<1>3. /\ \A x \in todo : AsSeen(x)'
      /\ \A x \in Wanted(work) \ todo : Settled(x)'
  BY <1>1, <1>2, SameRules
<1>4. Halfway(s)'
  <2>1. Obsolete(s)' = Obsolete(s) /\ Missing(s)' = Missing(s)
    BY <1>1, SameDiff
  <2>2. AsSeen(s)'
    BY <1>1, <1>3
  <2> QED BY <1>1, <2>1, <2>2 DEF Halfway, AsSeen
<1>5. Halfway(group)'
  BY <1>1, <1>4 DEF Halfway, Obsolete, Missing, Desired
<1> QED BY <1>1, <1>3, <1>5 DEF RulesKnown, RuleSteps

\* One call to Neutron changes the rules of one group.
LEMMA OneCall ==
  ASSUME CoreInv, RulesKnown, pc = "apply", pc' = "apply",
         UNCHANGED <<work, todo, observed, result, group>>,
         NEW rules, SetRules(rules),
         rules = (observed[group].rules \ (Obsolete(group) \ deletes'))
                   \cup {Desired(work, IDs, group)[i] : i \in Missing(group) \ creates'}
  PROVE  RulesKnown'
<1>1. /\ group \in Wanted(work) \ todo /\ DOMAIN observed = Wanted(work)
      /\ todo \subseteq Wanted(work)
  BY DEF CoreInv, SeenInv, RuleSteps
<1>2. /\ groups'[observed[group].id].rules = rules
      /\ \A s \in DOMAIN observed : s # group =>
           groups'[observed[s].id].rules = groups[observed[s].id].rules
  BY <1>1, OthersStay DEF SetRules
<1>3. ASSUME NEW s \in todo PROVE AsSeen(s)'
  BY <1>1, <1>2, SameRules DEF RulesKnown, RuleSteps
<1>4. ASSUME NEW s \in Wanted(work) \ todo, s # group PROVE Settled(s)'
  BY <1>1, <1>2, <1>4, SameRules DEF RulesKnown, RuleSteps
<1>5. Halfway(group)'
  <2>1. /\ Obsolete(group)' = Obsolete(group) /\ Missing(group)' = Missing(group)
        /\ Desired(work, IDs, group)' = Desired(work, IDs, group)
    BY DEF Obsolete, Missing, IDs, Desired
  <2>2. observed'[group'] = observed[group]
    OBVIOUS
  <2> QED BY <1>2, <2>1, <2>2 DEF Halfway
<1> QED BY <1>3, <1>4, <1>5 DEF RulesKnown, RuleSteps

\* A deleted rule was one of the superfluous ones.
LEMMA DeleteApplied ==
  ASSUME CoreInv, RulesKnown, NEW r \in deletes, DeleteRule(r), ~Stop
  PROVE  RulesKnown'
<1>1. /\ pc = "apply" /\ pc' = "apply" /\ SetRules(RulesNow \ {r}) /\ r \in RulesNow
      /\ deletes' = deletes \ {r} /\ creates' = creates
      /\ UNCHANGED <<work, todo, observed, result, group>>
  BY DEF DeleteRule, At
<1>2. r \in Obsolete(group) /\ r \in observed[group].rules
  BY <1>1 DEF CoreInv, ChangesInv, Obsolete
<1>3. RulesNow = (observed[group].rules \ (Obsolete(group) \ deletes))
                   \cup {Desired(work, IDs, group)[i] : i \in Missing(group) \ creates}
  <2>1. group \in DOMAIN observed
    BY <1>1 DEF CoreInv, SeenInv, RuleSteps
  <2>2. IDs[group] = observed[group].id
    BY <2>1 DEF IDs
  <2> QED BY <1>1, <2>2 DEF RulesKnown, Halfway, RulesNow
<1>4. \A i \in Missing(group) : Desired(work, IDs, group)[i] # r
  BY <1>2 DEF Missing
<1>5. RulesNow \ {r} = (observed[group].rules \ (Obsolete(group) \ deletes'))
                   \cup {Desired(work, IDs, group)[i] : i \in Missing(group) \ creates'}
  BY <1>1, <1>2, <1>3, <1>4
<1> QED BY <1>1, <1>5, OneCall

\* A created rule was one of the missing ones.
LEMMA CreateApplied ==
  ASSUME CoreInv, RulesKnown, NEW k \in creates, CreateRule(k), ~Stop
  PROVE  RulesKnown'
<1> DEFINE r == Desired(work, IDs, group)[k]
<1>1. /\ pc = "apply" /\ pc' = "apply" /\ SetRules(RulesNow \cup {r})
      /\ deletes' = deletes /\ creates' = creates \ {k}
      /\ UNCHANGED <<work, todo, observed, result, group>>
  BY DEF CreateRule, At
<1>2. k \in Missing(group)
  BY <1>1 DEF CoreInv, ChangesInv
<1>3. RulesNow = (observed[group].rules \ (Obsolete(group) \ deletes))
                   \cup {Desired(work, IDs, group)[i] : i \in Missing(group) \ creates}
  <2>1. group \in DOMAIN observed
    BY <1>1 DEF CoreInv, SeenInv, RuleSteps
  <2>2. IDs[group] = observed[group].id
    BY <2>1 DEF IDs
  <2> QED BY <1>1, <2>2 DEF RulesKnown, Halfway, RulesNow
<1>4. Missing(group) \ creates' = (Missing(group) \ creates) \cup {k}
  BY <1>1, <1>2
<1>5. RulesNow \cup {r} = (observed[group].rules \ (Obsolete(group) \ deletes'))
                   \cup {Desired(work, IDs, group)[i] : i \in Missing(group) \ creates'}
  BY <1>1, <1>3, <1>4
<1> QED BY <1>1, <1>5, OneCall

\* When the changes have been made the group has the rules of the spec.
LEMMA DiffDone ==
  ASSUME CoreInv, RulesKnown, RulesDone
  PROVE  RulesKnown'
<1>1. /\ pc = "apply" /\ deletes = {} /\ creates = {} /\ pc' \in {"rules", "bastion"}
      /\ pc' = "bastion" => todo = {}
      /\ UNCHANGED <<work, todo, observed, groups>>
  BY DEF RulesDone, At
<1>2. /\ group \in Wanted(work) /\ DOMAIN observed = Wanted(work) /\ RemotesValid(work)
  BY <1>1 DEF CoreInv, SeenInv, RuleSteps
<1>3. Desired(work, IDs, group) \in Seq(Rule)
  BY <1>1, <1>2, WorkType DEF CoreInv, RuleSteps
<1>4. Settled(group)
  <2> DEFINE d == Desired(work, IDs, group)
             o == observed[group].rules
  <2>1. groups[observed[group].id].rules
          = (o \ (o \ ToSet(d))) \cup {d[i] : i \in {j \in DOMAIN d : d[j] \notin o}}
    BY <1>1 DEF RulesKnown, Halfway, Obsolete, Missing
  <2>2. ToSet(d) = {d[i] : i \in DOMAIN d}
    BY DEF ToSet
  <2> HIDE DEF d
  <2>3. (o \ (o \ ToSet(d))) \cup {d[i] : i \in {j \in DOMAIN d : d[j] \notin o}} = ToSet(d)
    BY <2>2
  <2> QED BY <2>1, <2>3 DEF Settled, d
<1>5. \A s \in todo : AsSeen(s)'
  BY <1>1, SameRules DEF RulesKnown, RuleSteps
<1>6. \A s \in Wanted(work) \ todo : Settled(s)'
  BY <1>1, <1>4, SameRules DEF RulesKnown, RuleSteps
<1>7. Wanted(work)' = Wanted(work) /\ RemotesValid(work)' = RemotesValid(work)
  BY <1>1 DEF Wanted, RemotesValid
<1> QED BY <1>1, <1>2, <1>5, <1>6, <1>7 DEF RulesKnown, RuleSteps

\* Every step keeps what is known of the rules of each group.
LEMMA RulesNext == CoreInv /\ RulesInv /\ [Next]_vars => RulesInv'
<1> SUFFICES ASSUME CoreInv, RulesInv, [Next]_vars, drift' = 0 PROVE RulesKnown'
  BY ResultNext DEF RulesInv
<1>1. drift = 0 /\ ~Drift
  BY Frame, SecurityGroupsAssumption DEF CoreInv, TypeOK, CountersOK, Drift
<1>2. RulesKnown
  BY <1>1 DEF RulesInv
<1>3. CASE Stop
  BY <1>3 DEF Stop, RulesKnown, RuleSteps
<1>4. CASE UNCHANGED worker
  <2>1. groups' = groups /\ status' = status
    BY <1>1, <1>4, WorkerIdle
  <2>2. UNCHANGED <<pc, work, todo, observed, result, group, deletes, creates>>
    BY <1>4 DEF worker
  <2>3. \A s : (AsSeen(s) => AsSeen(s)') /\ (Settled(s) => Settled(s)')
    BY <2>1, <2>2, SameRules
  <2>4. Halfway(group) => Halfway(group)'
    <3>1. /\ Obsolete(group)' = Obsolete(group) /\ Missing(group)' = Missing(group)
          /\ Desired(work, IDs, group)' = Desired(work, IDs, group)
      BY <2>2 DEF Obsolete, Missing, IDs, Desired
    <3> QED BY <2>1, <2>2, <3>1 DEF Halfway
  <2>5. Wanted(work)' = Wanted(work) /\ RemotesValid(work)' = RemotesValid(work)
    BY <2>2 DEF Wanted, RemotesValid
  <2> QED BY <1>2, <2>1, <2>2, <2>3, <2>4, <2>5 DEF RulesKnown
<1>5. CASE Start
  <2>1. pc = "idle" /\ pc' \in {"get", "delete"} /\ observed' = observed
    BY <1>5 DEF Start, At, First
  <2>2. DOMAIN observed' = {}
    BY <2>1 DEF CoreInv, SeenInv
  <2> QED BY <2>1, <2>2 DEF RulesKnown, RuleSteps
<1>6. CASE ReconcileBastion
  <2>1. /\ pc = "bastion" /\ pc' = "patch"
        /\ UNCHANGED <<work, todo, observed, result, groups, status>>
    BY <1>6 DEF ReconcileBastion, Goto
  <2> QED BY <1>2, <2>1 DEF RulesKnown, RuleSteps, Settled, IDs, Desired
<1> QED BY <1>2, <1>3, <1>4, <1>5, <1>6, Flow, DeleteBeforeSnapshot, DiffDone, DiffStarts,
           SnapshotTaken, TagsKeepRules, GenerateKeepsRules, DeleteApplied, CreateApplied

\* Unless rules are changed by hand, group IDs are published only when every group that
\* the spec calls for has exactly its rules, although the rules are compared with a
\* snapshot that was taken before and every call may fail half way.
THEOREM PublishedIsComplete == Spec => PublishedComplete
<1>1. Init => RulesInv
  BY DEF Init, RulesInv, RulesKnown, RuleSteps
<1>2. CoreInv /\ RulesInv /\ [Next]_vars => [status' # status /\ drift = 0 => Complete(work)]_vars
  <2> SUFFICES ASSUME CoreInv, RulesInv, [Next]_vars, status' # status, drift = 0
               PROVE  Complete(work)
    OBVIOUS
  <2>1. pc = "patch" /\ result # status
    BY Frame DEF PatchStatus
  <2>2. /\ DOMAIN observed = Wanted(work) /\ RemotesValid(work)
        /\ \A s \in Wanted(work) : Settled(s)
    BY <2>1 DEF RulesInv, RulesKnown
  <2>3. ASSUME NEW s \in Wanted(work)
        PROVE  ByName(s) # {} /\ groups[Current[s]].rules = ToSet(Desired(work, Current, s))
    <3>1. ByName(s) # {} /\ Current[s] = observed[s].id
      BY <2>2, SeenIsCurrent
    <3>2. Desired(work, Current, s) = Desired(work, IDs, s)
      BY <2>2, CurrentRules
    <3> QED BY <2>2, <3>1, <3>2 DEF Settled
  <2> QED BY <2>3 DEF Complete
<1> QED BY <1>1, <1>2, CoreHolds, RulesNext, PTL DEF Spec, PublishedComplete

=============================================================================
