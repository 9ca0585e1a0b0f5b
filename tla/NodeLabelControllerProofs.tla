---------------------- MODULE NodeLabelControllerProofs ----------------------
(***************************************************************************)
(* Theorems about NodeLabelController, for every value of its constants.   *)
(***************************************************************************)
EXTENDS NodeLabelController, FiniteSetTheorems, TLAPS

-----------------------------------------------------------------------------
(***************************************************************************)
(* Types                                                                   *)
(***************************************************************************)

\* The reads a step of a cycle relies on have been made in that cycle.
Phased ==
    /\ pc \in {"asgs", "list1", "list2", "node", "recheck", "send", "await"} =>
          evidence.group \in GroupEvidence
    /\ pc \in {"recheck", "send", "await"} => plan \in Plans
    /\ pc \notin {"recheck", "send", "await"} => plan = NoPlan

TypeInv == TypeOK /\ Phased

LEMMA InitTyped == Init => TypeInv
<1> SUFFICES ASSUME Init PROVE TypeInv
  OBVIOUS
<1>1. InitRev \in Nat
  BY ControllerAssumption, FS_CardinalityType DEF InitRev
<1>2. node \in [Names -> Objects \union {NoNode}] /\ cloud \in Clouds
  BY ControllerAssumption DEF Init
<1>3. WorldOK
  BY <1>1, <1>2, ControllerAssumption DEF Init, WorldOK
<1>4. CycleOK
  BY DEF Init, CycleOK, Tallies, ZeroTally
<1>5. PatchOK /\ Phased
  BY DEF Init, PatchOK, Phased, PCs
<1>6. QED
  BY <1>3, <1>4, <1>5 DEF TypeInv, TypeOK

\* What no step of the controller, of the network or of the process does: it
\* leaves the cluster and the cloud alone and at most uses up quota.
Calm == Controller \/ Loss \/ Signal \/ Crash \/ Restart

LEMMA CalmStep == Calm => UNCHANGED worldVars /\ (UNCHANGED quota \/ Disturb)
<1>1. Discovery => UNCHANGED worldVars /\ (UNCHANGED quota \/ Disturb)
  BY DEF Discovery, StartCycle, DescribeNodeGroup, DescribeAutoScalingGroups,
         ListGroupNodes, ListTrustedNodes, ProviderFailure, Quiet
<1>2. Attestation => UNCHANGED worldVars /\ (UNCHANGED quota \/ Disturb)
  BY DEF Attestation, AttestNode, RefuseProviderId, EvidenceUnavailable, Decide
<1>3. Application => UNCHANGED worldVars /\ (UNCHANGED quota \/ Disturb)
  BY DEF Application, RecheckPasses, RecheckFails, SendPatch, SendFails,
         PatchAccepted, PatchRejected, PatchTimesOut, Abandon
<1>4. CycleEnd => UNCHANGED worldVars /\ (UNCHANGED quota \/ Disturb)
  BY DEF CycleEnd, FinishNodes, Publish, PublishFails, StopLoop, Quiet
<1>5. Loss \/ Signal \/ Crash \/ Restart =>
          UNCHANGED worldVars /\ (UNCHANGED quota \/ Disturb)
  BY DEF Loss, LoseReply, LosePatch, Signal, Crash, Restart
<1>6. QED
  BY <1>1, <1>2, <1>3, <1>4, <1>5 DEF Calm, Controller

LEMMA DisturbTyped ==
    ASSUME quota \in Nat, UNCHANGED quota \/ Disturb
    PROVE  quota' \in Nat
BY DEF Disturb

\* The updates the actions make keep a Node object, and a cloud, what they are.
LEMMA UpdatedObject ==
    ASSUME NEW o \in Objects, NEW g \in BOOLEAN, NEW m \in Metas, NEW v \in Nat
    PROVE  [o EXCEPT !.grp = g, !.meta = m, !.rv = v] \in Objects
BY DEF Objects

LEMMA RelabelledObject ==
    ASSUME NEW o \in Objects, NEW l \in Labels \union {Absent}, NEW v \in Nat
    PROVE  [o EXCEPT !.label = l, !.rv = v] \in Objects
BY DEF Objects

LEMMA MovedInstance ==
    ASSUME NEW c \in Clouds, NEW i \in Instances, NEW gs \in SUBSET c.asgs
    PROVE  [c EXCEPT !.member[i] = gs] \in Clouds
BY DEF Clouds

LEMMA HealthChanged ==
    ASSUME NEW c \in Clouds, NEW i \in Instances
    PROVE  [c EXCEPT !.healthy[i] = ~ @] \in Clouds
BY DEF Clouds

LEMMA InstanceTerminated ==
    ASSUME NEW c \in Clouds, NEW i \in Instances
    PROVE  [c EXCEPT !.ec2[i] = "terminated"] \in Clouds
BY DEF Clouds

LEMMA GroupsReplaced ==
    ASSUME NEW c \in Clouds, NEW gs \in (SUBSET Asgs) \ {{}}
    PROVE  [c EXCEPT !.asgs = gs,
                     !.member = [i \in Instances |-> @[i] \intersect gs]] \in Clouds
BY DEF Clouds

LEMMA StatusChanged ==
    ASSUME NEW c \in Clouds, NEW s \in {"ACTIVE", "UPDATING", "DEGRADED"}
    PROVE  [c EXCEPT !.status = s] \in Clouds
BY DEF Clouds

\* A written object is typed if what is written is.
LEMMA WriteTyped ==
    ASSUME WorldOK, NEW n \in Names, NEW object \in Objects \union {NoNode}, Write(n, object)
    PROVE  /\ node' \in [Names -> Objects \union {NoNode}]
           /\ rev' \in Nat
BY DEF WorldOK, Write

LEMMA WorldTyped ==
    ASSUME TypeInv, Next
    PROVE  WorldOK'
<1>a. WorldOK /\ PatchOK
  BY DEF TypeInv, TypeOK
<1>b. rev \in Nat /\ rev + 1 \in Nat /\ cloud \in Clouds
  BY <1>a DEF WorldOK
<1>c. \A n \in Names : node[n] # NoNode => node[n] \in Objects
  BY <1>a DEF WorldOK
<1>1. CASE \E n \in Names : UpdateNode(n)
  <2>1. PICK n \in Names : UpdateNode(n)
    BY <1>1
  <2>2. PICK grp \in BOOLEAN, meta \in Metas :
            Write(n, [node[n] EXCEPT !.grp = grp, !.meta = meta, !.rv = rev + 1])
    BY <2>1 DEF UpdateNode
  <2>3. node[n] \in Objects
    BY <2>1, <1>c DEF UpdateNode
  <2>4. [node[n] EXCEPT !.grp = grp, !.meta = meta, !.rv = rev + 1] \in Objects
    BY <1>b, <2>3, UpdatedObject
  <2>5. QED
    BY <1>a, <2>1, <2>2, <2>4, WriteTyped, DisturbTyped DEF UpdateNode, WorldOK
<1>2. CASE \E n \in Names : ForeignLabelWrite(n)
  <2>1. PICK n \in Names : ForeignLabelWrite(n)
    BY <1>2
  <2>2. PICK label \in Labels \union {Absent} :
            Write(n, [node[n] EXCEPT !.label = label, !.rv = rev + 1])
    BY <2>1 DEF ForeignLabelWrite
  <2>3. node[n] \in Objects
    BY <2>1, <1>c DEF ForeignLabelWrite
  <2>4. [node[n] EXCEPT !.label = label, !.rv = rev + 1] \in Objects
    BY <1>b, <2>3, RelabelledObject
  <2>5. QED
    BY <1>a, <2>1, <2>2, <2>4, WriteTyped, DisturbTyped DEF ForeignLabelWrite, WorldOK
<1>3. CASE \E n \in Names : DeleteNode(n)
  BY <1>a, <1>3, WriteTyped, DisturbTyped DEF DeleteNode, WorldOK
<1>4. CASE \E n \in Names : JoinNode(n)
  <2>1. PICK n \in Names : JoinNode(n)
    BY <1>4
  <2>2. PICK pid \in ProviderIds, meta \in Metas, label \in Labels \union {Absent} :
            Write(n, [name |-> n, uid |-> rev + 1, rv |-> rev + 1, pid |-> pid,
                      label |-> label, grp |-> TRUE, meta |-> meta])
    BY <2>1 DEF JoinNode
  <2>3. [name |-> n, uid |-> rev + 1, rv |-> rev + 1, pid |-> pid,
         label |-> label, grp |-> TRUE, meta |-> meta] \in Objects
    BY <1>b DEF Objects
  <2>4. QED
    BY <1>a, <2>1, <2>2, <2>3, WriteTyped, DisturbTyped DEF JoinNode, WorldOK
<1>5. CASE CloudChange
  <2>1. ASSUME NEW i \in Instances, NEW gs \in SUBSET cloud.asgs,
               cloud' = [cloud EXCEPT !.member[i] = gs]
        PROVE  cloud' \in Clouds
    BY <1>b, <2>1, MovedInstance
  <2>2. ASSUME NEW i \in Instances, cloud' = [cloud EXCEPT !.healthy[i] = ~ @]
        PROVE  cloud' \in Clouds
    BY <1>b, <2>2, HealthChanged
  <2>3. ASSUME NEW i \in Instances, cloud' = [cloud EXCEPT !.ec2[i] = "terminated"]
        PROVE  cloud' \in Clouds
    BY <1>b, <2>3, InstanceTerminated
  <2>4. ASSUME NEW gs \in (SUBSET Asgs) \ {{}},
               cloud' = [cloud EXCEPT !.asgs = gs,
                            !.member = [i \in Instances |-> @[i] \intersect gs]]
        PROVE  cloud' \in Clouds
    BY <1>b, <2>4, GroupsReplaced
  <2>5. ASSUME NEW s \in {"ACTIVE", "UPDATING", "DEGRADED"},
               cloud' = [cloud EXCEPT !.status = s]
        PROVE  cloud' \in Clouds
    BY <1>b, <2>5, StatusChanged
  <2>6. cloud' \in Clouds
    BY <1>5, <2>1, <2>2, <2>3, <2>4, <2>5 DEF CloudChange
  <2>7. QED
    BY <1>a, <1>5, <2>6, DisturbTyped DEF CloudChange, WorldOK, apiVars
<1>6. CASE ClockStep
  BY <1>a, <1>6, DisturbTyped DEF ClockStep, WorldOK, apiVars
<1>7. CASE Server
  <2>1. PICK m \in inflight : ServerPatch(m)
    BY <1>7 DEF Server
  <2>2. m.plan.name \in Names
    BY <1>a DEF PatchOK, Plans
  <2>3. CASE UNCHANGED apiVars
    BY <1>a, <2>1, <2>3 DEF ServerPatch, WorldOK, apiVars
  <2>4. CASE Accepted(m.plan) /\ Write(m.plan.name, Patched(m.plan))
    <3>1. node[m.plan.name] \in Objects
      BY <1>c, <2>2, <2>4 DEF Accepted
    <3>2. Target(m.plan) \in Labels \union {Absent}
      BY KernelAssumption DEF Target
    <3>3. Patched(m.plan) \in Objects
      BY <1>b, <3>1, <3>2, RelabelledObject DEF Patched
    <3>4. QED
      BY <1>a, <2>1, <2>2, <2>4, <3>3, WriteTyped DEF ServerPatch, WorldOK
  <2>5. QED
    BY <2>1, <2>3, <2>4 DEF ServerPatch
<1>8. CASE Calm
  BY <1>a, <1>8, CalmStep, DisturbTyped DEF worldVars, WorldOK
<1>9. QED
  BY <1>1, <1>2, <1>3, <1>4, <1>5, <1>6, <1>7, <1>8 DEF Next, World, Calm

\* The steps that leave everything the cycle has gathered alone.
LEMMA CycleQuiet ==
    World \/ StartCycle \/ RecheckPasses \/ SendPatch \/ Server \/ Loss
          \/ FinishNodes \/ StopLoop \/ Signal \/ Restart
        => UNCHANGED <<cycleVars, sample>>
BY DEF World, UpdateNode, ForeignLabelWrite, DeleteNode, JoinNode, CloudChange, ClockStep,
       StartCycle, RecheckPasses, SendPatch, Server, ServerPatch, Loss, LoseReply, LosePatch,
       FinishNodes, StopLoop, Signal, Restart, Quiet, cycleVars

LEMMA ObjsTyped ==
    ASSUME WorldOK
    PROVE  GroupNodes \in SUBSET Objects /\ TrustedNodes \in SUBSET Objects
BY DEF WorldOK, GroupNodes, TrustedNodes, Objs

LEMMA CountersTyped ==
    ASSUME tally \in Tallies
    PROVE  /\ \A n, action : Counted(n, action) \in Tallies
           /\ \A capacity : CapacityTally(capacity) \in Tallies
           /\ \A c : [tally EXCEPT !.failures = @ + 1, !.missing = @ + One(c)] \in Tallies
           /\ [tally EXCEPT !.patched = @ + 1] \in Tallies
           /\ [ZeroTally EXCEPT !.failures = 1] \in Tallies
           /\ ZeroTally \in Tallies
<1>1. \A c : One(c) \in Nat
  BY DEF One
<1>2. ASSUME NEW t \in Tallies, NEW f \in Nat, NEW m \in Nat
      PROVE  /\ [t EXCEPT !.decisions = @ + 1, !.failures = @ + f, !.missing = @ + m] \in Tallies
             /\ [t EXCEPT !.failures = f, !.missing = m] \in Tallies
             /\ [t EXCEPT !.failures = @ + 1, !.missing = @ + m] \in Tallies
             /\ [t EXCEPT !.failures = 1] \in Tallies
             /\ [t EXCEPT !.patched = @ + 1] \in Tallies
  <2>1. /\ t.decisions + 1 \in Nat /\ t.patched + 1 \in Nat
        /\ t.failures + 1 \in Nat /\ t.failures + f \in Nat /\ t.missing + m \in Nat
    BY DEF Tallies
  <2>2. \A d, g, k, p \in Nat :
            /\ [t EXCEPT !.decisions = d, !.failures = g, !.missing = k] \in Tallies
            /\ [t EXCEPT !.failures = g, !.missing = k] \in Tallies
            /\ [t EXCEPT !.failures = g] \in Tallies
            /\ [t EXCEPT !.patched = p] \in Tallies
    BY DEF Tallies
  <2>3. QED
    BY <2>1, <2>2, 1 \in Nat, Zenon
<1>3. ZeroTally \in Tallies
  BY DEF Tallies, ZeroTally
<1>4. \A n, action : Counted(n, action) \in Tallies
  BY <1>1, <1>2, Zenon DEF Counted
<1>5. \A capacity : CapacityTally(capacity) \in Tallies
  BY <1>1, <1>2, <1>3, Zenon DEF CapacityTally
<1>6. \A c : [tally EXCEPT !.failures = @ + 1, !.missing = @ + One(c)] \in Tallies
  BY <1>1, <1>2, Zenon
<1>7. [tally EXCEPT !.patched = @ + 1] \in Tallies /\ [ZeroTally EXCEPT !.failures = 1] \in Tallies
  BY <1>2, <1>3, 0 \in Nat, Zenon
<1>8. QED
  BY <1>3, <1>4, <1>5, <1>6, <1>7

LEMMA CycleTyped ==
    ASSUME TypeInv, Next
    PROVE  CycleOK'
<1>a. WorldOK /\ CycleOK /\ PatchOK /\ Phased
  BY DEF TypeInv, TypeOK
<1>b. tally \in Tallies /\ todo \in SUBSET Objects /\ settled \in SUBSET Objects
  BY <1>a DEF CycleOK
<1>1. CASE World \/ StartCycle \/ RecheckPasses \/ SendPatch \/ Server \/ Loss
              \/ FinishNodes \/ StopLoop \/ Signal \/ Restart
  BY <1>a, <1>1, CycleQuiet DEF cycleVars, CycleOK
<1>2. CASE DescribeNodeGroup
  <2>1. [name |-> NodeGroup, status |-> cloud.status, asgs |-> cloud.asgs,
         scaling |-> cloud.scaling, at |-> now] \in GroupEvidence
    BY <1>a DEF WorldOK, Clouds, GroupEvidence
  <2>2. QED
    BY <1>a, <1>2, <2>1 DEF DescribeNodeGroup, CycleOK, Quiet
<1>3. CASE DescribeAutoScalingGroups
  <2>1. evidence.group.asgs \in SUBSET Asgs
    BY <1>a, <1>3 DEF DescribeAutoScalingGroups, Goto, Phased, GroupEvidence
  <2>2. \A g \in Asgs : AsgSnapshot(g) \in AsgEvidence
    BY <1>a DEF AsgSnapshot, AsgEvidence, WorldOK, Clouds
  <2>3. QED
    BY <1>a, <1>3, <2>1, <2>2 DEF DescribeAutoScalingGroups, CycleOK, Quiet
<1>4. CASE ListGroupNodes
  BY <1>a, <1>4, ObjsTyped DEF ListGroupNodes, CycleOK, Quiet
<1>5. CASE ListTrustedNodes
  BY <1>a, <1>b, <1>5, ObjsTyped, CountersTyped DEF ListTrustedNodes, CycleOK, Quiet
<1>6. CASE ProviderFailure
  BY <1>a, <1>b, <1>6, CountersTyped DEF ProviderFailure, CycleOK, Quiet
<1>7. CASE Attestation
  <2>1. ASSUME NEW n \in todo, NEW decision, Decide(n, decision)
        PROVE  CycleOK'
    BY <1>a, <1>b, <2>1, CountersTyped DEF Decide, CycleOK
  <2>2. QED
    BY <1>7, <2>1 DEF Attestation, AttestNode, RefuseProviderId, EvidenceUnavailable
<1>8. CASE Abandon
  BY <1>a, <1>b, <1>8, CountersTyped DEF Abandon, CycleOK
<1>9. CASE PatchAccepted
  <2>1. plan.seen \in Objects
    BY <1>a, <1>9 DEF PatchAccepted, Phased, Plans
  <2>2. QED
    BY <1>a, <1>b, <1>9, <2>1, CountersTyped DEF PatchAccepted, CycleOK
<1>10. CASE ForgetCycle /\ UNCHANGED sample
  BY <1>a, <1>b, <1>10, CountersTyped DEF ForgetCycle, CycleOK
<1>11. CASE Publish
  <2>1. sample' \in [decisions : Nat, failures : Nat, missing : Nat]
    BY <1>b, <1>11 DEF Publish, Tallies
  <2>2. QED
    BY <1>a, <1>b, <1>11, <2>1, CountersTyped DEF Publish, ForgetCycle, CycleOK
<1>12. QED
  BY <1>1, <1>2, <1>3, <1>4, <1>5, <1>6, <1>7, <1>8, <1>9, <1>10, <1>11
     DEF Next, Controller, Discovery, Application, CycleEnd, RecheckFails, SendFails,
         PatchRejected, PatchTimesOut, PublishFails, Quiet, Crash

\* A plan made of a typed snapshot is a typed plan.
LEMMA PlanTyped ==
    ASSUME NEW n \in Objects, NEW mutation \in {"add", "remove"}, NEW since \in Int
    PROVE  PlanFor(n, mutation, since) \in Plans
BY DEF PlanFor, Plans, Objects

LEMMA MessagesTyped ==
    ASSUME inflight \in SUBSET [plan : Plans, awaited : BOOLEAN]
    PROVE  /\ Forgotten(inflight) \in SUBSET [plan : Plans, awaited : BOOLEAN]
           /\ {m.plan : m \in Forgotten(inflight)} = {m.plan : m \in inflight}
<1>1. \A m \in inflight : /\ [m EXCEPT !.awaited = FALSE] \in [plan : Plans, awaited : BOOLEAN]
                          /\ [m EXCEPT !.awaited = FALSE].plan = m.plan
  OBVIOUS
<1>2. Forgotten(inflight) \in SUBSET [plan : Plans, awaited : BOOLEAN]
  BY <1>1, Zenon DEF Forgotten
<1>3. \A m \in inflight : \E k \in Forgotten(inflight) : k.plan = m.plan
  BY <1>1, Zenon DEF Forgotten
<1>4. \A k \in Forgotten(inflight) : \E m \in inflight : k.plan = m.plan
  BY <1>1, Zenon DEF Forgotten
<1>5. QED
  BY <1>2, <1>3, <1>4

LEMMA PatchTyped ==
    ASSUME TypeInv, Next
    PROVE  PatchOK' /\ Phased'
<1>a. WorldOK /\ CycleOK /\ PatchOK /\ Phased
  BY DEF TypeInv, TypeOK
<1>1. CASE World
  BY <1>a, <1>1 DEF World, UpdateNode, ForeignLabelWrite, DeleteNode, JoinNode, CloudChange,
         ClockStep, PatchOK, Phased, cycleVars, patchVars
<1>2. CASE DescribeNodeGroup
  <2>1. evidence'.group \in GroupEvidence
    BY <1>a, <1>2 DEF DescribeNodeGroup, CycleOK, WorldOK, Clouds, GroupEvidence
  <2>2. QED
    BY <1>a, <1>2, <2>1 DEF DescribeNodeGroup, Goto, Quiet, PatchOK, Phased, PCs, patchVars
<1>3. CASE DescribeAutoScalingGroups
  <2>1. evidence'.group = evidence.group
    BY <1>a, <1>3 DEF DescribeAutoScalingGroups, CycleOK
  <2>2. QED
    BY <1>a, <1>3, <2>1
       DEF DescribeAutoScalingGroups, Goto, Quiet, PatchOK, Phased, PCs, patchVars
<1>4. CASE StartCycle \/ ListGroupNodes \/ ListTrustedNodes \/ ProviderFailure
  BY <1>a, <1>4 DEF StartCycle, ListGroupNodes, ListTrustedNodes, ProviderFailure, Goto, Quiet,
         PatchOK, Phased, PCs, cycleVars, patchVars
<1>5. CASE Attestation
  <2>1. ASSUME NEW n \in todo, NEW decision, Decide(n, decision)
        PROVE  PatchOK' /\ Phased'
    <3>1. n \in Objects /\ pc = "node" /\ evidence.group.at \in Int
      BY <1>a, <2>1 DEF CycleOK, Decide, Phased, GroupEvidence
    <3>2. plan' \in Plans \/ (UNCHANGED <<pc, plan>>)
      BY <2>1, <3>1, PlanTyped DEF Decide
    <3>3. QED
      BY <1>a, <2>1, <3>1, <3>2 DEF Decide, PatchOK, Phased, PCs
  <2>2. QED
    BY <1>5, <2>1 DEF Attestation, AttestNode, RefuseProviderId, EvidenceUnavailable
<1>6. CASE RecheckPasses
  BY <1>a, <1>6 DEF RecheckPasses, Goto, PatchOK, Phased, PCs, cycleVars, patchVars
<1>7. CASE SendPatch
  <2>1. [plan |-> plan, awaited |-> TRUE] \in [plan : Plans, awaited : BOOLEAN]
    BY <1>a, <1>7 DEF SendPatch, Goto, Phased
  <2>2. QED
    BY <1>a, <1>7, <2>1 DEF SendPatch, Goto, PatchOK, Phased, PCs, cycleVars
<1>8. CASE RecheckFails \/ SendFails \/ PatchRejected
  BY <1>a, <1>8 DEF RecheckFails, SendFails, PatchRejected, Abandon, PatchOK, Phased, PCs
<1>9. CASE PatchTimesOut
  BY <1>a, <1>9, MessagesTyped DEF PatchTimesOut, Abandon, PatchOK, Phased, PCs
<1>10. CASE PatchAccepted
  BY <1>a, <1>10 DEF PatchAccepted, PatchOK, Phased, PCs
<1>11. CASE Server
  BY <1>a, <1>11 DEF Server, ServerPatch, PatchOK, Phased, cycleVars
<1>12. CASE Loss
  BY <1>a, <1>12 DEF Loss, LoseReply, LosePatch, PatchOK, Phased, cycleVars
<1>13. CASE CycleEnd
  BY <1>a, <1>13 DEF CycleEnd, FinishNodes, Publish, PublishFails, StopLoop, ForgetCycle, Goto,
         Quiet, PatchOK, Phased, PCs, cycleVars, patchVars
<1>14. CASE Crash
  BY <1>a, <1>14, MessagesTyped DEF Crash, PatchOK, Phased, PCs
<1>15. CASE Signal \/ Restart
  BY <1>a, <1>15 DEF Signal, Restart, Goto, PatchOK, Phased, PCs, cycleVars, patchVars
<1>16. QED
  BY <1>1, <1>2, <1>3, <1>4, <1>5, <1>6, <1>7, <1>8, <1>9, <1>10, <1>11, <1>12, <1>13, <1>14,
     <1>15 DEF Next, Controller, Discovery, Application

LEMMA TypedStep == TypeInv /\ [Next]_vars => TypeInv'
<1>1. TypeInv /\ Next => TypeInv'
  BY WorldTyped, CycleTyped, PatchTyped DEF TypeInv, TypeOK
<1>2. TypeInv /\ UNCHANGED vars => TypeInv'
  BY DEF TypeInv, TypeOK, WorldOK, CycleOK, PatchOK, Phased, vars, worldVars, cycleVars,
         patchVars
<1>3. QED
  BY <1>1, <1>2

\* Every variable keeps its type, whatever the cluster, the cloud, the network
\* and the scheduler do: the counters never go below zero, and what the
\* controller holds of Nodes, plans and messages is always of the right shape.
THEOREM TypeCorrect == SafetySpec => []TypeOK
<1>1. Init => TypeInv
  BY InitTyped
<1>2. TypeInv /\ [Next]_vars => TypeInv'
  BY TypedStep
<1>3. TypeInv => TypeOK
  BY DEF TypeInv
<1>4. QED
  BY <1>1, <1>2, <1>3, PTL DEF SafetySpec

-----------------------------------------------------------------------------
(***************************************************************************)
(* Versions: what the controller remembers of a Node is either what the    *)
(* Node still is, or about a version that no Node has any more.            *)
(***************************************************************************)
StillOrGone(s) ==
    /\ s.rv <= rev
    /\ \A n \in Names : node[n] # NoNode /\ node[n].rv = s.rv => node[n] = s

\* The snapshots a decision or a patch can still be made from.
Held == listed \union todo \union {p.seen : p \in Outstanding}

HeldIsStillOrGone == \A s \in Held : StillOrGone(s)

\* A plan is bound to the identity of its snapshot, and to a label the
\* mutation may start from.
Bound(p) ==
    /\ p \in Plans
    /\ p.name = p.seen.name /\ p.uid = p.seen.uid /\ p.rv = p.seen.rv /\ p.pid = p.seen.pid
    /\ p.seen.label = IF p.mutation = "add" THEN Absent ELSE Trusted

PlansAreBound == \A p \in Outstanding : Bound(p)

SafeInv == TypeInv /\ WellVersioned(node, rev) /\ HeldIsStillOrGone /\ PlansAreBound

\* What is written is the next version of the Node with its name.
Next1(n, object) ==
    object # NoNode => object.name = n /\ object.rv = rev + 1 /\ object.uid <= rev + 1

LEMMA WriteKeepsVersions ==
    ASSUME WorldOK, WellVersioned(node, rev), NEW n \in Names,
           NEW object \in Objects \union {NoNode}, Next1(n, object), Write(n, object)
    PROVE  /\ WellVersioned(node', rev')
           /\ \A s \in Objects : StillOrGone(s) => StillOrGone(s)'
<1>1. rev' = rev + 1 /\ rev \in Nat
  BY DEF Write, WorldOK
<1>2. \A m \in Names : node'[m] = IF m = n THEN object ELSE node[m]
  BY DEF Write, WorldOK
<1>3. \A m \in Names : node[m] # NoNode =>
          node[m] \in Objects /\ node[m].rv \in Nat /\ node[m].uid \in Nat
  BY DEF WorldOK, Objects
<1>4. object # NoNode => object \in Objects
  OBVIOUS
<1>5. WellVersioned(node', rev')
  BY <1>1, <1>2, <1>3, <1>4 DEF WellVersioned, Next1, Objects
<1>6. ASSUME NEW s \in Objects, StillOrGone(s)
      PROVE  StillOrGone(s)'
  BY <1>1, <1>2, <1>6 DEF StillOrGone, Next1, Objects
<1>7. QED
  BY <1>5, <1>6

LEMMA ObjectsAreStill ==
    ASSUME WorldOK, WellVersioned(node, rev)
    PROVE  \A s \in Objs : StillOrGone(s)
BY DEF Objs, WellVersioned, StillOrGone, WorldOK, Objects

\* A foreign write: it moves the label only as ForeignLabelWrite, and not at
\* all where the binding is in force.
ForeignStep(n, object) ==
    /\ Write(n, object) /\ Next1(n, object)
    /\ UNCHANGED <<cycleVars, patchVars>>
    /\ LabelMoves(n) => ForeignLabelWrite(n)
    /\ PolicyBinding /\ object # NoNode =>
          object.label = IF node[n] = NoNode THEN Absent ELSE node[n].label

LEMMA WorldStep ==
    ASSUME TypeInv, WellVersioned(node, rev), World
    PROVE  \/ UNCHANGED <<apiVars, cycleVars, patchVars>>
           \/ \E n \in Names, object \in Objects \union {NoNode} : ForeignStep(n, object)
<1>a. WorldOK
  BY DEF TypeInv, TypeOK
<1>b. rev \in Nat /\ rev + 1 \in Nat
  BY <1>a DEF WorldOK
<1>c. \A n \in Names : node[n] # NoNode => node[n] \in Objects
  BY <1>a DEF WorldOK
<1>d. \A n \in Names : node[n] # NoNode => node[n].name = n /\ node[n].uid <= rev + 1
  BY <1>b, <1>c DEF WellVersioned, Objects
<1>e. \A n \in Names : \A object : Write(n, object) => node'[n] = object
  BY <1>a DEF Write, WorldOK
<1>1. ASSUME NEW n \in Names, UpdateNode(n)
      PROVE  \E object \in Objects \union {NoNode} : ForeignStep(n, object)
  <2>1. PICK grp \in BOOLEAN, meta \in Metas :
            Write(n, [node[n] EXCEPT !.grp = grp, !.meta = meta, !.rv = rev + 1])
    BY <1>1 DEF UpdateNode
  <2>2. node[n] \in Objects /\ node[n] # NoNode
    BY <1>1, <1>c DEF UpdateNode
  <2> DEFINE object == [node[n] EXCEPT !.grp = grp, !.meta = meta, !.rv = rev + 1]
  <2>3. object \in Objects
    BY <1>b, <2>2, UpdatedObject
  <2>8. /\ object.label = node[n].label
        /\ object.uid = node[n].uid
        /\ object.name = node[n].name
        /\ object.rv = rev + 1
    BY <2>2 DEF Objects
  <2>4. Write(n, object)
    BY <2>1
  <2>5. UNCHANGED <<cycleVars, patchVars>>
    BY <1>1 DEF UpdateNode
  <2> HIDE DEF object
  <2>6. ForeignStep(n, object)
    BY <1>d, <1>e, <2>2, <2>3, <2>8, <2>4, <2>5 DEF ForeignStep, Next1, LabelMoves
  <2>7. QED
    BY <2>3, <2>6
<1>2. ASSUME NEW n \in Names, ForeignLabelWrite(n)
      PROVE  \E object \in Objects \union {NoNode} : ForeignStep(n, object)
  <2>1. PICK label \in Labels \union {Absent} :
            Write(n, [node[n] EXCEPT !.label = label, !.rv = rev + 1])
    BY <1>2 DEF ForeignLabelWrite
  <2>2. node[n] \in Objects /\ node[n] # NoNode /\ ~ PolicyBinding
    BY <1>2, <1>c DEF ForeignLabelWrite
  <2> DEFINE object == [node[n] EXCEPT !.label = label, !.rv = rev + 1]
  <2>3. object \in Objects
    BY <1>b, <2>2, RelabelledObject
  <2>8. /\ object.uid = node[n].uid
        /\ object.name = node[n].name
        /\ object.rv = rev + 1
    BY <2>2 DEF Objects
  <2>4. Write(n, object)
    BY <2>1
  <2>5. UNCHANGED <<cycleVars, patchVars>>
    BY <1>2 DEF ForeignLabelWrite
  <2> HIDE DEF object
  <2>6. ForeignStep(n, object)
    BY <1>2, <1>d, <2>2, <2>3, <2>8, <2>4, <2>5 DEF ForeignStep, Next1
  <2>7. QED
    BY <2>3, <2>6
<1>3. ASSUME NEW n \in Names, DeleteNode(n)
      PROVE  \E object \in Objects \union {NoNode} : ForeignStep(n, object)
  BY <1>3, <1>e DEF DeleteNode, ForeignStep, Next1, LabelMoves
<1>4. ASSUME NEW n \in Names, JoinNode(n)
      PROVE  \E object \in Objects \union {NoNode} : ForeignStep(n, object)
  <2>1. PICK pid \in ProviderIds, meta \in Metas,
             label \in IF PolicyBinding THEN {Absent} ELSE Labels \union {Absent} :
            Write(n, [name |-> n, uid |-> rev + 1, rv |-> rev + 1, pid |-> pid,
                      label |-> label, grp |-> TRUE, meta |-> meta])
    BY <1>4 DEF JoinNode
  <2> DEFINE object == [name |-> n, uid |-> rev + 1, rv |-> rev + 1, pid |-> pid,
                        label |-> label, grp |-> TRUE, meta |-> meta]
  <2>2. label \in Labels \union {Absent} /\ (PolicyBinding => label = Absent)
    OBVIOUS
  <2>3. object \in Objects /\ object.name = n /\ object.uid = rev + 1 /\ object.rv = rev + 1
    BY <1>b, <2>2 DEF Objects
  <2>4. PolicyBinding => object.label = Absent
    BY <2>2
  <2>5. Write(n, object) /\ node[n] = NoNode
    BY <1>4, <2>1 DEF JoinNode
  <2>6. UNCHANGED <<cycleVars, patchVars>>
    BY <1>4 DEF JoinNode
  <2> HIDE DEF object
  <2>7. ForeignStep(n, object)
    BY <1>b, <2>3, <2>4, <2>5, <2>6 DEF ForeignStep, Next1, LabelMoves
  <2>8. QED
    BY <2>3, <2>7
<1>5. CASE CloudChange \/ ClockStep
  BY <1>5 DEF CloudChange, ClockStep
<1>6. QED
  BY <1>1, <1>2, <1>3, <1>4, <1>5 DEF World

\* The API server executes a patch, on the very version it was decided about.
CarriesOut(m) ==
    /\ m \in inflight /\ ServerPatch(m)
    /\ node[m.plan.name] = m.plan.seen /\ m.plan.seen \in Objects
    /\ m.plan.name \in Names
    /\ Write(m.plan.name, Patched(m.plan))
    /\ Patched(m.plan) \in Objects
    /\ Patched(m.plan).label = Target(m.plan)
    /\ Next1(m.plan.name, Patched(m.plan))

LEMMA ServerStep ==
    ASSUME SafeInv, Server
    PROVE  \/ UNCHANGED apiVars /\ (\E m \in inflight : ServerPatch(m))
           \/ \E m \in inflight : CarriesOut(m)
<1>a. WorldOK /\ PatchOK /\ WellVersioned(node, rev) /\ HeldIsStillOrGone /\ PlansAreBound
  BY DEF SafeInv, TypeInv, TypeOK
<1>b. rev + 1 \in Nat /\ rev \in Nat
  BY <1>a DEF WorldOK
<1>1. PICK m \in inflight : ServerPatch(m)
  BY DEF Server
<1>2. CASE UNCHANGED apiVars
  BY <1>1, <1>2
<1>3. CASE Accepted(m.plan) /\ Write(m.plan.name, Patched(m.plan))
  <2>1. m.plan \in Outstanding
    BY DEF Outstanding
  <2>2. Bound(m.plan) /\ StillOrGone(m.plan.seen)
    BY <1>a, <2>1 DEF PlansAreBound, HeldIsStillOrGone, Held
  <2>3. m.plan.name \in Names /\ m.plan.seen \in Objects
    BY <2>2 DEF Bound, Plans
  <2>4. node[m.plan.name] = m.plan.seen
    BY <1>3, <2>2, <2>3 DEF Accepted, PatchTestsPass, Bound, StillOrGone
  <2>5. Target(m.plan) \in Labels \union {Absent}
    BY KernelAssumption DEF Target
  <2>6. Patched(m.plan) = [m.plan.seen EXCEPT !.label = Target(m.plan), !.rv = rev + 1]
    BY <2>4, Zenon DEF Patched
  <2>7. Patched(m.plan) \in Objects
    <3>1. [m.plan.seen EXCEPT !.label = Target(m.plan), !.rv = rev + 1] \in Objects
      BY <1>b, <2>3, <2>5, RelabelledObject
    <3>2. QED
      BY <2>6, <3>1
  <2>8. /\ Patched(m.plan).label = Target(m.plan)
        /\ Patched(m.plan).name = m.plan.seen.name
        /\ Patched(m.plan).uid = m.plan.seen.uid
        /\ Patched(m.plan).rv = rev + 1
    BY <2>3, <2>6 DEF Objects
  <2>9. Next1(m.plan.name, Patched(m.plan))
    <3>1. m.plan.seen.uid <= rev
      BY <1>a, <1>3, <2>3, <2>4 DEF Accepted, WellVersioned, WorldOK, Objects
    <3>2. QED
      BY <1>b, <2>2, <2>3, <2>8, <3>1 DEF Next1, Bound, Objects
  <2>10. QED
    BY <1>1, <1>3, <2>3, <2>4, <2>7, <2>8, <2>9 DEF CarriesOut
<1>4. QED
  BY <1>1, <1>2, <1>3 DEF ServerPatch

\* The kernel adds the label only to a Node without it, and removes it only
\* from a Node that carries the trusted value.
LEMMA DecisionFitsLabel ==
    ASSUME NEW n \in Objects
    PROVE  /\ \A in : in.node = n => /\ Plan(in).action = "patch" => n.label = Absent
                                     /\ Plan(in).action = "revoke" => n.label = Trusted
           /\ \A reason : /\ PlanFailure(n, reason).action # "patch"
                          /\ PlanFailure(n, reason).action = "revoke" => n.label = Trusted
<1>1. n.label \in Labels \union {Absent}
  BY DEF Objects
<1>2. ASSUME NEW reason
      PROVE  /\ PlanFailure(n, reason).action # "patch"
             /\ PlanFailure(n, reason).action = "revoke" => n.label = Trusted
  BY <1>1 DEF PlanFailure, Conflicting, Decision
<1>3. ASSUME NEW in, in.node = n
      PROVE  /\ Plan(in).action = "patch" => n.label = Absent
             /\ Plan(in).action = "revoke" => n.label = Trusted
  <2>1. CASE FirstFailure(in) # NoFailure
    BY <1>2, <1>3, <2>1 DEF Plan
  <2>2. CASE FirstFailure(in) = NoFailure
    BY <1>1, <1>3, <2>2 DEF Plan, Conflicting, Decision
  <2>3. QED
    BY <2>1, <2>2
<1>4. QED
  BY <1>2, <1>3

\* A decision about a snapshot of this cycle becomes the plan being applied.
Decides(n, mutation) ==
    /\ n \in todo
    /\ n.label = IF mutation = "add" THEN Absent ELSE Trusted
    /\ plan' = PlanFor(n, mutation, evidence.group.at)
    /\ evidence.group.at \in Int
    /\ plan = NoPlan
    /\ UNCHANGED <<apiVars, inflight, listed>> /\ todo' \subseteq todo

\* The only way a plan comes to be.
LEMMA AttestationStep ==
    ASSUME TypeInv, Attestation
    PROVE  /\ UNCHANGED <<apiVars, inflight, listed>> /\ todo' \subseteq todo
           /\ plan' = plan \/ \E n \in todo, mutation \in {"add", "remove"} : Decides(n, mutation)
<1>1. ASSUME NEW n \in todo, NEW decision, Decide(n, decision),
             decision.action = "patch" => n.label = Absent,
             decision.action = "revoke" => n.label = Trusted
      PROVE  /\ UNCHANGED <<apiVars, inflight, listed>> /\ todo' \subseteq todo
             /\ plan' = plan \/ \E mutation \in {"add", "remove"} : Decides(n, mutation)
  <2>1. pc = "node" /\ UNCHANGED <<apiVars, inflight, listed>> /\ todo' \subseteq todo
    BY <1>1 DEF Decide, worldVars, apiVars
  <2>2. evidence.group.at \in Int /\ plan = NoPlan
    BY <2>1 DEF TypeInv, Phased, GroupEvidence
  <2>3. CASE decision.action \in {"deny", "noop"}
    BY <1>1, <2>1, <2>3 DEF Decide
  <2>4. CASE decision.action = "patch"
    BY <1>1, <2>1, <2>2, <2>4 DEF Decide, Decides
  <2>5. CASE decision.action = "revoke"
    BY <1>1, <2>1, <2>2, <2>5 DEF Decide, Decides
  <2>6. QED
    BY <1>1, <2>1, <2>3, <2>4, <2>5 DEF Decide
<1>2. PICK n \in todo : AttestNode(n) \/ RefuseProviderId(n) \/ EvidenceUnavailable(n)
  BY DEF Attestation
<1>3. n \in Objects
  BY DEF TypeInv, TypeOK, CycleOK
<1>4. CASE AttestNode(n)
  <2>1. KernelInput(n).node = n
    BY DEF KernelInput
  <2>2. Decide(n, Plan(KernelInput(n)))
    BY <1>4 DEF AttestNode
  <2>3. QED
    BY <1>1, <1>3, <2>1, <2>2, DecisionFitsLabel
<1>5. CASE RefuseProviderId(n)
  BY <1>1, <1>3, <1>5, DecisionFitsLabel DEF RefuseProviderId
<1>6. CASE EvidenceUnavailable(n)
  BY <1>1, <1>3, <1>6, DecisionFitsLabel DEF EvidenceUnavailable
<1>7. QED
  BY <1>2, <1>4, <1>5, <1>6

\* Every other step of the controller, of the network or of the process keeps
\* or drops what is outstanding, and remembers at most what the API server
\* has just answered.
LEMMA CalmKeeps ==
    ASSUME TypeInv, Calm, ~ Attestation
    PROVE  /\ UNCHANGED apiVars
           /\ Outstanding' \subseteq Outstanding
           /\ listed' \union todo' \subseteq listed \union todo \union Objs
<1>a. PatchOK /\ Phased
  BY DEF TypeInv, TypeOK
<1>b. {m.plan : m \in Forgotten(inflight)} = {m.plan : m \in inflight}
  BY <1>a, MessagesTyped DEF PatchOK
<1>1. UNCHANGED apiVars
  BY CalmStep DEF worldVars, apiVars
<1>2. CASE Discovery
  BY <1>1, <1>2 DEF Discovery, StartCycle, DescribeNodeGroup, DescribeAutoScalingGroups,
     ListGroupNodes, ListTrustedNodes, ProviderFailure, Quiet, GroupNodes, TrustedNodes,
     cycleVars, patchVars, Outstanding
<1>3. CASE RecheckPasses \/ RecheckFails \/ SendFails \/ PatchAccepted \/ PatchRejected
  BY <1>1, <1>3 DEF RecheckPasses, RecheckFails, SendFails, PatchAccepted, PatchRejected,
     Abandon, cycleVars, patchVars, Outstanding
<1>4. CASE SendPatch
  <2>1. plan # NoPlan
    BY <1>a, <1>4, ControllerAssumption DEF SendPatch, Goto, Phased
  <2>2. Outstanding' \subseteq Outstanding
    BY <1>4, <2>1 DEF SendPatch, Outstanding
  <2>3. QED
    BY <1>1, <1>4, <2>2 DEF SendPatch, cycleVars
<1>5. CASE PatchTimesOut
  BY <1>b, <1>1, <1>5 DEF PatchTimesOut, Abandon, Outstanding
<1>6. CASE CycleEnd
  BY <1>1, <1>6 DEF CycleEnd, FinishNodes, Publish, PublishFails, StopLoop, ForgetCycle, Quiet,
     cycleVars, patchVars, Outstanding
<1>7. CASE Loss
  BY <1>1, <1>7 DEF Loss, LoseReply, LosePatch, cycleVars, Outstanding
<1>8. CASE Crash
  BY <1>b, <1>1, <1>8 DEF Crash, ForgetCycle, Outstanding
<1>9. CASE Signal \/ Restart
  BY <1>1, <1>9 DEF Signal, Restart, cycleVars, patchVars, Outstanding
<1>10. QED
  BY <1>2, <1>3, <1>4, <1>5, <1>6, <1>7, <1>8, <1>9 DEF Calm, Controller, Application

LEMMA NextSplits == Next <=> World \/ Server \/ Attestation \/ (Calm /\ ~ Attestation)
<1>1. Attestation => Calm
  BY DEF Calm, Controller
<1>2. QED
  BY <1>1 DEF Next, Calm

LEMMA SnapshotsTyped ==
    ASSUME TypeInv, PlansAreBound
    PROVE  Held \subseteq Objects
BY DEF TypeInv, TypeOK, CycleOK, Held, PlansAreBound, Bound, Plans

LEMMA InitSafe == Init => SafeInv
<1> SUFFICES ASSUME Init PROVE SafeInv
  OBVIOUS
<1>1. WellVersioned(node, rev)
  BY ControllerAssumption DEF Init
<1>2. Outstanding = {}
  BY DEF Init, Outstanding
<1>3. Held = {}
  BY <1>2 DEF Init, Held
<1>4. QED
  BY <1>1, <1>2, <1>3, InitTyped DEF SafeInv, HeldIsStillOrGone, PlansAreBound

LEMMA SafeStep == SafeInv /\ [Next]_vars => SafeInv'
<1> SUFFICES ASSUME SafeInv, [Next]_vars PROVE SafeInv'
  OBVIOUS
<1>a. TypeInv /\ WorldOK /\ WellVersioned(node, rev) /\ HeldIsStillOrGone /\ PlansAreBound
  BY DEF SafeInv, TypeInv, TypeOK
<1>b. TypeInv'
  BY <1>a, TypedStep
<1>c. Held \subseteq Objects
  BY <1>a, SnapshotsTyped
\* What is held stays valid over a write, when nothing new is held.
<1>d. ASSUME NEW n \in Names, NEW object \in Objects \union {NoNode}, Next1(n, object),
             Write(n, object), Held' \subseteq Held
      PROVE  WellVersioned(node', rev') /\ HeldIsStillOrGone'
  <2>1. WellVersioned(node', rev') /\ \A s \in Objects : StillOrGone(s) => StillOrGone(s)'
    BY <1>a, <1>d, WriteKeepsVersions
  <2>2. QED
    BY <1>a, <1>c, <1>d, <2>1 DEF HeldIsStillOrGone
\* While no Node changes, what is newly held is what the API server answers.
<1>e. ASSUME UNCHANGED apiVars, Held' \subseteq Held \union Objs
      PROVE  WellVersioned(node', rev') /\ HeldIsStillOrGone'
  <2>1. \A s \in Held \union Objs : StillOrGone(s)
    BY <1>a, ObjectsAreStill DEF HeldIsStillOrGone
  <2>2. \A s : StillOrGone(s) => StillOrGone(s)'
    BY <1>e DEF StillOrGone, apiVars
  <2>3. QED
    BY <1>a, <1>e, <2>1, <2>2 DEF HeldIsStillOrGone, apiVars
<1>1. CASE World
  <2>1. CASE UNCHANGED <<apiVars, cycleVars, patchVars>>
    <3>1. Held' = Held /\ Outstanding' = Outstanding
      BY <2>1 DEF cycleVars, patchVars, Held, Outstanding
    <3>2. QED
      BY <1>a, <1>b, <1>e, <2>1, <3>1 DEF SafeInv, PlansAreBound, Bound
  <2>2. CASE \E n \in Names, object \in Objects \union {NoNode} : ForeignStep(n, object)
    <3>1. Held' = Held /\ Outstanding' = Outstanding
      BY <2>2 DEF ForeignStep, cycleVars, patchVars, Held, Outstanding
    <3>2. QED
      BY <1>a, <1>b, <1>d, <2>2, <3>1 DEF SafeInv, PlansAreBound, Bound, ForeignStep
  <2>3. QED
    BY <1>1, <1>a, <2>1, <2>2, WorldStep
<1>2. CASE Server
  <2>1. ASSUME NEW m \in inflight, ServerPatch(m)
        PROVE  Outstanding' \subseteq Outstanding /\ Held' \subseteq Held
    BY <2>1 DEF ServerPatch, Outstanding, Held, cycleVars
  <2>2. CASE UNCHANGED apiVars /\ (\E m \in inflight : ServerPatch(m))
    BY <1>a, <1>b, <1>e, <2>1, <2>2 DEF SafeInv, PlansAreBound, Bound
  <2>3. CASE \E m \in inflight : CarriesOut(m)
    BY <1>a, <1>b, <1>d, <2>1, <2>3 DEF SafeInv, PlansAreBound, Bound, CarriesOut
  <2>4. QED
    BY <1>2, <2>2, <2>3, ServerStep
<1>3. CASE Attestation
  <2>1. /\ UNCHANGED <<apiVars, inflight, listed>> /\ todo' \subseteq todo
        /\ plan' = plan \/ \E n \in todo, mutation \in {"add", "remove"} : Decides(n, mutation)
    BY <1>3, <1>a, AttestationStep
  <2>2. CASE plan' = plan
    <3>1. Outstanding' = Outstanding /\ Held' \subseteq Held
      BY <2>1, <2>2 DEF Outstanding, Held
    <3>2. QED
      BY <1>a, <1>b, <1>e, <2>1, <3>1 DEF SafeInv, PlansAreBound, Bound
  <2>3. ASSUME NEW n \in todo, NEW mutation \in {"add", "remove"}, Decides(n, mutation)
        PROVE  SafeInv'
    <3>1. n \in Objects /\ n \in Held
      BY <1>a DEF TypeInv, TypeOK, CycleOK, Held
    <3>2. Bound(plan') /\ plan'.seen = n
      BY <2>3, <3>1, PlanTyped DEF Decides, Bound, PlanFor
    <3>3. Outstanding' \subseteq Outstanding \union {plan'}
      BY <2>3 DEF Decides, Outstanding
    <3>4. Held' \subseteq Held
      BY <2>3, <3>1, <3>2, <3>3 DEF Decides, Held
    <3>5. PlansAreBound'
      BY <1>a, <3>2, <3>3 DEF PlansAreBound, Bound
    <3>6. QED
      BY <1>a, <1>b, <1>e, <2>3, <3>4, <3>5 DEF SafeInv, Decides
  <2>4. QED
    BY <2>1, <2>2, <2>3
<1>4. CASE Calm /\ ~ Attestation
  <2>1. /\ UNCHANGED apiVars /\ Outstanding' \subseteq Outstanding
        /\ listed' \union todo' \subseteq listed \union todo \union Objs
    BY <1>4, <1>a, CalmKeeps
  <2>2. Held' \subseteq Held \union Objs
    BY <2>1 DEF Held
  <2>3. QED
    BY <1>a, <1>b, <1>e, <2>1, <2>2 DEF SafeInv, PlansAreBound, Bound
<1>5. CASE UNCHANGED vars
  <2>1. Held' = Held /\ Outstanding' = Outstanding /\ UNCHANGED apiVars
    BY <1>5 DEF vars, worldVars, cycleVars, patchVars, apiVars, Held, Outstanding
  <2>2. QED
    BY <1>a, <1>b, <1>e, <2>1 DEF SafeInv, PlansAreBound, Bound
<1>6. QED
  BY <1>1, <1>2, <1>3, <1>4, <1>5, NextSplits

\* What the controller remembers of a Node, in a list, a plan or a patch it has
\* given up long ago, is what the Node still is or a version nobody has.
THEOREM SafeInvariant == SafetySpec => []SafeInv
BY InitSafe, SafeStep, PTL DEF SafetySpec

\* Carrying out a patch moves the label of its Node, and nothing else, from
\* the value its decision started from.
LEMMA CarriedOutMoves ==
    ASSUME SafeInv, NEW m \in inflight, CarriesOut(m), NEW n \in Names, LabelMoves(n)
    PROVE  /\ m.plan.seen = node[n]
           /\ node[n].label = IF m.plan.mutation = "add" THEN Absent ELSE Trusted
           /\ node'[n] = [node[n] EXCEPT !.label = Target(m.plan), !.rv = rev']
<1>1. node \in [Names -> Objects \union {NoNode}] /\ PlansAreBound /\ rev \in Nat
  BY DEF SafeInv, TypeInv, TypeOK, WorldOK
<1>2. /\ node' = [node EXCEPT ![m.plan.name] = Patched(m.plan)] /\ rev' = rev + 1
      /\ m.plan.name \in Names /\ node[m.plan.name] = m.plan.seen
  BY DEF CarriesOut, Write
<1>3. n = m.plan.name
  BY <1>1, <1>2 DEF LabelMoves
<1>4. m.plan.seen.label = IF m.plan.mutation = "add" THEN Absent ELSE Trusted
  BY <1>1 DEF PlansAreBound, Outstanding, Bound
<1>5. node'[n] = Patched(m.plan)
  BY <1>1, <1>2, <1>3
<1>6. QED
  BY <1>2, <1>3, <1>4, <1>5 DEF Patched

\* LabelMovesOnlyByItsVerdict, for any number of Nodes, instances, cycles,
\* failures and late messages, with the admission binding or without it.
THEOREM LabelSafety == SafetySpec => LabelMovesOnlyByItsVerdict
<1>1. ASSUME SafeInv, [Next]_vars
      PROVE  [\A n \in Names : LabelMoves(n) => ForeignLabelWrite(n) \/ OwnVerdict(n)]_vars
  <2> SUFFICES ASSUME NEW n \in Names, LabelMoves(n)
               PROVE  ForeignLabelWrite(n) \/ OwnVerdict(n) \/ UNCHANGED vars
    OBVIOUS
  <2>a. TypeInv /\ WellVersioned(node, rev) /\ node \in [Names -> Objects \union {NoNode}]
    BY <1>1 DEF SafeInv, TypeInv, TypeOK, WorldOK
  <2>1. ~ UNCHANGED apiVars
    BY DEF LabelMoves, apiVars
  <2>2. CASE World
    <3>1. PICK m \in Names, object \in Objects \union {NoNode} : ForeignStep(m, object)
      BY <2>2, <2>a, <2>1, WorldStep
    <3>2. m = n
      BY <3>1, <2>a DEF ForeignStep, Write, LabelMoves
    <3>3. QED
      BY <3>1, <3>2 DEF ForeignStep
  <2>3. CASE Server
    BY <1>1, <2>1, <2>3, ServerStep, CarriedOutMoves DEF OwnVerdict
  <2>4. CASE Attestation
    BY <2>1, <2>4, <2>a, AttestationStep
  <2>5. CASE Calm /\ ~ Attestation
    BY <2>1, <2>5, <2>a, CalmKeeps
  <2>6. CASE UNCHANGED vars
    BY <2>6
  <2>7. QED
    BY <1>1, <2>2, <2>3, <2>4, <2>5, <2>6, NextSplits
<1>2. QED
  BY <1>1, SafeInvariant, PTL DEF LabelMovesOnlyByItsVerdict, SafetySpec
=============================================================================
