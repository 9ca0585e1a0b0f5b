------------------------- MODULE NodeLabelController -------------------------
(***************************************************************************)
(* The controller of the EKS trusted-node-label reconciler, against the    *)
(* Kubernetes API server and the AWS APIs it reads.                        *)
(*                                                                         *)
(* One cycle (runTrustedNodeLabelControllerCycle) describes the node group *)
(* and its Auto Scaling groups once, lists the candidate Nodes with two    *)
(* selectors, and then for every listed Node, one after the other, reads   *)
(* its EC2 instance, decides, re-reads the Node and sends one JSON patch.  *)
(* Every await of the code is a boundary between two actions here, so the  *)
(* cluster and the cloud move between any two of them.                     *)
(*                                                                         *)
(* The patch is a message of its own: it can be lost, its answer can be    *)
(* lost, and a patch whose request timed out (or whose controller crashed) *)
(* can still reach the API server in a later cycle.                        *)
(*                                                                         *)
(* Everything the controller does not do itself (another principal's       *)
(* write, a Node replaced, a change in AWS, a clock tick, a failed call, a *)
(* crash) takes one unit of the bound "quota".                             *)
(***************************************************************************)
EXTENDS NodeLabelKernel

CONSTANTS
    Names,           \* Node names
    NoNode,          \* no Node object has this name
    Metas,           \* ordinary labels and taints a Node can have
    NoValue,         \* a taint the API serialises without its value
    Facts,           \* the account, zone and type of every instance
    Asgs,            \* Auto Scaling groups
    NodeWorlds,      \* the Nodes the cluster can start with
    CloudWorlds,     \* the AWS states it can start with
    MaxNodes,        \* config.maxNodesPerCycle
    PolicyBinding,   \* the ValidatingAdmissionPolicyBinding is in force, and nobody
                     \* else moves the label through a Node's status
    MaxDisturbances, \* bound: units of quota
    NoEvidence,
    NoPlan,
    NoSample

VARIABLES
    node,      \* the API server's Node objects, by name
    rev,       \* its resource version counter
    cloud,     \* node group, ASG memberships and EC2 states
    now,       \* the controller's clock, Date.now()
    quota,     \* disturbances left
    pc,        \* the await the controller stands at
    aborted,   \* SIGTERM or SIGINT has been received
    evidence,  \* the node group and ASG snapshots of this cycle
    listed,    \* listCandidateNodes so far
    todo,      \* listed Nodes the loop has not reached
    settled,   \* history: listed Nodes found labelled, or patched
    plan,      \* the decision being applied
    inflight,  \* patches sent and not yet executed or lost
    reply,     \* the API server's answer to the awaited patch
    tally,     \* the counters of this cycle
    sample     \* the last metrics published

apiVars   == <<node, rev>>
worldVars == <<node, rev, cloud, now>>
cycleVars == <<evidence, listed, todo, settled, tally>>
patchVars == <<plan, inflight, reply>>
vars == <<worldVars, quota, pc, aborted, cycleVars, patchVars, sample>>

PCs == {"sleep", "group", "asgs", "list1", "list2", "node",
        "recheck", "send", "await", "publish", "stopped"}

Objects == [name : Names, uid : Nat, rv : Nat, pid : ProviderIds,
            label : Labels \union {Absent}, grp : BOOLEAN, meta : Metas]

\* The plans PlanFor makes.
Plans == [mutation : {"add", "remove"}, name : Names, uid : Nat, rv : Nat,
          pid : ProviderIds, seen : Objects, since : Int]

\* Resource versions are the API server's: no two objects share one, and none
\* is ahead of its counter.  The uid of an object is the version it was
\* created with.
WellVersioned(world, r) ==
    /\ \A n \in Names : world[n] # NoNode =>
            /\ world[n].name = n
            /\ world[n].uid <= world[n].rv
            /\ world[n].rv <= r
    /\ \A m, n \in Names :
            m # n /\ world[m] # NoNode /\ world[n] # NoNode => world[m].rv # world[n].rv

Scalings == [min : Nat, desired : Nat, max : Nat]

Clouds == [status : {"ACTIVE", "UPDATING", "DEGRADED", "DELETING"},
           asgs : (SUBSET Asgs) \ {{}},
           scaling : Scalings,
           member : [Instances -> SUBSET Asgs],
           healthy : [Instances -> BOOLEAN],
           ec2 : [Instances -> {"running", "terminated"}]]

InitRev == Cardinality(Names)

ASSUME ControllerAssumption ==
    /\ IsFiniteSet(Names) /\ IsFiniteSet(Asgs) /\ IsFiniteSet(Instances)
    /\ NoNode \notin Objects
    /\ NoPlan \notin Plans
    /\ \A w \in NodeWorlds : w \in [Names -> Objects \union {NoNode}] /\ WellVersioned(w, InitRev)
    /\ CloudWorlds \subseteq Clouds
    /\ MaxNodes \in Nat \ {0}
    /\ PolicyBinding \in BOOLEAN
    /\ MaxDisturbances \in Nat

ZeroTally == [decisions |-> 0, failures |-> 0, missing |-> 0, patched |-> 0]

Init ==
    /\ node \in NodeWorlds
    /\ rev = InitRev
    /\ cloud \in CloudWorlds
    /\ now = 0
    /\ quota = MaxDisturbances
    /\ pc = "sleep"
    /\ aborted = FALSE
    /\ evidence = [group |-> NoEvidence, asgs |-> {}]
    /\ listed = {} /\ todo = {} /\ settled = {}
    /\ plan = NoPlan
    /\ inflight = {}
    /\ reply = "none"
    /\ tally = ZeroTally
    /\ sample = NoSample

-----------------------------------------------------------------------------
(***************************************************************************)
(* The cluster and the cloud                                               *)
(***************************************************************************)

\* One disturbance less is left.
Disturb == quota > 0 /\ quota' = quota - 1

Write(n, object) ==
    /\ node' = [node EXCEPT ![n] = object]
    /\ rev' = rev + 1

\* The kubelet (or any controller) updates the Node's ordinary labels, taints
\* or status: a heartbeat leaves grp and meta as they are.
UpdateNode(n) ==
    /\ Disturb
    /\ node[n] # NoNode
    /\ \E grp \in BOOLEAN, meta \in Metas :
            Write(n, [node[n] EXCEPT !.grp = grp, !.meta = meta, !.rv = rev + 1])
    /\ UNCHANGED <<cloud, now, pc, aborted, cycleVars, patchVars, sample>>

\* Another principal writes the protected label: the admission policy refuses
\* it wherever its binding is in force, in a write to the Node as such (of writes
\* to its status see NodeLabelAuthority: where those occur, PolicyBinding is FALSE).
ForeignLabelWrite(n) ==
    /\ ~ PolicyBinding
    /\ Disturb
    /\ node[n] # NoNode
    /\ \E label \in (Labels \union {Absent}) \ {node[n].label} :
            Write(n, [node[n] EXCEPT !.label = label, !.rv = rev + 1])
    /\ UNCHANGED <<cloud, now, pc, aborted, cycleVars, patchVars, sample>>

DeleteNode(n) ==
    /\ Disturb
    /\ node[n] # NoNode
    /\ Write(n, NoNode)
    /\ UNCHANGED <<cloud, now, pc, aborted, cycleVars, patchVars, sample>>

\* An instance joins under a name that is free: a new object, with a new uid.
\* Admission refuses to create a Node that already carries the label.
JoinNode(n) ==
    /\ Disturb
    /\ node[n] = NoNode
    /\ \E pid \in ProviderIds, meta \in Metas,
          label \in IF PolicyBinding THEN {Absent} ELSE Labels \union {Absent} :
            Write(n, [name |-> n, uid |-> rev + 1, rv |-> rev + 1, pid |-> pid,
                      label |-> label, grp |-> TRUE, meta |-> meta])
    /\ UNCHANGED <<cloud, now, pc, aborted, cycleVars, patchVars, sample>>

\* AWS moves: a scaling activity, a node group update, an instance health or
\* state change.
CloudChange ==
    /\ Disturb
    /\ \/ \E i \in Instances, gs \in SUBSET cloud.asgs :
              cloud' = [cloud EXCEPT !.member[i] = gs]
       \/ \E i \in Instances :
              cloud' = [cloud EXCEPT !.healthy[i] = ~ @]
       \/ \E i \in Instances :
              cloud' = [cloud EXCEPT !.ec2[i] = "terminated"]
       \/ \E gs \in (SUBSET Asgs) \ {{}} :
              cloud' = [cloud EXCEPT !.asgs = gs,
                           !.member = [i \in Instances |-> @[i] \intersect gs]]
       \/ \E s \in {"ACTIVE", "UPDATING", "DEGRADED"} :
              cloud' = [cloud EXCEPT !.status = s]
    /\ cloud' # cloud
    /\ UNCHANGED <<apiVars, now, pc, aborted, cycleVars, patchVars, sample>>

\* The wall clock moves on, or is set back.
ClockStep ==
    /\ Disturb
    /\ now' \in {now + 1, now - 1}
    /\ UNCHANGED <<apiVars, cloud, pc, aborted, cycleVars, patchVars, sample>>

-----------------------------------------------------------------------------
(***************************************************************************)
(* Discovery: the three reads every decision of the cycle shares           *)
(***************************************************************************)
Goto(from, to) == pc = from /\ pc' = to

\* The part of the state a read of the controller leaves alone.
Quiet == UNCHANGED <<worldVars, aborted, patchVars, sample>>

StartCycle ==
    /\ ~ aborted
    /\ Goto("sleep", "group")
    /\ Quiet /\ UNCHANGED <<quota, cycleVars>>

DescribeNodeGroup ==
    /\ Goto("group", "asgs")
    /\ evidence' = [evidence EXCEPT !.group =
            [name |-> NodeGroup, status |-> cloud.status, asgs |-> cloud.asgs,
             scaling |-> cloud.scaling, at |-> now]]
    /\ Quiet /\ UNCHANGED <<quota, listed, todo, settled, tally>>

AsgSnapshot(g) ==
    [name |-> g,
     members |-> {[id |-> i, healthy |-> cloud.healthy[i]] :
                     i \in {j \in Instances : g \in cloud.member[j]}},
     at |-> now]

\* The answer must hold every group the node group named a moment ago.
DescribeAutoScalingGroups ==
    /\ Goto("asgs", "list1")
    /\ evidence.group.asgs \subseteq cloud.asgs
    /\ evidence' = [evidence EXCEPT !.asgs = {AsgSnapshot(g) : g \in evidence.group.asgs}]
    /\ Quiet /\ UNCHANGED <<quota, listed, todo, settled, tally>>

\* parseNode, as far as the program's inputs tell Nodes apart: a taint without
\* a value is not a KubernetesTaint, and the whole response is refused.
Parses(n) == \A t \in n.meta.taints : t.value # NoValue

Objs == {node[n] : n \in {m \in Names : node[m] # NoNode}}
GroupNodes   == {n \in Objs : n.grp}
TrustedNodes == {n \in Objs : n.label = Trusted}

\* Two reads of one Node that differ: by name, or in any field.
Torn(first, second) ==
    \E a \in first, b \in second :
        \/ a.name = b.name /\ a.uid # b.uid
        \/ a.uid = b.uid /\ a # b

ListAccepts(first, second) ==
    /\ \A n \in second : Parses(n)
    /\ ~ Torn(first, second)
    /\ Cardinality(first \union second) <= MaxNodes

ListGroupNodes ==
    /\ Goto("list1", "list2")
    /\ ListAccepts({}, GroupNodes)
    /\ listed' = GroupNodes
    /\ Quiet /\ UNCHANGED <<quota, evidence, todo, settled, tally>>

One(condition) == IF condition THEN 1 ELSE 0

\* The counters start from the capacity of the node group.
CapacityTally(capacity) ==
    [ZeroTally EXCEPT
        !.failures = One(capacity \in {"invalid", "awaiting_nodes"}),
        !.missing  = One(capacity \in {"awaiting_nodes", "reconciling"})]

Candidates(nodes) == {n \in nodes : n.grp}

ListTrustedNodes ==
    /\ Goto("list2", "node")
    /\ ListAccepts(listed, TrustedNodes)
    /\ listed' = listed \union TrustedNodes
    /\ todo' = listed'
    /\ tally' = CapacityTally(Capacity(evidence.group.scaling.desired,
                                       Cardinality(Candidates(listed'))))
    /\ Quiet /\ UNCHANGED <<quota, evidence, settled>>

\* A discovery read throws: the cycle ends with one failure and no decision.
ProviderFailure ==
    /\ pc' = "publish"
    /\ \/ pc \in {"group", "asgs", "list1", "list2"} /\ Disturb
       \/ pc = "asgs" /\ ~ (evidence.group.asgs \subseteq cloud.asgs) /\ UNCHANGED quota
       \/ pc = "list1" /\ ~ ListAccepts({}, GroupNodes) /\ UNCHANGED quota
       \/ pc = "list2" /\ ~ ListAccepts(listed, TrustedNodes) /\ UNCHANGED quota
    /\ tally' = [ZeroTally EXCEPT !.failures = 1]
    /\ listed' = {}
    /\ Quiet /\ UNCHANGED <<evidence, todo, settled>>

-----------------------------------------------------------------------------
(***************************************************************************)
(* One listed Node                                                         *)
(***************************************************************************)
\* Variant: a Node found labelled makes up for one that misses its label.
CountedWithCredit(n, action) ==
    [tally EXCEPT
        !.decisions = @ + 1,
        !.failures  = @ + One(action \in {"deny", "revoke"}),
        !.missing   = @ + One(action = "deny" /\ n.label = Absent) - One(action = "noop")]

\* Variant: only a revocation is a failure.
CountedRevocations(n, action) ==
    [tally EXCEPT
        !.decisions = @ + 1,
        !.failures  = @ + One(action = "revoke"),
        !.missing   = @ + One(\/ action = "deny" /\ n.label = Absent
                              \/ action = "revoke" /\ n.grp)]

\* What the decision about snapshot n adds to the counters.
Counted(n, action) ==
    [tally EXCEPT
        !.decisions = @ + 1,
        !.failures  = @ + One(action \in {"deny", "revoke"}),
        !.missing   = @ + One(\/ action = "deny" /\ n.label = Absent
                              \/ action = "revoke" /\ n.grp)]

\* The loop body up to the re-read of the Node.
Decide(n, decision) ==
    /\ pc = "node"
    /\ n \in todo
    /\ todo' = todo \ {n}
    /\ tally' = Counted(n, decision.action)
    /\ settled' = IF decision.action = "noop" THEN settled \union {n} ELSE settled
    /\ \/ /\ decision.action \in {"deny", "noop"}
          /\ UNCHANGED <<pc, plan>>
       \/ /\ decision.action \in {"patch", "revoke"}
          /\ pc' = "recheck"
          /\ plan' = PlanFor(n, IF decision.action = "patch" THEN "add" ELSE "remove",
                             evidence.group.at)
    /\ UNCHANGED <<worldVars, aborted, evidence, listed, inflight, reply, sample>>

Ec2Snapshot(i) ==
    [instance |-> i, account |-> Facts[i].account, region |-> Region,
     zone |-> Facts[i].zone, type |-> Facts[i].type, state |-> cloud.ec2[i], at |-> now]

KernelInput(n) ==
    [now |-> now, node |-> n, group |-> evidence.group, asgs |-> evidence.asgs,
     ec2 |-> Ec2Snapshot(n.pid.instance)]

\* describeEc2Instance answers; the kernel runs before the next await.
AttestNode(n) ==
    /\ ~ Malformed(n.pid)
    /\ \E decision \in {Plan(KernelInput(n))} : Decide(n, decision)
    /\ UNCHANGED quota

\* The provider ID names no instance: there is nothing to look up.
RefuseProviderId(n) ==
    /\ Malformed(n.pid)
    /\ Decide(n, PlanFailure(n, "provider_id_malformed"))
    /\ UNCHANGED quota

\* describeEc2Instance throws.
EvidenceUnavailable(n) ==
    /\ ~ Malformed(n.pid)
    /\ Disturb
    /\ Decide(n, PlanFailure(n, "evidence_unavailable"))

-----------------------------------------------------------------------------
(***************************************************************************)
(* Applying one plan                                                       *)
(***************************************************************************)

\* Variant: a plan that is given up is retried by the next cycle, so this one
\* does not report it.
AbandonSilently ==
    /\ pc' = "node"
    /\ plan' = NoPlan
    /\ UNCHANGED <<worldVars, aborted, evidence, listed, todo, settled, tally, sample>>

\* Variant: every plan that is given up leaves its Node without the label.
AbandonMissing ==
    /\ pc' = "node"
    /\ plan' = NoPlan
    /\ tally' = [tally EXCEPT !.failures = @ + 1, !.missing = @ + 1]
    /\ UNCHANGED <<worldVars, aborted, evidence, listed, todo, settled, sample>>

\* The plan is given up: its Node counts as a failure, and as missing its
\* label if the plan was to add it.
Abandon ==
    /\ pc' = "node"
    /\ plan' = NoPlan
    /\ tally' = [tally EXCEPT !.failures = @ + 1,
                              !.missing = @ + One(plan.mutation = "add")]
    /\ UNCHANGED <<worldVars, aborted, evidence, listed, todo, settled, sample>>

\* getNode answers with an object that parses and that the plan still fits.
Current(n) == node[n] # NoNode /\ Parses(node[n])

RecheckPasses ==
    /\ Goto("recheck", "send")
    /\ Current(plan.name) /\ PlanStillValid(plan, node[plan.name])
    /\ UNCHANGED <<worldVars, quota, aborted, cycleVars, patchVars, sample>>

\* The Node is gone, does not parse or has moved on (stale_plan), or getNode
\* throws (patch_rejected).
RecheckFails ==
    /\ pc = "recheck"
    /\ \/ Disturb
       \/ /\ ~ (Current(plan.name) /\ PlanStillValid(plan, node[plan.name]))
          /\ UNCHANGED quota
    /\ Abandon
    /\ UNCHANGED <<inflight, reply>>

\* A token is signed and the PATCH leaves the controller.
SendPatch ==
    /\ Goto("send", "await")
    /\ inflight' = inflight \union {[plan |-> plan, awaited |-> TRUE]}
    /\ UNCHANGED <<worldVars, quota, aborted, cycleVars, plan, reply, sample>>

\* No token can be signed, or the connection is refused: nothing is sent.
SendFails ==
    /\ pc = "send"
    /\ Disturb
    /\ Abandon
    /\ UNCHANGED <<inflight, reply>>

\* The ValidatingAdmissionPolicy's update rule for the controller's identity:
\* an exact addition or removal of the configured label.
Admitted(old, label) ==
    PolicyBinding =>
        \/ old.label = Absent  /\ label = Trusted
        \/ old.label = Trusted /\ label = Absent

\* The API server executes a patch message, if its Node still exists, every
\* test operation passes and admission allows the result.
Accepted(p) ==
    /\ node[p.name] # NoNode
    /\ PatchTestsPass(p, node[p.name])
    /\ Admitted(node[p.name], Target(p))

Patched(p) == [node[p.name] EXCEPT !.label = Target(p), !.rv = rev + 1]

ServerPatch(m) ==
    /\ m \in inflight
    /\ inflight' = inflight \ {m}
    /\ \/ Accepted(m.plan) /\ Write(m.plan.name, Patched(m.plan))
       \/ ~ Accepted(m.plan) /\ UNCHANGED apiVars
    /\ reply' = CASE ~ m.awaited -> reply
                  [] m.awaited /\ Accepted(m.plan) -> "accepted"
                  [] m.awaited /\ ~ Accepted(m.plan) -> "rejected"
    /\ UNCHANGED <<cloud, now, quota, pc, aborted, cycleVars, plan, sample>>

\* The request or the answer is lost on the way.
LosePatch(m) ==
    /\ m \in inflight
    /\ Disturb
    /\ inflight' = inflight \ {m}
    /\ UNCHANGED <<worldVars, pc, aborted, cycleVars, plan, reply, sample>>

LoseReply ==
    /\ reply # "none"
    /\ Disturb
    /\ reply' = "none"
    /\ UNCHANGED <<worldVars, pc, aborted, cycleVars, plan, inflight, sample>>

PatchAccepted ==
    /\ pc = "await"
    /\ reply = "accepted"
    /\ pc' = "node"
    /\ plan' = NoPlan
    /\ reply' = "none"
    /\ tally' = [tally EXCEPT !.patched = @ + 1]
    /\ settled' = settled \union {plan.seen}
    /\ UNCHANGED <<worldVars, quota, aborted, evidence, listed, todo, inflight, sample>>

PatchRejected ==
    /\ pc = "await"
    /\ reply = "rejected"
    /\ Abandon
    /\ reply' = "none"
    /\ UNCHANGED <<quota, inflight>>

Awaited == {m \in inflight : m.awaited}

\* Nobody waits for the answer any more; the message itself travels on.
Forgotten(messages) == {[m EXCEPT !.awaited = FALSE] : m \in messages}

\* The ten seconds of the transport run out with no answer.
PatchTimesOut ==
    /\ pc = "await"
    /\ reply = "none"
    /\ IF Awaited = {} THEN UNCHANGED quota ELSE Disturb
    /\ Abandon
    /\ inflight' = Forgotten(inflight)
    /\ UNCHANGED reply

-----------------------------------------------------------------------------
(***************************************************************************)
(* The end of a cycle, and of the process                                  *)
(***************************************************************************)
\* The locals of the cycle go out of scope.
ForgetCycle ==
    /\ evidence' = [group |-> NoEvidence, asgs |-> {}]
    /\ listed' = {} /\ todo' = {} /\ settled' = {}
    /\ tally' = ZeroTally

FinishNodes ==
    /\ todo = {}
    /\ Goto("node", "publish")
    /\ Quiet /\ UNCHANGED <<quota, cycleVars>>

Publish ==
    /\ Goto("publish", "sleep")
    /\ ForgetCycle
    /\ sample' = [decisions |-> tally.decisions, failures |-> tally.failures,
                  missing |-> tally.missing]
    /\ UNCHANGED <<worldVars, quota, aborted, patchVars>>

\* publishMetricsSafely swallows the failure.
PublishFails ==
    /\ Goto("publish", "sleep")
    /\ Disturb
    /\ ForgetCycle
    /\ Quiet

\* SIGTERM or SIGINT: the cycle under way runs to its end.
Signal ==
    /\ ~ aborted
    /\ pc # "stopped"
    /\ Disturb
    /\ aborted' = TRUE
    /\ UNCHANGED <<worldVars, pc, cycleVars, patchVars, sample>>

StopLoop ==
    /\ aborted
    /\ Goto("sleep", "stopped")
    /\ Quiet /\ UNCHANGED <<quota, cycleVars>>

\* The process dies wherever it stands: all it knew is gone, what it sent is not.
Crash ==
    /\ pc # "stopped"
    /\ Disturb
    /\ pc' = "stopped"
    /\ ForgetCycle
    /\ plan' = NoPlan
    /\ reply' = "none"
    /\ inflight' = Forgotten(inflight)
    /\ UNCHANGED <<worldVars, aborted, sample>>

\* The Deployment starts its one replica again.
Restart ==
    /\ Goto("stopped", "sleep")
    /\ aborted' = FALSE
    /\ UNCHANGED <<worldVars, quota, cycleVars, patchVars, sample>>

-----------------------------------------------------------------------------
(***************************************************************************)
(* Specification                                                           *)
(***************************************************************************)
World ==
    \/ \E n \in Names : UpdateNode(n) \/ ForeignLabelWrite(n) \/ DeleteNode(n) \/ JoinNode(n)
    \/ CloudChange
    \/ ClockStep

Discovery ==
    \/ StartCycle
    \/ DescribeNodeGroup
    \/ DescribeAutoScalingGroups
    \/ ListGroupNodes
    \/ ListTrustedNodes
    \/ ProviderFailure

Attestation ==
    \E n \in todo : AttestNode(n) \/ RefuseProviderId(n) \/ EvidenceUnavailable(n)

Application ==
    \/ RecheckPasses \/ RecheckFails
    \/ SendPatch \/ SendFails
    \/ PatchAccepted \/ PatchRejected \/ PatchTimesOut

Server == \E m \in inflight : ServerPatch(m)

Loss == LoseReply \/ \E m \in inflight : LosePatch(m)

CycleEnd == FinishNodes \/ Publish \/ PublishFails \/ StopLoop

Controller == Discovery \/ Attestation \/ Application \/ CycleEnd

Next == World \/ Controller \/ Server \/ Loss \/ Signal \/ Crash \/ Restart

\* The event loop always runs the controller's next step, the API server
\* executes what reaches it, and the Deployment restarts a stopped replica.
Fairness == WF_vars(Controller) /\ WF_vars(Server) /\ WF_vars(Restart)

SafetySpec == Init /\ [][Next]_vars
Spec == SafetySpec /\ Fairness

-----------------------------------------------------------------------------
(***************************************************************************)
(* Properties                                                              *)
(***************************************************************************)
Tallies == [decisions : Nat, failures : Nat, missing : Nat, patched : Nat]

GroupEvidence == [name : {NodeGroup}, status : {"ACTIVE", "UPDATING", "DEGRADED", "DELETING"},
                  asgs : SUBSET Asgs, scaling : Scalings, at : Int]

AsgEvidence == [name : Asgs, members : SUBSET [id : Instances, healthy : BOOLEAN], at : Int]

WorldOK ==
    /\ node \in [Names -> Objects \union {NoNode}]
    /\ rev \in Nat
    /\ cloud \in Clouds
    /\ now \in Int
    /\ quota \in Nat

CycleOK ==
    /\ evidence \in [group : GroupEvidence \union {NoEvidence}, asgs : SUBSET AsgEvidence]
    /\ listed \in SUBSET Objects
    /\ todo \in SUBSET Objects
    /\ settled \in SUBSET Objects
    /\ tally \in Tallies
    /\ sample \in [decisions : Nat, failures : Nat, missing : Nat] \union {NoSample}

PatchOK ==
    /\ pc \in PCs
    /\ aborted \in BOOLEAN
    /\ plan \in Plans \union {NoPlan}
    /\ inflight \in SUBSET [plan : Plans, awaited : BOOLEAN]
    /\ reply \in {"none", "accepted", "rejected"}

\* Every variable keeps its type.
TypeOK == WorldOK /\ CycleOK /\ PatchOK

\* The same Node object carries another protected label after the step.
LabelMoves(n) ==
    /\ node[n] # NoNode /\ node'[n] # NoNode
    /\ node'[n].uid = node[n].uid
    /\ node'[n].label # node[n].label

\* ... because a patch is carried out on exactly the object it was decided
\* about: same uid, version, provider ID, labels and taints.
OwnVerdict(n) ==
    \E m \in inflight :
        /\ m.plan.seen = node[n]
        /\ node[n].label = IF m.plan.mutation = "add" THEN Absent ELSE Trusted
        /\ node'[n] = [node[n] EXCEPT !.label = Target(m.plan), !.rv = rev']

\* A step that moves the protected label of a Node is a foreign write, or it
\* executes a patch that was decided about exactly the object it changes.
\* In particular a label that conflicts is never overwritten, whatever was
\* replaced, relabelled, delayed or retried between decision and execution.
LabelMovesOnlyByItsVerdict ==
    [][\A n \in Names : LabelMoves(n) => ForeignLabelWrite(n) \/ OwnVerdict(n)]_vars

\* The step decides that listed Node n is to get the label, or may keep it.
Extends(n) ==
    /\ pc = "node" /\ n \notin todo'
    /\ n \in settled' \ settled \/ (pc' = "recheck" /\ plan'.mutation = "add")

\* The snapshots of a cycle are taken at different times, by different calls,
\* while AWS moves: even so, no Node is given the label or left with it unless
\* what was gathered proves, as a whole, that it may carry it.
TrustRestsOnProof ==
    [][\A n \in todo : Extends(n) => Trustworthy(KernelInput(n)) /\ ~ Conflicting(n)]_vars

\* A cycle that is about to report neither a failure nor a missing label has
\* found or made every Node it listed trusted, and has listed at least as
\* many Nodes of the group as the group wants.
CleanReportIsEarned ==
    pc = "publish" /\ tally.failures = 0 /\ tally.missing = 0 =>
        /\ settled = listed
        /\ Cardinality(Candidates(listed)) >= evidence.group.scaling.desired

\* MissingTrustedLabel counts a Node once however its plan ends, and the
\* capacity gap once: a revocation that is then rejected is not two.
MissingCountsNodesOnce ==
    tally.missing > 0 =>
        tally.missing <= One(Cardinality(Candidates(listed)) < evidence.group.scaling.desired)
                             + Cardinality(listed \ todo)

\* The instance of object n passes every check against AWS as it is now.
Attested(n) ==
    LET i == n.pid.instance
    IN  /\ n.name \notin LongNames
        /\ ~ Malformed(n.pid)
        /\ cloud.status \in {"ACTIVE", "UPDATING"}
        /\ Cardinality(cloud.member[i]) = 1
        /\ cloud.healthy[i]
        /\ cloud.ec2[i] = "running"
        /\ Facts[i] = [account |-> Account, zone |-> n.pid.zone, type |-> n.meta.type]
        /\ n.pid.zone \in RegionZones /\ n.meta.zone = n.pid.zone
        /\ n.meta.type \in AllowedTypes
        /\ \A e \in Expected : {t \in n.meta.taints : t.key = e.key} = {e}

\* No Node of the cluster makes a list response unreadable or too long.
Listable ==
    /\ \A n \in GroupNodes \union TrustedNodes : Parses(n)
    /\ Cardinality(GroupNodes \union TrustedNodes) <= MaxNodes

\* An attested Node of the group that stays as it is ends up trusted, and
\* stays so: whatever was lost, refused or restarted before.
AttestedNodesBecomeTrusted ==
    \A n \in Names :
        <>[](/\ Listable
             /\ node[n] # NoNode
             /\ node[n].grp /\ node[n].label \in {Absent, Trusted} /\ Attested(node[n]))
        => <>[](node[n] # NoNode /\ node[n].label = Trusted)

\* A trusted label does not outlive its proof: a Node whose instance stays
\* unattested does not keep the label, in the node group or out of it.
TrustDoesNotOutliveProof ==
    \A n \in Names :
        ~ <>[](/\ Listable
               /\ node[n] # NoNode
               /\ node[n].name \notin LongNames
               /\ node[n].label = Trusted /\ ~ Attested(node[n]))

\* A Node of the group that stays without the trusted label is reported: from
\* some point on every published sample carries a failure.
UntrustedNodesAreReported ==
    \A n \in Names :
        <>[](node[n] # NoNode /\ node[n].grp /\ node[n].label # Trusted)
        => <>[](sample # NoSample /\ sample.failures > 0)

\* RUNBOOK-eks-trusted-node-label-reconciler.md, BDD-6: while the node group is
\* replaced, the replacement is accepted.  The same promise as
\* AttestedNodesBecomeTrusted, without the assumption that every other Node
\* of the list parses.
ReplacementIsAccepted ==
    \A n \in Names :
        <>[](/\ node[n] # NoNode /\ Parses(node[n])
             /\ node[n].grp /\ node[n].label \in {Absent, Trusted} /\ Attested(node[n]))
        => <>[](node[n] # NoNode /\ node[n].label = Trusted)

\* What specs/EksTrustedNodeLabelReconciler.trace.md says of the hardened
\* ApplyPatch: it is enabled only when the evidence is still fresh at
\* application time.
EvidenceIsFreshWhenApplied ==
    [][\A n \in Names : LabelMoves(n) /\ node'[n].label = Trusted /\ ~ ForeignLabelWrite(n) =>
          \E m \in inflight : m.plan.name = n /\ now - m.plan.since <= MaxAge]_vars

-----------------------------------------------------------------------------
(***************************************************************************)
(* Refinement: the controller implements TrustedLabel.  Its verdicts are   *)
(* the plan it is applying and the patches under way.                      *)
(***************************************************************************)
Outstanding == {m.plan : m \in inflight} \union ({plan} \ {NoPlan})

Verdict(p) == [name |-> p.name, version |-> p.seen, label |-> Target(p)]

TL == INSTANCE TrustedLabel WITH
        verdicts <- {Verdict(p) : p \in Outstanding},
        Enforced <- PolicyBinding

\* Every behaviour of the controller, the API server and the network is one of
\* the abstract label.
ImplementsTrustedLabel == TL!Spec

=============================================================================
