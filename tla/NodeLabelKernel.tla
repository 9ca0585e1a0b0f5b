--------------------------- MODULE NodeLabelKernel ---------------------------
(***************************************************************************)
(* The trust-decision kernel of the EKS trusted-node-label reconciler      *)
(* (packages/k8s-baseline/src/trusted-node-label-reconciler-core.ts).      *)
(*                                                                         *)
(* The kernel does no I/O: it maps one Node snapshot and three provider    *)
(* snapshots (node group, Auto Scaling groups, EC2 instance) to a decision *)
(* deny, noop, patch (add the protected label) or revoke (remove it).      *)
(*                                                                         *)
(* Identifiers are opaque values.  A provider ID is a record of the zone   *)
(* and the instance that PROVIDER_ID_RE extracts; a string the pattern     *)
(* rejects is MalformedId.  Length and character-class bounds that the     *)
(* kernel re-checks on values an adapter has already bounded are left out; *)
(* the ones only the kernel checks (a Node name of at most 100 characters, *)
(* ordered scaling bounds) are kept.                                       *)
(***************************************************************************)
EXTENDS Integers, FiniteSets, Sequences

CONSTANTS
    Instances,       \* EC2 instance identifiers
    Zones,           \* availability zones a provider ID can name
    NoInstance,      \* "the provider ID names no instance"
    NoZone,
    Labels,          \* values of the protected label that can be observed
    Absent,          \* the Node does not carry the protected label
    Trusted,         \* policy.protectedLabelValue
    NodeGroup,       \* policy.clusterName and policy.nodeGroupName
    Account,         \* policy.awsAccountId
    Region,          \* policy.region
    RegionZones,     \* the zones of that region
    AllowedTypes,    \* policy.allowedInstanceTypes
    ExpectedTaints,  \* policy.expectedTaints, a sequence
    LongNames,       \* Node names the API accepts and BOUNDED_IDENTIFIER_RE does not
    MaxAge,          \* policy.maxEvidenceAgeMs
    MaxSkew          \* policy.maxEvidenceSkewMs

ASSUME KernelAssumption ==
    /\ Trusted \in Labels
    /\ Absent \notin Labels
    /\ NoInstance \notin Instances
    /\ NoZone \notin Zones
    /\ RegionZones \subseteq Zones
    /\ DOMAIN ExpectedTaints = 1 .. Len(ExpectedTaints)
    /\ Len(ExpectedTaints) \in Nat
    /\ MaxAge \in Nat \ {0}
    /\ MaxSkew \in 0 .. MaxAge

MalformedId == [zone |-> NoZone, instance |-> NoInstance]

ProviderIds == [zone : Zones, instance : Instances] \union {MalformedId}

Malformed(pid) == pid.instance = NoInstance

(***************************************************************************)
(* The facts the checks are about.                                         *)
(***************************************************************************)

\* Every capture time of the evidence: node group, each ASG snapshot, EC2.
CaptureTimes(in) == {in.group.at, in.ec2.at} \union {g.at : g \in in.asgs}

\* Variant: the search stops at the first group that holds the instance.
FirstMembership(in) ==
    LET holding == {g \in in.asgs : \E k \in g.members : k.id = in.node.pid.instance}
    IN  UNION {{[asg |-> g.name, member |-> m] :
                  m \in {k \in g.members : k.id = in.node.pid.instance}} :
                  g \in IF holding = {} THEN {} ELSE {CHOOSE g \in holding : TRUE}}

\* The memberships of the Node's instance over all ASG snapshots.
Memberships(in) ==
    UNION {{[asg |-> g.name, member |-> m] :
               m \in {k \in g.members : k.id = in.node.pid.instance}} : g \in in.asgs}

Expected == {ExpectedTaints[k] : k \in DOMAIN ExpectedTaints}

\* The Node's taints that have the key of one expected taint.
SameKey(in, taint) == {t \in in.node.meta.taints : t.key = taint.key}

OrderedScaling(s) == 0 <= s.min /\ s.min <= s.desired /\ s.desired <= s.max

(***************************************************************************)
(* The checks of planTrustedNodeLabel, by the function that makes them: a  *)
(* failure carries its reason and its rank in the order of the checks.     *)
(***************************************************************************)
When(condition, rank, reason) ==
    IF condition THEN {[rank |-> rank, reason |-> reason]} ELSE {}

\* inputFailure, and the match of the provider ID.
ShapeFailures(in) ==
    When(in.node.name \in LongNames \/ ~ OrderedScaling(in.group.scaling), 1, "input_malformed")
    \union When(Malformed(in.node.pid), 2, "provider_id_malformed")

\* evidenceFailure.
FreshnessFailures(in) ==
    When(\E t \in CaptureTimes(in) : t > in.now, 3, "evidence_from_future")
    \union When(\E t \in CaptureTimes(in) : in.now - t > MaxAge, 4, "evidence_stale")
    \union When(\E s, t \in CaptureTimes(in) : s - t > MaxSkew, 5, "evidence_skew_exceeded")

GroupFailures(in) ==
    When(in.group.name # NodeGroup, 6, "node_group_mismatch")
    \union When(in.group.status \notin {"ACTIVE", "UPDATING"}, 7, "node_group_unavailable")

\* attestMembership.
MembershipFailures(in) ==
    When(\E g \in in.asgs : g.name \notin in.group.asgs, 8, "asg_not_attested")
    \union When(\/ {g.name : g \in in.asgs} # in.group.asgs
                \/ Cardinality(in.asgs) # Cardinality(in.group.asgs),
                9, "asg_evidence_incomplete")
    \union When(Memberships(in) = {}, 10, "membership_missing")
    \union When(Cardinality(Memberships(in)) > 1, 11, "membership_ambiguous")
    \union When(\E m \in Memberships(in) : ~ m.member.healthy, 12, "membership_unhealthy")

\* attestEc2AndNode.
Ec2Failures(in) ==
    When(in.ec2.instance # in.node.pid.instance, 13, "instance_id_mismatch")
    \union When(in.ec2.account # Account, 14, "account_mismatch")
    \union When(in.ec2.region # Region, 15, "region_mismatch")
    \union When(in.ec2.zone # in.node.pid.zone \/ in.node.pid.zone \notin RegionZones,
                16, "availability_zone_mismatch")
    \union When(in.ec2.type \notin AllowedTypes, 17, "instance_type_denied")
    \union When(in.ec2.state # "running", 18, "instance_not_running")
    \union When(in.node.meta.zone # in.ec2.zone, 19, "node_zone_label_mismatch")
    \union When(in.node.meta.type # in.ec2.type, 20, "node_instance_type_label_mismatch")

\* attestTaints: one after the other, in the order of the policy.
TaintFailures(in) ==
    UNION {When(SameKey(in, ExpectedTaints[k]) # {ExpectedTaints[k]}, 20 + k,
                IF SameKey(in, ExpectedTaints[k]) = {} THEN "expected_taint_missing"
                                                      ELSE "expected_taint_conflict") :
              k \in DOMAIN ExpectedTaints}

Failures(in) == ShapeFailures(in) \union FreshnessFailures(in) \union GroupFailures(in)
                    \union MembershipFailures(in) \union Ec2Failures(in)
                    \union TaintFailures(in)

NoFailure == "none"

\* The reason of the first check that fails.
FirstFailure(in) ==
    IF Failures(in) = {} THEN NoFailure
    ELSE (CHOOSE f \in Failures(in) : \A g \in Failures(in) : f.rank <= g.rank).reason

(***************************************************************************)
(* Decisions                                                               *)
(***************************************************************************)
Decision(action, reason) == [action |-> action, reason |-> reason]

Conflicting(n) == n.label \notin {Absent, Trusted}

\* canSafelyRevoke: the Node's identity is one a patch can be bound to.
CanSafelyRevoke(n) == n.name \notin LongNames

\* Variant: a failed attestation only ever denies.
FailureDenies(n, reason) ==
    IF Conflicting(n) THEN Decision("deny", "protected_label_conflict")
    ELSE Decision("deny", reason)

\* Variant: whatever the label holds is revoked.
FailureRevokes(n, reason) ==
    IF n.label # Absent /\ CanSafelyRevoke(n) THEN Decision("revoke", reason)
    ELSE Decision("deny", reason)

\* planTrustedNodeLabelFailure: what a failed attestation does to the label.
PlanFailure(n, reason) ==
    CASE Conflicting(n) -> Decision("deny", "protected_label_conflict")
      [] n.label = Trusted /\ CanSafelyRevoke(n) -> Decision("revoke", reason)
      [] n.label = Absent \/ (n.label = Trusted /\ ~ CanSafelyRevoke(n)) ->
             Decision("deny", reason)

\* planTrustedNodeLabel: the whole decision over one input.
Plan(in) ==
    LET reason == FirstFailure(in)
    IN  CASE reason # NoFailure -> PlanFailure(in.node, reason)
          [] reason = NoFailure /\ Conflicting(in.node) ->
                 Decision("deny", "protected_label_conflict")
          [] reason = NoFailure /\ in.node.label = Trusted -> Decision("noop", NoFailure)
          [] reason = NoFailure /\ in.node.label = Absent  -> Decision("patch", NoFailure)

(***************************************************************************)
(* Plans: the identity a mutation is bound to, and the tests made on it.   *)
(* "seen" (the snapshot the decision was made on) and "since" (when the    *)
(* cycle described the node group) are history: the code                   *)
(* keeps only the five fields beside them, and no test reads these two.    *)
(***************************************************************************)
PlanFor(n, mutation, since) ==
    [mutation |-> mutation, name |-> n.name, uid |-> n.uid, rv |-> n.rv,
     pid |-> n.pid, seen |-> n, since |-> since]

\* The value the protected label has after the mutation.
Target(plan) == IF plan.mutation = "add" THEN Trusted ELSE Absent

\* Variant: the resource version is not tested.
PatchTestsIdentity(plan, n) ==
    /\ n.uid = plan.uid
    /\ n.pid = plan.pid
    /\ plan.mutation = "remove" => n.label = Trusted

\* Variant: the addition tests the label as the removal does.
PatchTestsLabel(plan, n) ==
    /\ n.uid = plan.uid
    /\ n.rv = plan.rv
    /\ n.pid = plan.pid
    /\ n.label = Trusted

\* The test operations of the JSON patch.  The addition tests no label: it
\* relies on the resourceVersion test for that.
PatchTestsPass(plan, n) ==
    /\ n.uid = plan.uid
    /\ n.rv = plan.rv
    /\ n.pid = plan.pid
    /\ plan.mutation = "remove" => n.label = Trusted

\* validateReconciliationPlan, on the Node as getNode returned it.
PlanStillValid(plan, n) ==
    /\ n.name = plan.name
    /\ n.uid = plan.uid
    /\ n.rv = plan.rv
    /\ n.pid = plan.pid
    /\ n.label = IF plan.mutation = "add" THEN Absent ELSE Trusted

(***************************************************************************)
(* classifyNodeGroupCapacity                                               *)
(***************************************************************************)
Capacity(desired, observed) ==
    CASE desired < 0 \/ observed < 0    -> "invalid"
      [] desired = 0 /\ observed = 0    -> "zero_capacity"
      [] desired > 0 /\ observed = 0    -> "awaiting_nodes"
      [] 0 < observed /\ observed < desired -> "reconciling"
      [] 0 <= desired /\ 0 < observed /\ observed >= desired -> "ready"

(***************************************************************************)
(* What a positive decision must rest on, stated without the order of the  *)
(* checks: a window of capture times, one healthy membership, one instance *)
(* that is the one allowed, and the expected taints as they are.           *)
(***************************************************************************)
Fresh(in) ==
    \E from \in (in.now - MaxAge) .. in.now :
        \A t \in CaptureTimes(in) : t \in from .. (from + MaxSkew) /\ t <= in.now

OneHealthyMembership(in) ==
    /\ {g.name : g \in in.asgs} = in.group.asgs
    /\ \A g, h \in in.asgs : g.name = h.name => g = h
    /\ \E g \in in.asgs : \E m \in g.members :
          /\ m = [id |-> in.node.pid.instance, healthy |-> TRUE]
          /\ \A h \in in.asgs : \A k \in h.members :
                k.id = m.id => k = m /\ h.name = g.name

Trustworthy(in) ==
    /\ in.node.pid \in [zone : RegionZones, instance : Instances]
    /\ Fresh(in)
    /\ in.group.name = NodeGroup /\ in.group.status \in {"ACTIVE", "UPDATING"}
    /\ OneHealthyMembership(in)
    /\ in.ec2 = [instance |-> in.node.pid.instance, account |-> Account, region |-> Region,
                 zone |-> in.node.pid.zone, type |-> in.node.meta.type,
                 state |-> "running", at |-> in.ec2.at]
    /\ in.node.meta.zone = in.node.pid.zone /\ in.node.meta.type \in AllowedTypes
    /\ \A e \in Expected, t \in in.node.meta.taints : t.key = e.key => t = e
    /\ Expected \subseteq in.node.meta.taints

\* Inputs no adapter produces and no policy can be bound to.
Bounded(in) == in.node.name \notin LongNames /\ OrderedScaling(in.group.scaling)
=============================================================================
