-------------------------- MODULE MCNodeLabelKernel --------------------------
(***************************************************************************)
(* The kernel over inputs that depart from a trustworthy one in up to      *)
(* MaxChanges facts: a walk whose every step changes one fact of the Node, *)
(* of the provider snapshots or of the clock.                              *)
(***************************************************************************)
EXTENDS NodeLabelKernel

CONSTANTS n1, long, i1, i2, a1, a2, z1, z2, m5, t3, Other, MaxChanges

VARIABLES input, changes

Dedicated == [key |-> "dedicated", value |-> "trusted", effect |-> "NoSchedule"]
MCTaints == <<Dedicated>>
TaintSets == {{Dedicated}, {},
              {[Dedicated EXCEPT !.value = "other"]},
              {Dedicated, [Dedicated EXCEPT !.effect = "NoExecute"]}}

Asg(name, members, at) == [name |-> name, members |-> members, at |-> at]
Member(i, healthy) == [id |-> i, healthy |-> healthy]

\* A rolling update: two groups, the Node's instance in the first.
Good ==
    [now |-> 1,
     node |-> [name |-> n1, uid |-> 1, rv |-> 1, pid |-> [zone |-> z1, instance |-> i1],
               label |-> Absent, grp |-> TRUE,
               meta |-> [zone |-> z1, type |-> m5, taints |-> {Dedicated}]],
     group |-> [name |-> NodeGroup, status |-> "UPDATING", asgs |-> {a1, a2},
                scaling |-> [min |-> 0, desired |-> 1, max |-> 2], at |-> 1],
     asgs |-> {Asg(a1, {Member(i1, TRUE)}, 1), Asg(a2, {Member(i2, TRUE)}, 1)},
     ec2 |-> [instance |-> i1, account |-> Account, region |-> Region, zone |-> z1,
              type |-> m5, state |-> "running", at |-> 1]]

NodeChange ==
    \/ \E l \in Labels \union {Absent} : input' = [input EXCEPT !.node.label = l]
    \/ \E p \in {[zone |-> z2, instance |-> i1], [zone |-> z1, instance |-> i2], MalformedId} :
          input' = [input EXCEPT !.node.pid = p]
    \/ \E ts \in TaintSets : input' = [input EXCEPT !.node.meta.taints = ts]
    \/ input' = [input EXCEPT !.node.meta.zone = z2]
    \/ input' = [input EXCEPT !.node.meta.type = t3]
    \/ input' = [input EXCEPT !.node.name = long]

ProviderChange ==
    \/ \E s \in {"ACTIVE", "DEGRADED"} : input' = [input EXCEPT !.group.status = s]
    \/ input' = [input EXCEPT !.group.name = "other"]
    \/ input' = [input EXCEPT !.group.scaling.max = 0]
    \/ input' = [input EXCEPT !.group.asgs = {a1}]
    \/ \E g \in input.asgs : input' = [input EXCEPT !.asgs = @ \ {g}]
    \/ \E g \in input.asgs, i \in {i1, i2}, h \in BOOLEAN :
          input' = [input EXCEPT !.asgs =
                       (@ \ {g}) \union {[g EXCEPT !.members = @ \union {Member(i, h)}]}]
    \/ \E g \in input.asgs :
          input' = [input EXCEPT !.asgs = (@ \ {g}) \union {[g EXCEPT !.members = {}]}]
    \/ input' = [input EXCEPT !.ec2.instance = i2]
    \/ input' = [input EXCEPT !.ec2.account = "other"]
    \/ input' = [input EXCEPT !.ec2.region = "other"]
    \/ input' = [input EXCEPT !.ec2.zone = z2]
    \/ input' = [input EXCEPT !.ec2.type = t3]
    \/ input' = [input EXCEPT !.ec2.state = "stopped"]

TimeChange ==
    \/ \E t \in 0 .. 4 : input' = [input EXCEPT !.now = t]
    \/ \E t \in 0 .. 4 : input' = [input EXCEPT !.group.at = t]
    \/ \E t \in 0 .. 4 : input' = [input EXCEPT !.ec2.at = t]
    \/ \E g \in input.asgs, t \in 0 .. 4 :
          input' = [input EXCEPT !.asgs = (@ \ {g}) \union {[g EXCEPT !.at = t]}]

Init == input = Good /\ changes = 0

Next ==
    /\ changes < MaxChanges
    /\ changes' = changes + 1
    /\ NodeChange \/ ProviderChange \/ TimeChange

Spec == Init /\ [][Next]_<<input, changes>>

\* A Node is labelled, or its label left standing, exactly when everything the
\* label stands for is proved: no order of the checks, no missing group and no
\* double membership lets an unproved Node through or turns a proved one away.
ActsExactlyOnProof ==
    Plan(input).action \in {"patch", "noop"}
        <=> Bounded(input) /\ Trustworthy(input) /\ ~ Conflicting(input.node)

\* A trusted label whose proof fails is revoked, for every reason, as long as
\* the Node's identity is one a patch can be bound to; a conflicting value is
\* denied and nothing else.
FailedProofRevokes ==
    /\ input.node.label = Trusted /\ ~ (Bounded(input) /\ Trustworthy(input)) =>
          (Plan(input).action = "revoke" <=> CanSafelyRevoke(input.node))
    /\ Conflicting(input.node) => Plan(input).action = "deny"
=============================================================================
