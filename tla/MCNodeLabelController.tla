------------------------ MODULE MCNodeLabelController ------------------------
(***************************************************************************)
(* Small instances of NodeLabelController.                                 *)
(***************************************************************************)
EXTENDS NodeLabelController

CONSTANTS n1, n2, n3, i1, i2, a1, a2, z1, m5, Other

Dedicated == [key |-> "dedicated", value |-> "trusted", effect |-> "NoSchedule"]
MCTaints == <<Dedicated>>

Meta(taints) == [zone |-> z1, type |-> m5, taints |-> taints]
Tainted == Meta({Dedicated})
Bare == Meta({})
Cordoned == Meta({Dedicated, [key |-> "unschedulable", value |-> NoValue,
                              effect |-> "NoSchedule"]})

MCMetas == {Tainted, Bare}
MCMetasCordon == {Tainted, Cordoned}

MCFacts == [i \in Instances |-> [account |-> Account, zone |-> z1, type |-> m5]]

Pid(i) == [zone |-> z1, instance |-> i]
Object(n, v, i, label) ==
    [name |-> n, uid |-> v, rv |-> v, pid |-> Pid(i), label |-> label, grp |-> TRUE,
     meta |-> Tainted]

\* One Node, unlabelled, trusted or carrying a conflicting value.
OneNode == {[n \in Names |-> Object(n1, 1, i1, l)] : l \in Labels \union {Absent}}

\* A Node to label and other names, free or a Node's.
Beside(second, third) ==
    [n \in Names |-> CASE n = n1 -> Object(n1, 1, i1, Absent)
                     [] n = n2 -> second
                     [] OTHER -> third]

\* Beside one that is already trusted or a free name; the third is one too many.
Labelled == Object(n2, 2, i2, Trusted)
TwoNodes == {Beside(second, NoNode) : second \in {Labelled, NoNode}}
TooMany == Beside(Labelled, Object(n3, 3, i2, Absent))
ThreeNames == TwoNodes \union {TooMany}

Cloud(asgs, size) ==
    [status |-> "ACTIVE", asgs |-> asgs,
     scaling |-> [min |-> 0, desired |-> size, max |-> 2],
     member |-> [i \in Instances |-> {a1}],
     healthy |-> [i \in Instances |-> TRUE],
     ec2 |-> [i \in Instances |-> "running"]]

OneCloud == {Cloud({a1}, 1)}
TwoWanted == {Cloud({a1}, 2)}
=============================================================================
