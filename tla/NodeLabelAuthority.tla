-------------------------- MODULE NodeLabelAuthority --------------------------
(***************************************************************************)
(* The authority of trusted-node-label controllers over the Nodes of one   *)
(* cluster, from what EksTrustedNodeLabelReconciler declares to what the   *)
(* API server admits (packages/k8s-baseline/src:                           *)
(* trusted-node-label-reconciler.ts, trusted-node-label-controller-main.ts *)
(* and trusted-node-label-controller-eks-auth.ts).                         *)
(*                                                                         *)
(* The engine brings a program's components about one resource after the   *)
(* other, stops anywhere, and removes what a program has no longer.  A Pod *)
(* gets credentials of the roles that it is associated with and that trust *)
(* it, signs a token of a minute with them and sends a write, which the    *)
(* policies that are bound at its arrival review.  Other identities write  *)
(* Nodes, too, as such or through their status: that changes labels as     *)
(* well, and the policies do not match it.  What a controller asks for and *)
(* when is the matter of NodeLabelController; here a Pod with a token may  *)
(* ask for anything, as the image is the caller's.                         *)
(*                                                                         *)
(* One Node is enough, with a label per key; rest stands for everything    *)
(* else about it.  Accepted values are members of sets; sound says that an *)
(* argument without a set here (account, region, image, instance types,    *)
(* taints) has its shape.                                                  *)
(***************************************************************************)
EXTENDS Integers, FiniteSets

CONSTANTS
    AwsNames,         \* what the component takes for a cluster's name
    ClusterNames,     \* what the signer of tokens takes
    Keys,             \* label keys
    Protected,        \* those with a prefix of NodeRestriction
    Values,
    Programs,         \* sets of components' arguments
    Pods,             \* [namespace, account]
    Outside,          \* Pods that other teams associated with every role
    Life,             \* most a credential may live on, in minutes
    ManagersShown,    \* whether policies see who manages a field after the write
    Limit             \* bound on deployments and writes

None == "none"
NoToken == [pod |-> None, name |-> None, age |-> 0, life |-> 0]
NoNode == << >>

VARIABLES
    there,            \* resources, [kind, args]
    goal, op,         \* the program, and whether it is being brought about
    started,          \* the components whose controllers it brought about
    node, rest,       \* the Node's value for each key, and whatever else it has
    through,          \* the resource that was written last for that
    token,            \* of the write that is underway
    left

deployment == <<there, goal, op, started>>
vars == <<deployment, node, rest, through, token, left>>

-----------------------------------------------------------------------------
(***************************************************************************)
(* What is declared                                                        *)
(***************************************************************************)
WellFormed(a) ==
    /\ a.sound /\ a.key \in Protected
    /\ a.interval \in 15..900 /\ a.age \in 15..600 /\ a.skew \in 1..60 /\ a.nodes \in 1..500
    /\ a.cluster \in AwsNames

\* The component checks its arguments, the process its environment, which says
\* the same and where more is asked.
Valid(a) == WellFormed(a)
Starts(a) == WellFormed(a) /\ a.skew <= a.age

Pod(a) == [namespace |-> a.namespace, account |-> a.account]

\* The role with its policy, and the account and a ClusterRole with its binding,
\* are one thing each; alarms are left out.
Kinds == {"role", "accessEntry", "podIdentity", "reading", "patching", "policy",
          "policyBinding", "controller"}

Resource(kind, a) == [kind |-> kind, args |-> a]
Resources(program) == {Resource(k, a) : k \in Kinds, a \in program}

\* By reference or by dependsOn.
Needs(kind) ==
    CASE kind = "accessEntry" -> {"role"}
      [] kind = "podIdentity" -> {"role", "reading"}
      [] kind = "patching" -> {"accessEntry"}
      [] kind = "policyBinding" -> {"policy"}
      [] kind = "controller" -> Kinds \ {"controller", "policyBinding"}
      [] OTHER -> {}

\* What the API of a kind takes for one and the same.
Same(r, s) ==
    /\ r.kind = s.kind
    /\ CASE r.kind \in {"reading", "podIdentity"} -> Pod(r.args) = Pod(s.args)
         [] r.kind = "controller" ->
               r.args.name = s.args.name /\ r.args.namespace = s.args.namespace
         [] OTHER -> r.args.name = s.args.name

There(kind) == {r.args : r \in {x \in there : x.kind = kind}}

-----------------------------------------------------------------------------
(***************************************************************************)
(* What it allows                                                          *)
(***************************************************************************)
\* Of the namespace's Pods.
TrustsNamespace(a, pod) == a.namespace = pod.namespace
\* The tags of a session are the Pod's.
Trusts(a, pod) == Pod(a) = pod

Associated(a, pod) ==
    pod \in Outside \/ \E b \in There("podIdentity") : b.name = a.name /\ Pod(b) = pod

Roles(pod) == {a \in There("role") : Associated(a, pod) /\ Trusts(a, pod)}

Reads(pod) == pod \in {Pod(a) : a \in There("reading")}

\* A Node is written as such or through its status: what the ClusterRole lets patch
\* and what the policy matches of that.
WrittenAs == {"nodes", "status"}
Patchable == {"nodes"}
Matched == {"nodes"}

\* A role's session is somebody by its access entry, and patches by its group.
Patches(name, resource) ==
    /\ resource \in Patchable
    /\ \A kind \in {"accessEntry", "patching"} : \E a \in There(kind) : a.name = name

Bound == {a \in There("policy") : \E b \in There("policyBinding") : b.name = a.name}

\* The label comes or goes and nothing else changes.
ExactAddition(a, from, to) == from[a.key] = None /\ to = [from EXCEPT ![a.key] = a.value]
ExactRemoval(a, from, to) == from[a.key] = a.value /\ to = [from EXCEPT ![a.key] = None]

\* The rules of a's policy for a write that leaves the Node as to and the rest of
\* it as other; name is the writer's, if its role is a component's, who must leave
\* metadata.managedFields alone, too.
Admits(a, name, to, other) ==
    IF node = NoNode THEN to[a.key] = None
    ELSE IF name = a.name
         THEN /\ other = rest /\ ~ManagersShown
              /\ ExactAddition(a, node, to) \/ ExactRemoval(a, node, to)
         ELSE to[a.key] = node[a.key]

\* Those of some writes that every policy admits, or does not match.
Admitted(name, resource, writes) ==
    IF resource \in Matched
    THEN LET bound == Bound IN {w \in writes : \A a \in bound : Admits(a, name, w[1], w[2])}
    ELSE writes

-----------------------------------------------------------------------------
Labels == [Keys -> Values \cup {None}]
AllArgs == UNION Programs

TypeOK ==
    /\ there \subseteq Resources(AllArgs)
    /\ goal \in Programs \cup {{}} /\ op \in {"none", "up"} /\ started \subseteq goal
    /\ node \in Labels \cup {NoNode} /\ rest \in BOOLEAN /\ through \in WrittenAs
    /\ token = NoToken \/ (token.pod \in Pods /\ token.age \in 0..2 /\ token.life \in 1..Life)
    /\ left \in 0..Limit

Init ==
    /\ there = {} /\ goal = {} /\ op = "none" /\ started = {}
    /\ node = [k \in Keys |-> None] /\ rest = TRUE /\ through = "nodes"
    /\ token = NoToken /\ left = Limit

Spends == left > 0 /\ left' = left - 1

-----------------------------------------------------------------------------
(***************************************************************************)
(* Deployments                                                             *)
(***************************************************************************)
\* A program that a component refuses stops before it does anything.
Up(program) ==
    /\ op = "none" /\ Spends
    /\ \A a \in program : Valid(a)
    /\ goal' = program /\ op' = "up" /\ started' = {}
    /\ UNCHANGED <<there, node, rest, through, token>>

\* It replaces what the program has no longer; an API refuses a second of what the
\* program has.
Bring(r) ==
    /\ op = "up" /\ r \notin there
    /\ \A k \in Needs(r.kind) : Resource(k, r.args) \in there
    /\ LET replaced == {s \in there : Same(r, s)}
       IN  /\ \A s \in replaced : s.args \notin goal
           /\ there' = (there \ replaced) \cup {r}
    /\ started' = started \cup (IF r.kind = "controller" THEN {r.args} ELSE {})
    /\ UNCHANGED <<goal, op, node, rest, through, token, left>>

\* In the end, what others need last.
Remove(r) ==
    /\ op = "up" /\ r.args \notin goal
    /\ Resources(goal) \subseteq there
    /\ ~ \E s \in there : /\ s.args \notin goal /\ s.args.name = r.args.name
                        /\ r.kind \in Needs(s.kind)
    /\ there' = there \ {r}
    /\ UNCHANGED <<started, goal, op, node, rest, through, token, left>>

Finish ==
    /\ op = "up" /\ there = Resources(goal)
    /\ op' = "none"
    /\ UNCHANGED <<started, there, goal, node, rest, through, token, left>>

Interrupt ==
    /\ op = "up" /\ Spends
    /\ op' = "none"
    /\ UNCHANGED <<started, there, goal, node, rest, through, token>>

\* A minute of the token passes.
Tick ==
    /\ token # NoToken /\ token.age < 2
    /\ token' = [token EXCEPT !.age = @ + 1]
    /\ UNCHANGED <<deployment, node, rest, through, left>>

-----------------------------------------------------------------------------
(***************************************************************************)
(* Writes                                                                  *)
(***************************************************************************)
\* validateCredentials: they live as long as the token, and not for too long.
Lasting(life) == life >= 1 /\ life <= Life

\* createEksPodIdentityPatchTokenProvider, of a Pod that runs the controller or
\* another with the same endpoint.
Sign(pod) ==
    /\ token = NoToken /\ Spends
    /\ \E a \in Roles(pod), life \in 0..(Life + 1) :
          /\ a.cluster \in ClusterNames /\ Lasting(life)
          /\ token' = [pod |-> pod, name |-> a.name, age |-> 0, life |-> life]
    /\ UNCHANGED <<deployment, node, rest, through>>

Authentic == token.age <= 1 /\ token.age <= token.life

Send ==
    /\ token # NoToken
    /\ token' = NoToken
    /\ \/ /\ node # NoNode /\ Authentic
          /\ \E resource \in WrittenAs :
                /\ Patches(token.name, resource) /\ through' = resource
                /\ \E w \in Admitted(token.name, resource, Labels \X BOOLEAN) :
                      node' = w[1] /\ rest' = w[2]
       \/ UNCHANGED <<node, rest, through>>
    /\ UNCHANGED <<deployment, left>>

\* Another identity changes the Node's labels, creates it or deletes it.
OtherWrite ==
    /\ Spends
    /\ \/ \E resource \in WrittenAs :
             /\ node = NoNode => resource = "nodes"
             /\ through' = resource
             /\ \E w \in Admitted(None, resource, Labels \X {rest}) : node' = w[1]
       \/ node' = NoNode /\ UNCHANGED through
    /\ UNCHANGED <<deployment, rest, token>>

Next ==
    \/ \E program \in Programs \cup {{}} : Up(program)
    \/ op = "up" /\ \E r \in Resources(goal) : Bring(r)
    \/ op = "up" /\ \E r \in there : Remove(r)
    \/ Finish \/ Interrupt \/ Tick \/ Send \/ OtherWrite
    \/ \E pod \in Pods : Sign(pod)

Spec == Init /\ [][Next]_vars

-----------------------------------------------------------------------------
(***************************************************************************)
(* Properties                                                              *)
(***************************************************************************)
Kept(key) == node # NoNode /\ node' # NoNode => node'[key] = node[key]
Sent(a) == node # NoNode /\ token # NoToken /\ token' = NoToken /\ token.name = a.name
AccountsOf(a) == {Pod(b) : b \in {x \in AllArgs : x.name = a.name}}

\* While a component's policy is bound, whatever else is missing, half way or on
\* its way out: no Node comes with its label; a write to the Node as such moves the
\* label only if it is a Pod's of its own account in its own namespace, only between
\* absent and its value, and nothing else with it.  A write through the Node's
\* status by somebody else may move it, which no policy here prevents, although
\* docs/components/eks-trusted-node-label-reconciler.md:78-81 has the policy keep
\* the label "unchanged for every other identity"; a controller cannot write there.
LabelMovesByItsPods ==
    [][\A a \in Bound :
          /\ node = NoNode /\ node' # NoNode => node'[a.key] = None
          /\ ~Kept(a.key) => \/ Sent(a) /\ token.pod \in AccountsOf(a)
                             \/ through' = "status" /\ UNCHANGED token
          /\ Sent(a) => /\ {node[a.key], node'[a.key]} = {None, a.value}
                        /\ through' = "nodes" /\ rest' = rest
                        /\ \A k \in Keys \ {a.key} : Kept(k)]_<<node, rest>>

\* A component can do what it is for if its process starts, its cluster has a name
\* that tokens can be signed for, and it is the only one to protect its label.
Workable(a) ==
    /\ Starts(a) /\ a.cluster \in ClusterNames
    /\ \A b \in goal : b.key = a.key => a = b

\* A deployment that has come to its end leaves every controller able to read
\* and to move its label, as long as a policy does not see the API server's own
\* record of who manages the label.
ControllersCanWork ==
    op = "none" /\ there = Resources(goal) =>
        \A a \in {x \in goal : Workable(x)} :
            /\ Reads(Pod(a)) /\ a \in Roles(Pod(a)) /\ Patches(a.name, "nodes")
            /\ ~ManagersShown /\ node # NoNode /\ node[a.key] \in {None, a.value} =>
                  \A to \in {[node EXCEPT ![a.key] = v] : v \in {None, a.value} \ {node[a.key]}} :
                      Admitted(a.name, "nodes", {<<to, rest>>}) # {}

\* A controller finds its authority in place when a deployment brings it about, and
\* keeps it until the next one begins, whatever stops in between.
ControllersStartAuthorised ==
    \A a \in started : Reads(Pod(a)) /\ a \in Roles(Pod(a)) /\ Patches(a.name, "nodes")

\* A token is good for its minute, unless the deployment takes its authority.
TokensLastTheirMinute ==
    token # NoToken /\ token.age <= 1 => Authentic

AuthorityIsExact ==
    /\ LabelMovesByItsPods
    /\ [](ControllersCanWork /\ ControllersStartAuthorised /\ TokensLastTheirMinute)
=============================================================================
