---------------------------- MODULE IssuerRollout ----------------------------
(***************************************************************************)
(* A capability issuer's boundary on its way through deployments: Pulumi   *)
(* brings its resources about in any order their dependencies leave, may   *)
(* stop anywhere, moves the boundary to another namespace or account, or   *)
(* removes it; meanwhile people create and change Pods in the same         *)
(* namespaces, and somebody may put an activation policy in the place of   *)
(* the gate.                                                               *)
(*                                                                         *)
(* Only the boundary creates a ServiceAccount of the issuer's name, and it *)
(* comes only to where nothing runs under that name.  A role that a rename *)
(* leaves behind until the end of a deployment is not followed.  API       *)
(* servers use a changed policy at once.                                   *)
(***************************************************************************)
EXTENDS IssuerDeclaration

CONSTANTS
    Args,         \* the arguments of each deployment somebody may ask for
    MaxPods,
    Limit         \* bound on deployments, interruptions and activations

Boundaries == DOMAIN Args
None == "none"

VARIABLES
    live,         \* the deployment each resource was last brought about by
    op, goal,     \* the deployment under way
    accounts,     \* the ServiceAccounts, those to be deleted last as well
    deployments,  \* the Deployments, likewise
    active,       \* the gate lets fitting Pods in
    activated,    \* the deployments whose envelope was ever activated
    pods,
    left

vars == <<live, op, goal, accounts, deployments, active, activated, pods, left>>

\* A ServiceAccount that does not wait for the binding.
AfterRoleOnly ==
    [role |-> {}, authority |-> {"role"}, network |-> {}, gate |-> {"role"},
     binding |-> {"gate", "role"}, account |-> {"role"},
     deployment |-> {"binding", "gate", "role"}]

\* Each with what it is created after: by dependsOn, or because it mentions the
\* other's identifiers, directly or through others.  The gate pins the ARN of the
\* role.  (network stands for the security group, its rules and the NetworkPolicy.)
After ==
    [role |-> {}, authority |-> {"role"}, network |-> {}, gate |-> {"role"},
     binding |-> {"gate", "role"}, account |-> {"binding", "gate", "role"},
     deployment |-> {"binding", "gate", "role"}]
Resources == DOMAIN After

TypeOK ==
    /\ live \in [Resources -> Boundaries \cup {None}] /\ goal \in Boundaries \cup {None}
    /\ op \in {"none", "up", "cleanup", "destroy"}
    /\ accounts \subseteq {Identity(Args[b]) : b \in Boundaries}
    /\ deployments \cup activated \subseteq Boundaries
    /\ active => live["gate"] \in activated
    /\ Cardinality(pods) <= MaxPods /\ left \in 0..Limit

Init ==
    /\ live = [r \in Resources |-> None]
    /\ op = "none" /\ goal = None
    /\ accounts = {} /\ deployments = {} /\ pods = {} /\ activated = {}
    /\ active = FALSE
    /\ left = Limit

-----------------------------------------------------------------------------
(***************************************************************************)
(* Deployments                                                             *)
(***************************************************************************)
Spends == left > 0 /\ left' = left - 1
Cluster == <<accounts, deployments, active, activated, pods>>

\* The Pod that each deployment declares, and what it is to the cluster.
Envelope(b) == PodSpec(Args[b], Args[b].roleName)
IdentityOf(p) == [namespace |-> p.namespace, account |-> p.pod.account]

Stands(b) ==
    \A r \in {"gate", "binding"} : live[r] # None /\ Identity(Args[live[r]]) = Identity(Args[b])
Fresh(b) ==
    /\ Identity(Args[b]) \notin accounts
    /\ \A p \in pods : IdentityOf(p) # Identity(Args[b])

Up == \E b \in Boundaries :
    /\ op = "none" /\ Valid(Args[b])
    /\ \E r \in Resources : live[r] # b
    /\ Stands(b) \/ Fresh(b)
    /\ op' = "up" /\ goal' = b
    /\ Spends
    /\ UNCHANGED <<live, Cluster>>

\* The resources that mention an ARN are not brought about with a bad one.
NeedArns == {"authority", "gate", "deployment"}

\* The gate is written as declared, without what activated it, if it changes.
SameGate(b) == live["gate"] # None /\ Envelope(live["gate"]) = Envelope(b)

\* The namespace and the name of an object are for ever: another is created, and
\* the first deleted at the end.
Apply(r) ==
    /\ op = "up" /\ live[r] # goal
    /\ \A d \in After[r] : live[d] = goal
    /\ r \in NeedArns => ValidArns(Args[goal])
    /\ live' = [live EXCEPT ![r] = goal]
    /\ active' = (active /\ (r = "gate" => SameGate(goal)))
    /\ activated' = IF active' THEN activated \cup {live'["gate"]} ELSE activated
    /\ accounts' = IF r = "account" THEN accounts \cup {Identity(Args[goal])} ELSE accounts
    /\ deployments' =
          IF r = "deployment"
          THEN {d \in deployments : Args[d].namespace # Args[goal].namespace} \cup {goal}
          ELSE deployments
    /\ UNCHANGED <<op, goal, pods, left>>

Applied ==
    /\ op = "up" /\ \A r \in Resources : live[r] = goal
    /\ op' = "cleanup"
    /\ UNCHANGED <<live, goal, Cluster, left>>

DeleteReplaced ==
    /\ op = "cleanup"
    /\ accounts' = {Identity(Args[goal])} /\ deployments' = {goal}
    /\ op' = "none"
    /\ UNCHANGED <<live, goal, active, activated, pods, left>>

Destroy ==
    /\ op = "none" /\ \E r \in Resources : live[r] # None
    /\ op' = "destroy" /\ goal' = None
    /\ Spends
    /\ UNCHANGED <<live, Cluster>>

\* What depends on a resource goes before it.
Delete(r) ==
    /\ op = "destroy" /\ live[r] # None
    /\ \A s \in Resources : r \in After[s] => live[s] = None
    /\ live' = [live EXCEPT ![r] = None]
    /\ accounts' = IF r = "account" THEN {} ELSE accounts
    /\ deployments' = IF r = "deployment" THEN {} ELSE deployments
    /\ active' = (active /\ r # "gate")
    /\ UNCHANGED <<op, goal, activated, pods, left>>

Ends ==
    /\ op = "destroy" /\ \A r \in Resources : live[r] = None
    /\ op' = "none"
    /\ UNCHANGED <<live, goal, Cluster, left>>

\* Whatever ends a deployment early.
Interrupt ==
    /\ op \in {"up", "cleanup", "destroy"}
    /\ op' = "none"
    /\ Spends
    /\ UNCHANGED <<live, goal, Cluster>>

-----------------------------------------------------------------------------
(***************************************************************************)
(* The cluster                                                             *)
(***************************************************************************)
\* An activation policy replaces the rule that denies every protected Pod.
Activate ==
    /\ op = "none" /\ live["gate"] # None /\ ~active
    /\ active' = TRUE /\ activated' = activated \cup {live["gate"]}
    /\ Spends
    /\ UNCHANGED <<live, op, goal, accounts, deployments, pods>>

\* The binding names one namespace; a Pod passes every validation of the policy.
Covers(namespace) == live["binding"] # None /\ Args[live["binding"]].namespace = namespace

Passes(namespace, pod) ==
    Covers(namespace) =>
        LET g == Args[live["gate"]]
        IN  Protects(g, pod) => active /\ Fits(g, g.roleName, pod)

Runs(namespace, pod) == [namespace |-> namespace, pod |-> pod]

Create(namespace, declared) ==
    /\ Cardinality(pods) < MaxPods
    /\ [namespace |-> namespace, account |-> declared.account] \in accounts
    /\ \E pod \in Admitted(declared) :
          Passes(namespace, pod) /\ pods' = pods \cup {Runs(namespace, pod)}
    /\ UNCHANGED <<live, op, goal, accounts, deployments, active, activated, left>>

\* Somebody scales a Deployment up.
OwnPod == \E d \in deployments : Create(Args[d].namespace, Envelope(d))

\* Anybody in the namespace declares a Pod more or less like it.
ForeignPod ==
    \E namespace \in {Args[b].namespace : b \in Boundaries} :
    \E envelope \in {Envelope(b) : b \in Boundaries}, odd \in {{}, {"sidecar"}} :
        Create(namespace, [envelope EXCEPT !.odd = odd])

\* Labels are dropped, or a container to debug with is added.
ChangePod == \E p \in pods :
    \E new \in {[p.pod EXCEPT !.labels = {}], [p.pod EXCEPT !.odd = @ \cup {"ephemeral"}]} :
        /\ new # p.pod /\ Passes(p.namespace, new)
        /\ pods' = (pods \ {p}) \cup {Runs(p.namespace, new)}
        /\ UNCHANGED <<live, op, goal, accounts, deployments, active, activated, left>>

Next ==
    \/ Up \/ Applied \/ DeleteReplaced \/ Destroy \/ Ends \/ Interrupt
    \/ \E r \in Resources : Apply(r) \/ Delete(r)
    \/ Activate \/ OwnPod \/ ForeignPod \/ ChangePod

Spec == Init /\ [][Next]_vars

-----------------------------------------------------------------------------
Holds(p) == live["role"] # None /\ IdentityOf(p) = Identity(Args[live["role"]])

\* In whatever order a deployment, a move, an interruption, a removal and a new
\* deployment happen: where the binding stands, a Pod that may assume the role
\* runs an envelope that was activated, and nothing else (the gate, the binding
\* and the ServiceAccount of WorkloadCapabilityIssuerBoundary).
IdentityIsGuarded ==
    \A p \in pods : Holds(p) /\ Covers(p.namespace) =>
        \E b \in activated : p.pod \in Admitted(Envelope(b))

\* The two layers of rules together open what the issuer's authority needs, and
\* nothing else: neither layer is as narrow by itself (linkEndpoint, the rules
\* and the NetworkPolicy).
NameServer(a, host) ==
    \/ host.cidr \in a.resolvers
    \/ Selects(a.clusterDns, host) /\ host.sg = a.clusterDns.sg
Endpoint(a, host) ==
    host.cidr \in a.endpointCidrs /\ \E e \in Endpoints : a.endpointSgs[e] = host.sg

Serves(a, host) ==
    (IF NameServer(a, host) THEN Protocols \X {53} ELSE {})
    \cup (IF Endpoint(a, host) THEN {<<"tcp", 443>>} ELSE {})

Opens(a, host, protocol, port) ==
    GroupsOpen(a, host, protocol, port) /\ PolicyOpens(a, host, protocol, port)

NetworkFitsAuthority ==
    op = "cleanup" => LET a == Args[goal] IN
        /\ \A host \in Hosts, port \in {53, 443, a.port} :
              /\ \A p \in Protocols : Opens(a, host, p, port) <=> <<p, port>> \in Serves(a, host)
              /\ GroupsAdmit(a, host, port) /\ PolicyAdmits(a, host, port)
                    <=> host.sg = a.caller.sg /\ Selects(a.caller, host) /\ port = a.port
        /\ \A service \in {"sts"} \cup {c.resource.service : c \in Authority(a)} :
              \E host \in Hosts : host.service = service /\ Opens(a, host, "tcp", 443)

\* The gate refuses the Pod of the Deployment it was declared with for being inert
\* and for nothing else: it binds the command, the arguments and the rest as they
\* are declared (exactEnvelope).
OwnPodsFit ==
    \A d \in deployments : live["gate"] = d =>
        \A pod \in Admitted(Envelope(d)) : Fits(Args[d], Args[d].roleName, pod)

\* An issuer is closed: by its gate, by its network, and to no Pod of its own.
IssuersAreClosed == IdentityIsGuarded /\ NetworkFitsAuthority /\ OwnPodsFit
=============================================================================
