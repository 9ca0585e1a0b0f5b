----------------------------- MODULE EksEndpoint -----------------------------
(***************************************************************************)
(* Who reaches the API endpoint of an EKS cluster: EksClusterFoundation    *)
(* and EksAdminAccessPath (packages/k8s-baseline/src) accept arguments and *)
(* declare the cluster and the ingress rules of its security group, the    *)
(* EKS cluster pack (packages/policies/src/k8s/eks-cluster-pack.ts)        *)
(* reviews the cluster, and the engine brings the resources about one      *)
(* after the other, may stop or fail anywhere, and may be asked for        *)
(* another program after that.                                             *)
(*                                                                         *)
(* A program has a cluster, of the foundation or not, at most one path,    *)
(* and suppressions.  A rule is a resource by its place in one of the      *)
(* path's three lists; in AWS it is its source, once in a security group.  *)
(***************************************************************************)
EXTENDS CidrCoverage, Suppressions, FiniteSets

CONSTANTS
    Programs,         \* a set of [by, cluster, paths, suppressions]
    Horizon,          \* bound on the clock
    Limit             \* bound on deployments and interruptions

None == "none"
ClusterUrn == <<"cluster", 1>>

VARIABLES
    cluster,          \* as it is, and whether its last review was silenced
    known,            \* the rules the engine knows of: place |-> source
    replaced,         \* sources of replaced rules that are still to be deleted
    ingress,          \* the sources the security group admits
    goal, op, outcome,
    registered,       \* what this deployment has brought about so far
    constant,         \* rules that every program since the last full deployment has
    clock, left

vars == <<cluster, known, replaced, ingress, goal, op, outcome, registered, constant, clock, left>>

NoCluster == [public |-> FALSE, cidrs |-> <<>>, audit |-> FALSE, tagged |-> FALSE,
              excused |-> FALSE, exists |-> FALSE]

-----------------------------------------------------------------------------
(***************************************************************************)
(* EksClusterFoundation                                                    *)
(***************************************************************************)
\* The endpoint is [mode, cidrs]; an adopted cluster is only expected to have one.
ValidFoundation(c) ==
    /\ c.mode \in {"private", "restricted-public"}
    /\ ~c.adopted =>
          /\ c.mode = "private" => c.cidrs = <<>>
          /\ c.mode = "restricted-public" => c.cidrs # <<>> /\ Coverage(c.cidrs) = "narrow"
          /\ c.audit

OfFoundation(c) ==
    LET public == c.mode = "restricted-public"
    IN  [public |-> public, cidrs |-> IF public THEN c.cidrs ELSE <<>>,
         audit |-> c.audit, tagged |-> TRUE]

-----------------------------------------------------------------------------
(***************************************************************************)
(* EksAdminAccessPath                                                      *)
(***************************************************************************)
Operators(a) == <<a.cidrBlocks, a.ipv6CidrBlocks, a.securityGroups>>
HasOperators(a) == \E i \in 1..3 : Operators(a)[i] # <<>>

\* normalizeArgs.
ValidPath(a) ==
    /\ a.mode \in {"private", "restricted-public", "public-temporary"}
    /\ (a.mode = "private") = (a.cidrs = <<>>)
    /\ Coverage(a.cidrs) \in {"narrow"} \cup {w \in {"internet"} : a.mode = "public-temporary"}
    /\ IF a.mode = "public-temporary" THEN a.exception = "reason and date" ELSE a.exception = None
    /\ Coverage(a.cidrBlocks) = "narrow" /\ Coverage(a.ipv6CidrBlocks) = "narrow"
    /\ a.mode = "private" => HasOperators(a)
    /\ HasOperators(a) /\ a.createRules => a.group

\* Rules of both families under one name.
KindsAlike == <<"cidr", "cidr", "source-sg">>

Kinds == <<"cidr", "ipv6", "source-sg">>
Rules(a) ==
    IF a.createRules /\ a.group
    THEN UNION {{<<<<Kinds[k], i>>, <<Kinds[k], Operators(a)[k][i]>>>> :
                    i \in DOMAIN Operators(a)[k]} : k \in 1..3}
    ELSE {}

OfPath(a) == [public |-> a.mode # "private", cidrs |-> a.cidrs, audit |-> TRUE, tagged |-> FALSE]

-----------------------------------------------------------------------------
(***************************************************************************)
(* What a program declares                                                 *)
(***************************************************************************)
Accepted(p) ==
    /\ p.by = "foundation" => ValidFoundation(p.cluster)
    /\ \A a \in p.paths : ValidPath(a)

RulesOf(p) == UNION {Rules(a) : a \in p.paths}
HasCluster(p) == ~(p.by = "foundation" /\ p.cluster.adopted)
ClusterOf(p) ==
    CASE p.by = "foundation" -> OfFoundation(p.cluster)
      [] p.by = "path" -> OfPath(CHOOSE a \in p.paths : TRUE)
      [] p.by = "itself" -> p.cluster

\* The pack: HULUMI-EKS-CL-1, CL-2 and FND-1.
Silenced(rule, p) == Suppressed(rule, "cluster", p.suppressions, clock)
CL1(c) == c.public => c.cidrs # <<>> /\ Coverage(c.cidrs) = "narrow"
Reviewed(p) ==
    LET c == ClusterOf(p)
    IN  /\ Silenced("CL-1", p) \/ CL1(c)
        /\ Silenced("CL-2", p) \/ c.audit
        /\ Silenced("FND-1", p) \/ (c.tagged => c.audit)

-----------------------------------------------------------------------------
(***************************************************************************)
(* Deployments                                                             *)
(***************************************************************************)
TypeOK ==
    /\ cluster.exists \in BOOLEAN /\ cluster.excused \in BOOLEAN
    /\ \A r, s \in known : r[1] = s[1] => r = s
    /\ {r[2] : r \in known} \cup replaced \subseteq ingress
    /\ Cardinality(goal) <= 1 /\ op \in {"none", "up"}
    /\ outcome \in {"none", "refused", "failed", "stopped", "ok"}
    /\ clock \in 0..Horizon /\ left \in 0..Limit

Init ==
    /\ cluster = NoCluster /\ known = {} /\ replaced = {} /\ ingress = {}
    /\ goal = {} /\ op = "none" /\ outcome = "none" /\ registered = {} /\ constant = {}
    /\ clock = 0 /\ left = Limit

Goal == CHOOSE p \in goal : TRUE
SourcesOf(p) == {r[2] : r \in RulesOf(p)}

\* The programs this is about: the rules have the places of one path.
OnePath == \A p \in Programs : \A a, b \in p.paths : a = b

\* The arguments are all known at a preview.  A deployment begins with what an
\* earlier one has replaced and not deleted.
Up == op = "none" /\ left > 0 /\ left' = left - 1 /\ \E p \in Programs :
        /\ IF Accepted(p) /\ (HasCluster(p) => Reviewed(p))
           THEN /\ goal' = {p} /\ op' = "up" /\ registered' = {}
                /\ ingress' = ingress \ replaced /\ replaced' = {}
                /\ constant' = constant \cap RulesOf(p)
                /\ UNCHANGED outcome
           ELSE outcome' = "refused" /\ UNCHANGED <<goal, op, registered, ingress, replaced, constant>>
        /\ UNCHANGED <<cluster, known, clock>>

Fails == op' = "none" /\ outcome' = "failed" /\ UNCHANGED registered
Brings(urn) == registered' = registered \cup {urn} /\ UNCHANGED <<op, outcome>>

\* A list that AWS cannot read is refused by it.
RegisterCluster ==
    /\ op = "up" /\ HasCluster(Goal) /\ ClusterUrn \notin registered
    /\ IF Reviewed(Goal) /\ Coverage(ClusterOf(Goal).cidrs) # "malformed"
       THEN /\ LET c == ClusterOf(Goal)
               IN  cluster' = [public |-> c.public, cidrs |-> c.cidrs, audit |-> c.audit,
                               tagged |-> c.tagged, excused |-> Silenced("CL-1", Goal),
                               exists |-> TRUE]
            /\ Brings(ClusterUrn)
       ELSE Fails /\ UNCHANGED cluster
    /\ UNCHANGED <<known, replaced, ingress, goal, constant, clock, left>>

\* AWS admits a source once, and each kind of rule has addresses of its own family.
Refused(source) ==
    \/ source \in ingress
    \/ source[1] = "cidr" /\ source[2].family = "ipv6"
    \/ source[1] = "ipv6" /\ source[2].family = "ipv4"

\* The security group is the cluster's.  A rule whose source changes is replaced,
\* and the old one deleted at the end.
RegisterRule(rule) ==
    /\ op = "up" /\ rule[1] \notin registered
    /\ HasCluster(Goal) => ClusterUrn \in registered
    /\ IF rule \in known THEN Brings(rule[1]) /\ UNCHANGED <<known, replaced, ingress>>
       ELSE IF Refused(rule[2]) THEN Fails /\ UNCHANGED <<known, replaced, ingress>>
       ELSE LET old == {r \in known : r[1] = rule[1]}
            IN  /\ Brings(rule[1])
                /\ known' = (known \ old) \cup {rule}
                /\ replaced' = replaced \cup {r[2] : r \in old}
                /\ ingress' = ingress \cup {rule[2]}
    /\ UNCHANGED <<cluster, goal, constant, clock, left>>

Finish ==
    /\ op = "up"
    /\ registered = {r[1] : r \in RulesOf(Goal)} \cup {u \in {ClusterUrn} : HasCluster(Goal)}
    /\ known' = RulesOf(Goal)
    /\ ingress' = ingress \ (replaced \cup {r[2] : r \in known \ RulesOf(Goal)})
    /\ replaced' = {}
    /\ cluster' = IF HasCluster(Goal) THEN cluster ELSE NoCluster
    /\ constant' = RulesOf(Goal)
    /\ op' = "none" /\ outcome' = "ok"
    /\ UNCHANGED <<goal, registered, clock, left>>

Interrupt ==
    /\ op = "up" /\ left > 0 /\ left' = left - 1
    /\ op' = "none" /\ outcome' = "stopped"
    /\ UNCHANGED <<cluster, known, replaced, ingress, goal, registered, constant, clock>>

Tick ==
    /\ clock < Horizon /\ clock' = clock + 1
    /\ UNCHANGED <<cluster, known, replaced, ingress, goal, op, outcome, registered, constant, left>>

Next ==
    \/ Up \/ RegisterCluster \/ Finish \/ Interrupt \/ Tick
    \/ op = "up" /\ \E r \in RulesOf(Goal) : RegisterRule(r)

Spec == Init /\ [][Next]_vars

-----------------------------------------------------------------------------
Ended == op = "none" /\ outcome = "ok"

\* What blocks cover, by their addresses; a public endpoint without a list is
\* everyone's.
Everyone(blocks) ==
    \E f \in Families : \A address \in 0..LastAddress(f) :
        \E c \in blocks : c.family = f /\ address \in Start(c)..End(c)

\* However the list is split, ordered or repeated, an endpoint is open to everyone
\* only after a review that a suppression silenced, and never that of a foundation
\* (HULUMI-EKS-CL-1; docs/components/eks-admin-access-path.md).
PublicEndpointsAreExcused ==
    cluster.public /\ (cluster.cidrs = <<>> \/ Everyone(ToSet(cluster.cidrs))) =>
        cluster.excused /\ ~cluster.tagged

\* After a deployment that ends well the security group admits the sources of the
\* program, whatever stopped or failed before.
IngressIsDeclared == Ended => ingress = SourcesOf(Goal)

\* Nor do they make up everyone (docs/components/eks-admin-access-path.md:61).
IngressIsNotEveryone ==
    Ended => ~\E k \in {"cidr", "ipv6"} :
                Everyone({s[2] : s \in {x \in ingress : x[1] = k}})

\* A path whose endpoint is private and that keeps the rules has somebody come in.
OperatorsComeIn ==
    Ended => \A a \in Goal.paths : a.mode = "private" /\ a.createRules => ingress # {}

\* A source that kept its place in every program since the last full deployment is
\* admitted in every state, whatever fails or stops in between.  (One that moves to
\* another place is refused as a duplicate, and by a retry first taken away.)
PlacedSourcesStay == {r[2] : r \in constant} \subseteq ingress

EndpointsAreReachedAsDeclared ==
    /\ PublicEndpointsAreExcused /\ OperatorsComeIn /\ PlacedSourcesStay
    /\ IngressIsDeclared /\ IngressIsNotEveryone
=============================================================================
