-------------------------- MODULE IssuerDeclaration --------------------------
(***************************************************************************)
(* What WorkloadCapabilityIssuerBoundary (packages/platform-patterns/src/  *)
(* workload-capability-issuer-boundary.ts) accepts and declares for one    *)
(* capability issuer: its role, two layers of network rules, its Pod and   *)
(* the admission gate around it.                                           *)
(*                                                                         *)
(* Strings are model values; Wild stands for one with a "*", Blank for an  *)
(* empty one.  An ARN, a CIDR and a URL are the records of the parts the   *)
(* code looks at.                                                          *)
(***************************************************************************)
EXTENDS Integers, Sequences, FiniteSets, SequencesExt

CONSTANTS
    Hosts,      \* what there is on the network: [sg, cidr, namespace, pod]
    Dotted      \* arguments of a command in which a "c" is followed by a "."

Wild == "*"
Blank == ""

-----------------------------------------------------------------------------
(***************************************************************************)
(* The arguments                                                           *)
(***************************************************************************)
Exact(strings) == strings \cap {Wild, Blank} = {}

\* Of the service, the boundary's region and account, and one resource of the
\* kind.
ExactArn(a, arn, service, kind) ==
    /\ arn.service = service /\ arn.kind = kind /\ arn.resource # Wild
    /\ arn.region = a.region /\ arn.context = a.oidc

\* A name is a DNS label, a role name and the like by being exact.
ValidNames(a) ==
    /\ Exact({a.namespace, a.account, a.roleName, a.service, a.caller.namespace,
              a.clusterDns.namespace} \cup a.caller.pod \cup a.clusterDns.pod)
    /\ a.caller.pod # {} /\ a.clusterDns.pod # {}

ValidTier(a) ==
    /\ a.tier \in {"sandbox", "startup-hardened"}
    /\ a.tier = "startup-hardened" => a.bounded
    /\ ~a.iacRole

ValidWorkload(a) ==
    /\ a.image.pinned
    /\ a.command # <<>> /\ Blank \notin ToSet(a.command \o a.words)
    /\ a.port \in 1..65535
    /\ a.deadline \in 100..10000
    /\ a.ttl \in 1..60

\* Public signing keys with names of their own.
ValidKeys(keys) ==
    /\ Len(keys) \in 1..8
    /\ \A i \in DOMAIN keys :
          /\ keys[i].public /\ keys[i].strong /\ Exact({keys[i].kid})
          /\ \A j \in DOMAIN keys : keys[i].kid = keys[j].kid => i = j

Private(cidr) == cidr.net = "private"
ValidNetworks(a) ==
    /\ a.resolvers # {} /\ a.endpointCidrs # {}
    /\ \A c \in a.resolvers : Private(c) /\ c.prefix = 32
    /\ \A c \in a.endpointCidrs : Private(c)

\* The DynamoDB endpoint is the one the role's condition names.
ValidEndpoint(a) ==
    /\ Exact({a.endpointId})
    /\ a.endpointUrl = [scheme |-> "https", id |-> a.endpointId, region |-> a.region, rest |-> ""]

ValidPlacement(a) ==
    /\ Exact({a.placement.runtime, a.placement.pool, a.placement.taint, a.placement.scheduler})
    /\ a.placement.restricted
    /\ a.placement.effect = "NoSchedule"

ValidArns(a) ==
    /\ ExactArn(a, a.signingKey, "kms", "key")
    /\ ExactArn(a, a.table, "dynamodb", "table")
    /\ ExactArn(a, a.tlsSecret, "secretsmanager", "secret")
    /\ ExactArn(a, a.tlsKey, "kms", "key")

\* validateArgs throws for any other before anything is registered; the ARNs that
\* another resource provides are validated when they are known.
Valid(a) ==
    /\ ValidTier(a) /\ ValidNames(a) /\ a.audience = "sts"
    /\ ValidWorkload(a) /\ ValidKeys(a.jwks)
    /\ ValidNetworks(a) /\ ValidEndpoint(a) /\ ValidPlacement(a)
    /\ a.late \/ ValidArns(a)

-----------------------------------------------------------------------------
(***************************************************************************)
(* The role                                                                *)
(***************************************************************************)
Identity(a) == [namespace |-> a.namespace, account |-> a.account]

Cell(action, resource, condition) ==
    [action |-> action, resource |-> resource, condition |-> condition]

Authority(a) ==
    {Cell(x, a.signingKey, {}) : x \in {"Sign", "GetPublicKey"}}
    \cup {Cell(x, a.table, {<<"SourceVpce", a.endpointId>>}) : x \in {"GetItem", "DescribeTable"}}
    \cup {Cell("GetSecretValue", a.tlsSecret, {<<"VersionStage", "AWSCURRENT">>}),
          Cell("DescribeSecret", a.tlsSecret, {}),
          Cell("Decrypt", a.tlsKey, {<<"ViaService", a.region>>, <<"SecretARN", a.tlsSecret>>})}

-----------------------------------------------------------------------------
(***************************************************************************)
(* The network                                                             *)
(***************************************************************************)
IssuerSg == "issuer"

Protocols == {"tcp", "udp"}
Endpoints == {"sts", "kms", "dynamodb", "secretsManager"}

Rule(from, to, protocol, port) ==
    [from |-> from, to |-> to, protocol |-> protocol, port |-> port]

\* linkEndpoint and the others declare an egress rule of one group and the
\* ingress rule of the other for each.
LinkedRules(a) ==
    {Rule(IssuerSg, a.endpointSgs[e], "tcp", 443) : e \in Endpoints}
    \cup {Rule(a.caller.sg, IssuerSg, "tcp", a.port)}
    \cup {Rule(IssuerSg, a.clusterDns.sg, p, 53) : p \in Protocols}

ResolverRules(a) == {Rule(IssuerSg, c, p, 53) : c \in a.resolvers, p \in Protocols}

Selects(selector, host) == host.namespace = selector.namespace /\ selector.pod \subseteq host.pod

\* What the security groups let the issuer reach, and what the NetworkPolicy.
GroupsOpen(a, host, protocol, port) ==
    \/ Rule(IssuerSg, host.sg, protocol, port) \in LinkedRules(a)
    \/ \E c \in a.resolvers : c = host.cidr /\ Rule(IssuerSg, c, protocol, port) \in ResolverRules(a)

PolicyOpens(a, host, protocol, port) ==
    \/ host.cidr \in a.endpointCidrs /\ protocol = "tcp" /\ port = 443
    \/ (Selects(a.clusterDns, host) \/ host.cidr \in a.resolvers) /\ port = 53

GroupsAdmit(a, host, port) == Rule(host.sg, IssuerSg, "tcp", port) \in LinkedRules(a)
PolicyAdmits(a, host, port) == Selects(a.caller, host) /\ port = a.port

-----------------------------------------------------------------------------
(***************************************************************************)
(* The Pod and its gate                                                    *)
(***************************************************************************)
Labels == {"component", "boundary", "identity-kind", "name", "part-of"}

Configured(a) == <<a.placement.taint, a.placement.effect>>
NotReady == <<"not-ready", "NoExecute">>
Unreachable == <<"unreachable", "NoExecute">>
PodEni == <<"pod-eni", "NoSchedule">>

\* The environment, among others, of the release: the role's ARN, the keys and
\* the names of everything the issuer uses.
Environment(a, roleName) ==
    [role |-> roleName, port |-> a.port, deadline |-> a.deadline, ttl |-> a.ttl, key |-> a.signingKey,
     table |-> a.table, secret |-> a.tlsSecret, url |-> a.endpointUrl, jwks |-> a.jwks]

\* odd names what a Pod has that the declared one has not.
PodSpec(a, roleName) ==
    [account |-> a.account, labels |-> Labels, image |-> a.image, command |-> a.command,
     words |-> a.words, env |-> Environment(a, roleName), placement |-> a.placement,
     tolerations |-> {Configured(a)}, odd |-> {}]

\* What admission adds to a Pod before it validates it: the default tolerations,
\* and one for the network interface of a Pod with a security group.
Admitted(pod) ==
    {[pod EXCEPT !.tolerations = @ \cup more] :
        more \in {{}, {NotReady, Unreachable}, {PodEni}, {NotReady, Unreachable, PodEni}}}

Protects(a, pod) == pod.account = a.account \/ {"component", "boundary"} \subseteq pod.labels

\* The expression for the arguments names its container "c."; every "c." becomes
\* "object.spec.containers[0].", those in the arguments themselves as well.
Spliced(word) == <<word, "object.spec.containers[0].">>
Expected(words) == [i \in DOMAIN words |-> IF words[i] \in Dotted THEN Spliced(words[i]) ELSE <<words[i]>>]
Given(words) == [i \in DOMAIN words |-> <<words[i]>>]

ExactTolerations(a, ts) ==
    /\ Cardinality(ts) \in 1..4 /\ Configured(a) \in ts
    /\ Cardinality(ts) \notin {1, 2} => {NotReady, Unreachable} \subseteq ts
    /\ Cardinality(ts) \notin {1, 3} => PodEni \in ts
    /\ ts \subseteq {Configured(a), NotReady, Unreachable, PodEni}

ExactEnvelope(a, roleName, pod) ==
    /\ pod.account = a.account /\ pod.labels = Labels
    /\ pod.image = a.image /\ pod.command = a.command
    /\ Given(pod.words) = Expected(a.words)
    /\ pod.env = Environment(a, roleName)
    /\ pod.placement = a.placement /\ ExactTolerations(a, pod.tolerations)
    /\ pod.odd \cap {"sidecar", "probe", "mount"} = {}

Restricted(pod) == pod.odd \cap {"host", "init", "ephemeral", "privileged", "indirection"} = {}

ExactVolumes(pod) == pod.odd \cap {"secret", "volume"} = {}

Fits(a, roleName, pod) == ExactEnvelope(a, roleName, pod) /\ Restricted(pod) /\ ExactVolumes(pod)
=============================================================================
