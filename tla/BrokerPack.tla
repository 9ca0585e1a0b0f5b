----------------------------- MODULE BrokerPack -----------------------------
(***************************************************************************)
(* brokered-postgres-boundary-pack.ts: what the mandatory policy pack      *)
(* reports of a stack s and the contract c that the boundary publishes     *)
(* (its arguments).  A report is the set of the checks that failed.        *)
(* Formats that validateArgs has checked are not checked here again, and   *)
(* the runtime's coarse egress check (line 1327) is left out: the exact    *)
(* one, EgressOutside, implies it.                                         *)
(***************************************************************************)
EXTENDS BrokerBoundary, FiniteSets, Sequences

One(S) == Cardinality(S) = 1
Of(S, k) == {r \in S : r.kind = k}
Failed(checks) == {n \in DOMAIN checks : ~checks[n]}

-----------------------------------------------------------------------------
(***************************************************************************)
(* What is checked before any ARN of a role is read                        *)
(***************************************************************************)
NoStandalonePod(s, c) ==
    ~\E p \in s.pods : p.namespace = c.namespace /\ p.account \in {x.name : x \in s.accounts}

OneArnContext(c) == c.master[1] = c.account /\ c.key[1] = c.account

\* On a first preview both ARNs of a secret are unknown, and only their
\* correlation is put off.
SecretsExact(s, c, fresh) ==
    /\ Cardinality(s.secureSecrets) = 2 /\ Cardinality(s.secrets) = 2
    /\ \A x, y \in s.secrets : x.parent = y.parent => x = y
    /\ \A n \in AppSecretNames(c) : \E x \in s.secrets :
          /\ {y \in s.secrets : y.name = n} = {x}
          /\ x.kms = c.key
          /\ \E p \in s.secureSecrets :
                /\ x.parent = p.name
                /\ fresh \/ (p.arn = x.arn /\ x.arn = Arn(c.account, n))

Paired(s, k) == One(Of(s.roles, k)) /\ One(Of(s.accounts, k))

\* On a first preview a trust policy may itself be unknown: then it is neither
\* exact nor a violation.
ExactTrust(s, c, k, fresh) ==
    Paired(s, k) => \A r \in Of(s.roles, k), x \in Of(s.accounts, k) :
        (fresh => r.known) => r.trust = {[federated |-> c.oidc, aud |-> "sts",
                               sub |-> <<c.namespace, x.name>>]}

Early(s, c, fresh) ==
    Failed([pods |-> NoStandalonePod(s, c), arns |-> OneArnContext(c),
            secrets |-> SecretsExact(s, c, fresh),
            trust |-> \A k \in Kinds : ExactTrust(s, c, k, fresh)])

-----------------------------------------------------------------------------
(***************************************************************************)
(* Identities and their authority                                          *)
(***************************************************************************)
AccountBound(s, c, k) ==
    \A r \in Of(s.roles, k), x \in Of(s.accounts, k) :
        /\ x.namespace = c.namespace /\ ~x.automount /\ x.regionalSts
        /\ r.arn = Arn(c.account, r.name) /\ x.role = r.arn

Unmanaged(s, k) ==
    \A r \in Of(s.roles, k) : ~r.managed /\ \A t \in s.attachments : t.role # r.name

PoliciesFor(s, k) == {p \in s.policies : \E r \in Of(s.roles, k) : r.name = p.role}

\* Statements, told apart by the policy that holds them.
StatementsFor(s, k) ==
    UNION {{[policy |-> p.name, is |-> t] : t \in p.statements} : p \in PoliciesFor(s, k)}
AllowFor(s, k) == {t \in StatementsFor(s, k) : t.is.effect = "Allow"}

AllowedByKind ==
    LET reads == {"GetSecretValue", "DescribeSecret", "Decrypt"}
    IN  [runtime |-> {}, migrator |-> reads,
         broker |-> reads \cup {"PutItem", "GetItem", "DescribeTable"},
         rotation |-> reads \cup {"PutSecretValue", "UpdateSecretVersionStage", "GenerateDataKey"}]

Everything == Arn("*", "*")

InlineSafe(s, k) ==
    /\ \A t \in StatementsFor(s, k) :
          /\ ~t.is.except
          /\ t.is.effect = "Allow" =>
                /\ t.is.actions # {} /\ t.is.actions \subseteq AllowedByKind[k]
                /\ t.is.resources # {} /\ Everything \notin t.is.resources
    /\ k = "runtime" => PoliciesFor(s, k) = {}

Identity(s, c, k) ==
    Failed([identities |-> Paired(s, k),
            iacRole |-> Paired(s, k) => \A r \in Of(s.roles, k) : ~r.iacRole,
            account |-> Paired(s, k) => AccountBound(s, c, k),
            managed |-> Paired(s, k) => Unmanaged(s, k),
            inline |-> Paired(s, k) => InlineSafe(s, k)])

\* The broker reads no master secret, and secrets by one statement only.
BrokerReads(s, c) ==
    LET gets == {t \in AllowFor(s, "broker") : "GetSecretValue" \in t.is.actions}
    IN  /\ \A t \in AllowFor(s, "broker") : {c.master, Everything} \cap t.is.resources = {}
        /\ One(gets) /\ \A t \in gets : CurrentStage \subseteq t.is.condition

NoMasterWrites(s, c) ==
    ~\E t \in AllowFor(s, "rotation") :
        /\ {"PutSecretValue", "UpdateSecretVersionStage"} \cap t.is.actions # {}
        /\ c.master \in t.is.resources

ExactAuthority(s, c, k) ==
    LET allow == AllowFor(s, k)
        app == {x.arn : x \in s.secrets}
        readable == IF k = "broker" THEN app ELSE app \cup {c.master}
        Only(actions, resources, condition) ==
            \E t \in allow :
                /\ {u \in allow : u.is.actions = actions} = {t}
                /\ t.is.resources = resources /\ t.is.condition = condition
    IN  /\ SecretsExact(s, c, FALSE)
        /\ Only({"Decrypt"}, {c.key}, ForSecrets(readable))
        /\ Only({"GetSecretValue"}, readable, CurrentStage)
        /\ Only({"DescribeSecret"}, readable, {})
        /\ k = "rotation" =>
              /\ Only({"GenerateDataKey"}, {c.key}, ForSecrets(app))
              /\ Only({"PutSecretValue", "UpdateSecretVersionStage"}, app, {})
        /\ Cardinality(allow) = CASE k = "broker" -> 4 [] k = "migrator" -> 3 [] OTHER -> 5

ReplayExact(s, c) ==
    LET replay == {t \in AllowFor(s, "broker") :
                      t.is.actions \cap {"PutItem", "GetItem", "DescribeTable"} # {}}
    IN  /\ \A t \in s.tables : t.ttl = "expiresAt" /\ t.encrypted /\ t.kms = c.key
        /\ \E t \in replay :
              /\ replay = {t} /\ t.is.actions = {"PutItem", "GetItem", "DescribeTable"}
              /\ \E x \in s.tables : t.is.resources = {x.arn}
              /\ <<"StringEquals", "SourceVpce", {<<"AWS", c.vpce>>}>> \in t.is.condition

-----------------------------------------------------------------------------
(***************************************************************************)
(* Security groups                                                         *)
(***************************************************************************)
Ids(s, k) == {g.id : g \in Of(s.groups, k)}
From(rules, ids) == {r \in rules : r.from \in ids}

BrokerPaths(s, c) ==
    /\ Ids(s, "runtime") # {} /\ Ids(s, "broker") # {}
    /\ \E r \in From(s.egress, Ids(s, "runtime")) : r.to \in Ids(s, "broker")
    /\ \A target \in {<<c.database.sg, c.database.port>>, <<c.endpoints.dynamodb, 443>>} :
          \E r \in From(s.egress, Ids(s, "broker")) :
              <<r.to, r.port>> = target /\ r.protocol = "tcp"

\* The endpoints a kind may reach (no kind is given sts).
EndpointTargets(k) ==
    CASE k = "runtime" -> {}
      [] k = "broker" -> {"secretsManager", "kms", "dynamodb"}
      [] OTHER -> {"secretsManager", "kms"}

AllowedTarget(s, c, k, r) ==
    IF k = "runtime" /\ r.to \in Ids(s, "broker")
    THEN r.protocol = "tcp" /\ r.port = c.port.broker
    ELSE \/ /\ k # "runtime" /\ r.to = c.database.sg
            /\ r.protocol = "tcp" /\ r.port = c.database.port
         \/ /\ r.to \in {c.endpoints[e] : e \in EndpointTargets(k)}
            /\ r.protocol = "tcp" /\ r.port = 443
         \/ /\ r.to \in c.resolvers \cup {c.dnsSg}
            /\ r.protocol \in {"tcp", "udp"} /\ r.port = 53

EgressOutside(s, c, k) ==
    \E r \in From(s.egress, Ids(s, k)) : ~AllowedTarget(s, c, k, r)

ClusterDns(s, c, k) ==
    \A p \in {"tcp", "udp"} : \A rules \in {s.egress, s.ingress} :
        One({r \in From(rules, Ids(s, k)) : r.to = c.dnsSg /\ r.protocol = p /\ r.port = 53})

AllowedIngress(s, c, k, r) ==
    /\ r.protocol = "tcp"
    /\ \/ k = "broker" /\ r.from \in Ids(s, "runtime") /\ r.port = c.port.broker
       \/ k = "runtime" /\ c.caller # Undefined /\ r.from = c.caller /\ r.port = c.port.runtime

\* A kind without exactly one group is left to its SecurityGroupPolicy.
GroupExact(s, c, k) ==
    One(Of(s.groups, k)) =>
        /\ \A g \in Of(s.groups, k) : ~g.inline
        /\ ~\E r \in s.legacyRules : r.group \in Ids(s, k)
        /\ ~EgressOutside(s, c, k)
        /\ ClusterDns(s, c, k)
        /\ \A r \in s.ingress : r.to \in Ids(s, k) => AllowedIngress(s, c, k, r)

-----------------------------------------------------------------------------
(***************************************************************************)
(* Workloads and network policies                                          *)
(***************************************************************************)
\* What podSpecIsRestricted and containerIsRestricted refuse in a pod.
RefusedInPods == {"host", "token", "restart", "init", "image", "privileged", "envFrom"}

WorkloadExact(s, c, k) ==
    \E w \in s.workloads :
        /\ Of(s.workloads, k) = {w}
        /\ \E x \in Of(s.accounts, k) : w.account = x.name
        /\ w.placement = (IF k = "runtime" THEN c.placement.runtime ELSE c.placement.privileged)
        /\ w.departs \cap RefusedInPods = {}

\* An operator that is none of the four is taken to match.
Matches(e, labels) ==
    LET values == {p[2] : p \in {q \in labels : q[1] = e.key}}
    IN  CASE e.operator = "In" -> values \cap e.values # {}
          [] e.operator = "NotIn" -> values \cap e.values = {}
          [] e.operator = "Exists" -> values # {}
          [] e.operator = "DoesNotExist" -> values = {}
          [] OTHER -> TRUE

Selects(p, c, k) ==
    /\ p.namespace = c.namespace
    /\ p.selector.labels \subseteq PodLabels(k)
    /\ \A e \in p.selector.expressions : Matches(e, PodLabels(k))

ExpectedNetworkPolicy(c, k) ==
    LET tcp(peers, port) == [peers |-> peers, ports |-> {<<"TCP", port>>}]
        dns(peers) == [peers |-> peers, ports |-> {<<"UDP", 53>>, <<"TCP", 53>>}]
    IN  [name |-> k, namespace |-> c.namespace,
         selector |-> [labels |-> PodLabels(k), expressions |-> {}],
         ingress |-> {tcp({"caller pods"}, c.port.runtime) :
                         x \in {y \in {c.caller} : k = "runtime" /\ y # Undefined}}
                     \cup {tcp({"runtime pods"}, c.port.broker) : x \in {"broker"} \cap {k}},
         egress |-> {dns({"dns pods"}), dns(c.resolvers)} \cup
                    IF k = "runtime" THEN {tcp({"broker pods"}, c.port.broker)}
                    ELSE {tcp(c.database.cidrs, c.database.port), tcp(c.endpointCidrs, 443)}]

\* Variant: an additional policy that selects the pods is not counted.
NetworkPresent(s, c, k) ==
    ExpectedNetworkPolicy(c, k) \in {p \in s.networkPolicies : Selects(p, c, k)}

NetworkExact(s, c, k) == {p \in s.networkPolicies : Selects(p, c, k)} = {ExpectedNetworkPolicy(c, k)}

GroupPolicyExact(s, c, k) ==
    /\ One(Of(s.groups, k))
    /\ \E p \in s.groupPolicies :
          /\ Of(s.groupPolicies, k) = {p}
          /\ p.namespace = c.namespace /\ p.labels = PodLabels(k)
          /\ One(p.groups) /\ p.groups \subseteq Ids(s, k)

-----------------------------------------------------------------------------
(***************************************************************************)
(* Rollout and admission                                                   *)
(***************************************************************************)
StaysInert(s, c) ==
    /\ c.phase \in Phases /\ ~c.selfAttested
    /\ c.phase # "infrastructure" => c.evidence # NoEvidence
    /\ c.evidence.ref = c.evidence.sha
    /\ \A k \in Kinds : One(Of(s.workloads, k)) /\ \A w \in Of(s.workloads, k) : w.inert

ExpectedEnvironment(s, c, k) ==
    LET base == {<<"AWS_REGION", "args">>} \cup {<<"AWS_ROLE_ARN", r.name>> : r \in Of(s.roles, k)}
        database == {<<"DATABASE_HOST", "args">>, <<"DATABASE_PORT", "args">>,
                     <<"APPLICATION_SECRET_A_ARN", c.secretNames[1]>>,
                     <<"APPLICATION_SECRET_B_ARN", c.secretNames[2]>>}
        capability == {"CAPABILITY_ISSUER", "CAPABILITY_AUDIENCE", "CAPABILITY_JWKS_JSON",
                       "CAPABILITY_MAX_TTL_SECONDS", "AWS_ENDPOINT_URL_DYNAMODB"}
    IN  base \cup
        CASE k = "runtime" -> {<<"BROKER_URL", c.namespace>>, <<"CAPABILITY_AUDIENCE", "args">>}
          [] k = "broker" -> database \cup {<<n, "args">> : n \in capability}
                             \cup {<<"CAPABILITY_REPLAY_TABLE", t.arn[2]>> : t \in s.tables}
          [] OTHER -> database \cup {<<"MASTER_SECRET_ARN", "args">>}

ExpectedEnvelope(s, c, k) ==
    [account |-> (CHOOSE x \in Of(s.accounts, k) : TRUE).name,
     environment |-> ExpectedEnvironment(s, c, k),
     placement |-> IF k = "runtime" THEN c.placement.runtime ELSE c.placement.privileged]

AdmissionExact(s, c) ==
    \E p \in s.admission :
        /\ s.admission = {p}
        /\ p.failurePolicy = "Fail" /\ ~p.widened
        /\ p.validations = {"envelope", "restricted", "sources", "deny"}
        /\ SecretsExact(s, c, FALSE) /\ One(s.tables)
        /\ \A k \in Kinds : Paired(s, k) /\ p.envelope[k] = ExpectedEnvelope(s, c, k)

BindingExact(s, c) ==
    \E b \in s.bindings :
        /\ s.bindings = {b}
        /\ \A p \in s.admission : b.policy = p.name
        /\ b.namespace = c.namespace /\ b.actions = {"Deny"}

-----------------------------------------------------------------------------
(***************************************************************************)
(* validateBoundary                                                        *)
(***************************************************************************)
Late(s, c) ==
    (UNION {Identity(s, c, k) : k \in Kinds}) \cup
    Failed([broker |-> BrokerReads(s, c), masterWrites |-> NoMasterWrites(s, c),
            authority |-> \A k \in Privileged : ExactAuthority(s, c, k),
            paths |-> BrokerPaths(s, c), apart |-> ValidPlacement(c.placement),
            groups |-> \A k \in Kinds : GroupExact(s, c, k),
            workloads |-> \A k \in Kinds : WorkloadExact(s, c, k),
            networks |-> \A k \in Kinds : NetworkExact(s, c, k),
            groupPolicies |-> \A k \in Kinds : GroupPolicyExact(s, c, k),
            inert |-> StaysInert(s, c), tables |-> One(s.tables), replay |-> ReplayExact(s, c),
            admission |-> AdmissionExact(s, c), bindings |-> BindingExact(s, c),
            values |-> s.secretValues = {}])

\* Variant: trust policies are checked with the accounts they belong to, after
\* the first unknown ARN.
TrustWaits(s, c) ==
    Failed([pods |-> NoStandalonePod(s, c), secrets |-> SecretsExact(s, c, TRUE)])

Order == <<"runtime", "broker", "migrator", "rotation">>

\* On a first preview the ARNs the provider will give are unknown.  Reading one
\* ends the validation and keeps what was reported: at the master secret, when
\* another resource of the program is to create it, or else at the annotation of
\* the first account that has a role (there is one: see Budget in BrokerReview).
FirstPreview(s, c) ==
    IF ~c.masterKnown THEN Failed([pods |-> NoStandalonePod(s, c)])
    ELSE LET read == CHOOSE i \in 1..4 : /\ Paired(s, Order[i])
                                         /\ \A j \in 1..i - 1 : ~Paired(s, Order[j])
             tags == Failed([iacRole |-> \A r \in Of(s.roles, Order[read]) : ~r.iacRole])
         IN  Early(s, c, TRUE) \cup tags \cup {"identities" : j \in 1..read - 1}

Report(s, c, fresh) == IF fresh THEN FirstPreview(s, c) ELSE Early(s, c, FALSE) \cup Late(s, c)
=============================================================================
