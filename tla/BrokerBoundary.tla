--------------------------- MODULE BrokerBoundary ---------------------------
(***************************************************************************)
(* brokered-aurora-postgres-boundary.ts: the arguments the component       *)
(* accepts and the resources it declares for them.  Resources are sets of  *)
(* records by type; each carries what its readers compare, and a name      *)
(* where two of a kind may differ in nothing else.  Formats, images and    *)
(* Services are left out: nothing here tells them apart.                   *)
(***************************************************************************)
EXTENDS Integers

Kinds == {"runtime", "broker", "migrator", "rotation"}
Privileged == Kinds \ {"runtime"}

-----------------------------------------------------------------------------
(***************************************************************************)
(* The arguments                                                           *)
(***************************************************************************)
Phases == {"infrastructure", "migrator", "broker", "runtime", "rotation"}

Undefined == "undefined"
NoEvidence == [ref |-> Undefined, sha |-> Undefined]

Ports == 1..65535

Distinct(f) == \A k, l \in DOMAIN f : f[k] = f[l] => k = l

ValidPlacement(p) ==
    /\ p.runtime.key = p.privileged.key
    /\ p.runtime.pool # p.privileged.pool
    /\ p.runtime.toleration # p.privileged.toleration

\* A reference and a digest count when they carry one digest.
ValidRollout(a) ==
    /\ a.phase \in Phases
    /\ ~a.selfAttested
    /\ a.phase # "infrastructure" => a.evidence # NoEvidence
    /\ a.evidence.ref = a.evidence.sha
    /\ a.phase \in {"runtime", "rotation"} => a.caller # Undefined

ValidArgs(a) ==
    /\ a.tier = "startup-hardened" => a.permissionBoundary
    /\ ~a.iacRole
    /\ {a.database.port, a.port.runtime, a.port.broker} \subseteq Ports
    /\ {} \notin {a.database.cidrs, a.resolvers, a.endpointCidrs}
    /\ Distinct(a.secretNames)
    /\ a.maxTtlSeconds \in 1..300
    /\ Distinct(a.accounts)
    /\ Distinct(a.roles)
    /\ ValidPlacement(a.placement)
    /\ ValidRollout(a)

-----------------------------------------------------------------------------
(***************************************************************************)
(* Identities                                                              *)
(***************************************************************************)
\* What every label of the boundary's objects says of their kind.
PodLabels(k) == {<<"hulumi.dev/boundary", "boundary">>, <<"hulumi.dev/identity-kind", k>>}

\* The ARN a role is given, and a secret.
Arn(account, name) == <<account, name>>

Trust(a, k) == [federated |-> a.oidc, aud |-> "sts", sub |-> <<a.namespace, a.accounts[k]>>]

Roles(a) ==
    {[kind |-> k, name |-> a.roles[k], arn |-> Arn(a.account, a.roles[k]),
      trust |-> {Trust(a, k)}, known |-> TRUE, iacRole |-> FALSE, managed |-> FALSE] : k \in Kinds}

ServiceAccounts(a) ==
    {[kind |-> k, name |-> a.accounts[k], namespace |-> a.namespace, automount |-> FALSE,
      role |-> Arn(a.account, a.roles[k]), regionalSts |-> TRUE] : k \in Kinds}

SgOf == [runtime |-> "sg-runtime", broker |-> "sg-broker", migrator |-> "sg-migrator",
         rotation |-> "sg-rotation"]

SecurityGroups == {[kind |-> k, id |-> SgOf[k], inline |-> FALSE] : k \in Kinds}

SecurityGroupPolicies(a) ==
    {[kind |-> k, namespace |-> a.namespace, labels |-> PodLabels(k), groups |-> {SgOf[k]}] :
        k \in Kinds}

-----------------------------------------------------------------------------
(***************************************************************************)
(* Secrets and authority                                                   *)
(***************************************************************************)
AppSecretNames(a) == {a.secretNames[i] : i \in DOMAIN a.secretNames}
AppSecrets(a) == {Arn(a.account, n) : n \in AppSecretNames(a)}

\* The SecureSecret components, and the one secret each of them creates.
SecureSecrets(a) == {[name |-> n, arn |-> Arn(a.account, n)] : n \in AppSecretNames(a)}
Secrets(a) ==
    {[name |-> n, parent |-> n, kms |-> a.key, arn |-> Arn(a.account, n)] : n \in AppSecretNames(a)}

Allow(actions, resources, condition) ==
    [effect |-> "Allow", actions |-> actions, resources |-> resources, except |-> FALSE,
     condition |-> condition]

CurrentStage == {<<"StringEquals", "VersionStage", {<<"AWS", "CURRENT">>}>>}
ViaSecretsManager == <<"StringEquals", "ViaService", {<<"AWS", "secretsmanager">>}>>
ForSecrets(secrets) == {ViaSecretsManager, <<"ForAnyValue", "SecretARN", secrets>>}
ForTheSecret(secret) == {ViaSecretsManager, <<"StringEquals", "SecretARN", {secret}>>}

Reads(secrets, key) ==
    {Allow({"GetSecretValue"}, secrets, CurrentStage),
     Allow({"DescribeSecret"}, secrets, {}),
     Allow({"Decrypt"}, {key}, ForSecrets(secrets))}

TransportTlsStatements(a) ==
    {Allow({"GetSecretValue"}, {a.tls}, CurrentStage),
     Allow({"DescribeSecret"}, {a.tls}, {}),
     Allow({"Decrypt"}, {a.key}, ForTheSecret(a.tls))}

RotationStatements(a) ==
    Reads(AppSecrets(a) \cup {a.master}, a.key) \cup
    {Allow({"PutSecretValue", "UpdateSecretVersionStage"}, AppSecrets(a), {}),
     Allow({"GenerateDataKey"}, {a.key}, ForSecrets(AppSecrets(a)))}

ReplayTable(a) == Arn(a.account, "replay")

ReplayStatements(a) ==
    {Allow({"PutItem", "GetItem", "DescribeTable"}, {ReplayTable(a)},
           {<<"StringEquals", "SourceVpce", {<<"AWS", a.vpce>>}>>})}

NoTls == Arn(Undefined, Undefined)

RolePolicies(a) ==
    {[name |-> "broker", role |-> a.roles.broker, statements |-> Reads(AppSecrets(a), a.key)],
     [name |-> "migrator", role |-> a.roles.migrator,
      statements |-> Reads(AppSecrets(a) \cup {a.master}, a.key)],
     [name |-> "rotation", role |-> a.roles.rotation, statements |-> RotationStatements(a)],
     [name |-> "replay", role |-> a.roles.broker, statements |-> ReplayStatements(a)]}
    \cup IF a.tls = NoTls THEN {}
         ELSE {[name |-> "tls", role |-> a.roles.broker, statements |-> TransportTlsStatements(a)]}

ReplayTables(a) ==
    {[arn |-> ReplayTable(a), ttl |-> "expiresAt", encrypted |-> TRUE, kms |-> a.key]}

-----------------------------------------------------------------------------
(***************************************************************************)
(* Security-group rules and network policies                               *)
(***************************************************************************)
Rule(from, to, protocol, port) ==
    [name |-> "boundary", from |-> from, to |-> to, protocol |-> protocol, port |-> port]

Links(a) ==
    {Rule(SgOf["runtime"], SgOf["broker"], "tcp", a.port.broker),
     Rule(SgOf["broker"], a.endpoints.dynamodb, "tcp", 443)}
    \cup {Rule(SgOf[k], a.endpoints[e], "tcp", 443) :
            k \in Privileged, e \in {"sts", "secretsManager", "kms"}}
    \cup {Rule(SgOf[k], a.database.sg, "tcp", a.database.port) : k \in Privileged}

DnsLinks(a) == {Rule(SgOf[k], a.dnsSg, p, 53) : k \in Kinds, p \in {"tcp", "udp"}}

CallerLinks(a) ==
    IF a.caller = Undefined THEN {} ELSE {Rule(a.caller, SgOf["runtime"], "tcp", a.port.runtime)}

IngressRules(a) == Links(a) \cup DnsLinks(a) \cup CallerLinks(a)

\* Egress goes to the resolvers too, by address.
EgressRules(a) ==
    IngressRules(a) \cup
    {Rule(SgOf[k], r, p, 53) : k \in Kinds, r \in a.resolvers, p \in {"tcp", "udp"}}

Dns == {<<"UDP", 53>>, <<"TCP", 53>>}

NetworkPolicy(a, k) ==
    LET caller == IF a.caller = Undefined THEN {}
                  ELSE {[peers |-> {"caller pods"}, ports |-> {<<"TCP", a.port.runtime>>}]}
        out == IF k = "runtime"
               THEN {[peers |-> {"broker pods"}, ports |-> {<<"TCP", a.port.broker>>}]}
               ELSE {[peers |-> a.database.cidrs, ports |-> {<<"TCP", a.database.port>>}],
                     [peers |-> a.endpointCidrs, ports |-> {<<"TCP", 443>>}]}
    IN  [name |-> k, namespace |-> a.namespace,
         selector |-> [labels |-> PodLabels(k), expressions |-> {}],
         ingress |-> CASE k = "runtime" -> caller
                       [] k = "broker" -> {[peers |-> {"runtime pods"},
                                            ports |-> {<<"TCP", a.port.broker>>}]}
                       [] OTHER -> {},
         egress |-> out \cup {[peers |-> {"dns pods"}, ports |-> Dns],
                              [peers |-> a.resolvers, ports |-> Dns]}]

-----------------------------------------------------------------------------
(***************************************************************************)
(* Workloads and their admission                                           *)
(***************************************************************************)
Placement(a, k) == IF k = "runtime" THEN a.placement.runtime ELSE a.placement.privileged

\* Two Deployments of no replicas, a suspended Job and a suspended CronJob.
\* departs names where a pod spec leaves podSpec and restrictedContainer.
Workloads(a) ==
    {[kind |-> k, inert |-> TRUE, account |-> a.accounts[k], placement |-> Placement(a, k),
      departs |-> {}] : k \in Kinds}

\* The environment of a kind's container, by name and where its value is from.
Environment(a, k) ==
    LET identity == {<<"AWS_REGION", "args">>, <<"AWS_ROLE_ARN", a.roles[k]>>}
        database == {<<"DATABASE_HOST", "args">>, <<"DATABASE_PORT", "args">>,
                     <<"APPLICATION_SECRET_A_ARN", a.secretNames[1]>>,
                     <<"APPLICATION_SECRET_B_ARN", a.secretNames[2]>>}
    IN  identity \cup
        CASE k = "runtime" -> {<<"BROKER_URL", a.namespace>>, <<"CAPABILITY_AUDIENCE", "args">>}
          [] k = "broker" ->
                database \cup
                {<<"CAPABILITY_ISSUER", "args">>, <<"CAPABILITY_AUDIENCE", "args">>,
                 <<"CAPABILITY_JWKS_JSON", "args">>, <<"CAPABILITY_MAX_TTL_SECONDS", "args">>,
                 <<"CAPABILITY_REPLAY_TABLE", "replay">>, <<"AWS_ENDPOINT_URL_DYNAMODB", "args">>}
                \cup (IF a.tls = NoTls THEN {}
                      ELSE {<<"GPIL_TLS_MODE", "native">>, <<"TLS_IDENTITY_SECRET_ARN", a.tls[2]>>})
          [] OTHER -> database \cup {<<"MASTER_SECRET_ARN", "args">>}

Envelope(a) ==
    [k \in Kinds |-> [account |-> a.accounts[k], environment |-> Environment(a, k),
                      placement |-> Placement(a, k)]]

\* Validations: the envelope, the restricted security context, the two volume
\* sources, and the gate that denies every protected pod.
AdmissionPolicies(a) ==
    {[name |-> "envelope", failurePolicy |-> "Fail", envelope |-> Envelope(a),
      validations |-> {"envelope", "restricted", "sources", "deny"}, widened |-> FALSE]}

AdmissionBindings(a) ==
    {[policy |-> "envelope", namespace |-> a.namespace, actions |-> {"Deny"}]}

-----------------------------------------------------------------------------
\* The types of resources.
Types ==
    {"roles", "accounts", "groups", "groupPolicies", "secureSecrets", "secrets", "policies",
     "tables", "egress", "ingress", "networkPolicies", "workloads", "admission", "bindings",
     "pods", "attachments", "legacyRules", "secretValues"}

\* The constructor: everything declared.  The last four are what a boundary
\* has none of; other code of the program may declare them.
Boundary(a) ==
    [roles |-> Roles(a), accounts |-> ServiceAccounts(a), groups |-> SecurityGroups,
     groupPolicies |-> SecurityGroupPolicies(a), secureSecrets |-> SecureSecrets(a),
     secrets |-> Secrets(a), policies |-> RolePolicies(a), tables |-> ReplayTables(a),
     egress |-> EgressRules(a), ingress |-> IngressRules(a),
     networkPolicies |-> {NetworkPolicy(a, k) : k \in Kinds}, workloads |-> Workloads(a),
     admission |-> AdmissionPolicies(a), bindings |-> AdmissionBindings(a),
     pods |-> {}, attachments |-> {}, legacyRules |-> {}, secretValues |-> {}]
=============================================================================
