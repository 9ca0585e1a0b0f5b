---------------------------- MODULE BrokerReview ----------------------------
(***************************************************************************)
(* A boundary on its way to a deployment: the component declares it, the   *)
(* other code of the program adds, drops or alters a few resources (by a   *)
(* transformation, a second component, or a mistake), and the policy pack  *)
(* reads the stack at the first preview, when the provider's values are    *)
(* still unknown, and when they are known.                                 *)
(***************************************************************************)
EXTENDS BrokerPack

CONSTANTS
    Args,      \* the arguments a boundary may be given
    Budget     \* the number of resources the rest of the program touches, at most
               \* three: they leave a kind with a role and an account of its own

VARIABLES
    args,      \* the arguments, which are the contract the pack reads
    stack,     \* the resources declared
    at,        \* "declared", "built", "previewed", "accepted", "refused"
    fresh,     \* the stack was never deployed
    report,    \* what the pack reported last
    left       \* what is left of Budget

vars == <<args, stack, at, fresh, report, left>>

TypeOK ==
    /\ args \in Args /\ DOMAIN stack = Types
    /\ at \in {"declared", "built", "previewed", "accepted", "refused"}
    /\ fresh \in BOOLEAN /\ left \in 0..Budget
    /\ at \in {"previewed", "accepted"} => report = {}
    /\ at = "accepted" => ValidArgs(args)

Init ==
    /\ args \in Args
    /\ stack = [f \in Types |-> {}]
    /\ at = "declared" /\ fresh = TRUE /\ report = {} /\ left = Budget

-----------------------------------------------------------------------------
(***************************************************************************)
(* The component                                                           *)
(***************************************************************************)
Declare ==
    /\ at = "declared" /\ ValidArgs(args)
    /\ stack' = Boundary(args) /\ at' = "built"
    /\ UNCHANGED <<args, fresh, report, left>>

Throw ==
    /\ at = "declared" /\ ~ValidArgs(args)
    /\ at' = "refused"
    /\ UNCHANGED <<args, stack, fresh, report, left>>

-----------------------------------------------------------------------------
(***************************************************************************)
(* The rest of the program                                                 *)
(***************************************************************************)
Other == "other"

Foreign(a, k) ==
    {Allow({"GetSecretValue"}, {a.master}, CurrentStage),
     Allow({"Decrypt", "DescribeSecret"}, {a.key}, {}),
     Allow({"GetItem"}, {Everything}, {}),
     Allow({"PutSecretValue"}, {a.master}, {}),
     [Allow({}, {a.key}, {}) EXCEPT !.except = TRUE]}

ForeignRules ==
    {[Rule(SgOf[k], to, "tcp", n) EXCEPT !.name = Other] :
        k \in {"runtime", "broker"}, to \in {args.database.sg, args.dnsSg, Other},
        n \in {53, args.database.port}}

Selectors ==
    {[labels |-> {}, expressions |-> {}]} \cup
    {[labels |-> {}, expressions |-> {[key |-> "hulumi.dev/identity-kind", operator |-> o,
                                       values |-> {"broker"}]}] :
        o \in {"In", "NotIn", "Exists", "DoesNotExist"}}

Anyone == [peers |-> {"anyone"}, ports |-> {<<"TCP", 443>>}]

ForeignNetworkPolicies ==
    {[name |-> Other, namespace |-> args.namespace, selector |-> x, ingress |-> {Anyone}, egress |-> {Anyone}] :
        x \in Selectors}

\* What other code may add, by type.
Additions ==
    [policies |-> UNION {{[name |-> Other, role |-> args.roles[k], statements |-> {t}] :
                            t \in Foreign(args, k)} : k \in Kinds \ {"migrator"}},
     egress |-> ForeignRules,
     ingress |-> {[Rule(Other, SgOf[k], "tcp", args.port.broker) EXCEPT !.name = Other] :
                    k \in {"runtime", "broker"}},
     networkPolicies |-> ForeignNetworkPolicies,
     attachments |-> {[role |-> args.roles[k]] : k \in {"runtime", "rotation"}},
     legacyRules |-> {[group |-> SgOf["broker"]]},
     pods |-> {[namespace |-> n, account |-> x] :
                 n \in {args.namespace, Other}, x \in {args.accounts.broker, Other}},
     roles |-> {[kind |-> "broker", name |-> Other, arn |-> Arn(args.account, Other),
                 trust |-> {Trust(args, "runtime")}, known |-> TRUE, iacRole |-> FALSE,
                 managed |-> FALSE]},
     secretValues |-> {"SecretVersion"}]

\* What a resource x of type f may be altered to.
Alterations(f, x) ==
    CASE f = "roles" ->
            {[x EXCEPT !.managed = TRUE], [x EXCEPT !.iacRole = TRUE]} \cup
            {[x EXCEPT !.known = FALSE, !.trust = {Trust(args, "runtime")}]} \cup
            {[x EXCEPT !.trust = t] :
                t \in {{Trust(args, "runtime")}, {Trust(args, "broker"), Trust(args, "runtime")}}}
      [] f = "accounts" ->
            {[x EXCEPT !.automount = TRUE], [x EXCEPT !.role = Arn(args.account, Other)],
             [x EXCEPT !.namespace = Other]}
      [] f = "groups" -> {[x EXCEPT !.inline = TRUE]}
      [] f = "groupPolicies" -> {[x EXCEPT !.groups = {Other}], [x EXCEPT !.labels = {}]}
      [] f = "secrets" ->
            {[x EXCEPT !.kms = Arn(args.account, Other)], [x EXCEPT !.parent = Other],
             [x EXCEPT !.arn = Arn(args.account, Other)]}
      [] f = "policies" ->
            UNION {{[x EXCEPT !.statements = @ \ {t}],
                    [x EXCEPT !.statements = (@ \ {t}) \cup {[t EXCEPT !.condition = {}]}],
                    [x EXCEPT !.statements = (@ \ {t}) \cup {[t EXCEPT !.resources = @ \cup {args.master}]}]} :
                        t \in x.statements}
      [] f = "tables" -> {[x EXCEPT !.kms = Arn(args.account, Other)], [x EXCEPT !.ttl = Other]}
      [] f = "networkPolicies" -> {[x EXCEPT !.egress = @ \cup {Anyone}],
                                   [x EXCEPT !.selector.labels = {}]}
      [] f = "workloads" ->
            {[x EXCEPT !.inert = FALSE], [x EXCEPT !.account = Other],
             [x EXCEPT !.placement = Placement(args, IF x.kind = "runtime" THEN "broker" ELSE "runtime")],
             [x EXCEPT !.departs = {"host"}], [x EXCEPT !.departs = {"volumes"}]}
      [] f = "admission" ->
            {[x EXCEPT !.failurePolicy = "Ignore"], [x EXCEPT !.validations = @ \ {"deny"}],
             [x EXCEPT !.widened = TRUE], [x EXCEPT !.envelope.broker.environment = {}]}
      [] f = "bindings" -> {[x EXCEPT !.actions = {"Audit"}], [x EXCEPT !.namespace = Other]}
      [] OTHER -> {}

\* A deployed stack may be edited again.
Editable == at \in {"built", "accepted"} /\ left > 0

Touch(s) ==
    /\ stack' = s /\ left' = left - 1 /\ at' = "built"
    /\ UNCHANGED <<args, fresh, report>>

Add == Editable /\ \E f \in DOMAIN Additions : \E x \in Additions[f] :
    Touch([stack EXCEPT ![f] = @ \cup {x}])

\* The pack treats the resolvers' and the endpoints' rules of all kinds alike, what
\* the privileged kinds have of all but roles and policies, of these the migrator's
\* like the rotation's, which may do all that the migrator may, and the two secrets
\* alike: one of each stands for the others.
Spared(f, x) ==
    \/ f \in {"egress", "ingress"} /\ x.from # SgOf["broker"] /\ x.port \in {53, 443}
    \/ f \in {"egress", "ingress"} /\ x.from \in {SgOf["migrator"], SgOf["rotation"]}
    \/ f \in {"accounts", "groups", "groupPolicies", "workloads"} /\ x.kind \in {"migrator", "rotation"}
    \/ f = "networkPolicies" /\ x.name \in {"migrator", "rotation"}
    \/ f = "roles" /\ x.kind = "migrator"
    \/ f = "policies" /\ x.name = "migrator"
    \/ f \in {"secureSecrets", "secrets"} /\ x.name = args.secretNames[2]

Drop == Editable /\ \E f \in DOMAIN stack : \E x \in stack[f] :
    ~Spared(f, x) /\ Touch([stack EXCEPT ![f] = @ \ {x}])

Alter == Editable /\ \E f \in DOMAIN stack : \E x \in stack[f] : \E y \in Alterations(f, x) :
    ~Spared(f, x) /\ y # x /\ Touch([stack EXCEPT ![f] = (@ \ {x}) \cup {y}])

-----------------------------------------------------------------------------
(***************************************************************************)
(* The pack                                                                *)
(***************************************************************************)
Verdict(found, passed) ==
    /\ report' = found
    /\ at' = IF found = {} THEN passed ELSE "refused"
    /\ UNCHANGED <<args, stack, left>>

Preview ==
    /\ at = "built" /\ fresh
    /\ Verdict(Report(stack, args, TRUE), "previewed")
    /\ UNCHANGED fresh

\* The validation after the first deployment, or of a preview of a later one.
Validate ==
    /\ at = "previewed" \/ (at = "built" /\ ~fresh)
    /\ Verdict(Report(stack, args, FALSE), "accepted")
    /\ fresh' = FALSE

Next == Declare \/ Throw \/ Add \/ Drop \/ Alter \/ Preview \/ Validate

Spec == Init /\ [][Next]_vars

-----------------------------------------------------------------------------
(***************************************************************************)
(* What a boundary is: the table a reviewer would write                    *)
(***************************************************************************)
\* The secrets a kind may read.
Readable(k) == IF k = "broker" THEN AppSecrets(args) ELSE AppSecrets(args) \cup {args.master}

\* A kind may do what, to what, under which condition at least.
Intended(k, action, resource, condition) ==
    CASE action = "GetSecretValue" -> k \in Privileged /\ resource \in Readable(k)
                                      /\ CurrentStage \subseteq condition
      [] action = "DescribeSecret" -> k \in Privileged /\ resource \in Readable(k)
      [] action = "Decrypt" -> k \in Privileged /\ resource = args.key
                               /\ ForSecrets(Readable(k)) \subseteq condition
      [] action \in {"PutSecretValue", "UpdateSecretVersionStage"} ->
            k = "rotation" /\ resource \in AppSecrets(args)
      [] action = "GenerateDataKey" -> k = "rotation" /\ resource = args.key
                                       /\ ForSecrets(AppSecrets(args)) \subseteq condition
      [] action \in {"PutItem", "GetItem", "DescribeTable"} ->
            /\ k = "broker" /\ resource = ReplayTable(args)
            /\ <<"StringEquals", "SourceVpce", {<<"AWS", args.vpce>>}>> \in condition
      [] OTHER -> FALSE

\* What IAM grants: every statement of every policy on the role, and whatever a
\* managed policy may hold.
AuthorityContained ==
    \A r \in stack.roles :
        /\ ~r.managed /\ \A t \in stack.attachments : t.role # r.name
        /\ \A x \in stack.accounts : (\E t \in r.trust : t.sub = <<x.namespace, x.name>>) => x.kind = r.kind
        /\ \A p \in stack.policies : p.role = r.name => \A t \in p.statements :
              t.effect = "Allow" => /\ ~t.except
                                    /\ \A action \in t.actions : \A resource \in t.resources :
                                          Intended(r.kind, action, resource, t.condition)

\* Where a security group and the network policies let a kind's packets go.
Endpoints == {args.endpoints[e] : e \in DOMAIN args.endpoints}
Dependencies(k) ==
    IF k = "runtime" THEN {SgOf["broker"]} ELSE {args.database.sg} \cup Endpoints
Peers(k) ==
    args.resolvers \cup {"dns pods"} \cup
    IF k = "runtime" THEN {"broker pods"} ELSE args.database.cidrs \cup args.endpointCidrs

FlowsContained ==
    \A k \in Kinds :
        /\ \A r \in stack.egress : r.from = SgOf[k] =>
              r.to \in Dependencies(k) \cup IF r.port = 53 THEN args.resolvers \cup {args.dnsSg} ELSE {}
        /\ \A r \in stack.ingress : r.to = SgOf[k] =>
              r.from = (CASE k = "broker" -> SgOf["runtime"] [] k = "runtime" -> args.caller
                          [] OTHER -> Undefined)
        /\ \A g \in stack.groups : g.id = SgOf[k] => ~g.inline
        /\ \A r \in stack.legacyRules : r.group # SgOf[k]
        /\ \A p \in stack.networkPolicies :
              (p.namespace = args.namespace /\ p.selector.labels \subseteq PodLabels(k)
               /\ \A e \in p.selector.expressions : Matches(e, PodLabels(k)))
              => UNION {x.peers : x \in p.egress} \subseteq Peers(k)

\* Nothing of the boundary runs, and nothing can be made to: a gate in force
\* denies every protected pod.
NothingRuns ==
    /\ \A w \in stack.workloads : w.inert
    /\ \A p \in stack.pods : p.namespace = args.namespace =>
          p.account \notin {args.accounts[k] : k \in Kinds}
    /\ \E p \in stack.admission, b \in stack.bindings :
          /\ p.failurePolicy = "Fail" /\ "deny" \in p.validations /\ ~p.widened
          /\ b.policy = p.name /\ b.namespace = args.namespace /\ b.actions = {"Deny"}
    /\ \A w, x \in stack.workloads :
          (w.kind = "runtime" /\ x.kind # "runtime") => w.placement.pool # x.placement.pool

\* Whatever other code of the program did to a boundary: once the mandatory pack
\* (validateBoundary) has accepted it, each identity's effective authority and
\* network reach are the ones of the table, and nothing of it runs.
AcceptedBoundariesAreContained ==
    at = "accepted" => AuthorityContained /\ FlowsContained /\ NothingRuns

\* A role that is known to trust another account than its own, or a secret that
\* is known to have another key or parent.
KnownTrust == \E k \in Kinds : Paired(stack, k) /\ \E r \in Of(stack.roles, k) :
    r.known /\ \E t \in r.trust : \A x \in Of(stack.accounts, k) : t.sub # <<args.namespace, x.name>>
KnownSecret == \E x \in stack.secrets :
    x.kms # args.key \/ x.parent \notin {p.name : p \in stack.secureSecrets}

\* Values unknown at a first preview hide no trust or secret violation that is
\* known (brokered-postgres-boundary-pack.ts:999 says so of trust), and make up
\* none that the known values would clear.
UnknownsHideNothingKnown ==
    (fresh /\ args.masterKnown /\ at \in {"previewed", "refused"} /\ ValidArgs(args)) =>
        /\ KnownTrust => "trust" \in report
        /\ KnownSecret => "secrets" \in report
        /\ report \subseteq Report(stack, args, FALSE)

-----------------------------------------------------------------------------
\* The boundary exactly as the component declared it passes the pack that its
\* documentation makes mandatory (brokered-aurora-postgres-boundary.md:146).
BoundariesPassThePack ==
    (at = "refused" /\ stack = Boundary(args)) => ~ValidArgs(args)
=============================================================================
