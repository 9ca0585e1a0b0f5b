-------------------------- MODULE DeploymentPolicies --------------------------
(***************************************************************************)
(* What the mandatory policies of packages/policies make of the resources  *)
(* by which GitHub Actions reaches a cloud (github/g-oidc-1.ts and         *)
(* g-oidc-2.ts, platform/deployment-governance-pack.ts), and what          *)
(* GitHubAwsOidcDeploymentRole and RunnerGovernanceFoundation accept and   *)
(* declare (packages/platform-patterns/src).                               *)
(*                                                                         *)
(* A subject is the sequence of its parts between colons.  Wild stands for *)
(* a string with a "*", Blank for an empty one; what the patterns of the   *)
(* code accept are the members of Repositories, Called and Refs.  A trust  *)
(* policy is readable or not, and then the set of its statements; a GCP    *)
(* condition a sequence of clauses, each a set of alternatives.  A URN is  *)
(* a type and a name.                                                      *)
(***************************************************************************)
EXTENDS Integers, Sequences, FiniteSets, SequencesExt, Suppressions

CONSTANTS
    Repositories,     \* OWNER/REPOSITORY
    Called,           \* workflow files at an exact branch or tag
    HomeOf,           \* the repository that a workflow file is in
    Refs              \* exact refs

Wild == "*"
Blank == ""

Urn(resource) == <<resource.type, resource.name>>
Stack == <<"stack", "stack">>

-----------------------------------------------------------------------------
(***************************************************************************)
(* G_OIDC_1: who comes in                                                  *)
(***************************************************************************)
Claims(subject) == {<<subject[2 * i - 1], subject[2 * i]>> : i \in 1..(Len(subject) \div 2)}
Named(subject) == {c[1] : c \in Claims(subject)}
ClaimOf(subject, key) == (CHOOSE c \in Claims(subject) : c[1] = key)[2]

\* Pairs of a key and a literal value, each key once.
Parses(subject) ==
    /\ Len(subject) >= 2 /\ Len(subject) % 2 = 0
    /\ ToSet(subject) \cap {Wild, Blank} = {}
    /\ Cardinality(Named(subject)) = Len(subject) \div 2

BoundSubject(subject) ==
    Parses(subject) /\ {"repo", "job_workflow_ref", "environment"} \subseteq Named(subject)

\* Does not ask for the workflow.
ExactOfAnyWorkflow(subject) ==
    /\ Parses(subject) /\ "repo" \in Named(subject)
    /\ Cardinality({"environment", "ref"} \cap Named(subject)) = 1
    /\ ClaimOf(subject, "repo") \in Repositories

\* awsSubjectViolation: one repository, one workflow, one context.
ExactAwsSubject(subject) ==
    /\ Parses(subject) /\ {"repo", "job_workflow_ref"} \subseteq Named(subject)
    /\ Cardinality({"environment", "ref"} \cap Named(subject)) = 1
    /\ ClaimOf(subject, "repo") \in Repositories
    /\ ClaimOf(subject, "job_workflow_ref") \in Called
    /\ "ref" \in Named(subject) => ClaimOf(subject, "ref") \in Refs

OfGitHub(statement) == "github" \in statement.issuers
OnSubject(statement) == {r \in statement.restrictions : r.key = "sub"}

TrustExact(trust) ==
    /\ trust.readable
    /\ \A s \in trust.statements : OfGitHub(s) =>
          \E r \in OnSubject(s) :
              /\ OnSubject(s) = {r} /\ r.operator = "StringEquals" /\ r.scalar
              /\ \A value \in r.values : ExactAwsSubject(value)

\* A conjunction of equalities, each assertion once.
Single(clause) ==
    \E e \in clause : clause = {e} /\ e.operator = "==" /\ e.value \notin {Wild, Blank}
Bound(clauses, assertion) ==
    {i \in DOMAIN clauses : \E e \in clauses[i] : e.assertion = assertion}

ConditionExact(condition) ==
    /\ condition.readable
    /\ \A i \in DOMAIN condition.clauses : Single(condition.clauses[i])
    /\ \A i \in DOMAIN condition.clauses : \A e \in condition.clauses[i] :
          Bound(condition.clauses, e.assertion) = {i}
    /\ \A a \in {"repository", "job_workflow_ref", "environment"} :
          Bound(condition.clauses, a) # {}

\* A value that is not known yet ends a validation without a word.
G_OIDC_1(resource, known) ==
    CASE resource.type = "role" -> known => TrustExact(resource.trust)
      [] resource.type = "azure" -> BoundSubject(resource.subject)
      [] resource.type = "gcp" -> ConditionExact(resource.condition)
      [] OTHER -> TRUE

-----------------------------------------------------------------------------
(***************************************************************************)
(* G_OIDC_2: what they may do                                              *)
(***************************************************************************)
OfType(resources, types) == {r \in resources : r.type \in types}

TrustsGitHub(role) == role.trust.readable /\ \E s \in role.trust.statements : OfGitHub(s)
GitHubRoles(resources) == {r \in OfType(resources, {"role"}) : TrustsGitHub(r)}

FullAdmin(document) ==
    \E s \in document : s.effect = "Allow" /\ Wild \in s.actions /\ Wild \in s.resources
Complement(document) == \E s \in document : s.effect = "Allow" /\ s.complement
UnsafeDocument(document) == FullAdmin(document) \/ Complement(document)

UnsafePolicies(resources) ==
    {p.name : p \in {q \in OfType(resources, {"policy"}) : UnsafeDocument(q.document)}}

\* A reference is by a property's dependency or by the ARN, which says the same
\* once it is known.
Administrator == [by |-> "arn", to |-> "AdministratorAccess"]
UnsafeReference(reference, resources) ==
    reference = Administrator \/ reference.to \in UnsafePolicies(resources)

Grants(attachment, resources) ==
    CASE attachment.type = "rolePolicy" -> UnsafeDocument(attachment.document)
      [] attachment.type = "attachment" ->
            \E p \in attachment.policies : UnsafeReference(p, resources)
      [] attachment.type = "accessPolicy" ->
            attachment.clusterAdmin /\ attachment.scope = "cluster"

Attached(role, resources) ==
    {a \in OfType(resources, {"rolePolicy", "attachment", "accessPolicy"}) : role.name \in a.roles}

G_OIDC_2(resources) ==
    \A role \in GitHubRoles(resources) :
        /\ ~ \E p \in role.managed : UnsafeReference(p, resources)
        /\ ~ \E d \in role.inline : UnsafeDocument(d)
        /\ ~ \E a \in Attached(role, resources) : Grants(a, resources)

-----------------------------------------------------------------------------
(***************************************************************************)
(* The deployment role                                                     *)
(***************************************************************************)
Provider == {"github"}
Restriction(operator, key, value) ==
    [operator |-> operator, key |-> key, values |-> {value}, scalar |-> TRUE]
Statement(restrictions) == [issuers |-> Provider, restrictions |-> restrictions]

\* The legacy environment is the mode where none is given; a context is
\* <<kind, value>>.
Context(a) == IF a.mode = <<>> THEN <<"environment", a.environment>> ELSE a.mode

ValidDeploymentRole(a) ==
    /\ {a.repository, a.audience, a.workflow, Context(a)[2]} \cap {Wild, Blank} = {}
    /\ Context(a)[1] = "ref" => Context(a)[2] \in Refs
    /\ a.workflow \in Called

SubjectOf(a) == <<"repo", a.repository>> \o Context(a) \o <<"job_workflow_ref", a.workflow>>

RoleOf(a) ==
    [type |-> "role", name |-> a.name, parent |-> a.name, known |-> a.known,
     trust |-> [readable |-> TRUE, statements |->
         {Statement({Restriction("StringEquals", "aud", <<a.audience>>),
                     Restriction("StringEquals", "sub", SubjectOf(a))})}],
     tags |-> <<a.repository>> \o Context(a), managed |-> {}, inline |-> {}]

\* The component, its role, and an attachment for every policy.
DeploymentRole(a) ==
    {[type |-> "deploymentRole", name |-> a.name, args |-> a], RoleOf(a)}
    \cup {[type |-> "attachment", name |-> p.to, roles |-> {a.name}, policies |-> {p}] :
             p \in a.policies}

-----------------------------------------------------------------------------
(***************************************************************************)
(* The deployment governance pack                                          *)
(***************************************************************************)
AwsSecrets == {"AWS_ACCESS_KEY_ID", "AWS_SECRET_ACCESS_KEY", "AWS_SESSION_TOKEN", "AWS_ACCESS_KEY"}

\* deploymentAuthorityTuple: the arguments name the repository, the environment and a
\* workflow of that repository's own.
TupleFits(component, repository, environment) ==
    LET a == component.args
    IN  /\ a.repository = repository.name
        /\ Context(a) = <<"environment", environment.name>>
        /\ a.environment \in {Blank, environment.name}
        /\ a.audience = "sts" /\ a.workflow \in Called /\ HomeOf[a.workflow] = a.repository

\* The trust of the component's role has the subject of the environment and the
\* workflow as conditions of their own, and no others.
RoleTrustMatches(role, a, environment) ==
    /\ role.parent = a.name
    /\ role.tags = <<a.repository, "environment", environment.name>>
    /\ role.trust =
          [readable |-> TRUE, statements |->
              {Statement({Restriction("StringEquals", "aud", <<"sts">>),
                          Restriction("StringEquals", "sub",
                                      <<"repo", a.repository, "environment", environment.name>>),
                          Restriction("StringEquals", "job_workflow_ref", <<a.workflow>>)})}]

DEPLOY_GOV_1(resources) ==
    \A repository \in {r \in OfType(resources, {"repository"}) : r.deploys} :
        \E environment \in OfType(resources, {"environment"}),
           component \in OfType(resources, {"deploymentRole"}),
           role \in OfType(resources, {"role"}) :
            /\ environment.of = repository.name /\ environment.protected
            /\ TupleFits(component, repository, environment)
            /\ RoleTrustMatches(role, component.args, environment)

DEPLOY_GOV_2(resource) == resource.type = "secret" => resource.name \notin AwsSecrets

SelfHosted == "self-hosted"
DEPLOY_GOV_3(resource) ==
    resource.type = "runners" =>
        \A w \in resource.workflows : SelfHosted \in w.labels =>
            /\ resource.approved # {} /\ w.labels # {SelfHosted}
            /\ w.labels \ {SelfHosted} \subseteq resource.approved

DEPLOY_GOV_4(resource) ==
    resource.type = "runners" =>
        \A w \in resource.workflows : w.oidc /\ w.secrets \cap AwsSecrets = {}

-----------------------------------------------------------------------------
(***************************************************************************)
(* The runners                                                             *)
(***************************************************************************)
CloudSecrets ==
    AwsSecrets \cup {"AZURE_CLIENT_SECRET", "GOOGLE_APPLICATION_CREDENTIALS",
                     "GCP_SERVICE_ACCOUNT_KEY"}

MaxApprovedLabels == 16

ValidEnvironment(e) == e.name = "prod" => e.reviewers /\ e.branches

\* selfHostedLabels are the labels beside "self-hosted", if that is one.
SelfHostedLabels(w) == IF SelfHosted \in w.labels THEN w.labels \ {SelfHosted} ELSE {}

ValidWorkflow(w, f) ==
    /\ \E e \in f.environments : e.name = w.environment
    /\ w.labels # {} /\ w.labels \cap {Wild, Blank} = {}
    /\ w.oidc /\ w.secrets \cap CloudSecrets = {}
    /\ SelfHostedLabels(w) \subseteq f.approved

ValidRunners(f) ==
    /\ f.environments # {}
    /\ \A e, g \in f.environments : ValidEnvironment(e) /\ (e.name = g.name => e = g)
    /\ f.approved \cap {Wild, Blank} = {} /\ Cardinality(f.approved) <= MaxApprovedLabels
    /\ \A w \in f.workflows : ValidWorkflow(w, f)
    /\ f.pageCap \in 1..1000

-----------------------------------------------------------------------------
(***************************************************************************)
(* All of them                                                             *)
(***************************************************************************)
\* A program whose arguments a component refuses ends with an error.
Throws(resources) == \E r \in resources :
    \/ r.type = "deploymentRole" /\ ~ValidDeploymentRole(r.args)
    \/ r.type = "runners" /\ ~ValidRunners(r)

Passes(resource, known, suppressions, now) ==
    /\ G_OIDC_1(resource, known) \/ Suppressed("G_OIDC_1", Urn(resource), suppressions, now)
    /\ DEPLOY_GOV_2(resource) /\ DEPLOY_GOV_3(resource) /\ DEPLOY_GOV_4(resource)

StackPasses(resources, suppressions, now) ==
    /\ DEPLOY_GOV_1(resources)
    /\ \/ G_OIDC_2(resources)
       \/ Suppressed("G_OIDC_2", Stack, suppressions, now)
=============================================================================
