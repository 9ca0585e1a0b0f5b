------------------------------ MODULE Delivery ------------------------------
(***************************************************************************)
(* What stands between a change and its deployment: the supply-chain       *)
(* analysis (tools/sca: the scope of manifests, scanning and triage), the  *)
(* receiver of GitHub's events, the policy pack's review of a brokered     *)
(* database boundary, the rollout of a capability issuer, the authority of *)
(* node-label controllers, the trust that lets jobs of GitHub Actions      *)
(* deploy, and who reaches the endpoint of a cluster.  They share nothing, *)
(* so a behaviour is one of them at work (part says which) and the others  *)
(* at rest.                                                                *)
(***************************************************************************)
EXTENDS Integers, Sequences, FiniteSets

CONSTANTS
    \* The scope of manifests.
    Syncs, Manifests, Conventions, Skipped, Human, SampleBudget, Edits,
    \* Scanning and triage.
    Processes, Findings, Lockfiles, Base, Caches, Accidents,
    \* The review of a boundary.
    BoundaryArgs, Touches,
    \* The rollout of an issuer.
    Hosts, Dotted, IssuerPlans, MaxPods, IssuerLimit,
    \* Trust in jobs.
    Repositories, Called, HomeOf, Refs, TrustingPrograms, Jobs, Templates, TrustHorizon,
    MaxSessions, TrustLimit,
    \* The endpoint of a cluster.
    Groups, GroupBits, ClusterPrograms, EndpointHorizon, EndpointLimit,
    \* The authority of node-label controllers.
    AwsNames, ClusterNames, LabelKeys, Protected, LabelValues, LabelPrograms, LabelPods, Outside,
    Life, ManagersShown, AuthorityLimit,
    \* The webhook fallback.
    Deliveries, Hardened, AllowUnsigned, Unlicensed, Ttl, Threshold, MaxQueueing, WebhookHorizon,
    MaxSecret, MaxArrivals

VARIABLES
    part,
    tree, scope, sync, granted, given, scopeLeft,
    present, binary, raw, found, review, store, workItems, proc, claims, raced, triageLeft,
    now, queue, arrivals, hookSecret, secret, idempotency, events, failures, signal, outcomes,
    alarmed,
    there, components, granting, started, node, rest, through, token, authorityLeft,
    args, stack, at, fresh, report, reviewLeft,
    live, op, goal, accounts, deployments, active, activated, pods, issuerLeft,
    deployed, wanted, deploying, outcome, excused, templates, sessions, clock, trustLeft,
    cluster, known, replaced, ingress, pursued, bringing, result, registered, constant, day,
    endpointLeft

-----------------------------------------------------------------------------
Scope == INSTANCE ScaScope WITH
    Matches <- Conventions, Budget <- Edits, left <- scopeLeft

\* A person writes tracks there are.
ASSUME ScopeAssumption == Human \subseteq Scope!Tracks /\ Edits \in Nat

Triage == INSTANCE ScaTriage WITH Budget <- Accidents, items <- workItems, left <- triageLeft

\* Lockfiles hold findings that are named, and the cache nothing, the scanner or something else.
ASSUME TriageAssumption ==
    /\ Lockfiles \subseteq SUBSET Triage!Names /\ Base \subseteq Triage!Names
    /\ Caches \subseteq {"none", "pinned", "other"} /\ Accidents \in Nat

Boundary == INSTANCE BrokerReview WITH Args <- BoundaryArgs, Budget <- Touches, left <- reviewLeft

\* At rest there is none, which saves comparing it with itself.
NoBoundary == << >>

Issuer == INSTANCE IssuerRollout WITH
    Args <- IssuerPlans, Limit <- IssuerLimit, left <- issuerLeft

\* Of what the types of the arguments say: two application secrets, an account for each
\* kind, and the endpoints by name.  As much as BrokerReview's Budget may be.
ASSUME BoundaryAssumption ==
    /\ Touches \in 0..3
    /\ \A a \in BoundaryArgs :
          /\ DOMAIN a.secretNames = {1, 2} /\ DOMAIN a.accounts = Boundary!Kinds
          /\ {"secretsManager", "kms", "dynamodb"} \subseteq DOMAIN a.endpoints

\* No plan has the name that stands for none; none has an argument that the gate's
\* textual replacement would change; a network has the endpoints its plans name,
\* outside the security group that a boundary makes for itself.
ASSUME IssuerAssumption ==
    /\ Issuer!None \notin DOMAIN IssuerPlans
    /\ \A b \in DOMAIN IssuerPlans : LET words == IssuerPlans[b].words IN
          words \in Seq(STRING) /\ \A i \in DOMAIN words : words[i] \notin Dotted
    /\ \A host \in Hosts : host.sg # Issuer!IssuerSg
    /\ \A b \in DOMAIN IssuerPlans : LET a == IssuerPlans[b] IN
          Issuer!Valid(a) /\ Issuer!ValidArns(a) =>
             \A service \in {"sts", "kms", "dynamodb", "secretsmanager"} :
                \E host \in Hosts : host.service = service /\ Issuer!Endpoint(a, host)
    /\ MaxPods \in Nat /\ IssuerLimit \in Nat

Trust == INSTANCE DeploymentTrust WITH
    Programs <- TrustingPrograms, Horizon <- TrustHorizon, Limit <- TrustLimit,
    goal <- wanted, op <- deploying, left <- trustLeft

\* Nobody writes "everything" as a list of everything.
Spelled(document) ==
    \A s \in document : ~({"a1", "a2"} \subseteq s.actions) /\ ~({"r1", "r2"} \subseteq s.resources)

\* Of what the code takes for granted: a template has the keys that are modelled, and
\* the names of repositories, workflows and refs have slashes, so none reads like a
\* key; a workflow file is in one repository; a trust that cannot be read admits nobody;
\* a scalar is one value.
ASSUME TrustAssumption ==
    /\ Templates \subseteq Seq({"repo", "job_workflow_ref", "environment", "ref", "context"})
    /\ HomeOf \in [Called -> Repositories]
    /\ \A j \in Jobs : {j.repo, j.workflow, j.ref, Trust!Blank}
                          \cap {"repo", "job_workflow_ref", "environment", "ref"} = {}
    /\ \A r \in Trust!OfType(Trust!AllResources, {"role"}) :
          /\ r.trust.readable \/ r.trust.statements = {}
          /\ \A s \in r.trust.statements : \A x \in s.restrictions :
                x.scalar => \E v \in x.values : x.values = {v}
          /\ \A d \in r.inline : Spelled(d)
    /\ \A r \in Trust!OfType(Trust!AllResources, {"policy", "rolePolicy"}) :
          Spelled(r.document)
    /\ \A c \in Trust!OfType(Trust!AllResources, {"deploymentRole"}) :
          c.args.mode = <<>> \/ c.args.mode \in {"environment", "ref"} \X STRING
    /\ TrustHorizon \in Nat /\ MaxSessions \in Nat /\ TrustLimit \in Nat

Endpoint == INSTANCE EksEndpoint WITH
    Programs <- ClusterPrograms, Horizon <- EndpointHorizon, Limit <- EndpointLimit,
    goal <- pursued, op <- bringing, outcome <- result, clock <- day, left <- endpointLeft

\* Of what the code takes for granted: a program has lists of written CIDRs and at most
\* one access path, and a cluster with the foundation's tag is of a foundation.
ASSUME EndpointAssumption ==
    /\ \A f \in Endpoint!Families :
          Groups[f] \in Nat /\ GroupBits[f] \in Nat /\ Endpoint!LastAddress(f) \in Nat
    /\ EndpointHorizon \in Nat /\ EndpointLimit \in Nat /\ Endpoint!OnePath
    /\ \A p \in ClusterPrograms :
          /\ \A a \in p.paths :
                /\ {a.cidrs, a.cidrBlocks, a.ipv6CidrBlocks} \subseteq Seq(Endpoint!Cidr)
                /\ a.securityGroups \in Seq(STRING)
          /\ \/ p.by = "foundation" /\ p.cluster.cidrs \in Seq(Endpoint!Cidr)
             \/ p.by = "path" /\ p.paths # {}
             \/ p.by = "itself" /\ p.cluster.cidrs \in Seq(Endpoint!Cidr) /\ ~p.cluster.tagged

Authority == INSTANCE NodeLabelAuthority WITH
    Keys <- LabelKeys, Values <- LabelValues, Programs <- LabelPrograms, Pods <- LabelPods,
    Limit <- AuthorityLimit,
    goal <- components, op <- granting, left <- authorityLeft

\* The labels are on the Node; no component has the name that stands for nobody's.
ASSUME LabelAssumption ==
    /\ Protected \subseteq LabelKeys /\ Life \in Nat /\ AuthorityLimit \in Nat
    /\ ManagersShown \in BOOLEAN
    /\ \A program \in LabelPrograms : \A a \in program : a.name # Authority!None

Webhook == INSTANCE WebhookFallback WITH
    Horizon <- WebhookHorizon, clock <- now, report <- signal

ASSUME WebhookAssumption ==
    /\ Ttl \in Nat /\ MaxQueueing \in Nat /\ Threshold \in Nat \ {0}
    /\ WebhookHorizon \in Nat /\ MaxSecret \in Nat \ {0} /\ MaxArrivals \in Nat

-----------------------------------------------------------------------------
(***************************************************************************)
(* One of them at work                                                     *)
(***************************************************************************)
scopeVars == <<tree, scope, sync, granted, given, scopeLeft>>
triageVars == <<present, binary, raw, found, review, store, workItems, proc, claims, raced,
                triageLeft>>
webhookVars == <<now, queue, arrivals, hookSecret, secret, idempotency, events, failures,
                 signal, outcomes, alarmed>>
authorityVars == <<there, components, granting, started, node, rest, through, token,
                   authorityLeft>>
boundaryVars == <<args, stack, at, fresh, report, reviewLeft>>
issuerVars == <<live, op, goal, accounts, deployments, active, activated, pods, issuerLeft>>
trustVars == <<deployed, wanted, deploying, outcome, excused, templates, sessions, clock,
               trustLeft>>
endpointVars == <<cluster, known, replaced, ingress, pursued, bringing, result, registered,
                  constant, day, endpointLeft>>
vars == <<part, scopeVars, triageVars, authorityVars, webhookVars, boundaryVars, issuerVars, trustVars,
          endpointVars>>

Programs ==
    {"scope", "triage", "webhook", "authority", "boundary", "issuer", "trust", "endpoint"}

Init ==
    /\ part \in Programs
    /\ Scope!Init /\ Triage!Init /\ Webhook!Init /\ Authority!Init
    /\ IF part = "boundary" THEN Boundary!Init
       ELSE args = NoBoundary /\ stack = NoBoundary /\ at = "declared" /\ fresh = TRUE
            /\ report = {} /\ reviewLeft = 0
    /\ Issuer!Init /\ Trust!Init /\ Endpoint!Init

Next ==
    \/ /\ part = "scope"
       /\ UNCHANGED <<part, triageVars, authorityVars, webhookVars, boundaryVars, issuerVars,
                      trustVars, endpointVars>>
       /\ Scope!Next
    \/ /\ part = "triage"
       /\ UNCHANGED <<part, scopeVars, authorityVars, webhookVars, boundaryVars, issuerVars,
                      trustVars, endpointVars>>
       /\ Triage!Next
    \/ /\ part = "authority"
       /\ UNCHANGED <<part, scopeVars, triageVars, webhookVars, boundaryVars, issuerVars,
                      trustVars, endpointVars>>
       /\ Authority!Next
    \/ /\ part = "webhook"
       /\ UNCHANGED <<part, scopeVars, triageVars, authorityVars, boundaryVars, issuerVars,
                      trustVars, endpointVars>>
       /\ Webhook!Next
    \/ /\ part = "boundary"
       /\ UNCHANGED <<part, scopeVars, triageVars, authorityVars, webhookVars, issuerVars,
                      trustVars, endpointVars>>
       /\ Boundary!Next
    \/ /\ part = "issuer"
       /\ UNCHANGED <<part, scopeVars, triageVars, authorityVars, webhookVars, boundaryVars,
                      trustVars, endpointVars>>
       /\ Issuer!Next
    \/ /\ part = "trust"
       /\ UNCHANGED <<part, scopeVars, triageVars, authorityVars, webhookVars, boundaryVars,
                      issuerVars, endpointVars>>
       /\ Trust!Next
    \/ /\ part = "endpoint"
       /\ UNCHANGED <<part, scopeVars, triageVars, authorityVars, webhookVars, boundaryVars,
                      issuerVars, trustVars>>
       /\ Endpoint!Next

Spec == Init /\ [][Next]_vars

-----------------------------------------------------------------------------
(***************************************************************************)
(* Their properties; each module states them of its own variables.  A      *)
(* state at rest is one that its own behaviours start from, or none.       *)
(***************************************************************************)
\* The state of each is of its type (scope-sync.ts, triage.ts, the
\* boundary's component and pack, g-oidc-1.ts and g-oidc-2.ts, eks-cluster-pack.ts,
\* trusted-node-label-reconciler.ts, github-webhook-fallback.ts).
TypeOK ==
    CASE part = "scope" -> Scope!TypeOK
      [] part = "triage" -> Triage!TypeOK
      [] part = "webhook" -> Webhook!TypeOK
      [] part = "authority" -> Authority!TypeOK
      [] part = "boundary" -> Boundary!TypeOK
      [] part = "issuer" -> Issuer!TypeOK
      [] part = "trust" -> Trust!TypeOK
      [] part = "endpoint" -> Endpoint!TypeOK

\* A track a person gave a manifest outlives every sync of scope-sync.ts, and no
\* step of policy.ts or classify-scope.ts puts a manifest on the track that merges
\* by itself.
TracksArePeoples ==
    part = "scope" => Scope!PeoplesTracksSurvive /\ Scope!OnlyPeopleGrantEmergency

\* A dependency review that passes has seen every finding that is new.
ReviewsFindWhatIsNew == part = "triage" => Triage!ReviewsFindWhatIsNew

\* store.ts and triage.ts hand an emergency out once.
HandedOutOnce == part = "triage" => Triage!HandedOutOnce

\* scan.ts writes an empty findings file only for lockfiles without findings.
NoFalseAllClear == Triage!NoFalseAllClear

\* A signal of github-webhook-fallback.ts counts a delivery once, in order, and a
\* rotation is suspected after as many failures in a row of one source: three in the
\* code and its test, where a comment of the file (:16) asks for more than three.
WebhookSignalsAreExact ==
    part = "webhook" => Webhook!EvidenceIsCountedOnceInOrder /\ Webhook!AlarmsAreThreeInARow

\* While the policy of a component of trusted-node-label-reconciler.ts is bound, a
\* write to the Node as such moves the protected label only if it is one of its own
\* Pods', and theirs move nothing else (writes through the Node's status the policy
\* does not match); and a deployment that has ended, or has come to the controller,
\* leaves it the authority its calls need, unless the policy sees the API server's
\* record of who manages the label.
AuthorityIsExact == Authority!AuthorityIsExact

\* What brokered-postgres-boundary-pack.ts accepts grants no identity more than
\* it needs, and runs nothing.
AcceptedBoundariesAreContained ==
    part = "boundary" => Boundary!AcceptedBoundariesAreContained

\* Unknown values do not hide what is already known to be wrong.
UnknownsHideNothingKnown == part = "boundary" => Boundary!UnknownsHideNothingKnown

\* WorkloadCapabilityIssuerBoundary is closed by its gate and its network in every
\* state of a rollout, and to no Pod of its own.
IssuersAreClosed == part = "issuer" => Issuer!IssuersAreClosed

\* What g-oidc-1.ts and g-oidc-2.ts let through admits jobs of one origin each,
\* and a deployment that ends well leaves none of them an administrator; the role
\* of github-aws-oidc-deployment-role.ts admits the jobs it was declared for.
TrustIsBounded == part = "trust" => Trust!TrustIsBounded

\* EksClusterFoundation, EksAdminAccessPath and the EKS cluster pack open the endpoint
\* of a cluster to those it was declared for, and never shut them out.
EndpointsAreReachedAsDeclared ==
    part = "endpoint" => Endpoint!EndpointsAreReachedAsDeclared
=============================================================================
