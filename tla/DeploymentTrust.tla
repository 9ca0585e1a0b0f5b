--------------------------- MODULE DeploymentTrust ---------------------------
(***************************************************************************)
(* How jobs of GitHub Actions come to the authority of a cloud: a Pulumi   *)
(* program declares roles, policies and what ties them together, the       *)
(* mandatory policies review it, the engine brings it about one resource   *)
(* after the other, may stop anywhere and may be asked for another program *)
(* at once; meanwhile repositories change the template of their subjects,  *)
(* suppressions expire, and jobs exchange their tokens for sessions.       *)
(*                                                                         *)
(* A preview reviews the whole program, except what meets a value that is  *)
(* not known yet; an update reviews each resource before it is brought     *)
(* about and the stack when all of them are there.                         *)
(***************************************************************************)
EXTENDS DeploymentPolicies

CONSTANTS
    Programs,         \* name |-> [resources, suppressions]
    Jobs,             \* [repo, workflow, environment, ref, event]
    Templates,        \* subject templates a repository may have
    Horizon,          \* bound on the clock
    MaxSessions,
    Limit             \* bound on deployments and changes

None == "none"

VARIABLES
    deployed,         \* the resources there are
    goal, op,         \* the program that is brought about, and whether it is
    outcome,          \* of the last deployment
    excused,          \* the URNs whose last review was suppressed
    templates,        \* of each repository
    sessions,         \* what was opened by which job, and by which statement
    clock,
    left

vars == <<deployed, goal, op, outcome, excused, templates, sessions, clock, left>>

Resources(p) == Programs[p].resources
Excuses(p) == Programs[p].suppressions
AllResources == UNION {Resources(p) : p \in DOMAIN Programs}
RepositoriesOfJobs == {j.repo : j \in Jobs}

TypeOK ==
    /\ deployed \subseteq AllResources
    /\ \A r, s \in deployed : Urn(r) = Urn(s) => r = s
    /\ goal \in DOMAIN Programs \cup {None} /\ op \in {"none", "up"}
    /\ outcome \in {"none", "refused", "failed", "stopped", "ok"}
    /\ templates \in [RepositoriesOfJobs -> Templates]
    /\ Cardinality(sessions) <= MaxSessions /\ clock \in 0..Horizon /\ left \in 0..Limit

Init ==
    /\ deployed = {} /\ goal = None /\ op = "none" /\ outcome = "none"
    /\ excused = {} /\ sessions = {} /\ clock = 0
    /\ templates \in [RepositoriesOfJobs -> Templates]
    /\ left = Limit

-----------------------------------------------------------------------------
(***************************************************************************)
(* Deployments                                                             *)
(***************************************************************************)
Spends == left > 0 /\ left' = left - 1

\* A review of the stack reads what only the provider knows of GitHub's roles and
\* of policies: for new ones it may end there.
NotKnown(resources) ==
    \/ \E r \in OfType(resources, {"role"}) : ~r.known
    \/ /\ GitHubRoles(resources) # {}
       /\ \E r \in GitHubRoles(resources) \cup OfType(resources, {"policy"}) :
             \A d \in deployed : Urn(d) # Urn(r)

Known(resource) == resource.type = "role" => resource.known

Previewed(p) ==
    /\ ~Throws(Resources(p))
    /\ \A r \in Resources(p) : Passes(r, Known(r), Excuses(p), clock)
    /\ NotKnown(Resources(p)) \/ StackPasses(Resources(p), Excuses(p), clock)

Up == op = "none" /\ Spends /\ \E p \in DOMAIN Programs :
    /\ \/ Previewed(p) /\ goal' = p /\ op' = "up" /\ UNCHANGED outcome
       \/ /\ NotKnown(Resources(p)) \/ ~Previewed(p)
          /\ outcome' = "refused" /\ UNCHANGED <<goal, op>>
    /\ UNCHANGED <<deployed, excused, templates, sessions, clock>>

\* A role and a policy come before what mentions them.
Needs(resource) ==
    CASE resource.type \in {"rolePolicy", "accessPolicy"} -> {<<"role", n>> : n \in resource.roles}
      [] resource.type = "attachment" ->
            {<<"role", n>> : n \in resource.roles}
            \cup {<<"policy", q.to>> : q \in {x \in resource.policies : x.by = "property"}}
      [] resource.type = "role" ->
            {<<"policy", q.to>> : q \in {x \in resource.managed : x.by = "property"}}
      [] OTHER -> {}

Others(resource) == {d \in deployed : Urn(d) # Urn(resource)}

Register(r) ==
    /\ op = "up" /\ r \notin deployed
    /\ \A x \in Resources(goal) \ deployed : Urn(x) \notin Needs(r)
    /\ IF Passes(r, TRUE, Excuses(goal), clock)
       THEN /\ deployed' = Others(r) \cup {r}
            /\ excused' = (excused \ {Urn(r)})
                  \cup {u \in {Urn(r)} : Suppressed("G_OIDC_1", u, Excuses(goal), clock)}
            /\ UNCHANGED <<op, outcome>>
       ELSE op' = "none" /\ outcome' = "failed" /\ UNCHANGED <<deployed, excused>>
    /\ UNCHANGED <<goal, templates, sessions, clock, left>>

\* What the program has no longer is deleted at the end.
Finish ==
    /\ op = "up" /\ Resources(goal) \subseteq deployed
    /\ deployed' = Resources(goal)
    /\ op' = "none"
    /\ outcome' = IF StackPasses(Resources(goal), Excuses(goal), clock) THEN "ok" ELSE "failed"
    /\ excused' = (excused \ {Stack})
          \cup {u \in {Stack} : Suppressed("G_OIDC_2", u, Excuses(goal), clock)}
    /\ UNCHANGED <<goal, templates, sessions, clock, left>>

Interrupt ==
    /\ op = "up"
    /\ op' = "none" /\ outcome' = "stopped"
    /\ Spends
    /\ UNCHANGED <<deployed, goal, excused, templates, sessions, clock>>

Tick ==
    /\ clock < Horizon /\ clock' = clock + 1
    /\ UNCHANGED <<deployed, goal, op, outcome, excused, templates, sessions, left>>

-----------------------------------------------------------------------------
(***************************************************************************)
(* GitHub and the clouds                                                   *)
(***************************************************************************)
ChangeTemplate == \E repo \in RepositoriesOfJobs, t \in Templates :
    /\ t # templates[repo]
    /\ templates' = [templates EXCEPT ![repo] = t]
    /\ Spends
    /\ UNCHANGED <<deployed, goal, op, outcome, excused, sessions, clock>>

\* The part of a subject for one key of the template; the context is the
\* environment, else the event of a pull request, else the ref.
Part(key, job) ==
    CASE key = "repo" -> <<"repo", job.repo>>
      [] key = "job_workflow_ref" -> <<"job_workflow_ref", job.workflow>>
      [] key = "environment" -> <<"environment", job.environment>>
      [] key = "ref" -> <<"ref", job.ref>>
      [] key = "context" ->
            IF job.environment # Blank THEN <<"environment", job.environment>>
            ELSE IF job.event = "pull_request" THEN <<"pull_request">> ELSE <<"ref", job.ref>>

Subject(job) ==
    LET t == templates[job.repo] IN FlattenSeq([i \in DOMAIN t |-> Part(t[i], job)])

\* A pattern has its "*" at the end.
Like(pattern, subject) ==
    \/ pattern = subject
    \/ /\ pattern # <<>> /\ Last(pattern) = Wild
       /\ IsPrefix(Front(pattern), subject) /\ subject # Front(pattern)

\* AWS knows the subject and the audience of a token.
Holds(r, subject) ==
    CASE r.key = "aud" -> r.values = {<<"sts">>}
      [] r.key = "sub" -> IF r.operator = "StringLike" THEN \E v \in r.values : Like(v, subject)
                          ELSE subject \in r.values
      [] OTHER -> FALSE

Claim(job, assertion) ==
    CASE assertion = "repository" -> job.repo
      [] assertion = "job_workflow_ref" -> job.workflow
      [] assertion = "environment" -> job.environment
      [] assertion = "ref" -> job.ref

AlternativeHolds(e, job) ==
    IF e.operator = "==" THEN Claim(job, e.assertion) = e.value ELSE Claim(job, e.assertion) # e.value

\* The statements, or what stands for one, by which a job comes in.
Doors(resource, job) ==
    CASE resource.type = "role" ->
            LET subject == Subject(job) IN
            {s \in resource.trust.statements :
                OfGitHub(s) /\ \A r \in s.restrictions : Holds(r, subject)}
      [] resource.type = "azure" -> {x \in {resource.subject} : x = Subject(job)}
      [] resource.type = "gcp" ->
            {c \in {resource.condition} : \A i \in DOMAIN c.clauses :
                \E e \in c.clauses[i] : AlternativeHolds(e, job)}
      [] OTHER -> {}

Assume ==
    /\ Cardinality(sessions) < MaxSessions
    /\ \E r \in deployed, job \in Jobs : \E door \in Doors(r, job) :
          sessions' = sessions \cup
              {[job |-> job, of |-> Urn(r), door |-> door, excused |-> Urn(r) \in excused]}
    /\ UNCHANGED <<deployed, goal, op, outcome, excused, templates, clock, left>>

Next ==
    \/ Up \/ Finish \/ Interrupt \/ Tick \/ ChangeTemplate \/ Assume
    \/ op = "up" /\ \E r \in Resources(goal) : Register(r)

Spec == Init /\ [][Next]_vars

-----------------------------------------------------------------------------
OneOrigin(j, k) ==
    /\ j.repo = k.repo /\ j.workflow = k.workflow
    /\ j.environment = k.environment \/ j.ref = k.ref

\* Whatever is deployed, stopped half way, replaced or retried, and whatever the
\* repositories make of their subjects: the jobs that one statement of a reviewed
\* trust lets in are of one repository, one workflow and one context (G_OIDC_1).
SessionsAreOfOneOrigin ==
    \A s, t \in sessions :
        s.of = t.of /\ s.door = t.door /\ ~s.excused /\ ~t.excused => OneOrigin(s.job, t.job)

\* Everything a statement allows, in an account of two actions and two resources.
Everything == {"a1", "a2"} \X {"r1", "r2"}
Members(listed, all) == IF Wild \in listed THEN all ELSE listed \cap all
Allows(s) ==
    LET actions == Members(s.actions, {"a1", "a2"})
    IN  (IF s.complement THEN {"a1", "a2"} \ actions ELSE actions)
        \X Members(s.resources, {"r1", "r2"})

Documents(role) ==
    LET policies == role.managed
            \cup UNION {a.policies : a \in {x \in Attached(role, deployed) : x.type = "attachment"}}
    IN  role.inline
        \cup {p.document : p \in {q \in OfType(deployed, {"policy"}) :
                                     \E r \in policies : r.to = q.name}}
        \cup {a.document : a \in {x \in Attached(role, deployed) : x.type = "rolePolicy"}}

IsAdministrator(role) ==
    \/ \E d \in Documents(role) : \E s \in d : s.effect = "Allow" /\ Allows(s) = Everything
    \/ Administrator \in role.managed
    \/ \E a \in Attached(role, deployed) :
          \/ a.type = "attachment" /\ Administrator \in a.policies
          \/ a.type = "accessPolicy" /\ a.clusterAdmin /\ a.scope = "cluster"

\* A deployment that ends well leaves no administrator among the roles that jobs
\* can assume, whatever was not known at its preview (G_OIDC_2).
JobsAreNotAdministrators ==
    op = "none" /\ outcome = "ok" /\ Stack \notin excused =>
        \A role \in OfType(deployed, {"role"}) :
            (\E j \in Jobs : Doors(role, j) # {}) => ~IsAdministrator(role)

\* The role of a component lets in the jobs it was declared for, and no others, as
\* long as their repository has the documented template
\* (GitHubAwsOidcDeploymentRole; docs/components/github-aws-oidc-deployment-role.md:31).
Documented == <<"repo", "context", "job_workflow_ref">>
ComponentRolesAdmit ==
    \A c \in OfType(deployed, {"deploymentRole"}) :
        \A role \in {r \in OfType(deployed, {"role"}) : r.name = c.name}, j \in Jobs :
            templates[j.repo] = Documented /\ role = RoleOf(c.args) /\ c.args.audience = "sts" =>
                (Doors(role, j) # {} <=>
                    /\ j.repo = c.args.repository /\ j.workflow = c.args.workflow
                    /\ Part("context", j) = Context(c.args))

TrustIsBounded == SessionsAreOfOneOrigin /\ JobsAreNotAdministrators /\ ComponentRolesAdmit
=============================================================================
