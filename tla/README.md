# A TLA+ development of hulumi

hulumi is a TypeScript monorepo of Pulumi components and of the programs that
keep what they deploy honest: an in-cluster controller that decides which EKS
Nodes may carry a protected label, a drift classifier and an orphan reconciler
for Pulumi stacks, a live posture validator, a broker of GitHub tokens, a
supply-chain analysis pipeline, and policy packs that review what is deployed.
This directory models those programs in TLA+, checks the models with TLC on
small instances, and proves the central results with TLAPS for every value of
the constants.

Read it in this order: the inventory (what the system is), a section for each
part (modules, abstractions, runs, proofs), what the models found, what is only
model-checked, and what is not modelled.

## Inventory

Paths are relative to the repository. "State" is what survives from one call,
await or step to the next.

| component | where | state | operations | what is hard | what makes it correct |
|---|---|---|---|---|---|
| Trusted-node-label kernel | `packages/k8s-baseline/src/trusted-node-label-reconciler-core.ts` | none | decide about one Node, re-validate a plan, classify capacity | the order of ~20 checks, evidence of several ages, one instance in several groups | the label is added or kept exactly on proof; a failed proof revokes |
| Trusted-node-label controller | `trusted-node-label-controller.ts`, `-kubernetes.ts`, `-aws.ts` | the cycle's evidence, list, plan and counters; patches under way; metrics published | discovery, one attestation per Node, re-check, patch, publish, stop | the cluster and AWS move at every await; late, lost and repeated patches; crash and restart | the label moves only by a verdict about exactly the object it changes; reports are earned; labels follow the proof in both directions |
| Its authority: process, token provider, Pulumi component | `trusted-node-label-controller-main.ts`, `-eks-auth.ts`, `trusted-node-label-reconciler.ts` | the resources there are, a token of a minute | validate, declare, bring about, replace, sign, admit | programs that replace each other resource by resource and stop half way | the label moves by its own Pods only; a controller that is brought about finds its authority |
| Drift classifier | `packages/drift/src/classifier.ts`, `cache.ts`, `verdict.ts`, `monotonicity.ts`, `probe.ts` | one cache file per resource | classify, migrate the cache, invalidate | concurrent classifications around one file, torn writes, timeouts, degraded adapters | a verdict of high confidence is not silently demoted; a degraded run is never cached |
| Evidence adapters | `packages/drift/src/adapters/{cloudtrail,git-log,provider-version,kubernetes-api,automation-api}.ts` | the retries of a lookup | signal | several reads of a world that moves; a retry budget in attempts and time | what cannot be seen is not "no drift" |
| Orphan reconciler | `packages/drift/src/reconciler.ts`, `discovery.ts`, `adapters/s3-sweeper.ts`, `adapters/cloudwatch-log-group.ts` | confirmation tokens, execution locks | plan, execute | plans that outlive what they were made for, overlapping executions, partial failure | nothing is deleted that the plan's guardrails did not clear |
| Live validator | `packages/drift/src/live-validator.ts`, `cli.ts` | a worker pool | validate, render | timeouts, caps, failures of single providers | a clean exit means every provider was evaluated |
| GitHub webhook fallback | `packages/drift/src/adapters/github-webhook-fallback.ts` | idempotency map, event list, rotation counters | ingest, signal | redelivery, reordering, secret rotation, eviction, restart | a delivery counts once; a rotation is suspected for a reason |
| GitHub App token broker | `packages/k8s-baseline/src/github-app-credential.ts` | a secret's value and tag, the deployed functions | deploy, populate, mint a scoped token | every step calls out while the scope, the key and the installation change | a token covers what both sides agreed on, or none is returned |
| Supply-chain scope | `tools/sca/src/discovery/discover.ts`, `scope/policy.ts`, `agents/classify-scope.ts`, `cli/scope-sync.ts` | the scope file | sync, apply | a person edits what a sync has read | only a person puts a manifest on the track that merges by itself |
| Supply-chain scan and triage | `tools/sca/src/cli/{scan,triage,dependency-review}.ts`, `evidence/normalize.ts`, `classify/route.ts`, `state/store.ts` | the scanner's cache, output files, the state store, work items | scan, triage, review | kills between two files, stale output, a scanner that dies | an empty report means empty lockfiles; an emergency is handed out once |
| Supply-chain remediation | `tools/sca/src/cli/{remediate,merge,digest,verify-ruleset}.ts`, `agents/*`, `audit/record.ts` | target files, plan, audit records | bind, review by an agent, replace, merge, digest | edits and commits between a check and a rename, an agent that answers late | what is replaced and released is what was reviewed |
| Brokered database boundary | `packages/platform-patterns/src/brokered-aurora-postgres-boundary.ts` | Pulumi's | validate, declare | forty resources whose relations carry the isolation | each identity has its own authority and reach |
| Its mandatory policy pack | `packages/policies/src/platform/brokered-postgres-boundary-pack.ts` | none | review a stack | other code edits the stack; values are unknown on a first preview | an accepted boundary is contained |
| Capability issuer boundary | `packages/platform-patterns/src/workload-capability-issuer-boundary.ts` | Pulumi's, the activation of the gate | validate, declare, activate, move, destroy | the order of a gate, a binding, an account and Pods | a Pod with the issuer's identity runs an activated envelope |
| Trust of GitHub's jobs | `packages/policies/src/github/g-oidc-{1,2}.ts`, `platform/deployment-governance-pack.ts`, `platform-patterns/src/{github-aws-oidc-deployment-role,runner-governance-foundation}.ts` | Pulumi's, suppressions that expire | review, deploy, open a session | unknown values, partial deployments, subject templates that change | the jobs one statement admits have one origin; none of them is an administrator |
| Endpoint of a cluster | `packages/k8s-baseline/src/{eks-cluster-foundation,eks-admin-access-path,cidr-coverage}.ts`, `packages/policies/src/k8s/eks-cluster-pack.ts` | Pulumi's, the security group's rules | validate, declare, review, deploy | a rule is named by its place in a list; CIDRs that add up to everyone | exactly the declared sources come in; a public endpoint is excused |
| Other policy packs | `packages/policies/src/**` | none | one predicate per resource | values | not modelled |
| Other declarative components | `packages/{platform-patterns,baseline,cloudflare-baseline}/src`, most of `k8s-baseline` | Pulumi's | construct resources | argument validation | not modelled |
| EKS upgrade planner | `packages/k8s-baseline/src/eks-upgrade-planner.ts` | none | advise | version skew | not modelled |
| Release and governance scripts | `scripts/*` | none | check files | thresholds | not modelled |

The components interact little. The controller talks to the Kubernetes API
server and to AWS, never to the other programs; the Pulumi component deploys it
with the admission policy its safety rests on, which is where
`NodeLabelAuthority` and `NodeLabelController` meet: the first shows what a Pod
with any intention can do, the second what the controller's own code intends.
The drift classifier takes what its adapters answer. A policy pack reads
what a component declared, and the two are in one model each time. The
supply-chain commands meet in files that a person or a workflow carries from
one to the next. So each composition that matters is inside one section below.

`PROJECT.json` lists every component with its files, what is modelled of it,
and the hazards: the places in the code where something can go wrong that a
unit test would hardly reach, with the properties that would catch it.

## The trusted-node-label reconciler

### Modules

| module | models | kind |
|---|---|---|
| `NodeLabelKernel` | `trusted-node-label-reconciler-core.ts`: `Plan` is `planTrustedNodeLabel`, check by check in the code's order; `PlanFailure` is `planTrustedNodeLabelFailure`; `PlanFor`, `PatchTestsPass`, `PlanStillValid`, `Capacity` are the patch, its test operations, `validateReconciliationPlan` and `classifyNodeGroupCapacity` | pure operators |
| `NodeLabelController` | `trusted-node-label-controller.ts` and its Kubernetes and AWS adapters, the API server, AWS, the network and the Deployment | state machine |
| `TrustedLabel` | what the reconciler promises of the label, with no cycles, evidence, messages or failures | abstract specification |
| `NodeLabelAuthority` | `trusted-node-label-reconciler.ts`, `trusted-node-label-controller-main.ts`, `trusted-node-label-controller-eks-auth.ts`: what a program declares, what there is while it is brought about, who gets a token, what the bound policies admit | state machine |
| `MCNodeLabelController`, `MCNodeLabelKernel` | the instances TLC checks | |
| `NodeLabelKernelProofs`, `NodeLabelControllerProofs`, `NodeLabelTrustProofs` | the theorems: the kernel; the controller's types and label; refinement, reports and attestation | proofs |

**State.** `node` and `rev` are the API server's objects and its resource
version counter; `cloud` is AWS; `now` is `Date.now()` in the controller. `pc`
is the await at which `runTrustedNodeLabelControllerCycle` stands; `evidence`,
`listed`, `todo`, `tally` and `plan` are its locals; `settled` is a history
variable (the listed Nodes found labelled, or patched), read by properties
only. `inflight` holds the PATCH requests that have left the controller and
have been neither executed nor lost, `reply` the answer to the one it awaits,
`sample` the metrics last published.

**Actions.** One action per await of the cycle. `DescribeNodeGroup`,
`DescribeAutoScalingGroups`, `ListGroupNodes` and `ListTrustedNodes` are the
discovery reads; `ProviderFailure` is any of them throwing, because the call
failed or because the code refuses its answer. `AttestNode` covers the EC2
lookup and everything the code does synchronously after it: the decision, its
counters and the choice of the next await. `RecheckPasses`/`RecheckFails`,
`SendPatch`/`SendFails`, `PatchAccepted`/`PatchRejected`/`PatchTimesOut` are
the application of one plan. `ServerPatch` is the API server executing a patch
atomically (test operations, admission, write). `LosePatch`, `LoseReply`,
`Crash`, `Signal`, `Restart` are failures of the network and the process. The
actions under "The cluster and the cloud" are everybody else.

A patch is a message that outlives the await that sent it: after
`PatchTimesOut` or `Crash` it stays in `inflight` and the API server may still
execute it, in a later cycle or beside a later patch for the same Node. That is
the case the test operations on uid, resourceVersion and provider ID exist for,
and the case unit tests with a fake API do not reach.

**The authority around it.** In `NodeLabelAuthority` a program is a set of components;
`there` holds the resources that exist, and `Bring`, `Remove` and `Finish` are the engine,
which may be interrupted anywhere and asked for another program. `Needs` is the `dependsOn`
of the code; an API refuses a second of what the program still has. `started` holds the
components whose controllers the present deployment has brought about. A Pod with the roles'
credentials signs a token that lasts a minute (`Sign`), and its write is reviewed by the
policies bound when it arrives (`Send`). A Pod may ask for anything: what a controller asks
for is the matter of `NodeLabelController`. A Node is written as such or through its status
(`WrittenAs`), and the API server takes labels with either. The policy matches the resource
`nodes` only (`Matched`, `trusted-node-label-reconciler.ts:420-428`), and the controller's
ClusterRole lets it patch that one only (`Patchable`, `:351-362`); `through` remembers which
was written. `AuthorityIsExact` has three parts: while a policy is bound no Node is created
with its label, and a write to the Node as such moves it only if one of the component's own
Pods sends it, between absent and its value and nothing else with it; a deployment that has
ended leaves every workable controller able to read and to move its label, and one that it
brings about has its roles and grants from then until the next deployment begins, whatever
stops in between; a token lasts its minute. `Workable` excludes what the code lets through
and cannot work: a cluster name the token signer refuses, and two components for one key.
Writes through the status by other identities are left out of the first part because nothing
prevents them (see "What the models found"). The policy also compares
`metadata.managedFields` (`:407`), in which the API server records who manages a label.
Whether a policy is shown the record of the write it reviews is the API server's matter, and
nothing in the repository settles it
(`docs/slo/design/eks-trusted-node-label-reconciler-threat-model.md:64` leaves the policy to
a live qualification). `ManagersShown` stands for it. The run has it FALSE, which the
component needs; were it TRUE, the controller's every patch would be refused by its own
policy. The theorem holds for both, and says nothing of the patch in the second case. Access
entries and IAM are taken to act at once.

**Abstractions.**
- Resource versions and uids are naturals; an object's uid is the version it
  was created with, so both are unique, as Kubernetes promises.
- A Node's ordinary labels and taints are one value of `Metas`; of them the
  code looks at the zone, the instance type and the taints. Node-group membership
  is `grp`: the selector of the first list and the candidate filter of the
  cycle test the same labels.
- `todo` is a set: the loop takes the listed Nodes in some order. The code
  uses the order of the list response; the API promises none.
- A paginated list is one read. Its pages are one snapshot on the API server's
  side (the continue token pins the version), so only the number of Nodes
  matters. The two selectors are two reads, and the torn snapshots between
  them are modelled.
- `aws.ts` bounds and parses provider answers; a refused answer is
  `ProviderFailure` or `EvidenceUnavailable`, as in the code.
- `ServerPatch` makes the test operations of the JSON patch, the admission
  decision and the write one step, as the API server does. The policy is
  taken not to see the API server's own record of field managers (`ManagersShown`
  in `NodeLabelAuthority` is about that).

### Runs

| run | instance | checks |
|---|---|---|
| `node_label_one` | 1 Node name, 2 instances, 2 Auto Scaling groups, every label value (absent, trusted, conflicting), **no** admission binding, 3 disturbances | `TypeOK`, `LabelMovesOnlyByItsVerdict`, `ImplementsTrustedLabel`, `TrustRestsOnProof` |
| `node_label_two` | 3 Node names of which a cycle may list 2, 2 instances, 1 Auto Scaling group, the admission binding in force, 2 disturbances, fairness | `CleanReportIsEarned`, `MissingCountsNodesOnce`, `AttestedNodesBecomeTrusted`, `TrustDoesNotOutliveProof`, `UntrustedNodesAreReported` |
| `tools`, part `kernel` | every kernel input within 3 changes of a trustworthy one | `ActsExactlyOnProof` |
| `delivery`, part `authority` | 2 programs (of 1 and of 2 components) and removal of all, 3 accounts, 2 protected keys and 2 values, 3 deployments, interruptions and foreign writes, as such or through the status, `ManagersShown` FALSE | `AuthorityIsExact` |
| `node_label_cordon` | as `node_label_two`, but a Node may be cordoned | violates `ReplacementIsAccepted` |
| `node_label_late` | as `node_label_one` with 1 group and the binding | violates `EvidenceIsFreshWhenApplied` |

**Bounds.** `MaxDisturbances` is the budget that every step the controller does
not take itself draws on: foreign writes, replacements, AWS changes, clock
steps, failed calls, lost messages, signals, crashes. Cycles are not bounded,
and neither is the number of patches a behaviour can send. Three disturbances
are what the hard interleavings take: a timeout that leaves a patch behind, the
Node replaced under it, and one more change (the label written by somebody
else, a second timeout, a clock step). With no binding and one Node every value
of the label is a starting point, so any pair of stale plan and object arises.
Two Nodes are needed where a property relates several Nodes of one cycle (the
report, the lists), and there two disturbances already combine a torn list, a
failed lookup or a lost patch with a change under it. A third is there to be one
too many: one behaviour starts with three, and a disturbance may add or take away one.
The label properties
about a single Node need no second one: the theorems below hold for any number.
`MaxAge` and `MaxSkew` are 1 tick in the controller instances, so one clock step is
tolerated and two are not. The kernel instance perturbs one fact per step; three
changes cover every pair of compensating faults (a double membership with an
unhealthy copy, a late capture with a moved clock) plus one.

**Fairness.** `WF(Controller)`: the controller is one async function, each of
whose awaits has a timeout or an answer, so its next step is never postponed for
ever. `WF(Server)`: a request that has reached the API server is executed. Loss
is an action of its own that draws on the budget, so fairness does not deny
it. `WF(Restart)`: the Deployment replaces a pod that stopped. No fairness is
assumed of anybody else. The liveness properties are therefore about finitely
many disturbances: they say that the system recovers once it is left alone, and
they are stated on conditions that hold from some point on (`<>[]`).

**What the runs show.** The label of a Node moves only because a patch decided
about exactly that object, at exactly that version, is executed, or because
somebody else wrote it; with `PolicyBinding` (the admission binding in force, and nobody who
moves the label through a Node's status, which no policy here reviews) nobody else can
(`ImplementsTrustedLabel`). No combination of snapshots taken at different times
makes the controller trust a Node that the evidence as a whole does not prove
(`TrustRestsOnProof`, and order-free in `ActsExactlyOnProof`). A cycle that
reports no failure has really labelled or found labelled every Node it listed.
And once disturbances end, attested Nodes get the label, unattested ones
lose it, and a Node without the label keeps producing failing samples, also where
there are more Nodes than a cycle may list.

### Proofs

The theorems hold for every set of Nodes, instances and groups, every policy,
every budget of disturbances, and with or without the admission binding. The
assumptions are `KernelAssumption` and `ControllerAssumption` (finite sets, the
null values outside the sets they stand beside, initial Nodes with distinct
versions, a positive maximum of Nodes); TLC evaluates both in every run.

| theorem | says | rests on |
|---|---|---|
| `TypeCorrect` | `TypeOK` always | itself inductive |
| `SafeInvariant` | the inductive invariant `SafeInv` | `TypeInv`, and one lemma per action |
| `LabelSafety` | `LabelMovesOnlyByItsVerdict` | `SafeInv` |
| `Refinement` | `ImplementsTrustedLabel` | `SafeInv` |
| `ProofPrecedesTrust` | `TrustRestsOnProof` | `AttestInv`, `ActsOnlyOnProof` |
| `CleanReports`, `MissingCounts` | `CleanReportIsEarned`, `MissingCountsNodesOnce` | `ReportInv` |
| `ActsOnlyOnProof`, `ProofIsActedOn`, `FailedProofIsRevoked` | the kernel decides exactly on proof, for every typed input | the definitions |

`LabelMovesOnlyByItsVerdict` is not inductive: from an arbitrary typed state, a
message could name a version of one Node while carrying the body of another, or
a version that the API server has yet to hand out. `SafeInv` adds the three
facts that rule this out. `WellVersioned`: no two objects share a version and
none is ahead of the counter. `HeldIsStillOrGone`: whatever the controller or
the network still holds of a Node (a listed snapshot, a plan, a patch) either is
what the Node is now, or carries a version that no Node has any more; since
versions only grow, "gone" is stable. `PlansAreBound`: a plan is `PlanFor` of
the snapshot it was made from. When a patch then passes its test on the
version, the object is the snapshot, which is the property.

`ReportInv` relates the counters to the list: the nodes settled and still to do
are listed ones (`InStep`), every missing label is accounted to a Node or to
the capacity gap (`CountedOnce`), and while no failure is counted every listed
Node is settled, still to do, or under the plan in hand (`CleanSoFar`).
`AttestInv` adds to the types that a cycle holds finitely many group snapshots:
the kernel counts the memberships of an instance over them, and `ActsOnlyOnProof`
needs the count to be of a finite set.

`ActsExactlyOnProof`, the form that names no order of the checks, is proved in
`ToolsProofs` from the three facts, and `AuthorityIsExact` in `DeliveryProofs`.
Only model-checked: the three liveness properties (the prover does not handle
fairness), and the two violations.

## The drift classifier

### Modules

| module | models | kind |
|---|---|---|
| `DriftVerdict` | the verdict: `verdict.ts` (`HardenedVerdict`), the gates and corrections of `classify` (`Degraded`, `Corrected`, `Attributed`, `MeetsMinConfidence`), `monotonicity.ts` (`AllowsWrite`) | pure operators |
| `DriftClassifier` | calls of `classify`, `migrateV1ToV2` and `invalidateCache` around the cache file of one resource | state machine |
| `MCDriftClassifier` | the instances TLC checks | |
| `DriftClassifierProofs` | the theorems | proofs |

**State.** `file` is what the cache file holds: an envelope of version 1 or 2,
or nothing (missing, empty, bytes that do not parse, another user's file).
`handles` are the actors that hold it open for writing, `backup` is
`<path>.v1.backup`. `call[c]` is where a call of `classify` stands and its
locals; `migration` the same for `migrateV1ToV2`. History, read by properties
only: `peak` (the highest confidence stored since the last invalidation), `torn`
(two windows from check to write have overlapped, or a write was cut short),
`legacy` (the v1 file, until somebody other than the migration replaces it), and
in an envelope `asked` and `from` (when the adapters were asked, and what they
answered).

**Actions.** `ServeCached` or `AskAdapters` is the first read; then
`AdaptersSettle` (`Promise.allSettled`), `ProbeAnswers` or `ProbeEnds` with the
judgement the code makes synchronously after it, `Reread` with the monotonicity
check, and `writeCache` in the two steps a reader can tell apart: `OpenCache`
truncates, `FillCache` writes. A write lands in the file its handle was opened
on: an unlinked file takes it away, and bytes written over a longer text leave
a tail that does not parse. `CallDies` and `MigrationDies` are a rejected file
operation or a crash at any step. The migration is `ReadLegacy`, `OpenBackup`,
`FillBackup`, `OpenMigrated`, `FillMigrated`.

**Abstractions.** An adapter's answer is "detected", "clean" or "failed", which
is all `classify` reads of it. A read of the file is one step (`readCache` calls
access, stat and readFile; its age check uses the clock at its start). The
caller's threshold is chosen at the point that reads it. Evidence texts,
recommendations, file modes and the GitHub map in the envelope are left out.

### Runs

| run | instance | checks |
|---|---|---|
| `drift_one` | 1 caller after another, all 81 answers, all 5 probe outcomes, 2 thresholds, 6 initial files, a time to live of 1, 3 disturbances | `StoredVerdictsAreSupported`, `LegacyOutlivesMigration`, `ServedEvidenceIsFresh` |
| `drift_two` | 2 callers, 3 answers (a high verdict, a medium one, a degraded run), 3 initial files, a time to live of 0, 2 disturbances, fairness | `TypeOK`, `ConfidenceIsKept`, `EveryCallReturns` |
| `drift_race` | 2 callers, no file, no disturbance | violates `HighIsNotDemoted` |
| `drift_legacy` | 1 caller, a v1 file, no disturbance | violates `BackupComesFirst` |

**Bounds.** Calls are not bounded: a caller starts again when it has returned.
`MaxDisturbances` is spent by clock ticks, invalidations, failed writes and
crashes. Two ticks make an entry stamped too late outlive its evidence and one
more lets the call that stored it be slow; two crashes and a tick cover a migration that
is cut short twice. Two callers and the migration are the three actors that can
meet at one file; a third caller adds no new pair of windows, and the theorems
hold for any number.

**Fairness.** `WF(CallStep(c))` for each caller: file operations end, the
adapters settle (SDK calls and the preview end or fail), and `p-timeout` ends
the probe. The probe's own answer is not fair, nobody has to start a call, and
no fairness is assumed of the migration. `EveryCallReturns` is therefore about
the probe's time limit: without it (the mutant) a call hangs.

**What the runs show.** High confidence in the cache always rests on a console
event that CloudTrail recorded, never on the delivery probe alone; a run whose
preview or registry lookup failed stores nothing; what is served is no older
than the time to live even when the call that stored it was slow; a v1 verdict
survives its migration. Confidence is kept past its time to live and across
failures before the write, but only as long as writers do not overlap:
`ConfidenceIsKept` says exactly how far the guard of `monotonicity.ts` carries.

### Proofs

For any set of callers, of initial files and answers, any time to live and any
number of disturbances, from `ClassifierAssumption`:

| theorem | says | rests on |
|---|---|---|
| `TypeCorrect` | `TypeOK` always | `TypedHonestly` |
| `StoredVerdictsSupported` | `StoredVerdictsAreSupported` | `HonestEntries`, `KeptVerdictsAreSupported` |
| `ServedEvidence` | `ServedEvidenceIsFresh` | `HonestEntries` |
| `ConfidenceKept` | `ConfidenceIsKept` | `Kept` |
| `LegacyOutlives` | `LegacyOutlivesMigration` | `MigrationSafe` |

`HonestEntries` carries the property of the file back along its path: the entry
in the file, the entry each call is about to write, and the v1 file the
migration holds are all stamped with the time their answers were asked for and
supported by them. `Kept` strengthens `ConfidenceIsKept` by what makes it
inductive before any overlap: there is one writer; if the file is open it is
as that writer's truncation left it; and the writer's own entry ranks as high as
anything stored, which the check established and nobody has changed since. After
an overlap the invariant claims nothing of the file, which is what the finding
`drift_race` shows to be necessary. `MigrationSafe` follows the v1 file through the
migration's steps: in the file until the backup holds it, in the backup from
then on. Only model-checked: `EveryCallReturns`, and the two violations.

## The two composed runs

`Tools` and `Delivery` each put several programs that share no state side
by side. The variable `part`, chosen initially and never changed, says which
of them is at work; the others rest in one of their own initial states, so a
behaviour of the composed module is a behaviour of one program. An invariant is
guarded by its `part`; an action or temporal property speaks of variables that
do not move while another part is at work. Names that several modules use are
substituted (`left <- trustLeft`). Each module is written to be instantiated by
itself, with its own constants, `Init`, `Next` and properties; the composed
modules hold nothing but the instances. `Tools` and `Delivery` have constants for
everything their programs are given and are what the theorems are about; `MCTools`
and `MCDelivery` give the values for TLC, and start the programs that are not at
work in one state each (`MCInit`, which implies `Init`, so that a theorem about
`Spec` covers the run).

| run | part | instance | checks |
|---|---|---|---|
| `tools` | `orphan` | 7 things (buckets, log groups in two places, recorder, channel, detector), 9 scenarios of requests, 2 executions, up to 2 disturbances | `ExecutionsExclude`, `DeletesAsPlanned`, `UndisturbedSweepsEmptyTheBucket`, `EveryCallEnds` |
| | `live` | 26 requests of up to 3 adapters, 2 workers | `CleanExitIsEarned`, `EveryCallEnds` |
| | `adapter` | 5 adapters, 4 worlds, 2 moves, 6 retry policies | `LastingDriftIsSeen`, `RetriesStayInBudget` |
| | `kernel` | see the trusted-node-label reconciler | `ActsExactlyOnProof` |
| | `broker` | 3 scopes, 2 requests, 2 key pairs, 2 owners, 3 changes | `CallsGetWhatWasAgreed` |
| | `remediation` | 2 target files (a JSON lockfile and a project file) with 5 pairs of contents to begin with, 3 scenarios, 2 rulesets, 1 edit, commit or kill, every answer of the agent | `ReplacesWhatWasReviewed`, `ReleasesAreReviewedAndAudited`, `RunsEnd` |
| `delivery` | `scope` | 3 manifests, 1 sync after another, 2 edits or moves | `TracksArePeoples` |
| | `triage` | 5 findings, 5 contents of the lockfiles, 2 processes, 1 kill, failure or change | `NoFalseAllClear`, `ReviewsFindWhatIsNew`, `HandedOutOnce` |
| | `webhook` | 3 deliveries of 2 sources, 3 arrivals, 2 secrets, a memory of 1 tick, a threshold of 2 | `WebhookSignalsAreExact` |
| | `authority` | see the trusted-node-label reconciler | `AuthorityIsExact` |
| | `boundary` | 2 boundaries, 2 edits by other code | `AcceptedBoundariesAreContained`, `UnknownsHideNothingKnown` |
| | `issuer` | 4 boundaries (a move, a change, a refused one), 1 Pod, 3 deployments, interruptions and activations | `IssuersAreClosed` |
| | `trust` | 15 programs, 5 jobs, 2 repositories, 3 deployments, interruptions and template changes, 1 tick | `TrustIsBounded` |
| | `endpoint` | 76 programs, 3 deployments and interruptions, 1 tick | `EndpointsAreReachedAsDeclared` |

**Bounds.** Each budget pays for what others do, and is the least at which
every action fires and every mutant of the part's properties is caught; where a hazard
needs several events together the budget covers them. A stale plan needs one
foreign change, a mistaken sweep one more between two pages. An alarm across two
sources needs three deliveries of two of them (the threshold is 2 where the code has
3: one more failure adds a repetition). A token of the wrong scope needs a
redeployment, a repopulation and a rotation within one call. A resource that hides
another's violation from the pack needs two edits. An authority that is
taken away half way needs a deployment, an interruption and another deployment, and so do
the rules of an access path; a fourth adds only another round. The scenarios
(`Situations`, `Orders`, `Looks`, `TrustPrograms`, `EndpointPrograms`, `Issuers`)
are lists because the inputs differ in kind, not in number.

`tools` has the programs whose liveness is checked, `delivery` has no fairness.
Both also check `TypeOK`. Deadlock is not checked in them: a program that has
answered, or whose budget is spent, stops.

### What is proved of the tools

`ToolsProofs` and `OrphanProofs`, which extends it, prove every safety property of the run,
its types included, for every inventory, request, order of adapters, file and ruleset, any
number of executions, workers and calls, and any budget. Each theorem rests on an
inductive invariant of its program.

| theorem | property | inductive invariant | why the property alone is not inductive |
|---|---|---|---|
| `Exclusion` | `ExecutionsExclude` | `Locked` | the table holds exactly the keys of the running executions, and these differ; without "exactly", a return could free another's lock |
| `Deletions` | `DeletesAsPlanned` | `Mandate` | a delete happens many calls after the guardrails: plans, the actions still to do and the action in hand are all ones the guardrails cleared, and the actions to do lie ahead of the one in hand in the order of the sort |
| `SweepsEmpty` | `UndisturbedSweepsEmptyTheBucket` | `Housekeeping` | while nothing has drawn on the budget since the sweep began, every version that is left and not protected lies ahead of the marker |
| `Agreed` | `CallsGetWhatWasAgreed` | `BrokerInv` | each of a call's locals is what it read, and while nothing disturbs it what is still there |
| `Replacements`, `Releases` | `ReplacesWhatWasReviewed`, `ReleasesAreReviewedAndAudited` | `Diligence` | a run carries the work items, the commit and the file versions it reviewed from step to step; the merger's plan is a reviewed one |
| `DriftIsSeen`, `RetriesAreBounded` | `LastingDriftIsSeen`, `RetriesStayInBudget` | `AdapterInv` | what an adapter has read came from worlds of this call; the time waited is the sum of the delays and below the limit at every lookup |
| `CleanExits` | `CleanExitIsEarned` | `Complete` | every adapter is ahead of the cursor, with exactly one worker, or has contributed; and what it contributed shows what is wrong with it (`WrongIsFound`) |
| `Decisions` | `ActsExactlyOnProof` | `Walked` | the inputs of the walk are typed and finite, which is what the theorems about the kernel need |
| `ToolsTypes` | `TypeOK` | the invariants above with `BrokerTypes`, `LiveTypes`, `AdapterTypes`, `RemediationTypes`, `OrphanTypes` | what is counted down is bounded by what is left (installations, merges), and what a call holds was typed where it was read |

The assumptions are those of `Tools`, which TLC evaluates on the run's values:

- `InventoryAssumption`: the inventory is finite, and entries that name the same
  resource agree on where it is and whether it is a singleton. The code does not
  check that part: the inventory comes from the tagging and listing APIs, where it
  holds, and if it did not, sweeping the bucket named by one entry would empty the
  bucket of another whose entry the guardrails would have kept.
- `RemediationAssumption`: there is at least one target file (`allowedPathsFor`); which
  of them are JSON is a constant of its own.
- `BrokerAssumption` and the bounds named in the others are numbers, and a request
  names one of the modes of the reconciler.
- `AdapterAssumption`: the adapters are the five of the package, retry options are
  numbers (`normalizeRetry`).
- `ValidatorAssumption`: at least one worker, a positive concurrency (`positiveInt`).
- `DecisionAssumption`: what the kernel takes of its constants.

Proving changed the models in three places where they could not be reasoned about or
said less than was meant: `Invoke` starts a broker's call undisturbed (a call
disturbed while idle used to count as disturbed, which made half of
`CallsGetWhatWasAgreed` vacuous for it); the adapters' `waited` is the sum of the
delays; the validator's cursor is the set of adapters taken, so that a worker takes
the first of those ahead instead of indexing into a sorted list, which no proof could
follow.

### What is proved of delivery

`DeliveryProofs` proves eight of the properties of the run `delivery`, for every
repository, lockfile, process, program, plan, host, delivery and clock, and any
budget. The other three are about what a policy pack lets through and are proved in
`PackProofs`: see "The brokered database boundary and its pack" and "The endpoint of a
cluster". `PackProofs`, which extends `DeliveryProofs`, has at its end the types of all of it.

| theorem | property | inductive invariant | why the property alone is not inductive |
|---|---|---|---|
| `TracksStay` | `TracksArePeoples` | `Peoples` | a sync carries what it found and proposes from step to step: a track that somebody gave while none was under way is in both, unchanged |
| `AllClears` | `NoFalseAllClear` | `Watchful` | a scan that has begun knows which lockfiles it saw; the raw output it is about to read is either its own or tells that it failed |
| `Reviews` | `ReviewsFindWhatIsNew` | `Watchful` | the two rounds of a review follow each other over one output file: what was saved of the first is what that round saw, and only one review is between its rounds |
| `HandedOut` | `HandedOutOnce` | `Claimed`, with `Watchful` | a key that is handed out, or about to be, is so by one process, and the store already says so |
| `AuthorityHolds` | `AuthorityIsExact` (of writes to the Node as such) | `Entitled` | every resource there is was declared by a component that passed its checks, an API keeps one of each, and what a started controller needs is neither replaced nor removed while the program has it; a token is of somebody who held a role when it was signed |
| `Closes` | `IssuersAreClosed` | `Closed` | see below |
| `SignalsExact` | `WebhookSignalsAreExact` | `Exact` | a delivery that was ingested is still remembered or is older than the memory, so two events of one delivery are more than `Ttl - MaxQueueing` apart; a counter says how many of a source's latest outcomes failed |
| `TrustHolds` | `TrustIsBounded` | `Bounded` | what is deployed and not excused has passed `G_OIDC_1`, a session without an excuse came through a door whose subjects say everything about the job, and after a deployment that ended well the stack has passed `G_OIDC_2` |
| `DeliveryTypes` | `TypeOK` | the invariants above and those of `PackProofs`, with `ScopeTypes`, `TriageTypes`, `WebhookTypes`, `AuthorityTypes`, `IssuerTypes`, `TrustTypes`, `ReviewTypes`, `EndpointTypes` | what a process holds was typed where it was read; a source has no more failures than the deliveries that were handed over, since each arrival adds to the queue and each failure takes from it (`Coming`) |

`TrustHolds` needs to know what a subject says. A repository's template is a list of keys
that a recursion flattens into a subject, and the policies read the subject back as pairs,
from the beginning; that the two fit is a fact about lists of any length.
`SubjectsAreTold` proves it by an induction over the template: as long as every part is a
pair, the keys are at the odd places and followed by the job's own values, and the one part
that is no pair comes with jobs without environment, whose values are no keys. So a policy
that finds a claim where it looks for it has found a true one (`ClaimsAreTrue`), and two jobs that
one exact door lets in are of one origin (`OneOriginEach`). An induction over the natural
numbers is done by `NatSetInduction`, which follows from the library's least elements of a
well-founded order (`WFMin`).

`Closed` is the one that took thought. `IdentityIsGuarded` speaks of the binding and the
role that are there now, and in a move from one plan to another the role, the gate, the
binding, the account and the Deployment change one after the other, any of them being the
last before an interruption. Nothing of the kind "every Pod is guarded" survives that: a Pod
may run under the name that the next plan will use. What does survive is relative to a plan.
While a deployment to a plan is under way the plan is `Prepared`: the Pods with its identity
are under the binding that is there and run an activated envelope, because a boundary either
stays where it stands or comes to a place where nothing runs under its name (`Up`). The plan
of the role that is there is `Known` to the gate and its account `Sheltered` by the binding.
And the Pods that both gate and binding are about are guarded, as are those that hold the
role's identity under the binding. `Orderly` says what `dependsOn` gives: a binding has a
gate, an account a binding. Each step of the engine exchanges one plan in these statements
for the other.

The assumptions are those of `Delivery`, which TLC evaluates on the run's values. Each also
says that the bounds of its program are natural numbers.

- `ScopeAssumption`: what a person writes are tracks that there are.
- `TriageAssumption`: the lockfiles and the base hold findings that are named; the cache
  holds nothing, the pinned scanner or something else.
- `LabelAssumption`: the protected keys are label keys, no component has the
  name that stands for nobody's in the model, and a policy is shown the API server's
  record of a write or is not (`ManagersShown`).
- `BoundaryAssumption`: see "The brokered database boundary and its pack".
- `IssuerAssumption`: no plan has the name that stands for none; a network has the
  endpoints that a valid plan names, and none of them belongs to the security group
  that the boundary makes itself; no argument of the caller's is one that the gate's
  textual replacement changes. The last one the code does not check, and the run
  `issuer_words` shows what happens without it: `OwnPodsFit` fails. The theorem says that
  this is the only way.
- `TrustAssumption`: templates are lists of the keys that are modelled; a workflow file is in
  one repository; a job's repository,
  workflow and ref are none of these keys (they have slashes; an environment may have any
  name); a trust document that cannot be read admits nobody; a condition that is written as
  a scalar has one value; a policy that means everything says so with a wildcard; a deployment
  role names an environment, a ref or neither.
- `EndpointAssumption`: see "The endpoint of a cluster".
- `WebhookAssumption`: the time to live and the queueing time are natural numbers and
  the threshold a positive one (they are constants of the code); there is a first secret.

Proving changed the models in five places. `NodeLabelAuthority` has `started` and the
refusal in `Bring`: "brought about" used to be read off the resources, which said nothing
once a later step removed one. The scanner's bootstrap fails on any answer it does not
know. `BrokerReview` computes what may be edited once. `After` of the rollout is
transitively closed, as the engine waits for dependencies of dependencies; before,
an interrupted deletion could leave an order that no deployment takes. `Signal` takes
the events of its window in any strict order by arrival and ingestion, of which there is
one, rather than sorting a list, which no proof could follow.

## The orphan reconciler

`OrphanPlan` holds, as operators, what `discoverReconcileTargets`,
`classifyTarget` and the guardrails make of an inventory, a state and a scope:
matching, ownership signals, singletons, recommendation, mode, cap and order.
`OrphanReconciler` is `plan` and `execute` around them. `plans` is
`rawActionsByToken`, `locks` the table of running executions; an execution
(`run[e]`) goes through the actions in order, and an executor's calls are
actions of their own: the sweeper's check, list page, delete page, aborts and
drop, the log group executor's lookup in the place its client operates in and
its delete. Executors the caller registers are one step. `Create`, `Remove`,
`Adopt`, `Release`, `Write`, `GrowOld` are other people between any two of
those; `CallFails` and `Crash` are failures. All draw on a budget.

A sweep lists from where the last page ended; a failed delete of single keys
is counted as done by the code, so `UndisturbedSweepsEmptyTheBucket` is about
versions nobody protects and sweeps nothing interferes with. A token never
expires and is good for any number of executions: `DeletesAsPlanned` therefore
speaks of the plan's guardrails, not of the world at execution time, and adds
what does hold then: id and placement are those of the plan. Nothing in
`execute` reads `dependsOn`; only the sort keeps a recorder after its channel.
Fairness: each call an executor makes ends, in an answer or an error.

What the runs show: no order of executions, crashes and foreign changes makes
an executor delete what no guardrail cleared, and the lock table holds exactly
the running executions, so equal executions never overlap and no lock outlives
one.

## The webhook fallback

`WebhookFallback` is `recordEvent` and `signal` (both synchronous, one action each) with a
GitHub that sends deliveries again and a receiver that holds them for a while and hands them
over in any order. The adapter's secret and GitHub's are rotated one after the other, and
`Restart` empties the memory. A signature is the secret it was made with.
`WebhookSignalsAreExact` says that a delivery counts once in any signal whose window the
memory covers, in order of arrival, and that an alarm means `Threshold` failures in a row of
that source (three in the code; see "What the models found" for a comment that says more).
Past the memory a redelivery does count again; the property names that boundary
(`report.length <= Ttl - MaxQueueing`). `SignalsExact` proves it for any delivery, order and
clock, so the boundary is where it should be.

## The live validator

`LiveValidator` is the command from its flags to its exit code: workers take
adapters from a shared cursor (`Take`, `Finish`), an adapter answers in time,
fails, or hangs until its timeout; `Cap`, normalisation and
`evaluateGitHubRunnerGovernance` are operators; rendering and the files follow.
`CleanExitIsEarned` is stated against the settings themselves (`Wrong`), not the
evaluation's words. Fairness: timers fire. A configured provider without checks
contributes nothing and passes; this is the code's behaviour and within
the property, which speaks of adapters asked to run.

## The evidence adapters

`DriftAdapters` lets the world move between any two reads of a call and keeps
the worlds the call has lived through. `LastingDriftIsSeen` is the weakest claim
that the classifier needs and the strongest one that holds: an adapter says that
it looked and saw nothing only if there was no drift at some moment of the call,
or between two moments. The converse fails for the Kubernetes adapter (live and
desired come from two reads) and is not claimed. `RetriesStayInBudget` covers
CloudTrail's doubling delays, the cap at `Number.MAX_SAFE_INTEGER` and the
attempts.

## The GitHub App token broker

`GitHubAppBroker` has two sides: Pulumi builds a scope's digest into a broker
(`Deploy`, `CreateBroker`, `DeleteOldBrokers`: a new scope is a new function, and
the old one runs until it is deleted), and an operator stores key and scope in
the secret (`Populate` reads the tag, `PutSecret` stores: two steps). A call is
`Invoke`, `ReadSecret`, `Lookup`, `Mint`, each of which may fail. `CallsGetWhatWasAgreed`
says what a token covers whatever changes in between, and that a call nothing
disturbs is refused only for a reason (`agreeable`), so that a broker that
refuses everything does not satisfy it.

## The supply-chain analysis

`ScaScope`: a sync reads the tree, then the scope file, asks a classifier (any
answer) about at most `SampleBudget` manifests, and writes. `TracksArePeoples`
joins the red line of `policy.ts` (only a person ever gives the track that merges
by itself) to the survival of tracks that people gave while no sync was under
way. A track changed during a sync may be overwritten by it, which is why the
property says "while no sync".

`ScaTriage`: the scanner's bootstrap (download, install, rename, verify), the
scan with its raw output, triage (read, save, hand out), and the dependency
review with its two scans, as processes that meet in files. Each may be killed
between two steps (`Kill`), the scanner may die, lockfiles change.
`NoFalseAllClear`: an empty findings file means empty lockfiles.
`HandedOutOnce` leaves out two triages that wrote over each other's store
(`raced`): the store has no compare-and-swap, and both would claim.

`ScaRemediation`: `Bind` to the reviewed work items and commit, the bounded review by an
agent that may answer anything, late or never, then per target file `Read`, `Reread`,
`Revise`, `Stage`, `Check`, `Rename`, and the plan; the merge gate with its audit record and
release; the digest. People edit and commit meanwhile. A content is what a file says of the
package and whether its bytes are those that writing it out anew gives: a JSON target
(`Json`) is parsed and written out (`remediate.ts:1024`, `1047`, `1091`), so one that was
formatted otherwise is replaced though it never named the vulnerable version, and one that
does not parse is an error; a text (`requirements.txt`, `.csproj`) only has the version
exchanged. `ReplacesWhatWasReviewed` says "as of the last check": between the check and the
rename nothing prevents an edit (`tools/sca/README.md:34` admits it), so `atHead` and
`atFile` remember how much of the budget was left when the code looked. It also says what a
replacement does: the file says the same afterwards but for the exact vulnerable version,
and a file without that version is only ever replaced as JSON that was written otherwise.
`RunsEnd` is liveness: files and git answer, and the agent's timer runs.

## The brokered database boundary and its pack

`BrokerBoundary` is what the component accepts and declares: roles with trust
and policies, secrets, security groups and rules, network policies, workloads,
admission. `BrokerPack` is every check of `validateBoundary` as operators
over such a stack. `BrokerReview` puts other code of the same program between
them: up to two resources added, dropped or altered to any of a set of plausible
variants (`Additions`, `Alterations`), a first preview with unknown values, and
the final validation. `BrokerArgs` holds the arguments. The properties are
written from the outside: `Intended` is the table of who may do what, and
`AcceptedBoundariesAreContained` computes effective authority and reach from
the resources, the way IAM, EC2 and Kubernetes do, never with the pack's own
checks. `UnknownsHideNothingKnown` compares the first preview with a review of
the known values. Two edits are enough for a resource that violates a
check together with one that would mask it; the `master` secret's ARN unknown on
a first preview stops the pack before trust and secrets, which the property
excludes by `args.masterKnown`.

Abstractions: formats checked by `validateArgs` are members of sets; Services
and images are left out; symmetric resources (the resolvers' rules, the
migrator's) are represented by one of each kind: the edits leave the others alone (`Spared`).

**Proofs.** `PackProofs` proves both properties, for every set of arguments and every
sequence of the edits modelled. They rest on `BoundaryAssumption` (in `Delivery`):
arguments have two application secrets, an account for each kind and the endpoints by
name, as their types say, and other code touches three resources at most.

- *What the pack accepts.* `ReviewContains` speaks of any stack, not only of those the
  edits lead to: it asks of a resource only that it has a kind and is known by what the
  pack knows it by (`Fine`), and that there are finitely many. From an empty report follow the
  three parts of containment, one lemma each. The core is `Grants`: the pack
  looks for one statement of each expected form and then only counts the Allow
  statements, so the proof counts them too, and what is left to show is that the expected ones
  differ and are as many as there are. That the secrets read are the application's
  is a count as well (`SecretsAre`). A trust names an account, and accounts of different
  kinds have different names (`ValidArgs`), so nobody acts as another kind.
- *What unknown values hide.* A first preview reads the roles in an order and stops at the
  first kind that has a role and an account of its own. Were there none, the model would not
  say where it stops; `Reviewed`, the inductive invariant, counts the kinds that have lost
  theirs (`Broken`): each touch costs one kind at most (`Edited`), so after three there is
  one left. With that every check that fails on unknown values is one that fails on the
  known ones (`EarlyGrows`, `IdentityFails`).
- *In between*, `Reviewed` says that a boundary is built of accepted arguments, that what
  was accepted was reported nothing of and not touched since, and that a report is of the stack
  it was made of.

TLC confirms `Reviewed` on the 163 857 states of the review with the five kinds of arguments
of `BrokerArgs`.

## The capability issuer

`IssuerDeclaration` is what the component accepts and declares; `IssuerRollout`
is its life: the engine brings resources about in any order `dependsOn` leaves,
is interrupted, moves the boundary to another namespace or account, destroys it;
people create Pods of the same ServiceAccount and change them, and an activation
replaces the gate. `IssuersAreClosed` has three parts. `IdentityIsGuarded`: where
the binding stands, a Pod that may assume the role runs an envelope that was
activated. `NetworkFitsAuthority`: the security groups and the NetworkPolicy
together open exactly what the authority needs, neither layer being that narrow
alone. `OwnPodsFit`: the gate admits the Pod of the Deployment it was declared
with. Two assumptions are explicit in the module's head: the ServiceAccount is
the boundary's own, and it comes to a place where nothing runs under its name.
`Closes` proves the property for any number of plans and Pods.

## Trust in GitHub's jobs

`DeploymentPolicies` holds the policies G_OIDC_1, G_OIDC_2 and DEPLOY_GOV_1 to 4,
with the two components' arguments and declarations; `Suppressions` how a policy
is silenced. `DeploymentTrust` deploys: a preview reviews the whole program
but for what meets an unknown value, an update reviews each resource before it
registers it and the stack at the end; deployments are stopped and replaced,
templates of subjects change, suppressions expire, jobs exchange tokens for
sessions. `SessionsAreOfOneOrigin` compares the sessions that one statement let
in, over time; `JobsAreNotAdministrators` computes effective permissions
from the documents; `ComponentRolesAdmit` is an equivalence: the role lets in
the jobs it was declared for and no others, under the documented template.
`TrustPrograms` lists programs and jobs of each kind that the policies' checks
tell apart.

## The endpoint of a cluster

`CidrCoverage` is `analyzeCidrCoverage`: parsing of written addresses with
their elisions, and the merge of sorted blocks. Its constants are the number and
the width of the groups of an address; the instance has addresses of 2 and 3
bits, where all addresses can be enumerated, and the properties use that
enumeration (`Everyone`) rather than the merge. `EksEndpoint` is what the
foundation and the access path accept and declare, the three rules of the
pack about the cluster, and the engine: rules are resources named by their
place in a list, replaced by creating the new before deleting the old, and AWS
refuses a duplicate. `EndpointPrograms` lists programs.

`EndpointsAreReachedAsDeclared`: an endpoint open to everyone was excused by a
live suppression and is not a foundation's; after a deployment that ends well
the security group admits exactly the program's sources, which are not
everyone; a private endpoint that keeps its rules has somebody come in; and a source
that kept its place in every program since the last full deployment is never
shut out, whatever fails. Some hazards lie just outside these words and are
the code's behaviour: a source that moves to another place fails once as a
duplicate and is deleted by the retry, which shuts it out meanwhile; replacing
one half of the Internet by the other admits both until the end of the
deployment; the access path's own expiry date is compared with nothing.

**Proofs.** `EndpointHolds` (in `PackProofs`) proves the whole property, for
every set of programs, every width of an address and any number of deployments,
failures and interruptions. It rests on `EndpointAssumption` (in `Delivery`): the
widths are numbers, lists are lists of written CIDRs, a program has at most one
access path and gets its cluster from the foundation, the path or its own code, and
only the foundation writes the foundation's tag.

- *The list of CIDRs.* `CoverageExact` says that the review of a list calls it open
  exactly when the blocks add up to every address of a family. The merge is a
  recursive function along the sorted list, so the proof first shows that such an
  order exists (`SomeOrdering`, by inserting one block at a time) and that the recursion
  has a solution (`Recursion`), then by induction that what is covered from zero after
  `i` blocks is exactly the run of addresses without a gap (`Growth`). The inductions
  are those of `NatSetInduction`, as for delivery.
- *The cluster.* `Screened`: a public cluster has an excuse and is no foundation's, or its
  list is narrow; and what was deployed was accepted. With `CoverageExact` this gives
  that no endpoint is open to everyone unexcused, and that fewer blocks than those of a
  narrow list do not add up to everyone either (`NarrowLists`), which is what a
  security group holds.
- *The ingress.* That it is what the program declares and keeps what kept its place is not
  inductive: the rules the engine knows and the sources AWS admits could disagree.
  `Consistent` adds that each admitted source is either known or replaced and not yet
  deleted, never both, and known under one place only; `Underway` that the rules
  registered so far are known and that the constant ones belong to the program.

TLC confirms `IInv` and `Screened` on the 30 447 states of the run's endpoint part.

## What the models found

- `node_label_cordon`: `parseTaints` refuses a taint whose `value` is absent,
  and one refused taint makes the whole list response an error. Kubernetes
  serialises taints without a value that way, `kubectl cordon` among them. One
  cordoned Node in the group therefore stops every decision about every Node of the
  group, replacements included, while the runbook's drill (BDD-6) expects the
  replacement to be accepted. The failure is visible: every cycle reports it.
- `node_label_late`: the trace document of the original specification says that
  applying a patch is enabled only while the evidence is fresh. The code checks
  freshness when it decides; the re-check before the patch compares the object,
  not the age, so a slow re-read or patch applies a decision on older evidence.

- `drift_race`: two classifications of one resource can both pass the
  monotonicity check over the same file; the later write wins, and a high verdict is
  replaced by a medium one without failure, expiry or invalidation.
- `drift_legacy`: the comment on the cache's schema promises that a v1 file is
  migrated, with a backup, on first read. `classify` never calls the migration: it
  takes the file for a miss and overwrites it.

- `broker_pack`: the pack that the component's documentation makes mandatory
  refuses what the component declares when `transportTls` is set, or when STS has
  an endpoint security group of its own.
- `issuer_words`: the gate's expected arguments are built with a textual
  replacement that also rewrites the caller's own words, so an issuer started
  with `--config=a.b` never starts once it is activated.

All are recorded under "findings" in `PROJECT.json` with the lines they quote.

Disagreements between code and words that have no run of their own:

- *Who moves the protected label.* `docs/components/eks-trusted-node-label-reconciler.md:78-81`
  says that the policy "keeps the protected label unchanged for every other identity". It
  matches the resource `nodes` (`trusted-node-label-reconciler.ts:420-428`), and an update of
  `nodes/status` may carry labels, too: an identity that may send one moves the label
  unreviewed. `NodeLabelAuthority` has those writes, and `AuthorityIsExact` excepts them.
  For kubelets the prefix of the key asks NodeRestriction to refuse; that is the
  cluster's configuration, not this repository's, and other identities are not concerned by it.
- *Whose record the policy compares.* `noPiggyback` (`:396-411`) wants
  `metadata.managedFields` unchanged, which a patch of a label normally changes; see
  `ManagersShown` above. If policies are shown the new record, the controller cannot patch at all.
- *How many failures suspect a rotation.* The head of `github-webhook-fallback.ts` (`:16`) and the
  heading at `docs/slo/lessons/hulumi-github-m4.md:44` say more than three consecutive HMAC
  failures. The code alarms at the third (`:34`, `:227`), as its test (`:194`),
  `docs/cookbooks/github-webhook-drift.md:161` and the text under that heading (`:46`) say.
  `WebhookSignalsAreExact` is about the code's three.
- *What an apply without the vulnerable version does.* "bounded remediation found no exact
  vulnerable version to replace" (`remediate.ts:984`) is thrown only if no byte would change. A
  JSON target that was formatted otherwise is rewritten, without a version having been
  replaced, and the apply succeeds.

Other behaviours the models show, within what the code promises and therefore
no findings, are recorded where the section of the component says what its
property excludes. The ones a maintainer may want to know:

- Orphan plans never expire, and `DeleteObjects` errors for single keys are
  counted as deleted (`s3-sweeper.ts:131`).
- Two triages that overlap both claim a finding (`store.ts:74`), the one hazard
  with no property: the run would only confirm it. A kill between the save of the
  state and that of the work items loses the claim instead.
- The runner foundation accepts `runsOn: ["self-hosted"]` and DEPLOY_GOV_3
  refuses it; DEPLOY_GOV_1 asks for a `job_workflow_ref` condition of its own
  where the deployment role puts it into the subject.
- A controller may start before the binding of its admission policy exists
  (`trusted-node-label-reconciler.ts:561-572` does not depend on `:448`); two components that
  protect one key in one cluster refuse each other's patches.
- A duplicate in an access path's list, or an IPv6 block among the IPv4 ones,
  passes validation and fails at AWS, after the endpoint has become private.

## What is proved, and what is only checked

TLC decides the twelve runs on the instances above; the theorems are about
every instance. Proved: the node-label controller's type, safety,
refinement, attestation and report properties, the kernel's four facts, the
drift classifier's five safety properties, every safety property of the run `tools`,
every safety property of the run `delivery`, its types included (scope, triage,
review, the claims, the controllers' authority, the boundary and its first preview, the
issuer, the trust in jobs, the webhook and a cluster's endpoint), that a stack of which
the boundary's pack reports nothing is contained, and that the review of a list of CIDRs is exact.

Only model-checked, and why:

- Everything temporal under fairness (`AttestedNodesBecomeTrusted`,
  `TrustDoesNotOutliveProof`, `UntrustedNodesAreReported`, `EveryCallReturns`,
  `EveryCallEnds`, `RunsEnd`): fairness needs ENABLED, which the prover does not
  handle.
- The findings, which are violations.

## Plan

Done, in this order: the trusted-node-label reconciler; the drift
classifier and its adapters; the orphan reconciler; the supply-chain analysis;
webhook fallback and live validator; the token broker; the authority of the
controllers; the brokered database boundary with its pack; the issuer; the
trust of GitHub's jobs; the endpoint of a cluster; the theorems about the tools, about delivery and
about the two policy packs.

Next, if the development is continued: larger instances for `broker` (two concurrent
calls) and `scope` (two syncs at once), which the composed runs have no time for.

## Not modelled

- Resources declared from arguments alone (add-ons, ingress, mesh, namespaces,
  Helm releases, backups, subnets; the AWS, GitHub and Cloudflare baselines; build
  provenance, origin ingress, the CodeBuild runner, the state backend): they keep no state and have
  no order beyond `dependsOn`; Pulumi's engine decides, and is not in the
  repository. A model of them would repeat the arguments.
- The policy packs whose rules are one predicate over one resource.
- The EKS upgrade planner: a pure function to a list of advice that nothing acts on.
- Release and governance scripts: text against patterns, no state between runs.
- Parsing, formatting, redaction and report rendering, where no property is
  about them. `PROJECT.json` says for each component what is left out and why.
