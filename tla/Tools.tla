-------------------------------- MODULE Tools --------------------------------
(***************************************************************************)
(* The programs that run once per question beside the long-running ones:   *)
(* the orphan reconciler, the live validator and the evidence adapters of  *)
(* packages/drift, the decision kernel of the node-label controller and    *)
(* the broker of GitHub tokens of packages/k8s-baseline, and the           *)
(* remediation of tools/sca.  They share no state, so a behaviour is one   *)
(* of them at work: part says which.                                       *)
(***************************************************************************)
EXTENDS Integers, Sequences, FiniteSets

CONSTANTS
    \* The orphan reconciler.
    Executions, Catalogue, Situations, Places, Registered, AllowLists, ClientPlace,
    DeletesBuckets, Versions,
    \* The live validator.
    Orders, Workers, Formats,
    \* The evidence adapters.
    EvidenceAdapters, Looks, Policies, Windows, Unset, MaxSafe, MaxMoves,
    \* The decision kernel.
    Instances, Zones, RegionZones, Labels, NodeGroup, Account, Region, AllowedTypes,
    ExpectedTaints, LongNames, MaxAge, MaxSkew, MaxChanges,
    n1, long, i1, i2, a1, a2, z1, z2, m5, t3, NoInstance, NoZone, Trusted, Other, Absent,
    \* The broker of tokens.
    Calls, Requests, Scopes, AppKeys, Owners, Grants, Disturbances,
    \* Remediation and merge.
    Files, Json, Commands, Rulesets, MaxIterations, Rows, Mishaps

VARIABLES
    part,
    cloud, young, state, objects, asked, plans, locks, run, calls, budget,
    request, at, cursor, worker, findings, artifacts, code,
    world, adapter, policy, window, call, signal, waited, lookups, seen, moves,
    input, changes,
    tag, functions, update, tokenSecret, population, keys, installation, tokenCalls, left,
    files, staged, head, items, ruleset, remediation, plan, merger, audits, released, digest,
    remediations, remediationLeft

-----------------------------------------------------------------------------
Orphan == INSTANCE OrphanReconciler WITH
    Scenarios <- Situations, Allows <- AllowLists, Keys <- Versions

Live == INSTANCE LiveValidator WITH Requests <- Orders

Adapter == INSTANCE DriftAdapters WITH Adapters <- EvidenceAdapters, Worlds <- Looks

Kernel == INSTANCE MCNodeLabelKernel

Broker == INSTANCE GitHubAppBroker WITH
    Keys <- AppKeys, Limit <- Disturbances, secret <- tokenSecret, calls <- tokenCalls

Remediation == INSTANCE ScaRemediation WITH
    Scenarios <- Commands, Limit <- Rows, Budget <- Mishaps,
    run <- remediation, asked <- remediations, left <- remediationLeft

-----------------------------------------------------------------------------
\* What is taken of the inventory and of what plan is asked: bucket names are global, and
\* name, kind and place make one resource, so entries that name one resource agree about
\* it; a prefix is of a known form, and versions are listed by number.
ASSUME InventoryAssumption ==
    /\ IsFiniteSet(Orphan!Things) /\ Orphan!Things \subseteq Nat \ {Orphan!Nothing}
    /\ \A t \in Orphan!Things : IsFiniteSet(Catalogue[t].marks)
    /\ \A t, u \in Orphan!Things : Orphan!Id(t) = Orphan!Id(u) =>
          /\ Orphan!IsS3Bucket(t) /\ Orphan!IsS3Bucket(u) =>
                Orphan!Place(t) = Orphan!Place(u) /\ Catalogue[t].singleton = Catalogue[u].singleton
          /\ Orphan!Kind(t) = Orphan!Kind(u) /\ Orphan!Place(t) = Orphan!Place(u) =>
                Catalogue[t].singleton = Catalogue[u].singleton
    /\ Versions \subseteq Nat \ {0}
    /\ \A w \in Situations :
          /\ w.cloud \subseteq Orphan!Things /\ w.state \subseteq Orphan!Things
          /\ w.calls \in Nat /\ w.budget \in Nat
          /\ \A q \in w.asked : /\ q.mode \in Orphan!Modes
                                /\ q.scope.prefix \in {"none", "narrow", "broad"}
                                /\ q.scope.minSignals \in Nat /\ q.scope.maxActions \in Nat

\* What others may change is bounded.
ASSUME BrokerAssumption == Disturbances \in Nat

\* There is a file to replace: resolveTargets of remediate.ts refuses an emergency without.
ASSUME RemediationAssumption ==
    /\ Files \in Seq(STRING) /\ Files # << >>
    /\ Mishaps \in Nat /\ MaxIterations \in Nat

\* The adapters of packages/drift; retry options are numbers, as normalizeRetry of
\* cloudtrail.ts sees to.
ASSUME AdapterAssumption ==
    /\ EvidenceAdapters \subseteq {"CloudTrail", "GitLog", "ProviderVersion", "KubernetesApi", "AutomationApi"}
    /\ \A p \in Policies : p.attempts \in Int /\ p.backoff \in Int /\ p.maxElapsed \in Int
    /\ MaxSafe \in Nat /\ MaxMoves \in Nat

\* There is a worker, and adapters are a list: positiveInt of live-validator.ts.
ASSUME ValidatorAssumption ==
    /\ 1 \in Workers /\ Workers \subseteq Nat
    /\ \A r \in Orders : r.concurrency \in Nat \ {0} /\ IsFiniteSet(DOMAIN r.adapters)

\* What NodeLabelKernel takes of its constants, and that the walk stays among the
\* instances and zones there are.
ASSUME DecisionAssumption ==
    /\ Kernel!KernelAssumption
    /\ {i1, i2} \subseteq Instances /\ {z1, z2} \subseteq Zones

-----------------------------------------------------------------------------
orphanVars == <<cloud, young, state, objects, asked, plans, locks, run, calls, budget>>
liveVars == <<request, at, cursor, worker, findings, artifacts, code>>
adapterVars == <<world, adapter, policy, window, call, signal, waited, lookups, seen, moves>>
kernelVars == <<input, changes>>
brokerVars == <<tag, functions, update, tokenSecret, population, keys, installation, tokenCalls, left>>
remediationVars == <<files, staged, head, items, ruleset, remediation, plan, merger, audits,
                     released, digest, remediations, remediationLeft>>
vars == <<part, orphanVars, liveVars, adapterVars, kernelVars, brokerVars, remediationVars>>

Programs == {"orphan", "live", "adapter", "kernel", "broker", "remediation"}

Init ==
    /\ part \in Programs
    /\ Orphan!Init /\ Live!Init /\ Adapter!Init /\ Kernel!Init /\ Broker!Init /\ Remediation!Init

Next ==
    \/ /\ part = "orphan"
       /\ Orphan!Next
       /\ UNCHANGED <<part, liveVars, adapterVars, kernelVars, brokerVars, remediationVars>>
    \/ /\ part = "live"
       /\ Live!Next
       /\ UNCHANGED <<part, orphanVars, adapterVars, kernelVars, brokerVars, remediationVars>>
    \/ /\ part = "adapter"
       /\ Adapter!Next
       /\ UNCHANGED <<part, orphanVars, liveVars, kernelVars, brokerVars, remediationVars>>
    \/ /\ part = "kernel"
       /\ Kernel!Next
       /\ UNCHANGED <<part, orphanVars, liveVars, adapterVars, brokerVars, remediationVars>>
    \/ /\ part = "broker"
       /\ Broker!Next
       /\ UNCHANGED <<part, orphanVars, liveVars, adapterVars, kernelVars, remediationVars>>
    \/ /\ part = "remediation"
       /\ Remediation!Next
       /\ UNCHANGED <<part, orphanVars, liveVars, adapterVars, kernelVars, brokerVars>>

\* The fairness of the reconciler's executors, of the validator's command and of a
\* remediation.
Progress ==
    \/ /\ part = "orphan"
       /\ \E e \in Executions : Orphan!Runs(e)
       /\ UNCHANGED <<part, liveVars, adapterVars, kernelVars, brokerVars, remediationVars>>
    \/ /\ part = "live"
       /\ Live!Next
       /\ UNCHANGED <<part, orphanVars, adapterVars, kernelVars, brokerVars, remediationVars>>
    \/ /\ part = "remediation"
       /\ Remediation!Steps
       /\ UNCHANGED <<part, orphanVars, liveVars, adapterVars, kernelVars, brokerVars>>

Spec == Init /\ [][Next]_vars /\ WF_vars(Progress)

-----------------------------------------------------------------------------
(***************************************************************************)
(* Their properties; each module states them of its own variables.         *)
(***************************************************************************)
\* Every program's state is of its type (reconciler.ts, live-validator.ts, the
\* adapters, github-app-credential.ts, remediate.ts).
TypeOK ==
    CASE part = "orphan" -> Orphan!TypeOK
      [] part = "live" -> Live!TypeOK
      [] part = "adapter" -> Adapter!TypeOK
      [] part = "kernel" -> TRUE
      [] part = "broker" -> Broker!TypeOK
      [] part = "remediation" -> Remediation!TypeOK

\* The lock table of reconciler.ts keeps equal executions apart, and outlives none.
ExecutionsExclude == part = "orphan" => Orphan!ExecutionsExclude

\* Executors delete what the guardrails of classifyTarget cleared and nothing
\* else, in the account and region the plan found it in, and a Config recorder
\* after its delivery channel, which only the sort of reconciler.ts ensures.
DeletesAsPlanned ==
    /\ Orphan!OnlyClearedThingsAreDeleted
    /\ Orphan!DeletesWhereItPlanned
    /\ []Orphan!RecorderFollowsChannel

\* An undisturbed sweep of s3-sweeper.ts leaves no object version behind.
UndisturbedSweepsEmptyTheBucket == Orphan!UndisturbedSweepsEmptyTheBucket

\* Exit code 0 of live-validator.ts means everything was evaluated and passed.
CleanExitIsEarned == part = "live" => Live!CleanExitIsEarned

\* Every call of execute comes back, and the command of live-validator.ts ends,
\* whatever executors and adapters do.
EveryCallEnds ==
    /\ \A e \in Executions : Orphan!Running(e) ~> ~Orphan!Running(e)
    /\ part = "live" ~> at = "done"

\* No adapter reports a clean slate while there is drift throughout its call.
LastingDriftIsSeen == part = "adapter" => Adapter!LastingDriftIsSeen

\* The delays of cloudtrail.ts stay within the attempts and time allowed.
RetriesStayInBudget == part = "adapter" => Adapter!RetriesStayInBudget

\* The kernel's checks act on a Node exactly when its label is proved, and
\* revoke a label whose proof fails, whatever the order of the checks.
ActsExactlyOnProof ==
    part = "kernel" => Kernel!ActsExactlyOnProof /\ Kernel!FailedProofRevokes

\* A caller of the broker gets a token of the repository it asked for, with the
\* permissions agreed, whatever is rotated, repopulated or redeployed meanwhile.
CallsGetWhatWasAgreed == part = "broker" => Broker!CallsGetWhatWasAgreed

\* remediate.ts replaces a file at the commit and over the content it checked, and
\* changes no more than the vulnerable version and the way its JSON is written.
ReplacesWhatWasReviewed == part = "remediation" => Remediation!ReplacesWhatWasReviewed

\* merge.ts releases what was reviewed, rechecked and recorded.
ReleasesAreReviewedAndAudited ==
    part = "remediation" => Remediation!ReleasesAreReviewedAndAudited

\* A run of remediate.ts ends.
RunsEnd == Remediation!RunsEnd
=============================================================================
