----------------------------- MODULE OrphanPlan -----------------------------
(***************************************************************************)
(* What the orphan reconciler makes of what it is shown                    *)
(* (packages/drift/src/discovery.ts and the plan of reconciler.ts):        *)
(* discoverReconcileTargets matches a Pulumi state against a cloud         *)
(* inventory inside a scope, and classifyTarget decides about one target.  *)
(*                                                                         *)
(* Everything here is a function of the inventory (a set "cloud" of things *)
(* that exist, of them "young" those created a short while ago), the state *)
(* (a set "state" of things it records) and the request.                   *)
(***************************************************************************)
EXTENDS Integers, FiniteSets

CONSTANTS
    Catalogue,   \* the resources there can be, in the order of the inventory
    Places,      \* accounts and regions
    Registered   \* the action types that have an executor

Things == DOMAIN Catalogue

\* Of a resource: its Pulumi type, physical id, account and region, whether the
\* id or the Name tag starts with the scope's prefix, whether it has the tags
\* of the selector, the other signs of who owns it, the singleton flag.
Kind(t) == Catalogue[t].kind
Id(t) == Catalogue[t].id
Place(t) == Catalogue[t].place

Nothing == 0   \* no such thing

Kinds == {"bucket", "bucketPolicy", "analyzer", "trail", "logGroup", "channel", "recorder",
          "rule", "detector", "role", "key", "hub", "topic", "other"}
Modes == {"check-only", "plan", "state-only", "adopt-only", "sweep-only", "reconcile"}
Wishes == {"none", "refreshState", "codifyProduction", "importToState"}

\* nonS3AwsDeleteActionFamily, and requiresRegisteredExecutor of the same types.
Family == [analyzer |-> "deleteAccessAnalyzer", trail |-> "deleteCloudTrailTrail",
           logGroup |-> "deleteCloudWatchLogGroup", channel |-> "deleteConfigDeliveryChannel",
           recorder |-> "deleteConfigRecorder", rule |-> "deleteEventBridgeRule",
           detector |-> "deleteGuardDutyDetector", role |-> "deleteIamRole",
           key |-> "scheduleKmsKeyDeletion", hub |-> "deleteSecurityHubHub",
           topic |-> "deleteSnsTopic"]
Families == {Family[k] : k \in DOMAIN Family}

\* The pattern aws:s3/bucket is not anchored: a bucket policy matches it too.
IsS3Bucket(t) == Kind(t) \in {"bucket", "bucketPolicy"}
IsSecuritySingleton(t) == Kind(t) \in {"detector", "hub"}

-----------------------------------------------------------------------------
(***************************************************************************)
(* discoverReconcileTargets                                                *)
(***************************************************************************)
\* A scope: its prefix, its tag selector, the URNs it names, the things its
\* resource types and physical ids admit, its accounts and regions; and what
\* the plan asks of ownership, age, singletons and size.
HasSelector(s) ==
    s.prefix # "none" \/ s.tags \/ s.urns # Things \/ s.listed # Things

InventoryPrefix(t) == Catalogue[t].prefixed \/ Catalogue[t].named

OutOfScope(t, s) ==
    \/ Place(t) \notin s.places
    \/ t \notin s.listed
    \/ s.prefix # "none" /\ ~InventoryPrefix(t)
    \/ s.tags /\ ~Catalogue[t].selected

ScopedCloud(cloud, s) == {t \in cloud : ~OutOfScope(t, s)}

StateInScope(t, s) ==
    /\ t \in s.urns
    /\ t \in s.listed
    /\ s.prefix # "none" => Catalogue[t].prefixed

\* cloudByPhysicalId: of the things with one id, the last in the inventory.
InventoryOf(t, cloud, s) ==
    LET same == {c \in ScopedCloud(cloud, s) : Id(c) = Id(t)}
    IN  IF same = {} THEN Nothing ELSE CHOOSE c \in same : \A d \in same : d <= c

Matched(cloud, state, s) ==
    {Id(t) : t \in {u \in state : StateInScope(u, s) /\ InventoryOf(u, cloud, s) # Nothing}}

OwnershipEvidence(t, s) ==
    Catalogue[t].marks \union (IF s.prefix # "none" /\ InventoryPrefix(t)
                               THEN {"name-prefix"} ELSE {})

\* "seen" is the inventory entry a target takes its place, tags and age from.
Target(t, inState, seen, signals) ==
    [thing |-> t, inState |-> inState, inCloud |-> seen # Nothing, seen |-> seen,
     signals |-> signals]

Discover(cloud, state, s) ==
    {Target(t, TRUE, InventoryOf(t, cloud, s), {"pulumi-state"}) :
        t \in {u \in state : StateInScope(u, s)}}
    \union
    {Target(t, FALSE, t, OwnershipEvidence(t, s)) :
        t \in {u \in ScopedCloud(cloud, s) : Id(u) \notin Matched(cloud, state, s)}}

-----------------------------------------------------------------------------
(***************************************************************************)
(* classifyTarget                                                          *)
(***************************************************************************)
MatchesPrefix(g, s) ==
    \/ s.prefix = "none"
    \/ Catalogue[g.thing].prefixed
    \/ g.inCloud /\ Catalogue[g.seen].named

MatchesPlace(g, s) == s.places = Places \/ (g.inCloud /\ Place(g.seen) \in s.places)

Singleton(g) ==
    IsSecuritySingleton(g.thing) \/ (g.inCloud /\ Catalogue[g.seen].singleton)

\* Orphan: what the guardrails are strictest about.
CloudOnly(g) == ~g.inState /\ g.inCloud

Blocked(g, s, young) ==
    \/ CloudOnly(g) /\ s.prefix = "none"
    \/ ~MatchesPrefix(g, s)
    \/ ~MatchesPlace(g, s)
    \/ s.minAge /\ g.seen \in young
    \/ CloudOnly(g) /\ Cardinality(g.signals) < s.minSignals
    \/ Singleton(g) /\ ~s.singletons

\* What is recommended, as the type of an action and the decision behind it.
Recommend(type, decision) == [type |-> type, decision |-> decision]

Recommended(g, s, wish, young) ==
    CASE Blocked(g, s, young) ->
            IF Singleton(g) THEN Recommend("retainSharedSingleton", "retainExternal")
                            ELSE Recommend("retainUnsupportedResource", "blocked")
      [] ~Blocked(g, s, young) /\ g.inState /\ g.inCloud ->
            CASE wish = "refreshState" -> Recommend("refreshState", "refreshState")
              [] wish = "codifyProduction" -> Recommend("retainUnsupportedResource", wish)
              [] OTHER -> Recommend("retainUnsupportedResource", "noOp")
      [] ~Blocked(g, s, young) /\ g.inState /\ ~g.inCloud ->
            Recommend("stateDeleteAlreadyAbsentResource", "stateDelete")
      [] ~Blocked(g, s, young) /\ ~g.inState /\ g.inCloud ->
            CASE wish = "importToState" -> Recommend("importToState", "importToState")
              [] wish # "importToState" /\ IsS3Bucket(g.thing) ->
                    Recommend("drainS3BucketVersions", "deleteCloudResource")
              [] wish # "importToState" /\ Kind(g.thing) \in DOMAIN Family ->
                    Recommend(Family[Kind(g.thing)], "deleteCloudResource")
              [] OTHER -> Recommend("retainUnsupportedResource", "retainExternal")
      [] OTHER -> Recommend("retainUnsupportedResource", "blocked")

ModeAllows(mode, decision) ==
    \/ mode = "state-only" /\ decision \in {"stateDelete", "refreshState"}
    \/ mode = "adopt-only" /\ decision = "importToState"
    \/ mode = "sweep-only" /\ decision = "deleteCloudResource"
    \/ mode = "reconcile"

\* stateMutation or cloudMutation.
Mutates(decision) ==
    decision \in {"refreshState", "stateDelete", "importToState", "deleteCloudResource"}

Classified(g, s, mode, wish, young) ==
    LET r == Recommended(g, s, wish, young)
    IN  [target |-> g, type |-> r.type, decision |-> r.decision,
         executable |-> /\ ~Blocked(g, s, young)
                        /\ r.type \in Families => r.type \in Registered
                        /\ ModeAllows(mode, r.decision)
                        /\ Mutates(r.decision)]

\* A plan with more actions than its scope allows executes none of them.
Capped(actions, s) ==
    IF Cardinality(actions) > s.maxActions
    THEN {[a EXCEPT !.executable = FALSE] : a \in actions}
    ELSE actions

Planned(targets, s, mode, wish, young) ==
    Capped({Classified(g, s, mode, wish, young) : g \in targets}, s)

\* compareActions: by the name of the type, then by the resource.
ByName == <<"deleteAccessAnalyzer", "deleteCloudTrailTrail", "deleteCloudWatchLogGroup",
            "deleteConfigDeliveryChannel", "deleteConfigRecorder", "deleteEventBridgeRule",
            "deleteGuardDutyDetector", "deleteIamRole", "deleteSecurityHubHub",
            "deleteSnsTopic", "drainS3BucketVersions", "importToState", "refreshState",
            "retainSharedSingleton", "retainUnsupportedResource", "scheduleKmsKeyDeletion",
            "stateDeleteAlreadyAbsentResource">>

Position(type) == CHOOSE i \in DOMAIN ByName : ByName[i] = type

Precedes(a, b) ==
    \/ Position(a.type) < Position(b.type)
    \/ a.type = b.type /\ a.target.thing < b.target.thing

\* addConfigDependencies: a recorder waits for the first delivery channel beside it.
DependsOn(a, actions) ==
    LET channels == {b \in actions : /\ b.type = "deleteConfigDeliveryChannel"
                                      /\ Place(b.target.thing) = Place(a.target.thing)}
    IN  {b \in channels : /\ a.type = "deleteConfigRecorder"
                          /\ \A c \in channels : ~Precedes(c, b)}
=============================================================================
