-------------------------- MODULE OrphanReconciler --------------------------
(***************************************************************************)
(* OrphanReconciler.plan and .execute (packages/drift/src/reconciler.ts),  *)
(* with the executors of the package: the S3 sweeper and the CloudWatch    *)
(* log group executor.  Other executors are the caller's.                  *)
(*                                                                         *)
(* plan keeps the actions it decided on under the confirmation token it    *)
(* returns; execute, given that token, calls one executor after another.   *)
(* Between the discovery and the plan's last action anybody else may       *)
(* create, delete, adopt and release resources, and several executions     *)
(* interleave at every call an executor makes.  What others do, failed     *)
(* calls and the end of the process each take one unit of "budget".        *)
(***************************************************************************)
EXTENDS OrphanPlan

CONSTANTS
    Executions,      \* calls of execute
    Scenarios,       \* what exists, what the state records, what plan will be
                     \* asked, and the bounds: calls of execute, units of budget
    Allows,          \* options.allow: decisions, or none for all
    ClientPlace,     \* where the log group executor's client operates
    DeletesBuckets,  \* the sweeper's deleteBucket
    Keys             \* object versions of a bucket, in listing order

VARIABLES
    cloud,    \* the things that exist
    young,    \* those created less than minAgeMinutes ago
    state,    \* the things some Pulumi state records
    objects,  \* the object versions in each bucket
    asked,    \* the requests plan has yet to be asked: scope, mode and wish
    plans,    \* rawActionsByToken
    locks,    \* activeExecutionLocks
    run,      \* the calls of execute
    calls,    \* calls of execute left
    budget    \* disturbances left

world == <<cloud, young, state, objects>>
vars == <<world, asked, plans, locks, run, calls, budget>>

None == [type |-> "none"]
Idle == [at |-> "idle"]
Awaits == {"check", "list", "delete", "abort", "drop", "place", "describe", "droplog", "call"}

\* executionLockKey: the mode, the scope and the ids of the actions.
Key(p) == [mode |-> p.mode, scope |-> p.scope,
           actions |-> {<<a.target.thing, Kind(a.target.thing)>> : a \in p.actions}]

Statuses == {"none", "succeeded", "failed", "blocked"}

TypeOK ==
    /\ cloud \subseteq Things /\ young \subseteq Things /\ state \subseteq Things
    /\ objects \in [Things -> SUBSET Keys]
    /\ \A p \in plans : p.mode \in Modes
    /\ \A e \in Executions :
          \/ run[e] = Idle
          \/ /\ run[e].at \in Awaits \union {"loop"}
             /\ run[e].todo \subseteq run[e].plan.actions
             /\ run[e].marker \in Keys \union {0}
             /\ run[e].status \in Statuses
    /\ budget \in Nat /\ calls \in Nat

\* Variant: the lock is taken and not looked at.
NeverLocked(p) == TRUE

Unlocked(p) == Key(p) \notin locks

Init ==
    /\ \E w \in Scenarios :
          /\ cloud = w.cloud /\ state = w.state /\ asked = w.asked
          /\ calls = w.calls /\ budget = w.budget
    /\ young = {}
    /\ objects = [t \in Things |-> IF Kind(t) = "bucket" THEN Keys ELSE {}]
    /\ plans = {}
    /\ locks = {}
    /\ run = [e \in Executions |-> Idle]

-----------------------------------------------------------------------------
(***************************************************************************)
(* plan                                                                    *)
(***************************************************************************)
\* The caller discovers and plans with the same scope.  A broad prefix and a
\* scope with no selector throw.
Plan(q) ==
    /\ asked' = asked \ {q}
    /\ HasSelector(q.scope)
    /\ q.scope.prefix # "broad"
    /\ LET targets == Discover(cloud, state, q.scope)
       IN  plans' = plans \union
              {[mode |-> q.mode, scope |-> q.scope,
                actions |-> Planned(targets, q.scope, q.mode, q.wish, young)]}
    /\ UNCHANGED <<world, locks, run, calls, budget>>

-----------------------------------------------------------------------------
(***************************************************************************)
(* execute                                                                 *)
(***************************************************************************)
\* A read-only plan, an unknown token and a lock that is held are refused.
Execute(e, p, allow) ==
    /\ run[e] = Idle
    /\ calls > 0
    /\ calls' = calls - 1
    /\ p.mode \notin {"check-only", "plan"}
    /\ Unlocked(p)
    /\ locks' = locks \union {Key(p)}
    /\ run' = [run EXCEPT ![e] = [at |-> "loop", plan |-> p, allow |-> allow,
                                  todo |-> p.actions, action |-> None, marker |-> 0,
                                  page |-> Nothing, more |-> FALSE, status |-> "none",
                                  began |-> budget]]
    /\ UNCHANGED <<world, asked, plans, budget>>

First(actions) == {a \in actions : \A b \in actions \ {a} : Precedes(a, b)}

MayRun(e, a) ==
    /\ a.executable
    /\ run[e].allow = {} \/ a.decision \in run[e].allow
    /\ a.type \in Registered

\* "blocked" or "skipped": the loop goes on.
Pass(e) ==
    /\ run[e].at = "loop"
    /\ \E a \in First(run[e].todo) :
          /\ ~MayRun(e, a)
          /\ run' = [run EXCEPT ![e].todo = @ \ {a}]
    /\ UNCHANGED <<world, asked, plans, locks, calls, budget>>

\* Where the executor of a type starts.
Start(type) ==
    CASE type = "drainS3BucketVersions" -> "check"
      [] type = "deleteCloudWatchLogGroup" -> "place"
      [] OTHER -> "call"

Dispatch(e) ==
    /\ run[e].at = "loop"
    /\ \E a \in First(run[e].todo) :
          /\ MayRun(e, a)
          /\ run' = [run EXCEPT ![e].todo = @ \ {a}, ![e].at = Start(a.type),
                                ![e].action = a, ![e].marker = 0, ![e].began = budget]
    /\ UNCHANGED <<world, asked, plans, locks, calls, budget>>

\* The executor answered, or threw: safeErrorMessage and on with the loop.
Answered(e, status) ==
    run' = [run EXCEPT ![e].at = "loop", ![e].action = None, ![e].status = status]

Goes(e, call) == run' = [run EXCEPT ![e].at = call]

Return(e) ==
    /\ run[e].at = "loop"
    /\ run[e].todo = {}
    /\ run' = [run EXCEPT ![e] = Idle]
    /\ locks' = locks \ {Key(run[e].plan)}
    /\ UNCHANGED <<world, asked, plans, calls, budget>>

-----------------------------------------------------------------------------
(***************************************************************************)
(* The S3 sweeper                                                          *)
(***************************************************************************)
\* The buckets of the action's physical id: there is at most one.
Buckets(e) == {t \in cloud : Kind(t) = "bucket" /\ Id(t) = Id(run[e].action.target.thing)}
Objects(e) == UNION {objects[t] : t \in Buckets(e)}

\* The name is checked first; then requester-pays and object lock are refused,
\* while a bucket that is gone passes.
SweepCheck(e) ==
    /\ run[e].at = "check"
    /\ IF ~Catalogue[run[e].action.target.thing].prefixed THEN Answered(e, "blocked")
       ELSE IF \E t \in Buckets(e) : Catalogue[t].locked THEN Answered(e, "failed")
       ELSE Goes(e, "list")
    /\ UNCHANGED <<world, asked, plans, locks, calls, budget>>

\* NoSuchBucket ends a sweep with success, at any of its calls.
SweepAbsent(e) ==
    /\ run[e].at \in {"list", "delete", "abort", "drop"}
    /\ Buckets(e) = {}
    /\ Answered(e, "succeeded")
    /\ UNCHANGED <<world, asked, plans, locks, calls, budget>>

\* ListObjectVersions: a page of one version, and whether there are more.
SweepList(e) ==
    /\ run[e].at = "list"
    /\ Buckets(e) # {}
    /\ LET left == {k \in Objects(e) : k > run[e].marker}
       IN  IF left = {} THEN Goes(e, "abort")
           ELSE \E k \in left :
                   /\ \A l \in left : k <= l
                   /\ run' = [run EXCEPT ![e].at = "delete", ![e].page = k,
                                         ![e].more = left # {k}]
    /\ UNCHANGED <<world, asked, plans, locks, calls, budget>>

\* DeleteObjects: a key whose deletion is denied fails without failing the call.
Emptied(e, page) ==
    [t \in Things |-> IF t \in Buckets(e) THEN objects[t] \ ({page} \ Catalogue[t].held)
                      ELSE objects[t]]

\* Variant: the listing stops after its first page.
SweepOnePage(e) ==
    /\ run[e].at = "delete"
    /\ Buckets(e) # {}
    /\ objects' = Emptied(e, run[e].page)
    /\ Goes(e, "abort")
    /\ UNCHANGED <<cloud, young, state, asked, plans, locks, calls, budget>>

SweepDelete(e) ==
    /\ run[e].at = "delete"
    /\ Buckets(e) # {}
    /\ objects' = Emptied(e, run[e].page)
    /\ run' = [run EXCEPT ![e].marker = run[e].page,
                          ![e].at = IF run[e].more THEN "list" ELSE "abort"]
    /\ UNCHANGED <<cloud, young, state, asked, plans, locks, calls, budget>>

\* ListMultipartUploads and AbortMultipartUpload; then the bucket, if it goes.
SweepAbort(e) ==
    /\ run[e].at = "abort"
    /\ Buckets(e) # {}
    /\ IF DeletesBuckets THEN Goes(e, "drop") ELSE Answered(e, "succeeded")
    /\ UNCHANGED <<world, asked, plans, locks, calls, budget>>

\* DeleteBucket: S3 refuses a bucket that is not empty.
SweepDrop(e) ==
    /\ run[e].at = "drop"
    /\ Buckets(e) # {}
    /\ IF Objects(e) = {}
       THEN cloud' = cloud \ Buckets(e) /\ Answered(e, "succeeded")
       ELSE UNCHANGED cloud /\ Answered(e, "failed")
    /\ UNCHANGED <<young, state, objects, asked, plans, locks, calls, budget>>

-----------------------------------------------------------------------------
(***************************************************************************)
(* The CloudWatch log group executor, and the caller's executors           *)
(***************************************************************************)
\* The client works in one account and region: the log group of this name there.
LogGroups(e) == {t \in cloud : /\ Kind(t) = "logGroup"
                               /\ Id(t) = Id(run[e].action.target.thing)
                               /\ Place(t) = ClientPlace}

\* Variant: the placement is not compared.
LogsAnyPlace(e) ==
    /\ run[e].at = "place"
    /\ IF Catalogue[run[e].action.target.thing].prefixed
       THEN Goes(e, "describe") ELSE Answered(e, "blocked")
    /\ UNCHANGED <<world, asked, plans, locks, calls, budget>>

\* blockOnPlacementMismatch asks STS; a call that fails blocks too.
LogsPlace(e) ==
    /\ run[e].at = "place"
    /\ IF /\ Catalogue[run[e].action.target.thing].prefixed
          /\ Place(run[e].action.target.seen) = ClientPlace
       THEN Goes(e, "describe") ELSE Answered(e, "blocked")
    /\ UNCHANGED <<world, asked, plans, locks, calls, budget>>

LogsDescribe(e) ==
    /\ run[e].at = "describe"
    /\ IF LogGroups(e) = {} THEN Answered(e, "succeeded") ELSE Goes(e, "droplog")
    /\ UNCHANGED <<world, asked, plans, locks, calls, budget>>

LogsDrop(e) ==
    /\ run[e].at = "droplog"
    /\ cloud' = cloud \ LogGroups(e)
    /\ Answered(e, "succeeded")
    /\ UNCHANGED <<young, state, objects, asked, plans, locks, calls, budget>>

\* An executor the caller registered does what its action says.
CallersExecutor(e) ==
    /\ run[e].at = "call"
    /\ LET t == run[e].action.target.thing
           d == run[e].action.decision
       IN  /\ cloud' = IF d = "deleteCloudResource" THEN cloud \ {t} ELSE cloud
           /\ state' = CASE d = "stateDelete" -> state \ {t}
                         [] d = "importToState" -> state \union {t}
                         [] OTHER -> state
    /\ Answered(e, "succeeded")
    /\ UNCHANGED <<young, objects, asked, plans, locks, calls, budget>>

-----------------------------------------------------------------------------
(***************************************************************************)
(* Failures and everybody else                                             *)
(***************************************************************************)
Disturb == budget > 0 /\ budget' = budget - 1

\* Any call of an executor may be refused, throttled or cut off.
CallFails(e) ==
    /\ Disturb
    /\ run[e].at \in Awaits
    /\ Answered(e, IF run[e].at = "place" THEN "blocked" ELSE "failed")
    /\ UNCHANGED <<world, asked, plans, locks, calls>>

\* The process ends: tokens and locks were in its memory.
Crash ==
    /\ Disturb
    /\ plans # {}
    /\ plans' = {}
    /\ locks' = {}
    /\ run' = [e \in Executions |-> Idle]
    /\ UNCHANGED <<world, asked, calls>>

Create(t) ==
    /\ Disturb
    /\ t \notin cloud
    /\ Kind(t) = "bucket" => {u \in cloud : Kind(u) = "bucket" /\ Id(u) = Id(t)} = {}
    /\ cloud' = cloud \union {t}
    /\ young' = young \union {t}
    /\ objects' = [objects EXCEPT ![t] = {}]
    /\ UNCHANGED <<state, asked, plans, locks, run, calls>>

Remove(t) ==
    /\ Disturb
    /\ t \in cloud
    /\ cloud' = cloud \ {t}
    /\ young' = young \ {t}
    /\ UNCHANGED <<state, objects, asked, plans, locks, run, calls>>

GrowOld(t) ==
    /\ t \in young
    /\ young' = young \ {t}
    /\ UNCHANGED <<cloud, state, objects, asked, plans, locks, run, calls, budget>>

\* pulumi import, or a deployment that creates what it records.
Adopt(t) ==
    /\ Disturb
    /\ t \in cloud \ state
    /\ state' = state \union {t}
    /\ UNCHANGED <<cloud, young, objects, asked, plans, locks, run, calls>>

\* pulumi state delete, or a stack removed with its resources left behind.
Release(t) ==
    /\ Disturb
    /\ t \in state
    /\ state' = state \ {t}
    /\ UNCHANGED <<cloud, young, objects, asked, plans, locks, run, calls>>

Write(t, k) ==
    /\ Disturb
    /\ t \in cloud
    /\ Kind(t) = "bucket"
    /\ objects' = [objects EXCEPT ![t] = @ \union {k}]
    /\ UNCHANGED <<cloud, young, state, asked, plans, locks, run, calls>>

Executor(e) ==
    \/ SweepCheck(e) \/ SweepAbsent(e) \/ SweepList(e) \/ SweepDelete(e)
    \/ SweepAbort(e) \/ SweepDrop(e)
    \/ LogsPlace(e) \/ LogsDescribe(e) \/ LogsDrop(e)
    \/ CallersExecutor(e)

Runs(e) == Pass(e) \/ Dispatch(e) \/ Return(e) \/ Executor(e)

Next ==
    \/ \E q \in asked : Plan(q)
    \/ \E e \in Executions :
          \/ \E p \in plans, allow \in Allows : Execute(e, p, allow)
          \/ Runs(e)
          \/ CallFails(e)
    \/ Crash
    \/ \E t \in Things :
          \/ Create(t) \/ Remove(t) \/ GrowOld(t) \/ Adopt(t) \/ Release(t)
          \/ \E k \in Keys : Write(t, k)

Spec == Init /\ [][Next]_vars

\* Every call an executor makes ends, in an answer or in an error.
FairSpec == Spec /\ WF_vars(\E e \in Executions : Runs(e))

-----------------------------------------------------------------------------
(***************************************************************************)
(* Properties                                                              *)
(***************************************************************************)
Running(e) == run[e] # Idle

\* What execution e deletes in a step of its own.
Deletes(e) == IF budget' = budget /\ run'[e] # run[e] THEN cloud \ cloud' ELSE {}

\* Whatever an executor deletes was planned for deletion in a mode that deletes,
\* was in no discovered state, matched a prefix and the scope's placement, had
\* the ownership signals asked for, is a singleton only if the scope lets
\* singletons go, and is a decision the caller allowed: whatever has happened
\* since, and however often the token is used.
OnlyClearedThingsAreDeleted ==
    [][\A e \in Executions : \A t \in Deletes(e) :
          LET p == run[e].plan  a == run[e].action  g == a.target
          IN  /\ p.mode \in {"sweep-only", "reconcile"}
              /\ a.decision = "deleteCloudResource"
              /\ run[e].allow # {} => a.decision \in run[e].allow
              /\ ~g.inState
              /\ p.scope.prefix = "narrow" /\ InventoryPrefix(g.thing)
              /\ Place(g.thing) \in p.scope.places
              /\ Cardinality(g.signals) >= p.scope.minSignals
              /\ (IsSecuritySingleton(t) \/ Catalogue[t].singleton) => p.scope.singletons
              /\ Cardinality(p.actions) <= p.scope.maxActions]_vars

\* What is deleted has the physical id and the placement of what was planned: a
\* log group of the same name in the account of a wrong client stays.
DeletesWhereItPlanned ==
    [][\A e \in Executions : \A t \in Deletes(e) :
          /\ Id(t) = Id(run[e].action.target.thing)
          /\ Place(t) = Place(run[e].action.target.thing)]_vars

\* While a Config recorder is being deleted, the delivery channel it depends on
\* has had its turn.  execute reads no dependsOn: the order of the sort does it.
RecorderFollowsChannel ==
    \A e \in Executions :
        Running(e) /\ run[e].action # None =>
            DependsOn(run[e].action, run[e].plan.actions) \cap run[e].todo = {}

\* Two executions that run at once differ in mode, scope or resources, and the
\* lock table holds the running ones exactly: no lock outlives its execution.
ExecutionsExclude ==
    /\ \A e, f \in Executions :
          Running(e) /\ Running(f) /\ e # f =>
             \/ run[e].plan.mode # run[f].plan.mode
             \/ run[e].plan.scope # run[f].plan.scope
             \/ {a.target.thing : a \in run[e].plan.actions}
                   # {a.target.thing : a \in run[f].plan.actions}
    /\ locks = {Key(run[e].plan) : e \in {f \in Executions : Running(f)}}

\* A sweep that nothing interferes with, over versions nobody protects, leaves
\* no version behind, page after page.
UndisturbedSweepsEmptyTheBucket ==
    [][\A e \in Executions :
          /\ run[e].at \in {"abort", "drop"}
          /\ run'[e].at = "loop"
          /\ run[e].began = budget'
          /\ \A t \in Buckets(e) : Catalogue[t].held = {}
          => Objects(e) = {}]_vars
=============================================================================
