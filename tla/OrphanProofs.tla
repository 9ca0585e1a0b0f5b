---------------------------- MODULE OrphanProofs ----------------------------
(***************************************************************************)
(* The orphan reconciler, for every inventory, request and number of       *)
(* executions; and, at the end, the types of all of Tools.                 *)
(***************************************************************************)
EXTENDS ToolsProofs

\* A step of the whole is a step of the reconciler, or none.
LEMMA OrphanActs ==
    ASSUME [Next]_vars
    PROVE  Orphan!Next \/ UNCHANGED Orphan!vars
BY Alone DEF orphanVars, Orphan!vars, Orphan!world

-----------------------------------------------------------------------------
(***************************************************************************)
(* Executions                                                              *)
(***************************************************************************)
RunFields ==
    {"at", "plan", "allow", "todo", "action", "marker", "page", "more", "status", "began"}

RunShape(r) == DOMAIN r = RunFields /\ r.at \in Orphan!Awaits \union {"loop"}

Shape ==
    /\ DOMAIN run = Executions
    /\ \A e \in Executions : Orphan!Running(e) => RunShape(run[e])

\* What an execution does by itself, or what befalls it, between its call and its
\* return.
Proceeds(e) ==
    Orphan!Pass(e) \/ Orphan!Dispatch(e) \/ Orphan!Executor(e) \/ Orphan!CallFails(e)

\* An idle record is none of these.
LEMMA IdleShape == ~RunShape(Orphan!Idle)
BY DEF RunShape, Orphan!Idle, Orphan!Awaits

LEMMA ProceedsShape ==
    ASSUME Shape, NEW e \in Executions, Proceeds(e)
    PROVE  /\ Orphan!Running(e) /\ RunShape(run[e])
           /\ DOMAIN run' = Executions
           /\ \A f \in Executions \ {e} : run'[f] = run[f]
           /\ RunShape(run'[e])
           /\ run'[e].plan = run[e].plan /\ run'[e].allow = run[e].allow
           /\ UNCHANGED <<locks, plans, asked>>
<1>1. run[e].at \in Orphan!Awaits \union {"loop"}
  BY DEF Proceeds, Orphan!Pass, Orphan!Dispatch, Orphan!Executor, Orphan!CallFails,
         Orphan!Awaits, Orphan!SweepCheck, Orphan!SweepAbsent, Orphan!SweepList,
         Orphan!SweepDelete, Orphan!SweepAbort, Orphan!SweepDrop, Orphan!LogsPlace,
         Orphan!LogsDescribe, Orphan!LogsDrop, Orphan!CallersExecutor
<1>2. Orphan!Running(e)
  BY <1>1 DEF Orphan!Awaits, Orphan!Running, Orphan!Idle
<1>3. RunShape(run[e]) /\ DOMAIN run = Executions
  BY <1>2 DEF Shape
<1>4. CASE Orphan!Pass(e)
  BY <1>2, <1>3, <1>4 DEF Orphan!Pass, RunShape, RunFields
<1>5. CASE Orphan!Dispatch(e)
  <2>1. PICK a \in Orphan!First(run[e].todo) :
           run' = [run EXCEPT ![e].todo = @ \ {a}, ![e].at = Orphan!Start(a.type),
                              ![e].action = a, ![e].marker = 0, ![e].began = budget]
    BY <1>5 DEF Orphan!Dispatch
  <2>2. Orphan!Start(a.type) \in Orphan!Awaits
    BY DEF Orphan!Start, Orphan!Awaits
  <2>. QED
    BY <1>2, <1>3, <1>5, <2>1, <2>2 DEF Orphan!Dispatch, RunShape, RunFields
<1>6. CASE Orphan!CallFails(e)
  BY <1>2, <1>3, <1>6 DEF Orphan!CallFails, Orphan!Answered, RunShape, RunFields
<1>7. CASE Orphan!SweepCheck(e) \/ Orphan!SweepAbsent(e)
  BY <1>2, <1>3, <1>7 DEF Orphan!SweepCheck, Orphan!SweepAbsent,
         Orphan!Answered, Orphan!Goes, Orphan!Awaits, RunShape, RunFields
<1>8. CASE Orphan!SweepList(e)
  <2>1. \/ run' = [run EXCEPT ![e].at = "abort"]
        \/ \E k : run' = [run EXCEPT ![e].at = "delete", ![e].page = k,
                          ![e].more = {i \in Orphan!Objects(e) : i > run[e].marker} # {k}]
    BY <1>8, Zenon DEF Orphan!SweepList, Orphan!Goes
  <2>2. UNCHANGED <<locks, plans, asked>>
    BY <1>8 DEF Orphan!SweepList
  <2>3. CASE run' = [run EXCEPT ![e].at = "abort"]
    BY <1>2, <1>3, <2>3, <2>2 DEF Orphan!Awaits, RunShape, RunFields
  <2>4. ASSUME NEW k, run' = [run EXCEPT ![e].at = "delete", ![e].page = k,
                        ![e].more = {i \in Orphan!Objects(e) : i > run[e].marker} # {k}]
        PROVE  RunShape(run'[e]) /\ run'[e].plan = run[e].plan
               /\ run'[e].allow = run[e].allow /\ DOMAIN run' = Executions
               /\ \A f \in Executions \ {e} : run'[f] = run[f]
    BY <1>3, <2>4 DEF Orphan!Awaits, RunShape, RunFields
  <2>. QED
    BY <1>2, <1>3, <2>1, <2>2, <2>3, <2>4
<1>9. CASE Orphan!SweepDelete(e) \/ Orphan!SweepAbort(e) \/ Orphan!SweepDrop(e)
  BY <1>2, <1>3, <1>9 DEF Orphan!SweepDelete, Orphan!SweepAbort, Orphan!SweepDrop,
         Orphan!Answered, Orphan!Goes, Orphan!Awaits, RunShape, RunFields
<1>10. CASE \/ Orphan!LogsPlace(e) \/ Orphan!LogsDescribe(e) \/ Orphan!LogsDrop(e)
            \/ Orphan!CallersExecutor(e)
  BY <1>2, <1>3, <1>10 DEF Orphan!LogsPlace, Orphan!LogsDescribe, Orphan!LogsDrop,
         Orphan!CallersExecutor, Orphan!Answered, Orphan!Goes, Orphan!Awaits, RunShape,
         RunFields
<1>. QED
  BY <1>4, <1>5, <1>6, <1>7, <1>8, <1>9, <1>10 DEF Proceeds, Orphan!Executor

\* The steps, by what they do to executions and locks.
LEMMA OrphanSteps ==
    ASSUME Orphan!Next
    PROVE  \/ \E e \in Executions : Proceeds(e)
           \/ \E e \in Executions : Orphan!Return(e)
           \/ \E e \in Executions, p \in plans, allow \in AllowLists : Orphan!Execute(e, p, allow)
           \/ Orphan!Crash
           \/ UNCHANGED <<run, locks>>
BY Zenon DEF Orphan!Next, Orphan!Runs, Proceeds, Orphan!Plan, Orphan!Create, Orphan!Remove,
      Orphan!GrowOld, Orphan!Adopt, Orphan!Release, Orphan!Write

-----------------------------------------------------------------------------
(***************************************************************************)
(* The lock table                                                          *)
(***************************************************************************)
Runners == {e \in Executions : Orphan!Running(e)}

\* No two calls of execute that run have one key, and the locks are their keys.
Distinct ==
    \A e, f \in Runners : e # f => Orphan!Key(run[e].plan) # Orphan!Key(run[f].plan)

Held == locks = {Orphan!Key(run[e].plan) : e \in Runners}

Locked == Shape /\ Distinct /\ Held

LEMMA LockedInit ==
    ASSUME Orphan!Init
    PROVE  Locked
BY DEF Orphan!Init, Locked, Shape, Distinct, Held, Runners, Orphan!Running

LEMMA LockedProceeds ==
    ASSUME Locked, NEW e \in Executions, Proceeds(e)
    PROVE  Locked'
<1>. Shape
  BY DEF Locked
<1>. USE ProceedsShape
<1>1. Orphan!Running(e)' /\ Shape'
  BY IdleShape DEF Orphan!Running, Shape, Orphan!Idle, RunShape, RunFields
<1>2. Runners' = Runners
  BY <1>1 DEF Runners, Orphan!Running
<1>3. \A f \in Executions : run'[f].plan = run[f].plan
  OBVIOUS
<1>4. Distinct'
  <2>. SUFFICES ASSUME NEW f \in Runners', NEW g \in Runners', f # g
                PROVE  Orphan!Key(run'[f].plan) # Orphan!Key(run'[g].plan)
    BY DEF Distinct
  <2>. QED
    BY <1>2, <1>3 DEF Distinct, Locked, Runners
<1>5. Held'
  BY <1>2, <1>3 DEF Held, Locked, Runners, Orphan!Key
<1>. QED
  BY <1>1, <1>4, <1>5 DEF Locked

LEMMA LockedReturn ==
    ASSUME Locked, NEW e \in Executions, Orphan!Return(e)
    PROVE  Locked'
<1>1. e \in Runners /\ DOMAIN run = Executions
  BY DEF Orphan!Return, Runners, Orphan!Running, Orphan!Idle, Locked, Shape
<1>2. run' = [run EXCEPT ![e] = Orphan!Idle] /\ locks' = locks \ {Orphan!Key(run[e].plan)}
  BY DEF Orphan!Return
<1>3. Runners' = Runners \ {e} /\ \A f \in Runners' : run'[f] = run[f]
  BY <1>1, <1>2 DEF Runners, Orphan!Running, Orphan!Idle
<1>4. Shape'
  BY <1>1, <1>2 DEF Locked, Shape, Orphan!Running, Orphan!Idle
<1>5. Distinct'
  <2>. SUFFICES ASSUME NEW f \in Runners', NEW g \in Runners', f # g
                PROVE  Orphan!Key(run'[f].plan) # Orphan!Key(run'[g].plan)
    BY DEF Distinct
  <2>. QED
    BY <1>3 DEF Distinct, Locked
<1>6. Held'
  BY <1>1, <1>2, <1>3 DEF Held, Distinct, Locked, Orphan!Key
<1>. QED
  BY <1>4, <1>5, <1>6 DEF Locked

LEMMA LockedExecute ==
    ASSUME Locked, NEW e \in Executions, NEW p, NEW allow, Orphan!Execute(e, p, allow)
    PROVE  Locked'
<1>1. run[e] = Orphan!Idle /\ DOMAIN run = Executions /\ Orphan!Key(p) \notin locks
      /\ locks' = locks \union {Orphan!Key(p)}
  BY DEF Orphan!Execute, Orphan!Unlocked, Locked, Shape
<1>2. /\ run'[e].plan = p /\ RunShape(run'[e])
      /\ DOMAIN run' = Executions
      /\ \A f \in Executions \ {e} : run'[f] = run[f]
  BY <1>1 DEF Orphan!Execute, RunShape, RunFields, Orphan!Awaits
<1>3. Runners' = Runners \union {e} /\ e \notin Runners
  BY <1>1, <1>2, IdleShape DEF Runners, Orphan!Running, Orphan!Idle, RunShape, RunFields
<1>4. Shape'
  BY <1>2 DEF Shape, Locked, Orphan!Running, Orphan!Idle
<1>5. \A f \in Runners : run'[f] = run[f] /\ Orphan!Key(run[f].plan) # Orphan!Key(p)
  BY <1>1, <1>2, <1>3 DEF Held, Locked, Runners
<1>6. Distinct'
  <2>. SUFFICES ASSUME NEW f \in Runners', NEW g \in Runners', f # g
                PROVE  Orphan!Key(run'[f].plan) # Orphan!Key(run'[g].plan)
    BY DEF Distinct
  <2>. QED
    BY <1>2, <1>3, <1>5 DEF Distinct, Locked
<1>7. Held'
  BY <1>1, <1>2, <1>3, <1>5 DEF Held, Locked, Orphan!Key
<1>. QED
  BY <1>4, <1>6, <1>7 DEF Locked

LEMMA LockedCrash ==
    ASSUME Orphan!Crash
    PROVE  Locked'
BY DEF Orphan!Crash, Locked, Shape, Distinct, Held, Runners, Orphan!Running

LEMMA LockedInvariant == Spec => []Locked
<1>1. Init => Locked
  BY LockedInit DEF Init
<1>2. Locked /\ [Next]_vars => Locked'
  <2>. SUFFICES ASSUME Locked, [Next]_vars
                PROVE  Locked'
    OBVIOUS
  <2>1. CASE UNCHANGED <<run, locks>>
    BY <2>1 DEF Locked, Shape, Distinct, Held, Runners, Orphan!Running, Orphan!Key
  <2>2. CASE Orphan!Next
    BY <2>1, <2>2, OrphanSteps, LockedProceeds, LockedReturn, LockedExecute, LockedCrash
  <2>. QED
    BY <2>1, <2>2, Alone, Zenon DEF orphanVars, Orphan!vars
<1>. QED
  BY <1>1, <1>2, PTL DEF Spec

\* Two calls of execute that run at once differ in mode, scope or resources, and no lock
\* outlives its call: activeExecutionLocks of reconciler.ts is added to before the first
\* await of execute and cleared in its finally, and nowhere else.
THEOREM Exclusion == Spec => []ExecutionsExclude
<1>1. Locked => ExecutionsExclude
  <2>. SUFFICES ASSUME Locked
                PROVE  Orphan!ExecutionsExclude
    BY DEF ExecutionsExclude
  <2>1. ASSUME NEW e \in Executions, NEW f \in Executions,
               Orphan!Running(e), Orphan!Running(f), e # f
        PROVE  \/ run[e].plan.mode # run[f].plan.mode
               \/ run[e].plan.scope # run[f].plan.scope
               \/ {a.target.thing : a \in run[e].plan.actions}
                     # {a.target.thing : a \in run[f].plan.actions}
    <3>1. Orphan!Key(run[e].plan) # Orphan!Key(run[f].plan)
      BY <2>1 DEF Locked, Distinct, Runners
    <3>. DEFINE Of(p) == {a.target.thing : a \in p.actions}
                Pairs(p) == {<<a.target.thing, Orphan!Kind(a.target.thing)>> : a \in p.actions}
    <3>2. \A p : Pairs(p) = {<<t, Orphan!Kind(t)>> : t \in Of(p)}
      OBVIOUS
    <3>3. Of(run[e].plan) = Of(run[f].plan) => Pairs(run[e].plan) = Pairs(run[f].plan)
      BY <3>2
    <3>. QED
      BY <3>1, <3>3, Zenon DEF Orphan!Key
  <2>2. locks = {Orphan!Key(run[e].plan) : e \in {f \in Executions : Orphan!Running(f)}}
    BY DEF Locked, Held, Runners
  <2>. QED
    BY <2>1, <2>2, Zenon DEF Orphan!ExecutionsExclude
<1>. QED
  BY <1>1, LockedInvariant, PTL

-----------------------------------------------------------------------------
(***************************************************************************)
(* What a plan says of its actions                                         *)
(***************************************************************************)
\* A deletion that may run: its target is in no state, in scope, owned, and a singleton
\* only if singletons go.
ClearedForDeletion(a, p) ==
    /\ p.mode \in {"sweep-only", "reconcile"}
    /\ ~a.target.inState
    /\ a.target.seen = a.target.thing
    /\ p.scope.prefix = "narrow" /\ Orphan!InventoryPrefix(a.target.thing)
    /\ Orphan!Place(a.target.thing) \in p.scope.places
    /\ Cardinality(a.target.signals) >= p.scope.minSignals
    /\ \/ Orphan!IsSecuritySingleton(a.target.thing)
       \/ Catalogue[a.target.thing].singleton
       => p.scope.singletons

Cleared(a, p) ==
    /\ a.target.thing \in Orphan!Things
    /\ a.executable => Cardinality(p.actions) <= p.scope.maxActions
    /\ a.executable /\ a.decision = "deleteCloudResource" => ClearedForDeletion(a, p)
    /\ a.type = "drainS3BucketVersions" =>
          Orphan!IsS3Bucket(a.target.thing) /\ a.decision = "deleteCloudResource"
    /\ a.type = "deleteCloudWatchLogGroup" =>
          Orphan!Kind(a.target.thing) = "logGroup" /\ a.decision = "deleteCloudResource"

Sound(p) == \A a \in p.actions : Cleared(a, p)

Scoped(s) == s.prefix \in {"none", "narrow", "broad"} /\ s.minSignals \in Nat /\ s.maxActions \in Nat

\* A target of the cloud alone, of a place in the scope and with as many signals as its
\* inventory entry gives it; or one of the state.
Found(g, s) ==
    /\ g.thing \in Orphan!Things
    /\ ~g.inState => /\ g.inCloud /\ g.seen = g.thing
                     /\ Orphan!Place(g.thing) \in s.places
                     /\ IsFiniteSet(g.signals)

\* The reconciler's Cardinality is everybody's.
LEMMA SameCardinality == \A S : Orphan!Cardinality(S) = Cardinality(S)
BY Zenon DEF Orphan!Cardinality, Cardinality

\* The image of a finite set is finite.
LEMMA ImageFinite ==
    ASSUME NEW S, IsFiniteSet(S), NEW f
    PROVE  IsFiniteSet({f[x] : x \in S})
<1> DEFINE T == {f[x] : x \in S}
           g == [x \in S |-> f[x]]
<1>1. g \in Surjection(S, T)
  BY DEF Surjection
<1>2. QED
  BY <1>1, FS_Surjection

\* What discovery finds: finitely many targets, each as Found says.
LEMMA DiscoveryFinds ==
    ASSUME NEW C \in SUBSET Orphan!Things, NEW S \in SUBSET Orphan!Things, NEW s
    PROVE  /\ IsFiniteSet(Orphan!Discover(C, S, s))
           /\ \A g \in Orphan!Discover(C, S, s) : Found(g, s)
<1>. DEFINE recorded == {u \in S : Orphan!StateInScope(u, s)}
            alone == {u \in Orphan!ScopedCloud(C, s) : Orphan!Id(u) \notin Orphan!Matched(C, S, s)}
            ofState == [t \in recorded |-> Orphan!Target(t, TRUE, Orphan!InventoryOf(t, C, s), {"pulumi-state"})]
            ofCloud == [t \in alone |-> Orphan!Target(t, FALSE, t, Orphan!OwnershipEvidence(t, s))]
<1>1. recorded \subseteq Orphan!Things /\ alone \subseteq Orphan!Things
  BY DEF Orphan!ScopedCloud
<1>2. IsFiniteSet(recorded) /\ IsFiniteSet(alone)
  BY <1>1, FS_Subset, InventoryAssumption
<1>3. Orphan!Discover(C, S, s) = {ofState[t] : t \in recorded} \union {ofCloud[t] : t \in alone}
  BY Zenon DEF Orphan!Discover
<1>4. IsFiniteSet({ofState[t] : t \in recorded}) /\ IsFiniteSet({ofCloud[t] : t \in alone})
  BY <1>2, ImageFinite
<1>5. \A t \in recorded : Found(ofState[t], s)
  BY <1>1 DEF Found, Orphan!Target
<1>6. ASSUME NEW t \in alone
      PROVE  Found(ofCloud[t], s)
  <2>1. t \in Orphan!Things /\ Orphan!Place(t) \in s.places
    BY <1>1 DEF Orphan!ScopedCloud, Orphan!OutOfScope
  <2>2. t # Orphan!Nothing
    BY <2>1, InventoryAssumption
  <2>3. IsFiniteSet(Orphan!OwnershipEvidence(t, s))
    BY <2>1, InventoryAssumption, FS_EmptySet, FS_Singleton, FS_Union DEF Orphan!OwnershipEvidence
  <2>. QED
    BY <2>1, <2>2, <2>3 DEF Found, Orphan!Target
<1>. QED
  BY <1>3, <1>4, <1>5, <1>6, FS_Union

\* What classifyTarget recommends.
LEMMA Recommends ==
    ASSUME NEW g, NEW s, NEW wish, NEW young_, NEW r, r = Orphan!Recommended(g, s, wish, young_)
    PROVE  /\ r.decision = "deleteCloudResource" =>
                 ~Orphan!Blocked(g, s, young_) /\ ~g.inState /\ g.inCloud
           /\ r.type = "drainS3BucketVersions" =>
                 Orphan!IsS3Bucket(g.thing) /\ r.decision = "deleteCloudResource"
           /\ r.type = "deleteCloudWatchLogGroup" =>
                 Orphan!Kind(g.thing) = "logGroup" /\ r.decision = "deleteCloudResource"
<1>1. CASE Orphan!Blocked(g, s, young_)
  <2>1. \/ r = Orphan!Recommend("retainSharedSingleton", "retainExternal")
        \/ r = Orphan!Recommend("retainUnsupportedResource", "blocked")
    BY <1>1 DEF Orphan!Recommended
  <2>. QED
    BY <2>1 DEF Orphan!Recommend
<1>2. CASE ~Orphan!Blocked(g, s, young_) /\ g.inState
  <2>1. \/ r = Orphan!Recommend("refreshState", "refreshState")
        \/ r = Orphan!Recommend("retainUnsupportedResource", "codifyProduction")
        \/ r = Orphan!Recommend("retainUnsupportedResource", "noOp")
        \/ r = Orphan!Recommend("stateDeleteAlreadyAbsentResource", "stateDelete")
    BY <1>2 DEF Orphan!Recommended
  <2>. QED
    BY <2>1 DEF Orphan!Recommend
<1>3. CASE ~Orphan!Blocked(g, s, young_) /\ ~g.inState /\ ~g.inCloud
  BY <1>3 DEF Orphan!Recommended, Orphan!Recommend
<1>4. CASE ~Orphan!Blocked(g, s, young_) /\ ~g.inState /\ g.inCloud
  <2>1. \/ r = Orphan!Recommend("importToState", "importToState")
        \/ /\ Orphan!IsS3Bucket(g.thing)
           /\ r = Orphan!Recommend("drainS3BucketVersions", "deleteCloudResource")
        \/ /\ Orphan!Kind(g.thing) \in DOMAIN Orphan!Family
           /\ r = Orphan!Recommend(Orphan!Family[Orphan!Kind(g.thing)], "deleteCloudResource")
        \/ r = Orphan!Recommend("retainUnsupportedResource", "retainExternal")
    BY <1>4 DEF Orphan!Recommended
  <2>2. \A k \in DOMAIN Orphan!Family :
           /\ Orphan!Family[k] # "drainS3BucketVersions"
           /\ Orphan!Family[k] = "deleteCloudWatchLogGroup" => k = "logGroup"
    BY DEF Orphan!Family
  <2>. QED
    BY <1>4, <2>1, <2>2 DEF Orphan!Recommend
<1>. QED
  BY <1>1, <1>2, <1>3, <1>4

\* An action as plan decides on it, before the cap on their number.
LEMMA Classifies ==
    ASSUME NEW g, NEW s, NEW mode, NEW wish, NEW young_, NEW p,
           Found(g, s), Scoped(s), s.prefix # "broad", p.mode = mode, p.scope = s,
           NEW a, a = Orphan!Classified(g, s, mode, wish, young_)
    PROVE  /\ a.target = g
           /\ a.executable /\ a.decision = "deleteCloudResource" => ClearedForDeletion(a, p)
           /\ a.type = "drainS3BucketVersions" =>
                 Orphan!IsS3Bucket(a.target.thing) /\ a.decision = "deleteCloudResource"
           /\ a.type = "deleteCloudWatchLogGroup" =>
                 Orphan!Kind(a.target.thing) = "logGroup" /\ a.decision = "deleteCloudResource"
<1>. DEFINE r == Orphan!Recommended(g, s, wish, young_)
<1>1. a.target = g /\ a.type = r.type /\ a.decision = r.decision
      /\ (a.executable => Orphan!ModeAllows(mode, r.decision))
  BY DEF Orphan!Classified
<1>0. r = Orphan!Recommended(g, s, wish, young_)
  OBVIOUS
<1>. HIDE DEF r
<1>2. ASSUME a.executable, a.decision = "deleteCloudResource"
      PROVE  ClearedForDeletion(a, p)
  <2>0. r.decision = "deleteCloudResource"
    BY <1>1, <1>2
  <2>1. ~Orphan!Blocked(g, s, young_) /\ ~g.inState /\ g.inCloud
    BY <1>0, <2>0, Recommends
  <2>2. g.seen = g.thing /\ Orphan!Place(g.thing) \in s.places /\ Cardinality(g.signals) \in Nat
    BY <2>1, FS_CardinalityType DEF Found
  <2>3. p.mode \in {"sweep-only", "reconcile"}
    BY <1>1, <1>2 DEF Orphan!ModeAllows
  <2>4. s.prefix = "narrow" /\ Orphan!InventoryPrefix(g.thing)
    BY <2>1, <2>2 DEF Orphan!Blocked, Orphan!CloudOnly, Orphan!MatchesPrefix, Scoped,
                      Orphan!InventoryPrefix
  <2>5. Cardinality(g.signals) >= s.minSignals
    <3>1. ~(Cardinality(g.signals) < s.minSignals)
      BY <2>1, SameCardinality, Zenon DEF Orphan!Blocked, Orphan!CloudOnly
    <3>. QED
      BY <2>2, <3>1 DEF Scoped
  <2>6. Orphan!IsSecuritySingleton(g.thing) \/ Catalogue[g.thing].singleton => s.singletons
    BY <2>1, <2>2 DEF Orphan!Blocked, Orphan!Singleton
  <2>. QED
    BY <1>1, <2>1, <2>2, <2>3, <2>4, <2>5, <2>6 DEF ClearedForDeletion
<1>. QED
  BY <1>0, <1>1, <1>2, Recommends

\* What plan stores clears what it lets run.
LEMMA PlanIsSound ==
    ASSUME NEW q \in asked, Orphan!Plan(q), Scoped(q.scope),
           cloud \subseteq Orphan!Things, state \subseteq Orphan!Things,
           \A p \in plans : Sound(p)
    PROVE  \A p \in plans' : Sound(p)
<1>. DEFINE targets == Orphan!Discover(cloud, state, q.scope)
            of == [g \in targets |-> Orphan!Classified(g, q.scope, q.mode, q.wish, young)]
            all == {of[g] : g \in targets}
            p == [mode |-> q.mode, scope |-> q.scope,
                  actions |-> Orphan!Planned(targets, q.scope, q.mode, q.wish, young)]
<1>1. plans' = plans \union {p} /\ q.scope.prefix # "broad"
  BY Zenon DEF Orphan!Plan
<1>2. IsFiniteSet(targets) /\ \A g \in targets : Found(g, q.scope)
  BY DiscoveryFinds
<1>3. p.actions = Orphan!Capped(all, q.scope)
  BY DEF Orphan!Planned
<1>4. IsFiniteSet(all) /\ Cardinality(all) \in Nat
  BY <1>2, ImageFinite, FS_CardinalityType
<1>5. p.mode = q.mode /\ p.scope = q.scope
  OBVIOUS
<1>. DEFINE class(g) == Orphan!Classified(g, q.scope, q.mode, q.wish, young)
<1>9. \A g \in targets : of[g] = class(g) /\ DOMAIN of[g] = {"target", "type", "decision", "executable"}
  BY DEF Orphan!Classified
<1>. HIDE DEF targets, p, of
<1>6. \A g \in targets :
        /\ of[g].target = g /\ g.thing \in Orphan!Things
        /\ of[g].executable /\ of[g].decision = "deleteCloudResource" => ClearedForDeletion(of[g], p)
        /\ of[g].type = "drainS3BucketVersions" =>
              Orphan!IsS3Bucket(of[g].target.thing) /\ of[g].decision = "deleteCloudResource"
        /\ of[g].type = "deleteCloudWatchLogGroup" =>
              Orphan!Kind(of[g].target.thing) = "logGroup" /\ of[g].decision = "deleteCloudResource"
  BY <1>1, <1>2, <1>5, <1>9, Classifies DEF Found
<1>7. CASE Cardinality(all) > q.scope.maxActions
  <2>1. p.actions = {[b EXCEPT !.executable = FALSE] : b \in all}
    BY <1>3, <1>7, SameCardinality, Zenon DEF Orphan!Capped
  <2>2. ASSUME NEW g \in targets
        PROVE  Cleared([of[g] EXCEPT !.executable = FALSE], p)
    <3>1. LET b == [of[g] EXCEPT !.executable = FALSE]
          IN  /\ ~b.executable /\ b.target = of[g].target /\ b.type = of[g].type
              /\ b.decision = of[g].decision
      BY <1>9
    <3>. QED
      BY <1>6, <3>1 DEF Cleared
  <2>. QED
    BY <1>1, <2>1, <2>2 DEF Sound
<1>8. CASE ~(Cardinality(all) > q.scope.maxActions)
  <2>1. p.actions = all
    BY <1>3, <1>8, SameCardinality, Zenon DEF Orphan!Capped
  <2>2. Cardinality(p.actions) <= p.scope.maxActions
    BY <1>4, <1>5, <1>8, <2>1 DEF Scoped
  <2>3. \A g \in targets : Cleared(of[g], p)
    BY <1>6, <2>2 DEF Cleared
  <2>. QED
    BY <1>1, <2>1, <2>3 DEF Sound
<1>. QED
  BY <1>7, <1>8

-----------------------------------------------------------------------------
(***************************************************************************)
(* What a call of execute is at: an action of its plan, cleared, allowed   *)
(* and of the executor's type; a recorder with no channel still to come.   *)
(***************************************************************************)
Sweeping == {"check", "list", "delete", "abort", "drop"}
OnLogs == {"place", "describe", "droplog"}

AtWork(r) ==
    /\ r.action \in r.plan.actions /\ r.action.executable
    /\ r.allow = {} \/ r.action.decision \in r.allow
    /\ r.at \in Sweeping => r.action.type = "drainS3BucketVersions"
    /\ r.at \in OnLogs => r.action.type = "deleteCloudWatchLogGroup"
    /\ r.at \in OnLogs \ {"place"} => Orphan!Place(r.action.target.seen) = ClientPlace
    /\ r.action.type = "deleteConfigRecorder" =>
          \A b \in r.todo : b.type # "deleteConfigDeliveryChannel"

Task(r) ==
    /\ Sound(r.plan) /\ r.todo \subseteq r.plan.actions
    /\ r.at = "loop" => r.action = Orphan!None
    /\ r.at # "loop" => AtWork(r)

World ==
    /\ cloud \subseteq Orphan!Things /\ state \subseteq Orphan!Things
    /\ \A q \in asked : Scoped(q.scope)
    /\ \A p \in plans : Sound(p)

Tasks == \A e \in Executions : Orphan!Running(e) => Task(run[e])

Mandate == Shape /\ World /\ Tasks

\* The names of the types that matter are in the order their places are in.
LEMMA ChannelsFirst ==
    /\ Orphan!Position("deleteConfigDeliveryChannel") = 4
    /\ Orphan!Position("deleteConfigRecorder") = 5
<1>1. DOMAIN Orphan!ByName = 1..17
  BY DEF Orphan!ByName
<1>2. /\ Orphan!ByName[4] = "deleteConfigDeliveryChannel"
      /\ \A i \in 1..17 : Orphan!ByName[i] = "deleteConfigDeliveryChannel" => i = 4
  BY DEF Orphan!ByName
<1>3. /\ Orphan!ByName[5] = "deleteConfigRecorder"
      /\ \A i \in 1..17 : Orphan!ByName[i] = "deleteConfigRecorder" => i = 5
  BY DEF Orphan!ByName
<1>. QED
  BY <1>1, <1>2, <1>3 DEF Orphan!Position

\* An answer ends the work on an action.
LEMMA AnswerEndsWork ==
    ASSUME NEW e \in Executions, DOMAIN run = Executions, RunShape(run[e]), Task(run[e]),
           NEW status, Orphan!Answered(e, status)
    PROVE  Task(run'[e])
<1>1. run'[e].at = "loop" /\ run'[e].action = Orphan!None
      /\ run'[e].plan = run[e].plan /\ run'[e].todo = run[e].todo
  BY DEF Orphan!Answered, RunShape, RunFields
<1>. QED
  BY <1>1 DEF Task

\* Another call of the same executor.
LEMMA CallGoesOn ==
    ASSUME NEW e \in Executions, DOMAIN run = Executions, RunShape(run[e]), Task(run[e]),
           run'[e].at # "loop",
           run'[e].plan = run[e].plan, run'[e].todo = run[e].todo,
           run'[e].action = run[e].action, run'[e].allow = run[e].allow,
           \/ run[e].at \in Sweeping /\ run'[e].at \in Sweeping
           \/ /\ run[e].at \in OnLogs /\ run'[e].at \in OnLogs
              /\ Orphan!Place(run[e].action.target.seen) = ClientPlace
    PROVE  Task(run'[e])
<1>1. run[e].at # "loop" /\ AtWork(run[e])
  BY DEF Task, Sweeping, OnLogs
<1>2. AtWork(run'[e])
  BY <1>1 DEF AtWork, Sweeping, OnLogs
<1>. QED
  BY <1>2 DEF Task

LEMMA DispatchTasks ==
    ASSUME NEW e \in Executions, DOMAIN run = Executions, RunShape(run[e]), Task(run[e]),
           Orphan!Dispatch(e)
    PROVE  Task(run'[e])
<1>1. PICK a \in Orphan!First(run[e].todo) :
         /\ Orphan!MayRun(e, a)
         /\ run' = [run EXCEPT ![e].todo = @ \ {a}, ![e].at = Orphan!Start(a.type),
                               ![e].action = a, ![e].marker = 0, ![e].began = budget]
  BY DEF Orphan!Dispatch
<1>2. /\ run'[e].todo = run[e].todo \ {a} /\ run'[e].at = Orphan!Start(a.type)
      /\ run'[e].action = a /\ run'[e].plan = run[e].plan /\ run'[e].allow = run[e].allow
  BY <1>1 DEF RunShape, RunFields
<1>3. a \in run[e].todo /\ \A b \in run[e].todo \ {a} : Orphan!Precedes(a, b)
  BY DEF Orphan!First
<1>4. a \in run[e].plan.actions /\ Sound(run[e].plan) /\ run[e].todo \subseteq run[e].plan.actions
  BY <1>3 DEF Task
<1>5. a.executable /\ (run[e].allow = {} \/ a.decision \in run[e].allow)
  BY <1>1 DEF Orphan!MayRun
<1>6. /\ Orphan!Start(a.type) # "loop"
      /\ Orphan!Start(a.type) \in Sweeping => a.type = "drainS3BucketVersions"
      /\ Orphan!Start(a.type) \in OnLogs => a.type = "deleteCloudWatchLogGroup"
      /\ Orphan!Start(a.type) \notin OnLogs \ {"place"}
  BY DEF Orphan!Start, Sweeping, OnLogs
<1>7. ASSUME a.type = "deleteConfigRecorder", NEW b \in run[e].todo \ {a}
      PROVE  b.type # "deleteConfigDeliveryChannel"
  BY <1>3, <1>7, ChannelsFirst DEF Orphan!Precedes
<1>8. AtWork(run'[e])
  BY <1>2, <1>4, <1>5, <1>6, <1>7 DEF AtWork
<1>. QED
  BY <1>2, <1>4, <1>6, <1>8 DEF Task

LEMMA ProceedsTasks ==
    ASSUME Mandate, NEW e \in Executions, Proceeds(e)
    PROVE  Task(run'[e])
<1>0. /\ Orphan!Running(e) /\ RunShape(run[e]) /\ DOMAIN run = Executions
      /\ Task(run[e]) /\ Sound(run[e].plan)
  BY ProceedsShape DEF Mandate, Shape, Tasks, Task
<1>. USE <1>0
<1>1. CASE Orphan!Pass(e)
  <2>1. run'[e].at = "loop" /\ run'[e].plan = run[e].plan /\ run'[e].todo \subseteq run[e].todo
        /\ run'[e].action = run[e].action /\ run[e].at = "loop"
    BY <1>1 DEF Orphan!Pass, RunShape, RunFields
  <2>. QED
    BY <2>1 DEF Task
<1>2. CASE Orphan!Dispatch(e)
  BY <1>2, DispatchTasks
<1>3. CASE \E status : Orphan!Answered(e, status)
  BY <1>3, AnswerEndsWork
<1>4. CASE \E call_ \in Sweeping : run[e].at \in Sweeping /\ Orphan!Goes(e, call_)
  <2>1. PICK call_ \in Sweeping : run[e].at \in Sweeping /\ Orphan!Goes(e, call_)
    BY <1>4
  <2>2. /\ run'[e].at = call_ /\ run'[e].plan = run[e].plan /\ run'[e].todo = run[e].todo
        /\ run'[e].action = run[e].action /\ run'[e].allow = run[e].allow
    BY <2>1 DEF Orphan!Goes, RunShape, RunFields
  <2>. QED
    BY <2>1, <2>2, CallGoesOn DEF Sweeping
<1>5. CASE Orphan!SweepList(e)
  <2>1. run[e].at = "list"
    BY <1>5 DEF Orphan!SweepList
  <2>2. \/ Orphan!Goes(e, "abort")
        \/ \E k : run' = [run EXCEPT ![e].at = "delete", ![e].page = k,
                          ![e].more = {i \in Orphan!Objects(e) : i > run[e].marker} # {k}]
    BY <1>5, Zenon DEF Orphan!SweepList
  <2>3. ASSUME NEW k, run' = [run EXCEPT ![e].at = "delete", ![e].page = k,
                        ![e].more = {i \in Orphan!Objects(e) : i > run[e].marker} # {k}]
        PROVE  Task(run'[e])
    <3>1. /\ run'[e].at = "delete" /\ run'[e].plan = run[e].plan /\ run'[e].todo = run[e].todo
          /\ run'[e].action = run[e].action /\ run'[e].allow = run[e].allow
      BY <2>3 DEF RunShape, RunFields
    <3>. QED
      BY <2>1, <3>1, CallGoesOn DEF Sweeping
  <2>. QED
    BY <1>4, <2>1, <2>2, <2>3 DEF Sweeping
<1>6. CASE Orphan!SweepDelete(e)
  <2>1. /\ run[e].at = "delete" /\ run'[e].at \in {"list", "abort"}
        /\ run'[e].plan = run[e].plan /\ run'[e].todo = run[e].todo
        /\ run'[e].action = run[e].action /\ run'[e].allow = run[e].allow
    BY <1>6 DEF Orphan!SweepDelete, RunShape, RunFields
  <2>. QED
    BY <2>1, CallGoesOn DEF Sweeping
<1>7. CASE /\ run[e].at \in OnLogs /\ Orphan!Place(run[e].action.target.seen) = ClientPlace
           /\ \E call_ \in OnLogs : Orphan!Goes(e, call_)
  <2>1. PICK call_ \in OnLogs : Orphan!Goes(e, call_)
    BY <1>7
  <2>2. /\ run'[e].at = call_ /\ run'[e].plan = run[e].plan /\ run'[e].todo = run[e].todo
        /\ run'[e].action = run[e].action /\ run'[e].allow = run[e].allow
    BY <2>1 DEF Orphan!Goes, RunShape, RunFields
  <2>. QED
    BY <1>7, <2>1, <2>2, CallGoesOn DEF OnLogs
<1>8. CASE Orphan!LogsPlace(e)
  BY <1>3, <1>7, <1>8 DEF Orphan!LogsPlace, OnLogs
<1>9. CASE Orphan!LogsDescribe(e)
  <2>1. run[e].at = "describe"
    BY <1>9 DEF Orphan!LogsDescribe
  <2>2. Orphan!Place(run[e].action.target.seen) = ClientPlace
    BY <2>1 DEF Task, AtWork, OnLogs
  <2>. QED
    BY <1>3, <1>7, <1>9, <2>1, <2>2 DEF Orphan!LogsDescribe, OnLogs
<1>10. CASE Orphan!SweepCheck(e) \/ Orphan!SweepAbort(e)
  BY <1>3, <1>4, <1>10 DEF Orphan!SweepCheck, Orphan!SweepAbort, Sweeping
<1>11. CASE \/ Orphan!SweepAbsent(e) \/ Orphan!SweepDrop(e) \/ Orphan!LogsDrop(e)
            \/ Orphan!CallersExecutor(e) \/ Orphan!CallFails(e)
  BY <1>3, <1>11 DEF Orphan!SweepAbsent, Orphan!SweepDrop, Orphan!LogsDrop,
                     Orphan!CallersExecutor, Orphan!CallFails
<1>. QED
  BY <1>1, <1>2, <1>5, <1>6, <1>8, <1>9, <1>10, <1>11, Zenon DEF Proceeds, Orphan!Executor

LEMMA MandateInit ==
    ASSUME Orphan!Init
    PROVE  Mandate
<1>1. World
  BY InventoryAssumption DEF Orphan!Init, World, Scoped
<1>. QED
  BY <1>1, LockedInit DEF Orphan!Init, Mandate, Locked, Tasks, Orphan!Running

LEMMA ProceedsWorld ==
    ASSUME Mandate, NEW e \in Executions, Proceeds(e)
    PROVE  World'
<1>0. Shape /\ World
  BY DEF Mandate
<1>1. plans' = plans /\ asked' = asked /\ Orphan!Running(e)
  BY <1>0, ProceedsShape
<1>2. cloud' \subseteq cloud
  BY DEF Proceeds, Orphan!Pass, Orphan!Dispatch, Orphan!Executor, Orphan!CallFails, Orphan!world,
         Orphan!SweepCheck, Orphan!SweepAbsent, Orphan!SweepList,
         Orphan!SweepDelete, Orphan!SweepAbort, Orphan!SweepDrop, Orphan!LogsPlace,
         Orphan!LogsDescribe, Orphan!LogsDrop, Orphan!CallersExecutor
<1>3. CASE Orphan!CallersExecutor(e)
  <2>1. run[e].at # "loop" /\ AtWork(run[e]) /\ Sound(run[e].plan)
    BY <1>1, <1>3 DEF Orphan!CallersExecutor, Mandate, Tasks, Task
  <2>2. run[e].action.target.thing \in Orphan!Things
    BY <2>1 DEF AtWork, Sound, Cleared
  <2>3. state' \subseteq Orphan!Things
    BY <1>0, <1>3, <2>2 DEF World, Orphan!CallersExecutor
  <2>. QED
    BY <1>0, <1>1, <1>2, <2>3 DEF World
<1>4. CASE ~Orphan!CallersExecutor(e)
  <2>1. state' = state
    BY <1>4 DEF Proceeds, Orphan!Pass, Orphan!Dispatch, Orphan!Executor, Orphan!CallFails, Orphan!world,
         Orphan!SweepCheck, Orphan!SweepAbsent, Orphan!SweepList,
         Orphan!SweepDelete, Orphan!SweepAbort, Orphan!SweepDrop, Orphan!LogsPlace,
         Orphan!LogsDescribe, Orphan!LogsDrop
  <2>. QED
    BY <1>0, <1>1, <1>2, <2>1 DEF World
<1>. QED
  BY <1>3, <1>4

LEMMA MandateStep ==
    ASSUME Mandate, [Orphan!Next]_orphanVars
    PROVE  Mandate'
<1>0. Shape /\ World /\ Tasks
  BY DEF Mandate
<1>1. CASE UNCHANGED orphanVars
  BY <1>0, <1>1 DEF orphanVars, Mandate, Shape, World, Tasks, Orphan!Running
<1>2. ASSUME NEW e \in Executions, Proceeds(e)
      PROVE  Mandate'
  <2>1. /\ DOMAIN run' = Executions /\ \A f \in Executions \ {e} : run'[f] = run[f]
        /\ RunShape(run'[e])
    BY <1>0, <1>2, ProceedsShape
  <2>2. Shape'
    BY <1>0, <2>1 DEF Shape, Orphan!Running, Orphan!Idle
  <2>3. Tasks'
    BY <1>0, <1>2, <2>1, ProceedsTasks DEF Tasks, Orphan!Running, Orphan!Idle
  <2>. QED
    BY <1>2, <2>2, <2>3, ProceedsWorld DEF Mandate
<1>3. ASSUME NEW e \in Executions, Orphan!Return(e)
      PROVE  Mandate'
  <2>1. run' = [run EXCEPT ![e] = Orphan!Idle] /\ DOMAIN run = Executions
        /\ UNCHANGED <<cloud, state, asked, plans>>
    BY <1>0, <1>3 DEF Orphan!Return, Shape, Orphan!world
  <2>. QED
    BY <1>0, <2>1 DEF Mandate, Shape, World, Tasks, Orphan!Running, Orphan!Idle
<1>4. ASSUME NEW e \in Executions, NEW p \in plans, NEW allow \in AllowLists, Orphan!Execute(e, p, allow)
      PROVE  Mandate'
  <2>1. /\ run'[e].plan = p /\ RunShape(run'[e]) /\ run'[e].at = "loop"
        /\ run'[e].action = Orphan!None /\ run'[e].todo = p.actions
        /\ DOMAIN run' = Executions
        /\ \A f \in Executions \ {e} : run'[f] = run[f]
    BY <1>0, <1>4 DEF Orphan!Execute, RunShape, RunFields, Orphan!Awaits, Shape
  <2>2. World' /\ Sound(p)
    BY <1>0, <1>4 DEF World, Orphan!Execute, Orphan!world
  <2>3. Task(run'[e])
    BY <2>1, <2>2 DEF Task
  <2>4. Shape' /\ Tasks'
    BY <1>0, <2>1, <2>3 DEF Shape, Tasks, Orphan!Running, Orphan!Idle
  <2>. QED
    BY <2>2, <2>4 DEF Mandate
<1>5. CASE Orphan!Crash
  BY <1>0, <1>5 DEF Orphan!Crash, Mandate, Shape, World, Tasks, Orphan!Running, Orphan!world
<1>6. ASSUME NEW q \in asked, Orphan!Plan(q)
      PROVE  Mandate'
  <2>1. run' = run /\ cloud' = cloud /\ state' = state /\ asked' \subseteq asked
    BY <1>6 DEF Orphan!Plan, Orphan!world
  <2>2. \A p \in plans' : Sound(p)
    BY <1>0, <1>6, PlanIsSound DEF World
  <2>3. World'
    BY <1>0, <2>1, <2>2 DEF World
  <2>. QED
    BY <1>0, <2>1, <2>3 DEF Mandate, Shape, Tasks, Orphan!Running
<1>7. ASSUME NEW t \in Orphan!Things,
             \/ Orphan!Create(t) \/ Orphan!Remove(t) \/ Orphan!GrowOld(t) \/ Orphan!Adopt(t)
             \/ Orphan!Release(t) \/ \E k \in Versions : Orphan!Write(t, k)
      PROVE  Mandate'
  <2>1. /\ UNCHANGED <<run, plans, asked>>
        /\ cloud' \subseteq Orphan!Things /\ state' \subseteq Orphan!Things
    BY <1>0, <1>7 DEF Orphan!Create, Orphan!Remove, Orphan!GrowOld, Orphan!Adopt, Orphan!Release,
                      Orphan!Write, World
  <2>. QED
    BY <1>0, <2>1 DEF Mandate, Shape, World, Tasks, Orphan!Running
<1>8. CASE Orphan!Next
  BY <1>2, <1>3, <1>4, <1>5, <1>6, <1>7, <1>8, Zenon DEF Orphan!Next, Orphan!Runs, Proceeds
<1>. QED
  BY <1>1, <1>8

LEMMA MandateInvariant == Spec => []Mandate
<1>1. Init => Mandate
  BY MandateInit DEF Init
<1>2. Mandate /\ [Next]_vars => Mandate'
  BY Alone, MandateStep
<1>. QED
  BY <1>1, <1>2, PTL DEF Spec

-----------------------------------------------------------------------------
(***************************************************************************)
(* Deletions                                                               *)
(***************************************************************************)
\* The deletions of an execution are those of three executors' last calls.
LEMMA WhoDeletes ==
    ASSUME Mandate, Orphan!Next, NEW e \in Executions, NEW t \in Orphan!Deletes(e)
    PROVE  /\ t \in cloud /\ Orphan!Running(e)
           /\ \/ run[e].at = "drop" /\ t \in Orphan!Buckets(e)
              \/ run[e].at = "droplog" /\ t \in Orphan!LogGroups(e)
              \/ /\ run[e].at = "call" /\ run[e].action.decision = "deleteCloudResource"
                 /\ t = run[e].action.target.thing
<1>0. Shape
  BY DEF Mandate
<1>1. budget' = budget /\ run'[e] # run[e] /\ t \in cloud /\ t \notin cloud'
  BY DEF Orphan!Deletes
<1>2. ASSUME NEW f \in Executions, Proceeds(f)
      PROVE  f = e /\ Orphan!Running(e)
  BY <1>0, <1>1, <1>2, ProceedsShape
<1>3. PICK f \in Executions : Proceeds(f)
  BY <1>1, OrphanSteps, Zenon DEF Orphan!Return, Orphan!Execute, Orphan!Crash, Orphan!world
<1>4. f = e /\ Orphan!Running(e)
  BY <1>2, <1>3
<1>5. \/ Orphan!SweepDrop(e) \/ Orphan!LogsDrop(e) \/ Orphan!CallersExecutor(e)
  BY <1>1, <1>3, <1>4 DEF Proceeds, Orphan!Pass, Orphan!Dispatch, Orphan!Executor, Orphan!CallFails,
         Orphan!world, Orphan!SweepCheck, Orphan!SweepAbsent, Orphan!SweepList,
         Orphan!SweepDelete, Orphan!SweepAbort, Orphan!LogsPlace, Orphan!LogsDescribe
<1>. QED
  BY <1>1, <1>4, <1>5 DEF Orphan!SweepDrop, Orphan!LogsDrop, Orphan!CallersExecutor

\* What is deleted is named by an action that is at work, and is of one place and one
\* singleton flag with the inventory entry the action was cleared for.
LEMMA DeletionsAreOfTheirAction ==
    ASSUME Mandate, Orphan!Next, NEW e \in Executions, NEW t \in Orphan!Deletes(e)
    PROVE  LET a == run[e].action  u == run[e].action.target.thing
           IN  /\ AtWork(run[e]) /\ Sound(run[e].plan) /\ Cleared(a, run[e].plan)
               /\ a.decision = "deleteCloudResource"
               /\ Orphan!Id(t) = Orphan!Id(u) /\ Orphan!Place(t) = Orphan!Place(u)
               /\ Orphan!IsSecuritySingleton(t) \/ Catalogue[t].singleton =>
                     Orphan!IsSecuritySingleton(u) \/ Catalogue[u].singleton
<1>. DEFINE a == run[e].action
            u == run[e].action.target.thing
<1>1. /\ t \in Orphan!Things /\ Orphan!Running(e) /\ run[e].at # "loop"
      /\ \/ run[e].at = "drop" /\ t \in Orphan!Buckets(e)
         \/ run[e].at = "droplog" /\ t \in Orphan!LogGroups(e)
         \/ /\ run[e].at = "call" /\ a.decision = "deleteCloudResource" /\ t = u
  BY WhoDeletes DEF Mandate, World
<1>2. AtWork(run[e]) /\ Sound(run[e].plan)
  BY <1>1 DEF Mandate, Tasks, Task
<1>3. Cleared(a, run[e].plan) /\ u \in Orphan!Things
  BY <1>2 DEF AtWork, Sound, Cleared
<1>4. CASE run[e].at = "drop" /\ t \in Orphan!Buckets(e)
  <2>1. Orphan!Kind(t) = "bucket" /\ Orphan!Id(t) = Orphan!Id(u)
    BY <1>4 DEF Orphan!Buckets
  <2>2. Orphan!IsS3Bucket(u) /\ a.decision = "deleteCloudResource"
    BY <1>2, <1>3, <1>4 DEF AtWork, Sweeping, Cleared
  <2>3. Orphan!Place(t) = Orphan!Place(u) /\ Catalogue[t].singleton = Catalogue[u].singleton
    BY <1>1, <1>3, <2>1, <2>2, InventoryAssumption DEF Orphan!IsS3Bucket
  <2>. QED
    BY <1>2, <1>3, <2>1, <2>2, <2>3 DEF Orphan!IsSecuritySingleton
<1>5. CASE run[e].at = "droplog" /\ t \in Orphan!LogGroups(e)
  <2>1. /\ Orphan!Kind(t) = "logGroup" /\ Orphan!Id(t) = Orphan!Id(u)
        /\ Orphan!Place(t) = ClientPlace
    BY <1>5 DEF Orphan!LogGroups
  <2>2. /\ Orphan!Kind(u) = "logGroup" /\ a.decision = "deleteCloudResource"
        /\ Orphan!Place(a.target.seen) = ClientPlace
    BY <1>2, <1>3, <1>5 DEF AtWork, OnLogs, Cleared
  <2>3. a.target.seen = u
    BY <1>2, <1>3, <2>2 DEF AtWork, Cleared, ClearedForDeletion
  <2>4. Catalogue[t].singleton = Catalogue[u].singleton
    BY <1>1, <1>3, <2>1, <2>2, <2>3, InventoryAssumption
  <2>. QED
    BY <1>2, <1>3, <2>1, <2>2, <2>3, <2>4 DEF Orphan!IsSecuritySingleton
<1>. QED
  BY <1>1, <1>2, <1>3, <1>4, <1>5

\* The two action properties, of one deletion.
IsCleared(e, t) ==
    LET p == run[e].plan  a == run[e].action  g == a.target
    IN  /\ p.mode \in {"sweep-only", "reconcile"}
        /\ a.decision = "deleteCloudResource"
        /\ run[e].allow # {} => a.decision \in run[e].allow
        /\ ~g.inState
        /\ p.scope.prefix = "narrow" /\ Orphan!InventoryPrefix(g.thing)
        /\ Orphan!Place(g.thing) \in p.scope.places
        /\ Orphan!Cardinality(g.signals) >= p.scope.minSignals
        /\ (Orphan!IsSecuritySingleton(t) \/ Catalogue[t].singleton) => p.scope.singletons
        /\ Orphan!Cardinality(p.actions) <= p.scope.maxActions

IsThere(e, t) ==
    /\ Orphan!Id(t) = Orphan!Id(run[e].action.target.thing)
    /\ Orphan!Place(t) = Orphan!Place(run[e].action.target.thing)

LEMMA ClearedDeletions ==
    ASSUME Mandate, Orphan!Next, NEW e \in Executions, NEW t \in Orphan!Deletes(e)
    PROVE  IsCleared(e, t)
<1>1. AtWork(run[e]) /\ Cleared(run[e].action, run[e].plan)
      /\ run[e].action.decision = "deleteCloudResource"
      /\ (Orphan!IsSecuritySingleton(t) \/ Catalogue[t].singleton =>
             \/ Orphan!IsSecuritySingleton(run[e].action.target.thing)
             \/ Catalogue[run[e].action.target.thing].singleton)
  BY DeletionsAreOfTheirAction
<1>. QED
  BY <1>1, SameCardinality, Zenon DEF AtWork, Cleared, ClearedForDeletion, IsCleared

\* What an executor deletes was planned for deletion in a mode that deletes, in no
\* discovered state, of a matching prefix and place, owned, and a singleton only where the
\* scope lets singletons go; it lies in the place of what was planned; and a Config
\* recorder goes after its delivery channel had its turn: classifyTarget and the sort of
\* reconciler.ts, the sweeper and the log group executor, whatever happens between.
THEOREM Deletions == Spec => DeletesAsPlanned
<1>1. Mandate /\ [Next]_vars => [\A e \in Executions : \A t \in Orphan!Deletes(e) : IsCleared(e, t)]_Orphan!vars
  BY OrphanActs, ClearedDeletions
<1>2. Mandate /\ [Next]_vars => [\A e \in Executions : \A t \in Orphan!Deletes(e) : IsThere(e, t)]_Orphan!vars
  BY OrphanActs, DeletionsAreOfTheirAction DEF IsThere
<1>3. Mandate => Orphan!RecorderFollowsChannel
  <2>. SUFFICES ASSUME Mandate, NEW e \in Executions, Orphan!Running(e), run[e].action # Orphan!None,
                       NEW b \in Orphan!DependsOn(run[e].action, run[e].plan.actions), b \in run[e].todo
                PROVE  FALSE
    BY DEF Orphan!RecorderFollowsChannel
  <2>1. AtWork(run[e])
    BY DEF Mandate, Tasks, Task
  <2>2. run[e].action.type = "deleteConfigRecorder" /\ b.type = "deleteConfigDeliveryChannel"
    BY DEF Orphan!DependsOn
  <2>. QED
    BY <2>1, <2>2 DEF AtWork
<1>. QED
  BY <1>1, <1>2, <1>3, MandateInvariant, PTL
     DEF Spec, DeletesAsPlanned, Orphan!OnlyClearedThingsAreDeleted, Orphan!DeletesWhereItPlanned,
         IsCleared, IsThere

-----------------------------------------------------------------------------
(***************************************************************************)
(* Sweeps                                                                  *)
(***************************************************************************)
Stock == objects \in [Orphan!Things -> SUBSET Versions] /\ budget \in Nat

\* Where a sweep is, nothing is left behind it: before the marker of a listing, before
\* the page being deleted, or in the bucket at all once the listing is through.
Behind(r, t) ==
    /\ r.at = "list" => \A k \in objects[t] : k > r.marker
    /\ r.at = "delete" => /\ \A k \in objects[t] : k >= r.page
                          /\ ~r.more => objects[t] \subseteq {r.page}
    /\ r.at \in {"abort", "drop"} => objects[t] = {}

Swept(e) ==
    \A t \in Orphan!Buckets(e) : Catalogue[t].held = {} => Behind(run[e], t)

Sweep(e) ==
    /\ run[e].began \in Nat /\ budget <= run[e].began
    /\ run[e].marker \in Nat
    /\ run[e].at = "check" => run[e].marker = 0
    /\ run[e].at = "delete" => run[e].page \in Versions
    /\ run[e].began = budget => Swept(e)

Sweeps == \A e \in Executions : Orphan!Running(e) => Sweep(e)

Housekeeping == Mandate /\ Stock /\ Sweeps

\* What goes on in an execution takes at most one unit of budget, and without one
\* things and versions only become fewer.
LEMMA ProceedsShrinks ==
    ASSUME Mandate, Stock, NEW e \in Executions, Proceeds(e)
    PROVE  /\ Stock' /\ budget' <= budget
           /\ cloud' \subseteq cloud
           /\ \A t \in Orphan!Things : objects'[t] \subseteq objects[t]
<1>0. budget' = budget \/ Orphan!Disturb
  BY DEF Proceeds, Orphan!Pass, Orphan!Dispatch, Orphan!Executor, Orphan!CallFails, Orphan!world,
         Orphan!SweepCheck, Orphan!SweepAbsent, Orphan!SweepList,
         Orphan!SweepDelete, Orphan!SweepAbort, Orphan!SweepDrop, Orphan!LogsPlace,
         Orphan!LogsDescribe, Orphan!LogsDrop, Orphan!CallersExecutor
<1>1. budget' <= budget /\ budget' \in Nat
  BY <1>0 DEF Orphan!Disturb, Stock
<1>2. cloud' \subseteq cloud
  BY DEF Proceeds, Orphan!Pass, Orphan!Dispatch, Orphan!Executor, Orphan!CallFails, Orphan!world,
         Orphan!SweepCheck, Orphan!SweepAbsent, Orphan!SweepList,
         Orphan!SweepDelete, Orphan!SweepAbort, Orphan!SweepDrop, Orphan!LogsPlace,
         Orphan!LogsDescribe, Orphan!LogsDrop, Orphan!CallersExecutor
<1>3. \/ objects' = objects \/ objects' = Orphan!Emptied(e, run[e].page)
  BY DEF Proceeds, Orphan!Pass, Orphan!Dispatch, Orphan!Executor, Orphan!CallFails, Orphan!world,
         Orphan!SweepCheck, Orphan!SweepAbsent, Orphan!SweepList,
         Orphan!SweepDelete, Orphan!SweepAbort, Orphan!SweepDrop, Orphan!LogsPlace,
         Orphan!LogsDescribe, Orphan!LogsDrop, Orphan!CallersExecutor
<1>4. objects' \in [Orphan!Things -> SUBSET Versions] /\ \A t \in Orphan!Things : objects'[t] \subseteq objects[t]
  BY <1>3 DEF Stock, Orphan!Emptied
<1>. QED
  BY <1>1, <1>2, <1>4 DEF Stock

\* A sweep that takes no step of its own stays where it is.
LEMMA OthersLeaveSweeps ==
    ASSUME Housekeeping, NEW e \in Executions, Orphan!Running(e), run'[e] = run[e],
           budget' \in Nat, budget' <= budget,
           budget' = budget => /\ cloud' \subseteq cloud
                               /\ \A t \in Orphan!Things : objects'[t] \subseteq objects[t]
    PROVE  Sweep(e)'
<1>1. Sweep(e) /\ budget \in Nat /\ cloud \subseteq Orphan!Things
  BY DEF Housekeeping, Sweeps, Stock, Mandate, World
<1>2. ASSUME run[e].began = budget'
      PROVE  Swept(e)'
  <2>1. Swept(e) /\ budget' = budget
    BY <1>1, <1>2 DEF Sweep
  <2>2. Orphan!Buckets(e)' \subseteq Orphan!Buckets(e)
    BY <2>1 DEF Orphan!Buckets
  <2>3. ASSUME NEW t \in Orphan!Buckets(e)', Catalogue[t].held = {}
        PROVE  Behind(run[e], t)'
    <3>1. t \in Orphan!Buckets(e) /\ t \in Orphan!Things
      BY <1>1, <2>2, <2>3 DEF Orphan!Buckets
    <3>2. Behind(run[e], t) /\ objects'[t] \subseteq objects[t]
      BY <2>1, <2>3, <3>1 DEF Swept
    <3>. QED
      BY <3>2 DEF Behind
  <2>. QED
    BY <2>3 DEF Swept
<1>. QED
  BY <1>1, <1>2 DEF Sweep

\* Listing: what is past the marker is what is left, and its first version is the page.
LEMMA ListSweeps ==
    ASSUME Housekeeping, NEW e \in Executions, Orphan!Running(e), Orphan!SweepList(e)
    PROVE  Sweep(e)'
<1>. DEFINE left_ == {k \in Orphan!Objects(e) : k > run[e].marker}
<1>0. RunShape(run[e]) /\ DOMAIN run = Executions /\ Sweep(e) /\ Stock /\ cloud \subseteq Orphan!Things
  BY DEF Housekeeping, Mandate, Shape, Sweeps, World
<1>1. run[e].at = "list" /\ UNCHANGED <<cloud, objects, budget>>
  BY DEF Orphan!SweepList, Orphan!world
<1>2. \A t \in Orphan!Buckets(e) : t \in Orphan!Things /\ objects[t] \subseteq Versions /\ objects[t] \subseteq Orphan!Objects(e)
  BY <1>0 DEF Orphan!Buckets, Orphan!Objects, Stock
<1>3. ASSUME run[e].began = budget, NEW t \in Orphan!Buckets(e), Catalogue[t].held = {}
      PROVE  objects[t] \subseteq left_
  BY <1>0, <1>1, <1>2, <1>3 DEF Sweep, Swept, Behind
<1>4. left_ \subseteq Versions
  BY <1>0, <1>2 DEF Orphan!Objects, Orphan!Buckets
<1>5. CASE left_ = {}
  <2>1. run' = [run EXCEPT ![e].at = "abort"]
    BY <1>5 DEF Orphan!SweepList, Orphan!Goes
  <2>2. /\ run'[e].at = "abort" /\ run'[e].action = run[e].action /\ run'[e].began = run[e].began
        /\ run'[e].marker = run[e].marker
    BY <1>0, <2>1 DEF RunShape, RunFields
  <2>3. Orphan!Buckets(e)' = Orphan!Buckets(e)
    BY <1>1, <2>2 DEF Orphan!Buckets
  <2>4. run[e].began = budget => Swept(e)'
    BY <1>1, <1>3, <1>5, <2>2, <2>3 DEF Swept, Behind
  <2>. QED
    BY <1>0, <1>1, <2>2, <2>4 DEF Sweep
<1>6. CASE left_ # {}
  <2>1. PICK k \in left_ : /\ \A l \in left_ : k <= l
                          /\ run' = [run EXCEPT ![e].at = "delete", ![e].page = k, ![e].more = left_ # {k}]
    BY <1>6, Zenon DEF Orphan!SweepList
  <2>2. /\ run'[e].at = "delete" /\ run'[e].action = run[e].action /\ run'[e].began = run[e].began
        /\ run'[e].marker = run[e].marker /\ run'[e].page = k /\ run'[e].more = (left_ # {k})
    BY <1>0, <2>1 DEF RunShape, RunFields
  <2>3. Orphan!Buckets(e)' = Orphan!Buckets(e)
    BY <1>1, <2>2 DEF Orphan!Buckets
  <2>4. k \in Versions /\ \A l \in left_ : l >= k
    BY <1>4, <2>1, InventoryAssumption
  <2>5. ASSUME run[e].began = budget, NEW t \in Orphan!Buckets(e), Catalogue[t].held = {}
        PROVE  Behind(run[e], t)'
    <3>1. objects[t] \subseteq left_
      BY <1>3, <2>5
    <3>. HIDE DEF left_
    <3>. QED
      BY <1>1, <2>2, <2>4, <3>1 DEF Behind
  <2>6. run[e].began = budget => Swept(e)'
    BY <2>3, <2>5 DEF Swept
  <2>. QED
    BY <1>0, <1>1, <2>2, <2>4, <2>6 DEF Sweep
<1>. QED
  BY <1>5, <1>6

\* Deleting: the page goes from a bucket nobody protects, and the marker follows.
LEMMA DeleteSweeps ==
    ASSUME Housekeeping, NEW e \in Executions, Orphan!Running(e), Orphan!SweepDelete(e)
    PROVE  Sweep(e)'
<1>0. RunShape(run[e]) /\ DOMAIN run = Executions /\ Sweep(e) /\ Stock /\ cloud \subseteq Orphan!Things
  BY DEF Housekeeping, Mandate, Shape, Sweeps, World
<1>1. /\ run[e].at = "delete" /\ UNCHANGED <<cloud, budget>>
      /\ objects' = Orphan!Emptied(e, run[e].page)
      /\ run' = [run EXCEPT ![e].marker = run[e].page,
                            ![e].at = IF run[e].more THEN "list" ELSE "abort"]
  BY DEF Orphan!SweepDelete
<1>2. /\ run'[e].at = (IF run[e].more THEN "list" ELSE "abort") /\ run'[e].marker = run[e].page
      /\ run'[e].action = run[e].action /\ run'[e].began = run[e].began
  BY <1>0, <1>1 DEF RunShape, RunFields
<1>3. run[e].page \in Versions /\ run[e].page \in Nat
  BY <1>0, <1>1, InventoryAssumption DEF Sweep
<1>4. Orphan!Buckets(e)' = Orphan!Buckets(e)
  BY <1>1, <1>2 DEF Orphan!Buckets
<1>5. ASSUME run[e].began = budget, NEW t \in Orphan!Buckets(e), Catalogue[t].held = {}
      PROVE  Behind(run[e], t)'
  <2>1. t \in Orphan!Things /\ objects[t] \subseteq Nat
    BY <1>0, InventoryAssumption DEF Orphan!Buckets, Stock
  <2>2. objects'[t] = objects[t] \ {run[e].page}
    BY <1>1, <1>5, <2>1 DEF Orphan!Emptied
  <2>3. Behind(run[e], t)
    BY <1>0, <1>5 DEF Sweep, Swept
  <2>4. \A k \in objects[t] : k >= run[e].page
    BY <1>1, <2>3 DEF Behind
  <2>5. \A k \in objects'[t] : k > run[e].page
    BY <1>3, <2>1, <2>2, <2>4
  <2>6. ~run[e].more => objects'[t] = {}
    BY <1>1, <2>2, <2>3 DEF Behind
  <2>. QED
    BY <1>2, <2>5, <2>6 DEF Behind
<1>6. run[e].began = budget => Swept(e)'
  BY <1>4, <1>5 DEF Swept
<1>. QED
  BY <1>0, <1>1, <1>2, <1>3, <1>6 DEF Sweep

LEMMA ProceedsSweeps ==
    ASSUME Housekeeping, NEW e \in Executions, Proceeds(e)
    PROVE  Sweep(e)'
<1>0. /\ Orphan!Running(e) /\ RunShape(run[e]) /\ DOMAIN run = Executions /\ Sweep(e)
      /\ Mandate /\ Stock /\ cloud \subseteq Orphan!Things
  BY ProceedsShape DEF Housekeeping, Mandate, Shape, Sweeps, World
<1>1. budget' \in Nat /\ budget' <= budget
  BY <1>0, ProceedsShrinks DEF Stock
\* Wherever it goes that is no sweep.
<1>2. ASSUME run'[e].at \in {"loop", "check", "place", "describe", "droplog", "call"},
             run'[e].began = run[e].began \/ run'[e].began = budget,
             run'[e].marker = run[e].marker \/ run'[e].marker = 0,
             run'[e].at = "check" => run'[e].marker = 0
      PROVE  Sweep(e)'
  BY <1>0, <1>1, <1>2 DEF Sweep, Swept, Behind, Stock
<1>3. ASSUME NEW status, Orphan!Answered(e, status)
      PROVE  Sweep(e)'
  <2>1. run'[e].at = "loop" /\ run'[e].began = run[e].began /\ run'[e].marker = run[e].marker
    BY <1>0, <1>3 DEF Orphan!Answered, RunShape, RunFields
  <2>. QED
    BY <1>2, <2>1
<1>4. ASSUME NEW call_ \in {"place", "describe", "droplog"}, Orphan!Goes(e, call_)
      PROVE  Sweep(e)'
  <2>1. run'[e].at = call_ /\ run'[e].began = run[e].began /\ run'[e].marker = run[e].marker
    BY <1>0, <1>4 DEF Orphan!Goes, RunShape, RunFields
  <2>. QED
    BY <1>2, <2>1
<1>5. CASE Orphan!Pass(e)
  <2>1. run'[e].at = "loop" /\ run'[e].began = run[e].began /\ run'[e].marker = run[e].marker
    BY <1>0, <1>5 DEF Orphan!Pass, RunShape, RunFields
  <2>. QED
    BY <1>2, <2>1
<1>6. CASE Orphan!Dispatch(e)
  <2>1. PICK a \in Orphan!First(run[e].todo) :
           run' = [run EXCEPT ![e].todo = @ \ {a}, ![e].at = Orphan!Start(a.type),
                              ![e].action = a, ![e].marker = 0, ![e].began = budget]
    BY <1>6 DEF Orphan!Dispatch
  <2>2. run'[e].at = Orphan!Start(a.type) /\ run'[e].began = budget /\ run'[e].marker = 0
    BY <1>0, <2>1 DEF RunShape, RunFields
  <2>3. Orphan!Start(a.type) \in {"check", "place", "call"}
    BY DEF Orphan!Start
  <2>. QED
    BY <1>2, <2>2, <2>3
<1>7. CASE Orphan!SweepCheck(e) /\ Orphan!Goes(e, "list")
  <2>1. /\ run[e].at = "check" /\ UNCHANGED <<cloud, objects, budget>>
        /\ run'[e].at = "list" /\ run'[e].began = run[e].began /\ run'[e].marker = run[e].marker
        /\ run'[e].action = run[e].action
    BY <1>0, <1>7 DEF Orphan!SweepCheck, Orphan!Goes, Orphan!world, RunShape, RunFields
  <2>2. run[e].marker = 0
    BY <1>0, <2>1 DEF Sweep
  <2>3. \A t \in Orphan!Things : \A k \in objects[t] : k > 0
    BY <1>0, InventoryAssumption DEF Stock
  <2>4. Orphan!Buckets(e)' \subseteq Orphan!Things
    BY <1>0, <2>1 DEF Orphan!Buckets
  <2>5. Swept(e)'
    BY <2>1, <2>2, <2>3, <2>4 DEF Swept, Behind
  <2>. QED
    BY <1>0, <2>1, <2>5 DEF Sweep
<1>8. CASE Orphan!SweepAbort(e) /\ Orphan!Goes(e, "drop")
  <2>1. /\ run[e].at = "abort" /\ UNCHANGED <<cloud, objects, budget>>
        /\ run'[e].at = "drop" /\ run'[e].began = run[e].began /\ run'[e].marker = run[e].marker
        /\ run'[e].action = run[e].action
    BY <1>0, <1>8 DEF Orphan!SweepAbort, Orphan!Goes, Orphan!world, RunShape, RunFields
  <2>2. Orphan!Buckets(e)' = Orphan!Buckets(e)
    BY <2>1 DEF Orphan!Buckets
  <2>3. Swept(e) => Swept(e)'
    BY <2>1, <2>2 DEF Swept, Behind
  <2>. QED
    BY <1>0, <2>1, <2>3 DEF Sweep
<1>9. CASE Orphan!LogsPlace(e) \/ Orphan!LogsDescribe(e)
  BY <1>3, <1>4, <1>9 DEF Orphan!LogsPlace, Orphan!LogsDescribe
<1>10. CASE \/ Orphan!SweepAbsent(e) \/ Orphan!SweepDrop(e) \/ Orphan!LogsDrop(e)
            \/ Orphan!CallersExecutor(e) \/ Orphan!CallFails(e)
  BY <1>3, <1>10 DEF Orphan!SweepAbsent, Orphan!SweepDrop, Orphan!LogsDrop,
                     Orphan!CallersExecutor, Orphan!CallFails
<1>11. CASE Orphan!SweepCheck(e) \/ Orphan!SweepAbort(e)
  BY <1>3, <1>7, <1>8, <1>11 DEF Orphan!SweepCheck, Orphan!SweepAbort
<1>12. CASE Orphan!SweepList(e) \/ Orphan!SweepDelete(e)
  BY <1>0, <1>12, ListSweeps, DeleteSweeps
<1>. QED
  BY <1>5, <1>6, <1>9, <1>10, <1>11, <1>12, Zenon DEF Proceeds, Orphan!Executor

LEMMA HousekeepingInit ==
    ASSUME Orphan!Init
    PROVE  Housekeeping
<1>1. Stock
  BY InventoryAssumption DEF Orphan!Init, Stock
<1>2. Sweeps
  BY DEF Orphan!Init, Sweeps, Orphan!Running
<1>. QED
  BY <1>1, <1>2, MandateInit DEF Housekeeping

LEMMA HousekeepingStep ==
    ASSUME Housekeeping, [Orphan!Next]_orphanVars
    PROVE  Housekeeping'
<1>0. Mandate /\ Stock /\ Sweeps /\ DOMAIN run = Executions /\ Mandate'
  BY MandateStep DEF Housekeeping, Mandate, Shape
<1>1. CASE UNCHANGED orphanVars
  BY <1>0, <1>1 DEF orphanVars, Housekeeping, Stock, Sweeps, Sweep, Swept, Behind, Orphan!Running,
                    Orphan!Buckets
<1>2. ASSUME NEW e \in Executions, Proceeds(e)
      PROVE  Housekeeping'
  <2>1. /\ Stock' /\ budget' <= budget /\ cloud' \subseteq cloud
        /\ \A t \in Orphan!Things : objects'[t] \subseteq objects[t]
    BY <1>0, <1>2, ProceedsShrinks
  <2>2. \A f \in Executions \ {e} : run'[f] = run[f]
    BY <1>0, <1>2, ProceedsShape DEF Mandate
  <2>3. ASSUME NEW f \in Executions, Orphan!Running(f)'
        PROVE  Sweep(f)'
    BY <1>2, <2>1, <2>2, <2>3, ProceedsSweeps, OthersLeaveSweeps DEF Stock, Orphan!Running, Orphan!Idle
  <2>. QED
    BY <1>0, <2>1, <2>3 DEF Housekeeping, Sweeps
<1>3. ASSUME UNCHANGED <<cloud, objects, budget>>, NEW e \in Executions,
             \A f \in Executions \ {e} : run'[f] = run[f],
             Orphan!Running(e)' => /\ run'[e].at = "loop" /\ run'[e].began = budget
                                  /\ run'[e].marker = 0
      PROVE  Housekeeping'
  <2>1. ASSUME NEW f \in Executions \ {e}, Orphan!Running(f)'
        PROVE  Sweep(f)'
    BY <1>0, <1>3, <2>1, OthersLeaveSweeps DEF Housekeeping, Stock, Orphan!Running, Orphan!Idle
  <2>2. Orphan!Running(e)' => Sweep(e)'
    BY <1>0, <1>3 DEF Stock, Sweep, Swept, Behind
  <2>3. Stock'
    BY <1>0, <1>3 DEF Stock
  <2>. QED
    BY <1>0, <2>1, <2>2, <2>3 DEF Housekeeping, Sweeps
<1>4. ASSUME NEW e \in Executions, Orphan!Return(e)
      PROVE  Housekeeping'
  <2>1. /\ UNCHANGED <<cloud, objects, budget>> /\ \A f \in Executions \ {e} : run'[f] = run[f]
        /\ run'[e] = Orphan!Idle
    BY <1>0, <1>4 DEF Orphan!Return, Orphan!world
  <2>. QED
    BY <1>3, <2>1 DEF Orphan!Running, Orphan!Idle
<1>5. ASSUME NEW e \in Executions, NEW p \in plans, NEW allow \in AllowLists, Orphan!Execute(e, p, allow)
      PROVE  Housekeeping'
  <2>1. /\ UNCHANGED <<cloud, objects, budget>> /\ \A f \in Executions \ {e} : run'[f] = run[f]
        /\ run'[e].at = "loop" /\ run'[e].began = budget /\ run'[e].marker = 0
    BY <1>0, <1>5 DEF Orphan!Execute, Orphan!world
  <2>. QED
    BY <1>3, <2>1
<1>6. CASE Orphan!Crash
  BY <1>0, <1>6 DEF Orphan!Crash, Orphan!Disturb, Orphan!world, Orphan!Running, Housekeeping,
                    Stock, Sweeps
<1>7. ASSUME run' = run, Stock', budget' <= budget,
             budget' = budget => cloud' = cloud /\ objects' = objects
      PROVE  Housekeeping'
  BY <1>0, <1>7, OthersLeaveSweeps DEF Housekeeping, Sweeps, Stock, Orphan!Running, Orphan!Idle
<1>8. ASSUME NEW q \in asked, Orphan!Plan(q)
      PROVE  Housekeeping'
  BY <1>0, <1>7, <1>8 DEF Orphan!Plan, Orphan!world, Stock
<1>9. ASSUME NEW t \in Orphan!Things,
             \/ Orphan!Create(t) \/ Orphan!Remove(t) \/ Orphan!GrowOld(t) \/ Orphan!Adopt(t)
             \/ Orphan!Release(t) \/ \E k \in Versions : Orphan!Write(t, k)
      PROVE  Housekeeping'
  <2>1. run' = run
    BY <1>9 DEF Orphan!Create, Orphan!Remove, Orphan!GrowOld, Orphan!Adopt, Orphan!Release,
                Orphan!Write
  <2>2. \/ UNCHANGED <<cloud, objects, budget>>
        \/ Orphan!Disturb /\ objects' \in [Orphan!Things -> SUBSET Versions]
    BY <1>0, <1>9 DEF Orphan!Create, Orphan!Remove, Orphan!GrowOld, Orphan!Adopt, Orphan!Release,
                      Orphan!Write, Stock
  <2>. QED
    BY <1>0, <1>7, <2>1, <2>2 DEF Orphan!Disturb, Stock
<1>10. CASE Orphan!Next
  BY <1>2, <1>4, <1>5, <1>6, <1>8, <1>9, <1>10, Zenon DEF Orphan!Next, Orphan!Runs, Proceeds
<1>. QED
  BY <1>1, <1>10

LEMMA HousekeepingInvariant == Spec => []Housekeeping
<1>1. Init => Housekeeping
  BY HousekeepingInit DEF Init
<1>2. Housekeeping /\ [Next]_vars => Housekeeping'
  BY Alone, HousekeepingStep
<1>. QED
  BY <1>1, <1>2, PTL DEF Spec

\* A sweep of s3-sweeper.ts that nothing interferes with, over versions nobody protects,
\* leaves no version in the bucket, whatever the number of pages and of other executions.
THEOREM SweepsEmpty == Spec => UndisturbedSweepsEmptyTheBucket
<1>. DEFINE Emptied(e) == /\ run[e].at \in {"abort", "drop"}
                          /\ run'[e].at = "loop"
                          /\ run[e].began = budget'
                          /\ \A t \in Orphan!Buckets(e) : Catalogue[t].held = {}
                          => Orphan!Objects(e) = {}
<1>1. ASSUME Housekeeping, Orphan!Next, NEW e \in Executions
      PROVE  Emptied(e)
  <2>. SUFFICES ASSUME run[e].at \in {"abort", "drop"}, run'[e].at = "loop", run[e].began = budget',
                       \A t \in Orphan!Buckets(e) : Catalogue[t].held = {}
                PROVE  Orphan!Objects(e) = {}
    OBVIOUS
  <2>0. Orphan!Running(e)
    BY DEF Orphan!Running, Orphan!Idle
  <2>1. Sweep(e) /\ Stock /\ Mandate
    BY <1>1, <2>0 DEF Housekeeping, Sweeps
  <2>2. budget' <= budget
    <3>1. CASE \E f \in Executions : Proceeds(f)
      BY <2>1, <3>1, ProceedsShrinks
    <3>2. CASE ~\E f \in Executions : Proceeds(f)
      <4>1. budget' = budget \/ Orphan!Disturb
        BY <1>1, <3>2, Zenon
           DEF Orphan!Next, Orphan!Runs, Proceeds, Orphan!Return, Orphan!Execute, Orphan!Crash,
               Orphan!Plan, Orphan!Create, Orphan!Remove, Orphan!GrowOld, Orphan!Adopt,
               Orphan!Release, Orphan!Write
      <4>. QED
        BY <2>1, <4>1 DEF Orphan!Disturb, Stock
    <3>. QED
      BY <3>1, <3>2
  <2>3. Swept(e)
    BY <2>1, <2>2 DEF Sweep, Stock
  <2>. QED
    BY <2>3 DEF Swept, Behind, Orphan!Objects
<1>2. Housekeeping /\ [Next]_vars => [\A e \in Executions : Emptied(e)]_Orphan!vars
  BY <1>1, OrphanActs
<1>. QED
  BY <1>2, HousekeepingInvariant, PTL
     DEF Spec, UndisturbedSweepsEmptyTheBucket, Orphan!UndisturbedSweepsEmptyTheBucket

-----------------------------------------------------------------------------
(***************************************************************************)
(* Types                                                                   *)
(***************************************************************************)
\* The rest of the reconciler's types: the marker of a listing is of a version, and a
\* status is one of three or none yet.
Marked(r) == r.marker \in Versions \union {0} /\ r.status \in Orphan!Statuses

OrphanTypes ==
    /\ young \subseteq Orphan!Things /\ calls \in Nat
    /\ \A q \in asked : q.mode \in Orphan!Modes
    /\ \A p \in plans : p.mode \in Orphan!Modes
    /\ \A e \in Executions : Orphan!Running(e) => Marked(run[e])

\* An execution on its way.
LEMMA ProceedsMarked ==
    ASSUME Housekeeping, OrphanTypes, NEW e \in Executions, Proceeds(e)
    PROVE  Marked(run'[e])
<1>0. /\ Orphan!Running(e) /\ DOMAIN run = Executions /\ DOMAIN run[e] = RunFields
      /\ Sweep(e) /\ Marked(run[e])
  BY ProceedsShape DEF Housekeeping, Mandate, Shape, RunShape, Sweeps, OrphanTypes
<1>1. ASSUME NEW status \in {"succeeded", "failed", "blocked"}, Orphan!Answered(e, status)
      PROVE  Marked(run'[e])
  BY <1>0, <1>1 DEF Orphan!Answered, Marked, RunFields, Orphan!Statuses
<1>2. ASSUME NEW next, Orphan!Goes(e, next)
      PROVE  Marked(run'[e])
  BY <1>0, <1>2 DEF Orphan!Goes, Marked, RunFields
<1>3. CASE Orphan!Pass(e)
  BY <1>0, <1>3 DEF Orphan!Pass, Marked, RunFields
<1>4. CASE Orphan!Dispatch(e)
  BY <1>0, <1>4 DEF Orphan!Dispatch, Marked, RunFields
<1>5. CASE Orphan!SweepList(e)
  <2>1. \/ Orphan!Goes(e, "abort")
        \/ \E k, more : run' = [run EXCEPT ![e].at = "delete", ![e].page = k, ![e].more = more]
    BY <1>5, Zenon DEF Orphan!SweepList
  <2>2. ASSUME NEW k, NEW more,
               run' = [run EXCEPT ![e].at = "delete", ![e].page = k, ![e].more = more]
        PROVE  Marked(run'[e])
    BY <1>0, <2>2 DEF Marked, RunFields
  <2>. QED
    BY <1>2, <2>1, <2>2
<1>6. CASE Orphan!SweepDelete(e)
  <2>1. run[e].page \in Versions
    BY <1>0, <1>6 DEF Orphan!SweepDelete, Sweep
  <2>. QED
    BY <1>0, <1>6, <2>1 DEF Orphan!SweepDelete, Marked, RunFields
<1>7. CASE Orphan!SweepCheck(e) \/ Orphan!SweepAbsent(e) \/ Orphan!SweepAbort(e) \/ Orphan!SweepDrop(e)
  BY <1>1, <1>2, <1>7 DEF Orphan!SweepCheck, Orphan!SweepAbsent, Orphan!SweepAbort, Orphan!SweepDrop
<1>8. CASE \/ Orphan!LogsPlace(e) \/ Orphan!LogsDescribe(e) \/ Orphan!LogsDrop(e)
           \/ Orphan!CallersExecutor(e) \/ Orphan!CallFails(e)
  BY <1>1, <1>2, <1>8 DEF Orphan!LogsPlace, Orphan!LogsDescribe, Orphan!LogsDrop,
     Orphan!CallersExecutor, Orphan!CallFails
<1>. QED
  BY <1>3, <1>4, <1>5, <1>6, <1>7, <1>8, Zenon DEF Proceeds, Orphan!Executor

\* They hold at the start.
LEMMA OrphanTypesStart == Orphan!Init => OrphanTypes
BY InventoryAssumption DEF Orphan!Init, OrphanTypes, Orphan!Running

\* And after every step.
LEMMA OrphanTypesStep ==
    ASSUME Housekeeping, OrphanTypes, [Orphan!Next]_orphanVars
    PROVE  OrphanTypes'
<1>0. Shape /\ DOMAIN run = Executions
  BY DEF Housekeeping, Mandate, Shape
<1>1. CASE UNCHANGED orphanVars
  BY <1>1 DEF orphanVars, OrphanTypes, Marked, Orphan!Running
<1>2. ASSUME NEW e \in Executions, Proceeds(e)
      PROVE  OrphanTypes'
  <2>1. UNCHANGED <<young, calls>>
    BY <1>2 DEF Proceeds, Orphan!Pass, Orphan!Dispatch, Orphan!Executor, Orphan!CallFails, Orphan!world,
         Orphan!SweepCheck, Orphan!SweepAbsent, Orphan!SweepList,
         Orphan!SweepDelete, Orphan!SweepAbort, Orphan!SweepDrop, Orphan!LogsPlace,
         Orphan!LogsDescribe, Orphan!LogsDrop, Orphan!CallersExecutor
  <2>2. UNCHANGED <<asked, plans>> /\ \A f \in Executions \ {e} : run'[f] = run[f]
    BY <1>0, <1>2, ProceedsShape
  <2>3. Marked(run'[e])
    BY <1>2, ProceedsMarked
  <2>. QED
    BY <2>1, <2>2, <2>3 DEF OrphanTypes, Orphan!Running, Marked
<1>3. ASSUME NEW e \in Executions, Orphan!Return(e)
      PROVE  OrphanTypes'
  BY <1>0, <1>3 DEF Orphan!Return, Orphan!world, OrphanTypes, Orphan!Running, Marked
<1>4. ASSUME NEW e \in Executions, NEW p \in plans, NEW allow \in AllowLists, Orphan!Execute(e, p, allow)
      PROVE  OrphanTypes'
  <2>1. /\ run'[e].marker = 0 /\ run'[e].status = "none"
        /\ \A f \in Executions \ {e} : run'[f] = run[f]
    BY <1>0, <1>4 DEF Orphan!Execute
  <2>2. calls' \in Nat /\ UNCHANGED <<young, asked, plans>>
    BY <1>4 DEF Orphan!Execute, Orphan!world, OrphanTypes
  <2>. QED
    BY <2>1, <2>2 DEF OrphanTypes, Orphan!Running, Marked, Orphan!Statuses
<1>5. CASE Orphan!Crash
  BY <1>5 DEF Orphan!Crash, Orphan!world, OrphanTypes, Orphan!Running
<1>6. ASSUME NEW q \in asked, Orphan!Plan(q)
      PROVE  OrphanTypes'
  BY <1>6 DEF Orphan!Plan, Orphan!world, OrphanTypes, Orphan!Running, Marked
<1>7. ASSUME NEW t \in Orphan!Things,
             \/ Orphan!Create(t) \/ Orphan!Remove(t) \/ Orphan!GrowOld(t) \/ Orphan!Adopt(t)
             \/ Orphan!Release(t) \/ \E k \in Versions : Orphan!Write(t, k)
      PROVE  OrphanTypes'
  BY <1>7 DEF Orphan!Create, Orphan!Remove, Orphan!GrowOld, Orphan!Adopt, Orphan!Release,
     Orphan!Write, OrphanTypes, Orphan!Running, Marked
<1>8. CASE Orphan!Next
  BY <1>2, <1>3, <1>4, <1>5, <1>6, <1>7, <1>8, Zenon DEF Orphan!Next, Orphan!Runs, Proceeds
<1>. QED
  BY <1>1, <1>8

\* So the state of the reconciler is of its type.
LEMMA OrphanTyped == Housekeeping /\ OrphanTypes => Orphan!TypeOK
<1> SUFFICES ASSUME Housekeeping, OrphanTypes PROVE Orphan!TypeOK
  OBVIOUS
<1>1. ASSUME NEW e \in Executions
      PROVE  \/ run[e] = Orphan!Idle
             \/ /\ run[e].at \in Orphan!Awaits \union {"loop"}
                /\ run[e].todo \subseteq run[e].plan.actions
                /\ run[e].marker \in Versions \union {0}
                /\ run[e].status \in Orphan!Statuses
  BY DEF Housekeeping, Mandate, Shape, RunShape, Tasks, Task, OrphanTypes, Marked, Orphan!Running
<1>. QED
  BY <1>1 DEF Housekeeping, Mandate, World, Stock, OrphanTypes, Orphan!TypeOK

\* The state of every program of Tools is of its type: reconciler.ts, live-validator.ts,
\* the adapters, github-app-credential.ts and remediate.ts with merge.ts.
THEOREM ToolsTypes == Spec => []TypeOK
<1>. DEFINE Known == /\ part \in Programs
                     /\ BrokerInv /\ Complete /\ AdapterInv /\ Diligence /\ Housekeeping
                     /\ BrokerTypes /\ LiveTypes /\ AdapterTypes /\ RemediationTypes /\ OrphanTypes
<1>1. Init => Known
  <2>1. Init => BrokerInv /\ BrokerTypes
    BY BrokerStarts, BrokerTypesStart DEF Init
  <2>2. Init => Complete /\ LiveTypes
    BY LiveInit DEF Init, Live!Init, LiveTypes
  <2>3. Init => AdapterInv /\ AdapterTypes
    BY AdapterInit, AdapterTypesStart DEF Init
  <2>4. Init => Diligence /\ RemediationTypes
    BY DiligenceStart, RemediationTypesStart DEF Init
  <2>5. Init => Housekeeping /\ OrphanTypes
    BY HousekeepingInit, OrphanTypesStart DEF Init
  <2>. QED
    BY <2>1, <2>2, <2>3, <2>4, <2>5 DEF Init
<1>2. Known /\ [Next]_vars => Known'
  <2>. SUFFICES ASSUME Known, [Next]_vars PROVE Known'
    OBVIOUS
  <2>1. BrokerInv' /\ BrokerTypes'
    BY Alone, BrokerStep, BrokerTypesStep
  <2>2. Complete' /\ LiveTypes'
    BY Alone, LiveStep, LiveTypesStep
  <2>3. AdapterInv' /\ AdapterTypes'
    BY Alone, AdapterStep, AdapterTypesStep
  <2>4. Diligence' /\ RemediationTypes'
    BY Alone, DiligenceStep, RemediationTypesStep
  <2>5. Housekeeping' /\ OrphanTypes'
    BY Alone, HousekeepingStep, OrphanTypesStep
  <2>. QED
    BY Alone, <2>1, <2>2, <2>3, <2>4, <2>5
<1>3. Known => TypeOK
  <2>. SUFFICES ASSUME Known PROVE TypeOK
    OBVIOUS
  <2>1. Orphan!TypeOK /\ Live!TypeOK /\ Adapter!TypeOK /\ Broker!TypeOK /\ Remediation!TypeOK
    BY OrphanTyped, LiveTyped, AdapterTyped, BrokerTyped, RemediationTyped
  <2>. QED
    BY <2>1 DEF TypeOK, Programs
<1>. QED
  BY <1>1, <1>2, <1>3, PTL DEF Spec
=============================================================================
