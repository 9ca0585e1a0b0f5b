------------------------ MODULE NodeLabelTrustProofs ------------------------
(***************************************************************************)
(* The controller as a whole, for every value of the constants: it         *)
(* implements TrustedLabel, its reports are in step with the Nodes it      *)
(* listed, and trust it extends rests on the proof the kernel asks for.    *)
(***************************************************************************)
EXTENDS NodeLabelControllerProofs, NodeLabelKernelProofs

-----------------------------------------------------------------------------
(***************************************************************************)
(* The controller implements TrustedLabel: the initial states map to       *)
(* initial states, and every step to a step of the abstract label or to a  *)
(* stutter.                                                                *)
(***************************************************************************)
Verdicts == {Verdict(p) : p \in Outstanding}

LEMMA InitRefines == Init => TL!Init
<1>1. Init => Verdicts = {}
  BY DEF Init, Verdicts, Outstanding
<1>2. Init => WorldOK
  BY InitTyped DEF TypeInv, TypeOK
<1>3. QED
  BY <1>1, <1>2 DEF TL!Init, Verdicts, WorldOK

\* The plans under way, and with them the verdicts, only get fewer.
LEMMA FewerVerdicts ==
    ASSUME Outstanding' \subseteq Outstanding
    PROVE  Verdicts' \subseteq Verdicts
BY DEF Verdicts, Verdict, Target

LEMMA ForgetRefines ==
    ASSUME UNCHANGED apiVars, Outstanding' \subseteq Outstanding
    PROVE  TL!Next
BY FewerVerdicts DEF TL!Next, TL!Forget, Verdicts, apiVars

LEMMA WriteRefines ==
    ASSUME SafeInv, WorldOK', NEW n \in Names, NEW object \in Objects \union {NoNode},
           Write(n, object), Next1(n, object)
    PROVE  TL!Writes(n) /\ node'[n] = object
BY DEF SafeInv, TypeInv, TypeOK, WorldOK, Write, Next1, TL!Writes

LEMMA ForeignRefines ==
    ASSUME SafeInv, WorldOK', NEW n \in Names, NEW object \in Objects \union {NoNode},
           ForeignStep(n, object)
    PROVE  TL!Next
<1>1. TL!Writes(n) /\ node'[n] = object
  BY WriteRefines DEF ForeignStep
<1>2. Verdicts' = Verdicts
  BY DEF ForeignStep, patchVars, Verdicts, Verdict, Outstanding, Target
<1>3. TL!Foreign(n)
  BY <1>1, <1>2 DEF TL!Foreign, ForeignStep, Verdicts
<1>4. QED
  BY <1>3 DEF TL!Next

LEMMA CarryOutRefines ==
    ASSUME SafeInv, WorldOK', NEW m \in inflight, CarriesOut(m)
    PROVE  TL!Next
<1>1. TL!Writes(m.plan.name) /\ node'[m.plan.name] = Patched(m.plan)
  BY WriteRefines DEF CarriesOut
<1>2. m.plan \in Outstanding /\ Outstanding' \subseteq Outstanding
  BY DEF CarriesOut, ServerPatch, Outstanding
<1>3. Verdict(m.plan) \in Verdicts /\ Verdicts' \subseteq Verdicts
  BY <1>2, FewerVerdicts DEF Verdicts
<1>4. Patched(m.plan) = [m.plan.seen EXCEPT !.label = Target(m.plan), !.rv = rev']
  BY DEF CarriesOut, Write, Patched
<1>5. TL!CarryOut(Verdict(m.plan))
  BY <1>1, <1>3, <1>4 DEF TL!CarryOut, Verdict, Verdicts, CarriesOut
<1>6. QED
  BY <1>3, <1>5 DEF TL!Next, Verdicts

LEMMA DecisionRefines ==
    ASSUME SafeInv, NEW n \in todo, NEW mutation \in {"add", "remove"}, Decides(n, mutation)
    PROVE  TL!Next
<1>1. n \in Objects
  BY DEF SafeInv, TypeInv, TypeOK, CycleOK
<1>2. plan' \in Plans /\ plan'.seen = n /\ plan'.mutation = mutation
  BY <1>1, PlanTyped DEF Decides, PlanFor
<1>3. Outstanding' = Outstanding \union {plan'}
  BY <1>2, ControllerAssumption DEF Decides, Outstanding
<1>4. Verdicts' = Verdicts \union {Verdict(plan')}
  BY <1>3 DEF Verdicts, Verdict, Target
<1>5. Verdict(plan') \in TL!Verdicts /\ TL!Sound(Verdict(plan'))
  BY <1>1, <1>2, KernelAssumption
     DEF Decides, Verdict, Target, TL!Verdicts, TL!Sound, Plans, Objects
<1>6. TL!Reach
  BY <1>4, <1>5 DEF TL!Reach, Verdicts, Decides, apiVars
<1>7. QED
  BY <1>6 DEF TL!Next

LEMMA StepRefines == SafeInv /\ WorldOK' /\ [Next]_vars => [TL!Next]_(TL!vars)
<1> SUFFICES ASSUME SafeInv, WorldOK', [Next]_vars PROVE [TL!Next]_(TL!vars)
  OBVIOUS
<1>a. TypeInv /\ WellVersioned(node, rev)
  BY DEF SafeInv
<1>1. CASE World
  <2>1. CASE UNCHANGED <<apiVars, cycleVars, patchVars>>
    <3>1. Outstanding' \subseteq Outstanding /\ UNCHANGED apiVars
      BY <2>1 DEF patchVars, Outstanding
    <3>2. QED
      BY <3>1, ForgetRefines
  <2>2. QED
    BY <1>1, <1>a, <2>1, WorldStep, ForeignRefines
<1>2. CASE Server
  <2>1. ASSUME NEW m \in inflight, ServerPatch(m), UNCHANGED apiVars
        PROVE  TL!Next
    <3>1. Outstanding' \subseteq Outstanding
      BY <2>1 DEF ServerPatch, Outstanding
    <3>2. QED
      BY <2>1, <3>1, ForgetRefines
  <2>2. QED
    BY <1>2, <2>1, ServerStep, CarryOutRefines
<1>3. CASE Attestation
  <2>1. CASE plan' = plan
    <3>1. UNCHANGED apiVars /\ Outstanding' \subseteq Outstanding
      BY <1>3, <1>a, <2>1, AttestationStep DEF Outstanding
    <3>2. QED
      BY <3>1, ForgetRefines
  <2>2. QED
    BY <1>3, <1>a, <2>1, AttestationStep, DecisionRefines
<1>4. CASE Calm /\ ~ Attestation
  BY <1>4, <1>a, CalmKeeps, ForgetRefines
<1>5. CASE UNCHANGED vars
  BY <1>5 DEF vars, worldVars, patchVars, TL!vars, Outstanding, Verdict, Target
<1>6. QED
  BY <1>1, <1>2, <1>3, <1>4, <1>5, NextSplits

\* Whatever is lost, delayed, retried or restarted, the API server and the
\* controller together implement the abstract label: it moves only as a
\* verdict about the current version of the Node, or by a foreign hand.
THEOREM Refinement == SafetySpec => ImplementsTrustedLabel
<1>1. SafeInv => WorldOK
  BY DEF SafeInv, TypeInv, TypeOK
<1>2. QED
  BY <1>1, InitRefines, StepRefines, SafeInvariant, PTL
     DEF SafetySpec, ImplementsTrustedLabel, TL!Spec

-----------------------------------------------------------------------------
(***************************************************************************)
(* What a cycle reports: the counters are in step with the Nodes listed.   *)
(***************************************************************************)
Before == {"sleep", "group", "asgs", "list1", "list2", "stopped"}

Gap == One(Cardinality(Candidates(listed)) < evidence.group.scaling.desired)

\* A Node whose label the plan under way is to add may still be counted.
Pending == One(plan # NoPlan /\ plan.mutation = "add")

Applied == IF plan = NoPlan THEN {} ELSE {plan.seen}

\* The loop has dealt with the listed Nodes that are no longer to do.
InStep ==
    /\ IsFiniteSet(listed)
    /\ todo \subseteq listed /\ settled \subseteq listed /\ Applied \subseteq listed
    /\ pc \in Before => tally = ZeroTally /\ todo = {} /\ settled = {}
    /\ pc = "publish" => todo = {}

\* Every Node dealt with, and the capacity gap, is counted as missing at most
\* once; the plan under way leaves room to count its Node.
CountedOnce == tally.missing + Pending <= Gap + Cardinality(listed \ todo)

Clean == tally.failures = 0 /\ tally.missing = 0

\* As long as nothing is counted, every Node dealt with is trusted or is the
\* one whose plan is under way, and the node group has the size it wants.
CleanSoFar ==
    pc \notin Before /\ Clean =>
        /\ listed \ todo \subseteq settled \union Applied
        /\ Cardinality(Candidates(listed)) >= evidence.group.scaling.desired

ReportInv == InStep /\ CountedOnce /\ CleanSoFar

-----------------------------------------------------------------------------
LEMMA OneIsSmall == \A c : One(c) \in {0, 1} /\ (~ c => One(c) = 0)
BY DEF One

\* The lists the API server answers with are finite.
LEMMA ListsFinite == IsFiniteSet(GroupNodes) /\ IsFiniteSet(TrustedNodes)
<1> DEFINE S == {m \in Names : node[m] # NoNode}
           f == [n \in S |-> node[n]]
<1>1. IsFiniteSet(S)
  BY ControllerAssumption, FS_Subset
<1>2. f \in Surjection(S, Objs)
  BY DEF Surjection, Objs
<1>3. IsFiniteSet(Objs)
  BY <1>1, <1>2, FS_Surjection
<1>4. QED
  BY <1>3, FS_Subset DEF GroupNodes, TrustedNodes

LEMMA InitReport == Init => ReportInv
<1> SUFFICES ASSUME Init PROVE ReportInv
  OBVIOUS
<1>1. IsFiniteSet({}) /\ Cardinality({}) = 0
  BY FS_EmptySet
<1>2. pc \in Before /\ plan = NoPlan /\ listed = {} /\ todo = {} /\ settled = {} /\ tally = ZeroTally
  BY DEF Init, Before
<1>3. Pending = 0 /\ Gap \in {0, 1}
  BY <1>2, OneIsSmall DEF Pending, Gap
<1>4. tally.missing = 0 /\ listed \ todo = {}
  BY <1>2 DEF ZeroTally
<1>5. QED
  BY <1>1, <1>2, <1>3, <1>4 DEF ReportInv, InStep, CountedOnce, CleanSoFar, Applied

\* The numbers the invariant is about.
LEMMA Numbers ==
    ASSUME TypeInv, ReportInv
    PROVE  /\ Cardinality(listed \ todo) \in Nat /\ Gap \in {0, 1} /\ Pending \in {0, 1}
           /\ tally \in Tallies /\ tally.missing \in Nat /\ tally.failures \in Nat
<1>1. Cardinality(listed \ todo) \in Nat
  BY FS_Difference, FS_CardinalityType DEF ReportInv, InStep
<1>2. tally \in Tallies
  BY DEF TypeInv, TypeOK, CycleOK
<1>3. Gap \in {0, 1} /\ Pending \in {0, 1}
  BY OneIsSmall DEF Gap, Pending
<1>4. QED
  BY <1>1, <1>2, <1>3 DEF Tallies

\* A step that neither lists, nor counts, nor takes up or ends a plan.
LEMMA QuietStep ==
    ASSUME ReportInv, UNCHANGED <<cycleVars, plan>>,
           pc' \in Before <=> pc \in Before, pc' = "publish" => todo = {}
    PROVE  ReportInv'
BY DEF ReportInv, InStep, CountedOnce, CleanSoFar, Clean, Gap, Pending, Applied, Candidates,
       cycleVars

\* Everything the cycle has gathered is dropped, or none was.
LEMMA EmptyStep ==
    ASSUME listed' = {}, todo' = {}, settled' = {}, plan' = NoPlan,
           pc' \in Before => tally' = ZeroTally,
           tally'.missing = 0, pc' \in Before \/ tally'.failures = 1
    PROVE  ReportInv'
<1>1. IsFiniteSet({}) /\ Cardinality({}) = 0
  BY FS_EmptySet
<1>2. Pending' = 0 /\ Gap' \in {0, 1} /\ (listed \ todo)' = {} /\ Applied' = {}
  BY DEF Pending, Gap, Applied, One
<1>3. InStep'
  BY <1>1, <1>2 DEF InStep
<1>4. CountedOnce'
  BY <1>1, <1>2 DEF CountedOnce
<1>5. CleanSoFar'
  BY DEF CleanSoFar, Clean
<1>6. QED
  BY <1>3, <1>4, <1>5 DEF ReportInv

\* A read before the loop: nothing has been counted.
LEMMA BeforeStep ==
    ASSUME TypeInv, ReportInv, pc \in Before, pc' \in Before,
           UNCHANGED <<todo, settled, tally, plan>>, IsFiniteSet(listed')
    PROVE  ReportInv'
<1>1. tally = ZeroTally /\ todo = {} /\ settled = {} /\ plan = NoPlan
  BY DEF ReportInv, InStep, TypeInv, Phased, Before
<1>2. Pending' = 0 /\ Gap' \in {0, 1} /\ Applied' = {} /\ (listed \ todo)' = listed'
  BY <1>1 DEF Pending, Gap, Applied, One
<1>3. InStep'
  BY <1>1, <1>2 DEF InStep, Before
<1>4. CountedOnce'
  <2>1. Cardinality(listed') \in Nat /\ tally'.missing = 0
    BY <1>1, FS_CardinalityType DEF ZeroTally
  <2>2. QED
    BY <1>2, <2>1 DEF CountedOnce
<1>5. CleanSoFar'
  BY DEF CleanSoFar
<1>6. QED
  BY <1>3, <1>4, <1>5 DEF ReportInv

\* The loop starts with the capacity gap counted, and nothing else.
LEMMA ListedStep ==
    ASSUME TypeInv, ReportInv, ListTrustedNodes
    PROVE  ReportInv'
<1> DEFINE desired  == evidence.group.scaling.desired
           observed == Cardinality(Candidates(listed'))
           capacity == Capacity(desired, observed)
<1>1. plan' = NoPlan /\ settled' = {} /\ pc' = "node" /\ todo' = listed' /\ UNCHANGED evidence
  BY DEF ListTrustedNodes, Quiet, patchVars, Goto, TypeInv, Phased, ReportInv, InStep, Before
<1>2. desired \in Nat
  BY DEF ListTrustedNodes, Goto, TypeInv, Phased, GroupEvidence, Scalings
<1>3. IsFiniteSet(listed')
  BY ListsFinite, FS_Union DEF ListTrustedNodes, ReportInv, InStep
<1>4. observed \in Nat
  <2>1. IsFiniteSet(Candidates(listed'))
    BY <1>3, FS_Subset DEF Candidates
  <2>2. QED
    BY <2>1, FS_CardinalityType
<1>5. tally'.failures = One(capacity \in {"invalid", "awaiting_nodes"})
      /\ tally'.missing = One(capacity \in {"awaiting_nodes", "reconciling"})
  <2>1. tally' = CapacityTally(capacity)
    BY <1>1, Zenon DEF ListTrustedNodes
  <2>2. \A f, m : /\ [ZeroTally EXCEPT !.failures = f, !.missing = m].failures = f
                  /\ [ZeroTally EXCEPT !.failures = f, !.missing = m].missing = m
    BY DEF ZeroTally
  <2>3. QED
    BY <2>1, <2>2, Zenon DEF CapacityTally
<1> HIDE DEF observed, desired
<1>6. capacity \in {"awaiting_nodes", "reconciling"} => observed < desired
  BY <1>2, <1>4 DEF Capacity
<1>7. capacity \in {"awaiting_nodes", "reconciling", "invalid"} \/ observed >= desired
  BY <1>2, <1>4 DEF Capacity
<1> HIDE DEF capacity
<1>8. Gap' = One(observed < desired) /\ Pending' = 0 /\ Applied' = {} /\ (listed \ todo)' = {}
  BY <1>1 DEF Gap, Pending, Applied, One, observed, desired, Candidates
<1>9. InStep'
  BY <1>1, <1>3, <1>8 DEF InStep, Before
<1>10. CountedOnce'
  BY <1>5, <1>6, <1>8, FS_EmptySet DEF CountedOnce, One
<1>11. CleanSoFar'
  <2>1. Clean' => observed >= desired
    BY <1>5, <1>7 DEF Clean, One
  <2>2. QED
    BY <1>1, <1>8, <2>1 DEF CleanSoFar, observed, desired, Candidates
<1>12. QED
  BY <1>9, <1>10, <1>11 DEF ReportInv

\* What a decision adds to the counters.
LEMMA CountedAdds ==
    ASSUME tally \in Tallies, NEW n, NEW action
    PROVE  /\ Counted(n, action).failures = tally.failures + One(action \in {"deny", "revoke"})
           /\ Counted(n, action).missing =
                  tally.missing + One(\/ action = "deny" /\ n.label = Absent
                                      \/ action = "revoke" /\ n.grp)
<1>1. \A d, f, m : /\ [tally EXCEPT !.decisions = d, !.failures = f, !.missing = m].failures = f
                   /\ [tally EXCEPT !.decisions = d, !.failures = f, !.missing = m].missing = m
  BY DEF Tallies
<1> DEFINE d == tally.decisions + 1
           f == tally.failures + One(action \in {"deny", "revoke"})
           m == tally.missing + One(\/ action = "deny" /\ n.label = Absent
                                    \/ action = "revoke" /\ n.grp)
<1>2. Counted(n, action) = [tally EXCEPT !.decisions = d, !.failures = f, !.missing = m]
  BY Zenon DEF Counted
<1> SUFFICES Counted(n, action).failures = f /\ Counted(n, action).missing = m
  BY Zenon
<1> HIDE DEF d, f, m
<1>3. QED
  BY <1>1, <1>2

\* A decision takes one Node off the list, and counts it or starts its plan.
LEMMA DecideStep ==
    ASSUME TypeInv, ReportInv, NEW n \in todo, NEW decision, Decide(n, decision)
    PROVE  ReportInv'
<1> DEFINE action == decision.action
           counts == \/ action = "deny" /\ n.label = Absent
                     \/ action = "revoke" /\ n.grp
<1>1. /\ pc = "node" /\ plan = NoPlan /\ Applied = {}
      /\ todo' = todo \ {n} /\ UNCHANGED <<listed, evidence>>
      /\ IsFiniteSet(listed) /\ todo \subseteq listed /\ settled \subseteq listed
  BY DEF Decide, TypeInv, Phased, ReportInv, InStep, Applied
<1>2. /\ tally \in Tallies /\ tally.missing \in Nat /\ tally.failures \in Nat
      /\ Cardinality(listed \ todo) \in Nat /\ Gap \in {0, 1}
  BY Numbers
<1>3. /\ tally'.failures = tally.failures + One(action \in {"deny", "revoke"})
      /\ tally'.missing = tally.missing + One(counts)
  <2>1. tally' = Counted(n, action)
    BY DEF Decide
  <2>2. QED
    BY <1>2, <2>1, CountedAdds
<1>4. (listed \ todo)' = (listed \ todo) \union {n}
      /\ Cardinality((listed \ todo)') = Cardinality(listed \ todo) + 1
  <2>1. (listed \ todo)' = (listed \ todo) \union {n} /\ n \notin listed \ todo
    BY <1>1
  <2>2. IsFiniteSet(listed \ todo)
    BY <1>1, FS_Difference
  <2>3. QED
    BY <2>1, <2>2, FS_AddElement
<1>5. pc' \in {"node", "recheck"}
  BY <1>1 DEF Decide
<1>6. /\ action \in {"deny", "noop"} => plan' = NoPlan
      /\ action = "patch"  => plan' = PlanFor(n, "add", evidence.group.at)
      /\ action = "revoke" => plan' = PlanFor(n, "remove", evidence.group.at)
      /\ action \in {"deny", "noop", "patch", "revoke"}
      /\ settled' = IF action = "noop" THEN settled \union {n} ELSE settled
  BY <1>1 DEF Decide
<1>7. Pending' = 1 => action = "patch"
  BY <1>6 DEF Pending, One, PlanFor
<1>8. Applied' \subseteq {n} /\ (action = "patch" => Applied' = {n})
  <2>1. \A m, since : PlanFor(n, m, since).seen = n
    BY DEF PlanFor
  <2>2. action = "patch" => plan' # NoPlan
    <3>1. n \in Objects /\ evidence.group.at \in Int
      BY <1>1 DEF TypeInv, TypeOK, CycleOK, Phased, GroupEvidence
    <3>2. PlanFor(n, "add", evidence.group.at) \in Plans
      BY <3>1, PlanTyped
    <3>3. QED
      BY <1>6, <3>2, ControllerAssumption
  <2>3. QED
    BY <1>6, <2>1, <2>2 DEF Applied
<1>9. InStep'
  BY <1>1, <1>5, <1>6, <1>8 DEF InStep, Before
<1>10. CountedOnce'
  <2>1. Pending' \in {0, 1} /\ One(counts) \in {0, 1} /\ Gap' = Gap /\ Pending = 0
    BY <1>1, OneIsSmall DEF Pending, Gap, Candidates
  <2>2. Pending' = 1 => One(counts) = 0
    BY <1>7 DEF One
  <2>3. tally.missing <= Gap + Cardinality(listed \ todo)
    BY <1>2, <2>1 DEF ReportInv, CountedOnce
  <2> HIDE DEF counts
  <2>4. One(counts) + Pending' <= 1
    BY <2>1, <2>2
  <2>5. QED
    BY <1>2, <1>3, <1>4, <2>1, <2>3, <2>4 DEF CountedOnce
<1>11. CleanSoFar'
  <2> SUFFICES ASSUME Clean'
               PROVE  /\ (listed \ todo)' \subseteq settled' \union Applied'
                      /\ Cardinality(Candidates(listed')) >= evidence'.group.scaling.desired
    BY DEF CleanSoFar
  <2>1. One(counts) \in {0, 1} /\ One(action \in {"deny", "revoke"}) \in {0, 1}
    BY OneIsSmall
  <2> HIDE DEF counts
  <2>2. Clean /\ One(action \in {"deny", "revoke"}) = 0
    BY <1>2, <1>3, <2>1 DEF Clean
  <2>3. action \in {"noop", "patch"}
    BY <1>6, <2>2 DEF One
  <2>4. /\ listed \ todo \subseteq settled
        /\ Cardinality(Candidates(listed)) >= evidence.group.scaling.desired
    BY <1>1, <2>2 DEF ReportInv, CleanSoFar, Before
  <2>5. QED
    BY <1>1, <1>4, <1>6, <1>8, <2>3, <2>4
<1>12. QED
  BY <1>9, <1>10, <1>11 DEF ReportInv

\* A plan given up is counted.
LEMMA AbandonStep ==
    ASSUME TypeInv, ReportInv, pc \in {"recheck", "send", "await"}, Abandon
    PROVE  ReportInv'
<1>1. /\ plan \in Plans /\ plan # NoPlan /\ pc' = "node" /\ plan' = NoPlan
      /\ UNCHANGED <<listed, todo, settled, evidence>>
  BY ControllerAssumption DEF TypeInv, Phased, Abandon
<1>2. /\ tally \in Tallies /\ tally.missing \in Nat /\ tally.failures \in Nat
      /\ Cardinality(listed \ todo) \in Nat /\ Gap \in {0, 1}
  BY Numbers
<1>3. tally'.failures = tally.failures + 1
      /\ tally'.missing = tally.missing + One(plan.mutation = "add")
  <2>1. \A f, m : /\ [tally EXCEPT !.failures = f, !.missing = m].failures = f
                  /\ [tally EXCEPT !.failures = f, !.missing = m].missing = m
    BY <1>2 DEF Tallies
  <2>2. QED
    BY <2>1, Zenon DEF Abandon
<1>4. Pending = One(plan.mutation = "add") /\ Pending' = 0 /\ Gap' = Gap /\ Applied' = {}
      /\ Pending \in {0, 1}
  BY <1>1 DEF Pending, Gap, Applied, One, Candidates
<1>5. InStep'
  BY <1>1, <1>4 DEF ReportInv, InStep, Before
<1>6. CountedOnce'
  BY <1>1, <1>2, <1>3, <1>4 DEF ReportInv, CountedOnce
<1>7. CleanSoFar'
  BY <1>2, <1>3 DEF CleanSoFar, Clean
<1>8. QED
  BY <1>5, <1>6, <1>7 DEF ReportInv

\* A patch that was accepted settles its Node.
LEMMA AcceptedStep ==
    ASSUME TypeInv, ReportInv, PatchAccepted
    PROVE  ReportInv'
<1>1. /\ pc = "await" /\ plan # NoPlan /\ pc' = "node" /\ plan' = NoPlan
      /\ UNCHANGED <<listed, todo, evidence>> /\ settled' = settled \union {plan.seen}
  BY ControllerAssumption DEF TypeInv, Phased, PatchAccepted
<1>2. /\ tally \in Tallies /\ tally.missing \in Nat
      /\ Cardinality(listed \ todo) \in Nat /\ Gap \in {0, 1} /\ Pending \in {0, 1}
  BY Numbers
<1>3. tally'.failures = tally.failures /\ tally'.missing = tally.missing
  <2>1. \A p : /\ [tally EXCEPT !.patched = p].failures = tally.failures
               /\ [tally EXCEPT !.patched = p].missing = tally.missing
    BY <1>2 DEF Tallies
  <2>2. QED
    BY <2>1, Zenon DEF PatchAccepted
<1>4. Pending' = 0 /\ Gap' = Gap /\ Applied' = {} /\ Applied = {plan.seen}
  BY <1>1 DEF Pending, Gap, Applied, One, Candidates
<1>5. InStep'
  BY <1>1, <1>4 DEF ReportInv, InStep, Before
<1>6. CountedOnce'
  BY <1>1, <1>2, <1>3, <1>4 DEF ReportInv, CountedOnce
<1>7. CleanSoFar'
  BY <1>1, <1>3, <1>4 DEF ReportInv, CleanSoFar, Clean, Before
<1>8. QED
  BY <1>5, <1>6, <1>7 DEF ReportInv

LEMMA ReportStep ==
    ASSUME TypeInv, ReportInv, [Next]_vars
    PROVE  ReportInv'
<1>1. CASE World
  <2>1. UNCHANGED <<cycleVars, plan, pc>>
    BY <1>1 DEF World, UpdateNode, ForeignLabelWrite, DeleteNode, JoinNode, CloudChange,
           ClockStep, patchVars
  <2>2. QED
    BY <2>1, QuietStep DEF ReportInv, InStep
<1>2. CASE StartCycle \/ RecheckPasses \/ SendPatch \/ StopLoop \/ Restart \/ FinishNodes
  <2>1. UNCHANGED <<cycleVars, plan>>
    BY <1>2 DEF StartCycle, RecheckPasses, SendPatch, StopLoop, Restart, FinishNodes, Quiet,
           patchVars
  <2>2. (pc' \in Before <=> pc \in Before) /\ (pc' = "publish" => todo = {})
    BY <1>2 DEF StartCycle, RecheckPasses, SendPatch, StopLoop, Restart, FinishNodes, Goto,
           Before
  <2>3. QED
    BY <2>1, <2>2, QuietStep
<1>3. CASE Server \/ Loss \/ Signal
  <2>1. UNCHANGED <<cycleVars, plan, pc>>
    BY <1>3 DEF Server, ServerPatch, Loss, LoseReply, LosePatch, Signal, patchVars
  <2>2. QED
    BY <2>1, QuietStep DEF ReportInv, InStep
<1>4. CASE DescribeNodeGroup \/ DescribeAutoScalingGroups \/ ListGroupNodes
  <2>1. pc \in Before /\ pc' \in Before /\ UNCHANGED <<todo, settled, tally, plan>>
    BY <1>4 DEF DescribeNodeGroup, DescribeAutoScalingGroups, ListGroupNodes, Goto, Quiet,
           Before, patchVars
  <2>2. IsFiniteSet(listed')
    BY <1>4, ListsFinite
       DEF DescribeNodeGroup, DescribeAutoScalingGroups, ListGroupNodes, ReportInv, InStep
  <2>3. QED
    BY <2>1, <2>2, BeforeStep
<1>5. CASE ListTrustedNodes
  BY <1>5, ListedStep
<1>6. CASE ProviderFailure
  <2>1. pc \in Before
    BY <1>6 DEF ProviderFailure, Before
  <2>2. listed' = {} /\ todo' = {} /\ settled' = {} /\ plan' = NoPlan
    BY <1>6, <2>1
       DEF ProviderFailure, Quiet, patchVars, ReportInv, InStep, TypeInv, Phased, Before
  <2>3. tally'.missing = 0 /\ tally'.failures = 1 /\ pc' = "publish"
    BY <1>6 DEF ProviderFailure, ZeroTally
  <2>4. QED
    BY <2>2, <2>3, EmptyStep DEF Before
<1>7. CASE Attestation
  BY <1>7, DecideStep DEF Attestation, AttestNode, RefuseProviderId, EvidenceUnavailable
<1>8. CASE RecheckFails \/ SendFails \/ PatchRejected \/ PatchTimesOut
  BY <1>8, AbandonStep DEF RecheckFails, SendFails, PatchRejected, PatchTimesOut
<1>9. CASE PatchAccepted
  BY <1>9, AcceptedStep
<1>10. CASE Publish \/ PublishFails \/ Crash
  <2>1. listed' = {} /\ todo' = {} /\ settled' = {} /\ tally' = ZeroTally /\ pc' \in Before
    BY <1>10 DEF Publish, PublishFails, Crash, ForgetCycle, Goto, Before
  <2>2. plan' = NoPlan
    BY <1>10 DEF Publish, PublishFails, Crash, Goto, Quiet, patchVars, TypeInv, Phased
  <2>3. QED
    BY <2>1, <2>2, EmptyStep DEF ZeroTally
<1>11. CASE UNCHANGED vars
  BY <1>11, QuietStep DEF vars, patchVars, ReportInv, InStep
<1>12. QED
  BY <1>1, <1>2, <1>3, <1>4, <1>5, <1>6, <1>7, <1>8, <1>9, <1>10, <1>11
     DEF Next, Controller, Discovery, Application, CycleEnd

LEMMA ReportAlways == SafetySpec => [](TypeInv /\ ReportInv)
<1>1. Init => TypeInv /\ ReportInv
  BY InitTyped, InitReport
<1>2. TypeInv /\ ReportInv /\ [Next]_vars => (TypeInv /\ ReportInv)'
  BY TypedStep, ReportStep
<1>3. QED
  BY <1>1, <1>2, PTL DEF SafetySpec

\* A cycle that reports neither a failure nor a missing label has found or
\* made every Node it listed trusted, and listed as many as the group wants:
\* no path through a stale plan, a refused patch, a timeout or a failed read
\* ends in a clean report.
THEOREM CleanReports == SafetySpec => []CleanReportIsEarned
<1>1. TypeInv /\ ReportInv => CleanReportIsEarned
  BY DEF TypeInv, Phased, ReportInv, InStep, CleanSoFar, Clean, Applied, CleanReportIsEarned,
         Before
<1>2. QED
  BY <1>1, ReportAlways, PTL

\* However its plan ends, a Node is counted as missing its label once.
THEOREM MissingCounts == SafetySpec => []MissingCountsNodesOnce
<1>1. ASSUME TypeInv, ReportInv PROVE MissingCountsNodesOnce
  BY <1>1, Numbers DEF ReportInv, CountedOnce, Gap, MissingCountsNodesOnce
<1>2. QED
  BY <1>1, ReportAlways, PTL

-----------------------------------------------------------------------------
(***************************************************************************)
(* From the kernel to the controller: the inputs a cycle builds are inputs *)
(* the theorems about the kernel are for.                                  *)
(***************************************************************************)
\* The Auto Scaling groups a cycle holds are finitely many.
FewGroups == IsFiniteSet(evidence.asgs)

AttestInv == TypeInv /\ FewGroups

LEMMA InitAttest == Init => AttestInv
BY InitTyped, FS_EmptySet DEF Init, AttestInv, FewGroups

LEMMA GroupsDescribed ==
    ASSUME TypeInv, DescribeAutoScalingGroups
    PROVE  FewGroups'
<1> DEFINE groups == evidence.group.asgs
           f == [g \in groups |-> AsgSnapshot(g)]
<1>1. IsFiniteSet(groups)
  <2>1. groups \subseteq Asgs
    BY DEF DescribeAutoScalingGroups, Goto, TypeInv, Phased, GroupEvidence
  <2>2. QED
    BY <2>1, ControllerAssumption, FS_Subset
<1>2. evidence'.asgs = {f[g] : g \in groups}
  BY DEF DescribeAutoScalingGroups, TypeInv, TypeOK, CycleOK
<1> HIDE DEF f, groups
<1>3. QED
  BY <1>1, <1>2, ImageFinite DEF FewGroups

LEMMA AttestStep == AttestInv /\ [Next]_vars => AttestInv'
<1> SUFFICES ASSUME AttestInv, [Next]_vars PROVE FewGroups'
  BY TypedStep DEF AttestInv
<1>1. CASE World \/ StartCycle \/ RecheckPasses \/ SendPatch \/ Server \/ Loss
              \/ FinishNodes \/ StopLoop \/ Signal \/ Restart \/ UNCHANGED vars
  BY <1>1, CycleQuiet DEF AttestInv, FewGroups, cycleVars, vars
<1>2. CASE DescribeNodeGroup
  BY <1>2 DEF DescribeNodeGroup, AttestInv, TypeInv, TypeOK, CycleOK, FewGroups
<1>3. CASE DescribeAutoScalingGroups
  BY <1>3, GroupsDescribed DEF AttestInv
<1>4. CASE ListGroupNodes \/ ListTrustedNodes \/ ProviderFailure \/ Attestation \/ Abandon
              \/ PatchAccepted
  BY <1>4 DEF ListGroupNodes, ListTrustedNodes, ProviderFailure, Attestation, AttestNode,
         RefuseProviderId, EvidenceUnavailable, Decide, Abandon, PatchAccepted, AttestInv,
         FewGroups
<1>5. CASE ForgetCycle
  BY <1>5, FS_EmptySet DEF ForgetCycle, FewGroups
<1>6. QED
  BY <1>1, <1>2, <1>3, <1>4, <1>5
     DEF Next, Controller, Discovery, Application, CycleEnd, RecheckFails, SendFails,
         PatchRejected, PatchTimesOut, Publish, PublishFails, Crash

LEMMA MembersFinite == IsFiniteSet([id : Instances, healthy : BOOLEAN])
<1> DEFINE S == Instances \X BOOLEAN
           f == [p \in S |-> [id |-> p[1], healthy |-> p[2]]]
           R == [id : Instances, healthy : BOOLEAN]
<1>1. IsFiniteSet(BOOLEAN)
  <2>1. BOOLEAN = {TRUE, FALSE}
    OBVIOUS
  <2>2. IsFiniteSet({TRUE, FALSE})
    <3>1. IsFiniteSet({TRUE})
      BY FS_Singleton
    <3>2. IsFiniteSet({TRUE} \union {FALSE})
      BY <3>1, FS_AddElement
    <3>3. {TRUE} \union {FALSE} = {TRUE, FALSE}
      OBVIOUS
    <3>4. QED
      BY <3>2, <3>3
  <2>3. QED
    BY <2>1, <2>2
<1>2. IsFiniteSet(S)
  BY <1>1, ControllerAssumption, FS_Product
<1>3. f \in Surjection(S, R)
  <2>1. \A p \in S : [id |-> p[1], healthy |-> p[2]] \in R
    OBVIOUS
  <2>2. ASSUME NEW r \in R PROVE \E p \in S : f[p] = r
    <3>1. <<r.id, r.healthy>> \in S /\ f[<<r.id, r.healthy>>] = r
      OBVIOUS
    <3>2. QED
      BY <3>1
  <2>3. QED
    BY <2>1, <2>2 DEF Surjection
<1>4. QED
  BY <1>2, <1>3, FS_Surjection

\* What the loop hands to the kernel.
LEMMA InputTyped ==
    ASSUME AttestInv, pc = "node", NEW n \in todo
    PROVE  Typed(KernelInput(n))
<1> DEFINE in == KernelInput(n)
<1>1. /\ now \in Int /\ n \in Objects /\ evidence.group \in GroupEvidence
      /\ evidence.asgs \subseteq AsgEvidence /\ IsFiniteSet(evidence.asgs)
  BY DEF AttestInv, FewGroups, TypeInv, TypeOK, WorldOK, CycleOK, Phased
<1>2. /\ in.now = now /\ in.node = n /\ in.group = evidence.group /\ in.asgs = evidence.asgs
      /\ in.ec2 = Ec2Snapshot(n.pid.instance)
  BY DEF KernelInput
<1>3. in.ec2.at = now
  BY <1>2 DEF Ec2Snapshot
<1>4. in.ec2 = [instance |-> in.ec2.instance, account |-> in.ec2.account,
                region |-> in.ec2.region, zone |-> in.ec2.zone, type |-> in.ec2.type,
                state |-> in.ec2.state, at |-> in.ec2.at]
  BY <1>2 DEF Ec2Snapshot
<1> HIDE DEF in
<1>5. CaptureTimes(in) \subseteq Int
  BY <1>1, <1>2, <1>3 DEF CaptureTimes, GroupEvidence, AsgEvidence
<1>6. \A g \in in.asgs : /\ IsFiniteSet(g.members)
                         /\ g.members \subseteq [id : Instances, healthy : BOOLEAN]
  <2> SUFFICES ASSUME NEW g \in in.asgs PROVE IsFiniteSet(g.members)
    BY <1>1, <1>2 DEF AsgEvidence
  <2>1. g.members \subseteq [id : Instances, healthy : BOOLEAN]
    BY <1>1, <1>2 DEF AsgEvidence
  <2>2. QED
    BY <2>1, MembersFinite, FS_Subset
<1>7. in.node.pid \in ProviderIds
  BY <1>1, <1>2 DEF Objects
<1>8. QED
  BY <1>1, <1>2, <1>4, <1>5, <1>6, <1>7 DEF Typed, in

\* Only the loop body takes a Node off the list and settles it, or plans for it.
LEMMA ExtendingStep ==
    ASSUME AttestInv, [Next]_vars, NEW n \in todo, Extends(n)
    PROVE  AttestNode(n) /\ Plan(KernelInput(n)).action \in {"patch", "noop"}
<1>1. Attestation
  <2>1. pc = "node" /\ todo' # todo
    BY DEF Extends
  <2>2. settled' # {} \/ pc' = "recheck"
    BY DEF Extends
  <2>3. ~ (World \/ StartCycle \/ RecheckPasses \/ SendPatch \/ Server \/ Loss
              \/ FinishNodes \/ StopLoop \/ Signal \/ Restart \/ UNCHANGED vars)
    BY <2>1, CycleQuiet DEF cycleVars, vars
  <2>4. ~ (DescribeNodeGroup \/ DescribeAutoScalingGroups \/ ListGroupNodes
              \/ ListTrustedNodes \/ ProviderFailure)
    BY <2>1 DEF DescribeNodeGroup, DescribeAutoScalingGroups, ListGroupNodes,
           ListTrustedNodes, ProviderFailure, Goto
  <2>5. ~ (RecheckFails \/ SendFails \/ PatchAccepted \/ PatchRejected \/ PatchTimesOut)
    BY <2>1 DEF RecheckFails, SendFails, PatchAccepted, PatchRejected, PatchTimesOut
  <2>6. ~ (Publish \/ PublishFails \/ Crash)
    BY <2>1, <2>2 DEF Publish, PublishFails, Crash, ForgetCycle, Goto
  <2>7. QED
    BY <2>3, <2>4, <2>5, <2>6 DEF Next, Controller, Discovery, Application, CycleEnd
<1>2. ASSUME NEW m \in todo, NEW decision, Decide(m, decision)
      PROVE  m = n /\ decision.action \in {"patch", "noop"}
  <2>1. m = n
    BY <1>2 DEF Decide, Extends
  <2>2. CASE decision.action \in {"deny", "revoke"}
    BY <1>2, <2>2 DEF Decide, Extends, PlanFor
  <2>3. QED
    BY <1>2, <2>1, <2>2 DEF Decide
<1>3. ASSUME NEW reason PROVE PlanFailure(n, reason).action \notin {"patch", "noop"}
  <2>1. n.label \in Labels \union {Absent}
    BY DEF AttestInv, TypeInv, TypeOK, CycleOK, Objects
  <2>2. QED
    BY <2>1 DEF PlanFailure, Conflicting, Decision
<1>4. PICK m \in todo : AttestNode(m) \/ RefuseProviderId(m) \/ EvidenceUnavailable(m)
  BY <1>1 DEF Attestation
<1>5. m = n
  BY <1>2, <1>4 DEF AttestNode, RefuseProviderId, EvidenceUnavailable
<1>6. AttestNode(n)
  BY <1>2, <1>3, <1>4, <1>5 DEF RefuseProviderId, EvidenceUnavailable
<1>7. QED
  BY <1>2, <1>6 DEF AttestNode

\* TrustRestsOnProof, for any number of groups, instances and Nodes, and
\* however the clock and AWS move between the reads of a cycle.
THEOREM ProofPrecedesTrust == SafetySpec => TrustRestsOnProof
<1>1. ASSUME AttestInv, [Next]_vars
      PROVE  [\A n \in todo : Extends(n) => Trustworthy(KernelInput(n)) /\ ~ Conflicting(n)]_vars
  <2> SUFFICES ASSUME NEW n \in todo, Extends(n)
               PROVE  Trustworthy(KernelInput(n)) /\ ~ Conflicting(n)
    OBVIOUS
  <2>1. Plan(KernelInput(n)).action \in {"patch", "noop"}
    BY <1>1, ExtendingStep
  <2>2. pc = "node"
    BY DEF Extends
  <2>3. Typed(KernelInput(n))
    BY <1>1, <2>2, InputTyped
  <2>4. KernelInput(n).node = n
    BY DEF KernelInput
  <2>5. QED
    BY <2>1, <2>3, <2>4, ActsOnlyOnProof
<1>2. QED
  BY <1>1, InitAttest, AttestStep, PTL DEF SafetySpec, TrustRestsOnProof
=============================================================================
