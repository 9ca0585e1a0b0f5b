------------------------ MODULE NodeLabelKernelProofs ------------------------
(***************************************************************************)
(* The kernel acts only on proof: theorems about Plan, for every input.    *)
(***************************************************************************)
EXTENDS NodeLabelKernel, FiniteSetTheorems, WellFoundedInduction, TLAPS

\* A non-empty set of natural numbers has a least element.
LEMMA LeastNatural ==
    ASSUME NEW S \in SUBSET Nat, S # {}
    PROVE  \E m \in S : \A k \in S : m <= k
<1>1. PICK m \in S : \A k \in S : ~ (<<k, m>> \in OpToRel(<, Nat))
  BY WFMin, NatLessThanWellFounded
<1>2. \A k \in S : ~ (k < m)
  BY <1>1 DEF OpToRel
<1>3. QED
  BY <1>2

\* A check that fails gives its own reason at its own rank.
LEMMA WhenOne ==
    ASSUME NEW condition, NEW rank, NEW reason, NEW f \in When(condition, rank, reason)
    PROVE  f.rank = rank /\ f.reason = reason
BY DEF When

\* What is true of the reasons: none of them says that nothing failed.
LEMMA ReasonsAreFailures ==
    ASSUME NEW in, NEW f \in Failures(in)
    PROVE  f.rank \in Nat /\ f.reason # NoFailure
<1>1. CASE f \in ShapeFailures(in)
  <2>1. \E c : \/ f \in When(c, 1, "input_malformed")
               \/ f \in When(c, 2, "provider_id_malformed")
    BY <1>1, Zenon DEF ShapeFailures
  <2>2. /\ f.rank \in {1, 2}
        /\ f.reason \in {"input_malformed", "provider_id_malformed"}
    BY <2>1, WhenOne
  <2>3. QED
    BY <2>2 DEF NoFailure
<1>2. CASE f \in FreshnessFailures(in)
  <2>1. \E c : \/ f \in When(c, 3, "evidence_from_future")
               \/ f \in When(c, 4, "evidence_stale")
               \/ f \in When(c, 5, "evidence_skew_exceeded")
    BY <1>2, Zenon DEF FreshnessFailures
  <2>2. /\ f.rank \in {3, 4, 5}
        /\ f.reason \in {"evidence_from_future", "evidence_stale",
                         "evidence_skew_exceeded"}
    BY <2>1, WhenOne
  <2>3. QED
    BY <2>2 DEF NoFailure
<1>3. CASE f \in GroupFailures(in)
  <2>1. \E c : \/ f \in When(c, 6, "node_group_mismatch")
               \/ f \in When(c, 7, "node_group_unavailable")
    BY <1>3, Zenon DEF GroupFailures
  <2>2. /\ f.rank \in {6, 7}
        /\ f.reason \in {"node_group_mismatch", "node_group_unavailable"}
    BY <2>1, WhenOne
  <2>3. QED
    BY <2>2 DEF NoFailure
<1>4. CASE f \in MembershipFailures(in)
  <2>1. \E c : \/ f \in When(c, 8, "asg_not_attested")
               \/ f \in When(c, 9, "asg_evidence_incomplete")
               \/ f \in When(c, 10, "membership_missing")
               \/ f \in When(c, 11, "membership_ambiguous")
               \/ f \in When(c, 12, "membership_unhealthy")
    BY <1>4, Zenon DEF MembershipFailures
  <2>2. /\ f.rank \in {8, 9, 10, 11, 12}
        /\ f.reason \in {"asg_not_attested", "asg_evidence_incomplete",
                         "membership_missing", "membership_ambiguous",
                         "membership_unhealthy"}
    BY <2>1, WhenOne
  <2>3. QED
    BY <2>2 DEF NoFailure
<1>5. CASE f \in Ec2Failures(in)
  <2>1. \E c : \/ f \in When(c, 13, "instance_id_mismatch")
               \/ f \in When(c, 14, "account_mismatch")
               \/ f \in When(c, 15, "region_mismatch")
               \/ f \in When(c, 16, "availability_zone_mismatch")
               \/ f \in When(c, 17, "instance_type_denied")
               \/ f \in When(c, 18, "instance_not_running")
               \/ f \in When(c, 19, "node_zone_label_mismatch")
               \/ f \in When(c, 20, "node_instance_type_label_mismatch")
    BY <1>5, Zenon DEF Ec2Failures
  <2>2. /\ f.rank \in {13, 14, 15, 16, 17, 18, 19, 20}
        /\ f.reason \in {"instance_id_mismatch", "account_mismatch", "region_mismatch",
                         "availability_zone_mismatch", "instance_type_denied",
                         "instance_not_running", "node_zone_label_mismatch",
                         "node_instance_type_label_mismatch"}
    BY <2>1, WhenOne
  <2>3. QED
    BY <2>2 DEF NoFailure
<1>6. CASE f \in TaintFailures(in)
  <2>1. PICK k \in DOMAIN ExpectedTaints :
            f \in When(SameKey(in, ExpectedTaints[k]) # {ExpectedTaints[k]}, 20 + k,
                       IF SameKey(in, ExpectedTaints[k]) = {} THEN "expected_taint_missing"
                                                             ELSE "expected_taint_conflict")
    BY <1>6 DEF TaintFailures
  <2>2. /\ f.rank = 20 + k
        /\ f.reason \in {"expected_taint_missing", "expected_taint_conflict"}
    BY <2>1, WhenOne
  <2>3. k \in Nat
    BY KernelAssumption
  <2>4. QED
    BY <2>2, <2>3 DEF NoFailure
<1>7. QED
  BY <1>1, <1>2, <1>3, <1>4, <1>5, <1>6 DEF Failures

\* No failure is reported only when every check passes.
LEMMA NothingFails ==
    ASSUME NEW in, FirstFailure(in) = NoFailure
    PROVE  Failures(in) = {}
<1> DEFINE failed == Failures(in)
           ranks == {f.rank : f \in failed}
<1>1. SUFFICES ASSUME failed # {} PROVE FALSE
  OBVIOUS
<1>2. ranks \in SUBSET Nat /\ ranks # {}
  BY <1>1, ReasonsAreFailures
<1> HIDE DEF ranks
<1>3. PICK m \in ranks : \A k \in ranks : m <= k
  BY <1>2, LeastNatural
<1> USE DEF ranks
<1>4. \E f \in failed : \A g \in failed : f.rank <= g.rank
  BY <1>3
<1> DEFINE first == CHOOSE f \in failed : \A g \in failed : f.rank <= g.rank
<1>5. first \in failed
  BY <1>4
<1>6. FirstFailure(in) = first.reason
  BY <1>1 DEF FirstFailure
<1>7. QED
  BY <1>5, <1>6, ReasonsAreFailures

\* The image of a finite set is finite.
LEMMA ImageFinite ==
    ASSUME NEW S, IsFiniteSet(S), NEW f
    PROVE  IsFiniteSet({f[x] : x \in S})
<1> DEFINE T == {f[x] : x \in S}
           g == [x \in S |-> f[x]]
<1>1. g \in Surjection(S, T)
  BY DEF Surjection
<1>2. QED
  BY <1>1, FS_Surjection

LEMMA MembershipOf ==
    ASSUME NEW in, NEW g \in in.asgs, NEW m \in g.members, m.id = in.node.pid.instance
    PROVE  [asg |-> g.name, member |-> m] \in Memberships(in)
<1> DEFINE of(h) == {[asg |-> h.name, member |-> k] :
                        k \in {j \in h.members : j.id = in.node.pid.instance}}
<1>1. [asg |-> g.name, member |-> m] \in of(g)
  OBVIOUS
<1>2. Memberships(in) = UNION {of(h) : h \in in.asgs}
  BY Zenon DEF Memberships
<1> HIDE DEF of
<1>3. QED
  BY <1>1, <1>2

\* The memberships of an instance are finitely many.
LEMMA MembershipsFinite ==
    ASSUME NEW in, IsFiniteSet(in.asgs), \A g \in in.asgs : IsFiniteSet(g.members)
    PROVE  IsFiniteSet(Memberships(in))
<1> DEFINE of == [g \in in.asgs |-> {[asg |-> g.name, member |-> m] :
                     m \in {k \in g.members : k.id = in.node.pid.instance}}]
<1>1. ASSUME NEW g \in in.asgs PROVE IsFiniteSet(of[g])
  <2> DEFINE mine == {k \in g.members : k.id = in.node.pid.instance}
             as == [m \in mine |-> [asg |-> g.name, member |-> m]]
  <2>1. IsFiniteSet(mine)
    BY FS_Subset
  <2>2. of[g] = {as[m] : m \in mine}
    OBVIOUS
  <2> HIDE DEF as, mine
  <2>3. IsFiniteSet({as[m] : m \in mine})
    BY <2>1, ImageFinite
  <2> HIDE DEF of
  <2>4. QED
    BY <2>2, <2>3
<1>2. IsFiniteSet({of[g] : g \in in.asgs})
  BY ImageFinite
<1>3. Memberships(in) = UNION {of[g] : g \in in.asgs}
  <2>1. \A g \in in.asgs : of[g] = {[asg |-> g.name, member |-> m] :
                               m \in {k \in g.members : k.id = in.node.pid.instance}}
    OBVIOUS
  <2> HIDE DEF of
  <2>2. {of[g] : g \in in.asgs} = {{[asg |-> g.name, member |-> m] :
            m \in {k \in g.members : k.id = in.node.pid.instance}} : g \in in.asgs}
    BY <2>1, Zenon
  <2>3. QED
    BY <2>2, Zenon DEF Memberships
<1> HIDE DEF of
<1>4. QED
  BY <1>1, <1>2, <1>3, FS_UNION

LEMMA OneElement ==
    ASSUME NEW S, IsFiniteSet(S), S # {}, ~ (Cardinality(S) > 1)
    PROVE  \E x : S = {x}
<1>1. Cardinality(S) \in Nat
  BY FS_CardinalityType
<1>2. Cardinality(S) # 0
  BY FS_EmptySet
<1>3. Cardinality(S) = 1
  BY <1>1, <1>2
<1>4. QED
  BY <1>3, FS_Singleton

\* The input the controller gives the kernel: typed snapshots, finitely many.
Typed(in) ==
    /\ in.now \in Int
    /\ in.node.pid \in ProviderIds
    /\ CaptureTimes(in) \subseteq Int
    /\ IsFiniteSet(in.asgs)
    /\ \A g \in in.asgs : /\ IsFiniteSet(g.members)
                          /\ g.members \subseteq [id : Instances, healthy : BOOLEAN]
    /\ in.ec2 = [instance |-> in.ec2.instance, account |-> in.ec2.account,
                 region |-> in.ec2.region, zone |-> in.ec2.zone, type |-> in.ec2.type,
                 state |-> in.ec2.state, at |-> in.ec2.at]

\* Capture times that are neither ahead of the clock, nor too old, nor too far
\* apart lie in one window.
LEMMA WindowExists ==
    ASSUME NEW in, in.now \in Int, CaptureTimes(in) \subseteq Int,
           \A t \in CaptureTimes(in) : ~ (t > in.now),
           \A t \in CaptureTimes(in) : ~ (in.now - t > MaxAge),
           \A s, t \in CaptureTimes(in) : ~ (s - t > MaxSkew)
    PROVE  Fresh(in)
<1> DEFINE T == CaptureTimes(in)
           first == in.now - MaxAge
           offsets == {t - first : t \in T}
<1>1. MaxAge \in Nat /\ MaxSkew \in Nat /\ first \in Int
  BY KernelAssumption
<1>2. in.ec2.at \in T
  BY DEF CaptureTimes
<1>3. \A t \in T : t \in Int /\ first <= t /\ t <= in.now
  BY <1>1
<1> HIDE DEF T, first
<1>4. offsets \in SUBSET Nat /\ offsets # {}
  BY <1>1, <1>2, <1>3
<1> HIDE DEF offsets
<1>5. PICK o \in offsets : \A p \in offsets : o <= p
  BY <1>4, LeastNatural
<1> USE DEF offsets
<1>6. PICK from \in T : o = from - first
  BY <1>5
<1>7. \A t \in T : from <= t
  <2> SUFFICES ASSUME NEW t \in T PROVE from <= t
    OBVIOUS
  <2>1. o <= t - first
    BY <1>5
  <2>2. QED
    BY <1>1, <1>3, <1>6, <2>1
<1> USE DEF T, first
<1>8. from \in (in.now - MaxAge) .. in.now
  BY <1>1, <1>3, <1>6
<1>9. \A t \in T : t \in from .. (from + MaxSkew) /\ t <= in.now
  BY <1>1, <1>3, <1>6, <1>7
<1>10. QED
  BY <1>8, <1>9 DEF Fresh

\* What the passed checks say together.
LEMMA ChecksPass ==
    ASSUME NEW in, Failures(in) = {}
    PROVE  /\ Bounded(in) /\ ~ Malformed(in.node.pid)
           /\ \A t \in CaptureTimes(in) : ~ (t > in.now)
           /\ \A t \in CaptureTimes(in) : ~ (in.now - t > MaxAge)
           /\ \A s, t \in CaptureTimes(in) : ~ (s - t > MaxSkew)
           /\ in.group.name = NodeGroup /\ in.group.status \in {"ACTIVE", "UPDATING"}
           /\ {g.name : g \in in.asgs} = in.group.asgs
           /\ Cardinality(in.asgs) = Cardinality(in.group.asgs)
           /\ Memberships(in) # {} /\ ~ (Cardinality(Memberships(in)) > 1)
           /\ \A m \in Memberships(in) : m.member.healthy
           /\ in.ec2.instance = in.node.pid.instance
           /\ in.ec2.account = Account /\ in.ec2.region = Region
           /\ in.ec2.zone = in.node.pid.zone /\ in.node.pid.zone \in RegionZones
           /\ in.ec2.type \in AllowedTypes /\ in.ec2.state = "running"
           /\ in.node.meta.zone = in.ec2.zone /\ in.node.meta.type = in.ec2.type
           /\ \A e \in Expected : SameKey(in, e) = {e}
<1>1. /\ ShapeFailures(in) = {} /\ FreshnessFailures(in) = {} /\ GroupFailures(in) = {}
      /\ MembershipFailures(in) = {} /\ Ec2Failures(in) = {} /\ TaintFailures(in) = {}
  BY DEF Failures
<1>2. Bounded(in) /\ ~ Malformed(in.node.pid)
  BY <1>1 DEF ShapeFailures, When, Bounded
<1>3. /\ \A t \in CaptureTimes(in) : ~ (t > in.now)
      /\ \A t \in CaptureTimes(in) : ~ (in.now - t > MaxAge)
      /\ \A s, t \in CaptureTimes(in) : ~ (s - t > MaxSkew)
  BY <1>1 DEF FreshnessFailures, When
<1>4. in.group.name = NodeGroup /\ in.group.status \in {"ACTIVE", "UPDATING"}
  BY <1>1 DEF GroupFailures, When
<1>5. /\ {g.name : g \in in.asgs} = in.group.asgs
      /\ Cardinality(in.asgs) = Cardinality(in.group.asgs)
      /\ Memberships(in) # {} /\ ~ (Cardinality(Memberships(in)) > 1)
      /\ \A m \in Memberships(in) : m.member.healthy
  BY <1>1 DEF MembershipFailures, When
<1>6. /\ in.ec2.instance = in.node.pid.instance
      /\ in.ec2.account = Account /\ in.ec2.region = Region
      /\ in.ec2.zone = in.node.pid.zone /\ in.node.pid.zone \in RegionZones
      /\ in.ec2.type \in AllowedTypes /\ in.ec2.state = "running"
      /\ in.node.meta.zone = in.ec2.zone /\ in.node.meta.type = in.ec2.type
  BY <1>1 DEF Ec2Failures, When
<1>7. \A e \in Expected : SameKey(in, e) = {e}
  <2>1. ASSUME NEW k \in DOMAIN ExpectedTaints, SameKey(in, ExpectedTaints[k]) # {ExpectedTaints[k]}
        PROVE  FALSE
    <3> DEFINE reason(j) == IF SameKey(in, ExpectedTaints[j]) = {} THEN "expected_taint_missing"
                                                                   ELSE "expected_taint_conflict"
               check(j)  == When(SameKey(in, ExpectedTaints[j]) # {ExpectedTaints[j]}, 20 + j, reason(j))
    <3>1. check(k) = {[rank |-> 20 + k, reason |-> reason(k)]}
      BY <2>1, Zenon DEF When
    <3>2. TaintFailures(in) = UNION {check(j) : j \in DOMAIN ExpectedTaints}
      BY Zenon DEF TaintFailures
    <3> HIDE DEF check, reason
    <3>3. check(k) = {}
      BY <1>1, <3>2
    <3>4. QED
      BY <3>1, <3>3
  <2>2. QED
    BY <2>1 DEF Expected
<1>8. QED
  BY <1>2, <1>3, <1>4, <1>5, <1>6, <1>7

\* One snapshot for each group the node group names.
LEMMA SnapshotsUnique ==
    ASSUME NEW in, IsFiniteSet(in.asgs), {g.name : g \in in.asgs} = in.group.asgs
    PROVE  Cardinality(in.asgs) = Cardinality(in.group.asgs)
               <=> \A g, h \in in.asgs : g.name = h.name => g = h
<1> DEFINE name == [g \in in.asgs |-> g.name]
<1>1. name \in Surjection(in.asgs, in.group.asgs)
  BY DEF Surjection
<1>2. Cardinality(in.asgs) = Cardinality(in.group.asgs)
          <=> name \in Injection(in.asgs, in.group.asgs)
  BY <1>1, FS_Surjection
<1>3. name \in Injection(in.asgs, in.group.asgs)
          <=> \A g, h \in in.asgs : g.name = h.name => g = h
  BY <1>1 DEF Injection, IsInjective, Surjection
<1>4. QED
  BY <1>2, <1>3

LEMMA HealthyMembership ==
    ASSUME NEW in, Typed(in), Failures(in) = {}
    PROVE  OneHealthyMembership(in)
<1> DEFINE i == in.node.pid.instance
<1>1. \A g \in in.asgs, h \in in.asgs : g.name = h.name => g = h
  BY ChecksPass, SnapshotsUnique DEF Typed
<1>2. IsFiniteSet(Memberships(in))
  BY MembershipsFinite DEF Typed
<1>3. PICK x : Memberships(in) = {x}
  BY <1>2, ChecksPass, OneElement
<1>4. PICK g \in in.asgs : \E m \in g.members : m.id = i /\ x = [asg |-> g.name, member |-> m]
  BY <1>3 DEF Memberships
<1>5. PICK m \in g.members : m.id = i /\ x = [asg |-> g.name, member |-> m]
  BY <1>4
<1>6. m.healthy = TRUE /\ m \in [id : Instances, healthy : BOOLEAN]
  <2>1. m \in [id : Instances, healthy : BOOLEAN]
    BY DEF Typed
  <2>2. x.member.healthy
    BY <1>3, ChecksPass
  <2>3. QED
    BY <1>5, <2>1, <2>2
<1>7. m = [id |-> i, healthy |-> TRUE]
  BY <1>5, <1>6
<1>8. ASSUME NEW h \in in.asgs, NEW k \in h.members, k.id = m.id
      PROVE  k = m /\ h.name = g.name
  <2>1. [asg |-> h.name, member |-> k] \in Memberships(in)
    BY <1>5, <1>8, MembershipOf
  <2>2. [asg |-> h.name, member |-> k] = [asg |-> g.name, member |-> m]
    BY <1>3, <1>5, <2>1
  <2>3. QED
    BY <2>2
<1>9. QED
  BY <1>1, <1>7, <1>8, ChecksPass DEF OneHealthyMembership

LEMMA PassedIsTrustworthy ==
    ASSUME NEW in, Typed(in), Failures(in) = {}
    PROVE  Bounded(in) /\ Trustworthy(in)
<1>1. Fresh(in)
  BY ChecksPass, WindowExists DEF Typed
<1>2. OneHealthyMembership(in)
  BY HealthyMembership
<1>3. in.node.pid \in [zone : RegionZones, instance : Instances]
  <2>1. in.node.pid \in ProviderIds /\ in.node.pid.instance # NoInstance
        /\ in.node.pid.zone \in RegionZones
    BY ChecksPass DEF Typed, Malformed
  <2>2. QED
    BY <2>1 DEF ProviderIds, MalformedId
<1>4. in.ec2 = [instance |-> in.node.pid.instance, account |-> Account, region |-> Region,
                zone |-> in.node.pid.zone, type |-> in.node.meta.type,
                state |-> "running", at |-> in.ec2.at]
  BY ChecksPass DEF Typed
<1>5. in.node.meta.zone = in.node.pid.zone /\ in.node.meta.type \in AllowedTypes
  BY ChecksPass
<1>6. /\ \A e \in Expected, t \in in.node.meta.taints : t.key = e.key => t = e
      /\ Expected \subseteq in.node.meta.taints
  BY ChecksPass DEF SameKey
<1>7. in.group.name = NodeGroup /\ in.group.status \in {"ACTIVE", "UPDATING"} /\ Bounded(in)
  BY ChecksPass
<1>8. QED
  BY <1>1, <1>2, <1>3, <1>4, <1>5, <1>6, <1>7 DEF Trustworthy

\* The label is added, or left standing, only on proof: fresh evidence about
\* one healthy member of an attested group, running as an allowed instance
\* that is the Node's own, with the expected taints and nothing in conflict.
THEOREM ActsOnlyOnProof ==
    ASSUME NEW in, Typed(in), Plan(in).action \in {"patch", "noop"}
    PROVE  Bounded(in) /\ Trustworthy(in) /\ ~ Conflicting(in.node)
<1>1. FirstFailure(in) = NoFailure
  BY DEF Plan, PlanFailure, Decision, Conflicting
<1>2. ~ Conflicting(in.node)
  BY <1>1 DEF Plan, Decision, Conflicting
<1>3. QED
  BY <1>1, <1>2, NothingFails, PassedIsTrustworthy

\* Conversely, proof leaves no check to fail.
LEMMA TrustworthyPasses ==
    ASSUME NEW in, Typed(in), Bounded(in), Trustworthy(in)
    PROVE  Failures(in) = {}
<1> DEFINE i == in.node.pid.instance
<1>1. in.node.pid.zone \in RegionZones /\ i \in Instances
  BY DEF Trustworthy
<1>2. in.node.name \notin LongNames /\ OrderedScaling(in.group.scaling) /\ ~ Malformed(in.node.pid)
  BY <1>1, KernelAssumption DEF Bounded, Malformed
<1>3. PICK from \in (in.now - MaxAge) .. in.now : \A t \in CaptureTimes(in) :
          t \in from .. (from + MaxSkew) /\ t <= in.now
  BY DEF Trustworthy, Fresh
<1> DEFINE now == in.now
<1>3a. now \in Int /\ from \in Int /\ now - MaxAge <= from /\ MaxSkew \in Int /\ MaxAge \in Int
  BY KernelAssumption DEF Typed
<1>3b. \A t \in CaptureTimes(in) : t \in Int /\ from <= t /\ t <= from + MaxSkew /\ t <= now
  BY <1>3, <1>3a
<1> HIDE DEF now
<1>3c. \A t \in CaptureTimes(in) : ~ (t > now) /\ ~ (now - t > MaxAge)
  BY <1>3a, <1>3b
<1>4. \A t \in CaptureTimes(in) : ~ (t > in.now) /\ ~ (in.now - t > MaxAge)
  BY <1>3c DEF now
<1>5. \A s, t \in CaptureTimes(in) : ~ (s - t > MaxSkew)
  BY <1>3a, <1>3b
<1>6. OneHealthyMembership(in)
  BY DEF Trustworthy
<1>7. {g.name : g \in in.asgs} = in.group.asgs /\ \A g, h \in in.asgs : g.name = h.name => g = h
  BY <1>6 DEF OneHealthyMembership
<1>8. Cardinality(in.asgs) = Cardinality(in.group.asgs)
  BY <1>7, SnapshotsUnique DEF Typed
<1>9. \A g \in in.asgs : g.name \in in.group.asgs
  BY <1>7
<1>10. PICK g \in in.asgs : \E m \in g.members :
           /\ m = [id |-> i, healthy |-> TRUE]
           /\ \A h \in in.asgs : \A k \in h.members : k.id = m.id => k = m /\ h.name = g.name
  BY <1>6 DEF OneHealthyMembership
<1>11. PICK m \in g.members :
           /\ m = [id |-> i, healthy |-> TRUE]
           /\ \A h \in in.asgs : \A k \in h.members : k.id = m.id => k = m /\ h.name = g.name
  BY <1>10
<1>12. Memberships(in) = {[asg |-> g.name, member |-> m]}
  <2>1. [asg |-> g.name, member |-> m] \in Memberships(in)
    BY <1>11, MembershipOf
  <2>2. ASSUME NEW x \in Memberships(in) PROVE x = [asg |-> g.name, member |-> m]
    BY <1>11 DEF Memberships
  <2>3. QED
    BY <2>1, <2>2
<1>13. Memberships(in) # {} /\ ~ (Cardinality(Memberships(in)) > 1)
  <2>1. Cardinality(Memberships(in)) = 1
    BY <1>12, FS_Singleton
  <2>2. QED
    BY <1>12, <2>1
<1>14. \A x \in Memberships(in) : x.member.healthy
  BY <1>11, <1>12
<1>15. /\ in.ec2.instance = i /\ in.ec2.account = Account /\ in.ec2.region = Region
       /\ in.ec2.zone = in.node.pid.zone /\ in.ec2.type = in.node.meta.type
       /\ in.ec2.state = "running"
  BY DEF Trustworthy
<1>16. in.node.meta.zone = in.ec2.zone /\ in.ec2.type \in AllowedTypes
  BY <1>15 DEF Trustworthy
<1>17. \A e \in Expected : SameKey(in, e) = {e}
  BY DEF Trustworthy, SameKey
<1>18. in.group.name = NodeGroup /\ in.group.status \in {"ACTIVE", "UPDATING"}
  BY DEF Trustworthy
<1>19. ShapeFailures(in) = {}
  BY <1>2 DEF ShapeFailures, When
<1>20. FreshnessFailures(in) = {}
  BY <1>4, <1>5 DEF FreshnessFailures, When
<1>21. GroupFailures(in) = {}
  BY <1>18 DEF GroupFailures, When
<1>22. MembershipFailures(in) = {}
  BY <1>7, <1>8, <1>9, <1>13, <1>14 DEF MembershipFailures, When
<1>23. Ec2Failures(in) = {}
  BY <1>1, <1>15, <1>16 DEF Ec2Failures, When
<1>24. TaintFailures(in) = {}
  BY <1>17 DEF TaintFailures, When, Expected
<1>25. QED
  BY <1>19, <1>20, <1>21, <1>22, <1>23, <1>24 DEF Failures

\* Proof is always acted on: where everything holds the label is added, or
\* found, whatever the order the checks are made in.
THEOREM ProofIsActedOn ==
    ASSUME NEW in, Typed(in), Bounded(in), Trustworthy(in), ~ Conflicting(in.node)
    PROVE  Plan(in).action \in {"patch", "noop"}
<1>1. FirstFailure(in) = NoFailure
  BY TrustworthyPasses DEF FirstFailure
<1>2. in.node.label \in {Absent, Trusted}
  BY DEF Conflicting
<1>3. Absent # Trusted
  BY KernelAssumption
<1>4. QED
  BY <1>1, <1>2, <1>3 DEF Plan, Conflicting, Decision

\* A trusted label whose proof fails goes, for whichever reason, as soon as the
\* Node has an identity a patch can be bound to.
THEOREM FailedProofIsRevoked ==
    ASSUME NEW in, Typed(in), in.node.label = Trusted, CanSafelyRevoke(in.node),
           ~ (Bounded(in) /\ Trustworthy(in))
    PROVE  Plan(in).action = "revoke"
<1>1. FirstFailure(in) # NoFailure
  BY NothingFails, PassedIsTrustworthy
<1>2. Absent # Trusted /\ ~ Conflicting(in.node)
  BY KernelAssumption DEF Conflicting
<1>3. QED
  BY <1>1, <1>2 DEF Plan, PlanFailure, Decision
=============================================================================
