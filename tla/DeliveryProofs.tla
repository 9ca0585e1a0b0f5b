--------------------------- MODULE DeliveryProofs ---------------------------
(***************************************************************************)
(* The programs of Delivery, for every repository, finding, process, plan  *)
(* and bound.                                                              *)
(***************************************************************************)
EXTENDS Delivery, FiniteSetTheorems, SequenceTheorems, WellFoundedInduction, TLAPS

\* Of a nonempty set of natural numbers one is the least.
LEMMA LeastNat ==
    ASSUME NEW S \in SUBSET Nat, S # {}
    PROVE  \E m \in S : \A k \in S : m <= k
<1>. DEFINE Below == OpToRel(<, Nat)
<1>1. Below = {p \in Nat \X Nat : p[1] < p[2]}
  BY DEF OpToRel
<1>2. IsWellFoundedOn(Below, Nat)
  BY NatLessThanWellFounded
<1>. HIDE DEF Below
<1>3. PICK m \in S : \A k \in S : ~ (<<k, m>> \in Below)
  BY <1>2, WFMin
<1>4. \A k \in S : k < m => <<k, m>> \in Below
  BY <1>1
<1>5. \A k \in S : k \in Nat /\ m \in Nat /\ ~ (k < m)
  BY <1>3, <1>4
<1>6. \A k \in S : m <= k
  BY <1>5
<1>. QED
  BY <1>6

\* Induction, for what a set of natural numbers says.
LEMMA NatSetInduction ==
    ASSUME NEW S \in SUBSET Nat, 0 \in S, \A n \in Nat : n \in S => n + 1 \in S
    PROVE  S = Nat
<1>. SUFFICES ASSUME Nat \ S # {}  PROVE FALSE
  OBVIOUS
<1>1. PICK m \in Nat \ S : \A k \in Nat \ S : m <= k
  BY LeastNat
<1>2. m # 0 /\ m - 1 \in Nat /\ m - 1 \notin Nat \ S
  BY <1>1
<1>3. (m - 1) + 1 = m
  OBVIOUS
<1>. QED
  BY <1>2, <1>3

\* Of a program's own variables a step is a step of that program, or none.
LEMMA Alone ==
    ASSUME [Next]_vars
    PROVE  /\ [Scope!Next]_scopeVars
           /\ [Triage!Next]_triageVars
           /\ [Authority!Next]_authorityVars
           /\ [Issuer!Next]_issuerVars
           /\ [Trust!Next]_trustVars
           /\ [Webhook!Next]_webhookVars
           /\ [Boundary!Next]_boundaryVars
           /\ [Endpoint!Next]_endpointVars
           /\ part' = part
<1>1. CASE UNCHANGED vars
  BY <1>1 DEF vars
<1>2. CASE Next
  BY <1>2, Zenon DEF Next
<1>. QED
  BY <1>1, <1>2

-----------------------------------------------------------------------------
(***************************************************************************)
(* The scope of manifests                                                  *)
(***************************************************************************)
WalkFields == {"at", "apply", "classify", "found"}
DiffFields == {"at", "found", "proposed", "exit"}

\* A sync that has walked knows what it found; one that has compared has a track for
\* each of these.
SyncShape(y) ==
    \/ y = Scope!Idle
    \/ y.at = "diff" /\ DOMAIN y = WalkFields
    \/ y.at \in {"write", "done"} /\ DOMAIN y = DiffFields /\ DOMAIN y.proposed = y.found

\* Tracks people gave are of manifests that are there, and no sync that is under way
\* has missed or changed one.
Given ==
    \A m \in DOMAIN given :
       /\ m \in Scope!Discovered
       /\ m \in DOMAIN scope /\ scope[m] = given[m]
       /\ \A s \in Syncs :
             /\ sync[s].at \in {"diff", "write"} => m \in sync[s].found
             /\ sync[s].at = "write" => sync[s].proposed[m] = given[m]

\* The inductive invariant of the scope.
Peoples ==
    /\ DOMAIN sync = Syncs
    /\ \A s \in Syncs : SyncShape(sync[s])
    /\ Scope!OnlyPeopleGrantEmergency
    /\ Given

LEMMA PeoplesInit ==
    ASSUME Scope!Init
    PROVE  Peoples
BY DEF Scope!Init, Peoples, SyncShape, Scope!OnlyPeopleGrantEmergency, Given, Scope!Idle

\* policy.ts never places a manifest on the track that merges by itself.
LEMMA NoEmergency ==
    /\ \A m : Scope!ClassifyManifest(m).track # "emergency"
    /\ \A p : Scope!ProposeTrack(p).track # "emergency"
BY DEF Scope!ClassifyManifest, Scope!ProposeTrack, Scope!Decided

\* A sync that moves on alone leaves the rest of the invariant alone.
LEMMA SyncMoves ==
    ASSUME Peoples, NEW s \in Syncs, NEW y,
           sync' = [sync EXCEPT ![s] = y],
           UNCHANGED <<tree, scope, granted, given>>,
           SyncShape(y),
           y.at \in {"write", "done"} =>
              \A m \in DOMAIN y.proposed : y.proposed[m] = "emergency" => m \in granted,
           \A m \in DOMAIN given :
              /\ y.at \in {"diff", "write"} => m \in y.found
              /\ y.at = "write" => y.proposed[m] = given[m]
    PROVE  Peoples'
<1>1. DOMAIN sync' = Syncs /\ sync'[s] = y /\ \A r \in Syncs \ {s} : sync'[r] = sync[r]
  BY DEF Peoples
<1>2. Scope!Discovered' = Scope!Discovered
  BY DEF Scope!Discovered
<1>3. \A r \in Syncs : SyncShape(sync'[r])
  BY <1>1 DEF Peoples
<1>4. Scope!OnlyPeopleGrantEmergency'
  BY <1>1 DEF Peoples, Scope!OnlyPeopleGrantEmergency
<1>5. Given'
  BY <1>1, <1>2 DEF Peoples, Given
<1>. QED
  BY <1>1, <1>3, <1>4, <1>5 DEF Peoples, SyncShape

LEMMA WalkStep ==
    ASSUME Peoples, NEW s \in Syncs, NEW apply, NEW classify, Scope!Walk(s, apply, classify)
    PROVE  Peoples'
<1> DEFINE y == [at |-> "diff", apply |-> apply, classify |-> classify,
                 found |-> Scope!Discovered]
<1>1. sync' = [sync EXCEPT ![s] = y] /\ UNCHANGED <<tree, scope, granted, given>>
  BY DEF Scope!Walk
<1>2. SyncShape(y) /\ y.at = "diff" /\ y.found = Scope!Discovered
  BY DEF SyncShape, WalkFields
<1>3. \A m \in DOMAIN given : m \in Scope!Discovered
  BY DEF Peoples, Given
<1> HIDE DEF y
<1>. QED
  BY <1>1, <1>2, <1>3, SyncMoves

LEMMA DiffStep ==
    ASSUME Peoples, NEW s \in Syncs, Scope!Diff(s)
    PROVE  Peoples'
<1> DEFINE here == sync[s].found
           added == here \ DOMAIN scope
           unsure == {m \in added : Scope!ClassifyManifest(m).needsHuman}
           decisions(q, answer) ==
              [m \in added |-> IF m \in q THEN Scope!ProposeTrack(answer[m])
                               ELSE Scope!ClassifyManifest(m)]
           y(q, answer) ==
              [at |-> IF sync[s].apply THEN "write" ELSE "done",
               found |-> here,
               proposed |-> [m \in here |-> Scope!Proposed(m, decisions(q, answer))],
               exit |-> IF Scope!NeedsHuman(decisions(q, answer)) # {} THEN 3 ELSE 0]
<1>0. \E q \in IF sync[s].classify THEN Scope!Asked(unsure) ELSE {{}} :
         \E answer \in [q -> Scope!Proposals] : sync' = [sync EXCEPT ![s] = y(q, answer)]
  BY Zenon DEF Scope!Diff
<1> HIDE DEF y
<1>1. PICK q, answer : sync' = [sync EXCEPT ![s] = y(q, answer)]
  BY <1>0
<1> USE DEF y
<1>2. UNCHANGED <<tree, scope, granted, given>> /\ sync[s].at = "diff"
  BY DEF Scope!Diff
<1> DEFINE d == decisions(q, answer)
<1>3. /\ DOMAIN d = added
      /\ \A m \in added : d[m].track # "emergency"
  BY NoEmergency
<1> HIDE DEF decisions
<1> DEFINE p == [m \in here |-> Scope!Proposed(m, d)]
<1>4. y(q, answer) = [at |-> IF sync[s].apply THEN "write" ELSE "done", found |-> here,
                      proposed |-> p, exit |-> IF Scope!NeedsHuman(d) # {} THEN 3 ELSE 0]
  OBVIOUS
<1>5. \A m \in here : /\ m \in DOMAIN scope => p[m] = scope[m]
                      /\ m \notin DOMAIN scope => p[m] # "emergency"
  BY <1>3 DEF Scope!Proposed
<1>6. DOMAIN p = here
  OBVIOUS
<1> HIDE DEF p, d
<1> DEFINE z == y(q, answer)
<1>7. /\ z.at \in {"write", "done"} /\ z.found = here /\ z.proposed = p
      /\ DOMAIN z = DiffFields
  BY <1>4 DEF DiffFields
<1>8. sync' = [sync EXCEPT ![s] = z]
  BY <1>1
<1> HIDE DEF y, z
<1>9. SyncShape(z)
  BY <1>6, <1>7 DEF SyncShape
<1>10. \A m \in DOMAIN z.proposed : z.proposed[m] = "emergency" => m \in granted
  BY <1>5, <1>6, <1>7 DEF Peoples, Scope!OnlyPeopleGrantEmergency
<1>11. \A m \in DOMAIN given : m \in z.found /\ z.proposed[m] = given[m]
  BY <1>2, <1>5, <1>7 DEF Peoples, Given
<1>. QED
  BY <1>2, <1>8, <1>9, <1>10, <1>11, SyncMoves

LEMMA WriteStep ==
    ASSUME Peoples, NEW s \in Syncs, Scope!WriteScope(s)
    PROVE  Peoples'
<1>1. /\ sync[s].at = "write" /\ scope' = sync[s].proposed
      /\ UNCHANGED <<tree, granted, given>>
      /\ sync' = [sync EXCEPT ![s].at = "done"]
  BY DEF Scope!WriteScope
<1>2. /\ DOMAIN sync[s] = DiffFields /\ DOMAIN sync[s].proposed = sync[s].found
  BY <1>1 DEF Peoples, SyncShape, Scope!Idle
<1>3. /\ DOMAIN sync' = Syncs /\ \A r \in Syncs \ {s} : sync'[r] = sync[r]
      /\ sync'[s].at = "done" /\ DOMAIN sync'[s] = DiffFields
      /\ sync'[s].proposed = sync[s].proposed /\ sync'[s].found = sync[s].found
  BY <1>1, <1>2 DEF Peoples, DiffFields
<1>4. \A r \in Syncs : SyncShape(sync'[r])
  BY <1>2, <1>3 DEF Peoples, SyncShape
<1>5. Scope!OnlyPeopleGrantEmergency'
  BY <1>1, <1>3 DEF Peoples, Scope!OnlyPeopleGrantEmergency
<1>6. Given'
  <2>1. Scope!Discovered' = Scope!Discovered
    BY <1>1 DEF Scope!Discovered
  <2>. QED
    BY <1>1, <1>2, <1>3, <2>1 DEF Peoples, Given
<1>. QED
  BY <1>3, <1>4, <1>5, <1>6 DEF Peoples, SyncShape

LEMMA EndSteps ==
    ASSUME Peoples, NEW s \in Syncs, Scope!Exit(s) \/ Scope!Kill(s)
    PROVE  Peoples'
<1>1. /\ sync' = [sync EXCEPT ![s] = Scope!Idle]
      /\ UNCHANGED <<tree, scope, granted, given>>
  BY DEF Scope!Exit, Scope!Kill
<1>2. SyncShape(Scope!Idle) /\ Scope!Idle.at \notin {"diff", "write", "done"}
  BY DEF SyncShape, Scope!Idle
<1>. QED
  BY <1>1, <1>2, SyncMoves

LEMMA EditStep ==
    ASSUME Peoples, NEW m \in Manifests, NEW track \in Human, Scope!Edit(m, track)
    PROVE  Peoples'
<1>1. /\ scope' = Scope!With(scope, m, track) /\ UNCHANGED <<tree, sync>>
      /\ granted' = IF track = "emergency" THEN granted \union {m} ELSE granted
      /\ given' = IF m \in Scope!Discovered /\ \A s \in Syncs : sync[s].at \notin {"diff", "write"}
                  THEN Scope!With(given, m, track) ELSE Scope!Without(given, m)
  BY DEF Scope!Edit
<1>2. /\ DOMAIN scope' = DOMAIN scope \union {m} /\ scope'[m] = track
      /\ \A n \in DOMAIN scope \ {m} : scope'[n] = scope[n]
  BY <1>1 DEF Scope!With
<1>3. Scope!OnlyPeopleGrantEmergency'
  <2>1. granted \subseteq granted' /\ (track = "emergency" => m \in granted')
    BY <1>1
  <2>2. \A n \in DOMAIN scope' : scope'[n] = "emergency" => n \in granted'
    BY <1>2, <2>1 DEF Peoples, Scope!OnlyPeopleGrantEmergency
  <2>. QED
    BY <1>1, <2>1, <2>2 DEF Peoples, Scope!OnlyPeopleGrantEmergency
<1>4. Scope!Discovered' = Scope!Discovered
  BY <1>1 DEF Scope!Discovered
<1>5. CASE m \in Scope!Discovered /\ \A s \in Syncs : sync[s].at \notin {"diff", "write"}
  <2>1. /\ DOMAIN given' = DOMAIN given \union {m} /\ given'[m] = track
        /\ \A n \in DOMAIN given \ {m} : given'[n] = given[n]
    BY <1>1, <1>5 DEF Scope!With
  <2>2. Given'
    BY <1>1, <1>2, <1>4, <1>5, <2>1 DEF Peoples, Given
  <2>. QED
    BY <1>1, <1>3, <2>2 DEF Peoples, SyncShape
<1>6. CASE ~(m \in Scope!Discovered /\ \A s \in Syncs : sync[s].at \notin {"diff", "write"})
  <2>1. /\ DOMAIN given' = DOMAIN given \ {m}
        /\ \A n \in DOMAIN given \ {m} : given'[n] = given[n]
    BY <1>1, <1>6 DEF Scope!Without, Scope!Restrict
  <2>2. Given'
    BY <1>1, <1>2, <1>4, <2>1 DEF Peoples, Given
  <2>. QED
    BY <1>1, <1>3, <2>2 DEF Peoples, SyncShape
<1>. QED
  BY <1>5, <1>6

LEMMA MoveStep ==
    ASSUME Peoples, NEW m \in Manifests, Scope!Move(m)
    PROVE  Peoples'
<1>1. /\ UNCHANGED <<scope, sync, granted>> /\ given' = Scope!Without(given, m)
      /\ tree' = IF m \in tree THEN tree \ {m} ELSE tree \union {m}
  BY DEF Scope!Move
<1>2. /\ DOMAIN given' = DOMAIN given \ {m}
      /\ \A n \in DOMAIN given \ {m} : given'[n] = given[n]
  BY <1>1 DEF Scope!Without, Scope!Restrict
<1>3. \A n \in Scope!Discovered \ {m} : n \in Scope!Discovered'
  BY <1>1 DEF Scope!Discovered
<1>4. Given'
  BY <1>1, <1>2, <1>3 DEF Peoples, Given
<1>. QED
  BY <1>1, <1>4 DEF Peoples, SyncShape, Scope!OnlyPeopleGrantEmergency

LEMMA PeoplesStep == Peoples /\ [Scope!Next]_scopeVars => Peoples'
<1> SUFFICES ASSUME Peoples, [Scope!Next]_scopeVars PROVE Peoples'
  OBVIOUS
<1>1. CASE UNCHANGED scopeVars
  BY <1>1 DEF scopeVars, Peoples, SyncShape, Scope!OnlyPeopleGrantEmergency, Given, Scope!Discovered
<1>2. CASE Scope!Next
  <2>1. \/ \E s \in Syncs :
             \/ \E apply, classify \in BOOLEAN : Scope!Walk(s, apply, classify)
             \/ Scope!Diff(s) \/ Scope!WriteScope(s) \/ Scope!Exit(s) \/ Scope!Kill(s)
        \/ \E m \in Manifests : (\E track \in Human : Scope!Edit(m, track)) \/ Scope!Move(m)
    BY <1>2 DEF Scope!Next
  <2>. QED
    BY <2>1, WalkStep, DiffStep, WriteStep, EndSteps, EditStep, MoveStep
<1>. QED
  BY <1>1, <1>2

\* Tracks are people's, for every repository, convention, classifier and number of syncs
\* that overlap (scope-sync.ts, policy.ts, classify-scope.ts).
THEOREM TracksStay == Spec => []TracksArePeoples
<1>1. Init => Peoples
  BY PeoplesInit DEF Init
<1>2. Peoples /\ [Next]_vars => Peoples'
  BY Alone, PeoplesStep
<1>3. Peoples => TracksArePeoples
  BY DEF Peoples, Given, TracksArePeoples, Scope!PeoplesTracksSurvive
<1>. QED
  BY <1>1, <1>2, <1>3, PTL DEF Spec

-----------------------------------------------------------------------------
(***************************************************************************)
(* Scanning, triage and review                                             *)
(***************************************************************************)
\* Processes that hold nothing that matters.
Plain == {Triage!Idle} \union
         {[at |-> x] : x \in {"bootstrap", "download", "install", "rename", "verify", "run"}}

TriageFields == {"at", "read", "rows", "store", "emergency"}
RoundFields == {"at", "round", "current", "saw"}

\* A dependency review is under way.
Reviewing(r) == r.at \in {"clear", "review", "compare", "verdict"}

\* What a process holds: an exit code of 0 means no findings; emergencies are new to
\* the store that was read and are in the one to be saved; a second round has
\* the findings of the first; and a verdict is about all of them.
Holds(r) ==
    \/ r \in Plain
    \/ r.at = "read" /\ DOMAIN r = {"at", "code", "saw"} /\ (r.code = 0 => r.saw = {})
    \/ r.at = "found" /\ DOMAIN r = {"at", "read"}
    \/ /\ r.at \in {"save", "hand"} /\ DOMAIN r = TriageFields
       /\ DOMAIN r.read \subseteq DOMAIN r.store
       /\ r.emergency \subseteq DOMAIN r.store \ DOMAIN r.read
    \/ /\ r.at \in {"clear", "review", "compare"}
       /\ DOMAIN r = IF r.at = "compare" THEN RoundFields \union {"code"} ELSE RoundFields
       /\ r.round \in {"current", "base"}
       /\ r.round = "base" => r.current = Triage!Flattened(r.saw)
    \/ /\ r.at = "verdict" /\ DOMAIN r = {"at", "ok", "saw"}
       /\ r.ok => Triage!KeysOf(Triage!Flattened(r.saw)) \subseteq Triage!KeysOf(Triage!Runtime(Base))

\* The output a review reads is that of its own scan, or tells that it failed.
Due(r) == IF r.round = "current" THEN r.saw ELSE Triage!Runtime(Base)

Output(r, out) ==
    /\ r.at = "review" => out = Triage!Absent
    /\ r.at = "compare" =>
          \/ ~Triage!Whole(out)
          \/ r.code # 0 /\ out.content = {}
          \/ out.content = Due(r)

\* The inductive invariant of the processes.
Watchful ==
    /\ DOMAIN proc = Processes
    /\ \A p \in Processes : Holds(proc[p]) /\ Output(proc[p], review)
    /\ \A p, q \in Processes : Reviewing(proc[p]) /\ Reviewing(proc[q]) => p = q

\* That of the claims, for triages that have not written over each other's store: a
\* key is handed out or about to be, by one process and once, and the store says so.
Handing(p, k) == proc[p].at = "hand" /\ k \in proc[p].emergency

Claimed ==
    \/ raced
    \/ /\ \A k \in Triage!Keys : claims[k] \in {0, 1}
       /\ \A k \in Triage!Keys, p \in Processes : Handing(p, k) =>
             claims[k] = 0 /\ \A q \in Processes : Handing(q, k) => q = p
       /\ Triage!Whole(store) => \A k \in Triage!Keys :
             claims[k] = 1 \/ (\E p \in Processes : Handing(p, k)) => k \in DOMAIN store.content

LEMMA WatchfulInit ==
    ASSUME Triage!Init
    PROVE  Watchful /\ Claimed
<1>1. /\ proc = [p \in Processes |-> Triage!Idle] /\ raced = FALSE
      /\ claims = [k \in Triage!Keys |-> 0]
  BY DEF Triage!Init
<1>2. \A p \in Processes : proc[p] = Triage!Idle /\ proc[p].at = "idle"
  BY <1>1 DEF Triage!Idle
<1>. QED
  BY <1>1, <1>2 DEF Watchful, Claimed, Holds, Plain, Output, Reviewing, Handing

\* One process goes on.
LEMMA ProcessMoves ==
    ASSUME Watchful, NEW p \in Processes, NEW r,
           proc' = [proc EXCEPT ![p] = r],
           Holds(r), Output(r, review'),
           Reviewing(r) => \A q \in Processes \ {p} : ~Reviewing(proc[q]),
           review' = review \/ \A q \in Processes \ {p} : ~Reviewing(proc[q])
    PROVE  Watchful'
<1>1. DOMAIN proc' = Processes /\ proc'[p] = r /\ \A q \in Processes \ {p} : proc'[q] = proc[q]
  BY DEF Watchful
<1>2. \A q \in Processes \ {p} : Holds(proc'[q]) /\ Output(proc[q], review')
  BY <1>1 DEF Watchful, Output, Reviewing
<1>4. \A q \in Processes : Holds(proc'[q]) /\ Output(proc'[q], review')
  BY <1>1, <1>2
<1>5. \A q, s \in Processes : Reviewing(proc'[q]) /\ Reviewing(proc'[s]) => q = s
  BY <1>1 DEF Watchful
<1>. QED
  BY <1>1, <1>4, <1>5 DEF Watchful, Reviewing

\* Claims stay as they are when nobody comes to hand out.
LEMMA ClaimsKeep ==
    ASSUME Watchful, Claimed, NEW p \in Processes, NEW r,
           proc' = [proc EXCEPT ![p] = r], r.at # "hand",
           UNCHANGED <<store, claims, raced>>
    PROVE  Claimed'
<1>1. \A q \in Processes : \A k : Handing(q, k)' => Handing(q, k)
  BY DEF Watchful, Handing
<1>. QED
  BY <1>1 DEF Claimed

\* Processes that go on holding nothing.
LEMMA PlainStep ==
    ASSUME Watchful, Claimed, NEW p \in Processes, NEW r \in Plain,
           proc' = [proc EXCEPT ![p] = r], UNCHANGED <<review, store, claims, raced>>
    PROVE  Watchful' /\ Claimed'
<1>1. r.at \notin {"hand", "clear", "review", "compare", "verdict"}
  BY DEF Plain, Triage!Idle
<1>. QED
  BY <1>1, ProcessMoves, ClaimsKeep DEF Holds, Output, Reviewing

LEMMA PlainSteps ==
    ASSUME Watchful, Claimed, NEW p \in Processes,
           \/ Triage!ScanStarts(p) \/ Triage!Bootstrap(p) \/ Triage!Download(p)
           \/ Triage!Install(p) \/ Triage!Rename(p) \/ Triage!Verify(p) \/ Triage!ReadScan(p)
           \/ Triage!ReviewEnds(p) \/ Triage!Kill(p)
    PROVE  Watchful' /\ Claimed'
<1>1. UNCHANGED <<review, store, claims, raced>>
  BY DEF Triage!ScanStarts, Triage!Bootstrap, Triage!Download, Triage!Install, Triage!Rename,
         Triage!Verify, Triage!ReadScan, Triage!ReviewEnds, Triage!Kill, Triage!caches
<1>2. \/ proc' = [proc EXCEPT ![p] = Triage!Idle]
      \/ \E x \in {"bootstrap", "download", "install", "rename", "verify", "run"} :
            proc' = [proc EXCEPT ![p] = [at |-> x]]
  <2>1. CASE Triage!Bootstrap(p)
    BY <2>1 DEF Triage!Bootstrap, Triage!Goes, Triage!Throws
  <2>2. CASE \/ Triage!ScanStarts(p) \/ Triage!Download(p) \/ Triage!Install(p)
             \/ Triage!Rename(p) \/ Triage!Verify(p)
    BY <2>2 DEF Triage!ScanStarts, Triage!Download, Triage!Install, Triage!Rename,
                Triage!Verify, Triage!Goes, Triage!Throws
  <2>3. CASE Triage!ReadScan(p) \/ Triage!ReviewEnds(p) \/ Triage!Kill(p)
    BY <2>3 DEF Triage!ReadScan, Triage!ReviewEnds, Triage!Kill, Triage!Goes, Triage!Throws
  <2>. QED
    BY <2>1, <2>2, <2>3
<1>3. \E r \in Plain : proc' = [proc EXCEPT ![p] = r]
  BY <1>2 DEF Plain
<1>. QED
  BY <1>1, <1>3, PlainStep

LEMMA RunScannerStep ==
    ASSUME Watchful, Claimed, NEW p \in Processes, Triage!RunScanner(p)
    PROVE  Watchful' /\ Claimed'
<1>1. PICK code \in {0, 1, 127} :
         /\ Triage!Scanned(raw, raw', present, code)
         /\ proc' = [proc EXCEPT ![p] = [at |-> "read", code |-> code, saw |-> present]]
  BY DEF Triage!RunScanner, Triage!Goes
<1>2. UNCHANGED <<review, store, claims, raced>>
  BY DEF Triage!RunScanner
<1> DEFINE r == [at |-> "read", code |-> code, saw |-> present]
<1>3. code = 0 => present = {}
  BY <1>1 DEF Triage!Scanned
<1>4. Holds(r) /\ r.at = "read"
  BY <1>3 DEF Holds
<1>5. proc' = [proc EXCEPT ![p] = r]
  BY <1>1
<1> HIDE DEF r
<1>. QED
  BY <1>2, <1>4, <1>5, ProcessMoves, ClaimsKeep DEF Output, Reviewing

LEMMA TriageSteps ==
    ASSUME Watchful, Claimed, NEW p \in Processes, Triage!TriageStarts(p) \/ Triage!Triage(p)
    PROVE  Watchful' /\ Claimed'
<1>0. UNCHANGED <<review, store, claims, raced>>
  BY DEF Triage!TriageStarts, Triage!Triage, Triage!caches
<1>1. CASE Triage!TriageStarts(p)
  <2> DEFINE r == [at |-> "found", read |-> store.content]
  <2>1. proc' = [proc EXCEPT ![p] = r]
    BY <1>1 DEF Triage!TriageStarts, Triage!Goes
  <2>2. Holds(r) /\ r.at = "found"
    BY DEF Holds
  <2> HIDE DEF r
  <2>. QED
    BY <1>0, <2>1, <2>2, ProcessMoves, ClaimsKeep DEF Output, Reviewing
<1>2. CASE Triage!Triage(p) /\ proc' = [proc EXCEPT ![p] = Triage!Idle]
  <2>1. Triage!Idle \in Plain
    BY DEF Plain
  <2>. QED
    BY <1>0, <1>2, <2>1, PlainStep
<1>3. CASE Triage!Triage(p) /\ proc' # [proc EXCEPT ![p] = Triage!Idle]
  <2> DEFINE read == proc[p].read
             rows == found.content
             new == {f \in rows : Triage!KeyOf(f) \notin DOMAIN read}
             RouteOf(k) == Triage!Route(Findings[CHOOSE f \in new : Triage!KeyOf(f) = k])
             saved == [k \in DOMAIN read \union Triage!KeysOf(new) |->
                         IF k \in DOMAIN read THEN read[k] ELSE Triage!StateFor[RouteOf(k)]]
             urgent == {k \in Triage!KeysOf(new) : RouteOf(k) = "emergency"}
             r == [at |-> "save", read |-> read, rows |-> rows, store |-> saved,
                   emergency |-> urgent]
  <2>1. proc' = [proc EXCEPT ![p] = r]
    BY <1>3 DEF Triage!Triage, Triage!Goes, Triage!Throws
  <2>2. \A k \in Triage!KeysOf(new) : k \notin DOMAIN read
    BY DEF Triage!KeysOf
  <2>3. urgent \subseteq Triage!KeysOf(new) /\ DOMAIN saved = DOMAIN read \union Triage!KeysOf(new)
    OBVIOUS
  <2> HIDE DEF new, saved, urgent
  <2>4. /\ DOMAIN r = TriageFields /\ r.at = "save" /\ r.read = read /\ r.store = saved
        /\ r.emergency = urgent
    BY DEF TriageFields
  <2> HIDE DEF r, read
  <2>5. Holds(r)
    BY <2>2, <2>3, <2>4 DEF Holds
  <2>. QED
    BY <1>0, <2>1, <2>4, <2>5, ProcessMoves, ClaimsKeep DEF Output, Reviewing
<1>. QED
  BY <1>1, <1>2, <1>3

LEMMA SaveStep ==
    ASSUME Watchful, Claimed, NEW p \in Processes, Triage!Save(p)
    PROVE  Watchful' /\ Claimed'
<1>1. /\ proc[p].at = "save" /\ UNCHANGED <<review, claims>>
      /\ raced' = (raced \/ store # Triage!File(proc[p].read))
  BY DEF Triage!Save, Triage!caches
<1>2. /\ DOMAIN proc = Processes /\ DOMAIN proc[p] = TriageFields
      /\ DOMAIN proc[p].read \subseteq DOMAIN proc[p].store
      /\ proc[p].emergency \subseteq DOMAIN proc[p].store \ DOMAIN proc[p].read
  BY <1>1 DEF Watchful, Holds, Plain, Triage!Idle
<1>3. CASE store' = Triage!Torn /\ proc' = [proc EXCEPT ![p] = Triage!Idle]
  <2>1. Watchful'
    BY <1>1, <1>3, ProcessMoves DEF Holds, Plain, Output, Reviewing, Triage!Idle
  <2>2. \A q \in Processes : \A k : Handing(q, k)' => Handing(q, k)
    BY <1>2, <1>3 DEF Handing, Triage!Idle
  <2>3. ~Triage!Whole(store')
    BY <1>3 DEF Triage!Torn, Triage!Whole
  <2>. QED
    BY <1>1, <2>1, <2>2, <2>3 DEF Claimed, Triage!Whole
<1>4. CASE /\ store' = Triage!File(proc[p].store)
           /\ proc' = [proc EXCEPT ![p] = [proc[p] EXCEPT !.at = "hand"]]
  <2> DEFINE r == [proc[p] EXCEPT !.at = "hand"]
  <2>1. /\ r.at = "hand" /\ DOMAIN r = TriageFields /\ r.read = proc[p].read
        /\ r.store = proc[p].store /\ r.emergency = proc[p].emergency
    BY <1>2 DEF TriageFields
  <2>2. proc' = [proc EXCEPT ![p] = r]
    BY <1>4
  <2> HIDE DEF r
  <2>3. Holds(r)
    BY <1>2, <2>1 DEF Holds
  <2>4. Watchful'
    BY <1>1, <2>1, <2>2, <2>3, ProcessMoves DEF Output, Reviewing
  <2>5. /\ \A q \in Processes \ {p} : \A k : Handing(q, k)' <=> Handing(q, k)
        /\ \A k : Handing(p, k)' <=> k \in proc[p].emergency
        /\ \A k : ~Handing(p, k)
    BY <1>1, <1>2, <2>1, <2>2 DEF Handing
  <2>6. CASE raced'
    BY <2>4, <2>6 DEF Claimed
  <2>7. CASE ~raced'
    <3>1. ~raced /\ store = Triage!File(proc[p].read)
      BY <1>1, <2>7
    <3>2. Triage!Whole(store) /\ store.content = proc[p].read
      BY <3>1 DEF Triage!File, Triage!Whole
    <3>3. Triage!Whole(store)' /\ store'.content = proc[p].store
      BY <1>4 DEF Triage!File, Triage!Whole
    <3>4. \A k \in Triage!Keys :
             claims[k] = 1 \/ (\E q \in Processes : Handing(q, k)) => k \in DOMAIN proc[p].read
      BY <3>1, <3>2 DEF Claimed
    <3>5. \A k \in Triage!Keys, q \in Processes : Handing(q, k)' =>
             claims'[k] = 0 /\ \A s \in Processes : Handing(s, k)' => s = q
      BY <1>1, <1>2, <2>5, <3>1, <3>4 DEF Claimed
    <3>6. \A k \in Triage!Keys :
             claims'[k] = 1 \/ (\E q \in Processes : Handing(q, k)') => k \in DOMAIN store'.content
      BY <1>1, <1>2, <2>5, <3>3, <3>4
    <3>. QED
      BY <1>1, <2>4, <3>1, <3>5, <3>6 DEF Claimed
  <2>. QED
    BY <2>6, <2>7
<1>. QED
  BY <1>3, <1>4 DEF Triage!Save, Triage!Goes, Triage!Throws

LEMMA HandStep ==
    ASSUME Watchful, Claimed, NEW p \in Processes, Triage!Hand(p)
    PROVE  Watchful' /\ Claimed'
<1>1. /\ proc[p].at = "hand" /\ UNCHANGED <<review, store, raced>>
      /\ proc' = [proc EXCEPT ![p] = Triage!Idle]
      /\ claims' = [k \in Triage!Keys |-> IF k \in proc[p].emergency THEN claims[k] + 1
                                          ELSE claims[k]]
  BY DEF Triage!Hand, Triage!caches, Triage!Throws, Triage!Goes
<1>2. Watchful'
  BY <1>1, ProcessMoves DEF Holds, Plain, Output, Reviewing, Triage!Idle
<1>3. \A q \in Processes : \A k : Handing(q, k)' <=> q # p /\ Handing(q, k)
  BY <1>1 DEF Watchful, Handing, Triage!Idle
<1>4. \A k : Handing(p, k) <=> k \in proc[p].emergency
  BY <1>1 DEF Handing
<1>5. CASE raced
  BY <1>1, <1>2, <1>5 DEF Claimed
<1>6. CASE ~raced
  <2>1. \A k \in Triage!Keys : claims'[k] = IF Handing(p, k) THEN claims[k] + 1 ELSE claims[k]
    BY <1>1, <1>4
  <2>2. \A k \in Triage!Keys :
           /\ claims[k] \in {0, 1} /\ (Handing(p, k) => claims[k] = 0)
           /\ claims'[k] = 1 => claims[k] = 1 \/ Handing(p, k)
    BY <1>6, <2>1 DEF Claimed
  <2>3. \A k \in Triage!Keys : claims'[k] \in {0, 1}
    BY <2>1, <2>2
  <2>4. \A k \in Triage!Keys, q \in Processes : Handing(q, k)' =>
           claims'[k] = 0 /\ \A s \in Processes : Handing(s, k)' => s = q
    BY <1>3, <1>6, <2>1 DEF Claimed
  <2>5. Triage!Whole(store) => \A k \in Triage!Keys :
           claims'[k] = 1 \/ (\E q \in Processes : Handing(q, k)') => k \in DOMAIN store.content
    BY <1>3, <1>6, <2>2 DEF Claimed
  <2>. QED
    BY <1>1, <1>2, <2>3, <2>4, <2>5 DEF Claimed, Triage!Whole
<1>. QED
  BY <1>5, <1>6

LEMMA ReviewSteps ==
    ASSUME Watchful, Claimed, NEW p \in Processes,
           Triage!ReviewStarts(p) \/ Triage!ClearOutput(p)
    PROVE  Watchful' /\ Claimed'
<1>0. UNCHANGED <<store, claims, raced>>
  BY DEF Triage!ReviewStarts, Triage!ClearOutput, Triage!caches
<1>1. CASE Triage!ReviewStarts(p)
  <2> DEFINE r == [at |-> "clear", round |-> "current", current |-> {}, saw |-> {}]
  <2>1. /\ proc' = [proc EXCEPT ![p] = r] /\ review' = review
        /\ \A q \in Processes : ~Reviewing(proc[q])
    BY <1>1 DEF Triage!ReviewStarts, Triage!Goes, Triage!caches, Reviewing
  <2>2. Holds(r) /\ r.at = "clear"
    BY DEF Holds, RoundFields
  <2> HIDE DEF r
  <2>. QED
    BY <1>0, <2>1, <2>2, ProcessMoves, ClaimsKeep DEF Output
<1>2. CASE Triage!ClearOutput(p)
  <2> DEFINE r == [proc[p] EXCEPT !.at = "review"]
  <2>1. /\ proc[p].at = "clear" /\ proc' = [proc EXCEPT ![p] = r] /\ review' = Triage!Absent
    BY <1>2 DEF Triage!ClearOutput, Triage!Goes
  <2>2. /\ DOMAIN proc[p] = RoundFields /\ proc[p].round \in {"current", "base"}
        /\ proc[p].round = "base" => proc[p].current = Triage!Flattened(proc[p].saw)
    BY <2>1 DEF Watchful, Holds, Plain, Triage!Idle
  <2>3. /\ r.at = "review" /\ DOMAIN r = RoundFields /\ r.round = proc[p].round
        /\ r.current = proc[p].current /\ r.saw = proc[p].saw
    BY <2>2 DEF RoundFields
  <2> HIDE DEF r
  <2>4. \A q \in Processes \ {p} : ~Reviewing(proc[q])
    BY <2>1 DEF Watchful, Reviewing
  <2>5. Holds(r) /\ Output(r, review')
    BY <2>1, <2>2, <2>3 DEF Holds, Output
  <2>. QED
    BY <1>0, <2>1, <2>3, <2>4, <2>5, ProcessMoves, ClaimsKeep
<1>. QED
  BY <1>1, <1>2

LEMMA RunReviewStep ==
    ASSUME Watchful, Claimed, NEW p \in Processes, Triage!RunReview(p)
    PROVE  Watchful' /\ Claimed'
<1> DEFINE lockfiles == Triage!Runtime(IF proc[p].round = "current" THEN present ELSE Base)
           r(code) == [at |-> "compare", round |-> proc[p].round, code |-> code,
                       current |-> proc[p].current,
                       saw |-> IF proc[p].round = "current" THEN lockfiles ELSE proc[p].saw]
<1>1. PICK code \in {0, 1, 127} :
         Triage!Scanned(review, review', lockfiles, code) /\ proc' = [proc EXCEPT ![p] = r(code)]
  BY DEF Triage!RunReview, Triage!Goes
<1>2. proc[p].at = "review" /\ UNCHANGED <<store, claims, raced>>
  BY DEF Triage!RunReview
<1>3. /\ proc[p].round \in {"current", "base"} /\ review = Triage!Absent
      /\ proc[p].round = "base" => proc[p].current = Triage!Flattened(proc[p].saw)
  BY <1>2 DEF Watchful, Holds, Output, Plain, Triage!Idle
<1>4. \A q \in Processes \ {p} : ~Reviewing(proc[q])
  BY <1>2 DEF Watchful, Reviewing
<1> DEFINE z == r(code)
<1>5. /\ z.at = "compare" /\ DOMAIN z = RoundFields \union {"code"} /\ z.code = code
      /\ z.round = proc[p].round /\ z.current = proc[p].current
      /\ z.saw = IF proc[p].round = "current" THEN lockfiles ELSE proc[p].saw
  BY DEF RoundFields
<1>6. proc' = [proc EXCEPT ![p] = z]
  BY <1>1
<1>7. Due(z) = lockfiles
  BY <1>3, <1>5 DEF Due
<1> HIDE DEF r, z, lockfiles
<1>8. Output(z, review')
  BY <1>1, <1>3, <1>5, <1>7 DEF Output, Triage!Scanned, Triage!File, Triage!Absent, Triage!Whole
<1>9. Holds(z)
  BY <1>3, <1>5 DEF Holds
<1>. QED
  BY <1>2, <1>4, <1>5, <1>6, <1>8, <1>9, ProcessMoves, ClaimsKeep

LEMMA CompareStep ==
    ASSUME Watchful, Claimed, NEW p \in Processes, Triage!Compare(p)
    PROVE  Watchful' /\ Claimed'
<1> DEFINE s == proc[p]
           failed == ~Triage!Whole(review) \/ (s.code # 0 /\ review.content = {})
           listed == Triage!Flattened(review.content)
           r == IF failed THEN [at |-> "verdict", ok |-> FALSE, saw |-> s.saw]
                ELSE IF s.round = "current"
                THEN [at |-> "clear", round |-> "base", current |-> listed, saw |-> s.saw]
                ELSE [at |-> "verdict", saw |-> s.saw,
                      ok |-> {f \in s.current : Triage!KeyOf(f) \notin Triage!KeysOf(listed)} = {}]
<1>1. /\ s.at = "compare" /\ proc' = [proc EXCEPT ![p] = r]
      /\ UNCHANGED <<review, store, claims, raced>>
  BY DEF Triage!Compare, Triage!Goes, Triage!caches
<1>2. /\ s.round \in {"current", "base"}
      /\ s.round = "base" => s.current = Triage!Flattened(s.saw)
      /\ ~failed => review.content = Due(s)
  BY <1>1 DEF Watchful, Holds, Output, Plain, Triage!Idle
<1>3. r.at \in {"clear", "verdict"}
  OBVIOUS
<1>4. Holds(r)
  <2>1. CASE failed
    BY <2>1 DEF Holds
  <2>2. CASE ~failed /\ s.round = "current"
    <3>1. listed = Triage!Flattened(s.saw)
      BY <1>2, <2>2 DEF Due
    <3>. QED
      BY <2>2, <3>1 DEF Holds, RoundFields
  <2>3. CASE ~failed /\ s.round # "current"
    <3>1. review.content = Triage!Runtime(Base) /\ s.current = Triage!Flattened(s.saw)
      BY <1>2, <2>3 DEF Due
    <3>2. Triage!KeysOf(listed) \subseteq Triage!KeysOf(Triage!Runtime(Base))
      BY <3>1 DEF Triage!KeysOf, Triage!Flattened
    <3>3. {f \in s.current : Triage!KeyOf(f) \notin Triage!KeysOf(listed)} = {}
             => Triage!KeysOf(Triage!Flattened(s.saw)) \subseteq Triage!KeysOf(listed)
      BY <3>1 DEF Triage!KeysOf
    <3> DEFINE fine == {f \in s.current : Triage!KeyOf(f) \notin Triage!KeysOf(listed)} = {}
    <3>4. r = [at |-> "verdict", saw |-> s.saw, ok |-> fine]
      BY <2>3
    <3>5. fine => Triage!KeysOf(Triage!Flattened(s.saw)) \subseteq Triage!KeysOf(Triage!Runtime(Base))
      BY <3>2, <3>3
    <3> HIDE DEF fine, r, s
    <3>. QED
      BY <3>4, <3>5 DEF Holds
  <2>. QED
    BY <2>1, <2>2, <2>3
<1>5. \A q \in Processes \ {p} : ~Reviewing(proc[q])
  BY <1>1 DEF Watchful, Reviewing
<1> HIDE DEF r, s
<1>. QED
  BY <1>1, <1>3, <1>4, <1>5, ProcessMoves, ClaimsKeep DEF Output

LEMMA WatchfulStep == Watchful /\ Claimed /\ [Triage!Next]_triageVars => Watchful' /\ Claimed'
<1> SUFFICES ASSUME Watchful, Claimed, [Triage!Next]_triageVars PROVE Watchful' /\ Claimed'
  OBVIOUS
<1>1. CASE UNCHANGED <<proc, review, store, claims, raced>>
  BY <1>1 DEF Watchful, Claimed, Handing
<1>2. CASE UNCHANGED triageVars
  BY <1>1, <1>2 DEF triageVars
<1>3. CASE Triage!Change \/ Triage!CacheChanges
  <2>1. UNCHANGED <<proc, review, store, claims, raced>>
    BY <1>3 DEF Triage!Change, Triage!CacheChanges
  <2>. QED
    BY <1>1, <2>1
<1>4. CASE \E p \in Processes :
          \/ Triage!ScanStarts(p) \/ Triage!Bootstrap(p) \/ Triage!Download(p)
          \/ Triage!Install(p) \/ Triage!Rename(p) \/ Triage!Verify(p)
          \/ Triage!RunScanner(p) \/ Triage!ReadScan(p) \/ Triage!TriageStarts(p)
          \/ Triage!Triage(p) \/ Triage!Save(p) \/ Triage!Hand(p) \/ Triage!ReviewStarts(p)
          \/ Triage!ClearOutput(p) \/ Triage!RunReview(p) \/ Triage!Compare(p)
          \/ Triage!ReviewEnds(p) \/ Triage!Kill(p)
  BY <1>4, PlainSteps, RunScannerStep, TriageSteps, SaveStep, HandStep, ReviewSteps,
     RunReviewStep, CompareStep
<1>. QED
  BY <1>2, <1>3, <1>4, Zenon DEF Triage!Next

LEMMA WatchfulInvariant == Spec => [](Watchful /\ Claimed)
<1>1. Init => Watchful /\ Claimed
  BY WatchfulInit DEF Init
<1>2. Watchful /\ Claimed /\ [Next]_vars => (Watchful /\ Claimed)'
  BY Alone, WatchfulStep
<1>. QED
  BY <1>1, <1>2, PTL DEF Spec

\* The dependency review of dependency-review.ts, for every lockfile and base branch.
THEOREM Reviews == Spec => []ReviewsFindWhatIsNew
<1>1. Watchful => ReviewsFindWhatIsNew
  BY DEF Watchful, Holds, Plain, ReviewsFindWhatIsNew, Triage!ReviewsFindWhatIsNew, Triage!Idle
<1>. QED
  BY <1>1, WatchfulInvariant, PTL

\* The claims of store.ts, for any number of triages, kills and torn stores.
THEOREM HandedOut == Spec => []HandedOutOnce
<1>1. Claimed => HandedOutOnce
  BY DEF Claimed, HandedOutOnce, Triage!HandedOutOnce
<1>. QED
  BY <1>1, WatchfulInvariant, PTL

\* The findings file of scan.ts, whatever the scanner leaves behind.
THEOREM AllClears == Spec => NoFalseAllClear
<1> DEFINE A == \A p \in Processes :
          /\ proc[p].at = "read" /\ proc'[p] # proc[p]
          /\ found' # found /\ found' = Triage!File({})
          => Triage!Flattened(proc[p].saw) = {}
<1>1. ASSUME Watchful, [Triage!Next]_triageVars
      PROVE  [A]_(Triage!vars)
  <2>1. SUFFICES ASSUME NEW p \in Processes, proc[p].at = "read", proc'[p] # proc[p],
                        found' # found, found' = Triage!File({})
                 PROVE  Triage!Flattened(proc[p].saw) = {}
    OBVIOUS
  <2>2. PICK q \in Processes : Triage!ReadScan(q)
    BY <1>1, <2>1 DEF triageVars, Triage!Next, Triage!caches, Triage!ScanStarts,
       Triage!Bootstrap, Triage!Download, Triage!Install, Triage!Rename, Triage!Verify,
       Triage!RunScanner, Triage!TriageStarts, Triage!Triage, Triage!Save, Triage!Hand,
       Triage!ReviewStarts, Triage!ClearOutput, Triage!RunReview, Triage!Compare,
       Triage!ReviewEnds, Triage!Kill, Triage!Change, Triage!CacheChanges
  <2>3. q = p
    BY <1>1, <2>1, <2>2 DEF Watchful, Triage!ReadScan, Triage!Throws, Triage!Goes
  <2>4. /\ Triage!Accepted(proc[p].code, raw.content)
        /\ Triage!File(Triage!Flattened(raw.content)) = Triage!File({})
    BY <2>1, <2>2, <2>3 DEF Triage!ReadScan
  <2>5. Triage!Flattened(raw.content) = {}
    BY <2>4 DEF Triage!File
  <2>6. proc[p].saw = {}
    BY <1>1, <2>1, <2>4, <2>5 DEF Watchful, Holds, Plain, Triage!Idle, Triage!Accepted
  <2>. QED
    BY <2>6 DEF Triage!Flattened
<1>2. Watchful /\ Claimed /\ [Next]_vars => [A]_(Triage!vars)
  BY <1>1, Alone
<1>3. Spec => [][A]_(Triage!vars)
  BY <1>2, WatchfulInvariant, PTL DEF Spec
<1>. QED
  BY <1>3 DEF NoFalseAllClear, Triage!NoFalseAllClear

-----------------------------------------------------------------------------
(***************************************************************************)
(* The authority of node-label controllers                                 *)
(***************************************************************************)
\* What there is was declared by a component that passed its own checks, and an API
\* keeps one of each.
Declared ==
    /\ \A r \in there :
          /\ r.kind \in Authority!Kinds /\ r = Authority!Resource(r.kind, r.args)
          /\ r.args \in Authority!AllArgs /\ Authority!Valid(r.args)
    /\ \A r, s \in there : Authority!Same(r, s) => r = s
    /\ components \subseteq Authority!AllArgs
    /\ \A a \in components : Authority!Valid(a)

\* A token is of somebody who held a role at the time.
Signed ==
    token = Authority!NoToken \/
    /\ token = [pod |-> token.pod, name |-> token.name, age |-> token.age, life |-> token.life]
    /\ token.age \in Int /\ token.life \in Int /\ token.life >= 1
    /\ \E b \in Authority!AllArgs : b.name = token.name /\ Authority!Pod(b) = token.pod

\* What a controller that was brought about needs is there, and nothing that the
\* program still has is replaced or removed.
Provided ==
    \A a \in started :
       /\ a \in components
       /\ \A k \in Authority!Needs("controller") : Authority!Resource(k, a) \in there

\* The inductive invariant of the authority.
Entitled ==
    /\ Declared /\ Signed /\ Provided
    /\ node \in Authority!Labels \union {Authority!NoNode}

LEMMA EntitledInit ==
    ASSUME Authority!Init
    PROVE  Entitled
BY DEF Authority!Init, Entitled, Declared, Signed, Provided, Authority!Labels

LEMMA UpStep ==
    ASSUME Entitled, NEW program \in LabelPrograms \union {{}}, Authority!Up(program)
    PROVE  Entitled'
<1>1. /\ components' = program /\ started' = {} /\ UNCHANGED <<there, node, token>>
      /\ \A a \in program : Authority!Valid(a)
  BY DEF Authority!Up
<1>2. program \subseteq Authority!AllArgs
  BY DEF Authority!AllArgs
<1>3. Declared'
  BY <1>1, <1>2 DEF Entitled, Declared
<1>4. Signed' /\ Provided'
  BY <1>1 DEF Entitled, Signed, Provided
<1>. QED
  BY <1>1, <1>3, <1>4 DEF Entitled

LEMMA BringStep ==
    ASSUME Entitled, NEW r \in Authority!Resources(components), Authority!Bring(r)
    PROVE  Entitled'
<1>1. /\ r \notin there /\ UNCHANGED <<components, node, token>>
      /\ \A k \in Authority!Needs(r.kind) : Authority!Resource(k, r.args) \in there
      /\ \A s \in there : Authority!Same(r, s) => s.args \notin components
      /\ there' = {s \in there : ~Authority!Same(r, s)} \union {r}
      /\ started' = started \union (IF r.kind = "controller" THEN {r.args} ELSE {})
  BY DEF Authority!Bring
<1>2. /\ r.kind \in Authority!Kinds /\ r = Authority!Resource(r.kind, r.args)
      /\ r.args \in components
  BY DEF Authority!Resources, Authority!Resource
<1>3. Declared'
  <2>1. \A s \in there : Authority!Same(s, r) => Authority!Same(r, s)
    BY DEF Authority!Same
  <2>2. \A s, t \in there' : Authority!Same(s, t) => s = t
    BY <1>1, <2>1 DEF Entitled, Declared
  <2>. QED
    BY <1>1, <1>2, <2>2 DEF Entitled, Declared
<1>4. Provided'
  <2>1. \A a \in started :
           /\ a \in components
           /\ \A k \in Authority!Needs("controller") : Authority!Resource(k, a) \in there'
    <3>1. \A k, a : Authority!Resource(k, a).args = a
      BY DEF Authority!Resource
    <3>. QED
      BY <1>1, <3>1 DEF Entitled, Provided
  <2>2. CASE r.kind = "controller"
    <3>1. \A k \in Authority!Needs("controller") : Authority!Resource(k, r.args) \in there'
      <4>1. SUFFICES ASSUME NEW k \in Authority!Needs("controller")
                     PROVE  Authority!Resource(k, r.args) \in there'
        OBVIOUS
      <4>2. Authority!Resource(k, r.args) \in there
        BY <1>1, <2>2
      <4>3. Authority!Resource(k, r.args).args = r.args
        BY DEF Authority!Resource
      <4>. QED
        BY <1>1, <1>2, <4>2, <4>3
    <3>2. started' = started \union {r.args} /\ components' = components
      BY <1>1, <2>2
    <3>3. \A a \in started' :
             /\ a \in components'
             /\ \A k \in Authority!Needs("controller") : Authority!Resource(k, a) \in there'
      BY <1>2, <2>1, <3>1, <3>2
    <3>. QED
      BY <3>3 DEF Provided
  <2>3. CASE r.kind # "controller"
    BY <1>1, <2>1, <2>3 DEF Provided
  <2>. QED
    BY <2>2, <2>3
<1>5. Signed'
  BY <1>1 DEF Entitled, Signed
<1>. QED
  BY <1>1, <1>3, <1>4, <1>5 DEF Entitled

LEMMA RemoveStep ==
    ASSUME Entitled, NEW r \in there, Authority!Remove(r)
    PROVE  Entitled'
<1>1. /\ r.args \notin components /\ there' = there \ {r}
      /\ UNCHANGED <<components, started, node, token>>
  BY DEF Authority!Remove
<1>2. \A k, a : Authority!Resource(k, a).args = a
  BY DEF Authority!Resource
<1>3. Provided'
  BY <1>1, <1>2 DEF Entitled, Provided
<1>4. Declared' /\ Signed'
  BY <1>1 DEF Entitled, Declared, Signed
<1>. QED
  BY <1>1, <1>3, <1>4 DEF Entitled

LEMMA SignStep ==
    ASSUME Entitled, NEW pod \in LabelPods, Authority!Sign(pod)
    PROVE  Entitled'
<1>1. UNCHANGED <<there, components, started, node>>
  BY DEF Authority!Sign, Authority!deployment
<1>2. PICK a \in Authority!Roles(pod), life \in 0..(Life + 1) :
         /\ Authority!Lasting(life)
         /\ token' = [pod |-> pod, name |-> a.name, age |-> 0, life |-> life]
  BY DEF Authority!Sign
<1>3. a \in Authority!AllArgs /\ Authority!Pod(a) = pod
  BY DEF Authority!Roles, Authority!There, Authority!Trusts, Entitled, Declared
<1>4. life \in Int /\ life >= 1
  BY <1>2 DEF Authority!Lasting
<1>5. Signed'
  BY <1>2, <1>3, <1>4 DEF Signed, Authority!AllArgs
<1>. QED
  BY <1>1, <1>5 DEF Entitled, Declared, Provided, Authority!There, Authority!Labels

\* Nothing but the token or the Node.
LEMMA OtherSteps ==
    ASSUME Entitled,
           Authority!Finish \/ Authority!Interrupt \/ Authority!Tick \/ Authority!Send
              \/ Authority!OtherWrite
    PROVE  Entitled'
<1>1. UNCHANGED <<there, components, started>>
  BY DEF Authority!Finish, Authority!Interrupt, Authority!Tick, Authority!Send,
     Authority!OtherWrite, Authority!deployment
<1>2. Declared' /\ Provided'
  BY <1>1 DEF Entitled, Declared, Provided
<1>3. Signed'
  <2>1. CASE UNCHANGED token
    BY <2>1 DEF Entitled, Signed
  <2>2. CASE Authority!Tick
    BY <2>2 DEF Entitled, Signed, Authority!Tick, Authority!AllArgs
  <2>3. CASE Authority!Send
    BY <2>3 DEF Authority!Send, Signed
  <2>. QED
    BY <2>1, <2>2, <2>3 DEF Authority!Finish, Authority!Interrupt, Authority!OtherWrite
<1>4. node' \in Authority!Labels \union {Authority!NoNode}
  <2>1. CASE UNCHANGED node
    BY <2>1 DEF Entitled
  <2>2. CASE Authority!Send
    <3>1. UNCHANGED node \/ \E w \in Authority!Labels \X BOOLEAN : node' = w[1]
      BY <2>2 DEF Authority!Send, Authority!Admitted
    <3>. QED
      BY <2>1, <3>1
  <2>3. CASE Authority!OtherWrite
    <3>1. node' = Authority!NoNode \/ \E w \in Authority!Labels \X {rest} : node' = w[1]
      BY <2>3 DEF Authority!OtherWrite, Authority!Admitted
    <3>. QED
      BY <3>1
  <2>. QED
    BY <2>1, <2>2, <2>3 DEF Authority!Finish, Authority!Interrupt, Authority!Tick
<1>. QED
  BY <1>2, <1>3, <1>4 DEF Entitled

LEMMA EntitledStep == Entitled /\ [Authority!Next]_authorityVars => Entitled'
<1> SUFFICES ASSUME Entitled, [Authority!Next]_authorityVars PROVE Entitled'
  OBVIOUS
<1>1. CASE UNCHANGED authorityVars
  BY <1>1 DEF authorityVars, Entitled, Declared, Signed, Provided
<1>2. CASE Authority!Next
  BY <1>2, UpStep, BringStep, RemoveStep, SignStep, OtherSteps DEF Authority!Next
<1>. QED
  BY <1>1, <1>2

LEMMA EntitledInvariant == Spec => []Entitled
<1>1. Init => Entitled
  BY EntitledInit DEF Init
<1>2. Entitled /\ [Next]_vars => Entitled'
  BY Alone, EntitledStep
<1>. QED
  BY <1>1, <1>2, PTL DEF Spec

\* The resources that a component's controller needs are its authority.
LEMMA OwnResources ==
    ASSUME NEW a,
           \A k \in {"role", "accessEntry", "podIdentity", "reading", "patching"} :
              Authority!Resource(k, a) \in there
    PROVE  /\ Authority!Reads(Authority!Pod(a))
           /\ a \in Authority!Roles(Authority!Pod(a))
           /\ Authority!Patches(a.name, "nodes")
<1>1. \A k \in {"role", "accessEntry", "podIdentity", "reading", "patching"} :
         a \in Authority!There(k)
  <2>1. \A k : Authority!Resource(k, a).kind = k /\ Authority!Resource(k, a).args = a
    BY DEF Authority!Resource
  <2>. QED
    BY <2>1 DEF Authority!There
<1>. QED
  BY <1>1 DEF Authority!Reads, Authority!Roles, Authority!Associated, Authority!Trusts,
     Authority!Patches, Authority!Patchable

LEMMA StartedAuthorised == Entitled => Authority!ControllersStartAuthorised
<1>1. {"role", "accessEntry", "podIdentity", "reading", "patching"}
         \subseteq Authority!Needs("controller")
  BY DEF Authority!Needs, Authority!Kinds
<1>. QED
  BY <1>1, OwnResources DEF Entitled, Provided, Authority!ControllersStartAuthorised

LEMMA TokensLast == Entitled => Authority!TokensLastTheirMinute
BY DEF Entitled, Signed, Authority!TokensLastTheirMinute, Authority!Authentic

LEMMA CanWork == Entitled => Authority!ControllersCanWork
<1> SUFFICES ASSUME Entitled, granting = "none", there = Authority!Resources(components),
                    NEW a \in components, Authority!Workable(a)
             PROVE  /\ Authority!Reads(Authority!Pod(a))
                    /\ a \in Authority!Roles(Authority!Pod(a)) /\ Authority!Patches(a.name, "nodes")
                    /\ /\ ~ManagersShown /\ node # Authority!NoNode
                       /\ node[a.key] \in {Authority!None, a.value}
                       => \A v \in {Authority!None, a.value} \ {node[a.key]} :
                             Authority!Admitted(a.name, "nodes",
                                                {<<[node EXCEPT ![a.key] = v], rest>>}) # {}
  BY DEF Authority!ControllersCanWork
<1>1. \A k \in Authority!Kinds : Authority!Resource(k, a) \in there
  BY DEF Authority!Resources
<1>2. ASSUME ~ManagersShown,
             node # Authority!NoNode, node[a.key] \in {Authority!None, a.value},
             NEW v \in {Authority!None, a.value} \ {node[a.key]}
      PROVE  Authority!Admitted(a.name, "nodes", {<<[node EXCEPT ![a.key] = v], rest>>}) # {}
  <2> DEFINE to == [node EXCEPT ![a.key] = v]
  <2>1. Authority!ExactAddition(a, node, to) \/ Authority!ExactRemoval(a, node, to)
    <3>1. CASE v = a.value /\ node[a.key] = Authority!None
      BY <3>1 DEF Authority!ExactAddition
    <3>2. CASE v = Authority!None /\ node[a.key] = a.value
      BY <3>2 DEF Authority!ExactRemoval
    <3>. QED
      BY <1>2, <3>1, <3>2
  <2>2. ASSUME NEW b \in Authority!Bound
        PROVE  Authority!Admits(b, a.name, to, rest)
    <3>1. /\ Authority!Resource("policy", b) \in there /\ b \in components
          /\ Authority!Resource("policy", a) \in there
      BY <1>1 DEF Authority!Bound, Authority!There, Authority!Resources, Authority!Resource,
         Authority!Kinds
    <3>2. CASE a.name = b.name
      <4>1. Authority!Same(Authority!Resource("policy", a), Authority!Resource("policy", b))
        BY <3>2 DEF Authority!Same, Authority!Resource
      <4>2. a = b
        BY <3>1, <4>1 DEF Entitled, Declared, Authority!Resource
      <4>. QED
        BY <1>2, <2>1, <4>2 DEF Authority!Admits
    <3>3. CASE a.name # b.name
      <4>1. b.key # a.key
        BY <3>1, <3>3 DEF Authority!Workable
      <4>2. b.key \in LabelKeys /\ node \in Authority!Labels
        BY <1>2, <3>1, LabelAssumption
           DEF Entitled, Declared, Authority!Valid, Authority!WellFormed
      <4>3. to[b.key] = node[b.key]
        BY <4>1, <4>2 DEF Authority!Labels
      <4>. QED
        BY <1>2, <3>3, <4>3 DEF Authority!Admits
    <3>. QED
      BY <3>2, <3>3
  <2>3. <<to, rest>> \in Authority!Admitted(a.name, "nodes", {<<to, rest>>})
    BY <2>2 DEF Authority!Admitted
  <2>. QED
    BY <2>3
<1>. QED
  BY <1>1, <1>2, OwnResources DEF Authority!Kinds

\* A write to the Node as such that a's policy admits.
LEMMA AdmittedMoves ==
    ASSUME Entitled, NEW a \in Authority!Bound, NEW name, NEW w \in Authority!Labels \X BOOLEAN,
           Authority!Admits(a, name, w[1], w[2]),
           node # Authority!NoNode
    PROVE  /\ a.key \in LabelKeys
           /\ name # a.name => w[1][a.key] = node[a.key]
           /\ name = a.name => /\ w[2] = rest
                               /\ {node[a.key], w[1][a.key]} = {Authority!None, a.value}
                               /\ \A k \in LabelKeys \ {a.key} : w[1][k] = node[k]
<1>1. a.key \in LabelKeys /\ node \in Authority!Labels
  BY LabelAssumption DEF Entitled, Declared, Authority!Bound, Authority!There, Authority!Valid,
     Authority!WellFormed
<1>2. DOMAIN node = LabelKeys
  BY <1>1 DEF Authority!Labels
<1>3. CASE name # a.name
  BY <1>1, <1>3 DEF Authority!Admits
<1>4. CASE name = a.name
  <2>1. w[2] = rest /\ (Authority!ExactAddition(a, node, w[1]) \/ Authority!ExactRemoval(a, node, w[1]))
    BY <1>4 DEF Authority!Admits
  <2>. QED
    BY <1>1, <1>2, <1>4, <2>1 DEF Authority!ExactAddition, Authority!ExactRemoval
<1>. QED
  BY <1>3, <1>4

LEMMA LabelMoves ==
    ASSUME Entitled, [Authority!Next]_authorityVars, <<node, rest>>' # <<node, rest>>,
           NEW a \in Authority!Bound
    PROVE  /\ node = Authority!NoNode /\ node' # Authority!NoNode => node'[a.key] = Authority!None
           /\ ~Authority!Kept(a.key) =>
                 \/ Authority!Sent(a) /\ token.pod \in Authority!AccountsOf(a)
                 \/ through' = "status" /\ UNCHANGED token
           /\ Authority!Sent(a) =>
                 /\ {node[a.key], node'[a.key]} = {Authority!None, a.value}
                 /\ through' = "nodes" /\ rest' = rest /\ \A k \in LabelKeys \ {a.key} : Authority!Kept(k)
<1>1. Authority!Send \/ Authority!OtherWrite
  <2>1. Authority!Next
    BY DEF authorityVars
  <2>2. Authority!Send \/ Authority!OtherWrite \/ UNCHANGED <<node, rest>>
    BY <2>1 DEF Authority!Next, Authority!Up, Authority!Bring, Authority!Remove,
       Authority!Finish, Authority!Interrupt, Authority!Tick, Authority!Sign
  <2>. QED
    BY <2>2
<1>2. CASE Authority!Send
  <2>1. /\ token # Authority!NoToken /\ token' = Authority!NoToken /\ node # Authority!NoNode
        /\ through' = "nodes"
        /\ \E w \in Authority!Admitted(token.name, "nodes", Authority!Labels \X BOOLEAN) :
              node' = w[1] /\ rest' = w[2]
    BY <1>2 DEF Authority!Send, Authority!Patches, Authority!Patchable
  <2>2. PICK w \in Authority!Labels \X BOOLEAN :
           /\ Authority!Admits(a, token.name, w[1], w[2])
           /\ node' = w[1] /\ rest' = w[2]
    BY <2>1 DEF Authority!Admitted, Authority!Matched
  <2>3. /\ a.key \in LabelKeys
        /\ token.name # a.name => w[1][a.key] = node[a.key]
        /\ token.name = a.name => /\ w[2] = rest
                                  /\ {node[a.key], w[1][a.key]} = {Authority!None, a.value}
                                  /\ \A k \in LabelKeys \ {a.key} : w[1][k] = node[k]
    BY <2>1, <2>2, AdmittedMoves
  <2>4. Authority!Sent(a) <=> token.name = a.name
    BY <2>1 DEF Authority!Sent
  <2>5. token.name = a.name => token.pod \in Authority!AccountsOf(a)
    BY <2>1 DEF Entitled, Signed, Authority!AccountsOf
  <2>. QED
    BY <2>1, <2>2, <2>3, <2>4, <2>5 DEF Authority!Kept
<1>3. CASE Authority!OtherWrite
  <2>1. UNCHANGED <<rest, token>>
    BY <1>3 DEF Authority!OtherWrite
  <2>2. ~Authority!Sent(a)
    BY <2>1 DEF Authority!Sent
  <2>3. CASE node' = Authority!NoNode
    BY <2>2, <2>3 DEF Authority!Kept
  <2>4. CASE \E w \in Authority!Admitted(Authority!None, "nodes", Authority!Labels \X {rest}) :
                node' = w[1]
    <3>1. PICK w \in Authority!Labels \X {rest} :
             Authority!Admits(a, Authority!None, w[1], w[2]) /\ node' = w[1]
      BY <2>4 DEF Authority!Admitted, Authority!Matched
    <3>2. a.name # Authority!None
      BY LabelAssumption DEF Entitled, Declared, Authority!Bound, Authority!There, Authority!AllArgs
    <3>3. CASE node = Authority!NoNode
      BY <2>2, <3>1, <3>3 DEF Authority!Admits, Authority!Kept
    <3>4. CASE node # Authority!NoNode
      BY <2>2, <3>1, <3>2, <3>4 DEF Authority!Admits, Authority!Kept
    <3>. QED
      BY <3>3, <3>4
  <2>5. CASE through' = "status" /\ node # Authority!NoNode
    BY <2>1, <2>2, <2>5
  <2>. QED
    BY <1>3, <2>3, <2>4, <2>5 DEF Authority!OtherWrite, Authority!WrittenAs
<1>. QED
  BY <1>1, <1>2, <1>3

\* The authority of the controllers of trusted-node-label-reconciler.ts, for every
\* program, Pod, label and number of deployments and writes: where a Node is written
\* as such, a bound policy lets the label be moved by its own Pods only, and a
\* controller that was brought about, and a deployment that has ended, have the
\* authority that they need, whether a policy sees who manages a field (nothing is
\* said of the patch then) or not.
THEOREM AuthorityHolds == Spec => AuthorityIsExact
<1> DEFINE Moves ==
      \A a \in Authority!Bound :
         /\ node = Authority!NoNode /\ node' # Authority!NoNode => node'[a.key] = Authority!None
         /\ ~Authority!Kept(a.key) =>
               \/ Authority!Sent(a) /\ token.pod \in Authority!AccountsOf(a)
               \/ through' = "status" /\ UNCHANGED token
         /\ Authority!Sent(a) =>
               /\ {node[a.key], node'[a.key]} = {Authority!None, a.value}
               /\ through' = "nodes" /\ rest' = rest
               /\ \A k \in LabelKeys \ {a.key} : Authority!Kept(k)
<1>1. Entitled /\ [Next]_vars => [Moves]_<<node, rest>>
  BY Alone, LabelMoves
<1>2. Spec => [][Moves]_<<node, rest>>
  BY <1>1, EntitledInvariant, PTL DEF Spec
<1>3. Spec => Authority!LabelMovesByItsPods
  BY <1>2, PTL DEF Authority!LabelMovesByItsPods
<1>4. Entitled => /\ Authority!ControllersCanWork /\ Authority!ControllersStartAuthorised
                  /\ Authority!TokensLastTheirMinute
  BY CanWork, StartedAuthorised, TokensLast
<1>5. Spec => [](/\ Authority!ControllersCanWork /\ Authority!ControllersStartAuthorised
                 /\ Authority!TokensLastTheirMinute)
  BY <1>4, EntitledInvariant, PTL
<1>. QED
  BY <1>3, <1>5, PTL DEF AuthorityIsExact, Authority!AuthorityIsExact

-----------------------------------------------------------------------------
(***************************************************************************)
(* The rollout of an issuer                                                *)
(***************************************************************************)
\* A Pod runs what some plan declares, but for labels that were dropped and
\* containers that were added.
Modest(pod) ==
    \E b \in Issuer!Boundaries : \E admitted \in Issuer!Admitted(Issuer!Envelope(b)) :
    \E labels \in {Issuer!Labels, {}}, odd \in SUBSET {"sidecar", "ephemeral"} :
       pod = [admitted EXCEPT !.labels = labels, !.odd = odd]

Of(p, b) == Issuer!IdentityOf(p) = Issuer!Identity(IssuerPlans[b])
Guarded(p) == \E b \in activated : p.pod \in Issuer!Admitted(Issuer!Envelope(b))

\* What is brought about one after the other: a binding has a gate, an account a
\* binding, an activation a gate; a deployment that has got to its end has brought
\* about everything, and nothing that validateArgs or the ARNs forbid.
Orderly ==
    /\ live \in [Issuer!Resources -> Issuer!Boundaries \union {Issuer!None}]
    /\ op \in {"up", "cleanup"} => goal \in Issuer!Boundaries /\ Issuer!Valid(IssuerPlans[goal])
    /\ op = "cleanup" => \A r \in Issuer!Resources : live[r] = goal
    /\ \A r \in Issuer!Resources : live[r] # Issuer!None =>
          /\ Issuer!Valid(IssuerPlans[live[r]])
          /\ r \in Issuer!NeedArns => Issuer!ValidArns(IssuerPlans[live[r]])
    /\ live["gate"] = Issuer!None => live["binding"] = Issuer!None
    /\ live["binding"] = Issuer!None => live["account"] = Issuer!None
    /\ live["account"] = Issuer!None => accounts = {}
    /\ active => live["gate"] # Issuer!None /\ live["gate"] \in activated
    /\ activated \union deployments \subseteq Issuer!Boundaries
    /\ \A p \in pods : p = Issuer!Runs(p.namespace, p.pod) /\ Modest(p.pod)

\* The gate knows the account of plan b, as far as there are Pods of it.
Known(b) ==
    \A p \in pods : Of(p, b) /\ live["gate"] # Issuer!None =>
       IssuerPlans[live["gate"]].account = p.pod.account

\* The account of plan b exists only under the binding.
Sheltered(b) ==
    Issuer!Identity(IssuerPlans[b]) \in accounts => Issuer!Covers(IssuerPlans[b].namespace)

\* Under way to b: its account and Pods are covered by the binding, its Pods are
\* known to the gate and run what was activated.
Prepared(b) ==
    /\ \A p \in pods : Of(p, b) => Issuer!Covers(p.namespace) /\ Guarded(p)
    /\ Known(b) /\ Sheltered(b)

\* The inductive invariant of a rollout.
Closed ==
    /\ Orderly
    /\ op = "up" => Prepared(goal)
    /\ live["role"] # Issuer!None => Known(live["role"]) /\ Sheltered(live["role"])
    /\ \A p \in pods :
          /\ live["gate"] # Issuer!None /\ live["binding"] # Issuer!None
             /\ Of(p, live["gate"]) /\ Of(p, live["binding"]) => Guarded(p)
          /\ Issuer!Holds(p) /\ Issuer!Covers(p.namespace) => Guarded(p)

LEMMA ResourcesAre ==
    /\ Issuer!Resources = {"role", "authority", "network", "gate", "binding", "account", "deployment"}
    /\ Issuer!After["binding"] = {"gate", "role"} /\ Issuer!After["gate"] = {"role"}
    /\ Issuer!After["account"] = {"binding", "gate", "role"}
BY DEF Issuer!Resources, Issuer!After

\* What fits the gate of a plan is what the plan declares, as admission completes it.
LEMMA FitsAsDeclared ==
    ASSUME NEW g \in Issuer!Boundaries, NEW pod, Modest(pod), NEW roleName,
           roleName = IssuerPlans[g].roleName, Issuer!Fits(IssuerPlans[g], roleName, pod)
    PROVE  /\ pod \in Issuer!Admitted(Issuer!Envelope(g))
           /\ pod.labels = Issuer!Labels /\ "ephemeral" \notin pod.odd
           /\ pod.account = IssuerPlans[g].account
<1> DEFINE a == IssuerPlans[g]
<1>10. PICK b \in Issuer!Boundaries : \E admitted \in Issuer!Admitted(Issuer!Envelope(b)) :
           \E labels \in {Issuer!Labels, {}}, odd \in SUBSET {"sidecar", "ephemeral"} :
              pod = [admitted EXCEPT !.labels = labels, !.odd = odd]
  BY Zenon DEF Modest
<1>1. PICK admitted \in Issuer!Admitted(Issuer!Envelope(b)),
           labels \in {Issuer!Labels, {}}, odd \in SUBSET {"sidecar", "ephemeral"} :
         pod = [admitted EXCEPT !.labels = labels, !.odd = odd]
  BY <1>10
<1> DEFINE e == IssuerPlans[b]
<1>8. PICK more \in {{}, {Issuer!NotReady, Issuer!Unreachable}, {Issuer!PodEni},
                     {Issuer!NotReady, Issuer!Unreachable, Issuer!PodEni}} :
         admitted = [Issuer!Envelope(b) EXCEPT !.tolerations = @ \union more]
  BY DEF Issuer!Admitted
<1>2. /\ pod.account = e.account /\ pod.labels = labels /\ pod.image = e.image
      /\ pod.command = e.command /\ pod.words = e.words
      /\ pod.env = Issuer!Environment(e, e.roleName) /\ pod.placement = e.placement
      /\ pod.tolerations = {Issuer!Configured(e)} \union more /\ pod.odd = odd
      /\ pod = [account |-> e.account, labels |-> labels, image |-> e.image,
                command |-> e.command, words |-> e.words,
                env |-> Issuer!Environment(e, e.roleName), placement |-> e.placement,
                tolerations |-> {Issuer!Configured(e)} \union more, odd |-> odd]
  BY <1>1, <1>8 DEF Issuer!Envelope, Issuer!PodSpec
<1>3. /\ pod.account = a.account /\ pod.labels = Issuer!Labels
      /\ pod.image = a.image /\ pod.command = a.command
      /\ Issuer!Given(pod.words) = Issuer!Expected(a.words)
      /\ pod.env = Issuer!Environment(a, a.roleName) /\ pod.placement = a.placement
      /\ pod.odd \cap {"sidecar", "probe", "mount"} = {}
      /\ pod.odd \cap {"host", "init", "ephemeral", "privileged", "indirection"} = {}
  BY DEF Issuer!Fits, Issuer!ExactEnvelope, Issuer!Restricted
<1>4. odd = {}
  BY <1>2, <1>3
<1>5. e.words = a.words
  <2>1. e.words \in Seq(STRING) /\ a.words \in Seq(STRING)
    BY IssuerAssumption DEF Issuer!Boundaries
  <2>2. \A i \in DOMAIN a.words : a.words[i] \notin Dotted
    BY IssuerAssumption DEF Issuer!Boundaries
  <2>3. Issuer!Given(e.words) = Issuer!Given(a.words)
    BY <1>2, <1>3, <2>2 DEF Issuer!Given, Issuer!Expected
  <2>4. /\ DOMAIN Issuer!Given(e.words) = DOMAIN e.words
        /\ DOMAIN Issuer!Given(a.words) = DOMAIN a.words
    BY DEF Issuer!Given
  <2>5. \A i \in DOMAIN a.words : e.words[i] = a.words[i]
    <3>1. \A i \in DOMAIN a.words : <<e.words[i]>> = <<a.words[i]>>
      BY <2>3, <2>4 DEF Issuer!Given
    <3>2. \A i \in DOMAIN a.words : <<e.words[i]>>[1] = <<a.words[i]>>[1]
      BY <3>1
    <3>. QED
      BY <3>2
  <2>. QED
    BY <2>1, <2>3, <2>4, <2>5
<1>6. Issuer!Configured(e) = Issuer!Configured(a)
  BY <1>2, <1>3 DEF Issuer!Configured
<1>7. pod = [Issuer!Envelope(g) EXCEPT !.tolerations = @ \union more]
  BY <1>2, <1>3, <1>4, <1>5, <1>6 DEF Issuer!Envelope, Issuer!PodSpec
<1>. QED
  BY <1>2, <1>3, <1>7, <1>8 DEF Issuer!Admitted


LEMMA ClosedInit ==
    ASSUME Issuer!Init
    PROVE  Closed
<1>1. /\ live = [r \in Issuer!Resources |-> Issuer!None]
      /\ \A r \in Issuer!Resources : live[r] = Issuer!None
      /\ op = "none" /\ accounts = {} /\ pods = {} /\ activated = {} /\ active = FALSE
      /\ deployments = {}
  BY DEF Issuer!Init
<1>2. live["role"] = Issuer!None /\ live["gate"] = Issuer!None
      /\ live["binding"] = Issuer!None /\ live["account"] = Issuer!None
  BY <1>1, ResourcesAre
<1>. QED
  BY <1>1, <1>2 DEF Closed, Orderly

\* What the policy lets into the namespace of the binding, being protected, is what an
\* activated gate declares.
LEMMA Enters ==
    ASSUME Orderly, NEW namespace, NEW pod, Modest(pod),
           Issuer!Covers(namespace), Issuer!Passes(namespace, pod),
           pod.labels = Issuer!Labels \/ pod.account = IssuerPlans[live["gate"]].account
    PROVE  /\ live["gate"] # Issuer!None /\ live["gate"] \in activated
           /\ pod \in Issuer!Admitted(Issuer!Envelope(live["gate"]))
           /\ pod.labels = Issuer!Labels /\ "ephemeral" \notin pod.odd
           /\ pod.account = IssuerPlans[live["gate"]].account
<1> DEFINE g == IssuerPlans[live["gate"]]
<1>1. live["gate"] # Issuer!None /\ live["gate"] \in Issuer!Boundaries
  BY ResourcesAre DEF Orderly, Issuer!Covers
<1>2. Issuer!Protects(g, pod)
  BY DEF Issuer!Protects, Issuer!Labels
<1>3. active /\ Issuer!Fits(g, g.roleName, pod)
  BY <1>2 DEF Issuer!Passes
<1>. QED
  BY <1>1, <1>3, FitsAsDeclared DEF Orderly

\* One more Pod, or one in another's place.
LEMMA PodJoins ==
    ASSUME Closed, NEW q, q = Issuer!Runs(q.namespace, q.pod), Modest(q.pod),
           pods' \subseteq pods \union {q},
           UNCHANGED <<live, op, goal, accounts, deployments, active, activated>>,
           \A b \in Issuer!Boundaries :
              Known(b) /\ Sheltered(b) /\ Of(q, b) /\ live["gate"] # Issuer!None =>
                 IssuerPlans[live["gate"]].account = q.pod.account,
           Issuer!Covers(q.namespace) /\ IssuerPlans[live["gate"]].account = q.pod.account =>
              Guarded(q),
           op = "up" /\ Of(q, goal) => Issuer!Covers(q.namespace)
    PROVE  Closed'
<1>1. Orderly'
  BY DEF Closed, Orderly
<1>2. \A b \in Issuer!Boundaries : Known(b) /\ Sheltered(b) => Known(b)' /\ Sheltered(b)'
  BY DEF Known, Sheltered, Of, Issuer!Covers
<1>3. Issuer!Covers(q.namespace) => live["gate"] # Issuer!None
  BY DEF Closed, Orderly, Issuer!Covers
<1>4. \A r \in {"role", "gate", "binding"} :
         live[r] # Issuer!None => live[r] \in Issuer!Boundaries
  BY ResourcesAre DEF Closed, Orderly
<1>5. ASSUME op = "up"
      PROVE  Prepared(goal)'
  <2>1. goal \in Issuer!Boundaries /\ Prepared(goal)
    BY <1>5 DEF Closed, Orderly
  <2>2. Of(q, goal) => Issuer!Covers(q.namespace) /\ Guarded(q)
    BY <1>3, <1>5, <2>1 DEF Prepared
  <2>3. \A p \in pods' : Of(p, goal) => Issuer!Covers(p.namespace) /\ Guarded(p)
    BY <2>1, <2>2 DEF Prepared
  <2>. QED
    BY <1>2, <2>1, <2>3 DEF Prepared, Of, Guarded, Issuer!Covers
<1>6. live["role"] # Issuer!None => Known(live["role"])' /\ Sheltered(live["role"])'
  BY <1>2, <1>4 DEF Closed
<1>7. /\ live["gate"] # Issuer!None /\ live["binding"] # Issuer!None
         /\ Of(q, live["gate"]) /\ Of(q, live["binding"]) => Guarded(q)
      /\ Issuer!Holds(q) /\ Issuer!Covers(q.namespace) => Guarded(q)
  <2>1. CASE /\ live["gate"] # Issuer!None /\ live["binding"] # Issuer!None
             /\ Of(q, live["gate"]) /\ Of(q, live["binding"])
    <3>1. Issuer!Covers(q.namespace) /\ IssuerPlans[live["gate"]].account = q.pod.account
      BY <2>1 DEF Of, Issuer!IdentityOf, Issuer!Identity, Issuer!Covers
    <3>. QED
      BY <3>1
  <2>2. CASE Issuer!Holds(q) /\ Issuer!Covers(q.namespace)
    BY <1>3, <1>4, <2>2 DEF Closed, Issuer!Holds, Of
  <2>. QED
    BY <2>1, <2>2
<1>8. \A p \in pods' :
         /\ live["gate"] # Issuer!None /\ live["binding"] # Issuer!None
            /\ Of(p, live["gate"]) /\ Of(p, live["binding"]) => Guarded(p)
         /\ Issuer!Holds(p) /\ Issuer!Covers(p.namespace) => Guarded(p)
  BY <1>7 DEF Closed
<1>9. (op' = "up" => Prepared(goal)')
  BY <1>5
<1>10. \A p : Guarded(p)' <=> Guarded(p)
  BY DEF Guarded
<1>11. live["role"]' # Issuer!None => Known(live["role"])' /\ Sheltered(live["role"])'
  BY <1>6
<1>12. \A p \in pods' :
         /\ live["gate"]' # Issuer!None /\ live["binding"]' # Issuer!None
            /\ Of(p, live["gate"]') /\ Of(p, live["binding"]') => Guarded(p)'
         /\ Issuer!Holds(p)' /\ Issuer!Covers(p.namespace)' => Guarded(p)'
  BY <1>8, <1>10 DEF Issuer!Holds, Issuer!Covers
<1>. QED
  BY <1>1, <1>9, <1>11, <1>12 DEF Closed, Prepared, Known, Sheltered, Of

LEMMA CreateStep ==
    ASSUME Closed, NEW namespace, NEW declared, NEW b \in Issuer!Boundaries,
           NEW odd \in {{}, {"sidecar"}}, declared = [Issuer!Envelope(b) EXCEPT !.odd = odd],
           Issuer!Create(namespace, declared)
    PROVE  Closed'
<1>1. PICK pod \in Issuer!Admitted(declared) :
         Issuer!Passes(namespace, pod) /\ pods' = pods \union {Issuer!Runs(namespace, pod)}
  BY DEF Issuer!Create
<1> DEFINE q == Issuer!Runs(namespace, pod)
<1>2. q.namespace = namespace /\ q.pod = pod /\ q = Issuer!Runs(q.namespace, q.pod)
  BY DEF Issuer!Runs
<1>3. PICK more : pod = [declared EXCEPT !.tolerations = @ \union more]
  BY <1>1 DEF Issuer!Admitted
<1>4. pod.account = declared.account /\ pod.labels = Issuer!Labels
  BY <1>3 DEF Issuer!Envelope, Issuer!PodSpec
<1>5. Modest(pod)
  <2>1. PICK wide \in {{}, {Issuer!NotReady, Issuer!Unreachable}, {Issuer!PodEni},
                     {Issuer!NotReady, Issuer!Unreachable, Issuer!PodEni}} :
           pod = [declared EXCEPT !.tolerations = @ \union wide]
    BY <1>1 DEF Issuer!Admitted
  <2> DEFINE admitted == [Issuer!Envelope(b) EXCEPT !.tolerations = @ \union wide]
  <2>2. admitted \in Issuer!Admitted(Issuer!Envelope(b))
    BY DEF Issuer!Admitted
  <2>3. pod = [admitted EXCEPT !.labels = Issuer!Labels, !.odd = odd]
    <3> DEFINE e == IssuerPlans[b]
               full == [account |-> e.account, labels |-> Issuer!Labels, image |-> e.image,
                        command |-> e.command, words |-> e.words,
                        env |-> Issuer!Environment(e, e.roleName), placement |-> e.placement,
                        tolerations |-> {Issuer!Configured(e)} \union wide, odd |-> odd]
    <3>1. pod = full
      BY <2>1 DEF Issuer!Envelope, Issuer!PodSpec
    <3>2. PICK same : same = [admitted EXCEPT !.labels = Issuer!Labels, !.odd = odd]
      OBVIOUS
    <3>3. same = full
      BY <3>2 DEF Issuer!Envelope, Issuer!PodSpec
    <3>. QED
      BY <3>1, <3>2, <3>3
  <2>4. odd \in SUBSET {"sidecar", "ephemeral"}
    OBVIOUS
  <2>. QED
    BY <2>2, <2>3, <2>4 DEF Modest
<1>6. Issuer!Covers(namespace) =>
         Guarded(q) /\ IssuerPlans[live["gate"]].account = pod.account
  BY <1>1, <1>2, <1>4, <1>5, Enters DEF Closed, Guarded
<1>7. [namespace |-> namespace, account |-> pod.account] \in accounts
  BY <1>4 DEF Issuer!Create
<1>8. \A c \in Issuer!Boundaries : Sheltered(c) /\ Of(q, c) => Issuer!Covers(namespace)
  BY <1>2, <1>7 DEF Sheltered, Of, Issuer!IdentityOf, Issuer!Identity
<1>9. op = "up" => goal \in Issuer!Boundaries /\ Sheltered(goal)
  BY DEF Closed, Orderly, Prepared
<1>10. UNCHANGED <<live, op, goal, accounts, deployments, active, activated>>
  BY DEF Issuer!Create
<1> HIDE DEF q
<1>11. /\ \A c \in Issuer!Boundaries :
              Known(c) /\ Sheltered(c) /\ Of(q, c) /\ live["gate"] # Issuer!None =>
                 IssuerPlans[live["gate"]].account = q.pod.account
       /\ Issuer!Covers(q.namespace) /\ IssuerPlans[live["gate"]].account = q.pod.account =>
              Guarded(q)
       /\ op = "up" /\ Of(q, goal) => Issuer!Covers(q.namespace)
       /\ pods' \subseteq pods \union {q} /\ Modest(q.pod)
  BY <1>1, <1>2, <1>5, <1>6, <1>8, <1>9 DEF q
<1>. QED
  BY <1>2, <1>10, <1>11, PodJoins

LEMMA ChangeStep ==
    ASSUME Closed, Issuer!ChangePod
    PROVE  Closed'
<1>1. PICK p \in pods : \E new \in {[p.pod EXCEPT !.labels = {}],
                                    [p.pod EXCEPT !.odd = @ \union {"ephemeral"}]} :
         /\ new # p.pod /\ Issuer!Passes(p.namespace, new)
         /\ pods' = (pods \ {p}) \union {Issuer!Runs(p.namespace, new)}
         /\ UNCHANGED <<live, op, goal, accounts, deployments, active, activated, issuerLeft>>
  BY DEF Issuer!ChangePod
<1>2. PICK new \in {[p.pod EXCEPT !.labels = {}], [p.pod EXCEPT !.odd = @ \union {"ephemeral"}]} :
         /\ new # p.pod /\ Issuer!Passes(p.namespace, new)
         /\ pods' = (pods \ {p}) \union {Issuer!Runs(p.namespace, new)}
         /\ UNCHANGED <<live, op, goal, accounts, deployments, active, activated>>
  BY <1>1
<1> DEFINE q == Issuer!Runs(p.namespace, new)
<1>3. q.namespace = p.namespace /\ q.pod = new /\ q = Issuer!Runs(q.namespace, q.pod)
  BY DEF Issuer!Runs
<1>4. Modest(new) /\ new.account = p.pod.account
      /\ (new.labels = {} \/ "ephemeral" \in new.odd)
  <2>1. Modest(p.pod)
    BY DEF Closed, Orderly
  <2>2. PICK b \in Issuer!Boundaries : \E admitted \in Issuer!Admitted(Issuer!Envelope(b)) :
           \E labels \in {Issuer!Labels, {}}, odd \in SUBSET {"sidecar", "ephemeral"} :
              p.pod = [admitted EXCEPT !.labels = labels, !.odd = odd]
    BY <2>1, Zenon DEF Modest
  <2>3. PICK admitted \in Issuer!Admitted(Issuer!Envelope(b)),
             labels \in {Issuer!Labels, {}}, odd \in SUBSET {"sidecar", "ephemeral"} :
           p.pod = [admitted EXCEPT !.labels = labels, !.odd = odd]
    BY <2>2
  <2>4. PICK more : admitted = [Issuer!Envelope(b) EXCEPT !.tolerations = @ \union more]
    BY DEF Issuer!Admitted
  <2>5. CASE new = [p.pod EXCEPT !.labels = {}]
    <3>1. new = [admitted EXCEPT !.labels = {}, !.odd = odd] /\ new.labels = {}
          /\ new.account = p.pod.account
      BY <2>3, <2>4, <2>5 DEF Issuer!Envelope, Issuer!PodSpec
    <3>. QED
      BY <3>1 DEF Modest
  <2>6. CASE new = [p.pod EXCEPT !.odd = @ \union {"ephemeral"}]
    <3>1. /\ new = [admitted EXCEPT !.labels = labels, !.odd = odd \union {"ephemeral"}]
          /\ new.account = p.pod.account /\ "ephemeral" \in new.odd
      BY <2>3, <2>4, <2>6 DEF Issuer!Envelope, Issuer!PodSpec
    <3>2. odd \union {"ephemeral"} \in SUBSET {"sidecar", "ephemeral"}
      OBVIOUS
    <3>. QED
      BY <3>1, <3>2 DEF Modest
  <2>. QED
    BY <2>5, <2>6
<1>5. ~(Issuer!Covers(p.namespace) /\ IssuerPlans[live["gate"]].account = new.account)
  <2>1. Issuer!Labels # {}
    BY DEF Issuer!Labels
  <2>. QED
    BY <1>2, <1>4, <2>1, Enters DEF Closed
<1>6. Issuer!IdentityOf(q) = Issuer!IdentityOf(p)
  BY <1>3, <1>4 DEF Issuer!IdentityOf
<1>7. op = "up" /\ Of(p, goal) => Issuer!Covers(p.namespace)
  BY DEF Closed, Prepared
<1> HIDE DEF q
<1>8. /\ \A c \in Issuer!Boundaries :
             Known(c) /\ Sheltered(c) /\ Of(q, c) /\ live["gate"] # Issuer!None =>
                IssuerPlans[live["gate"]].account = q.pod.account
      /\ Issuer!Covers(q.namespace) /\ IssuerPlans[live["gate"]].account = q.pod.account =>
             Guarded(q)
      /\ op = "up" /\ Of(q, goal) => Issuer!Covers(q.namespace)
      /\ pods' \subseteq pods \union {q} /\ Modest(q.pod)
  BY <1>2, <1>3, <1>4, <1>5, <1>6, <1>7 DEF q, Known, Of
<1>. QED
  BY <1>2, <1>3, <1>8, PodJoins


LEMMA Undertaken ==
    ASSUME Closed, Issuer!Up
    PROVE  Closed'
<1>1. PICK b \in Issuer!Boundaries :
         /\ Issuer!Valid(IssuerPlans[b]) /\ (Issuer!Stands(b) \/ Issuer!Fresh(b))
         /\ op' = "up" /\ goal' = b
         /\ UNCHANGED <<live, accounts, deployments, active, activated, pods>>
  BY DEF Issuer!Up, Issuer!Cluster
<1>2. Orderly'
  BY <1>1 DEF Closed, Orderly
<1>3. Prepared(b)
  <2>1. CASE Issuer!Fresh(b)
    BY <2>1 DEF Issuer!Fresh, Prepared, Known, Sheltered, Of
  <2>2. CASE Issuer!Stands(b)
    <3>1. /\ live["gate"] # Issuer!None /\ live["binding"] # Issuer!None
          /\ Issuer!Identity(IssuerPlans[live["gate"]]) = Issuer!Identity(IssuerPlans[b])
          /\ Issuer!Identity(IssuerPlans[live["binding"]]) = Issuer!Identity(IssuerPlans[b])
      BY <2>2 DEF Issuer!Stands
    <3>2. \A p \in pods : Of(p, b) => Of(p, live["gate"]) /\ Of(p, live["binding"])
      BY <3>1 DEF Of
    <3>3. Issuer!Covers(IssuerPlans[b].namespace)
      BY <3>1 DEF Issuer!Covers, Issuer!Identity
    <3>4. \A p \in pods : Of(p, b) =>
             /\ p.namespace = IssuerPlans[b].namespace
             /\ p.pod.account = IssuerPlans[live["gate"]].account
      BY <3>1 DEF Of, Issuer!IdentityOf, Issuer!Identity
    <3>. QED
      BY <3>1, <3>2, <3>3, <3>4 DEF Closed, Prepared, Known, Sheltered
  <2>. QED
    BY <1>1, <2>1, <2>2
<1>4. (op = "up" => Prepared(goal))'
  BY <1>1, <1>3 DEF Prepared, Known, Sheltered, Of, Guarded, Issuer!Covers
<1>. QED
  BY <1>1, <1>2, <1>4 DEF Closed, Known, Sheltered, Of, Guarded, Issuer!Covers, Issuer!Holds

\* The step of a resource that the deployment brings about.
LEMMA Applies ==
    ASSUME Closed, NEW r \in Issuer!Resources, Issuer!Apply(r)
    PROVE  Closed'
<1>1. /\ op = "up" /\ goal \in Issuer!Boundaries /\ goal # Issuer!None
      /\ Issuer!Valid(IssuerPlans[goal]) /\ Prepared(goal)
      /\ \A d \in Issuer!After[r] : live[d] = goal
      /\ r \in Issuer!NeedArns => Issuer!ValidArns(IssuerPlans[goal])
      /\ UNCHANGED <<op, goal, pods>>
  BY IssuerAssumption DEF Issuer!Apply, Closed, Orderly, Issuer!Boundaries
<1>2. /\ live' = [live EXCEPT ![r] = goal]
      /\ live' \in [Issuer!Resources -> Issuer!Boundaries \union {Issuer!None}]
      /\ live'[r] = goal
      /\ \A d \in Issuer!Resources \ {r} : live'[d] = live[d]
  BY <1>1 DEF Issuer!Apply, Closed, Orderly
<1>3. accounts' = IF r = "account" THEN accounts \union {Issuer!Identity(IssuerPlans[goal])}
                  ELSE accounts
  BY DEF Issuer!Apply
<1>4. /\ active' => live'["gate"] # Issuer!None /\ live'["gate"] \in activated'
      /\ activated \subseteq activated'
      /\ activated' \union deployments' \subseteq Issuer!Boundaries
  <2>1. /\ active' = (active /\ (r = "gate" => Issuer!SameGate(goal)))
        /\ activated' = IF active' THEN activated \union {live'["gate"]} ELSE activated
    BY DEF Issuer!Apply
  <2>2. active => live'["gate"] # Issuer!None /\ live'["gate"] \in Issuer!Boundaries
    BY <1>1, <1>2, ResourcesAre DEF Closed, Orderly
  <2>3. deployments' \subseteq deployments \union {goal}
    BY DEF Issuer!Apply
  <2>. QED
    BY <1>1, <2>1, <2>2, <2>3 DEF Closed, Orderly
<1>5. /\ r = "gate" => live["role"] = goal
      /\ r = "binding" => live["gate"] = goal /\ live["role"] = goal
      /\ r = "account" => live["binding"] = goal /\ live["gate"] = goal /\ live["role"] = goal
  BY <1>1, ResourcesAre
<1>6. /\ "role" \in Issuer!Resources /\ "gate" \in Issuer!Resources
      /\ "binding" \in Issuer!Resources /\ "account" \in Issuer!Resources
  BY ResourcesAre
<1>7. Orderly'
  <2>1. \A d \in Issuer!Resources : live'[d] # Issuer!None =>
           /\ Issuer!Valid(IssuerPlans[live'[d]])
           /\ d \in Issuer!NeedArns => Issuer!ValidArns(IssuerPlans[live'[d]])
    BY <1>1, <1>2 DEF Closed, Orderly
  <2>2. /\ live'["gate"] = Issuer!None => live'["binding"] = Issuer!None
        /\ live'["binding"] = Issuer!None => live'["account"] = Issuer!None
        /\ live'["account"] = Issuer!None => accounts' = {}
    BY <1>1, <1>2, <1>3, <1>5, <1>6 DEF Closed, Orderly
  <2>. QED
    BY <1>1, <1>2, <1>4, <2>1, <2>2 DEF Closed, Orderly
<1>8. \A p : Guarded(p) => Guarded(p)'
  BY <1>4 DEF Guarded
\* A namespace that was covered is, unless the binding has moved to the goal's.
<1>9. /\ r # "binding" => \A n : Issuer!Covers(n) <=> Issuer!Covers(n)'
      /\ Issuer!Covers(IssuerPlans[goal].namespace) => Issuer!Covers(IssuerPlans[goal].namespace)'
      /\ r = "binding" => Issuer!Covers(IssuerPlans[goal].namespace)'
  BY <1>1, <1>2, <1>6 DEF Issuer!Covers
<1>10. Known(goal)'
  <2>1. CASE r = "gate"
    BY <1>1, <1>2, <2>1 DEF Known, Of, Issuer!IdentityOf, Issuer!Identity
  <2>2. CASE r # "gate"
    BY <1>1, <1>2, <1>6, <2>2 DEF Known, Of, Prepared
  <2>. QED
    BY <2>1, <2>2
<1>11. Sheltered(goal)'
  <2>1. CASE r = "account"
    BY <1>1, <1>2, <1>5, <1>6, <2>1 DEF Sheltered, Issuer!Covers
  <2>2. CASE r # "account"
    BY <1>1, <1>3, <1>9, <2>2 DEF Sheltered, Prepared
  <2>. QED
    BY <2>1, <2>2
<1>12. Prepared(goal)'
  <2>1. \A p \in pods : Of(p, goal) => p.namespace = IssuerPlans[goal].namespace
    BY DEF Of, Issuer!IdentityOf, Issuer!Identity
  <2>2. \A p \in pods : Of(p, goal) => Issuer!Covers(p.namespace)' /\ Guarded(p)'
    BY <1>1, <1>8, <1>9, <2>1 DEF Prepared
  <2>. QED
    BY <1>1, <1>10, <1>11, <2>2 DEF Prepared, Of
\* What holds the role then has held it, or is the goal's.
<1>13. CASE live'["role"] = goal
  <2>1. /\ Known(live["role"])' /\ Sheltered(live["role"])'
    BY <1>1, <1>10, <1>11, <1>13 DEF Known, Sheltered, Of
  <2>2. \A p \in pods : Of(p, goal) => Guarded(p)'
    BY <1>1, <1>8 DEF Prepared
  <2>3. \A p \in pods : Issuer!Holds(p)' => Of(p, goal)
    BY <1>13 DEF Issuer!Holds, Of
  <2>4. \A p \in pods :
           live'["gate"] # Issuer!None /\ live'["binding"] # Issuer!None
              /\ Of(p, live'["gate"]) /\ Of(p, live'["binding"]) => Guarded(p)'
    <3>1. CASE live'["gate"] = goal
      BY <2>2, <3>1
    <3>2. CASE live'["gate"] # goal
      <4>1. r # "binding" /\ r # "gate"
        BY <1>2, <1>5, <1>6, <3>2
      <4>. QED
        BY <1>2, <1>6, <1>8, <4>1 DEF Closed
    <3>. QED
      BY <3>1, <3>2
  <2>. QED
    BY <1>1, <1>7, <1>12, <2>1, <2>2, <2>3, <2>4 DEF Closed, Of
<1>14. CASE live'["role"] # goal
  <2>1. /\ r \notin {"role", "gate", "binding", "account"}
        /\ UNCHANGED <<live["role"], live["gate"], live["binding"], accounts>>
    BY <1>2, <1>3, <1>5, <1>6, <1>14
  <2>2. live'["role"] # Issuer!None => Known(live["role"])' /\ Sheltered(live["role"])'
    BY <1>1, <2>1 DEF Closed, Known, Sheltered, Of, Issuer!Covers
  <2>3. \A p \in pods : /\ Issuer!Holds(p)' <=> Issuer!Holds(p)
                        /\ Issuer!Covers(p.namespace)' <=> Issuer!Covers(p.namespace)
    BY <2>1 DEF Issuer!Holds, Issuer!Covers
  <2>. QED
    BY <1>1, <1>7, <1>8, <1>12, <2>1, <2>2, <2>3 DEF Closed, Of
<1>. QED
  BY <1>13, <1>14

LEMMA Deletes ==
    ASSUME Closed, NEW r \in Issuer!Resources, Issuer!Delete(r)
    PROVE  Closed'
<1>1. /\ op = "destroy" /\ \A s \in Issuer!Resources : r \in Issuer!After[s] => live[s] = Issuer!None
      /\ live' = [live EXCEPT ![r] = Issuer!None]
      /\ accounts' = IF r = "account" THEN {} ELSE accounts
      /\ active' = (active /\ r # "gate") /\ deployments' \subseteq deployments
      /\ UNCHANGED <<op, goal, activated, pods>>
  BY DEF Issuer!Delete
<1>2. /\ "role" \in Issuer!Resources /\ "gate" \in Issuer!Resources
      /\ "binding" \in Issuer!Resources /\ "account" \in Issuer!Resources
  BY ResourcesAre
<1>3. /\ live' \in [Issuer!Resources -> Issuer!Boundaries \union {Issuer!None}]
      /\ live'[r] = Issuer!None
      /\ \A d \in Issuer!Resources \ {r} : live'[d] = live[d]
      /\ \A d \in Issuer!Resources : live'[d] # Issuer!None => live'[d] = live[d]
  BY <1>1 DEF Closed, Orderly
<1>4. /\ r = "gate" => live["binding"] = Issuer!None
      /\ r = "binding" => live["account"] = Issuer!None
  BY <1>1, <1>2, ResourcesAre
<1>5. accounts' \subseteq accounts
  BY <1>1
<1>6. Orderly'
  <2>1. /\ live'["gate"] = Issuer!None => live'["binding"] = Issuer!None
        /\ live'["binding"] = Issuer!None => live'["account"] = Issuer!None
        /\ live'["account"] = Issuer!None => accounts' = {}
    BY <1>1, <1>2, <1>3, <1>4 DEF Closed, Orderly
  <2>2. \A d \in Issuer!Resources : live'[d] # Issuer!None =>
           /\ Issuer!Valid(IssuerPlans[live'[d]])
           /\ d \in Issuer!NeedArns => Issuer!ValidArns(IssuerPlans[live'[d]])
    BY <1>3 DEF Closed, Orderly
  <2>3. active' => live'["gate"] # Issuer!None /\ live'["gate"] \in activated'
    BY <1>1, <1>2, <1>3 DEF Closed, Orderly
  <2>. QED
    BY <1>1, <1>3, <2>1, <2>2, <2>3 DEF Closed, Orderly
<1>7. \A n : Issuer!Covers(n)' => Issuer!Covers(n)
  BY <1>2, <1>3 DEF Issuer!Covers
<1>8. accounts' # {} => \A n : Issuer!Covers(n) => Issuer!Covers(n)'
  BY <1>1, <1>2, <1>3, <1>4 DEF Closed, Orderly, Issuer!Covers
<1>9. live'["role"] # Issuer!None => Known(live["role"])' /\ Sheltered(live["role"])'
  <2>1. \A b : Known(b) => Known(b)'
    BY <1>1, <1>2, <1>3 DEF Known, Of
  <2>2. \A b : Sheltered(b) => Sheltered(b)'
    BY <1>5, <1>8 DEF Sheltered
  <2>3. \A b : /\ b = live'["role"] => (Known(live["role"])' <=> Known(b)')
    OBVIOUS
  <2>. QED
    BY <1>2, <1>3, <2>1, <2>2 DEF Closed, Known, Sheltered, Of, Issuer!Covers
<1>10. \A p : /\ Issuer!Holds(p)' => Issuer!Holds(p)
              /\ Guarded(p)' <=> Guarded(p)
  BY <1>1, <1>2, <1>3 DEF Issuer!Holds, Guarded
<1>. QED
  BY <1>1, <1>2, <1>3, <1>6, <1>7, <1>9, <1>10 DEF Closed, Of

\* What changes neither what there is nor who runs.
LEMMA Bystanders ==
    ASSUME Closed,
           Issuer!Applied \/ Issuer!DeleteReplaced \/ Issuer!Destroy \/ Issuer!Ends
              \/ Issuer!Interrupt \/ Issuer!Activate \/ UNCHANGED issuerVars
    PROVE  Closed'
<1>1. /\ UNCHANGED <<live, pods>> /\ activated \subseteq activated'
      /\ op' = "up" => op = "up" /\ goal' = goal
      /\ \/ accounts' = accounts
         \/ accounts' = {Issuer!Identity(IssuerPlans[goal])} /\ op = "cleanup"
  BY DEF Issuer!Applied, Issuer!DeleteReplaced, Issuer!Destroy, Issuer!Ends, Issuer!Interrupt,
     Issuer!Activate, Issuer!Cluster, issuerVars
<1>2. Orderly'
  <2>1. CASE Issuer!Activate
    BY <2>1, ResourcesAre DEF Issuer!Activate, Closed, Orderly
  <2>2. CASE Issuer!DeleteReplaced
    <3>1. live["account"] # Issuer!None
      BY <2>2, ResourcesAre, IssuerAssumption
      DEF Issuer!DeleteReplaced, Closed, Orderly, Issuer!Boundaries
    <3>. QED
      BY <2>2, <3>1 DEF Issuer!DeleteReplaced, Closed, Orderly
  <2>3. CASE Issuer!Applied
    BY <2>3 DEF Issuer!Applied, Issuer!Cluster, Closed, Orderly
  <2>4. CASE Issuer!Destroy \/ Issuer!Ends \/ Issuer!Interrupt
    BY <2>4 DEF Issuer!Destroy, Issuer!Ends, Issuer!Interrupt, Issuer!Cluster, Closed, Orderly
  <2>5. CASE UNCHANGED issuerVars
    BY <2>5 DEF issuerVars, Closed, Orderly
  <2>. QED
    BY <2>1, <2>2, <2>3, <2>4, <2>5
<1>3. \A p : Guarded(p) => Guarded(p)'
  BY <1>1 DEF Guarded
<1>4. \A b : Known(b) => Known(b)'
  BY <1>1 DEF Known, Of
<1>5. live["role"] # Issuer!None => Sheltered(live["role"])'
  <2>1. CASE accounts' = accounts
    BY <1>1, <2>1 DEF Closed, Sheltered, Issuer!Covers
  <2>2. CASE op = "cleanup"
    <3>1. live["role"] = goal /\ live["binding"] = goal /\ goal # Issuer!None
      BY <2>2, ResourcesAre, IssuerAssumption DEF Closed, Orderly, Issuer!Boundaries
    <3>. QED
      BY <1>1, <3>1 DEF Sheltered, Issuer!Covers
  <2>. QED
    BY <1>1, <2>1, <2>2
<1>6. (op = "up" => Prepared(goal))'
  <2>1. ASSUME op' = "up" PROVE UNCHANGED <<accounts, goal>> /\ Prepared(goal)
    BY <1>1, <2>1 DEF Closed
  <2>. QED
    BY <1>1, <1>3, <1>4, <2>1 DEF Prepared, Known, Sheltered, Of, Issuer!Covers
<1>7. (live["role"] # Issuer!None => Known(live["role"]) /\ Sheltered(live["role"]))'
  BY <1>1, <1>4, <1>5 DEF Closed, Known, Of
<1>. QED
  BY <1>1, <1>2, <1>3, <1>6, <1>7 DEF Closed, Of, Issuer!Holds, Issuer!Covers

LEMMA ClosedStep == Closed /\ [Issuer!Next]_issuerVars => Closed'
<1>. SUFFICES ASSUME Closed, [Issuer!Next]_issuerVars
              PROVE  Closed'
  OBVIOUS
<1>1. CASE Issuer!OwnPod
  <2>1. PICK d \in deployments : Issuer!Create(IssuerPlans[d].namespace, Issuer!Envelope(d))
    BY <1>1 DEF Issuer!OwnPod
  <2>2. d \in Issuer!Boundaries
    BY DEF Closed, Orderly
  <2>3. Issuer!Envelope(d) = [Issuer!Envelope(d) EXCEPT !.odd = {}]
    BY DEF Issuer!Envelope, Issuer!PodSpec
  <2>. QED
    BY <2>1, <2>2, <2>3, CreateStep
<1>2. CASE Issuer!ForeignPod
  <2>1. PICK namespace \in {IssuerPlans[b].namespace : b \in Issuer!Boundaries},
             envelope \in {Issuer!Envelope(b) : b \in Issuer!Boundaries},
             odd \in {{}, {"sidecar"}} :
           Issuer!Create(namespace, [envelope EXCEPT !.odd = odd])
    BY <1>2 DEF Issuer!ForeignPod
  <2>2. PICK b \in Issuer!Boundaries : envelope = Issuer!Envelope(b)
    OBVIOUS
  <2>. QED
    BY <2>1, <2>2, CreateStep
<1>3. CASE Issuer!ChangePod
  BY <1>3, ChangeStep
<1>4. CASE Issuer!Up
  BY <1>4, Undertaken
<1>5. CASE \E r \in Issuer!Resources : Issuer!Apply(r) \/ Issuer!Delete(r)
  BY <1>5, Applies, Deletes
<1>6. CASE Issuer!Applied \/ Issuer!DeleteReplaced \/ Issuer!Destroy \/ Issuer!Ends
              \/ Issuer!Interrupt \/ Issuer!Activate \/ UNCHANGED issuerVars
  BY <1>6, Bystanders
<1>. QED
  BY <1>1, <1>2, <1>3, <1>4, <1>5, <1>6 DEF Issuer!Next
LEMMA ClosedInvariant == Spec => []Closed
<1>1. Init => Closed
  BY ClosedInit DEF Init
<1>2. Closed /\ [Next]_vars => Closed'
  BY ClosedStep, Alone
<1>. QED
  BY <1>1, <1>2, PTL DEF Spec

LEMMA SameSize == \A S : Issuer!Cardinality(S) = Cardinality(S)
BY DEF Issuer!Cardinality, Cardinality

\* The sizes of what admission makes of the tolerations of a Pod, and that the gate
\* takes each of them.
LEMMA TolerationsFit ==
    ASSUME NEW a, a.placement.effect = "NoSchedule",
           NEW more \in {{}, {Issuer!NotReady, Issuer!Unreachable}, {Issuer!PodEni},
                         {Issuer!NotReady, Issuer!Unreachable, Issuer!PodEni}}
    PROVE  Issuer!ExactTolerations(a, {Issuer!Configured(a)} \union more)
<1> DEFINE c == Issuer!Configured(a)
           n == Issuer!NotReady
           u == Issuer!Unreachable
           e == Issuer!PodEni
<1>1. c # n /\ c # u /\ n # u /\ e # n /\ e # u
  BY DEF Issuer!Configured, Issuer!NotReady, Issuer!Unreachable, Issuer!PodEni
<1> HIDE DEF c, n, u, e
<1>2. \A x : IsFiniteSet({x}) /\ Cardinality({x}) = 1
  BY FS_Singleton
<1>3. \A x, y : x # y => IsFiniteSet({x, y}) /\ Cardinality({x, y}) = 2
  <2>. SUFFICES ASSUME NEW x, NEW y, x # y
                PROVE  IsFiniteSet({x, y}) /\ Cardinality({x, y}) = 2
    OBVIOUS
  <2> DEFINE S == {x}
  <2>1. {x, y} = S \union {y} /\ y \notin S
    OBVIOUS
  <2>2. IsFiniteSet(S) /\ Cardinality(S) = 1
    BY <1>2
  <2> HIDE DEF S
  <2>3. IsFiniteSet(S \union {y}) /\ Cardinality(S \union {y}) = 2
    BY <2>1, <2>2, FS_AddElement
  <2>. QED
    BY <2>1, <2>3
<1>4. \A x, y, z : x # y /\ x # z /\ y # z => IsFiniteSet({x, y, z}) /\ Cardinality({x, y, z}) = 3
  <2>. SUFFICES ASSUME NEW x, NEW y, NEW z, x # y /\ x # z /\ y # z
                PROVE  IsFiniteSet({x, y, z}) /\ Cardinality({x, y, z}) = 3
    OBVIOUS
  <2> DEFINE S == {x, y}
  <2>1. {x, y, z} = S \union {z} /\ z \notin S
    OBVIOUS
  <2>2. IsFiniteSet(S) /\ Cardinality(S) = 2
    BY <1>3
  <2> HIDE DEF S
  <2>3. IsFiniteSet(S \union {z}) /\ Cardinality(S \union {z}) = 3
    BY <2>1, <2>2, FS_AddElement
  <2>. QED
    BY <2>1, <2>3
<1>5. ASSUME c # e PROVE Cardinality({c, n, u, e}) = 4
  <2> DEFINE S == {c, n, u}
  <2>1. {c, n, u, e} = S \union {e} /\ e \notin S
    BY <1>1, <1>5
  <2>2. IsFiniteSet(S) /\ Cardinality(S) = 3
    BY <1>1, <1>4
  <2> HIDE DEF S
  <2>3. Cardinality(S \union {e}) = 4
    BY <2>1, <2>2, FS_AddElement
  <2>. QED
    BY <2>1, <2>3
\* The gate's condition on a set of so many.
<1>10. \A ts : /\ Cardinality(ts) \in 1..4 /\ c \in ts
               /\ Cardinality(ts) \notin {1, 2} => {n, u} \subseteq ts
               /\ Cardinality(ts) \notin {1, 3} => e \in ts
               /\ ts \subseteq {c, n, u, e}
               => Issuer!ExactTolerations(a, ts)
  BY SameSize DEF Issuer!ExactTolerations, c, n, u, e
<1>6. /\ Cardinality({c}) = 1 /\ Cardinality({c, n, u}) = 3
      /\ c # e => Cardinality({c, e}) = 2 /\ Cardinality({c, n, u, e}) = 4
  <2>1. Cardinality({c}) = 1
    BY <1>2
  <2>2. Cardinality({c, n, u}) = 3
    BY <1>1, <1>4, Zenon
  <2>3. c # e => Cardinality({c, e}) = 2
    BY <1>3, Zenon
  <2>. QED
    BY <1>5, <2>1, <2>2, <2>3
<1>11. CASE more = {}
  <2>1. {c} \union more = {c}
    BY <1>11
  <2>2. Issuer!ExactTolerations(a, {c})
    BY <1>6, <1>10
  <2>. QED
    BY <2>1, <2>2 DEF c
<1>12. CASE more = {n, u}
  <2>1. {c} \union more = {c, n, u}
    BY <1>12
  <2>2. Issuer!ExactTolerations(a, {c, n, u})
    BY <1>6, <1>10
  <2>. QED
    BY <2>1, <2>2 DEF c
<1>13. CASE more = {e}
  <2>1. {c} \union more = {c, e}
    BY <1>13
  <2>2. Issuer!ExactTolerations(a, {c, e})
    <3>1. CASE c = e
      BY <1>6, <1>10, <3>1
    <3>2. CASE c # e
      BY <1>6, <1>10, <3>2
    <3>. QED
      BY <3>1, <3>2
  <2>. QED
    BY <2>1, <2>2 DEF c
<1>14. CASE more = {n, u, e}
  <2>1. {c} \union more = {c, n, u, e}
    BY <1>14
  <2>2. Issuer!ExactTolerations(a, {c, n, u, e})
    <3>1. CASE c = e
      <4>1. {c, n, u, e} = {c, n, u}
        BY <3>1
      <4>2. Issuer!ExactTolerations(a, {c, n, u})
        BY <1>6, <1>10, <3>1
      <4>. QED
        BY <4>1, <4>2
    <3>2. CASE c # e
      BY <1>6, <1>10, <3>2
    <3>. QED
      BY <3>1, <3>2
  <2>. QED
    BY <2>1, <2>2 DEF c
<1>. QED
  BY <1>11, <1>12, <1>13, <1>14 DEF n, u, e

LEMMA OwnPods == Closed => Issuer!OwnPodsFit
<1>. SUFFICES ASSUME Closed, NEW d \in deployments, live["gate"] = d,
                     NEW pod \in Issuer!Admitted(Issuer!Envelope(d))
              PROVE  Issuer!Fits(IssuerPlans[d], IssuerPlans[d].roleName, pod)
  BY DEF Issuer!OwnPodsFit
<1> DEFINE a == IssuerPlans[d]
<1>1. d \in Issuer!Boundaries /\ Issuer!Valid(a)
  BY ResourcesAre, IssuerAssumption DEF Closed, Orderly, Issuer!Boundaries
<1>2. PICK more \in {{}, {Issuer!NotReady, Issuer!Unreachable}, {Issuer!PodEni},
                     {Issuer!NotReady, Issuer!Unreachable, Issuer!PodEni}} :
         pod = [Issuer!Envelope(d) EXCEPT !.tolerations = @ \union more]
  BY DEF Issuer!Admitted
<1>3. /\ pod.account = a.account /\ pod.labels = Issuer!Labels /\ pod.image = a.image
      /\ pod.command = a.command /\ pod.words = a.words
      /\ pod.env = Issuer!Environment(a, a.roleName) /\ pod.placement = a.placement
      /\ pod.tolerations = {Issuer!Configured(a)} \union more /\ pod.odd = {}
  BY <1>2 DEF Issuer!Envelope, Issuer!PodSpec
<1>4. Issuer!Given(pod.words) = Issuer!Expected(a.words)
  <2>1. \A i \in DOMAIN a.words : a.words[i] \notin Dotted
    BY <1>1, IssuerAssumption DEF Issuer!Boundaries
  <2>. QED
    BY <1>3, <2>1 DEF Issuer!Given, Issuer!Expected
<1>5. Issuer!ExactTolerations(a, pod.tolerations)
  <2>1. a.placement.effect = "NoSchedule"
    BY <1>1 DEF Issuer!Valid, Issuer!ValidPlacement
  <2>. QED
    BY <1>3, <2>1, TolerationsFit
<1>. QED
  BY <1>3, <1>4, <1>5
  DEF Issuer!Fits, Issuer!ExactEnvelope, Issuer!Restricted, Issuer!ExactVolumes

\* The rules of the security groups, one by one.
LEMMA GroupRules ==
    ASSUME NEW a, NEW host \in Hosts, NEW port
    PROVE  /\ \A p : Issuer!GroupsOpen(a, host, p, port) <=>
                 \/ p = "tcp" /\ port = 443 /\ \E e \in Issuer!Endpoints : a.endpointSgs[e] = host.sg
                 \/ p \in Issuer!Protocols /\ port = 53
                    /\ (host.sg = a.clusterDns.sg \/ host.cidr \in a.resolvers)
           /\ Issuer!GroupsAdmit(a, host, port) <=> host.sg = a.caller.sg /\ port = a.port
<1>1. host.sg # Issuer!IssuerSg
  BY IssuerAssumption
<1>2. \A from, to, p, n, from2, to2, p2, n2 :
         Issuer!Rule(from, to, p, n) = Issuer!Rule(from2, to2, p2, n2)
            <=> from = from2 /\ to = to2 /\ p = p2 /\ n = n2
  BY DEF Issuer!Rule
<1>3. \A p : Issuer!Rule(Issuer!IssuerSg, host.sg, p, port) \in Issuer!LinkedRules(a) <=>
         \/ p = "tcp" /\ port = 443 /\ \E e \in Issuer!Endpoints : a.endpointSgs[e] = host.sg
         \/ p \in Issuer!Protocols /\ port = 53 /\ host.sg = a.clusterDns.sg
  BY <1>1, <1>2 DEF Issuer!LinkedRules
<1>4. \A p : (\E c \in a.resolvers : c = host.cidr
                 /\ Issuer!Rule(Issuer!IssuerSg, c, p, port) \in Issuer!ResolverRules(a))
               <=> p \in Issuer!Protocols /\ port = 53 /\ host.cidr \in a.resolvers
  BY <1>2 DEF Issuer!ResolverRules
<1>5. Issuer!Rule(host.sg, Issuer!IssuerSg, "tcp", port) \in Issuer!LinkedRules(a) <=>
         host.sg = a.caller.sg /\ port = a.port
  BY <1>1, <1>2 DEF Issuer!LinkedRules
<1>. QED
  BY <1>3, <1>4, <1>5 DEF Issuer!GroupsOpen, Issuer!GroupsAdmit

LEMMA NetworkFits == Closed => Issuer!NetworkFitsAuthority
<1>. SUFFICES ASSUME Closed, op = "cleanup"
              PROVE  Issuer!NetworkFitsAuthority
  BY DEF Issuer!NetworkFitsAuthority
<1> DEFINE a == IssuerPlans[goal]
<1>1. goal \in DOMAIN IssuerPlans /\ Issuer!Valid(a) /\ Issuer!ValidArns(a)
  <2>1. live["gate"] = goal /\ goal \in DOMAIN IssuerPlans
    BY ResourcesAre DEF Closed, Orderly, Issuer!Boundaries
  <2>2. goal # Issuer!None
    BY <2>1, IssuerAssumption
  <2>. QED
    BY <2>1, <2>2, ResourcesAre DEF Closed, Orderly, Issuer!NeedArns
<1> HIDE DEF a
<1>2. ASSUME NEW host \in Hosts, NEW port \in {53, 443, a.port}
      PROVE  /\ \A p \in Issuer!Protocols :
                   Issuer!Opens(a, host, p, port) <=> <<p, port>> \in Issuer!Serves(a, host)
             /\ Issuer!GroupsAdmit(a, host, port) /\ Issuer!PolicyAdmits(a, host, port) <=>
                   host.sg = a.caller.sg /\ Issuer!Selects(a.caller, host) /\ port = a.port
  <2>1. \A p \in Issuer!Protocols : <<p, port>> \in Issuer!Serves(a, host) <=>
           \/ Issuer!NameServer(a, host) /\ port = 53
           \/ Issuer!Endpoint(a, host) /\ p = "tcp" /\ port = 443
    BY DEF Issuer!Serves, Issuer!Protocols
  <2>2. \A p \in Issuer!Protocols : Issuer!Opens(a, host, p, port) <=>
           \/ Issuer!NameServer(a, host) /\ port = 53
           \/ Issuer!Endpoint(a, host) /\ p = "tcp" /\ port = 443
    BY GroupRules DEF Issuer!Opens, Issuer!PolicyOpens, Issuer!NameServer, Issuer!Endpoint
  <2>. QED
    BY <2>1, <2>2, GroupRules DEF Issuer!PolicyAdmits
<1>3. \A service \in {"sts"} \union {c.resource.service : c \in Issuer!Authority(a)} :
         \E host \in Hosts : host.service = service /\ Issuer!Opens(a, host, "tcp", 443)
  <2>1. \A c \in Issuer!Authority(a) :
           c.resource.service \in {"kms", "dynamodb", "secretsmanager"}
    BY <1>1 DEF Issuer!ValidArns, Issuer!ExactArn, Issuer!Authority, Issuer!Cell
  <2>2. \A service \in {"sts", "kms", "dynamodb", "secretsmanager"} :
           \E host \in Hosts : host.service = service /\ Issuer!Endpoint(a, host)
    BY <1>1, IssuerAssumption DEF a
  <2>3. \A host \in Hosts : Issuer!Endpoint(a, host) => Issuer!Opens(a, host, "tcp", 443)
    BY GroupRules DEF Issuer!Opens, Issuer!PolicyOpens, Issuer!Endpoint
  <2>. QED
    BY <2>1, <2>2, <2>3
<1>. QED
  BY <1>2, <1>3 DEF Issuer!NetworkFitsAuthority, a

\* The issuer of WorkloadCapabilityIssuerBoundary, for any plans, network and number of
\* Pods, deployments, interruptions and activations: it is closed by its gate and its
\* network in every state of its rollouts, and to no Pod of its own.
THEOREM Closes == Spec => []IssuersAreClosed
<1>1. Closed => Issuer!IdentityIsGuarded
  BY DEF Closed, Guarded, Issuer!IdentityIsGuarded
<1>2. Closed => IssuersAreClosed
  BY <1>1, OwnPods, NetworkFits DEF IssuersAreClosed, Issuer!IssuersAreClosed
<1>. QED
  BY <1>2, ClosedInvariant, PTL

-----------------------------------------------------------------------------
(***************************************************************************)
(* Trust in jobs                                                           *)
(***************************************************************************)
\* The recursion of FlattenSeq has a solution, which is what it chooses.
Flattens(f, s, m) == f = [i \in 1..m |-> IF i = 1 THEN s[i] ELSE f[i - 1] \o s[i]]

LEMMA SomeFlattens ==
    ASSUME NEW s, NEW n \in Nat
    PROVE  \E f : Flattens(f, s, n)
<1>. DEFINE S == {m \in Nat : \E f : Flattens(f, s, m)}
<1>1. 0 \in S
  <2>1. Flattens([i \in 1..0 |-> 0], s, 0)
    BY DEF Flattens
  <2>. QED
    BY <2>1
<1>2. ASSUME NEW m \in Nat, m \in S  PROVE m + 1 \in S
  <2>1. PICK f : Flattens(f, s, m)
    BY <1>2
  <2>. DEFINE g == [i \in 1..(m + 1) |-> IF i = 1 THEN s[i] ELSE f[i - 1] \o s[i]]
  <2>2. ASSUME NEW i \in 1..m  PROVE g[i] = f[i]
    <3>1. f[i] = IF i = 1 THEN s[i] ELSE f[i - 1] \o s[i]
      BY <2>1 DEF Flattens
    <3>2. i \in 1..(m + 1)
      OBVIOUS
    <3>. QED
      BY <3>1, <3>2
  <2>. HIDE DEF g
  <2>3. ASSUME NEW i \in 1..(m + 1), i # 1  PROVE g[i - 1] = f[i - 1]
    <3>1. i - 1 \in 1..m
      BY <2>3
    <3>. QED
      BY <3>1, <2>2
  <2>4. Flattens(g, s, m + 1)
    BY <2>3 DEF Flattens, g
  <2>. QED
    BY <2>4
<1>. HIDE DEF S
<1>3. S = Nat
  BY <1>1, <1>2, NatSetInduction DEF S
<1>. QED
  BY <1>3 DEF S

LEMMA FlattenIs ==
    ASSUME NEW s, Len(s) \in Nat \ {0}
    PROVE  \E f : Flattens(f, s, Len(s)) /\ Trust!FlattenSeq(s) = f[Len(s)]
<1>. DEFINE c == CHOOSE f : Flattens(f, s, Len(s))
<1>1. Flattens(c, s, Len(s))
  BY SomeFlattens
<1>2. Trust!FlattenSeq(s) = c[Len(s)]
  BY DEF Trust!FlattenSeq, Flattens
<1>. QED
  BY <1>1, <1>2

ClaimKeys == {"repo", "job_workflow_ref", "environment", "ref"}
TemplateKeys == {"repo", "job_workflow_ref", "environment", "ref", "context"}

\* What a job's token says under a key.
ValueOf(job, key) == Trust!Part(key, job)[2]

\* The keys that a subject names at the places of keys are followed by the job's values.
Truthful(subject, job) ==
    \A i \in Nat \ {0} : 2 * i <= Len(subject) /\ subject[2 * i - 1] \in ClaimKeys =>
       subject[2 * i] = ValueOf(job, subject[2 * i - 1])

\* A part that is no pair comes with jobs that have no environment, and then what is
\* left over is no key.
Even(n) == \E k \in Nat : n = 2 * k

Said(job) == {"pull_request"} \cup ClaimKeys \cup {ValueOf(job, k) : k \in ClaimKeys}

Told(subject, job) ==
    /\ subject \in Seq(Said(job))
    /\ Truthful(subject, job)
    /\ Even(Len(subject)) \/ (job.environment = Trust!Blank /\ subject[Len(subject)] \notin ClaimKeys)

\* The parts of a subject.
LEMMA Parts ==
    ASSUME NEW j \in Jobs, NEW k \in TemplateKeys
    PROVE  \/ \E key \in ClaimKeys : Trust!Part(k, j) = <<key, ValueOf(j, key)>>
              /\ (j.environment = Trust!Blank => ValueOf(j, key) \notin ClaimKeys)
           \/ Trust!Part(k, j) = <<"pull_request">> /\ j.environment = Trust!Blank
<1>1. {j.repo, j.workflow, j.ref, Trust!Blank} \cap ClaimKeys = {}
  BY TrustAssumption DEF ClaimKeys
<1>2. /\ ValueOf(j, "repo") = j.repo /\ ValueOf(j, "job_workflow_ref") = j.workflow
      /\ ValueOf(j, "environment") = j.environment /\ ValueOf(j, "ref") = j.ref
      /\ Trust!Part("repo", j) = <<"repo", j.repo>>
      /\ Trust!Part("job_workflow_ref", j) = <<"job_workflow_ref", j.workflow>>
      /\ Trust!Part("environment", j) = <<"environment", j.environment>>
      /\ Trust!Part("ref", j) = <<"ref", j.ref>>
  BY DEF ValueOf, Trust!Part
<1>3. \/ Trust!Part("context", j) = <<"environment", j.environment>> /\ j.environment # Trust!Blank
      \/ Trust!Part("context", j) = <<"pull_request">> /\ j.environment = Trust!Blank
      \/ Trust!Part("context", j) = <<"ref", j.ref>>
  BY DEF Trust!Part
<1>. QED
  BY <1>1, <1>2, <1>3 DEF ClaimKeys, TemplateKeys

LEMMA OnePair ==
    ASSUME NEW j, NEW f, Told(f, j), NEW key \in ClaimKeys,
           j.environment = Trust!Blank => ValueOf(j, key) \notin ClaimKeys
    PROVE  Told(f \o <<key, ValueOf(j, key)>>, j)
<1>. DEFINE v == ValueOf(j, key)  p == <<key, v>>  g == f \o p  n == Len(f)
<1>1. f \in Seq(Said(j)) /\ p \in Seq(Said(j)) /\ n \in Nat
  BY DEF Told, Said
<1>2. /\ g \in Seq(Said(j)) /\ Len(g) = n + 2
      /\ \A i \in 1..n : g[i] = f[i]
      /\ g[n + 1] = key /\ g[n + 2] = v
  BY <1>1
<1>3. \/ Even(n)
      \/ j.environment = Trust!Blank /\ f[n] \notin ClaimKeys
  BY DEF Told
<1>4. ASSUME NEW i \in Nat \ {0}, 2 * i <= Len(g), g[2 * i - 1] \in ClaimKeys
      PROVE  g[2 * i] = ValueOf(j, g[2 * i - 1])
  <2>1. CASE 2 * i <= n
    BY <2>1, <1>1, <1>2, <1>4 DEF Told, Truthful
  <2>2. CASE 2 * i = n + 1
    <3>1. ~ Even(n)
      BY <2>2, <1>1 DEF Even
    <3>2. g[2 * i - 1] = f[n]
      BY <2>2, <1>1, <1>2
    <3>. QED
      BY <3>1, <3>2, <1>3, <1>4
  <2>3. CASE 2 * i = n + 2
    BY <2>3, <1>1, <1>2
  <2>. QED
    BY <2>1, <2>2, <2>3, <1>1, <1>2, <1>4
<1>5. CASE Even(n)
  <2>1. PICK k \in Nat : n = 2 * k
    BY <1>5 DEF Even
  <2>2. n + 2 = 2 * (k + 1) /\ k + 1 \in Nat
    BY <2>1
  <2>3. Even(Len(g))
    BY <2>2, <1>2 DEF Even
  <2>. QED
    BY <2>3, <1>2, <1>4 DEF Told, Truthful
<1>6. CASE ~ Even(n)
  <2>1. j.environment = Trust!Blank /\ g[Len(g)] \notin ClaimKeys
    BY <1>6, <1>3, <1>2
  <2>. QED
    BY <2>1, <1>2, <1>4 DEF Told, Truthful
<1>. QED
  BY <1>5, <1>6

LEMMA NoPair ==
    ASSUME NEW j, NEW f, Told(f, j), j.environment = Trust!Blank
    PROVE  Told(f \o <<"pull_request">>, j)
<1>. DEFINE p == <<"pull_request">>  g == f \o p  n == Len(f)
<1>1. f \in Seq(Said(j)) /\ p \in Seq(Said(j)) /\ n \in Nat
  BY DEF Told, Said
<1>2. /\ g \in Seq(Said(j)) /\ Len(g) = n + 1
      /\ \A i \in 1..n : g[i] = f[i]
      /\ g[n + 1] = "pull_request"
  BY <1>1
<1>3. \/ Even(n)
      \/ f[n] \notin ClaimKeys
  BY DEF Told
<1>4. ASSUME NEW i \in Nat \ {0}, 2 * i <= Len(g), g[2 * i - 1] \in ClaimKeys
      PROVE  g[2 * i] = ValueOf(j, g[2 * i - 1])
  <2>1. CASE 2 * i <= n
    BY <2>1, <1>1, <1>2, <1>4 DEF Told, Truthful
  <2>2. CASE 2 * i = n + 1
    <3>1. ~ Even(n)
      BY <2>2, <1>1 DEF Even
    <3>2. g[2 * i - 1] = f[n]
      BY <2>2, <1>1, <1>2
    <3>. QED
      BY <3>1, <3>2, <1>3, <1>4
  <2>. QED
    BY <2>1, <2>2, <1>1, <1>2, <1>4
<1>5. g[Len(g)] \notin ClaimKeys
  BY <1>2 DEF ClaimKeys
<1>. QED
  BY <1>2, <1>4, <1>5 DEF Told, Truthful

LEMMA OnePart ==
    ASSUME NEW j \in Jobs, NEW k \in TemplateKeys, NEW f, Told(f, j)
    PROVE  Told(f \o Trust!Part(k, j), j)
BY Parts, OnePair, NoPair

LEMMA FirstPart ==
    ASSUME NEW j \in Jobs, NEW k \in TemplateKeys
    PROVE  Told(Trust!Part(k, j), j)
<1>1. Told(<< >>, j)
  BY DEF Told, Truthful, Even
<1>2. Told(<< >> \o Trust!Part(k, j), j)
  BY <1>1, OnePart
<1>3. << >> \o Trust!Part(k, j) = Trust!Part(k, j)
  BY Parts
<1>. QED
  BY <1>2, <1>3

\* Whatever its template: what the subject of a job says of it is true.
LEMMA SubjectsAreTold ==
    ASSUME NEW j \in Jobs, templates[j.repo] \in Templates
    PROVE  Told(Trust!Subject(j), j)
<1>. DEFINE t == templates[j.repo]  s == [i \in DOMAIN t |-> Trust!Part(t[i], j)]
<1>1. t \in Seq(TemplateKeys)
  BY TrustAssumption DEF TemplateKeys
<1>2. /\ s \in Seq({Trust!Part(k, j) : k \in TemplateKeys}) /\ Len(s) = Len(t)
      /\ DOMAIN s = 1..Len(t) /\ Len(t) \in Nat
      /\ \A i \in 1..Len(t) : t[i] \in TemplateKeys /\ s[i] = Trust!Part(t[i], j)
  BY <1>1
<1>3. Trust!Subject(j) = Trust!FlattenSeq(s)
  BY DEF Trust!Subject
<1>. HIDE DEF s, t
<1>4. CASE Len(t) = 0
  <2>1. s = << >> /\ Trust!FlattenSeq(s) = << >>
    BY <1>2, <1>4 DEF Trust!FlattenSeq
  <2>2. Told(<< >>, j)
    BY DEF Told, Truthful, Even
  <2>. QED
    BY <2>1, <2>2, <1>3
<1>5. CASE Len(t) # 0
  <2>1. PICK f : Flattens(f, s, Len(s)) /\ Trust!FlattenSeq(s) = f[Len(s)]
    BY <1>2, <1>5, FlattenIs
  <2>2. \A i \in 1..Len(t) : f[i] = IF i = 1 THEN s[i] ELSE f[i - 1] \o s[i]
    BY <2>1, <1>2 DEF Flattens
  <2>. DEFINE S == {m \in Nat : m + 1 \in 1..Len(t) => Told(f[m + 1], j)}
  <2>3. 0 \in S
    BY <2>2, <1>2, FirstPart
  <2>4. ASSUME NEW m \in Nat, m \in S  PROVE m + 1 \in S
    <3>. SUFFICES ASSUME (m + 1) + 1 \in 1..Len(t)  PROVE Told(f[(m + 1) + 1], j)
      OBVIOUS
    <3>1. m + 1 \in 1..Len(t) /\ Told(f[m + 1], j)
      BY <2>4, <1>2
    <3>2. (m + 1) + 1 # 1 /\ ((m + 1) + 1) - 1 = m + 1
      OBVIOUS
    <3>3. f[(m + 1) + 1] = f[m + 1] \o Trust!Part(t[(m + 1) + 1], j)
      BY <3>2, <2>2, <1>2
    <3>. QED
      BY <3>1, <3>3, <1>2, OnePart
  <2>. HIDE DEF S
  <2>5. S = Nat
    BY <2>3, <2>4, NatSetInduction DEF S
  <2>6. Len(t) - 1 \in Nat /\ (Len(t) - 1) + 1 = Len(t) /\ Len(t) \in 1..Len(t)
    BY <1>2, <1>5
  <2>7. Told(f[Len(t)], j)
    BY <2>5, <2>6 DEF S
  <2>. QED
    BY <2>7, <2>1, <1>2, <1>3
<1>. QED
  BY <1>4, <1>5

\* What a subject that parses says, of the jobs whose subject it is.
LEMMA ClaimsAreTrue ==
    ASSUME NEW j, NEW subject, Told(subject, j)
    PROVE  \A c \in Trust!Claims(subject) : c[1] \in ClaimKeys => c[2] = ValueOf(j, c[1])
<1>. SUFFICES ASSUME NEW c \in Trust!Claims(subject), c[1] \in ClaimKeys
              PROVE  c[2] = ValueOf(j, c[1])
  OBVIOUS
<1>1. Len(subject) \in Nat
  BY DEF Told
<1>2. PICK i \in 1..(Len(subject) \div 2) : c = <<subject[2 * i - 1], subject[2 * i]>>
  BY DEF Trust!Claims
<1>3. i \in Nat \ {0} /\ 2 * i <= Len(subject)
  BY <1>1, <1>2
<1>. QED
  BY <1>2, <1>3 DEF Told, Truthful

LEMMA TrustCounts == \A S : Trust!Cardinality(S) = Cardinality(S)
BY DEF Trust!Cardinality, Cardinality

\* A statement's door says of each job that it lets in what one subject, or one
\* condition, says.
SaysAll(subject, job) ==
    /\ \A c \in Trust!Claims(subject) : c[1] \in ClaimKeys => c[2] = ValueOf(job, c[1])
    /\ \E k \in {"environment", "ref"} : {"repo", "job_workflow_ref", k} \subseteq Trust!Named(subject)

LetIn(s) ==
    /\ s.of[1] \in {"role", "azure", "gcp"}
    /\ s.of[1] = "role" =>
          \E x \in Trust!OnSubject(s.door) : \E v \in x.values :
             Trust!OnSubject(s.door) = {x} /\ x.values = {v} /\ SaysAll(v, s.job)
    /\ s.of[1] = "azure" => SaysAll(s.door, s.job)
    /\ s.of[1] = "gcp" =>
          /\ Trust!ConditionExact(s.door)
          /\ \A i \in DOMAIN s.door.clauses : \E e \in s.door.clauses[i] :
                Trust!AlternativeHolds(e, s.job)

LEMMA SameSubject ==
    ASSUME NEW j, NEW k, NEW subject, SaysAll(subject, j), SaysAll(subject, k)
    PROVE  Trust!OneOrigin(j, k)
<1>1. PICK key \in {"environment", "ref"} :
         {"repo", "job_workflow_ref", key} \subseteq Trust!Named(subject)
  BY DEF SaysAll
<1>2. ASSUME NEW n \in {"repo", "job_workflow_ref", key}
      PROVE  ValueOf(j, n) = ValueOf(k, n)
  <2>1. PICK c \in Trust!Claims(subject) : c[1] = n
    BY <1>1 DEF Trust!Named
  <2>2. n \in ClaimKeys
    BY DEF ClaimKeys
  <2>. QED
    BY <2>1, <2>2 DEF SaysAll
<1>. QED
  BY <1>2 DEF ValueOf, Trust!Part, Trust!OneOrigin

LEMMA SameCondition ==
    ASSUME NEW j, NEW k, NEW condition, Trust!ConditionExact(condition),
           \A i \in DOMAIN condition.clauses : \E e \in condition.clauses[i] :
              Trust!AlternativeHolds(e, j),
           \A i \in DOMAIN condition.clauses : \E e \in condition.clauses[i] :
              Trust!AlternativeHolds(e, k)
    PROVE  Trust!OneOrigin(j, k)
<1>1. ASSUME NEW a \in {"repository", "job_workflow_ref", "environment"}
      PROVE  Trust!Claim(j, a) = Trust!Claim(k, a)
  <2>1. PICK i \in DOMAIN condition.clauses : \E e \in condition.clauses[i] : e.assertion = a
    BY DEF Trust!ConditionExact, Trust!Bound
  <2>2. PICK e \in condition.clauses[i] : condition.clauses[i] = {e} /\ e.operator = "=="
    BY DEF Trust!ConditionExact, Trust!Single
  <2>3. e.assertion = a /\ Trust!AlternativeHolds(e, j) /\ Trust!AlternativeHolds(e, k)
    BY <2>1, <2>2
  <2>. QED
    BY <2>2, <2>3 DEF Trust!AlternativeHolds
<1>. QED
  BY <1>1 DEF Trust!Claim, Trust!OneOrigin

LEMMA OneOriginEach ==
    ASSUME NEW s, NEW t, LetIn(s), LetIn(t), s.of = t.of, s.door = t.door
    PROVE  Trust!OneOrigin(s.job, t.job)
<1>1. CASE s.of[1] = "role"
  <2>x. PICK x \in Trust!OnSubject(s.door) : \E v \in x.values :
           Trust!OnSubject(s.door) = {x} /\ x.values = {v} /\ SaysAll(v, s.job)
    BY <1>1 DEF LetIn
  <2>1. PICK v \in x.values :
           Trust!OnSubject(s.door) = {x} /\ x.values = {v} /\ SaysAll(v, s.job)
    BY <2>x
  <2>y. PICK y \in Trust!OnSubject(t.door) : \E w \in y.values :
           Trust!OnSubject(t.door) = {y} /\ y.values = {w} /\ SaysAll(w, t.job)
    BY <1>1 DEF LetIn
  <2>2. PICK w \in y.values :
           Trust!OnSubject(t.door) = {y} /\ y.values = {w} /\ SaysAll(w, t.job)
    BY <2>y
  <2>3. v = w
    BY <2>1, <2>2
  <2>. QED
    BY <2>1, <2>2, <2>3, SameSubject
<1>2. CASE s.of[1] = "azure"
  BY <1>2, SameSubject DEF LetIn
<1>3. CASE s.of[1] = "gcp"
  BY <1>3, SameCondition DEF LetIn
<1>. QED
  BY <1>1, <1>2, <1>3 DEF LetIn

\* The job that comes in by a door of a resource that G_OIDC_1 let pass.
LEMMA DoorsAreExact ==
    ASSUME NEW r \in Trust!AllResources, Trust!G_OIDC_1(r, TRUE), NEW j \in Jobs,
           templates[j.repo] \in Templates, NEW door \in Trust!Doors(r, j), NEW e
    PROVE  LetIn([job |-> j, of |-> Trust!Urn(r), door |-> door, excused |-> e])
<1>. DEFINE subject == Trust!Subject(j)
     s == [job |-> j, of |-> Trust!Urn(r), door |-> door, excused |-> e]
<1>1. \A c \in Trust!Claims(subject) : c[1] \in ClaimKeys => c[2] = ValueOf(j, c[1])
  BY SubjectsAreTold, ClaimsAreTrue
<1>2. s.of[1] = r.type /\ s.door = door /\ s.job = j
  BY DEF Trust!Urn
<1>. HIDE DEF s
<1>3. CASE r.type = "role"
  <2>1. Trust!TrustExact(r.trust)
    BY <1>3 DEF Trust!G_OIDC_1
  <2>2. /\ door \in r.trust.statements /\ Trust!OfGitHub(door)
        /\ \A x \in door.restrictions : Trust!Holds(x, subject)
    BY <1>3 DEF Trust!Doors
  <2>3. PICK x \in Trust!OnSubject(door) :
           /\ Trust!OnSubject(door) = {x} /\ x.operator = "StringEquals" /\ x.scalar
           /\ \A value \in x.values : Trust!ExactAwsSubject(value)
    BY <2>1, <2>2 DEF Trust!TrustExact
  <2>4. x \in door.restrictions /\ x.key = "sub"
    BY DEF Trust!OnSubject
  <2>5. subject \in x.values
    BY <2>2, <2>3, <2>4 DEF Trust!Holds
  <2>6. PICK v \in x.values : x.values = {v}
    BY <1>3, <2>2, <2>3, <2>4, TrustAssumption DEF Trust!OfType
  <2>7. v = subject /\ Trust!ExactAwsSubject(v)
    BY <2>3, <2>5, <2>6
  <2>8. \E k \in {"environment", "ref"} : k \in Trust!Named(v)
    <3>1. Trust!Cardinality({"environment", "ref"} \cap Trust!Named(v)) = 1
      BY <2>7 DEF Trust!ExactAwsSubject
    <3>2. {"environment", "ref"} \cap Trust!Named(v) # {}
      BY <3>1, TrustCounts, FS_EmptySet
    <3>. QED
      BY <3>2
  <2>9. SaysAll(v, j)
    BY <1>1, <2>7, <2>8 DEF SaysAll, Trust!ExactAwsSubject
  <2>. QED
    BY <1>2, <1>3, <2>3, <2>6, <2>9 DEF LetIn, s
<1>4. CASE r.type = "azure"
  <2>1. door = subject /\ Trust!BoundSubject(door)
    BY <1>4 DEF Trust!Doors, Trust!G_OIDC_1
  <2>2. SaysAll(door, j)
    BY <2>1, <1>1 DEF SaysAll, Trust!BoundSubject
  <2>. QED
    BY <1>2, <1>4, <2>2 DEF LetIn, s
<1>5. CASE r.type = "gcp"
  BY <1>2, <1>5 DEF Trust!Doors, Trust!G_OIDC_1, LetIn, s
<1>. QED
  BY <1>3, <1>4, <1>5 DEF Trust!Doors

\* The inductive invariant of deployments and sessions: the engine brings about what
\* passed; what is not excused is exact, and so is how jobs came in; a deployment
\* that ended well left what passed the review of the stack.
Bounded ==
    /\ deployed \subseteq Trust!AllResources
    /\ deploying = "up" => wanted \in DOMAIN TrustingPrograms
    /\ templates \in [Trust!RepositoriesOfJobs -> Templates]
    /\ \A r \in deployed : Trust!Urn(r) \notin excused => Trust!G_OIDC_1(r, TRUE)
    /\ deploying = "none" /\ outcome = "ok" /\ Trust!Stack \notin excused =>
          Trust!G_OIDC_2(deployed)
    /\ \A s \in sessions : ~ s.excused => LetIn(s)

LEMMA BoundedInit == Trust!Init => Bounded
BY DEF Trust!Init, Bounded

LEMMA RegisterKeeps ==
    ASSUME Bounded, deploying = "up", NEW r \in Trust!Resources(wanted), Trust!Register(r)
    PROVE  Bounded'
<1>1. r \in Trust!AllResources
  BY DEF Bounded, Trust!AllResources
<1>2. /\ wanted' = wanted /\ templates' = templates /\ sessions' = sessions
  BY DEF Trust!Register
<1>3. CASE Trust!Passes(r, TRUE, Trust!Excuses(wanted), clock)
  <2>1. /\ deployed' = Trust!Others(r) \cup {r} /\ deploying' = deploying
        /\ excused' = (excused \ {Trust!Urn(r)}) \cup
              {u \in {Trust!Urn(r)} :
                 Trust!Suppressed("G_OIDC_1", u, Trust!Excuses(wanted), clock)}
    BY <1>3 DEF Trust!Register
  <2>2. ASSUME NEW d \in deployed', Trust!Urn(d) \notin excused'
        PROVE  Trust!G_OIDC_1(d, TRUE)
    <3>1. CASE Trust!Urn(d) = Trust!Urn(r)
      <4>1. d = r
        BY <2>1, <3>1 DEF Trust!Others
      <4>2. ~ Trust!Suppressed("G_OIDC_1", Trust!Urn(r), Trust!Excuses(wanted), clock)
        BY <2>1, <2>2, <4>1
      <4>. QED
        BY <1>3, <4>1, <4>2 DEF Trust!Passes
    <3>2. CASE Trust!Urn(d) # Trust!Urn(r)
      BY <2>1, <2>2, <3>2 DEF Trust!Others, Bounded
    <3>. QED
      BY <3>1, <3>2
  <2>3. deployed' \subseteq Trust!AllResources
    BY <1>1, <2>1 DEF Bounded, Trust!Others
  <2>. QED
    BY <1>2, <2>1, <2>2, <2>3 DEF Bounded
<1>4. CASE ~ Trust!Passes(r, TRUE, Trust!Excuses(wanted), clock)
  <2>1. deploying' = "none" /\ outcome' = "failed" /\ UNCHANGED <<deployed, excused>>
    BY <1>4 DEF Trust!Register
  <2>. QED
    BY <1>2, <2>1 DEF Bounded
<1>. QED
  BY <1>3, <1>4

LEMMA FinishKeeps ==
    ASSUME Bounded, Trust!Finish
    PROVE  Bounded'
<1>1. /\ deploying = "up" /\ deploying' = "none" /\ wanted' = wanted
      /\ deployed' = Trust!Resources(wanted) /\ Trust!Resources(wanted) \subseteq deployed
      /\ templates' = templates /\ sessions' = sessions
      /\ outcome' = IF Trust!StackPasses(Trust!Resources(wanted), Trust!Excuses(wanted), clock)
                    THEN "ok" ELSE "failed"
      /\ excused' = (excused \ {Trust!Stack}) \cup
            {u \in {Trust!Stack} :
               Trust!Suppressed("G_OIDC_2", u, Trust!Excuses(wanted), clock)}
  BY DEF Trust!Finish
<1>2. ASSUME NEW d \in deployed', Trust!Urn(d) \notin excused'
      PROVE  Trust!G_OIDC_1(d, TRUE)
  <2>1. CASE Trust!Urn(d) = Trust!Stack
    BY <2>1 DEF Trust!Urn, Trust!Stack, Trust!G_OIDC_1
  <2>2. CASE Trust!Urn(d) # Trust!Stack
    BY <1>1, <1>2, <2>2 DEF Bounded
  <2>. QED
    BY <2>1, <2>2
<1>3. ASSUME outcome' = "ok", Trust!Stack \notin excused'
      PROVE  Trust!G_OIDC_2(deployed')
  <2>1. ~ Trust!Suppressed("G_OIDC_2", Trust!Stack, Trust!Excuses(wanted), clock)
    BY <1>1, <1>3
  <2>2. Trust!StackPasses(Trust!Resources(wanted), Trust!Excuses(wanted), clock)
    BY <1>1, <1>3
  <2>. QED
    BY <1>1, <2>1, <2>2 DEF Trust!StackPasses
<1>. QED
  BY <1>1, <1>2, <1>3 DEF Bounded

LEMMA AssumeKeeps ==
    ASSUME Bounded, Trust!Assume
    PROVE  Bounded'
<1>1. PICK r \in deployed, j \in Jobs : \E door \in Trust!Doors(r, j) :
         sessions' = sessions \cup
            {[job |-> j, of |-> Trust!Urn(r), door |-> door, excused |-> Trust!Urn(r) \in excused]}
  BY DEF Trust!Assume
<1>2. PICK door \in Trust!Doors(r, j) :
         sessions' = sessions \cup
            {[job |-> j, of |-> Trust!Urn(r), door |-> door, excused |-> Trust!Urn(r) \in excused]}
  BY <1>1
<1>3. UNCHANGED <<deployed, wanted, deploying, outcome, excused, templates>>
  BY DEF Trust!Assume
<1>4. r \in Trust!AllResources /\ templates[j.repo] \in Templates
  BY DEF Bounded, Trust!RepositoriesOfJobs
<1>5. Trust!Urn(r) \notin excused =>
         LetIn([job |-> j, of |-> Trust!Urn(r), door |-> door,
                excused |-> Trust!Urn(r) \in excused])
  BY <1>4, DoorsAreExact DEF Bounded
<1>. DEFINE new == [job |-> j, of |-> Trust!Urn(r), door |-> door,
                     excused |-> Trust!Urn(r) \in excused]
<1>a. sessions' = sessions \cup {new} /\ new.excused = (Trust!Urn(r) \in excused)
  BY <1>2
<1>b. ~ new.excused => LetIn(new)
  BY <1>a, <1>5
<1>. HIDE DEF new
<1>6. \A s \in sessions' : ~ s.excused => LetIn(s)
  BY <1>a, <1>b DEF Bounded
<1>. QED
  BY <1>3, <1>6 DEF Bounded

LEMMA BoundedStep ==
    ASSUME Bounded, [Trust!Next]_trustVars
    PROVE  Bounded'
<1>1. CASE Trust!Up
  <2>1. /\ UNCHANGED <<deployed, excused, templates, sessions>>
        /\ \/ deploying' = "up" /\ wanted' \in DOMAIN TrustingPrograms
           \/ deploying' = "none" /\ outcome' = "refused"
    BY <1>1 DEF Trust!Up
  <2>. QED
    BY <2>1 DEF Bounded
<1>2. CASE Trust!Finish
  BY <1>2, FinishKeeps
<1>3. CASE Trust!Interrupt
  BY <1>3 DEF Trust!Interrupt, Bounded
<1>4. CASE Trust!Tick
  BY <1>4 DEF Trust!Tick, Bounded
<1>5. CASE Trust!ChangeTemplate
  BY <1>5 DEF Trust!ChangeTemplate, Bounded
<1>6. CASE Trust!Assume
  BY <1>6, AssumeKeeps
<1>7. ASSUME deploying = "up", NEW r \in Trust!Resources(wanted), Trust!Register(r)
      PROVE  Bounded'
  BY <1>7, RegisterKeeps
<1>8. CASE UNCHANGED trustVars
  BY <1>8 DEF trustVars, Bounded
<1>. QED
  BY <1>1, <1>2, <1>3, <1>4, <1>5, <1>6, <1>7, <1>8 DEF Trust!Next

\* No document that passes says everything.
LEMMA NotEverything ==
    ASSUME NEW s, s.effect = "Allow", ~ s.complement,
           Trust!Wild \notin s.actions \/ Trust!Wild \notin s.resources,
           ~ ({"a1", "a2"} \subseteq s.actions), ~ ({"r1", "r2"} \subseteq s.resources)
    PROVE  Trust!Allows(s) # Trust!Everything
<1>1. /\ Trust!Allows(s) = Trust!Members(s.actions, {"a1", "a2"})
                           \X Trust!Members(s.resources, {"r1", "r2"})
      /\ Trust!Everything = {"a1", "a2"} \X {"r1", "r2"}
  BY DEF Trust!Allows, Trust!Everything
<1>2. CASE Trust!Wild \notin s.actions
  <2>1. PICK a \in {"a1", "a2"} : a \notin s.actions
    OBVIOUS
  <2>2. a \notin Trust!Members(s.actions, {"a1", "a2"})
    BY <1>2, <2>1 DEF Trust!Members
  <2>3. <<a, "r1">> \in Trust!Everything /\ <<a, "r1">> \notin Trust!Allows(s)
    BY <1>1, <2>2
  <2>. QED
    BY <2>3
<1>3. CASE Trust!Wild \notin s.resources
  <2>1. PICK r \in {"r1", "r2"} : r \notin s.resources
    OBVIOUS
  <2>2. r \notin Trust!Members(s.resources, {"r1", "r2"})
    BY <1>3, <2>1 DEF Trust!Members
  <2>3. <<"a1", r>> \in Trust!Everything /\ <<"a1", r>> \notin Trust!Allows(s)
    BY <1>1, <2>2
  <2>. QED
    BY <2>3
<1>. QED
  BY <1>2, <1>3

LEMMA SafeDocument ==
    ASSUME NEW d, Spelled(d), ~ Trust!UnsafeDocument(d)
    PROVE  ~ \E s \in d : s.effect = "Allow" /\ Trust!Allows(s) = Trust!Everything
<1>. SUFFICES ASSUME NEW s \in d, s.effect = "Allow"
              PROVE  Trust!Allows(s) # Trust!Everything
  OBVIOUS
<1>1. ~ s.complement /\ (Trust!Wild \notin s.actions \/ Trust!Wild \notin s.resources)
  BY DEF Trust!UnsafeDocument, Trust!FullAdmin, Trust!Complement
<1>. QED
  BY <1>1, NotEverything DEF Spelled

LEMMA NoAdministrators ==
    ASSUME Bounded
    PROVE  Trust!JobsAreNotAdministrators
<1>. SUFFICES ASSUME deploying = "none", outcome = "ok", Trust!Stack \notin excused,
                     NEW role \in Trust!OfType(deployed, {"role"}), NEW j \in Jobs,
                     Trust!Doors(role, j) # {}
              PROVE  ~ Trust!IsAdministrator(role)
  BY DEF Trust!JobsAreNotAdministrators
<1>1. role \in deployed /\ role.type = "role" /\ deployed \subseteq Trust!AllResources
      /\ role \in Trust!OfType(Trust!AllResources, {"role"})
  BY DEF Trust!OfType, Bounded
<1>2. \E s \in role.trust.statements : Trust!OfGitHub(s)
  BY <1>1 DEF Trust!Doors
<1>3. role \in Trust!GitHubRoles(deployed)
  BY <1>1, <1>2, TrustAssumption DEF Trust!GitHubRoles, Trust!TrustsGitHub
<1>4. /\ ~ \E p \in role.managed : Trust!UnsafeReference(p, deployed)
      /\ ~ \E d \in role.inline : Trust!UnsafeDocument(d)
      /\ ~ \E a \in Trust!Attached(role, deployed) : Trust!Grants(a, deployed)
  BY <1>3 DEF Bounded, Trust!G_OIDC_2
<1>5. /\ \A d \in role.inline : Spelled(d)
      /\ \A r \in Trust!OfType(deployed, {"policy", "rolePolicy"}) : Spelled(r.document)
  <2>1. \A d \in role.inline : Spelled(d)
    BY <1>1, TrustAssumption DEF Spelled
  <2>2. \A r \in Trust!OfType(deployed, {"policy", "rolePolicy"}) :
           r \in Trust!OfType(Trust!AllResources, {"policy", "rolePolicy"})
    BY <1>1 DEF Trust!OfType
  <2>. QED
    BY <2>1, <2>2, TrustAssumption DEF Spelled
<1>6. ASSUME NEW a \in Trust!Attached(role, deployed), a.type = "attachment"
      PROVE  \A p \in a.policies : ~ Trust!UnsafeReference(p, deployed)
  BY <1>4, <1>6 DEF Trust!Grants
<1>7. ASSUME NEW d \in Trust!Documents(role)
      PROVE  Spelled(d) /\ ~ Trust!UnsafeDocument(d)
  <2>1. CASE d \in role.inline
    BY <2>1, <1>4, <1>5
  <2>2. ASSUME NEW p \in Trust!OfType(deployed, {"policy"}), d = p.document, NEW r,
               r.to = p.name,
               r \in role.managed \/ \E a \in Trust!Attached(role, deployed) :
                                        a.type = "attachment" /\ r \in a.policies
        PROVE  Spelled(d) /\ ~ Trust!UnsafeDocument(d)
    <3>1. ~ Trust!UnsafeReference(r, deployed)
      BY <2>2, <1>4, <1>6
    <3>2. p.name \notin Trust!UnsafePolicies(deployed)
      BY <3>1, <2>2 DEF Trust!UnsafeReference
    <3>. QED
      BY <3>2, <2>2, <1>5 DEF Trust!UnsafePolicies, Trust!OfType
  <2>3. ASSUME NEW a \in Trust!Attached(role, deployed), a.type = "rolePolicy", d = a.document
        PROVE  Spelled(d) /\ ~ Trust!UnsafeDocument(d)
    BY <2>3, <1>4, <1>5 DEF Trust!Grants, Trust!Attached, Trust!OfType
  <2>. QED
    BY <1>7, <2>1, <2>2, <2>3 DEF Trust!Documents
<1>8. \A d \in Trust!Documents(role) :
         ~ \E s \in d : s.effect = "Allow" /\ Trust!Allows(s) = Trust!Everything
  BY <1>7, SafeDocument
<1>9. Trust!Administrator \notin role.managed
  BY <1>4 DEF Trust!UnsafeReference
<1>10. \A a \in Trust!Attached(role, deployed) :
          /\ a.type = "attachment" => Trust!Administrator \notin a.policies
          /\ ~ (a.type = "accessPolicy" /\ a.clusterAdmin /\ a.scope = "cluster")
  BY <1>4, <1>6 DEF Trust!UnsafeReference, Trust!Grants
<1>. QED
  BY <1>8, <1>9, <1>10 DEF Trust!IsAdministrator

\* The subjects of the documented template.
LEMMA ThreeParts ==
    ASSUME NEW j \in Jobs, templates[j.repo] = Trust!Documented
    PROVE  Trust!Subject(j) =
              (<<"repo", j.repo>> \o Trust!Part("context", j)) \o <<"job_workflow_ref", j.workflow>>
<1>. DEFINE t == <<"repo", "context", "job_workflow_ref">>
            s == [i \in DOMAIN t |-> Trust!Part(t[i], j)]
<1>1. Trust!Subject(j) = Trust!FlattenSeq(s)
  BY DEF Trust!Subject, Trust!Documented
<1>2. /\ DOMAIN t = 1..3 /\ s \in Seq({Trust!Part(k, j) : k \in TemplateKeys}) /\ Len(s) = 3
      /\ s[1] = Trust!Part("repo", j) /\ s[2] = Trust!Part("context", j)
      /\ s[3] = Trust!Part("job_workflow_ref", j)
  BY DEF TemplateKeys
<1>. HIDE DEF s
<1>3. PICK f : Flattens(f, s, Len(s)) /\ Trust!FlattenSeq(s) = f[Len(s)]
  <2>1. Len(s) \in Nat \ {0}
    BY <1>2
  <2>. QED
    BY <2>1, FlattenIs
<1>4. f[1] = s[1] /\ f[2] = f[1] \o s[2] /\ f[3] = f[2] \o s[3]
      /\ Trust!FlattenSeq(s) = f[3]
  <2>1. Flattens(f, s, 3) /\ Trust!FlattenSeq(s) = f[3]
    BY <1>2, <1>3
  <2>2. \A i \in 1..3 : f[i] = IF i = 1 THEN s[i] ELSE f[i - 1] \o s[i]
    BY <2>1 DEF Flattens
  <2>3. f[1] = s[1]
    BY <2>2
  <2>4. 2 \in 1..3 /\ 3 \in 1..3 /\ 2 # 1 /\ 3 # 1 /\ 2 - 1 = 1 /\ 3 - 1 = 2
    OBVIOUS
  <2>5. f[2] = f[2 - 1] \o s[2] /\ f[3] = f[3 - 1] \o s[3]
    BY <2>2, <2>4, Zenon
  <2>. QED
    BY <2>1, <2>3, <2>4, <2>5, Zenon
<1>5. /\ Trust!Part("repo", j) = <<"repo", j.repo>>
      /\ Trust!Part("job_workflow_ref", j) = <<"job_workflow_ref", j.workflow>>
  BY DEF Trust!Part
<1>. QED
  BY <1>1, <1>2, <1>4, <1>5

LEMMA SameHalves ==
    ASSUME NEW S, NEW s \in Seq(S), NEW t \in Seq(S), NEW u \in Seq(S), NEW v \in Seq(S),
           Len(s) = Len(u) \/ Len(t) = Len(v), s \o t = u \o v
    PROVE  s = u /\ t = v
<1>. DEFINE l == s \o t
<1>1. /\ Len(l) = Len(s) + Len(t)
      /\ \A i \in 1..(Len(s) + Len(t)) : l[i] = IF i <= Len(s) THEN s[i] ELSE t[i - Len(s)]
  BY ConcatProperties
<1>2. /\ Len(l) = Len(u) + Len(v)
      /\ \A i \in 1..(Len(u) + Len(v)) : l[i] = IF i <= Len(u) THEN u[i] ELSE v[i - Len(u)]
  <2>1. l = u \o v
    OBVIOUS
  <2>. HIDE DEF l
  <2>. QED
    BY <2>1, ConcatProperties
<1>. HIDE DEF l
<1>3. Len(s) \in Nat /\ Len(t) \in Nat /\ Len(u) \in Nat /\ Len(v) \in Nat
  OBVIOUS
<1>4. Len(s) = Len(u) /\ Len(t) = Len(v)
  BY <1>1, <1>2, <1>3
<1>5. ASSUME NEW i \in 1..Len(s)  PROVE s[i] = u[i]
  <2>1. i \in 1..(Len(s) + Len(t)) /\ i <= Len(s) /\ i <= Len(u)
    BY <1>3, <1>4
  <2>. QED
    BY <1>1, <1>2, <1>4, <2>1
<1>6. ASSUME NEW i \in 1..Len(t)  PROVE t[i] = v[i]
  <2>1. /\ Len(s) + i \in 1..(Len(s) + Len(t))
        /\ ~ (Len(s) + i <= Len(s)) /\ (Len(s) + i) - Len(s) = i
    BY <1>3, <1>4
  <2>. QED
    BY <1>1, <1>2, <1>4, <2>1
<1>7. s = u
  BY <1>4, <1>5, SeqEqual
<1>8. t = v
  BY <1>4, <1>6, SeqEqual
<1>. QED
  BY <1>7, <1>8

LEMMA ComponentsAdmit ==
    ASSUME Bounded
    PROVE  Trust!ComponentRolesAdmit
<1>. SUFFICES ASSUME NEW c \in Trust!OfType(deployed, {"deploymentRole"}),
                     NEW role \in Trust!OfType(deployed, {"role"}), NEW j \in Jobs,
                     templates[j.repo] = Trust!Documented, role = Trust!RoleOf(c.args),
                     c.args.audience = "sts"
              PROVE  Trust!Doors(role, j) # {} <=>
                        /\ j.repo = c.args.repository /\ j.workflow = c.args.workflow
                        /\ Trust!Part("context", j) = Trust!Context(c.args)
  BY DEF Trust!ComponentRolesAdmit, Trust!OfType
<1>. DEFINE a == c.args  subject == Trust!Subject(j)
            st == Trust!Statement({Trust!Restriction("StringEquals", "aud", <<a.audience>>),
                                   Trust!Restriction("StringEquals", "sub", Trust!SubjectOf(a))})
<1>1. c \in Trust!OfType(Trust!AllResources, {"deploymentRole"})
  BY DEF Bounded, Trust!OfType
<1>2. PICK kind, value : Trust!Context(a) = <<kind, value>>
  BY <1>1, TrustAssumption DEF Trust!Context
<1>3. role.type = "role" /\ role.trust.statements = {st}
  BY DEF Trust!RoleOf
<1>4. Trust!OfGitHub(st) /\ st.restrictions =
         {Trust!Restriction("StringEquals", "aud", <<"sts">>),
          Trust!Restriction("StringEquals", "sub", Trust!SubjectOf(a))}
  BY DEF Trust!Statement, Trust!OfGitHub, Trust!Provider
<1>5. /\ Trust!Holds(Trust!Restriction("StringEquals", "aud", <<"sts">>), subject)
      /\ Trust!Holds(Trust!Restriction("StringEquals", "sub", Trust!SubjectOf(a)), subject)
            <=> subject = Trust!SubjectOf(a)
  BY DEF Trust!Holds, Trust!Restriction
<1>. HIDE DEF st
<1>6. Trust!Doors(role, j) # {} <=> subject = Trust!SubjectOf(a)
  BY <1>3, <1>4, <1>5 DEF Trust!Doors
<1>7. Trust!SubjectOf(a) = (<<"repo", a.repository>> \o <<kind, value>>)
                              \o <<"job_workflow_ref", a.workflow>>
  BY <1>2 DEF Trust!SubjectOf
<1>8. subject = (<<"repo", j.repo>> \o Trust!Part("context", j))
                   \o <<"job_workflow_ref", j.workflow>>
  BY ThreeParts
<1>9. PICK T : /\ {"repo", "job_workflow_ref", "pull_request", "environment", "ref", kind, value} \subseteq T
               /\ {a.repository, a.workflow, j.repo, j.workflow, j.environment, j.ref} \subseteq T
  <2>. DEFINE A == {"repo", "job_workflow_ref", "pull_request", "environment", "ref", kind, value}
              B == {a.repository, a.workflow, j.repo, j.workflow, j.environment, j.ref}
  <2>1. A \subseteq A \cup B /\ B \subseteq A \cup B
    OBVIOUS
  <2>. QED
    BY <2>1
<1>10. Trust!Part("context", j) \in Seq(T)
  BY <1>9 DEF Trust!Part
<1>11. /\ <<"repo", a.repository>> \in Seq(T) /\ <<kind, value>> \in Seq(T)
       /\ <<"job_workflow_ref", a.workflow>> \in Seq(T)
       /\ <<"repo", j.repo>> \in Seq(T) /\ <<"job_workflow_ref", j.workflow>> \in Seq(T)
  BY <1>9
<1>12. subject = Trust!SubjectOf(a)
          <=> /\ <<"repo", j.repo>> = <<"repo", a.repository>>
              /\ Trust!Part("context", j) = <<kind, value>>
              /\ <<"job_workflow_ref", j.workflow>> = <<"job_workflow_ref", a.workflow>>
  <2>1. subject = Trust!SubjectOf(a)
           => /\ <<"repo", j.repo>> = <<"repo", a.repository>>
              /\ Trust!Part("context", j) = <<kind, value>>
              /\ <<"job_workflow_ref", j.workflow>> = <<"job_workflow_ref", a.workflow>>
    <3>. DEFINE s == <<"repo", j.repo>>                     u == <<"repo", a.repository>>
                t == Trust!Part("context", j)               v == <<kind, value>>
                x == <<"job_workflow_ref", j.workflow>>     y == <<"job_workflow_ref", a.workflow>>
    <3>. SUFFICES ASSUME subject = Trust!SubjectOf(a)  PROVE s = u /\ t = v /\ x = y
      OBVIOUS
    <3>1. Len(s) = Len(u) /\ Len(x) = Len(y)
      OBVIOUS
    <3>2. s \in Seq(T) /\ t \in Seq(T) /\ u \in Seq(T) /\ v \in Seq(T) /\ x \in Seq(T) /\ y \in Seq(T)
      BY <1>10, <1>11
    <3>3. (s \o t) \o x = (u \o v) \o y
      BY <1>7, <1>8
    <3>. HIDE DEF s, t, u, v, x, y
    <3>4. s \o t \in Seq(T) /\ u \o v \in Seq(T)
      BY <3>2, ConcatProperties
    <3>. DEFINE Same(k, l, m, n) == (Len(k) = Len(m) \/ Len(l) = Len(n)) /\ k \o l = m \o n
                                        => k = m /\ l = n
    <3>6. \A k, l, m, n \in Seq(T) : Same(k, l, m, n)
      BY SameHalves
    <3>5. ASSUME NEW p \in Seq(T), NEW q \in Seq(T), p = s \o t, q = u \o v
          PROVE  s = u /\ t = v /\ x = y
      <4>1. p \o x = q \o y
        BY <3>3, <3>5
      <4>2. Same(p, x, q, y) /\ Same(s, t, u, v)
        <5>. HIDE DEF Same
        <5>. QED
          BY <3>2, <3>6
      <4>3. p = q /\ x = y
        BY <3>1, <4>1, <4>2
      <4>4. s \o t = u \o v
        BY <3>5, <4>3
      <4>. QED
        BY <3>1, <4>2, <4>3, <4>4
    <3>. QED
      BY <3>4, <3>5
  <2>. QED
    BY <1>7, <1>8, <2>1
<1>. QED
  BY <1>2, <1>6, <1>12

\* Trust in GitHub's jobs (g-oidc-1.ts, g-oidc-2.ts,
\* github-aws-oidc-deployment-role.ts), for every program, job, template and suppression.
THEOREM TrustHolds == Spec => []TrustIsBounded
<1>1. Init => Bounded
  BY BoundedInit DEF Init
<1>2. Bounded /\ [Next]_vars => Bounded'
  BY Alone, BoundedStep
<1>3. Bounded => TrustIsBounded
  <2>1. Bounded => Trust!SessionsAreOfOneOrigin
    BY OneOriginEach DEF Bounded, Trust!SessionsAreOfOneOrigin
  <2>. QED
    BY <2>1, NoAdministrators, ComponentsAdmit DEF TrustIsBounded, Trust!TrustIsBounded
<1>. QED
  BY <1>1, <1>2, <1>3, PTL DEF Spec

-----------------------------------------------------------------------------
(***************************************************************************)
(* The webhook fallback                                                    *)
(***************************************************************************)
\* What the receiver holds has not been there for longer than it may.
Waiting ==
    /\ now \in Int
    /\ \A m \in queue : /\ m.delivery \in Webhook!Ids
                        /\ m.at \in Int
                        /\ m.at <= now
                        /\ now <= m.at + MaxQueueing

\* A delivery that was ingested is remembered, or is older than the memory.
Covered(e) ==
    /\ e.at \in Int
    /\ e.at <= now
    /\ \/ e.delivery \in DOMAIN idempotency /\ e.at <= idempotency[e.delivery]
       \/ now - e.at > Ttl

\* So that two events of one delivery are further apart than a window that
\* counts each once.
Apart ==
    /\ \A d \in DOMAIN idempotency : idempotency[d] \in Int /\ idempotency[d] <= now
    /\ events \in Seq([delivery : Webhook!Ids, at : Int])
    /\ \A i \in DOMAIN events : Covered(events[i])
    /\ \A i, j \in DOMAIN events :
          i < j /\ events[i].delivery = events[j].delivery
             => events[j].at - events[i].at > Ttl - MaxQueueing

\* A source's counter says how many of its latest deliveries failed in a row.
Counts(s) ==
    /\ Len(outcomes[s]) <= Threshold
    /\ Len(outcomes[s]) >= Threshold \/ Len(outcomes[s]) >= failures[s]
    /\ \A i \in DOMAIN outcomes[s] :
          i > Len(outcomes[s]) - failures[s] => outcomes[s][i] = "failed"

\* What becomes of a delivery whose signature is looked at.
Fates == {"failed", "verified"}

Counted ==
    /\ failures \in [Webhook!Sources -> Nat]
    /\ outcomes \in [Webhook!Sources -> Seq(Fates)]
    /\ \A s \in Webhook!Sources : Counts(s)

\* The inductive invariant.
Exact == Waiting /\ Apart /\ Counted

LEMMA ExactInit == Webhook!Init => Exact
<1>. SUFFICES ASSUME Webhook!Init  PROVE Exact
  OBVIOUS
<1>1. Waiting
  BY DEF Webhook!Init, Waiting
<1>2. Apart
  BY DEF Webhook!Init, Apart
<1>3. Counted
  BY WebhookAssumption DEF Webhook!Init, Counted, Counts
<1>. QED
  BY <1>1, <1>2, <1>3 DEF Exact

\* The steps of a delivery that is handed over.
LEMMA RecordWaits ==
    ASSUME Waiting, NEW m \in queue, Webhook!RecordEvent(m)
    PROVE  Waiting'
BY DEF Waiting, Webhook!RecordEvent

LEMMA ForgottenApart ==
    ASSUME Exact, now' = now, events' = events, idempotency' = Webhook!Forgotten
    PROVE  Apart'
<1>1. DOMAIN idempotency' = {d \in DOMAIN idempotency : now - idempotency[d] <= Ttl}
  BY DEF Webhook!Forgotten, Webhook!Remembered
<1>2. \A d \in DOMAIN idempotency' : idempotency'[d] = idempotency[d]
  BY <1>1 DEF Webhook!Forgotten, Webhook!Remembered
<1>3. ASSUME NEW i \in DOMAIN events  PROVE Covered(events[i])'
  <2>1. Covered(events[i])
    BY DEF Exact, Apart
  <2>2. now \in Int /\ Ttl \in Nat
    BY WebhookAssumption DEF Exact, Waiting
  <2>3. events[i].delivery \in DOMAIN idempotency => idempotency[events[i].delivery] \in Int
    BY DEF Exact, Apart
  <2>. QED
    BY <1>1, <1>2, <2>1, <2>2, <2>3 DEF Covered
<1>4. \A d \in DOMAIN idempotency' : idempotency'[d] \in Int /\ idempotency'[d] <= now'
  BY <1>1, <1>2 DEF Exact, Apart
<1>. QED
  BY <1>3, <1>4 DEF Exact, Apart

LEMMA IngestedApart ==
    ASSUME Exact, NEW m \in queue, now' = now,
           m.delivery \notin Webhook!Remembered,
           idempotency' = [k \in Webhook!Remembered \union {m.delivery} |->
                              IF k = m.delivery THEN now ELSE idempotency[k]],
           events' = Append(events, [delivery |-> m.delivery, at |-> m.at])
    PROVE  Apart'
<1>. DEFINE d == m.delivery
<1>a. /\ now \in Int /\ Ttl \in Nat /\ MaxQueueing \in Nat
      /\ d \in Webhook!Ids /\ m.at \in Int /\ m.at <= now /\ now <= m.at + MaxQueueing
  BY WebhookAssumption DEF Exact, Waiting
<1>b. /\ events \in Seq([delivery : Webhook!Ids, at : Int])
      /\ \A k \in DOMAIN idempotency : idempotency[k] \in Int /\ idempotency[k] <= now
      /\ \A i \in DOMAIN events : Covered(events[i])
  BY DEF Exact, Apart
<1>c. [delivery |-> d, at |-> m.at] \in [delivery : Webhook!Ids, at : Int]
  BY <1>a
<1>1. Webhook!Remembered = {k \in DOMAIN idempotency : now - idempotency[k] <= Ttl}
  BY DEF Webhook!Remembered
<1>2. /\ DOMAIN idempotency' = Webhook!Remembered \union {d}
      /\ idempotency'[d] = now
      /\ \A k \in Webhook!Remembered : k # d /\ idempotency'[k] = idempotency[k]
  OBVIOUS
<1>3. \A k \in DOMAIN idempotency' : idempotency'[k] \in Int /\ idempotency'[k] <= now'
  BY <1>1, <1>2, <1>a, <1>b
<1>4. events' \in Seq([delivery : Webhook!Ids, at : Int])
  BY <1>b, <1>c
<1>5. /\ Len(events') = Len(events) + 1
      /\ DOMAIN events' = 1..(Len(events) + 1) /\ DOMAIN events = 1..Len(events)
      /\ Len(events) \in Nat
      /\ \A i \in DOMAIN events : events'[i] = events[i]
      /\ events'[Len(events) + 1] = [delivery |-> d, at |-> m.at]
  BY <1>b, <1>c
<1>6. ASSUME NEW i \in DOMAIN events  PROVE Covered(events[i])'
  <2>. DEFINE e == events[i]
  <2>1. e.at \in Int /\ e.at <= now
    BY <1>b DEF Covered
  <2>2. CASE e.delivery \in Webhook!Remembered
    BY <2>2, <2>1, <1>1, <1>2, <1>5, <1>a, <1>b DEF Covered
  <2>3. CASE e.delivery \notin Webhook!Remembered
    <3>1. now - e.at > Ttl
      BY <2>3, <2>1, <1>1, <1>a, <1>b DEF Covered
    <3>. QED
      BY <3>1, <2>1, <1>5 DEF Covered
  <2>. QED
    BY <2>2, <2>3
<1>7. \A i \in DOMAIN events' : Covered(events[i])'
  <2>1. Covered([delivery |-> d, at |-> m.at])'
    BY <1>2, <1>a DEF Covered
  <2>. QED
    BY <2>1, <1>5, <1>6
<1>8. ASSUME NEW i \in DOMAIN events', NEW j \in DOMAIN events', i < j,
             events'[i].delivery = events'[j].delivery
      PROVE  events'[j].at - events'[i].at > Ttl - MaxQueueing
  <2>1. CASE j \in DOMAIN events
    <3>1. i \in DOMAIN events /\ events'[i] = events[i] /\ events'[j] = events[j]
      BY <2>1, <1>8, <1>5
    <3>. QED
      BY <3>1, <2>1, <1>8 DEF Exact, Apart
  <2>2. CASE j = Len(events) + 1
    <3>1. i \in DOMAIN events /\ events'[i] = events[i] /\ events[i].delivery = d
      BY <2>2, <1>5, <1>8
    <3>2. events'[j].at = m.at
      BY <2>2, <1>5
    <3>3. events[i].at \in Int /\ Covered(events[i])
      BY <3>1, <1>b DEF Covered
    <3>4. now - events[i].at > Ttl
      BY <3>1, <3>3, <1>1, <1>a, <1>b DEF Covered
    <3>. QED
      BY <3>1, <3>2, <3>3, <3>4, <1>a
  <2>. QED
    BY <2>1, <2>2, <1>5
<1>. QED
  BY <1>3, <1>4, <1>7, <1>8 DEF Apart

\* One more outcome: of a failure, the counter counts it; a success starts it again.
LEMMA OneMoreOutcome ==
    ASSUME Counted, NEW s \in Webhook!Sources, NEW word \in Fates,
           failures' = [failures EXCEPT ![s] = IF word = "failed" THEN failures[s] + 1 ELSE 0],
           outcomes' = [outcomes EXCEPT ![s] = Webhook!Latest(Append(@, word))]
    PROVE  Counted'
<1>. DEFINE o == outcomes[s]  l == Append(o, word)  n == outcomes'[s]
<1>b. o \in Seq(Fates) /\ failures[s] \in Nat
  BY DEF Counted
<1>1. /\ o \in Seq(Fates) /\ Len(o) \in Nat /\ DOMAIN o = 1..Len(o)
      /\ failures[s] \in Nat /\ Threshold \in Nat \ {0}
  BY <1>b, WebhookAssumption
<1>2. n = Webhook!Latest(l)
  BY DEF Counted
<1>3. /\ l \in Seq(Fates) /\ Len(l) = Len(o) + 1 /\ DOMAIN l = 1..(Len(o) + 1)
      /\ \A i \in 1..Len(o) : l[i] = o[i]
      /\ l[Len(o) + 1] = word
  BY <1>1
<1>4. failures'[s] = IF word = "failed" THEN failures[s] + 1 ELSE 0
  BY DEF Counted
<1>5. /\ Len(o) <= Threshold
      /\ Len(o) >= Threshold \/ Len(o) >= failures[s]
      /\ \A i \in DOMAIN o : i > Len(o) - failures[s] => o[i] = "failed"
  BY DEF Counted, Counts
<1>6. n \in Seq(Fates) /\ Counts(s)'
  <2>. HIDE DEF l, n, o
  <2>1. CASE Len(l) <= Threshold
    <3>1. n = l
      BY <2>1, <1>1, <1>2, <1>3 DEF Webhook!Latest
    <3>2. Len(n) <= Threshold /\ (Len(n) >= Threshold \/ Len(n) >= failures'[s])
      BY <3>1, <2>1, <1>1, <1>3, <1>4, <1>5
    <3>3. ASSUME NEW i \in DOMAIN n, i > Len(n) - failures'[s]
          PROVE  n[i] = "failed"
      BY <3>1, <3>3, <1>1, <1>3, <1>4, <1>5
    <3>. QED
      BY <3>1, <3>2, <3>3, <1>3 DEF Counts, n
  <2>2. CASE Len(l) > Threshold
    <3>a. n = Tail(l)
      BY <2>2, <1>2 DEF Webhook!Latest
    <3>b. Len(o) = Threshold
      <4>. /\ Len(o) \in Nat /\ Threshold \in Nat /\ Len(o) <= Threshold
           /\ Len(o) + 1 > Threshold
        BY <2>2, <1>1, <1>3, <1>5
      <4>. QED
        OBVIOUS
    <3>1. n = Tail(l) /\ Len(o) = Threshold
      BY <3>a, <3>b
    <3>2. /\ n \in Seq(Fates) /\ Len(n) = Threshold /\ DOMAIN n = 1..Threshold
          /\ \A i \in 1..Threshold : n[i] = l[i + 1]
      BY <3>1, <1>1, <1>3
    <3>3. ASSUME NEW i \in 1..Threshold, i > Threshold - failures'[s]
          PROVE  n[i] = "failed"
      <4>1. word = "failed" /\ i + 1 > Threshold - failures[s]
        BY <3>3, <1>1, <1>4
      <4>2. CASE i = Threshold
        BY <4>1, <4>2, <3>1, <3>2, <1>3
      <4>3. CASE i # Threshold
        <5>1. i + 1 \in DOMAIN o
          BY <4>3, <3>1, <1>1
        <5>2. o[i + 1] = "failed"
          BY <5>1, <4>1, <3>1, <1>5
        <5>. QED
          BY <5>1, <5>2, <3>2, <1>1, <1>3
      <4>. QED
        BY <4>2, <4>3
    <3>. QED
      BY <3>2, <3>3, <1>1 DEF Counts, n
  <2>. QED
    BY <2>1, <2>2, <1>1, <1>3
<1>7. ASSUME NEW t \in Webhook!Sources, t # s
      PROVE  failures'[t] = failures[t] /\ outcomes'[t] = outcomes[t] /\ Counts(t)'
  <2>1. failures'[t] = failures[t] /\ outcomes'[t] = outcomes[t]
    BY <1>7 DEF Counted
  <2>. QED
    BY <2>1 DEF Counted, Counts
<1>8. failures' \in [Webhook!Sources -> Nat]
  BY <1>1 DEF Counted
<1>9. outcomes' \in [Webhook!Sources -> Seq(Fates)]
  BY <1>6, <1>7 DEF Counted
<1>. QED
  BY <1>6, <1>7, <1>8, <1>9 DEF Counted

LEMMA RecordKeeps ==
    ASSUME Exact, NEW m \in queue, Webhook!RecordEvent(m)
    PROVE  Exact'
<1>1. Waiting'
  BY RecordWaits DEF Exact
<1>2. Apart' /\ Counted'
  <2>a. now' = now /\ m.delivery \in Webhook!Ids
    BY DEF Webhook!RecordEvent, Exact, Waiting
  <2>b. Webhook!Source(m.delivery) \in Webhook!Sources
    BY <2>a DEF Webhook!Sources
  <2>1. CASE Webhook!Refuse(m)
    BY <2>1, <2>a DEF Webhook!Refuse, Exact, Apart, Counted, Covered, Counts
  <2>2. CASE Webhook!SignatureFails(m)
    <3>1. Apart'
      BY <2>2, <2>a DEF Webhook!SignatureFails, Exact, Apart, Covered
    <3>2. Counted'
      BY <2>2, <2>b, OneMoreOutcome DEF Fates, Webhook!SignatureFails, Exact
    <3>. QED
      BY <3>1, <3>2
  <2>3. CASE Webhook!Ingest(m)
    <3>1. Counted'
      BY <2>3, <2>b, OneMoreOutcome DEF Fates, Webhook!Ingest, Webhook!Cleared, Exact
    <3>2. CASE m.delivery \in Webhook!Remembered
      BY <3>1, <3>2, <2>3, <2>a, ForgottenApart DEF Webhook!Ingest
    <3>3. CASE m.delivery \notin Webhook!Remembered
      BY <3>1, <3>3, <2>3, <2>a, IngestedApart DEF Webhook!Ingest
    <3>. QED
      BY <3>2, <3>3
  <2>. QED
    BY <2>1, <2>2, <2>3 DEF Webhook!RecordEvent
<1>. QED
  BY <1>1, <1>2 DEF Exact

LEMMA ExactStep ==
    ASSUME Exact, [Webhook!Next]_webhookVars
    PROVE  Exact'
<1>1. ASSUME NEW m \in queue, Webhook!RecordEvent(m)  PROVE Exact'
  BY <1>1, RecordKeeps
<1>2. ASSUME NEW s \in Webhook!Sources, NEW after \in 0..now, NEW before \in 0..now,
             Webhook!Signal(s, after, before)
      PROVE  Exact'
  BY <1>2 DEF Webhook!Signal, Exact, Waiting, Apart, Counted, Covered, Counts
<1>3. ASSUME NEW d \in Webhook!Ids, Webhook!Arrive(d, hookSecret)  PROVE Exact'
  <2>1. Waiting'
    BY <1>3, WebhookAssumption DEF Webhook!Arrive, Exact, Waiting
  <2>. QED
    BY <2>1, <1>3 DEF Webhook!Arrive, Exact, Apart, Counted, Covered, Counts
<1>4. CASE Webhook!Rotate
  BY <1>4 DEF Webhook!Rotate, Exact, Waiting, Apart, Counted, Covered, Counts
<1>5. CASE Webhook!Refresh
  BY <1>5 DEF Webhook!Refresh, Exact, Waiting, Apart, Counted, Covered, Counts
<1>6. CASE Webhook!Tick
  <2>1. now' = now + 1 /\ now \in Int /\ MaxQueueing \in Nat /\ Ttl \in Nat
    BY <1>6, WebhookAssumption DEF Webhook!Tick, Exact, Waiting
  <2>2. Waiting'
    BY <1>6, <2>1 DEF Webhook!Tick, Exact, Waiting
  <2>3. Apart'
    <3>1. idempotency' = idempotency /\ events' = events
      BY <1>6 DEF Webhook!Tick
    <3>2. ASSUME NEW i \in DOMAIN events  PROVE Covered(events[i])'
      <4>1. Covered(events[i])
        BY DEF Exact, Apart
      <4>. QED
        BY <4>1, <3>1, <2>1 DEF Covered
    <3>3. \A d \in DOMAIN idempotency : idempotency[d] \in Int /\ idempotency[d] <= now'
      BY <2>1 DEF Exact, Apart
    <3>. QED
      BY <3>1, <3>2, <3>3 DEF Exact, Apart
  <2>4. Counted'
    BY <1>6 DEF Webhook!Tick, Exact, Counted, Counts
  <2>. QED
    BY <2>2, <2>3, <2>4 DEF Exact
<1>7. CASE Webhook!Restart
  <2>1. Waiting' /\ Apart'
    BY <1>7 DEF Webhook!Restart, Exact, Waiting, Apart
  <2>2. Counted'
    BY <1>7, WebhookAssumption DEF Webhook!Restart, Counted, Counts
  <2>. QED
    BY <2>1, <2>2 DEF Exact
<1>8. CASE UNCHANGED webhookVars
  BY <1>8 DEF webhookVars, Exact, Waiting, Apart, Counted, Covered, Counts
<1>. QED
  BY <1>1, <1>2, <1>3, <1>4, <1>5, <1>6, <1>7, <1>8 DEF Webhook!Next

\* What a step leaves in the signal and in the alarm.
LEMMA SignalIsExact ==
    ASSUME Exact, NEW s \in Webhook!Sources, NEW after \in 0..now, NEW before \in 0..now,
           Webhook!Signal(s, after, before)
    PROVE  Webhook!EvidenceIsCountedOnceInOrder'
<1>1. CASE signal' = Webhook!NoReport
  BY <1>1 DEF Webhook!NoReport, Webhook!EvidenceIsCountedOnceInOrder
<1>2. CASE /\ after <= before
           /\ \E order \in Webhook!Sequenced(Webhook!InWindow(s, after, before)) :
                signal' =
                   [ok |-> TRUE, events |-> [k \in DOMAIN order |-> events[order[k]]],
                    unlicensed |-> {t \in Unlicensed : \E k \in DOMAIN order :
                                       Deliveries[events[order[k]].delivery].type = t},
                    length |-> before - after]
  <2>. DEFINE places == Webhook!InWindow(s, after, before)
  <2>1. PICK order \in Webhook!Sequenced(places) :
           /\ signal'.events = [k \in DOMAIN order |-> events[order[k]]]
           /\ signal'.length = before - after
    BY <1>2
  <2>2. /\ DOMAIN order \subseteq Int
        /\ \A k \in DOMAIN order : order[k] \in places
        /\ \A i, j \in DOMAIN order : i < j => Webhook!Before(order[i], order[j])
    BY DEF Webhook!Sequenced
  <2>3. /\ Ttl \in Nat /\ MaxQueueing \in Nat /\ after \in Int /\ before \in Int
        /\ DOMAIN events \subseteq Int
        /\ \A i \in DOMAIN events : events[i].at \in Int
    BY WebhookAssumption DEF Exact, Waiting, Apart, Covered
  <2>4. \A p \in places : p \in DOMAIN events /\ events[p].at \in after..before
    BY DEF Webhook!InWindow
  <2>5. DOMAIN signal'.events = DOMAIN order
        /\ \A k \in DOMAIN order : signal'.events[k] = events[order[k]]
    BY <2>1
  <2>6. ASSUME NEW i \in DOMAIN order, NEW j \in DOMAIN order, i < j
        PROVE  events[order[i]].at <= events[order[j]].at
    BY <2>6, <2>2, <2>3, <2>4 DEF Webhook!Before
  <2>7. ASSUME NEW i \in DOMAIN order, NEW j \in DOMAIN order, i < j,
               before - after <= Ttl - MaxQueueing
        PROVE  events[order[i]].delivery # events[order[j]].delivery
    <3>. DEFINE p == order[i]  q == order[j]
    <3>1. /\ p \in DOMAIN events /\ q \in DOMAIN events
          /\ events[p].at \in after..before /\ events[q].at \in after..before
          /\ Webhook!Before(p, q)
      BY <2>7, <2>2, <2>4
    <3>2. p \in Int /\ q \in Int /\ events[p].at \in Int /\ events[q].at \in Int /\ p # q
      BY <3>1, <2>3 DEF Webhook!Before
    <3>. SUFFICES ASSUME events[p].delivery = events[q].delivery  PROVE FALSE
      OBVIOUS
    <3>3. \/ events[q].at - events[p].at > Ttl - MaxQueueing
          \/ events[p].at - events[q].at > Ttl - MaxQueueing
      <4>1. p < q \/ q < p
        BY <3>2
      <4>. QED
        BY <4>1, <3>1 DEF Exact, Apart
    <3>. QED
      BY <3>1, <3>2, <3>3, <2>7, <2>3
  <2>. QED
    BY <2>1, <2>2, <2>3, <2>5, <2>6, <2>7 DEF Webhook!EvidenceIsCountedOnceInOrder
<1>. QED
  BY <1>1, <1>2 DEF Webhook!Signal

LEMMA AlarmIsExact ==
    ASSUME Exact, NEW m \in queue, Webhook!RecordEvent(m)
    PROVE  Webhook!AlarmsAreThreeInARow'
<1>1. CASE alarmed' = Webhook!NoSource
  BY <1>1 DEF Webhook!AlarmsAreThreeInARow
<1>2. CASE alarmed' # Webhook!NoSource
  <2>. DEFINE s == Webhook!Source(m.delivery)
  <2>1. Webhook!SignatureFails(m)
    BY <1>2 DEF Webhook!RecordEvent, Webhook!Refuse, Webhook!Ingest
  <2>2. s \in Webhook!Sources
    BY DEF Exact, Waiting, Webhook!Sources
  <2>3. alarmed' = s /\ failures'[s] >= Threshold
    BY <2>1, <2>2, <1>2 DEF Webhook!SignatureFails, Exact, Counted
  <2>4. Counts(s)' /\ outcomes'[s] \in Seq(Fates) /\ failures'[s] \in Nat
    BY <2>2, RecordKeeps DEF Exact, Counted
  <2>5. Threshold \in Nat \ {0}
    BY WebhookAssumption
  <2>6. /\ Len(outcomes'[s]) = Threshold
        /\ DOMAIN outcomes'[s] = 1..Threshold
        /\ \A i \in 1..Threshold : outcomes'[s][i] = "failed"
    BY <2>3, <2>4, <2>5 DEF Counts
  <2>7. outcomes'[s] = [i \in 1..Threshold |-> "failed"]
    BY <2>4, <2>6
  <2>. QED
    BY <2>3, <2>7 DEF Webhook!AlarmsAreThreeInARow
<1>. QED
  BY <1>1, <1>2

LEMMA SignalsStep ==
    ASSUME Exact, [Webhook!Next]_webhookVars,
           Webhook!EvidenceIsCountedOnceInOrder, Webhook!AlarmsAreThreeInARow
    PROVE  Webhook!EvidenceIsCountedOnceInOrder' /\ Webhook!AlarmsAreThreeInARow'
<1>1. signal' = Webhook!NoReport => Webhook!EvidenceIsCountedOnceInOrder'
  BY DEF Webhook!NoReport, Webhook!EvidenceIsCountedOnceInOrder
<1>2. alarmed' = Webhook!NoSource => Webhook!AlarmsAreThreeInARow'
  BY DEF Webhook!AlarmsAreThreeInARow
<1>3. ASSUME NEW m \in queue, Webhook!RecordEvent(m)
      PROVE  Webhook!EvidenceIsCountedOnceInOrder' /\ Webhook!AlarmsAreThreeInARow'
  <2>1. signal' = Webhook!NoReport
    BY <1>3 DEF Webhook!RecordEvent
  <2>. QED
    BY <2>1, <1>1, <1>3, AlarmIsExact
<1>4. ASSUME NEW s \in Webhook!Sources, NEW after \in 0..now, NEW before \in 0..now,
             Webhook!Signal(s, after, before)
      PROVE  Webhook!EvidenceIsCountedOnceInOrder' /\ Webhook!AlarmsAreThreeInARow'
  <2>1. alarmed' = Webhook!NoSource
    BY <1>4 DEF Webhook!Signal
  <2>. QED
    BY <2>1, <1>2, <1>4, SignalIsExact
<1>5. CASE Webhook!Quiet
  BY <1>5, <1>1, <1>2 DEF Webhook!Quiet
<1>6. CASE UNCHANGED webhookVars
  BY <1>6 DEF webhookVars, Webhook!EvidenceIsCountedOnceInOrder, Webhook!AlarmsAreThreeInARow
<1>. QED
  BY <1>3, <1>4, <1>5, <1>6
  DEF Webhook!Next, Webhook!Arrive, Webhook!Rotate, Webhook!Refresh, Webhook!Tick,
      Webhook!Restart

\* The evidence and the alarms of github-webhook-fallback.ts, for every delivery, clock,
\* time to live and threshold.
THEOREM SignalsExact == Spec => []WebhookSignalsAreExact
<1>. DEFINE Both == /\ Exact
                    /\ Webhook!EvidenceIsCountedOnceInOrder
                    /\ Webhook!AlarmsAreThreeInARow
<1>1. Init => Both
  <2>1. Init => Webhook!Init
    BY DEF Init
  <2>2. Webhook!Init => Webhook!EvidenceIsCountedOnceInOrder /\ Webhook!AlarmsAreThreeInARow
    BY DEF Webhook!Init, Webhook!NoReport, Webhook!EvidenceIsCountedOnceInOrder,
           Webhook!AlarmsAreThreeInARow
  <2>. QED
    BY <2>1, <2>2, ExactInit
<1>2. Both /\ [Next]_vars => Both'
  BY Alone, ExactStep, SignalsStep
<1>3. Both => WebhookSignalsAreExact
  BY DEF WebhookSignalsAreExact
<1>. QED
  BY <1>1, <1>2, <1>3, PTL DEF Spec

-----------------------------------------------------------------------------
(***************************************************************************)
(* The types of the scope of manifests                                     *)
(***************************************************************************)
\* What a sync found are manifests, and what it proposes are tracks.
SyncTyped(y) ==
    /\ y.at \in {"diff", "write", "done"} => y.found \subseteq Manifests
    /\ y.at \in {"write", "done"} => \A m \in DOMAIN y.proposed : y.proposed[m] \in Scope!Tracks

ScopeTypes ==
    /\ tree \subseteq Manifests /\ granted \subseteq Manifests
    /\ DOMAIN scope \subseteq Manifests /\ \A m \in DOMAIN scope : scope[m] \in Scope!Tracks
    /\ DOMAIN given \subseteq Manifests
    /\ \A s \in Syncs : SyncTyped(sync[s])
    /\ scopeLeft \in 0..Edits

LEMMA ScopeTypesStart == Scope!Init => ScopeTypes
<1> SUFFICES ASSUME Scope!Init PROVE ScopeTypes
  OBVIOUS
<1>1. \A s \in Syncs : SyncTyped(sync[s])
  BY DEF Scope!Init, SyncTyped, Scope!Idle
<1>. QED
  BY <1>1, ScopeAssumption DEF Scope!Init, ScopeTypes

\* Conventions and classifiers place manifests on tracks.
LEMMA PlacesTyped ==
    /\ \A m : Scope!ClassifyManifest(m).track \in Scope!Tracks
    /\ \A p \in Scope!Proposals : Scope!ProposeTrack(p).track \in Scope!Tracks
BY DEF Scope!ClassifyManifest, Scope!ProposeTrack, Scope!Decided, Scope!Tracks, Scope!Proposals

\* One thing fewer may happen.
LEMMA FewerEdits ==
    ASSUME ScopeTypes, scopeLeft > 0, scopeLeft' = scopeLeft - 1
    PROVE  scopeLeft' \in 0..Edits
BY ScopeAssumption DEF ScopeTypes

\* A sync moves on alone.
LEMMA SyncMovesTyped ==
    ASSUME Peoples, ScopeTypes, NEW s \in Syncs, NEW y,
           sync' = [sync EXCEPT ![s] = y], UNCHANGED <<tree, scope, granted, given>>,
           scopeLeft' \in 0..Edits, SyncTyped(y)
    PROVE  ScopeTypes'
<1>1. DOMAIN sync = Syncs
  BY DEF Peoples
<1>2. sync'[s] = y /\ \A r \in Syncs \ {s} : sync'[r] = sync[r]
  BY <1>1
<1>3. \A r \in Syncs : SyncTyped(sync'[r])
  BY <1>2 DEF ScopeTypes
<1>. QED
  BY <1>3 DEF ScopeTypes, SyncTyped

LEMMA DiffTyped ==
    ASSUME Peoples, ScopeTypes, NEW s \in Syncs, Scope!Diff(s)
    PROVE  ScopeTypes'
<1> DEFINE here == sync[s].found
           added == here \ DOMAIN scope
           unsure == {m \in added : Scope!ClassifyManifest(m).needsHuman}
           decisions(q, answer) ==
              [m \in added |-> IF m \in q THEN Scope!ProposeTrack(answer[m])
                               ELSE Scope!ClassifyManifest(m)]
           y(q, answer) ==
              [at |-> IF sync[s].apply THEN "write" ELSE "done",
               found |-> here,
               proposed |-> [m \in here |-> Scope!Proposed(m, decisions(q, answer))],
               exit |-> IF Scope!NeedsHuman(decisions(q, answer)) # {} THEN 3 ELSE 0]
<1>0. \E q \in IF sync[s].classify THEN Scope!Asked(unsure) ELSE {{}} :
         \E answer \in [q -> Scope!Proposals] : sync' = [sync EXCEPT ![s] = y(q, answer)]
  BY Zenon DEF Scope!Diff
<1> HIDE DEF y
<1>1. PICK q : \E answer \in [q -> Scope!Proposals] : sync' = [sync EXCEPT ![s] = y(q, answer)]
  BY <1>0
<1>2. PICK answer \in [q -> Scope!Proposals] : sync' = [sync EXCEPT ![s] = y(q, answer)]
  BY <1>1
<1>3. /\ UNCHANGED <<tree, scope, granted, given, scopeLeft>> /\ sync[s].at = "diff"
  BY DEF Scope!Diff
<1>4. here \subseteq Manifests
  BY <1>3 DEF ScopeTypes, SyncTyped
<1> DEFINE d == decisions(q, answer)
<1>5. DOMAIN d = added /\ \A m \in added : d[m].track \in Scope!Tracks
  <2>1. \A m \in q : Scope!ProposeTrack(answer[m]).track \in Scope!Tracks
    BY PlacesTyped
  <2>. QED
    BY <2>1, PlacesTyped
<1> USE DEF y
<1> HIDE DEF decisions
<1>6. /\ y(q, answer).found = here
      /\ y(q, answer).proposed = [m \in here |-> Scope!Proposed(m, d)]
  OBVIOUS
<1>7. \A m \in here : Scope!Proposed(m, d) \in Scope!Tracks
  BY <1>5 DEF Scope!Proposed, ScopeTypes
<1> HIDE DEF d, y
<1>8. SyncTyped(y(q, answer))
  BY <1>4, <1>6, <1>7 DEF SyncTyped
<1>9. scopeLeft' \in 0..Edits
  BY <1>3 DEF ScopeTypes
<1>. QED
  BY <1>2, <1>3, <1>8, <1>9, SyncMovesTyped

LEMMA ScopeTypesStep == Peoples /\ ScopeTypes /\ [Scope!Next]_scopeVars => ScopeTypes'
<1> SUFFICES ASSUME Peoples, ScopeTypes, [Scope!Next]_scopeVars PROVE ScopeTypes'
  OBVIOUS
<1>1. CASE UNCHANGED scopeVars
  BY <1>1 DEF scopeVars, ScopeTypes, SyncTyped
<1>2. ASSUME NEW s \in Syncs, NEW apply, NEW classify, Scope!Walk(s, apply, classify)
      PROVE  ScopeTypes'
  <2> DEFINE y == [at |-> "diff", apply |-> apply, classify |-> classify,
                   found |-> Scope!Discovered]
  <2>1. sync' = [sync EXCEPT ![s] = y] /\ UNCHANGED <<tree, scope, granted, given, scopeLeft>>
    BY <1>2 DEF Scope!Walk
  <2>2. SyncTyped(y)
    BY DEF SyncTyped, Scope!Discovered, ScopeTypes
  <2>3. scopeLeft' \in 0..Edits
    BY <2>1 DEF ScopeTypes
  <2> HIDE DEF y
  <2>. QED
    BY <2>1, <2>2, <2>3, SyncMovesTyped
<1>3. ASSUME NEW s \in Syncs, Scope!WriteScope(s) PROVE ScopeTypes'
  <2>1. /\ sync[s].at = "write" /\ scope' = sync[s].proposed
        /\ UNCHANGED <<tree, granted, given, scopeLeft>>
        /\ sync' = [sync EXCEPT ![s].at = "done"]
    BY <1>3 DEF Scope!WriteScope
  <2>2. DOMAIN sync = Syncs /\ DOMAIN sync[s] = DiffFields /\ DOMAIN sync[s].proposed = sync[s].found
    BY <2>1 DEF Peoples, SyncShape, Scope!Idle
  <2>3. /\ \A r \in Syncs \ {s} : sync'[r] = sync[r]
        /\ sync'[s].proposed = sync[s].proposed /\ sync'[s].found = sync[s].found
    BY <2>1, <2>2 DEF DiffFields
  <2>4. SyncTyped(sync[s])
    BY DEF ScopeTypes
  <2>5. /\ sync[s].found \subseteq Manifests
        /\ \A m \in DOMAIN sync[s].proposed : sync[s].proposed[m] \in Scope!Tracks
    BY <2>1, <2>4 DEF SyncTyped
  <2>6. \A r \in Syncs : SyncTyped(sync'[r])
    BY <2>3, <2>5 DEF ScopeTypes, SyncTyped
  <2>7. DOMAIN scope' \subseteq Manifests /\ \A m \in DOMAIN scope' : scope'[m] \in Scope!Tracks
    BY <2>1, <2>2, <2>5
  <2>. QED
    BY <2>1, <2>6, <2>7 DEF ScopeTypes, SyncTyped
<1>4. ASSUME NEW s \in Syncs, Scope!Exit(s) \/ Scope!Kill(s) PROVE ScopeTypes'
  <2>1. sync' = [sync EXCEPT ![s] = Scope!Idle] /\ UNCHANGED <<tree, scope, granted, given>>
    BY <1>4 DEF Scope!Exit, Scope!Kill
  <2>2. SyncTyped(Scope!Idle)
    BY DEF SyncTyped, Scope!Idle
  <2>3. scopeLeft' \in 0..Edits
    BY <1>4, FewerEdits DEF Scope!Exit, Scope!Kill, ScopeTypes
  <2>. QED
    BY <2>1, <2>2, <2>3, SyncMovesTyped
<1>5. ASSUME NEW m \in Manifests, NEW track \in Human, Scope!Edit(m, track) PROVE ScopeTypes'
  <2>1. /\ scope' = Scope!With(scope, m, track) /\ UNCHANGED <<tree, sync>>
        /\ granted' = IF track = "emergency" THEN granted \union {m} ELSE granted
        /\ given' = IF m \in Scope!Discovered /\ \A s \in Syncs : sync[s].at \notin {"diff", "write"}
                    THEN Scope!With(given, m, track) ELSE Scope!Without(given, m)
        /\ scopeLeft > 0 /\ scopeLeft' = scopeLeft - 1
    BY <1>5 DEF Scope!Edit, Scope!Change
  <2>2. DOMAIN scope' \subseteq Manifests /\ \A n \in DOMAIN scope' : scope'[n] \in Scope!Tracks
    BY <2>1, ScopeAssumption DEF Scope!With, ScopeTypes
  <2>3. DOMAIN Scope!With(given, m, track) \subseteq Manifests
        /\ DOMAIN Scope!Without(given, m) \subseteq Manifests
    BY DEF Scope!With, Scope!Without, Scope!Restrict, ScopeTypes
  <2>4. DOMAIN given' \subseteq Manifests
    BY <2>1, <2>3
  <2>5. tree' \subseteq Manifests /\ granted' \subseteq Manifests
    BY <2>1 DEF ScopeTypes
  <2>6. \A s \in Syncs : SyncTyped(sync'[s])
    BY <2>1 DEF ScopeTypes
  <2>. QED
    BY <2>1, <2>2, <2>4, <2>5, <2>6, FewerEdits DEF ScopeTypes, SyncTyped
<1>6. ASSUME NEW m \in Manifests, Scope!Move(m) PROVE ScopeTypes'
  <2>1. /\ UNCHANGED <<scope, sync, granted>> /\ given' = Scope!Without(given, m)
        /\ tree' = IF m \in tree THEN tree \ {m} ELSE tree \union {m}
        /\ scopeLeft > 0 /\ scopeLeft' = scopeLeft - 1
    BY <1>6 DEF Scope!Move, Scope!Change
  <2>2. DOMAIN given' \subseteq Manifests /\ tree' \subseteq Manifests
    BY <2>1 DEF Scope!Without, Scope!Restrict, ScopeTypes
  <2>. QED
    BY <2>1, <2>2, FewerEdits DEF ScopeTypes, SyncTyped
<1>7. CASE Scope!Next
  BY <1>2, <1>3, <1>4, <1>5, <1>6, <1>7, DiffTyped DEF Scope!Next
<1>. QED
  BY <1>1, <1>7

LEMMA ScopeTyped == Peoples /\ ScopeTypes => Scope!TypeOK
<1> SUFFICES ASSUME Peoples, ScopeTypes PROVE Scope!TypeOK
  OBVIOUS
<1>1. \A s \in Syncs : sync[s].at \in {"idle", "diff", "write", "done"}
  BY DEF Peoples, SyncShape, Scope!Idle
<1>. QED
  BY <1>1 DEF ScopeTypes, Scope!TypeOK

-----------------------------------------------------------------------------
(***************************************************************************)
(* The types of scans, triages and reviews                                 *)
(***************************************************************************)
\* A file of findings holds findings that are named.
OfNames(f) == Triage!Whole(f) => f.content \subseteq Triage!Names

\* A triage holds keys that the findings have.
HoldsTyped(r) ==
    /\ r.at = "found" => DOMAIN r.read \subseteq Triage!Keys
    /\ r.at \in {"save", "hand"} =>
          /\ DOMAIN r.store \subseteq Triage!Keys
          /\ r.rows \subseteq Triage!Names /\ r.emergency \subseteq Triage!Keys

FilesTyped ==
    /\ present \subseteq Triage!Names /\ binary \in {"none", "pinned", "other"}
    /\ OfNames(raw) /\ OfNames(found) /\ OfNames(review)

StoresTyped ==
    /\ Triage!Whole(store) => DOMAIN store.content \subseteq Triage!Keys
    /\ Triage!Whole(workItems) => /\ workItems.content.emergency \subseteq Triage!Keys
                                  /\ workItems.content.rows \subseteq Triage!Names

TriageTypes ==
    /\ FilesTyped /\ StoresTyped
    /\ \A p \in Processes : HoldsTyped(proc[p])
    /\ claims \in [Triage!Keys -> Nat] /\ raced \in BOOLEAN
    /\ triageLeft \in 0..Accidents

LEMMA TriageTypesStart == Triage!Init => TriageTypes
<1> SUFFICES ASSUME Triage!Init PROVE TriageTypes
  OBVIOUS
<1>1. \A p \in Processes : HoldsTyped(proc[p])
  BY DEF Triage!Init, HoldsTyped, Triage!Idle
<1>2. FilesTyped
  BY TriageAssumption DEF Triage!Init, FilesTyped, OfNames, Triage!Whole, Triage!Absent
<1>3. StoresTyped
  BY DEF Triage!Init, StoresTyped, Triage!Whole, Triage!Absent, Triage!File
<1>4. triageLeft \in 0..Accidents
  BY TriageAssumption DEF Triage!Init
<1>5. claims \in [Triage!Keys -> Nat] /\ raced \in BOOLEAN
  BY DEF Triage!Init
<1>. QED
  BY <1>1, <1>2, <1>3, <1>4, <1>5 DEF TriageTypes

\* What may happen gets less.
LEMMA FewerAccidents ==
    ASSUME TriageTypes, Triage!Happens \/ UNCHANGED triageLeft
    PROVE  triageLeft' \in 0..Accidents
BY TriageAssumption DEF TriageTypes, Triage!Happens

\* A process in a state without files or keys in hand.
LEMMA PlainTyped ==
    ASSUME NEW r, r.at \notin {"found", "save", "hand"}
    PROVE  HoldsTyped(r)
BY DEF HoldsTyped

LEMMA IdleTyped == HoldsTyped(Triage!Idle)
BY PlainTyped DEF Triage!Idle

\* One process goes on.
LEMMA ProcTyped ==
    ASSUME Watchful, TriageTypes, NEW p \in Processes, NEW r,
           proc' = [proc EXCEPT ![p] = r], HoldsTyped(r)
    PROVE  \A q \in Processes : HoldsTyped(proc'[q])
BY DEF Watchful, TriageTypes

\* Files stay with their contents.
LEMMA FilesKeep ==
    ASSUME FilesTyped, UNCHANGED Triage!caches
    PROVE  FilesTyped'
BY DEF FilesTyped, OfNames, Triage!caches, Triage!Whole

LEMMA StoresKeep ==
    ASSUME StoresTyped, UNCHANGED <<store, workItems>>
    PROVE  StoresTyped'
BY DEF StoresTyped, Triage!Whole

\* What a scanner leaves are findings of the lockfiles.
LEMMA ScannedTyped ==
    ASSUME NEW file, NEW file2, NEW lockfiles, NEW code, Triage!Scanned(file, file2, lockfiles, code),
           OfNames(file), lockfiles \subseteq Triage!Names
    PROVE  OfNames(file2) /\ (Triage!Happens \/ UNCHANGED triageLeft)
BY DEF Triage!Scanned, OfNames, Triage!File, Triage!Whole

LEMMA ScanSteps ==
    ASSUME Watchful, TriageTypes, NEW p \in Processes,
           \/ Triage!ScanStarts(p) \/ Triage!Bootstrap(p) \/ Triage!Download(p)
           \/ Triage!Install(p) \/ Triage!Rename(p) \/ Triage!Verify(p) \/ Triage!ReadScan(p)
           \/ Triage!ReviewEnds(p) \/ Triage!Kill(p)
    PROVE  TriageTypes'
<1>1. UNCHANGED <<store, workItems, claims, raced>>
  BY DEF Triage!ScanStarts, Triage!Bootstrap, Triage!Download, Triage!Install, Triage!Rename,
         Triage!Verify, Triage!ReadScan, Triage!ReviewEnds, Triage!Kill, Triage!caches
<1>2. Triage!Happens \/ UNCHANGED triageLeft
  BY DEF Triage!ScanStarts, Triage!Bootstrap, Triage!Download, Triage!Install, Triage!Rename,
         Triage!Verify, Triage!ReadScan, Triage!ReviewEnds, Triage!Kill
<1>3. \/ proc' = [proc EXCEPT ![p] = Triage!Idle]
      \/ \E x \in {"bootstrap", "download", "install", "rename", "verify", "run"} :
            proc' = [proc EXCEPT ![p] = [at |-> x]]
  <2>1. CASE Triage!Bootstrap(p)
    BY <2>1 DEF Triage!Bootstrap, Triage!Goes, Triage!Throws
  <2>2. CASE \/ Triage!ScanStarts(p) \/ Triage!Download(p) \/ Triage!Install(p)
             \/ Triage!Rename(p) \/ Triage!Verify(p)
    BY <2>2 DEF Triage!ScanStarts, Triage!Download, Triage!Install, Triage!Rename,
                Triage!Verify, Triage!Goes, Triage!Throws
  <2>3. CASE Triage!ReadScan(p) \/ Triage!ReviewEnds(p) \/ Triage!Kill(p)
    BY <2>3 DEF Triage!ReadScan, Triage!ReviewEnds, Triage!Kill, Triage!Goes, Triage!Throws
  <2>. QED
    BY <2>1, <2>2, <2>3
<1>4. \E r : proc' = [proc EXCEPT ![p] = r] /\ HoldsTyped(r)
  <2>1. ASSUME NEW x \in {"bootstrap", "download", "install", "rename", "verify", "run"}
        PROVE  HoldsTyped([at |-> x])
    BY PlainTyped
  <2>. QED
    BY <1>3, <2>1, IdleTyped
<1>5. \A q \in Processes : HoldsTyped(proc'[q])
  BY <1>4, ProcTyped
<1>6. FilesTyped'
  <2>1. CASE Triage!Rename(p)
    BY <2>1 DEF Triage!Rename, TriageTypes, FilesTyped, OfNames, Triage!Whole
  <2>2. CASE Triage!ReadScan(p)
    <3>1. OfNames(found')
      BY <2>2 DEF Triage!ReadScan, TriageTypes, FilesTyped, OfNames, Triage!Whole, Triage!File,
                  Triage!Flattened
    <3>2. UNCHANGED <<present, binary, raw, review>>
      BY <2>2 DEF Triage!ReadScan
    <3>. QED
      BY <3>1, <3>2 DEF TriageTypes, FilesTyped, OfNames, Triage!Whole
  <2>3. CASE UNCHANGED Triage!caches
    BY <2>3, FilesKeep DEF TriageTypes
  <2>. QED
    BY <2>1, <2>2, <2>3 DEF Triage!ScanStarts, Triage!Bootstrap, Triage!Download, Triage!Install,
         Triage!Verify, Triage!ReviewEnds, Triage!Kill
<1>. QED
  BY <1>1, <1>2, <1>5, <1>6, FewerAccidents, StoresKeep DEF TriageTypes, HoldsTyped

LEMMA RunScannerTyped ==
    ASSUME Watchful, TriageTypes, NEW p \in Processes, Triage!RunScanner(p)
    PROVE  TriageTypes'
<1>1. PICK code \in {0, 1, 127} :
         /\ Triage!Scanned(raw, raw', present, code)
         /\ proc' = [proc EXCEPT ![p] = [at |-> "read", code |-> code, saw |-> present]]
  BY DEF Triage!RunScanner, Triage!Goes
<1>2. UNCHANGED <<present, binary, found, review, store, workItems, claims, raced>>
  BY DEF Triage!RunScanner
<1>3. OfNames(raw') /\ (Triage!Happens \/ UNCHANGED triageLeft)
  BY <1>1, ScannedTyped DEF TriageTypes, FilesTyped
<1>4. FilesTyped'
  BY <1>2, <1>3 DEF TriageTypes, FilesTyped, OfNames, Triage!Whole
<1>5. \A q \in Processes : HoldsTyped(proc'[q])
  BY <1>1, ProcTyped DEF HoldsTyped
<1>. QED
  BY <1>2, <1>3, <1>4, <1>5, FewerAccidents, StoresKeep DEF TriageTypes, HoldsTyped

LEMMA TriageStepsTyped ==
    ASSUME Watchful, TriageTypes, NEW p \in Processes, Triage!TriageStarts(p) \/ Triage!Triage(p)
    PROVE  TriageTypes'
<1>0. UNCHANGED Triage!caches /\ UNCHANGED <<store, workItems, claims, raced, triageLeft>>
  BY DEF Triage!TriageStarts, Triage!Triage
<1>9. \E r : proc' = [proc EXCEPT ![p] = r] /\ HoldsTyped(r)
  <2>1. CASE Triage!TriageStarts(p)
    <3>1. HoldsTyped([at |-> "found", read |-> store.content])
      BY <2>1 DEF Triage!TriageStarts, TriageTypes, StoresTyped, HoldsTyped
    <3>. QED
      BY <2>1, <3>1 DEF Triage!TriageStarts, Triage!Goes
  <2>2. CASE Triage!Triage(p) /\ proc' = [proc EXCEPT ![p] = Triage!Idle]
    BY <2>2, IdleTyped
  <2>3. CASE Triage!Triage(p) /\ proc' # [proc EXCEPT ![p] = Triage!Idle]
    <3> DEFINE read == proc[p].read
               rows == found.content
               new == {f \in rows : Triage!KeyOf(f) \notin DOMAIN read}
               RouteOf(k) == Triage!Route(Findings[CHOOSE f \in new : Triage!KeyOf(f) = k])
               saved == [k \in DOMAIN read \union Triage!KeysOf(new) |->
                           IF k \in DOMAIN read THEN read[k] ELSE Triage!StateFor[RouteOf(k)]]
               urgent == {k \in Triage!KeysOf(new) : RouteOf(k) = "emergency"}
               r == [at |-> "save", read |-> read, rows |-> rows, store |-> saved,
                     emergency |-> urgent]
    <3>1. /\ proc' = [proc EXCEPT ![p] = r] /\ proc[p].at = "found" /\ Triage!Whole(found)
      BY <2>3 DEF Triage!Triage, Triage!Goes, Triage!Throws
    <3>2. DOMAIN read \subseteq Triage!Keys /\ rows \subseteq Triage!Names
      BY <3>1 DEF TriageTypes, HoldsTyped, FilesTyped, OfNames
    <3>3. Triage!KeysOf(new) \subseteq Triage!Keys
      BY <3>2 DEF Triage!KeysOf, Triage!Keys
    <3>4. urgent \subseteq Triage!KeysOf(new) /\ DOMAIN saved = DOMAIN read \union Triage!KeysOf(new)
      OBVIOUS
    <3> HIDE DEF new, saved, urgent
    <3>5. /\ r.at = "save" /\ r.store = saved /\ r.emergency = urgent /\ r.rows = rows
      OBVIOUS
    <3> HIDE DEF r, read, rows
    <3>6. HoldsTyped(r)
      BY <3>2, <3>3, <3>4, <3>5 DEF HoldsTyped
    <3>. QED
      BY <3>1, <3>6
  <2>. QED
    BY <2>1, <2>2, <2>3
<1>10. \A q \in Processes : HoldsTyped(proc'[q])
  BY <1>9, ProcTyped
<1>. QED
  BY <1>0, <1>10, FilesKeep, StoresKeep DEF TriageTypes, HoldsTyped

LEMMA SaveTyped ==
    ASSUME Watchful, TriageTypes, NEW p \in Processes, Triage!Save(p)
    PROVE  TriageTypes'
<1>1. /\ proc[p].at = "save" /\ UNCHANGED Triage!caches /\ UNCHANGED <<workItems, claims>>
      /\ raced' = (raced \/ store # Triage!File(proc[p].read))
      /\ Triage!Happens \/ UNCHANGED triageLeft
  BY DEF Triage!Save
<1>2. DOMAIN proc[p] = TriageFields /\ HoldsTyped(proc[p])
  BY <1>1 DEF Watchful, Holds, Plain, Triage!Idle, TriageTypes
<1>3. (raced \/ store # Triage!File(proc[p].read)) \in BOOLEAN
  OBVIOUS
<1>4. /\ \E r : proc' = [proc EXCEPT ![p] = r] /\ HoldsTyped(r)
      /\ Triage!Whole(store') => DOMAIN store'.content \subseteq Triage!Keys
  <2>1. CASE store' = Triage!Torn /\ proc' = [proc EXCEPT ![p] = Triage!Idle]
    <3>1. ~Triage!Whole(store')
      BY <2>1 DEF Triage!Torn, Triage!Whole
    <3>. QED
      BY <2>1, <3>1, IdleTyped
  <2>2. CASE /\ store' = Triage!File(proc[p].store)
             /\ proc' = [proc EXCEPT ![p] = [proc[p] EXCEPT !.at = "hand"]]
    <3> DEFINE r == [proc[p] EXCEPT !.at = "hand"]
    <3>1. /\ r.at = "hand" /\ r.rows = proc[p].rows
          /\ r.store = proc[p].store /\ r.emergency = proc[p].emergency
      BY <1>2 DEF TriageFields
    <3> HIDE DEF r
    <3>2. HoldsTyped(r)
      BY <1>1, <1>2, <3>1 DEF HoldsTyped
    <3>3. DOMAIN store'.content \subseteq Triage!Keys
      BY <1>1, <1>2, <2>2 DEF HoldsTyped, Triage!File
    <3>4. proc' = [proc EXCEPT ![p] = r]
      BY <2>2 DEF r
    <3>. QED
      BY <3>2, <3>3, <3>4
  <2>. QED
    BY <2>1, <2>2 DEF Triage!Save, Triage!Goes, Triage!Throws
<1>5. \A q \in Processes : HoldsTyped(proc'[q])
  BY <1>4, ProcTyped
<1>6. StoresTyped'
  BY <1>1, <1>4 DEF TriageTypes, StoresTyped, Triage!Whole
<1>7. raced' \in BOOLEAN
  BY <1>1, <1>3
<1>. QED
  BY <1>1, <1>5, <1>6, <1>7, FilesKeep, FewerAccidents DEF TriageTypes, HoldsTyped

LEMMA HandTyped ==
    ASSUME Watchful, TriageTypes, NEW p \in Processes, Triage!Hand(p)
    PROVE  TriageTypes'
<1>1. /\ proc[p].at = "hand" /\ UNCHANGED Triage!caches /\ UNCHANGED <<store, raced, triageLeft>>
      /\ proc' = [proc EXCEPT ![p] = Triage!Idle]
      /\ workItems' = Triage!File([emergency |-> proc[p].emergency, rows |-> proc[p].rows])
      /\ claims' = [k \in Triage!Keys |-> IF k \in proc[p].emergency THEN claims[k] + 1
                                          ELSE claims[k]]
  BY DEF Triage!Hand, Triage!Throws, Triage!Goes
<1>2. HoldsTyped(proc[p])
  BY DEF TriageTypes
<1>3. StoresTyped'
  BY <1>1, <1>2 DEF TriageTypes, StoresTyped, HoldsTyped, Triage!Whole, Triage!File
<1>4. claims' \in [Triage!Keys -> Nat]
  BY <1>1 DEF TriageTypes
<1>5. \A q \in Processes : HoldsTyped(proc'[q])
  BY <1>1, ProcTyped DEF HoldsTyped, Triage!Idle
<1>. QED
  BY <1>1, <1>3, <1>4, <1>5, FilesKeep DEF TriageTypes, HoldsTyped

LEMMA ReviewStepsTyped ==
    ASSUME Watchful, TriageTypes, NEW p \in Processes,
           Triage!ReviewStarts(p) \/ Triage!ClearOutput(p) \/ Triage!RunReview(p) \/ Triage!Compare(p)
    PROVE  TriageTypes'
<1>1. /\ UNCHANGED <<present, binary, raw, found, store, workItems, claims, raced>>
  BY DEF Triage!ReviewStarts, Triage!ClearOutput, Triage!RunReview, Triage!Compare, Triage!caches
<1>2. \E r : proc' = [proc EXCEPT ![p] = r] /\ HoldsTyped(r)
  <2>1. CASE Triage!ReviewStarts(p)
    <3> DEFINE r == [at |-> "clear", round |-> "current", current |-> {}, saw |-> {}]
    <3>1. proc' = [proc EXCEPT ![p] = r] /\ r.at = "clear"
      BY <2>1 DEF Triage!ReviewStarts, Triage!Goes
    <3> HIDE DEF r
    <3>. QED
      BY <3>1, PlainTyped
  <2>2. CASE Triage!ClearOutput(p)
    <3> DEFINE r == [proc[p] EXCEPT !.at = "review"]
    <3>1. proc[p].at = "clear" /\ proc' = [proc EXCEPT ![p] = r]
      BY <2>2 DEF Triage!ClearOutput, Triage!Goes
    <3>2. DOMAIN proc[p] = RoundFields
      BY <3>1 DEF Watchful, Holds, Plain, Triage!Idle
    <3>3. r.at = "review"
      BY <3>2 DEF RoundFields
    <3> HIDE DEF r
    <3>. QED
      BY <3>1, <3>3, PlainTyped
  <2>3. CASE Triage!RunReview(p)
    <3> DEFINE lockfiles == Triage!Runtime(IF proc[p].round = "current" THEN present ELSE Base)
               r(code) == [at |-> "compare", round |-> proc[p].round, code |-> code,
                           current |-> proc[p].current,
                           saw |-> IF proc[p].round = "current" THEN lockfiles
                                   ELSE proc[p].saw]
    <3>1. \E code \in {0, 1, 127} : proc' = [proc EXCEPT ![p] = r(code)]
      BY <2>3 DEF Triage!RunReview, Triage!Goes
    <3>2. ASSUME NEW code \in {0, 1, 127} PROVE r(code).at = "compare"
      OBVIOUS
    <3> HIDE DEF r
    <3>. QED
      BY <3>1, <3>2, PlainTyped
  <2>4. CASE Triage!Compare(p)
    <3> DEFINE s == proc[p]
               failed == ~Triage!Whole(review) \/ (s.code # 0 /\ review.content = {})
               findings == Triage!Flattened(review.content)
               r == IF failed THEN [at |-> "verdict", ok |-> FALSE, saw |-> s.saw]
                    ELSE IF s.round = "current"
                    THEN [at |-> "clear", round |-> "base", current |-> findings, saw |-> s.saw]
                    ELSE [at |-> "verdict", saw |-> s.saw,
                          ok |-> {f \in s.current : Triage!KeyOf(f) \notin
                                                       Triage!KeysOf(findings)} = {}]
    <3>1. proc' = [proc EXCEPT ![p] = r]
      BY <2>4 DEF Triage!Compare, Triage!Goes
    <3>2. r.at \in {"clear", "verdict"}
      OBVIOUS
    <3> HIDE DEF r
    <3>. QED
      BY <3>1, <3>2, PlainTyped
  <2>. QED
    BY <2>1, <2>2, <2>3, <2>4
<1>3. OfNames(review') /\ (Triage!Happens \/ UNCHANGED triageLeft)
  <2>1. CASE Triage!RunReview(p)
    <3>1. \A fs : fs \subseteq Triage!Names => Triage!Runtime(fs) \subseteq Triage!Names
      BY DEF Triage!Runtime
    <3>2. \E code : \E fs : fs \subseteq Triage!Names /\ Triage!Scanned(review, review', fs, code)
      BY <2>1, <3>1, TriageAssumption DEF Triage!RunReview, TriageTypes, FilesTyped
    <3>. QED
      BY <3>2, ScannedTyped DEF TriageTypes, FilesTyped
  <2>2. CASE Triage!ReviewStarts(p) \/ Triage!ClearOutput(p) \/ Triage!Compare(p)
    BY <2>2 DEF Triage!ReviewStarts, Triage!ClearOutput, Triage!Compare, Triage!caches,
         TriageTypes, FilesTyped, OfNames, Triage!Absent, Triage!Whole
  <2>. QED
    BY <2>1, <2>2
<1>4. FilesTyped'
  BY <1>1, <1>3 DEF TriageTypes, FilesTyped, OfNames, Triage!Whole
<1>5. \A q \in Processes : HoldsTyped(proc'[q])
  BY <1>2, ProcTyped
<1>. QED
  BY <1>1, <1>3, <1>4, <1>5, FewerAccidents, StoresKeep DEF TriageTypes, HoldsTyped

LEMMA TriageTypesStep == Watchful /\ TriageTypes /\ [Triage!Next]_triageVars => TriageTypes'
<1> SUFFICES ASSUME Watchful, TriageTypes, [Triage!Next]_triageVars PROVE TriageTypes'
  OBVIOUS
<1>1. CASE UNCHANGED triageVars
  <2>1. UNCHANGED Triage!caches /\ UNCHANGED <<store, workItems, proc, claims, raced, triageLeft>>
    BY <1>1 DEF triageVars, Triage!caches
  <2>. QED
    BY <2>1, FilesKeep, StoresKeep DEF TriageTypes, HoldsTyped
<1>3. CASE Triage!Change \/ Triage!CacheChanges
  <2>1. UNCHANGED <<raw, found, review, store, workItems, proc, claims, raced>> /\ Triage!Happens
    BY <1>3 DEF Triage!Change, Triage!CacheChanges
  <2>2. present' \subseteq Triage!Names /\ binary' \in {"none", "pinned", "other"}
    BY <1>3, TriageAssumption DEF Triage!Change, Triage!CacheChanges, TriageTypes, FilesTyped
  <2>3. FilesTyped'
    BY <2>1, <2>2 DEF TriageTypes, FilesTyped, OfNames, Triage!Whole
  <2>. QED
    BY <2>1, <2>3, StoresKeep, FewerAccidents DEF TriageTypes, HoldsTyped
<1>4. CASE \E p \in Processes :
          \/ Triage!ScanStarts(p) \/ Triage!Bootstrap(p) \/ Triage!Download(p)
          \/ Triage!Install(p) \/ Triage!Rename(p) \/ Triage!Verify(p)
          \/ Triage!RunScanner(p) \/ Triage!ReadScan(p) \/ Triage!TriageStarts(p)
          \/ Triage!Triage(p) \/ Triage!Save(p) \/ Triage!Hand(p) \/ Triage!ReviewStarts(p)
          \/ Triage!ClearOutput(p) \/ Triage!RunReview(p) \/ Triage!Compare(p)
          \/ Triage!ReviewEnds(p) \/ Triage!Kill(p)
  BY <1>4, ScanSteps, RunScannerTyped, TriageStepsTyped, SaveTyped, HandTyped, ReviewStepsTyped
<1>. QED
  BY <1>1, <1>3, <1>4, Zenon DEF Triage!Next

LEMMA TriageTyped == Watchful /\ TriageTypes => Triage!TypeOK
<1> SUFFICES ASSUME Watchful, TriageTypes PROVE Triage!TypeOK
  OBVIOUS
<1>1. \A p \in Processes : proc[p].at \in
          {"idle", "bootstrap", "download", "install", "rename", "verify", "run", "read",
           "found", "save", "hand", "clear", "review", "compare", "verdict"}
  BY DEF Watchful, Holds, Plain, Triage!Idle
<1>. QED
  BY <1>1 DEF TriageTypes, FilesTyped, StoresTyped, OfNames, Triage!TypeOK

-----------------------------------------------------------------------------
(***************************************************************************)
(* The types of the webhook fallback                                       *)
(***************************************************************************)
Envelopes == [delivery : Webhook!Ids, signed : {Webhook!Unsigned} \union Webhook!Secrets,
              at : 0..WebhookHorizon]
Ingested == [delivery : Webhook!Ids, at : 0..WebhookHorizon]

\* A source has no more failures than deliveries that are no longer to come.
Coming ==
    /\ IsFiniteSet(queue) /\ Cardinality(queue) \in Nat
    /\ arrivals \in Nat /\ arrivals <= MaxArrivals
    /\ \A s \in Webhook!Sources : failures[s] + Cardinality(queue) + arrivals <= MaxArrivals

Stamped ==
    /\ now \in 0..WebhookHorizon /\ queue \subseteq Envelopes
    /\ hookSecret \in {Webhook!Unsigned} \union Webhook!Secrets /\ secret \in Webhook!Secrets
    /\ DOMAIN idempotency \subseteq Webhook!Ids
    /\ \A i \in DOMAIN events : events[i] \in Ingested

Answered == signal.ok \in BOOLEAN /\ alarmed \in Webhook!Sources \union {Webhook!NoSource}

WebhookTypes == Coming /\ Stamped /\ Answered

LEMMA WebhookTypesStart == Webhook!Init => WebhookTypes
<1> SUFFICES ASSUME Webhook!Init PROVE WebhookTypes
  OBVIOUS
<1>1. Coming
  <2>1. IsFiniteSet(queue) /\ Cardinality(queue) = 0
    BY FS_EmptySet DEF Webhook!Init
  <2>. QED
    BY <2>1, WebhookAssumption DEF Webhook!Init, Coming
<1>2. Stamped
  BY WebhookAssumption DEF Webhook!Init, Stamped, Webhook!Secrets
<1>3. Answered
  BY DEF Webhook!Init, Answered, Webhook!NoReport
<1>. QED
  BY <1>1, <1>2, <1>3 DEF WebhookTypes

\* A delivery is handed over.
LEMMA HandedOverComing ==
    ASSUME Exact, Coming, NEW m \in queue, queue' = queue \ {m}, arrivals' = arrivals,
           \A s \in Webhook!Sources : failures'[s] \in Nat /\ failures'[s] <= failures[s] + 1
    PROVE  Coming'
<1>1. IsFiniteSet(queue') /\ Cardinality(queue') = Cardinality(queue) - 1
  BY FS_RemoveElement DEF Coming
<1>2. Cardinality(queue) # 0
  BY FS_EmptySet DEF Coming
<1>3. Cardinality(queue') \in Nat
  BY <1>1, <1>2 DEF Coming
<1>4. ASSUME NEW s \in Webhook!Sources
      PROVE  failures'[s] + Cardinality(queue') + arrivals' <= MaxArrivals
  <2>1. failures[s] \in Nat
    BY DEF Exact, Counted
  <2>. QED
    BY <1>1, <2>1, WebhookAssumption DEF Coming
<1>. QED
  BY <1>1, <1>3, <1>4 DEF Coming

LEMMA RecordTyped ==
    ASSUME Exact, WebhookTypes, NEW m \in queue, Webhook!RecordEvent(m)
    PROVE  WebhookTypes'
<1>0. /\ queue' = queue \ {m} /\ signal' = Webhook!NoReport
      /\ UNCHANGED <<now, arrivals, hookSecret, secret>>
  BY DEF Webhook!RecordEvent
<1>1. /\ m \in Envelopes /\ m.delivery \in Webhook!Ids
      /\ Webhook!Source(m.delivery) \in Webhook!Sources
  BY DEF WebhookTypes, Stamped, Envelopes, Webhook!Sources
<1>2. failures \in [Webhook!Sources -> Nat]
  BY DEF Exact, Counted
<1>3. \A s \in Webhook!Sources : failures'[s] \in Nat /\ failures'[s] <= failures[s] + 1
  BY <1>1, <1>2 DEF Webhook!RecordEvent, Webhook!Refuse, Webhook!SignatureFails, Webhook!Ingest,
     Webhook!Cleared
<1>4. Coming'
  BY <1>0, <1>3, HandedOverComing DEF WebhookTypes
<1>5. alarmed' \in Webhook!Sources \union {Webhook!NoSource}
  BY <1>1 DEF Webhook!RecordEvent, Webhook!Refuse, Webhook!SignatureFails, Webhook!Ingest
<1>6. /\ DOMAIN idempotency' \subseteq Webhook!Ids
      /\ \A i \in DOMAIN events' : events'[i] \in Ingested
  <2>1. CASE Webhook!Refuse(m) \/ Webhook!SignatureFails(m)
    BY <2>1 DEF Webhook!Refuse, Webhook!SignatureFails, WebhookTypes, Stamped
  <2>2. CASE Webhook!Ingest(m) /\ m.delivery \in Webhook!Remembered
    BY <2>2 DEF Webhook!Ingest, Webhook!Forgotten, Webhook!Remembered, WebhookTypes, Stamped
  <2>3. CASE Webhook!Ingest(m) /\ m.delivery \notin Webhook!Remembered
    <3>1. /\ DOMAIN idempotency' = Webhook!Remembered \union {m.delivery}
          /\ events' = Append(events, [delivery |-> m.delivery, at |-> m.at])
      BY <2>3 DEF Webhook!Ingest
    <3>2. [delivery |-> m.delivery, at |-> m.at] \in Ingested
      BY <1>1 DEF Envelopes, Ingested
    <3>3. events \in Seq([delivery : Webhook!Ids, at : Int])
      BY DEF Exact, Apart
    <3>4. events \in Seq(Ingested)
      BY <3>3 DEF WebhookTypes, Stamped
    <3>5. events' \in Seq(Ingested)
      BY <3>1, <3>2, <3>4
    <3>6. \A i \in DOMAIN events' : events'[i] \in Ingested
      BY <3>5
    <3>. QED
      BY <1>1, <3>1, <3>6 DEF Webhook!Remembered, WebhookTypes, Stamped
  <2>. QED
    BY <2>1, <2>2, <2>3 DEF Webhook!RecordEvent
<1>7. Stamped'
  BY <1>0, <1>6 DEF WebhookTypes, Stamped
<1>. QED
  BY <1>0, <1>4, <1>5, <1>7 DEF WebhookTypes, Answered, Webhook!NoReport

LEMMA WebhookTypesStep == Exact /\ WebhookTypes /\ [Webhook!Next]_webhookVars => WebhookTypes'
<1> SUFFICES ASSUME Exact, WebhookTypes, [Webhook!Next]_webhookVars PROVE WebhookTypes'
  OBVIOUS
<1>1. ASSUME NEW m \in queue, Webhook!RecordEvent(m)  PROVE WebhookTypes'
  BY <1>1, RecordTyped
<1>2. ASSUME NEW s \in Webhook!Sources, NEW after \in 0..now, NEW before \in 0..now,
             Webhook!Signal(s, after, before)
      PROVE  WebhookTypes'
  <2>1. UNCHANGED <<now, queue, arrivals, hookSecret, secret, idempotency, events, failures>>
    BY <1>2 DEF Webhook!Signal
  <2>2. alarmed' = Webhook!NoSource
    BY <1>2 DEF Webhook!Signal
  <2>3. signal'.ok \in BOOLEAN
    <3> DEFINE Report(order) ==
                 [ok |-> TRUE, events |-> [k \in DOMAIN order |-> events[order[k]]],
                  unlicensed |-> {t \in Unlicensed : \E k \in DOMAIN order :
                                    Deliveries[events[order[k]].delivery].type = t},
                  length |-> before - after]
    <3>1. \/ signal' = Webhook!NoReport
          \/ \E order : signal' = Report(order)
      BY <1>2 DEF Webhook!Signal
    <3>2. \A order : Report(order).ok = TRUE
      OBVIOUS
    <3> HIDE DEF Report
    <3>3. Webhook!NoReport.ok = FALSE
      BY DEF Webhook!NoReport
    <3>4. signal'.ok = TRUE \/ signal'.ok = FALSE
      BY <3>1, <3>2, <3>3
    <3>. QED
      BY <3>4
  <2>4. Answered'
    BY <2>2, <2>3 DEF Answered
  <2>. QED
    BY <2>1, <2>4 DEF WebhookTypes, Coming, Stamped
<1>10. ASSUME Webhook!Quiet PROVE Answered'
  BY <1>10 DEF Webhook!Quiet, Answered, Webhook!NoReport
<1>3. ASSUME NEW d \in Webhook!Ids, Webhook!Arrive(d, hookSecret)  PROVE WebhookTypes'
  <2> DEFINE m == [delivery |-> d, signed |-> hookSecret, at |-> now]
  <2>1. /\ arrivals > 0 /\ arrivals' = arrivals - 1 /\ queue' = queue \union {m} /\ Webhook!Quiet
        /\ UNCHANGED <<now, hookSecret, secret, idempotency, events, failures, outcomes>>
    BY <1>3 DEF Webhook!Arrive
  <2>2. m \in Envelopes
    BY DEF WebhookTypes, Stamped, Envelopes
  <2>3. Stamped'
    BY <2>1, <2>2 DEF WebhookTypes, Stamped
  <2> HIDE DEF m
  <2>4. /\ IsFiniteSet(queue') /\ Cardinality(queue') \in Nat
        /\ Cardinality(queue') <= Cardinality(queue) + 1
    BY <2>1, FS_AddElement DEF WebhookTypes, Coming
  <2>5. ASSUME NEW s \in Webhook!Sources
        PROVE  failures'[s] + Cardinality(queue') + arrivals' <= MaxArrivals
    <3>1. failures[s] \in Nat
      BY DEF Exact, Counted
    <3>. QED
      BY <2>1, <2>4, <3>1, WebhookAssumption DEF WebhookTypes, Coming
  <2>6. arrivals' \in Nat /\ arrivals' <= MaxArrivals
    BY <2>1, WebhookAssumption DEF WebhookTypes, Coming
  <2>7. Coming'
    BY <2>4, <2>5, <2>6 DEF Coming
  <2>. QED
    BY <1>10, <2>1, <2>3, <2>7 DEF WebhookTypes
<1>4. CASE Webhook!Rotate
  BY <1>4, <1>10 DEF Webhook!Rotate, WebhookTypes, Stamped, Coming
<1>5. CASE Webhook!Refresh
  BY <1>5, <1>10 DEF Webhook!Refresh, WebhookTypes, Stamped, Coming
<1>6. CASE Webhook!Tick
  <2>1. now' \in 0..WebhookHorizon
    BY <1>6, WebhookAssumption DEF Webhook!Tick, WebhookTypes, Stamped
  <2>. QED
    BY <1>6, <1>10, <2>1 DEF Webhook!Tick, WebhookTypes, Stamped, Coming
<1>7. CASE Webhook!Restart
  <2>1. Stamped'
    BY <1>7 DEF Webhook!Restart, WebhookTypes, Stamped
  <2>2. ASSUME NEW s \in Webhook!Sources
        PROVE  failures'[s] + Cardinality(queue') + arrivals' <= MaxArrivals
    <3>1. failures[s] \in Nat /\ failures'[s] = 0
      BY <1>7 DEF Webhook!Restart, Exact, Counted
    <3>2. failures[s] + Cardinality(queue) + arrivals <= MaxArrivals /\ UNCHANGED <<queue, arrivals>>
      BY <1>7 DEF Webhook!Restart, WebhookTypes, Coming
    <3>. QED
      BY <3>1, <3>2, WebhookAssumption DEF WebhookTypes, Coming
  <2>3. Coming'
    BY <1>7, <2>2 DEF Webhook!Restart, WebhookTypes, Coming
  <2>. QED
    BY <1>7, <1>10, <2>1, <2>3 DEF Webhook!Restart, WebhookTypes
<1>8. CASE UNCHANGED webhookVars
  BY <1>8 DEF webhookVars, WebhookTypes, Stamped, Coming, Answered
<1>. QED
  BY <1>1, <1>2, <1>3, <1>4, <1>5, <1>6, <1>7, <1>8 DEF Webhook!Next

LEMMA WebhookTyped == Exact /\ WebhookTypes => Webhook!TypeOK
<1> SUFFICES ASSUME Exact, WebhookTypes PROVE Webhook!TypeOK
  OBVIOUS
<1>1. failures \in [Webhook!Sources -> 0..MaxArrivals]
  <2>1. ASSUME NEW s \in Webhook!Sources PROVE failures[s] \in 0..MaxArrivals
    <3>1. failures[s] \in Nat
      BY DEF Exact, Counted
    <3>. QED
      BY <3>1, WebhookAssumption DEF WebhookTypes, Coming
  <2>2. failures \in [Webhook!Sources -> Nat]
    BY DEF Exact, Counted
  <2>. QED
    BY <2>1, <2>2
<1>2. \A d \in DOMAIN idempotency : idempotency[d] <= now
  BY DEF Exact, Apart
<1>3. arrivals \in 0..MaxArrivals
  BY WebhookAssumption DEF WebhookTypes, Coming
<1>. QED
  BY <1>1, <1>2, <1>3 DEF WebhookTypes, Stamped, Answered, Envelopes, Ingested, Webhook!TypeOK

-----------------------------------------------------------------------------
(***************************************************************************)
(* The types of the authority over a label                                 *)
(***************************************************************************)
TokenTyped(t) ==
    t = Authority!NoToken \/ (t.pod \in LabelPods /\ t.age \in 0..2 /\ t.life \in 1..Life)

AuthorityTypes ==
    /\ components \in LabelPrograms \union {{}} /\ granting \in {"none", "up"}
    /\ rest \in BOOLEAN /\ through \in Authority!WrittenAs /\ TokenTyped(token)
    /\ authorityLeft \in 0..AuthorityLimit

LEMMA AuthorityTypesStart == Authority!Init => AuthorityTypes
BY LabelAssumption DEF Authority!Init, AuthorityTypes, TokenTyped, Authority!WrittenAs

LEMMA FewerDeployments ==
    ASSUME AuthorityTypes, Authority!Spends \/ UNCHANGED authorityLeft
    PROVE  authorityLeft' \in 0..AuthorityLimit
BY LabelAssumption DEF AuthorityTypes, Authority!Spends

LEMMA DeploymentsTyped ==
    ASSUME AuthorityTypes,
           \/ \E program \in LabelPrograms \union {{}} : Authority!Up(program)
           \/ \E r \in Authority!Resources(components) : Authority!Bring(r)
           \/ \E r \in there : Authority!Remove(r)
           \/ Authority!Finish \/ Authority!Interrupt
    PROVE  AuthorityTypes'
<1>1. UNCHANGED <<rest, through, token>> /\ (Authority!Spends \/ UNCHANGED authorityLeft)
  BY DEF Authority!Up, Authority!Bring, Authority!Remove, Authority!Finish, Authority!Interrupt
<1>2. components' \in LabelPrograms \union {{}} /\ granting' \in {"none", "up"}
  BY DEF Authority!Up, Authority!Bring, Authority!Remove, Authority!Finish, Authority!Interrupt,
     AuthorityTypes
<1>. QED
  BY <1>1, <1>2, FewerDeployments DEF AuthorityTypes

LEMMA WritesTyped ==
    ASSUME Entitled, AuthorityTypes,
           \/ Authority!Tick \/ Authority!Send \/ Authority!OtherWrite
           \/ \E pod \in LabelPods : Authority!Sign(pod)
    PROVE  AuthorityTypes'
<1>1. /\ UNCHANGED <<components, granting>>
      /\ Authority!Spends \/ UNCHANGED authorityLeft
  BY DEF Authority!Tick, Authority!Send, Authority!OtherWrite, Authority!Sign, Authority!deployment
<1>2. rest' \in BOOLEAN /\ TokenTyped(token')
  <2>1. CASE Authority!Tick
    <3>1. /\ token # Authority!NoToken /\ token.age < 2 /\ token' = [token EXCEPT !.age = @ + 1]
          /\ rest' = rest
      BY <2>1 DEF Authority!Tick
    <3>2. /\ token.pod \in LabelPods /\ token.age \in 0..2 /\ token.life \in 1..Life
          /\ DOMAIN token = {"pod", "name", "age", "life"}
      BY <3>1 DEF AuthorityTypes, TokenTyped, Entitled, Signed
    <3>3. token'.pod = token.pod /\ token'.life = token.life /\ token'.age = token.age + 1
      BY <3>1, <3>2
    <3>4. token'.age \in 0..2
      BY <3>1, <3>2, <3>3
    <3>. QED
      BY <3>1, <3>2, <3>3, <3>4 DEF AuthorityTypes, TokenTyped
  <2>2. CASE Authority!Send
    <3>1. token' = Authority!NoToken
      BY <2>2 DEF Authority!Send
    <3>2. rest' = rest \/ \E w \in Authority!Labels \X BOOLEAN : rest' = w[2]
      BY <2>2 DEF Authority!Send, Authority!Admitted
    <3>. QED
      BY <3>1, <3>2 DEF AuthorityTypes, TokenTyped
  <2>3. CASE Authority!OtherWrite
    BY <2>3 DEF Authority!OtherWrite, AuthorityTypes
  <2>4. ASSUME NEW pod \in LabelPods, Authority!Sign(pod)
        PROVE  rest' \in BOOLEAN /\ TokenTyped(token')
    <3>1. PICK a \in Authority!Roles(pod), life \in 0..(Life + 1) :
             /\ Authority!Lasting(life)
             /\ token' = [pod |-> pod, name |-> a.name, age |-> 0, life |-> life]
      BY <2>4 DEF Authority!Sign
    <3>2. life \in 1..Life
      BY <3>1, LabelAssumption DEF Authority!Lasting
    <3>3. token'.pod = pod /\ token'.age = 0 /\ token'.life = life
      BY <3>1
    <3>. QED
      BY <2>4, <3>2, <3>3 DEF Authority!Sign, AuthorityTypes, TokenTyped
  <2>. QED
    BY <2>1, <2>2, <2>3, <2>4
<1>3. through' \in Authority!WrittenAs
  BY DEF Authority!Tick, Authority!Send, Authority!OtherWrite, Authority!Sign, AuthorityTypes
<1>. QED
  BY <1>1, <1>2, <1>3, FewerDeployments DEF AuthorityTypes, TokenTyped

LEMMA AuthorityTypesStep ==
    Entitled /\ AuthorityTypes /\ [Authority!Next]_authorityVars => AuthorityTypes'
<1> SUFFICES ASSUME Entitled, AuthorityTypes, [Authority!Next]_authorityVars PROVE AuthorityTypes'
  OBVIOUS
<1>1. CASE UNCHANGED authorityVars
  BY <1>1 DEF authorityVars, AuthorityTypes, TokenTyped
<1>2. CASE Authority!Next
  BY <1>2, DeploymentsTyped, WritesTyped DEF Authority!Next
<1>. QED
  BY <1>1, <1>2

LEMMA AuthorityTyped == Entitled /\ AuthorityTypes => Authority!TypeOK
<1> SUFFICES ASSUME Entitled, AuthorityTypes PROVE Authority!TypeOK
  OBVIOUS
<1>1. there \subseteq Authority!Resources(Authority!AllArgs)
  BY DEF Entitled, Declared, Authority!Resources
<1>2. started \subseteq components
  BY DEF Entitled, Provided
<1>. QED
  BY <1>1, <1>2 DEF AuthorityTypes, TokenTyped, Entitled, Authority!TypeOK

-----------------------------------------------------------------------------
(***************************************************************************)
(* The types of the capability issuer                                      *)
(***************************************************************************)
Identities == {Issuer!Identity(IssuerPlans[b]) : b \in Issuer!Boundaries}

IssuerTypes ==
    /\ goal \in Issuer!Boundaries \union {Issuer!None}
    /\ op \in {"none", "up", "cleanup", "destroy"}
    /\ accounts \subseteq Identities
    /\ IsFiniteSet(pods) /\ Cardinality(pods) <= MaxPods
    /\ issuerLeft \in 0..IssuerLimit

LEMMA IssuerTypesStart == Issuer!Init => IssuerTypes
<1> SUFFICES ASSUME Issuer!Init PROVE IssuerTypes
  OBVIOUS
<1>1. IsFiniteSet(pods) /\ Cardinality(pods) = 0
  BY FS_EmptySet DEF Issuer!Init
<1>. QED
  BY <1>1, IssuerAssumption DEF Issuer!Init, IssuerTypes

LEMMA FewerRollouts ==
    ASSUME IssuerTypes, Issuer!Spends \/ UNCHANGED issuerLeft
    PROVE  issuerLeft' \in 0..IssuerLimit
BY IssuerAssumption DEF IssuerTypes, Issuer!Spends

\* Deployments.
LEMMA RolloutsTyped ==
    ASSUME Closed, IssuerTypes,
           \/ Issuer!Up \/ Issuer!Applied \/ Issuer!DeleteReplaced \/ Issuer!Destroy
           \/ Issuer!Ends \/ Issuer!Interrupt \/ Issuer!Activate
           \/ \E r \in Issuer!Resources : Issuer!Apply(r) \/ Issuer!Delete(r)
    PROVE  IssuerTypes'
<1>1. UNCHANGED pods /\ (Issuer!Spends \/ UNCHANGED issuerLeft)
  BY DEF Issuer!Up, Issuer!Applied, Issuer!DeleteReplaced, Issuer!Destroy, Issuer!Ends,
     Issuer!Interrupt, Issuer!Activate, Issuer!Apply, Issuer!Delete, Issuer!Cluster
<1>2. /\ goal' \in Issuer!Boundaries \union {Issuer!None}
      /\ op' \in {"none", "up", "cleanup", "destroy"}
  BY DEF Issuer!Up, Issuer!Applied, Issuer!DeleteReplaced, Issuer!Destroy, Issuer!Ends,
     Issuer!Interrupt, Issuer!Activate, Issuer!Apply, Issuer!Delete, IssuerTypes
<1>3. op \in {"up", "cleanup"} => Issuer!Identity(IssuerPlans[goal]) \in Identities
  BY DEF Closed, Orderly, Identities
<1>4. accounts' \subseteq Identities
  <2>1. CASE \E r \in Issuer!Resources : Issuer!Apply(r)
    BY <1>3, <2>1 DEF Issuer!Apply, IssuerTypes
  <2>2. CASE Issuer!DeleteReplaced
    BY <1>3, <2>2 DEF Issuer!DeleteReplaced
  <2>3. CASE \E r \in Issuer!Resources : Issuer!Delete(r)
    BY <2>3 DEF Issuer!Delete, IssuerTypes
  <2>4. CASE \/ Issuer!Up \/ Issuer!Applied \/ Issuer!Destroy \/ Issuer!Ends
             \/ Issuer!Interrupt \/ Issuer!Activate
    BY <2>4 DEF Issuer!Up, Issuer!Applied, Issuer!Destroy, Issuer!Ends, Issuer!Interrupt,
       Issuer!Activate, Issuer!Cluster, IssuerTypes
  <2>. QED
    BY <2>1, <2>2, <2>3, <2>4
<1>. QED
  BY <1>1, <1>2, <1>4, FewerRollouts DEF IssuerTypes

\* Pods.
LEMMA PodsTyped ==
    ASSUME IssuerTypes,
           \/ \E namespace, declared : Issuer!Create(namespace, declared)
           \/ Issuer!ChangePod
    PROVE  IssuerTypes'
<1>1. UNCHANGED <<op, goal, accounts, issuerLeft>>
  BY DEF Issuer!Create, Issuer!ChangePod
<1>2. IsFiniteSet(pods') /\ Cardinality(pods') <= MaxPods
  <2>0. Cardinality(pods) \in Nat /\ MaxPods \in Nat
    BY FS_CardinalityType, IssuerAssumption DEF IssuerTypes
  <2>1. CASE \E namespace, declared : Issuer!Create(namespace, declared)
    <3>1. Cardinality(pods) < MaxPods /\ \E q : pods' = pods \union {q}
      BY <2>1, SameSize DEF Issuer!Create
    <3>2. PICK q : pods' = pods \union {q}
      BY <3>1
    <3>3. /\ IsFiniteSet(pods')
          /\ Cardinality(pods') = IF q \in pods THEN Cardinality(pods) ELSE Cardinality(pods) + 1
      BY <3>2, FS_AddElement DEF IssuerTypes
    <3>. QED
      BY <2>0, <3>1, <3>3
  <2>2. CASE Issuer!ChangePod
    <3>1. \E p \in pods : \E q : pods' = (pods \ {p}) \union {q}
      BY <2>2 DEF Issuer!ChangePod
    <3>2. PICK p \in pods : \E q : pods' = (pods \ {p}) \union {q}
      BY <3>1
    <3>3. PICK q : pods' = (pods \ {p}) \union {q}
      BY <3>2
    <3>4. IsFiniteSet(pods \ {p}) /\ Cardinality(pods \ {p}) = Cardinality(pods) - 1
      BY FS_RemoveElement DEF IssuerTypes
    <3>5. /\ IsFiniteSet(pods')
          /\ \/ Cardinality(pods') = Cardinality(pods \ {p})
             \/ Cardinality(pods') = Cardinality(pods \ {p}) + 1
      BY <3>3, <3>4, FS_AddElement
    <3>6. Cardinality(pods) <= MaxPods
      BY DEF IssuerTypes
    <3>. QED
      BY <2>0, <3>4, <3>5, <3>6
  <2>. QED
    BY <2>1, <2>2
<1>. QED
  BY <1>1, <1>2 DEF IssuerTypes

LEMMA IssuerTypesStep == Closed /\ IssuerTypes /\ [Issuer!Next]_issuerVars => IssuerTypes'
<1> SUFFICES ASSUME Closed, IssuerTypes, [Issuer!Next]_issuerVars PROVE IssuerTypes'
  OBVIOUS
<1>1. CASE UNCHANGED issuerVars
  BY <1>1 DEF issuerVars, IssuerTypes
<1>2. CASE Issuer!OwnPod \/ Issuer!ForeignPod \/ Issuer!ChangePod
  <2>1. (\E namespace, declared : Issuer!Create(namespace, declared)) \/ Issuer!ChangePod
    BY <1>2 DEF Issuer!OwnPod, Issuer!ForeignPod
  <2>. QED
    BY <2>1, PodsTyped
<1>3. CASE \/ Issuer!Up \/ Issuer!Applied \/ Issuer!DeleteReplaced \/ Issuer!Destroy
           \/ Issuer!Ends \/ Issuer!Interrupt \/ Issuer!Activate
           \/ \E r \in Issuer!Resources : Issuer!Apply(r) \/ Issuer!Delete(r)
  BY <1>3, RolloutsTyped
<1>. QED
  BY <1>1, <1>2, <1>3 DEF Issuer!Next

LEMMA IssuerTyped == Closed /\ IssuerTypes => Issuer!TypeOK
<1> SUFFICES ASSUME Closed, IssuerTypes PROVE Issuer!TypeOK
  OBVIOUS
<1>1. Issuer!Cardinality(pods) <= MaxPods
  BY SameSize DEF IssuerTypes
<1>2. /\ live \in [Issuer!Resources -> Issuer!Boundaries \union {Issuer!None}]
      /\ deployments \union activated \subseteq Issuer!Boundaries
      /\ active => live["gate"] \in activated
  BY DEF Closed, Orderly
<1>. QED
  BY <1>1, <1>2 DEF IssuerTypes, Identities, Issuer!TypeOK

-----------------------------------------------------------------------------
(***************************************************************************)
(* The types of deployments and their sessions                             *)
(***************************************************************************)
\* Of each name one resource is deployed.
TrustTypes ==
    /\ \A r, s \in deployed : Trust!Urn(r) = Trust!Urn(s) => r = s
    /\ wanted \in DOMAIN TrustingPrograms \union {Trust!None} /\ deploying \in {"none", "up"}
    /\ outcome \in {"none", "refused", "failed", "stopped", "ok"}
    /\ IsFiniteSet(sessions) /\ Cardinality(sessions) <= MaxSessions
    /\ clock \in 0..TrustHorizon /\ trustLeft \in 0..TrustLimit

LEMMA TrustTypesStart == Trust!Init => TrustTypes
<1> SUFFICES ASSUME Trust!Init PROVE TrustTypes
  OBVIOUS
<1>1. IsFiniteSet(sessions) /\ Cardinality(sessions) = 0
  BY FS_EmptySet DEF Trust!Init
<1>. QED
  BY <1>1, TrustAssumption DEF Trust!Init, TrustTypes

LEMMA FewerChanges ==
    ASSUME TrustTypes, Trust!Spends \/ UNCHANGED trustLeft
    PROVE  trustLeft' \in 0..TrustLimit
BY TrustAssumption DEF TrustTypes, Trust!Spends

LEMMA RegisterTyped ==
    ASSUME TrustTypes, NEW r, Trust!Register(r)
    PROVE  TrustTypes'
<1>1. UNCHANGED <<wanted, sessions, clock, trustLeft>>
  BY DEF Trust!Register
<1>2. \/ deployed' = Trust!Others(r) \union {r} \/ deployed' = deployed
  BY DEF Trust!Register
<1>3. \A x, y \in deployed' : Trust!Urn(x) = Trust!Urn(y) => x = y
  BY <1>2 DEF Trust!Others, TrustTypes
<1>4. deploying' \in {"none", "up"} /\ outcome' \in {"none", "refused", "failed", "stopped", "ok"}
  BY DEF Trust!Register, TrustTypes
<1>. QED
  BY <1>1, <1>3, <1>4 DEF TrustTypes

LEMMA AssumeTyped ==
    ASSUME TrustTypes, Trust!Assume
    PROVE  TrustTypes'
<1>1. /\ Cardinality(sessions) < MaxSessions /\ \E q : sessions' = sessions \union {q}
      /\ UNCHANGED <<deployed, wanted, deploying, outcome, clock, trustLeft>>
  BY TrustCounts DEF Trust!Assume
<1>2. PICK q : sessions' = sessions \union {q}
  BY <1>1
<1>3. /\ IsFiniteSet(sessions')
      /\ Cardinality(sessions') = IF q \in sessions THEN Cardinality(sessions)
                                  ELSE Cardinality(sessions) + 1
  BY <1>2, FS_AddElement DEF TrustTypes
<1>4. Cardinality(sessions) \in Nat /\ MaxSessions \in Nat
  BY FS_CardinalityType, TrustAssumption DEF TrustTypes
<1>5. Cardinality(sessions') <= MaxSessions
  BY <1>1, <1>3, <1>4
<1>. QED
  BY <1>1, <1>3, <1>5 DEF TrustTypes

LEMMA TrustTypesStep == Bounded /\ TrustTypes /\ [Trust!Next]_trustVars => TrustTypes'
<1> SUFFICES ASSUME Bounded, TrustTypes, [Trust!Next]_trustVars PROVE TrustTypes'
  OBVIOUS
<1>1. CASE UNCHANGED trustVars
  BY <1>1 DEF trustVars, TrustTypes
<1>2. CASE Trust!Up \/ Trust!Interrupt \/ Trust!ChangeTemplate
  <2>1. UNCHANGED <<deployed, sessions, clock>> /\ Trust!Spends
    BY <1>2 DEF Trust!Up, Trust!Interrupt, Trust!ChangeTemplate
  <2>2. /\ wanted' \in DOMAIN TrustingPrograms \union {Trust!None} /\ deploying' \in {"none", "up"}
        /\ outcome' \in {"none", "refused", "failed", "stopped", "ok"}
    BY <1>2 DEF Trust!Up, Trust!Interrupt, Trust!ChangeTemplate, TrustTypes
  <2>. QED
    BY <2>1, <2>2, FewerChanges DEF TrustTypes
<1>3. CASE Trust!Finish
  <2>1. /\ UNCHANGED <<wanted, sessions, clock, trustLeft>> /\ deploying' = "none"
        /\ deployed' \subseteq deployed /\ outcome' \in {"ok", "failed"}
    BY <1>3 DEF Trust!Finish
  <2>. QED
    BY <2>1 DEF TrustTypes
<1>4. CASE Trust!Tick
  <2>1. clock' \in 0..TrustHorizon
    BY <1>4, TrustAssumption DEF Trust!Tick, TrustTypes
  <2>. QED
    BY <1>4, <2>1 DEF Trust!Tick, TrustTypes
<1>. QED
  BY <1>1, <1>2, <1>3, <1>4, AssumeTyped, RegisterTyped DEF Trust!Next

LEMMA TrustTyped == Bounded /\ TrustTypes => Trust!TypeOK
<1> SUFFICES ASSUME Bounded, TrustTypes PROVE Trust!TypeOK
  OBVIOUS
<1>1. Trust!Cardinality(sessions) <= MaxSessions
  BY TrustCounts DEF TrustTypes
<1>. QED
  BY <1>1 DEF Bounded, TrustTypes, Trust!TypeOK
=============================================================================
