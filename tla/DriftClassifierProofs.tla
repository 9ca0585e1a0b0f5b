------------------------ MODULE DriftClassifierProofs ------------------------
(***************************************************************************)
(* The cache of the drift classifier, for any number of callers, any file  *)
(* at first and any answers: types, and what is behind a stored verdict.   *)
(***************************************************************************)
EXTENDS DriftClassifier, TLAPS

(***************************************************************************)
(* Verdicts                                                                *)
(***************************************************************************)
LEMMA VerdictsAreVerdicts ==
    ASSUME NEW s \in Signals, NEW probe \in Probes
    PROVE  Classified(s, probe) \in Verdicts
<1> DEFINE first == HardenedVerdict(Snapshot(s, probe))
           second == Corrected(s, first)
<1>1. first \in Verdicts
  BY DEF HardenedVerdict, Snapshot, Verdict, Verdicts, Sources, Confidences
<1>2. second \in Verdicts
  <2> HIDE DEF first
  <2>1. QED
    BY <1>1 DEF Corrected, Verdict, Verdicts, Sources, Confidences
<1>3. QED
  <2> HIDE DEF first, second
  <2>1. Attributed(s, second) \in Verdicts
    BY <1>2 DEF Attributed, Verdict, Verdicts, Sources, Confidences
  <2>2. QED
    BY <2>1 DEF Classified, first, second

LEMMA RanksAreSmall ==
    ASSUME NEW confidence \in Confidences
    PROVE  Rank(confidence) \in 0 .. 3
BY DEF Rank, Confidences

\* A verdict that passes the gates is one the answers support.
LEMMA KeptVerdictsAreSupported ==
    ASSUME NEW s \in Signals, NEW probe \in Probes, NEW threshold, ~ Degraded(s),
           MeetsMinConfidence(Classified(s, probe), threshold)
    PROVE  Supported(s, Classified(s, probe))
<1> DEFINE first == HardenedVerdict(Snapshot(s, probe))
           second == Corrected(s, first)
           third == Attributed(s, second)
<1>1. s.auto = "detected"
  <2>1. SUFFICES ASSUME s.auto # "detected" PROVE FALSE
    OBVIOUS
  <2>2. first = Verdict("None", "none")
    BY <2>1 DEF HardenedVerdict, Snapshot
  <2>3. second = first
    BY <2>1, <2>2 DEF Corrected, Verdict
  <2>4. third = Verdict("None", "none")
    BY <2>1, <2>2, <2>3 DEF Attributed
  <2>5. QED
    BY <2>4 DEF Classified, MeetsMinConfidence, Rank, Verdict
<1>2. "failed" \notin {s.auto, s.pv}
  BY DEF Degraded
<1>3. CASE s.ct = "detected"
  <2>1. second = Verdict(IF s.pv = "detected" THEN "Mixed" ELSE "ConsoleBreakGlass", "high")
    BY <1>1, <1>3 DEF Corrected
  <2>2. third = second
    BY <2>1 DEF Attributed, Verdict
  <2>3. QED
    BY <1>1, <1>2, <1>3, <2>1, <2>2 DEF Classified, Supported, Verdict
<1>4. CASE s.ct # "detected"
  <2>1. \/ second = Verdict("ProviderApiChurn", "medium") /\ s.pv = "detected"
        \/ second = Verdict("Unknown", "low")
    BY <1>1, <1>4 DEF HardenedVerdict, Snapshot, Corrected, Verdict
  <2>2. \/ third = Verdict("ProviderApiChurn", "medium") /\ s.pv = "detected"
        \/ third = Verdict("GenuineIacDrift", "medium") /\ s.gl = "detected"
        \/ third = Verdict("Unknown", "low") /\ s.gl # "detected"
    BY <1>1, <2>1 DEF Attributed, Verdict
  <2>3. QED
    BY <1>1, <1>2, <1>4, <2>2 DEF Classified, Supported, Verdict
<1>5. QED
  BY <1>3, <1>4

(***************************************************************************)
(* Types                                                                   *)
(***************************************************************************)
\* What a call holds, by where it stands.
LEMMA CallShapes ==
    ASSUME NEW state \in Calls
    PROVE  /\ state.pc = "settle" => state.ts \in Nat
           /\ state.pc = "probe" => state.ts \in Nat /\ state.signals \in SignalSets
           /\ state.pc \in {"reread", "open", "fill"} =>
                 state = [pc |-> state.pc, entry |-> state.entry] /\ state.entry \in Entries
           /\ state.pc = "idle" <=> state = Idle
BY DEF Calls, Idle

LEMMA MigrationShapes ==
    ASSUME NEW state \in Migrations
    PROVE  /\ state # Idle => /\ state.pc \in {"backup", "copy", "open", "fill"}
                             /\ state = [pc |-> state.pc, raw |-> state.raw]
                             /\ state.raw \in Entries
           /\ state = Idle <=> state.pc = "idle"
BY DEF Migrations, Idle

LEMMA RankOfContents ==
    ASSUME NEW content \in Contents
    PROVE  RankOf(content) \in 0 .. 3
<1>1. content.version = 2 => content \in Entries
  BY DEF Contents, Missing, Empty, Garbled, Foreign, Nothing
<1>2. content.version = 2 => content.verdict.confidence \in Confidences
  BY <1>1 DEF Entries, Verdicts
<1>3. QED
  BY <1>2, RanksAreSmall DEF RankOf

LEMMA OpenFileTypes ==
    ASSUME NEW a \in Actors, file \in Contents, handles \subseteq Actors, OpenFile(a)
    PROVE  file' \in Contents /\ handles' \subseteq Actors
BY DEF OpenFile, Contents

LEMMA FillFileTypes ==
    ASSUME NEW a, NEW entry \in Entries, file \in Contents, handles \subseteq Actors,
           peak \in 0 .. 3, FillFile(a, entry)
    PROVE  file' \in Contents /\ handles' \subseteq Actors /\ peak' \in 0 .. 3
<1>1. file' \in Contents /\ handles' \subseteq Actors
  BY DEF FillFile, Contents
<1>2. RankOf(file') \in 0 .. 3
  BY <1>1, RankOfContents
<1>3. QED
  BY <1>1, <1>2 DEF FillFile

\* The verdict of a call is stored as an entry.
LEMMA EnvelopeTypes ==
    ASSUME NEW c, call[c].ts \in Nat, call[c].signals \in SignalSets, NEW probe \in Probes
    PROVE  Envelope(c, Classified(call[c].signals, probe)) \in Entries
<1>1. Classified(call[c].signals, probe) \in Verdicts
  BY ClassifierAssumption, VerdictsAreVerdicts
<1>2. QED
  BY <1>1 DEF Envelope, Entries

LEMMA InitTypes == Init => TypeOK
<1> SUFFICES ASSUME Init PROVE TypeOK
  OBVIOUS
<1>1. file \in Contents
  BY ClassifierAssumption DEF Init
<1>2. peak \in 0 .. 3
  BY <1>1, RankOfContents DEF Init
<1>3. legacy \subseteq {e \in Entries : e.version = 1}
  BY <1>1 DEF Init, Contents, Missing, Empty, Garbled, Foreign, Nothing
<1>4. call \in [Callers -> Calls] /\ migration \in Migrations
  <2>1. Idle \in Calls /\ Idle \in Migrations
    BY DEF Calls, Migrations
  <2>2. QED
    BY <2>1 DEF Init
<1>5. quota \in 0 .. MaxDisturbances /\ now \in Nat /\ torn \in BOOLEAN
  <2>1. quota = MaxDisturbances /\ now = 0
    BY Zenon DEF Init
  <2>2. torn \in BOOLEAN
    BY Zenon DEF Init
  <2>3. QED
    BY <2>1, <2>2, ClassifierAssumption
<1>6. handles \subseteq Actors /\ backup \in {Missing, Empty} \union {e \in Entries : e.version = 1}
  BY DEF Init
<1>7. QED
  BY <1>1, <1>2, <1>3, <1>4, <1>5, <1>6 DEF TypeOK

\* Where a step leaves the call it moves.
LEMMA GotoTypes ==
    ASSUME NEW c \in Callers, NEW state \in Calls, call \in [Callers -> Calls],
           Goto(c, state)
    PROVE  call' \in [Callers -> Calls]
BY DEF Goto

LEMMA Repointed ==
    ASSUME NEW state, state = [pc |-> state.pc, entry |-> state.entry], NEW pc
    PROVE  [state EXCEPT !.pc = pc] = [pc |-> pc, entry |-> state.entry]
OBVIOUS

\* The steps of a call keep the types.
LEMMA CallTypes ==
    ASSUME TypeOK, NEW c \in Callers,
           Start(c) \/ CallStep(c) \/ ProbeAnswers(c) \/ CallDies(c)
    PROVE  TypeOK'
<1> DEFINE state == call[c]
<1>0. state \in Calls
  BY DEF TypeOK
<1>1. CASE Start(c)
  <2>1. call' \in [Callers -> Calls]
    BY <1>1, GotoTypes DEF TypeOK, Start, Calls
  <2>2. QED
    BY <1>1, <2>1 DEF TypeOK, Start, Rest, fileVars
<1>2. CASE ServeCached(c)
  <2>1. call' \in [Callers -> Calls]
    BY <1>2, GotoTypes DEF TypeOK, ServeCached, Calls
  <2>2. QED
    BY <1>2, <2>1 DEF TypeOK, ServeCached, Rest, fileVars
<1>3. CASE AskAdapters(c)
  <2>1. call' \in [Callers -> Calls]
    BY <1>3, GotoTypes DEF TypeOK, AskAdapters, Calls
  <2>2. QED
    BY <1>3, <2>1 DEF TypeOK, AskAdapters, Rest, fileVars
<1>4. CASE AdaptersSettle(c)
  <2>1. state.ts \in Nat
    BY <1>0, <1>4, CallShapes DEF AdaptersSettle
  <2>2. call' \in [Callers -> Calls]
    BY <1>4, <2>1, GotoTypes DEF TypeOK, AdaptersSettle, Calls
  <2>3. QED
    BY <1>4, <2>2 DEF TypeOK, AdaptersSettle, Rest, fileVars
<1>5. ASSUME NEW probe \in Probes, Judge(c, probe) PROVE TypeOK'
  <2>1. state.ts \in Nat /\ state.signals \in SignalSets
    BY <1>0, <1>5, CallShapes DEF Judge
  <2>2. Envelope(c, Classified(state.signals, probe)) \in Entries
    BY <2>1, EnvelopeTypes
  <2>3. Idle \in Calls
    BY DEF Calls
  <2>4. [pc |-> "reread", entry |-> Envelope(c, Classified(state.signals, probe))] \in Calls
    BY <2>2 DEF Calls
  <2>5. call' \in [Callers -> Calls]
    BY <1>5, <2>3, <2>4, GotoTypes DEF TypeOK, Judge
  <2>6. QED
    BY <1>5, <2>5 DEF TypeOK, Judge, Rest, fileVars
<1>6. CASE ProbeAnswers(c)
  BY <1>5, <1>6 DEF ProbeAnswers
<1>7. CASE ProbeEnds(c)
  <2>1. ProbeFailed \in Probes
    BY DEF Probes
  <2>2. QED
    BY <1>5, <1>7, <2>1 DEF ProbeEnds
<1>8. CASE Reread(c)
  <2>1. state.entry \in Entries /\ state = [pc |-> "reread", entry |-> state.entry]
    BY <1>0, <1>8, CallShapes DEF Reread
  <2>2. Idle \in Calls /\ [state EXCEPT !.pc = "open"] \in Calls
    BY <2>1 DEF Calls
  <2>3. call' \in [Callers -> Calls]
    BY <1>8, <2>2, GotoTypes DEF TypeOK, Reread
  <2>4. torn' \in BOOLEAN
    BY <1>8 DEF TypeOK, Reread, Overlaps
  <2>5. QED
    BY <1>8, <2>3, <2>4 DEF TypeOK, Reread, Rest
<1>9. CASE OpenCache(c)
  <2>1. state.entry \in Entries /\ state = [pc |-> "open", entry |-> state.entry]
    BY <1>0, <1>9, CallShapes DEF OpenCache
  <2>2. [state EXCEPT !.pc = "fill"] \in Calls
    BY <2>1 DEF Calls
  <2>3. call' \in [Callers -> Calls]
    BY <1>9, <2>2, GotoTypes DEF TypeOK, OpenCache
  <2>4. file' \in Contents /\ handles' \subseteq Actors
    BY <1>9, OpenFileTypes DEF TypeOK, OpenCache, Actors
  <2>5. QED
    BY <1>9, <2>3, <2>4 DEF TypeOK, OpenCache, Rest
<1>10. CASE FillCache(c)
  <2>1. state.entry \in Entries
    BY <1>0, <1>10, CallShapes DEF FillCache
  <2>2. call' \in [Callers -> Calls]
    BY <1>10, GotoTypes DEF TypeOK, FillCache, Calls
  <2>3. file' \in Contents /\ handles' \subseteq Actors /\ peak' \in 0 .. 3
    BY <1>10, <2>1, FillFileTypes DEF TypeOK, FillCache
  <2>4. QED
    BY <1>10, <2>2, <2>3 DEF TypeOK, FillCache, Rest
<1>11. CASE CallDies(c)
  <2>1. call' \in [Callers -> Calls]
    BY <1>11, GotoTypes DEF TypeOK, CallDies, Calls
  <2>2. quota' \in 0 .. MaxDisturbances
    BY <1>11, ClassifierAssumption DEF TypeOK, CallDies, Disturb
  <2>3. torn' \in BOOLEAN /\ handles' \subseteq Actors
    BY <1>11 DEF TypeOK, CallDies
  <2>4. QED
    BY <1>11, <2>1, <2>2, <2>3 DEF TypeOK, CallDies
<1>12. QED
  BY <1>1, <1>2, <1>3, <1>4, <1>6, <1>7, <1>8, <1>9, <1>10, <1>11 DEF CallStep
\* A v1 entry stays an entry when its version is raised.
LEMMA MigratedTypes ==
    ASSUME NEW raw \in Entries
    PROVE  Migrated(raw) \in Entries /\ Migrated(raw).version = 2
BY DEF Migrated, Entries

\* So do the steps of the migration, of the clock and of whoever invalidates.
LEMMA OtherTypes ==
    ASSUME TypeOK, ReadLegacy \/ MigrationStep \/ MigrationDies \/ Invalidate \/ Tick,
           migration # Idle => migration.raw.version = 1
    PROVE  TypeOK'
<1> DEFINE raw == migration.raw
<1>0. migration \in Migrations
  BY DEF TypeOK
<1>1. CASE ReadLegacy
  <2>1. file \in Entries
    BY <1>1 DEF TypeOK, ReadLegacy, Contents, Missing, Empty, Garbled, Foreign, Nothing
  <2>2. migration' \in Migrations
    BY <1>1, <2>1 DEF ReadLegacy, Migrate, Migrations
  <2>3. torn' \in BOOLEAN
    BY <1>1 DEF TypeOK, ReadLegacy, Overlaps
  <2>4. QED
    BY <1>1, <2>2, <2>3 DEF TypeOK, ReadLegacy, Migrate
<1>2. CASE OpenBackup
  <2>1. migration = [pc |-> "backup", raw |-> raw] /\ raw \in Entries
    BY <1>0, <1>2, MigrationShapes DEF OpenBackup, Idle
  <2>2. migration' \in Migrations
    BY <1>2, <2>1 DEF OpenBackup, Migrate, Migrations
  <2>3. QED
    BY <1>2, <2>2 DEF TypeOK, OpenBackup, Migrate, fileVars
<1>3. CASE FillBackup
  <2>1. migration = [pc |-> "copy", raw |-> raw] /\ raw \in Entries
    BY <1>0, <1>3, MigrationShapes DEF FillBackup, Idle
  <2>2. migration' \in Migrations
    BY <1>3, <2>1 DEF FillBackup, Migrate, Migrations
  <2>3. backup' \in {e \in Entries : e.version = 1}
    BY <1>3, <2>1 DEF FillBackup, Idle
  <2>4. QED
    BY <1>3, <2>2, <2>3 DEF TypeOK, FillBackup, Migrate, fileVars
<1>4. CASE OpenMigrated
  <2>1. migration = [pc |-> "open", raw |-> raw] /\ raw \in Entries
    BY <1>0, <1>4, MigrationShapes DEF OpenMigrated, Idle
  <2>2. migration' \in Migrations
    BY <1>4, <2>1 DEF OpenMigrated, Migrate, Migrations
  <2>3. file' \in Contents /\ handles' \subseteq Actors
    BY <1>4, OpenFileTypes DEF TypeOK, OpenMigrated, Actors
  <2>4. QED
    BY <1>4, <2>2, <2>3 DEF TypeOK, OpenMigrated, Migrate
<1>5. CASE FillMigrated
  <2>1. raw \in Entries
    BY <1>0, <1>5, MigrationShapes DEF FillMigrated, Idle
  <2>2. migration' \in Migrations
    BY <1>5 DEF FillMigrated, Migrate, Migrations
  <2>3. file' \in Contents /\ handles' \subseteq Actors /\ peak' \in 0 .. 3
    BY <1>5, <2>1, MigratedTypes, FillFileTypes DEF TypeOK, FillMigrated
  <2>4. QED
    BY <1>5, <2>2, <2>3 DEF TypeOK, FillMigrated, Migrate
<1>6. CASE MigrationDies
  <2>1. migration' \in Migrations /\ torn' \in BOOLEAN /\ handles' \subseteq Actors
    BY <1>6 DEF TypeOK, MigrationDies, Migrations
  <2>2. quota' \in 0 .. MaxDisturbances
    BY <1>6, ClassifierAssumption DEF TypeOK, MigrationDies, Disturb
  <2>3. QED
    BY <1>6, <2>1, <2>2 DEF TypeOK, MigrationDies
<1>7. CASE Invalidate
  <2>1. quota' \in 0 .. MaxDisturbances
    BY <1>7, ClassifierAssumption DEF TypeOK, Invalidate, Disturb
  <2>2. file' \in Contents /\ handles' \subseteq Actors /\ peak' \in 0 .. 3
    BY <1>7 DEF Invalidate, Contents
  <2>3. QED
    BY <1>7, <2>1, <2>2 DEF TypeOK, Invalidate
<1>8. CASE Tick
  <2>1. quota' \in 0 .. MaxDisturbances /\ now' \in Nat
    BY <1>8, ClassifierAssumption DEF TypeOK, Tick, Disturb
  <2>2. QED
    BY <1>8, <2>1 DEF TypeOK, Tick, fileVars
<1>9. QED
  BY <1>1, <1>2, <1>3, <1>4, <1>5, <1>6, <1>7, <1>8 DEF MigrationStep

(***************************************************************************)
(* What is behind an entry                                                 *)
(***************************************************************************)
\* Stamped when its answers were asked for, and supported by them.
Honest(e) == e.asked = e.at /\ (e.from # Unrecorded => Supported(e.from, e.verdict))

\* Every entry in the file, on its way there, or read for migration.
HonestEntries ==
    /\ file.version # 0 => Honest(file)
    /\ \A c \in Callers : call[c].pc \in {"reread", "open", "fill"} =>
          Honest(call[c].entry) /\ call[c].entry.version = 2
    /\ migration # Idle => Honest(migration.raw) /\ migration.raw.version = 1

TypedHonestly == TypeOK /\ HonestEntries

\* What writeCache leaves in the file is what was there, garbled, or honest.
LEMMA HonestFill ==
    ASSUME NEW a, NEW entry, Honest(entry), file.version # 0 => Honest(file), FillFile(a, entry)
    PROVE  file'.version # 0 => Honest(file')
<1>1. file' = file \/ file' = entry \/ file' = Garbled
  BY DEF FillFile
<1>2. Garbled.version = 0
  BY DEF Garbled, Nothing
<1>3. QED
  BY <1>1, <1>2

LEMMA HonestOpen ==
    ASSUME NEW a, OpenFile(a)
    PROVE  file'.version = 0
BY DEF OpenFile, Foreign, Empty, Nothing

\* The steps of a call keep the entries honest.
LEMMA CallHonesty ==
    ASSUME TypedHonestly, NEW c \in Callers,
           Start(c) \/ CallStep(c) \/ ProbeAnswers(c) \/ CallDies(c)
    PROVE  HonestEntries'
<1> DEFINE state == call[c]
<1>0. state \in Calls /\ call \in [Callers -> Calls]
  BY DEF TypedHonestly, TypeOK
<1>1. CASE Start(c) \/ ServeCached(c) \/ AskAdapters(c) \/ AdaptersSettle(c) \/ CallDies(c)
  <2>1. UNCHANGED <<file, migration>>
    BY <1>1 DEF Start, ServeCached, AskAdapters, AdaptersSettle, CallDies, Rest, fileVars
  <2>2. PICK next : call' = [call EXCEPT ![c] = next]
                    /\ next.pc \notin {"reread", "open", "fill"}
    BY <1>1 DEF Start, ServeCached, AskAdapters, AdaptersSettle, CallDies, Goto, Idle
  <2>3. QED
    BY <1>0, <2>1, <2>2 DEF TypedHonestly, HonestEntries
<1>2. ASSUME NEW probe \in Probes, Judge(c, probe) PROVE HonestEntries'
  <2> DEFINE verdict == Classified(state.signals, probe)
             entry == Envelope(c, verdict)
  <2>1. UNCHANGED <<file, migration>>
    BY <1>2 DEF Judge, Rest, fileVars
  <2>2. state.signals \in Signals
    BY <1>0, <1>2, CallShapes, ClassifierAssumption DEF Judge
  <2>3. CASE call' = [call EXCEPT ![c] = Idle]
    BY <1>0, <2>1, <2>3 DEF TypedHonestly, HonestEntries, Idle
  <2>4. CASE /\ \E threshold \in Thresholds : MeetsMinConfidence(verdict, threshold)
             /\ ~ Degraded(state.signals)
             /\ call' = [call EXCEPT ![c] = [pc |-> "reread", entry |-> entry]]
    <3>1. Supported(state.signals, verdict)
      BY <2>2, <2>4, KeptVerdictsAreSupported
    <3>2. Honest(entry) /\ entry.version = 2
      BY <3>1 DEF Honest, Envelope
    <3> HIDE DEF entry
    <3>3. QED
      BY <1>0, <2>1, <2>4, <3>2 DEF TypedHonestly, HonestEntries
  <2>5. QED
    BY <1>2, <2>3, <2>4 DEF Judge, Goto
<1>3. CASE ProbeAnswers(c)
  BY <1>2, <1>3 DEF ProbeAnswers
<1>4. CASE ProbeEnds(c)
  <2>1. ProbeFailed \in Probes
    BY DEF Probes
  <2>2. QED
    BY <1>2, <1>4, <2>1 DEF ProbeEnds
<1>5. CASE Reread(c)
  <2>1. UNCHANGED <<file, migration>>
    BY <1>5 DEF Reread, Rest
  <2>2. state = [pc |-> "reread", entry |-> state.entry]
    BY <1>0, <1>5, CallShapes DEF Reread
  <2>3. Honest(state.entry) /\ state.entry.version = 2
    BY <1>5 DEF TypedHonestly, HonestEntries, Reread
  <2>4. PICK next : call' = [call EXCEPT ![c] = next]
                    /\ (next.pc \in {"reread", "open", "fill"} => next.entry = state.entry)
    BY <1>5, <2>2 DEF Reread, Goto, Idle
  <2>5. QED
    BY <1>0, <2>1, <2>3, <2>4 DEF TypedHonestly, HonestEntries
<1>6. CASE OpenCache(c)
  <2>1. UNCHANGED migration /\ file'.version = 0
    BY <1>6, HonestOpen DEF OpenCache, Rest
  <2>2. state = [pc |-> "open", entry |-> state.entry]
    BY <1>0, <1>6, CallShapes DEF OpenCache
  <2>3. Honest(state.entry) /\ state.entry.version = 2
    BY <1>6 DEF TypedHonestly, HonestEntries, OpenCache
  <2>4. call' = [call EXCEPT ![c] = [pc |-> "fill", entry |-> state.entry]]
    <3>1. [state EXCEPT !.pc = "fill"] = [pc |-> "fill", entry |-> state.entry]
      BY <2>2, Repointed
    <3>2. QED
      BY <1>6, <3>1, Zenon DEF OpenCache, Goto
  <2>5. QED
    BY <1>0, <2>1, <2>3, <2>4 DEF TypedHonestly, HonestEntries
<1>7. CASE FillCache(c)
  <2>1. UNCHANGED migration /\ call' = [call EXCEPT ![c] = Idle]
    BY <1>7 DEF FillCache, Rest, Goto
  <2>2. Honest(state.entry)
    BY <1>7 DEF TypedHonestly, HonestEntries, FillCache
  <2>3. file'.version # 0 => Honest(file')
    BY <1>7, <2>2, HonestFill DEF TypedHonestly, HonestEntries, FillCache
  <2>4. QED
    BY <1>0, <2>1, <2>3 DEF TypedHonestly, HonestEntries, Idle
<1>8. QED
  BY <1>1, <1>3, <1>4, <1>5, <1>6, <1>7 DEF CallStep

\* So do the others.
LEMMA OtherHonesty ==
    ASSUME TypedHonestly, ReadLegacy \/ MigrationStep \/ MigrationDies \/ Invalidate \/ Tick
    PROVE  HonestEntries'
<1>0. migration \in Migrations
  BY DEF TypedHonestly, TypeOK
<1>1. UNCHANGED call
  BY DEF ReadLegacy, MigrationStep, OpenBackup, FillBackup, OpenMigrated, FillMigrated,
         MigrationDies, Invalidate, Tick, Migrate
<1>2. CASE ReadLegacy
  <2>1. UNCHANGED file /\ migration' = [pc |-> "backup", raw |-> file] /\ file.version = 1
    BY <1>2 DEF ReadLegacy, Migrate
  <2>2. QED
    BY <1>1, <2>1 DEF TypedHonestly, HonestEntries, Idle
<1>3. CASE OpenBackup \/ FillBackup
  <2>1. migration = [pc |-> migration.pc, raw |-> migration.raw] /\ migration # Idle
    BY <1>0, <1>3, MigrationShapes DEF OpenBackup, FillBackup, Idle
  <2>2. UNCHANGED file /\ migration'.raw = migration.raw
    BY <1>3, <2>1 DEF OpenBackup, FillBackup, Migrate, fileVars
  <2>3. QED
    BY <1>1, <2>1, <2>2 DEF TypedHonestly, HonestEntries
<1>4. CASE OpenMigrated
  <2>1. migration = [pc |-> migration.pc, raw |-> migration.raw] /\ migration # Idle
    BY <1>0, <1>4, MigrationShapes DEF OpenMigrated, Idle
  <2>2. file'.version = 0 /\ migration'.raw = migration.raw
    BY <1>4, <2>1, HonestOpen DEF OpenMigrated, Migrate
  <2>3. QED
    BY <1>1, <2>1, <2>2 DEF TypedHonestly, HonestEntries
<1>5. CASE FillMigrated
  <2>1. migration # Idle
    BY <1>0, <1>5, MigrationShapes DEF FillMigrated
  <2>2. migration' = Idle /\ FillFile(Migrator, Migrated(migration.raw))
    BY <1>5 DEF FillMigrated, Migrate
  <2>3. migration.raw \in Entries
    BY <1>0, <2>1, MigrationShapes
  <2>4. Honest(Migrated(migration.raw))
    BY <2>1, <2>3 DEF TypedHonestly, HonestEntries, Honest, Migrated, Entries
  <2>5. file'.version # 0 => Honest(file')
    BY <2>2, <2>4, HonestFill DEF TypedHonestly, HonestEntries
  <2>6. QED
    BY <1>1, <2>2, <2>5 DEF TypedHonestly, HonestEntries
<1>6. CASE MigrationDies
  BY <1>1, <1>6 DEF TypedHonestly, HonestEntries, MigrationDies
<1>7. CASE Invalidate
  BY <1>1, <1>7 DEF TypedHonestly, HonestEntries, Invalidate, Missing, Nothing
<1>8. CASE Tick
  BY <1>1, <1>8 DEF TypedHonestly, HonestEntries, Tick, fileVars
<1>9. QED
  BY <1>2, <1>3, <1>4, <1>5, <1>6, <1>7, <1>8 DEF MigrationStep

LEMMA TypedHonestlyInvariant == Spec => []TypedHonestly
<1>1. Init => TypedHonestly
  <2> SUFFICES ASSUME Init PROVE HonestEntries
    BY InitTypes DEF TypedHonestly
  <2>1. file.version # 0 => Honest(file)
    BY ClassifierAssumption DEF Init, Honest
  <2>2. QED
    BY <2>1 DEF Init, HonestEntries, Idle
<1>2. TypedHonestly /\ [Next]_vars => TypedHonestly'
  <2> SUFFICES ASSUME TypedHonestly, [Next]_vars PROVE TypedHonestly'
    OBVIOUS
  <2>1. CASE \E c \in Callers : Start(c) \/ CallStep(c) \/ ProbeAnswers(c) \/ CallDies(c)
    BY <2>1, CallTypes, CallHonesty DEF TypedHonestly
  <2>2. CASE ReadLegacy \/ MigrationStep \/ MigrationDies \/ Invalidate \/ Tick
    <3>1. migration # Idle => migration.raw.version = 1
      BY DEF TypedHonestly, HonestEntries
    <3>2. TypeOK'
      BY <2>2, <3>1, OtherTypes DEF TypedHonestly
    <3>3. QED
      BY <2>2, <3>2, OtherHonesty DEF TypedHonestly
  <2>3. CASE UNCHANGED vars
    BY <2>3 DEF TypedHonestly, TypeOK, HonestEntries, vars, fileVars
  <2>4. QED
    BY <2>1, <2>2, <2>3 DEF Next
<1>3. QED
  BY <1>1, <1>2, PTL DEF Spec

\* Every variable keeps its type, and the backup never holds anything but a v1
\* file or the beginning of one.
THEOREM TypeCorrect == Spec => []TypeOK
<1>1. TypedHonestly => TypeOK
  BY DEF TypedHonestly
<1>2. QED
  BY <1>1, TypedHonestlyInvariant, PTL

\* No interleaving, crash or migration makes the cache hold a verdict its
\* answers do not support.
THEOREM StoredVerdictsSupported == Spec => []StoredVerdictsAreSupported
<1>1. TypedHonestly => StoredVerdictsAreSupported
  BY DEF TypedHonestly, HonestEntries, Honest, StoredVerdictsAreSupported
<1>2. QED
  BY <1>1, TypedHonestlyInvariant, PTL

\* A verdict is served only while its evidence is young enough.
THEOREM ServedEvidence == Spec => ServedEvidenceIsFresh
<1>1. TypedHonestly => \A c \in Callers : ServeCached(c) => now - file.asked <= Ttl
  BY DEF TypedHonestly, HonestEntries, Honest, ServeCached, Live
<1>2. QED
  BY <1>1, TypedHonestlyInvariant, PTL DEF Spec, ServedEvidenceIsFresh

(***************************************************************************)
(* Confidence is kept                                                      *)
(***************************************************************************)
EntryRank(c) == Rank(call[c].entry.verdict.confidence)

\* Only an actor about to fill the file holds it open.
HandlesFill ==
    \A a \in handles : \/ a \in Callers /\ call[a].pc = "fill"
                       \/ a = Migrator /\ migration.pc = "fill"

\* Before any overlap there is one writer, which was allowed to write over what
\* the file holds, and finds the file as its own open left it.
OneWriter ==
    /\ \A a, b \in Writing : a = b
    /\ handles # {} => file \in {Empty, Foreign}
    /\ migration # Idle => peak = 0
    /\ \A c \in Callers : call[c].pc \in {"open", "fill"} => EntryRank(c) >= peak
    /\ RankOf(file) = peak \/ (file = Empty /\ handles \ {Migrator} # {})

Kept == TypedHonestly /\ HandlesFill /\ (torn \/ OneWriter)

LEMMA HandlesWrite ==
    ASSUME Kept
    PROVE  handles \subseteq Writing
BY ClassifierAssumption DEF Kept, HandlesFill, Writing, Idle

LEMMA NoRank ==
    RankOf(Missing) = 0 /\ RankOf(Empty) = 0 /\ RankOf(Foreign) = 0 /\ Empty # Foreign
BY DEF RankOf, Missing, Empty, Foreign, Nothing

LEMMA EntryRanks ==
    ASSUME NEW e \in Entries
    PROVE  Rank(e.verdict.confidence) \in 0 .. 3
BY RanksAreSmall DEF Entries, Verdicts

LEMMA WhoWrites ==
    /\ \A c \in Callers : c \in Writing <=> call[c].pc \in {"open", "fill"}
    /\ Migrator \in Writing <=> migration # Idle
    /\ Writing \subseteq Actors
BY ClassifierAssumption DEF Writing, Actors

LEMMA KeptInit == Init => Kept
<1> SUFFICES ASSUME Init PROVE Kept
  OBVIOUS
<1>1. TypeOK /\ HonestEntries
  <2>1. file.version # 0 => Honest(file)
    BY ClassifierAssumption DEF Init, Honest
  <2>2. QED
    BY <2>1, InitTypes DEF Init, HonestEntries, Idle
<1>2. handles = {} /\ migration = Idle /\ call = [c \in Callers |-> Idle] /\ peak = RankOf(file)
  BY DEF Init
<1>3. HandlesFill
  BY <1>2 DEF HandlesFill
<1>4. Writing = {}
  BY <1>2 DEF Writing, Idle
<1>5. OneWriter
  BY <1>2, <1>4 DEF OneWriter, Idle
<1>6. QED
  BY <1>1, <1>3, <1>5 DEF Kept, TypedHonestly

\* A step of a call that has not looked at the file changes nothing here.
LEMMA KeptElsewhere ==
    ASSUME Kept, TypedHonestly', NEW c \in Callers, NEW next,
           call' = [call EXCEPT ![c] = next], next.pc \notin {"open", "fill"},
           UNCHANGED <<file, handles, peak, torn, migration>>, c \notin handles
    PROVE  Kept'
<1>1. call' \in [Callers -> Calls] /\ call \in [Callers -> Calls] /\ call'[c] = next
  BY DEF Kept, TypedHonestly, TypeOK
<1>2. \A d \in Callers : d # c => call'[d] = call[d]
  BY <1>1
<1>3. HandlesFill'
  BY <1>2 DEF Kept, HandlesFill
<1>4. Writing' \subseteq Writing
  BY <1>1, <1>2 DEF Writing
<1>5. ASSUME OneWriter PROVE OneWriter'
  <2>1. \A d \in Callers : call'[d].pc \in {"open", "fill"} => EntryRank(d)' >= peak
    BY <1>1, <1>2, <1>5 DEF OneWriter, EntryRank
  <2>2. QED
    BY <1>4, <1>5, <2>1 DEF OneWriter
<1>6. QED
  BY <1>3, <1>5 DEF Kept

\* While nobody writes, the file holds the highest rank there was.
LEMMA NobodyWrites ==
    ASSUME Kept, ~ torn, NEW a, Writing \ {a} = {}, a \notin handles
    PROVE  handles = {} /\ RankOf(file) = peak
<1>1. handles = {}
  BY HandlesWrite
<1>2. QED
  BY <1>1 DEF Kept, OneWriter

LEMMA KeptReread ==
    ASSUME Kept, TypedHonestly', NEW c \in Callers, Reread(c),
           AllowsWrite(StoredVerdicts, call[c].entry.verdict),
           call' = [call EXCEPT ![c] = [call[c] EXCEPT !.pc = "open"]], Overlaps(c)
    PROVE  Kept'
<1> DEFINE state == call[c]
<1>1. /\ call \in [Callers -> Calls] /\ state \in Calls /\ state.pc = "reread"
      /\ file \in Contents
  BY DEF Kept, TypedHonestly, TypeOK, Reread
<1>2. state = [pc |-> "reread", entry |-> state.entry] /\ state.entry \in Entries
  BY <1>1, CallShapes
<1>3. call' = [call EXCEPT ![c] = [pc |-> "open", entry |-> state.entry]]
  <2>1. [state EXCEPT !.pc = "open"] = [pc |-> "open", entry |-> state.entry]
    BY <1>2, Repointed
  <2>2. QED
    BY <2>1, Zenon
<1>4. UNCHANGED <<file, handles, peak, migration>>
  BY DEF Reread, Rest
<1>5. c \notin handles
  BY <1>1, ClassifierAssumption DEF Kept, HandlesFill
<1>6. HandlesFill'
  BY <1>1, <1>3, <1>4, <1>5 DEF Kept, HandlesFill
<1>7. ASSUME ~ torn' PROVE OneWriter'
  <2>1. ~ torn /\ Writing \ {c} = {}
    BY <1>7 DEF Overlaps
  <2>2. handles = {} /\ RankOf(file) = peak
    BY <1>5, <2>1, NobodyWrites
  <2>3. Writing' \subseteq {c}
    BY <1>1, <1>3, <1>4, <2>1 DEF Writing
  <2>4. migration = Idle
    BY <2>1, ClassifierAssumption DEF Writing
  <2>5. Rank(state.entry.verdict.confidence) >= RankOf(file)
    <3>1. CASE file.version = 2
      <4>1. file.verdict \in StoredVerdicts
        BY <3>1 DEF StoredVerdicts
      <4>2. StoredVerdicts # {}
        BY <4>1
      <4>3. QED
        BY <3>1, <4>1, <4>2 DEF AllowsWrite, RankOf
    <3>2. CASE file.version # 2
      BY <1>2, <3>2, EntryRanks DEF RankOf
    <3>3. QED
      BY <3>1, <3>2
  <2>6. \A d \in Callers : call'[d].pc \in {"open", "fill"} => EntryRank(d)' >= peak
    <3>1. \A d \in Callers : d # c => call'[d].pc \notin {"open", "fill"}
      BY <1>1, <1>3, <2>1 DEF Writing
    <3>2. EntryRank(c)' >= peak
      BY <1>1, <1>3, <2>2, <2>5 DEF EntryRank
    <3>3. QED
      BY <3>1, <3>2
  <2>7. QED
    BY <1>4, <2>2, <2>3, <2>4, <2>6 DEF OneWriter
<1>8. QED
  BY <1>6, <1>7 DEF Kept

LEMMA KeptOpen ==
    ASSUME Kept, TypedHonestly', NEW c \in Callers, OpenCache(c)
    PROVE  Kept'
<1> DEFINE state == call[c]
<1>1. call \in [Callers -> Calls] /\ state \in Calls /\ state.pc = "open"
  BY DEF Kept, TypedHonestly, TypeOK, OpenCache
<1>2. state = [pc |-> "open", entry |-> state.entry]
  BY <1>1, CallShapes
<1>3. call' = [call EXCEPT ![c] = [pc |-> "fill", entry |-> state.entry]]
  <2>1. [state EXCEPT !.pc = "fill"] = [pc |-> "fill", entry |-> state.entry]
    BY <1>2, Repointed
  <2>2. QED
    BY <2>1, Zenon DEF OpenCache, Goto
<1>4. UNCHANGED <<peak, torn, migration>> /\ OpenFile(c)
  BY DEF OpenCache, Rest
<1>5. HandlesFill'
  BY <1>1, <1>3, <1>4 DEF Kept, HandlesFill, OpenFile
<1>6. ASSUME OneWriter PROVE OneWriter'
  <2>1. Writing' = Writing /\ c \in Writing
    BY <1>1, <1>3, <1>4 DEF Writing
  <2>2. handles' = handles \union {c} /\ c # Migrator
    BY <1>4, ClassifierAssumption DEF OpenFile
  <2>3. file' \in {Empty, Foreign} /\ (file' = Foreign => file = Foreign)
    BY <1>4, NoRank DEF OpenFile
  <2>4. RankOf(file') = peak \/ file' = Empty
    BY <1>6, <2>3, NoRank DEF OneWriter
  <2>5. \A d \in Callers : call'[d].pc \in {"open", "fill"} => EntryRank(d)' >= peak
    BY <1>1, <1>3, <1>6 DEF OneWriter, EntryRank
  <2>6. QED
    BY <1>4, <1>6, <2>1, <2>2, <2>3, <2>4, <2>5 DEF OneWriter
<1>7. QED
  BY <1>4, <1>5, <1>6 DEF Kept

\* What a writer that is alone leaves: the entry, or the file as it was.
LEMMA FillAlone ==
    ASSUME Kept, ~ torn, NEW a \in Writing, NEW entry \in Entries, entry.version = 2,
           FillFile(a, entry)
    PROVE  /\ handles' = {}
           /\ \/ file' = entry /\ a \in handles
              \/ UNCHANGED file /\ (a \in handles => file = Foreign)
<1>1. handles \subseteq {a}
  BY HandlesWrite DEF Kept, OneWriter
<1>2. a \in handles => file \in {Empty, Foreign}
  BY DEF Kept, OneWriter
<1>3. QED
  BY <1>1, <1>2 DEF FillFile

LEMMA KeptFill ==
    ASSUME Kept, TypedHonestly', NEW c \in Callers, FillCache(c)
    PROVE  Kept'
<1> DEFINE entry == call[c].entry
<1>1. /\ call \in [Callers -> Calls] /\ call[c] \in Calls /\ call[c].pc = "fill"
      /\ peak \in 0 .. 3
  BY DEF Kept, TypedHonestly, TypeOK, FillCache
<1>2. entry \in Entries /\ entry.version = 2
  BY <1>1, CallShapes DEF Kept, TypedHonestly, HonestEntries
<1>3. call' = [call EXCEPT ![c] = Idle] /\ UNCHANGED <<torn, migration>> /\ FillFile(c, entry)
  BY DEF FillCache, Rest, Goto
<1>4. HandlesFill'
  BY <1>1, <1>3 DEF Kept, HandlesFill, FillFile
<1>5. ASSUME ~ torn PROVE OneWriter'
  <2>1. OneWriter /\ c \in Writing
    BY <1>1, <1>5 DEF Kept, Writing
  <2>2. Writing' = {}
    <3>1. Writing = {c}
      BY <2>1 DEF OneWriter
    <3>2. QED
      BY <1>1, <1>3, <3>1, ClassifierAssumption DEF Writing, Idle
  <2>3. /\ handles' = {}
        /\ \/ file' = entry /\ c \in handles
           \/ UNCHANGED file /\ (c \in handles => file = Foreign)
    BY <1>2, <1>3, <1>5, <2>1, FillAlone
  <2>4. peak' = IF RankOf(file') > peak THEN RankOf(file') ELSE peak
    BY <1>3 DEF FillFile
  <2>5. RankOf(file') = peak'
    <3>1. CASE file' = entry
      <4>1. RankOf(entry) >= peak
        BY <1>1, <1>2, <2>1 DEF OneWriter, EntryRank, RankOf
      <4>2. RankOf(entry) \in 0 .. 3
        BY <1>2, EntryRanks DEF RankOf
      <4>3. QED
        BY <1>1, <2>4, <3>1, <4>1, <4>2
    <3>2. CASE UNCHANGED file /\ (c \in handles => file = Foreign)
      <4>1. handles \subseteq {c}
        BY <2>1, HandlesWrite DEF OneWriter
      <4>2. RankOf(file) = peak
        BY <2>1, <3>2, <4>1, NoRank DEF OneWriter
      <4>3. QED
        BY <1>1, <2>4, <3>2, <4>2
    <3>3. QED
      BY <2>3, <3>1, <3>2
  <2>6. migration' = Idle /\ \A d \in Callers : call'[d].pc \notin {"open", "fill"}
    BY <2>2 DEF Writing
  <2>7. QED
    BY <2>2, <2>3, <2>5, <2>6 DEF OneWriter
<1>6. QED
  BY <1>3, <1>4, <1>5 DEF Kept

LEMMA KeptCall ==
    ASSUME Kept, TypedHonestly', NEW c \in Callers,
           Start(c) \/ CallStep(c) \/ ProbeAnswers(c) \/ CallDies(c)
    PROVE  Kept'
<1>0. /\ call \in [Callers -> Calls] /\ c # Migrator
      /\ c \in handles => call[c].pc = "fill"
  BY ClassifierAssumption DEF Kept, TypedHonestly, TypeOK, HandlesFill
<1>1. CASE Start(c) \/ ServeCached(c) \/ AskAdapters(c) \/ AdaptersSettle(c)
  <2>1. UNCHANGED <<file, handles, peak, torn, migration>> /\ c \notin handles
    BY <1>0, <1>1 DEF Start, ServeCached, AskAdapters, AdaptersSettle, Rest, fileVars, Idle
  <2>2. PICK next : call' = [call EXCEPT ![c] = next] /\ next.pc \notin {"open", "fill"}
    BY <1>1 DEF Start, ServeCached, AskAdapters, AdaptersSettle, Goto, Idle
  <2>3. QED
    BY <2>1, <2>2, KeptElsewhere
<1>2. ASSUME NEW probe, Judge(c, probe) PROVE Kept'
  <2>1. UNCHANGED <<file, handles, peak, torn, migration>> /\ c \notin handles
    BY <1>0, <1>2 DEF Judge, Rest, fileVars
  <2>2. PICK next : call' = [call EXCEPT ![c] = next] /\ next.pc \notin {"open", "fill"}
    BY <1>2 DEF Judge, Goto, Idle
  <2>3. QED
    BY <2>1, <2>2, KeptElsewhere
<1>3. CASE ProbeAnswers(c) \/ ProbeEnds(c)
  BY <1>2, <1>3 DEF ProbeAnswers, ProbeEnds
<1>4. CASE Reread(c)
  <2>1. CASE /\ AllowsWrite(StoredVerdicts, call[c].entry.verdict)
             /\ Goto(c, [call[c] EXCEPT !.pc = "open"])
             /\ Overlaps(c)
    BY <1>4, <2>1, KeptReread DEF Goto
  <2>2. CASE Goto(c, Idle) /\ UNCHANGED torn
    <3>1. UNCHANGED <<file, handles, peak, torn, migration>> /\ c \notin handles
      BY <1>0, <1>4, <2>2 DEF Reread, Rest
    <3>2. call' = [call EXCEPT ![c] = Idle] /\ Idle.pc \notin {"open", "fill"}
      BY <2>2 DEF Goto, Idle
    <3>3. QED
      BY <3>1, <3>2, KeptElsewhere
  <2>3. QED
    BY <1>4, <2>1, <2>2 DEF Reread
<1>5. CASE CallDies(c)
  <2>1. /\ UNCHANGED <<file, peak, migration>> /\ handles' = handles \ {c}
        /\ call' = [call EXCEPT ![c] = Idle] /\ Idle.pc \notin {"open", "fill"}
        /\ torn' = (torn \/ call[c].pc = "fill")
    BY <1>5 DEF CallDies, Goto, Idle
  <2>2. CASE call[c].pc = "fill"
    <3>1. HandlesFill'
      BY <1>0, <2>1 DEF Kept, HandlesFill
    <3>2. torn'
      BY <2>1, <2>2
    <3>3. QED
      BY <3>1, <3>2 DEF Kept
  <2>3. CASE call[c].pc # "fill"
    <3>1. handles' = handles /\ c \notin handles
      BY <1>0, <2>1, <2>3
    <3>2. torn' <=> torn
      BY <2>1, <2>3
    <3>3. torn' = torn
      BY <2>1, <2>3, Zenon DEF Kept, TypedHonestly, TypeOK
    <3>4. QED
      BY <2>1, <3>1, <3>3, KeptElsewhere
  <2>4. QED
    BY <2>2, <2>3
<1>6. QED
  BY <1>1, <1>3, <1>4, <1>5, KeptOpen, KeptFill DEF CallStep

LEMMA KeptMigration ==
    ASSUME Kept, TypedHonestly',
           ReadLegacy \/ MigrationStep \/ MigrationDies \/ Invalidate \/ Tick
    PROVE  Kept'
<1>0. /\ migration \in Migrations /\ peak \in 0 .. 3 /\ Migrator \notin Callers
      /\ file \in Contents /\ UNCHANGED call
  BY ClassifierAssumption DEF Kept, TypedHonestly, TypeOK, ReadLegacy, MigrationStep,
     OpenBackup, FillBackup, OpenMigrated, FillMigrated, MigrationDies, Invalidate, Tick, Migrate
<1>1. CASE ReadLegacy
  <2>1. /\ migration = Idle /\ file.version = 1 /\ UNCHANGED <<file, handles, peak>>
        /\ Overlaps(Migrator)
    BY <1>1 DEF ReadLegacy, Migrate
  <2>2. Migrator \notin handles
    BY <1>0, <2>1 DEF Kept, HandlesFill, Idle
  <2>3. HandlesFill'
    BY <1>0, <2>1, <2>2 DEF Kept, HandlesFill
  <2>4. ASSUME ~ torn' PROVE OneWriter'
    <3>1. ~ torn /\ Writing \ {Migrator} = {}
      BY <2>1, <2>4 DEF Overlaps
    <3>2. handles = {} /\ RankOf(file) = peak
      BY <2>2, <3>1, NobodyWrites
    <3>3. peak = 0
      BY <2>1, <3>2 DEF RankOf
    <3>4. Writing' \subseteq {Migrator} /\ \A c \in Callers : call[c].pc \notin {"open", "fill"}
      BY <1>0, <3>1 DEF Writing
    <3>5. QED
      BY <1>0, <2>1, <3>2, <3>3, <3>4 DEF OneWriter
  <2>5. QED
    BY <2>3, <2>4 DEF Kept
<1>2. CASE OpenBackup \/ FillBackup
  <2>1. /\ UNCHANGED <<file, handles, peak, torn>> /\ migration.pc \in {"backup", "copy"}
        /\ migration # Idle
    BY <1>2 DEF OpenBackup, FillBackup, Migrate, fileVars, Idle
  <2>2. Migrator \notin handles
    BY <1>0, <2>1 DEF Kept, HandlesFill
  <2>3. HandlesFill'
    BY <1>0, <2>1, <2>2 DEF Kept, HandlesFill
  <2>4. Writing' \subseteq Writing
    BY <1>0, <2>1 DEF Writing
  <2>5. OneWriter => OneWriter'
    BY <1>0, <2>1, <2>4 DEF OneWriter, EntryRank
  <2>6. QED
    BY <2>1, <2>3, <2>5 DEF Kept
<1>3. CASE OpenMigrated
  <2>1. /\ UNCHANGED <<peak, torn>> /\ OpenFile(Migrator) /\ migration.pc = "open"
        /\ migration'.pc = "fill" /\ migration # Idle
    <3>1. migration = [pc |-> migration.pc, raw |-> migration.raw]
      BY <1>0, <1>3, MigrationShapes DEF OpenMigrated, Idle
    <3>2. QED
      BY <1>3, <3>1 DEF OpenMigrated, Migrate, Idle
  <2>2. HandlesFill'
    BY <1>0, <2>1 DEF Kept, HandlesFill, OpenFile
  <2>3. Writing' \subseteq Writing
    BY <1>0, <2>1 DEF Writing
  <2>4. ASSUME OneWriter PROVE OneWriter'
    <3>1. peak = 0 /\ file' \in {Empty, Foreign}
      BY <2>1, <2>4 DEF OneWriter, OpenFile
    <3>2. \A c \in Callers : EntryRank(c)' = EntryRank(c)
      BY <1>0 DEF EntryRank
    <3>3. RankOf(file') = peak
      BY <3>1, NoRank
    <3>4. QED
      BY <1>0, <2>1, <2>3, <2>4, <3>1, <3>2, <3>3 DEF OneWriter
  <2>5. QED
    BY <2>1, <2>2, <2>4 DEF Kept
<1>4. CASE FillMigrated
  <2> DEFINE entry == Migrated(migration.raw)
  <2>1. /\ UNCHANGED torn /\ FillFile(Migrator, entry) /\ migration' = Idle
        /\ migration.pc = "fill" /\ migration # Idle
    BY <1>4 DEF FillMigrated, Migrate, Idle
  <2>2. entry \in Entries /\ entry.version = 2
    BY <1>0, <2>1, MigrationShapes, MigratedTypes
  <2>3. HandlesFill'
    BY <1>0, <2>1 DEF Kept, HandlesFill, FillFile
  <2> HIDE DEF entry
  <2>4. ASSUME ~ torn PROVE OneWriter'
    <3>1. OneWriter /\ Migrator \in Writing
      BY <2>1, <2>4 DEF Kept, Writing
    <3>2. Writing' = {}
      <4>1. Writing = {Migrator}
        BY <3>1 DEF OneWriter
      <4>2. QED
        BY <1>0, <2>1, <4>1 DEF Writing
    <3>3. /\ handles' = {}
          /\ \/ file' = entry /\ Migrator \in handles
             \/ UNCHANGED file /\ (Migrator \in handles => file = Foreign)
      BY <2>1, <2>2, <2>4, <3>1, FillAlone
    <3>4. peak = 0 /\ peak' = IF RankOf(file') > peak THEN RankOf(file') ELSE peak
      BY <2>1, <3>1 DEF FillFile, OneWriter
    <3>5. RankOf(file') \in 0 .. 3
      BY RankOfContents DEF TypedHonestly, TypeOK
    <3>6. RankOf(file') = peak'
      BY <3>4, <3>5
    <3>7. \A c \in Callers : call'[c].pc \notin {"open", "fill"}
      BY <3>2 DEF Writing
    <3>8. QED
      BY <2>1, <3>2, <3>3, <3>6, <3>7 DEF OneWriter
  <2>5. QED
    BY <2>1, <2>3, <2>4 DEF Kept
<1>5. CASE MigrationDies
  <2>1. /\ UNCHANGED <<file, peak>> /\ migration' = Idle /\ handles' = handles \ {Migrator}
        /\ torn' = (torn \/ migration.pc = "fill")
    BY <1>5 DEF MigrationDies
  <2>2. HandlesFill'
    BY <1>0, <2>1 DEF Kept, HandlesFill
  <2>3. ASSUME ~ torn' PROVE OneWriter'
    <3>1. ~ torn /\ migration.pc # "fill"
      BY <2>1, <2>3
    <3>2. OneWriter /\ handles' = handles
      BY <1>0, <2>1, <3>1 DEF Kept, HandlesFill
    <3>3. Writing' \subseteq Writing
      BY <1>0, <2>1 DEF Writing
    <3>4. \A c \in Callers : EntryRank(c)' = EntryRank(c)
      BY <1>0 DEF EntryRank
    <3>5. QED
      BY <1>0, <2>1, <3>2, <3>3, <3>4 DEF OneWriter
  <2>4. QED
    BY <2>2, <2>3 DEF Kept
<1>6. CASE Invalidate
  <2>1. UNCHANGED <<torn, migration>> /\ file' = Missing /\ handles' = {} /\ peak' = 0
    BY <1>6 DEF Invalidate
  <2>2. HandlesFill'
    BY <2>1 DEF HandlesFill
  <2>3. ASSUME ~ torn PROVE OneWriter'
    <3>1. OneWriter
      BY <2>3 DEF Kept
    <3>2. Writing' = Writing
      BY <1>0, <2>1 DEF Writing
    <3>3. \A c \in Callers : call'[c].pc \in {"open", "fill"} => EntryRank(c)' >= 0
      <4>1. ASSUME NEW c \in Callers, call[c].pc \in {"open", "fill"} PROVE EntryRank(c) >= 0
        <5>1. call[c].entry \in Entries
          BY <4>1, CallShapes DEF Kept, TypedHonestly, TypeOK
        <5>2. QED
          BY <5>1, EntryRanks DEF EntryRank
      <4>2. QED
        BY <1>0, <4>1 DEF EntryRank
    <3>4. QED
      BY <2>1, <3>1, <3>2, <3>3, NoRank DEF OneWriter
  <2>4. QED
    BY <2>1, <2>2, <2>3 DEF Kept
<1>7. CASE Tick
  <2>1. UNCHANGED <<file, handles, peak, torn, migration>>
    BY <1>7 DEF Tick, fileVars
  <2>2. HandlesFill'
    BY <1>0, <2>1 DEF Kept, HandlesFill
  <2>3. OneWriter => OneWriter'
    BY <1>0, <2>1 DEF OneWriter, Writing, EntryRank
  <2>4. QED
    BY <2>1, <2>2, <2>3 DEF Kept
<1>8. QED
  BY <1>1, <1>2, <1>3, <1>4, <1>5, <1>6, <1>7 DEF MigrationStep

LEMMA KeptInvariant == Spec => []Kept
<1>1. Kept /\ TypedHonestly' /\ [Next]_vars => Kept'
  <2> SUFFICES ASSUME Kept, TypedHonestly', [Next]_vars PROVE Kept'
    OBVIOUS
  <2>1. CASE \E c \in Callers : Start(c) \/ CallStep(c) \/ ProbeAnswers(c) \/ CallDies(c)
    BY <2>1, KeptCall
  <2>2. CASE ReadLegacy \/ MigrationStep \/ MigrationDies \/ Invalidate \/ Tick
    BY <2>2, KeptMigration
  <2>3. CASE UNCHANGED vars
    <3>1. UNCHANGED <<file, handles, peak, torn, migration, call>>
      BY <2>3 DEF vars, fileVars
    <3>2. QED
      BY <3>1 DEF Kept, HandlesFill, OneWriter, Writing, EntryRank
  <2>4. QED
    BY <2>1, <2>2, <2>3 DEF Next
<1>2. QED
  BY <1>1, KeptInit, TypedHonestlyInvariant, PTL DEF Spec

\* For any number of calls and migrations: a stored confidence is kept as long
\* as no two writers overlapped and no write was cut short.
THEOREM ConfidenceKept == Spec => []ConfidenceIsKept
<1>1. Kept => ConfidenceIsKept
  <2> SUFFICES ASSUME Kept, ~ torn, file = Empty, handles \ {Migrator} # {}
               PROVE  \E c \in handles \ {Migrator} : EntryRank(c) >= peak
    BY DEF Kept, OneWriter, ConfidenceIsKept, EntryRank
  <2>1. PICK c \in handles : c # Migrator
    OBVIOUS
  <2>2. c \in Callers /\ call[c].pc = "fill"
    BY <2>1 DEF Kept, HandlesFill
  <2>3. QED
    BY <2>1, <2>2 DEF Kept, OneWriter
<1>2. QED
  BY <1>1, KeptInvariant, PTL

(***************************************************************************)
(* The migration loses nothing                                             *)
(***************************************************************************)
\* While a v1 file is nobody's but the migration's: it is in the file until it
\* is in the backup.
Survives(e) ==
    /\ migration # Idle => migration.raw = e
    /\ migration.pc \in {"backup", "copy"} => file = e
    /\ file.version = 1 => file = e
    /\ migration.pc \in {"open", "fill"} => backup = e
    /\ file = e \/ backup = e

MigrationSafe ==
    /\ \A e, f \in legacy : e = f
    /\ legacy # {} => handles \subseteq {Migrator}
    /\ \A e \in legacy : Survives(e)

LEMMA MigrationSafeInvariant == Spec => []MigrationSafe
<1>1. Init => MigrationSafe
  <2> SUFFICES ASSUME Init PROVE MigrationSafe
    OBVIOUS
  <2>1. legacy \subseteq {file} /\ handles = {} /\ migration = Idle
    BY DEF Init
  <2>2. QED
    BY <2>1 DEF MigrationSafe, Survives, Idle
<1>2. TypedHonestly /\ MigrationSafe /\ [Next]_vars => MigrationSafe'
  <2> SUFFICES ASSUME TypedHonestly, MigrationSafe, [Next]_vars PROVE MigrationSafe'
    OBVIOUS
  <2>0. migration \in Migrations /\ Migrator \notin Callers
    BY ClassifierAssumption DEF TypedHonestly, TypeOK
  <2>1. ASSUME NEW c \in Callers,
               Start(c) \/ ServeCached(c) \/ AskAdapters(c) \/ AdaptersSettle(c)
                   \/ ProbeAnswers(c) \/ ProbeEnds(c) \/ Reread(c) \/ CallDies(c)
        PROVE  MigrationSafe'
    <3>1. UNCHANGED <<file, backup, migration, legacy>> /\ handles' \subseteq handles
      BY <2>1 DEF Start, ServeCached, AskAdapters, AdaptersSettle, ProbeAnswers, ProbeEnds,
         Judge, Reread, CallDies, Rest, fileVars
    <3>2. QED
      BY <3>1 DEF MigrationSafe, Survives
  <2>2. ASSUME NEW c \in Callers, OpenCache(c) PROVE MigrationSafe'
    BY <2>2 DEF OpenCache, MigrationSafe
  <2>3. ASSUME NEW c \in Callers, FillCache(c) PROVE MigrationSafe'
    <3>1. UNCHANGED <<backup, migration, legacy>> /\ handles' \subseteq handles
      BY <2>3 DEF FillCache, FillFile, Rest
    <3>2. legacy # {} => UNCHANGED file
      BY <2>0, <2>3 DEF FillCache, FillFile, MigrationSafe
    <3>3. QED
      BY <3>1, <3>2 DEF MigrationSafe, Survives
  <2>4. CASE ReadLegacy
    <3>1. /\ UNCHANGED <<file, handles, legacy, backup>> /\ file.version = 1
          /\ migration' = [pc |-> "backup", raw |-> file]
      BY <2>4 DEF ReadLegacy, Migrate
    <3>2. QED
      BY <3>1 DEF MigrationSafe, Survives
  <2>5. CASE OpenBackup
    <3>1. /\ UNCHANGED <<file, handles, legacy>> /\ migration.pc = "backup"
          /\ migration'.pc = "copy" /\ migration'.raw = migration.raw /\ migration # Idle
      <4>1. migration = [pc |-> migration.pc, raw |-> migration.raw]
        BY <2>0, <2>5, MigrationShapes DEF OpenBackup, Idle
      <4>2. QED
        BY <2>5, <4>1 DEF OpenBackup, Migrate, fileVars, Idle
    <3>2. QED
      BY <3>1 DEF MigrationSafe, Survives
  <2>6. CASE FillBackup
    <3>1. /\ UNCHANGED <<file, handles, legacy>> /\ migration.pc = "copy"
          /\ migration'.pc = "open" /\ migration'.raw = migration.raw /\ migration # Idle
          /\ backup' = migration.raw
      <4>1. migration = [pc |-> migration.pc, raw |-> migration.raw]
        BY <2>0, <2>6, MigrationShapes DEF FillBackup, Idle
      <4>2. QED
        BY <2>6, <4>1 DEF FillBackup, Migrate, fileVars, Idle
    <3>2. QED
      BY <3>1 DEF MigrationSafe, Survives
  <2>7. CASE OpenMigrated
    <3>1. /\ UNCHANGED <<legacy, backup>> /\ migration.pc = "open" /\ file'.version = 0
          /\ migration'.pc = "fill" /\ migration'.raw = migration.raw /\ migration # Idle
          /\ handles' = handles \union {Migrator}
      <4>1. migration = [pc |-> migration.pc, raw |-> migration.raw]
        BY <2>0, <2>7, MigrationShapes DEF OpenMigrated, Idle
      <4>2. file'.version = 0
        BY <2>7, HonestOpen DEF OpenMigrated
      <4>3. migration'.pc = "fill" /\ migration'.raw = migration.raw
        BY <2>7, <4>1 DEF OpenMigrated, Migrate
      <4>4. QED
        BY <2>7, <4>2, <4>3 DEF OpenMigrated, OpenFile, Idle
    <3>2. QED
      BY <3>1 DEF MigrationSafe, Survives
  <2>8. CASE FillMigrated
    <3>1. /\ UNCHANGED <<legacy, backup>> /\ migration.pc = "fill" /\ migration' = Idle
          /\ handles' \subseteq handles
          /\ file' = file \/ file' = Migrated(migration.raw) \/ file' = Garbled
      BY <2>8 DEF FillMigrated, Migrate, FillFile
    <3>2. migration.raw \in Entries
      BY <2>0, <3>1, MigrationShapes DEF Idle
    <3>3. file' = file \/ file'.version # 1
      BY <3>1, <3>2, MigratedTypes DEF Garbled, Nothing
    <3>4. QED
      BY <3>1, <3>3 DEF MigrationSafe, Survives, Idle
  <2>9. CASE MigrationDies
    <3>1. /\ UNCHANGED <<file, legacy, backup>> /\ migration' = Idle /\ handles' \subseteq handles
      BY <2>9 DEF MigrationDies
    <3>2. QED
      BY <3>1 DEF MigrationSafe, Survives, Idle
  <2>10. CASE Invalidate
    BY <2>10 DEF Invalidate, MigrationSafe
  <2>11. CASE Tick \/ UNCHANGED vars
    <3>1. UNCHANGED <<file, handles, backup, migration, legacy>>
      BY <2>11 DEF Tick, vars, fileVars
    <3>2. QED
      BY <3>1 DEF MigrationSafe, Survives
  <2>12. QED
    BY <2>1, <2>2, <2>3, <2>4, <2>5, <2>6, <2>7, <2>8, <2>9, <2>10, <2>11
       DEF Next, CallStep, MigrationStep
<1>3. QED
  BY <1>1, <1>2, TypedHonestlyInvariant, PTL DEF Spec

\* Wherever migrations stop and however often they are retried, the v1 file or
\* its backup is there.
THEOREM LegacyOutlives == Spec => []LegacyOutlivesMigration
<1>1. MigrationSafe => LegacyOutlivesMigration
  BY DEF MigrationSafe, Survives, LegacyOutlivesMigration
<1>2. QED
  BY <1>1, MigrationSafeInvariant, PTL
=============================================================================
