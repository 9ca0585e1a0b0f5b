--------------------------- MODULE DriftClassifier ---------------------------
(***************************************************************************)
(* Calls of DriftClassifier.classify, in one process or in several, around *)
(* the cache file of one resource (packages/drift/src/classifier.ts and    *)
(* cache.ts).                                                              *)
(*                                                                         *)
(* A call reads the file, and on a hit returns what it holds.  Otherwise   *)
(* it asks the four adapters and the delivery probe, judges, reads the     *)
(* file once more for the monotonicity check and rewrites it.  Every await *)
(* of the code that another call can move the file behind is a boundary    *)
(* between two actions, and nothing locks the file: opening it truncates   *)
(* it, and what is written lands in whatever the file holds by then.       *)
(*                                                                         *)
(* The migration of a v1 file and the invalidation are operations of their *)
(* own, called by whoever runs the classifier.  Time, failed writes,       *)
(* crashes and invalidations each take one unit of the bound "quota".      *)
(***************************************************************************)
EXTENDS DriftVerdict, FiniteSets

CONSTANTS
    Callers,         \* calls of classify
    Migrator,        \* the call of migrateV1ToV2
    InitialFiles,    \* what the cache file can hold at first
    SignalSets,      \* the adapters' answers
    Thresholds,      \* options.minConfidence
    Unrecorded,      \* the answers behind an entry that was there at first
    Ttl,             \* cacheTtlSeconds
    MaxDisturbances  \* bound: units of quota

Actors == Callers \union {Migrator}

\* A cache envelope.  "asked" and "from" are history, which no code reads: the
\* time the adapters were asked, and what they answered.
Entries == [version : {1, 2}, verdict : Verdicts, at : Nat,
            asked : Nat, from : SignalSets \union {Unrecorded}]

\* What a file can hold instead: nothing at all, no bytes, bytes that do not
\* parse; or it belongs to another user.
Nothing(text) == [version |-> 0, text |-> text]
Missing == Nothing("missing")
Empty   == Nothing("empty")
Garbled == Nothing("garbled")
Foreign == Nothing("foreign")
Contents == Entries \union {Missing, Empty, Garbled, Foreign}

Idle == [pc |-> "idle"]

\* Where a call of classify stands, and what it holds there.
Calls == {Idle}
    \union [pc : {"read"}]
    \union [pc : {"settle"}, ts : Nat]
    \union [pc : {"probe"}, ts : Nat, signals : SignalSets]
    \union [pc : {"reread", "open", "fill"}, entry : Entries]

\* Where the migration stands: raw is the v1 file it has read.
Migrations == {Idle} \union [pc : {"backup", "copy", "open", "fill"}, raw : Entries]

ASSUME ClassifierAssumption ==
    /\ Migrator \notin Callers
    /\ InitialFiles \subseteq Contents
    /\ \A f \in InitialFiles :
          f.version # 0 => f.at = 0 /\ f.asked = 0 /\ f.from = Unrecorded
    /\ SignalSets \subseteq Signals
    /\ Unrecorded \notin SignalSets
    /\ Thresholds \subseteq Confidences
    /\ Ttl \in Nat
    /\ MaxDisturbances \in Nat

VARIABLES
    file,      \* the cache file
    handles,   \* the actors that hold it open for writing
    backup,    \* <path>.v1.backup
    now,       \* the wall clock
    quota,     \* disturbances left
    call,      \* the calls of classify
    migration, \* the call of migrateV1ToV2
    peak,      \* history: the highest rank stored since the last invalidation
    torn,      \* history: writers overlapped, or one stopped in the middle
    legacy     \* history: v1 files nobody but the migration has replaced

fileVars == <<file, handles, peak, torn, legacy>>
vars == <<fileVars, backup, now, quota, call, migration>>

RankOf(content) == IF content.version = 2 THEN Rank(content.verdict.confidence) ELSE 0

Init ==
    /\ file \in InitialFiles
    /\ handles = {}
    /\ backup = Missing
    /\ now = 0
    /\ quota = MaxDisturbances
    /\ call = [c \in Callers |-> Idle]
    /\ migration = Idle
    /\ peak = RankOf(file)
    /\ torn = FALSE
    /\ legacy = {f \in {file} : f.version = 1}

-----------------------------------------------------------------------------
(***************************************************************************)
(* The cache file                                                          *)
(***************************************************************************)
\* readCache with a time to live: a file that is missing, foreign, unparsable
\* or of another schema is no entry, and neither is one that is too old.
Live(content) == content.version = 2 /\ now - content.at <= Ttl

\* Variant: an entry past its time to live is no prior verdict.
LiveVerdicts == {f.verdict : f \in {g \in {file} : Live(g)}}

\* readCacheEnvelopeIgnoreTtl: the verdict the monotonicity check looks at.
StoredVerdicts == {f.verdict : f \in {g \in {file} : g.version = 2}}

\* fs.open(path, "w"): the file is created, or truncated.  Another user's file
\* stays theirs, whatever is written to it.
OpenFile(a) ==
    /\ file' = IF file = Foreign THEN Foreign ELSE Empty
    /\ handles' = handles \union {a}

\* fh.writeFile and fh.close: the bytes land in the file the handle was opened
\* on, unless that one has been unlinked.  Over bytes somebody else has written
\* since it was opened, a shorter text leaves their tail.
FillFile(a, entry) ==
    /\ handles' = handles \ {a}
    /\ \/ (a \notin handles \/ file = Foreign) /\ UNCHANGED file
       \/ a \in handles /\ file # Foreign /\ file' = entry
       \/ a \in handles /\ file \notin {Foreign, Empty} /\ file' = Garbled
    /\ peak' = IF RankOf(file') > peak THEN RankOf(file') ELSE peak

\* The actors that have looked at the file, and write by what they have seen.
Writing == {c \in Callers : call[c].pc \in {"open", "fill"}}
               \union {m \in {Migrator} : migration # Idle}

\* a begins such a window.
Overlaps(a) == torn' = (torn \/ Writing \ {a} # {})

Disturb == quota > 0 /\ quota' = quota - 1

\* invalidateCache unlinks the file: an open handle keeps a file without a name.
Invalidate ==
    /\ Disturb
    /\ file # Missing
    /\ file' = Missing
    /\ handles' = {}
    /\ peak' = 0
    /\ legacy' = {}
    /\ UNCHANGED <<torn, backup, now, call, migration>>

\* The wall clock.
Tick ==
    /\ Disturb
    /\ now' = now + 1
    /\ UNCHANGED <<fileVars, backup, call, migration>>

-----------------------------------------------------------------------------
(***************************************************************************)
(* classify                                                                *)
(***************************************************************************)
Goto(c, state) == call' = [call EXCEPT ![c] = state]

Rest == UNCHANGED <<backup, now, quota, migration>>

Start(c) ==
    /\ call[c] = Idle
    /\ Goto(c, [pc |-> "read"])
    /\ UNCHANGED fileVars /\ Rest

\* A hit within the time to live: the entry's verdict is returned.
ServeCached(c) ==
    /\ call[c].pc = "read"
    /\ Live(file)
    /\ Goto(c, Idle)
    /\ UNCHANGED fileVars /\ Rest

\* A miss: the clock is read, and the adapters are called.
AskAdapters(c) ==
    /\ call[c].pc = "read"
    /\ ~ Live(file)
    /\ Goto(c, [pc |-> "settle", ts |-> now])
    /\ UNCHANGED fileVars /\ Rest

\* Promise.allSettled: every adapter has answered, failed or been refused.
AdaptersSettle(c) ==
    /\ call[c].pc = "settle"
    /\ \E s \in SignalSets : Goto(c, [pc |-> "probe", ts |-> call[c].ts, signals |-> s])
    /\ UNCHANGED fileVars /\ Rest

\* Variant: the entry is stamped when it is made.
StampedNow(c, verdict) ==
    [version |-> 2, verdict |-> verdict, at |-> now,
     asked |-> call[c].ts, from |-> call[c].signals]

\* The envelope to store: stamped with the time before the adapters ran.
Envelope(c, verdict) ==
    [version |-> 2, verdict |-> verdict, at |-> call[c].ts,
     asked |-> call[c].ts, from |-> call[c].signals]

\* The probe is over and the call has its verdict: one that is degraded or below
\* the caller's threshold is returned and not stored.
Judge(c, probe) ==
    LET verdict == Classified(call[c].signals, probe)
        Stored(threshold) == ~ Degraded(call[c].signals)
                             /\ MeetsMinConfidence(verdict, threshold)
    IN  /\ call[c].pc = "probe"
        /\ \E threshold \in Thresholds :
              \/ ~ Stored(threshold) /\ Goto(c, Idle)
              \/ Stored(threshold) /\ Goto(c, [pc |-> "reread", entry |-> Envelope(c, verdict)])
        /\ UNCHANGED fileVars /\ Rest

ProbeAnswers(c) == \E probe \in Probes \ {ProbeFailed} : Judge(c, probe)

\* Variant: the probe is awaited without a time limit.
ProbeMayHang(c) == FALSE /\ Judge(c, ProbeFailed)

\* runProbe: the probe rejects, or p-timeout gives it up.
ProbeEnds(c) == Judge(c, ProbeFailed)

\* The file is read again, whatever its age, and the verdict is compared with it.
Reread(c) ==
    /\ call[c].pc = "reread"
    /\ \/ /\ AllowsWrite(StoredVerdicts, call[c].entry.verdict)
          /\ Goto(c, [call[c] EXCEPT !.pc = "open"])
          /\ Overlaps(c)
       \/ /\ ~ AllowsWrite(StoredVerdicts, call[c].entry.verdict)
          /\ Goto(c, Idle)
          /\ UNCHANGED torn
    /\ UNCHANGED <<file, handles, peak, legacy>> /\ Rest

\* writeCache, in the two steps the file sees.
OpenCache(c) ==
    /\ call[c].pc = "open"
    /\ OpenFile(c)
    /\ Goto(c, [call[c] EXCEPT !.pc = "fill"])
    /\ legacy' = {}
    /\ UNCHANGED <<peak, torn>> /\ Rest

FillCache(c) ==
    /\ call[c].pc = "fill"
    /\ FillFile(c, call[c].entry)
    /\ Goto(c, Idle)
    /\ UNCHANGED <<torn, legacy>> /\ Rest

\* A write fails and classify rejects, or its process dies.  The bytes of a
\* write cut short parse no better than none.
CallDies(c) ==
    /\ Disturb
    /\ call[c] # Idle
    /\ Goto(c, Idle)
    /\ handles' = handles \ {c}
    /\ torn' = (torn \/ call[c].pc = "fill")
    /\ UNCHANGED <<file, peak, legacy, backup, now, migration>>

-----------------------------------------------------------------------------
(***************************************************************************)
(* migrateV1ToV2                                                           *)
(***************************************************************************)
Migrate(state) == migration' = state /\ UNCHANGED <<now, quota, call>>

\* Anything but a v1 file is refused, and nothing is written.
ReadLegacy ==
    /\ migration = Idle
    /\ file.version = 1
    /\ Migrate([pc |-> "backup", raw |-> file])
    /\ Overlaps(Migrator)
    /\ UNCHANGED <<file, handles, peak, legacy, backup>>

\* Variant: the rewrite goes first.
SkipBackup ==
    /\ migration.pc = "backup"
    /\ Migrate([migration EXCEPT !.pc = "open"])
    /\ UNCHANGED <<fileVars, backup>>

OpenBackup ==
    /\ migration.pc = "backup"
    /\ backup' = Empty
    /\ Migrate([migration EXCEPT !.pc = "copy"])
    /\ UNCHANGED fileVars

\* The v2 envelope: the verdict and its time are those of the v1 file.
Migrated(raw) == [raw EXCEPT !.version = 2]

\* Variant: the backup holds the migrated entry.
BackupMigrated ==
    /\ migration.pc = "copy"
    /\ backup' = Migrated(migration.raw)
    /\ Migrate([migration EXCEPT !.pc = "open"])
    /\ UNCHANGED fileVars

FillBackup ==
    /\ migration.pc = "copy"
    /\ backup' = migration.raw
    /\ Migrate([migration EXCEPT !.pc = "open"])
    /\ UNCHANGED fileVars

OpenMigrated ==
    /\ migration.pc = "open"
    /\ OpenFile(Migrator)
    /\ Migrate([migration EXCEPT !.pc = "fill"])
    /\ UNCHANGED <<peak, torn, legacy, backup>>

FillMigrated ==
    /\ migration.pc = "fill"
    /\ FillFile(Migrator, Migrated(migration.raw))
    /\ Migrate(Idle)
    /\ UNCHANGED <<torn, legacy, backup>>

\* A write fails and the migration rejects, or its process dies.
MigrationDies ==
    /\ Disturb
    /\ migration # Idle
    /\ migration' = Idle
    /\ handles' = handles \ {Migrator}
    /\ torn' = (torn \/ migration.pc = "fill")
    /\ UNCHANGED <<file, peak, legacy, backup, now, call>>

-----------------------------------------------------------------------------
CallStep(c) ==
    \/ ServeCached(c) \/ AskAdapters(c) \/ AdaptersSettle(c)
    \/ ProbeEnds(c) \/ Reread(c) \/ OpenCache(c) \/ FillCache(c)

MigrationStep == OpenBackup \/ FillBackup \/ OpenMigrated \/ FillMigrated

Next ==
    \/ \E c \in Callers : Start(c) \/ CallStep(c) \/ ProbeAnswers(c) \/ CallDies(c)
    \/ ReadLegacy \/ MigrationStep \/ MigrationDies
    \/ Invalidate \/ Tick

\* File operations end, the adapters' own limits make them settle, and the
\* probe is given up: nobody has to call, and no probe has to answer.
Fairness == \A c \in Callers : WF_vars(CallStep(c))

Spec == Init /\ [][Next]_vars

LiveSpec == Spec /\ Fairness

-----------------------------------------------------------------------------
(***************************************************************************)
(* Properties                                                              *)
(***************************************************************************)
TypeOK ==
    /\ file \in Contents
    /\ handles \subseteq Actors
    /\ backup \in {Missing, Empty} \union {e \in Entries : e.version = 1}
    /\ now \in Nat
    /\ quota \in 0 .. MaxDisturbances
    /\ call \in [Callers -> Calls]
    /\ migration \in Migrations
    /\ peak \in 0 .. 3
    /\ torn \in BOOLEAN
    /\ legacy \subseteq {e \in Entries : e.version = 1}

\* What four answers can support, without the order in which the classifier
\* corrects its verdict: high confidence needs a console event that CloudTrail
\* recorded, and names a provider release only if there is one; a provider
\* release alone or a local commit never gets beyond medium.
Supported(s, verdict) ==
    /\ "failed" \notin {s.auto, s.pv}
    /\ s.auto = "detected"
    /\ verdict.confidence = "high" <=> s.ct = "detected"
    /\ verdict.confidence = "high" =>
          verdict.source = IF s.pv = "detected" THEN "Mixed" ELSE "ConsoleBreakGlass"
    /\ verdict.confidence = "medium" =>
          \/ verdict.source = "ProviderApiChurn" /\ s.pv = "detected"
          \/ verdict.source = "GenuineIacDrift" /\ s.gl = "detected"
    /\ verdict.confidence = "low" => verdict.source = "Unknown" /\ s.gl # "detected"

\* Whatever the probe did and however often the file was rewritten, migrated or
\* raced for, every verdict the cache holds is one the adapters' answers support
\* (the gates and corrections between classifier.ts:172 and 249).
StoredVerdictsAreSupported ==
    (file.version = 2 /\ file.from # Unrecorded) => Supported(file.from, file.verdict)

\* A cached verdict is returned only while the answers it rests on are no older
\* than the time to live, however long the call that stored it took and whether
\* or not it came through a migration.
ServedEvidenceIsFresh ==
    [][\A c \in Callers : ServeCached(c) => now - file.asked <= Ttl]_vars

\* As long as windows from check to write do not overlap and no write is cut
\* short, a confidence once stored is there until the cache is invalidated,
\* also past its time to live: the monotonicity rule of monotonicity.ts.
ConfidenceIsKept ==
    \/ torn
    \/ RankOf(file) = peak
    \/ /\ file = Empty
       /\ \E c \in handles \ {Migrator} : Rank(call[c].entry.verdict.confidence) >= peak

\* Until somebody classifies or invalidates, a v1 verdict survives its migration
\* wherever that stops and however often it is retried: the file or the backup
\* holds it.
LegacyOutlivesMigration == \A e \in legacy : file = e \/ backup = e

\* A call comes back, whatever the probe does.
EveryCallReturns == \A c \in Callers : call[c] # Idle ~> call[c] = Idle

\* monotonicity.ts:1: "once a verdict reaches `high` confidence, it is not
\* silently demoted".
HighIsNotDemoted == (peak = 3 /\ file.version = 2) => RankOf(file) = 3

\* cache.ts:20-23: migration runs on the first read of a v1 file, and a v2 file
\* is never written before the backup of the v1 file.
BackupComesFirst ==
    [][(file.version = 1 /\ file' = Empty) => backup = file]_vars
=============================================================================
