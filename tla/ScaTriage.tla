------------------------------ MODULE ScaTriage ------------------------------
(***************************************************************************)
(* Finding vulnerable packages and deciding what becomes of them           *)
(* (tools/sca/src: scan.ts, dependency-review.ts, normalize.ts, route.ts,  *)
(* store.ts, triage.ts).                                                   *)
(*                                                                         *)
(* "sca scan" runs the pinned OSV scanner over the lockfiles and leaves a  *)
(* findings file; "sca triage" routes each finding, records it in the      *)
(* state store and hands out work items; the dependency review compares    *)
(* two scans.  The commands are processes that meet in files.  Any of them *)
(* may be killed between two steps, the scanner may fail, and the          *)
(* lockfiles change meanwhile: each takes a unit of "left".                *)
(***************************************************************************)
EXTENDS Integers, FiniteSets, Functions

CONSTANTS
    Processes,   \* scans, triages and reviews
    Findings,    \* finding -> its key and what the sources say of it
    Lockfiles,   \* what the lockfiles may hold: sets of findings
    Base,        \* what they hold on the base branch
    Caches,      \* what the scanner's cache may hold at first
    Budget       \* units of changes, kills and failures

VARIABLES
    present,  \* the findings the lockfiles hold
    binary,   \* the scanner in the cache: none, pinned, other
    raw,      \* .cache/osv-raw.json
    found,    \* findings.osv.json
    review,   \* .cache/dependency-review-osv.json
    store,    \* the state store: key -> state; or torn
    items,    \* the work items file
    proc,     \* the processes
    claims,   \* history: how often each key was handed out
    raced,    \* history: a triage wrote over a store it had not read
    left      \* units left

caches == <<present, binary, raw, found, review>>
vars == <<caches, store, items, proc, claims, raced, left>>

Absent == [file |-> "absent"]
Torn == [file |-> "torn"]
File(content) == [file |-> "whole", content |-> content]
Whole(f) == f.file = "whole"

Idle == [at |-> "idle"]
Names == DOMAIN Findings
KeyOf(f) == Findings[f].key
Keys == {KeyOf(f) : f \in Names}
KeysOf(fs) == {KeyOf(f) : f \in fs}

TypeOK ==
    /\ present \subseteq Names
    /\ binary \in {"none", "pinned", "other"}
    /\ \A f \in {raw, found, review} : Whole(f) => f.content \subseteq Names
    /\ Whole(store) => DOMAIN store.content \subseteq Keys
    /\ Whole(items) => items.content.emergency \subseteq Keys /\ items.content.rows \subseteq Names
    /\ \A p \in Processes : proc[p].at \in
          {"idle", "bootstrap", "download", "install", "rename", "verify", "run", "read",
           "found", "save", "hand", "clear", "review", "compare", "verdict"}
    /\ claims \in [Keys -> Nat] /\ raced \in BOOLEAN /\ left \in 0..Budget

Init ==
    /\ present \in Lockfiles
    /\ binary \in Caches
    /\ raw = Absent /\ found = Absent /\ review = Absent
    /\ store = File([k \in {} |-> "detected"])
    /\ items = Absent
    /\ proc = [p \in Processes |-> Idle]
    /\ claims = [k \in Keys |-> 0]
    /\ raced = FALSE
    /\ left = Budget

Goes(p, step) == proc' = [proc EXCEPT ![p] = step]
Throws(p) == Goes(p, Idle)
Happens == left > 0 /\ left' = left - 1

-----------------------------------------------------------------------------
(***************************************************************************)
(* The scanner binary: ensureScannerBinary and verifyScannerBinary         *)
(***************************************************************************)
ScanStarts(p) ==
    /\ proc[p] = Idle
    /\ Goes(p, [at |-> "bootstrap"])
    /\ UNCHANGED <<caches, store, items, claims, raced, left>>

\* A cached entry is hashed; what is not the pinned asset fails the scan.
Bootstrap(p) ==
    /\ proc[p].at = "bootstrap"
    /\ CASE binary = "pinned" -> Goes(p, [at |-> "run"])
         [] binary = "none" -> Goes(p, [at |-> "download"])
         [] OTHER -> Throws(p)
    /\ UNCHANGED <<caches, store, items, claims, raced, left>>

\* The asset is fetched, bounded, hashed, staged and verified; or it is not.
Download(p) ==
    /\ proc[p].at = "download"
    /\ \/ Goes(p, [at |-> "install"]) /\ UNCHANGED left
       \/ Throws(p) /\ Happens
    /\ UNCHANGED <<caches, store, items, claims, raced>>

\* "appeared during download; refusing overwrite"
Install(p) ==
    /\ proc[p].at = "install"
    /\ IF binary = "none" THEN Goes(p, [at |-> "rename"]) ELSE Throws(p)
    /\ UNCHANGED <<caches, store, items, claims, raced, left>>

Rename(p) ==
    /\ proc[p].at = "rename"
    /\ binary' = "pinned"
    /\ Goes(p, [at |-> "verify"])
    /\ UNCHANGED <<present, raw, found, review, store, items, claims, raced, left>>

Verify(p) ==
    /\ proc[p].at = "verify"
    /\ IF binary = "pinned" THEN Goes(p, [at |-> "run"]) ELSE Throws(p)
    /\ UNCHANGED <<caches, store, items, claims, raced, left>>

-----------------------------------------------------------------------------
(***************************************************************************)
(* scanWithOsvScanner                                                      *)
(***************************************************************************)
\* A run of the scanner leaves its output and an exit code: not 0 if there are
\* findings, if the database was out of reach, if it died before it wrote.
Scanned(file, file2, lockfiles, code) ==
    \/ file2 = File(lockfiles) /\ code = (IF lockfiles = {} THEN 0 ELSE 1) /\ UNCHANGED left
    \/ file2 \in {File({}), file} /\ code = 127 /\ Happens

RunScanner(p) ==
    /\ proc[p].at = "run"
    /\ \E code \in {0, 1, 127} :
          /\ Scanned(raw, raw', present, code)
          /\ Goes(p, [at |-> "read", code |-> code, saw |-> present])
    /\ UNCHANGED <<present, binary, found, review, store, items, claims, raced>>

\* flattenOsvResults: other ecosystems and packages without a version are left out.
Flattened(content) == {f \in content : Findings[f].supported}

\* Variant: an empty result is no findings, whatever the exit code.
AcceptedWhateverTheCode(code, content) == TRUE

\* "OSV database unavailable or scan failed" is what no findings and a code mean.
Accepted(code, content) == code = 0 \/ Flattened(content) # {}

ReadScan(p) ==
    /\ proc[p].at = "read"
    /\ IF Whole(raw) /\ Accepted(proc[p].code, raw.content)
       THEN found' = File(Flattened(raw.content))
       ELSE UNCHANGED found
    /\ Throws(p)
    /\ UNCHANGED <<present, binary, raw, review, store, items, claims, raced, left>>

-----------------------------------------------------------------------------
(***************************************************************************)
(* routeEvidence                                                           *)
(***************************************************************************)
\* What normalizeEvidence makes of the sources: the class; is there a fixed
\* version; is the package in a lockfile; KEV; EPSS and CVSS against the
\* thresholds.  A source that is out of reach is "unavailable".
MissingSeverityData(e) ==
    /\ e.class = "critical"
    /\ e.cvss = "unavailable" \/ e.kev = "unavailable" \/ e.epss = "unavailable"

Emergency(e) ==
    \/ e.class = "malicious"
    \/ e.kev = "listed" \/ e.epss = "high" \/ e.cvss = "high"
    \/ MissingSeverityData(e)

\* Known malicious code without a fixed release fails the whole triage.
FailsTriage(e) == e.locked /\ e.class = "malicious" /\ ~e.fix

Route(e) ==
    CASE ~e.locked \/ ~e.fix -> "dropped"
      [] e.locked /\ e.fix /\ Emergency(e) -> "emergency"
      [] OTHER -> "cadence"

\* stateForTrack
StateFor == [emergency |-> "in_progress", cadence |-> "detected", dropped |-> "dropped"]

-----------------------------------------------------------------------------
(***************************************************************************)
(* triage.cli                                                              *)
(***************************************************************************)
\* readStateFile: a store that does not parse fails the command.
TriageStarts(p) ==
    /\ proc[p] = Idle
    /\ Whole(store)
    /\ Goes(p, [at |-> "found", read |-> store.content])
    /\ UNCHANGED <<caches, store, items, claims, raced, left>>

\* One finding after the other: claimFinding and writeFindingState both leave a
\* key alone that the store holds; the other keys go where their route says.
Triage(p) ==
    /\ proc[p].at = "found"
    /\ IF ~Whole(found) \/ \E f \in found.content : FailsTriage(Findings[f])
       THEN Throws(p)
       ELSE LET read == proc[p].read
                rows == found.content
                new == {f \in rows : KeyOf(f) \notin DOMAIN read}
                RouteOf(k) == Route(Findings[CHOOSE f \in new : KeyOf(f) = k])
            IN  Goes(p, [at |-> "save", read |-> read, rows |-> rows,
                         store |-> [k \in DOMAIN read \union KeysOf(new) |->
                                      IF k \in DOMAIN read THEN read[k] ELSE StateFor[RouteOf(k)]],
                         emergency |-> {k \in KeysOf(new) : RouteOf(k) = "emergency"}])
    /\ UNCHANGED <<caches, store, items, claims, raced, left>>

\* Variant: the work items are written before the state.
SaveAfterItems(p) ==
    /\ proc[p].at = "save"
    /\ items' = File([emergency |-> proc[p].emergency, rows |-> proc[p].rows])
    /\ claims' = [k \in Keys |-> IF k \in proc[p].emergency THEN claims[k] + 1 ELSE claims[k]]
    /\ Goes(p, [proc[p] EXCEPT !.at = "hand"])
    /\ UNCHANGED <<caches, store, raced, left>>

\* writeStateFile writes in place: killed half way, it leaves half a file.
Save(p) ==
    /\ proc[p].at = "save"
    /\ \/ /\ store' = File(proc[p].store)
          /\ Goes(p, [proc[p] EXCEPT !.at = "hand"])
          /\ UNCHANGED left
       \/ /\ store' = Torn
          /\ Throws(p)
          /\ Happens
    /\ raced' = (raced \/ store # File(proc[p].read))
    /\ UNCHANGED <<caches, items, claims>>

Hand(p) ==
    /\ proc[p].at = "hand"
    /\ items' = File([emergency |-> proc[p].emergency, rows |-> proc[p].rows])
    /\ claims' = [k \in Keys |-> IF k \in proc[p].emergency THEN claims[k] + 1 ELSE claims[k]]
    /\ Throws(p)
    /\ UNCHANGED <<caches, store, raced, left>>

-----------------------------------------------------------------------------
(***************************************************************************)
(* reviewDependencyChanges                                                 *)
(***************************************************************************)
\* Lockfiles of fixtures are not reviewed; without others there is nothing to do.
\* A checkout is reviewed once: .github/workflows/dependency-review.yml.
Runtime(fs) == {f \in fs : ~Findings[f].fixture}

ReviewStarts(p) ==
    /\ proc[p] = Idle
    /\ \A q \in Processes : proc[q].at \notin {"clear", "review", "compare", "verdict"}
    /\ Goes(p, [at |-> "clear", round |-> "current", current |-> {}, saw |-> {}])
    /\ UNCHANGED <<caches, store, items, claims, raced, left>>

\* Variant: what an earlier scan left is not removed.
KeepOutput(p) ==
    /\ proc[p].at = "clear"
    /\ Goes(p, [proc[p] EXCEPT !.at = "review"])
    /\ UNCHANGED <<caches, store, items, claims, raced, left>>

ClearOutput(p) ==
    /\ proc[p].at = "clear"
    /\ review' = Absent
    /\ Goes(p, [proc[p] EXCEPT !.at = "review"])
    /\ UNCHANGED <<present, binary, raw, found, store, items, claims, raced, left>>

RunReview(p) ==
    /\ proc[p].at = "review"
    /\ LET lockfiles == Runtime(IF proc[p].round = "current" THEN present ELSE Base)
       IN  \E code \in {0, 1, 127} :
              /\ Scanned(review, review', lockfiles, code)
              /\ Goes(p, [at |-> "compare", round |-> proc[p].round, code |-> code,
                          current |-> proc[p].current,
                          saw |-> IF proc[p].round = "current" THEN lockfiles ELSE proc[p].saw])
    /\ UNCHANGED <<present, binary, raw, found, store, items, claims, raced>>

\* An error is a verdict too: not ok.  New is what no base finding has the key of.
Compare(p) ==
    /\ proc[p].at = "compare"
    /\ LET s == proc[p]
           failed == ~Whole(review) \/ (s.code # 0 /\ review.content = {})
           findings == Flattened(review.content)
       IN  Goes(p,
              IF failed THEN [at |-> "verdict", ok |-> FALSE, saw |-> s.saw]
              ELSE IF s.round = "current"
              THEN [at |-> "clear", round |-> "base", current |-> findings, saw |-> s.saw]
              ELSE [at |-> "verdict", saw |-> s.saw,
                    ok |-> {f \in s.current : KeyOf(f) \notin KeysOf(findings)} = {}])
    /\ UNCHANGED <<caches, store, items, claims, raced, left>>

ReviewEnds(p) ==
    /\ proc[p].at = "verdict"
    /\ Throws(p)
    /\ UNCHANGED <<caches, store, items, claims, raced, left>>

-----------------------------------------------------------------------------
Kill(p) ==
    /\ Happens
    /\ proc[p] # Idle
    /\ Throws(p)
    /\ UNCHANGED <<caches, store, items, claims, raced>>

Change ==
    /\ Happens
    /\ present' \in Lockfiles
    /\ UNCHANGED <<binary, raw, found, review, store, items, proc, claims, raced>>

\* Somebody else's entry appears in the cache, or the cache is emptied.
CacheChanges ==
    /\ Happens
    /\ binary' \in {"none", "other"}
    /\ UNCHANGED <<present, raw, found, review, store, items, proc, claims, raced>>

Next ==
    \/ \E p \in Processes :
          \/ ScanStarts(p) \/ Bootstrap(p) \/ Download(p) \/ Install(p) \/ Rename(p)
          \/ Verify(p) \/ RunScanner(p) \/ ReadScan(p)
          \/ TriageStarts(p) \/ Triage(p) \/ Save(p) \/ Hand(p)
          \/ ReviewStarts(p) \/ ClearOutput(p) \/ RunReview(p) \/ Compare(p) \/ ReviewEnds(p)
          \/ Kill(p)
    \/ Change
    \/ CacheChanges

Spec == Init /\ [][Next]_vars

-----------------------------------------------------------------------------
(***************************************************************************)
(* Properties                                                              *)
(***************************************************************************)
\* An empty findings file means empty lockfiles, whatever the scanner died of and
\* whatever output an earlier run left behind.
NoFalseAllClear ==
    [][\A p \in Processes :
          /\ proc[p].at = "read" /\ proc'[p] # proc[p]
          /\ found' # found /\ found' = File({})
          => Flattened(proc[p].saw) = {}]_vars

\* A dependency review that says ok scanned every change: what the runtime
\* lockfiles held has a key the base branch has as well.
ReviewsFindWhatIsNew ==
    \A p \in Processes :
        proc[p].at = "verdict" /\ proc[p].ok =>
           KeysOf(Flattened(proc[p].saw)) \subseteq KeysOf(Runtime(Base))

\* The state store is the claim: an emergency is handed out for remediation once,
\* though triages are killed at any point and lockfiles come back, unless two
\* triages wrote over each other's store.
HandedOutOnce == ~raced => \A k \in Keys : claims[k] <= 1

=============================================================================
