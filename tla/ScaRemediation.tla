--------------------------- MODULE ScaRemediation ---------------------------
(***************************************************************************)
(* Taking an emergency from a work item to a release (tools/sca/src:       *)
(* remediate.ts, adapter.ts, verify-ruleset.ts, merge.ts, record.ts,       *)
(* digest.ts).                                                             *)
(*                                                                         *)
(* "sca remediate-emergency" binds a run to the work items and the commit  *)
(* the operator reviewed, has an agent review the change, replaces the     *)
(* vulnerable version in the target files and writes a plan; "sca merge"   *)
(* makes an approved plan a release and an audit record; "sca digest"      *)
(* renders the audit records.  People edit and commit meanwhile, and any   *)
(* command may be killed: each takes a unit of "left".                     *)
(***************************************************************************)
EXTENDS Integers, Sequences, FiniteSets, Functions

CONSTANTS
    Files,       \* the target files, in the order they are replaced
    Json,        \* those that are parsed and written out again; the others are text
    Scenarios,   \* sets of what runs are started with: options and inputs
    Rulesets,    \* rulesets of the main branch there may be
    MaxIterations,
    Limit,       \* rows of the digest
    Budget

VARIABLES
    files,     \* file -> content
    staged,    \* file -> content of its temporary file, or none
    head,      \* the commit, and the content of its files
    items,     \* version of the work items file
    ruleset,   \* docs/slo/rulesets/sca-main-ruleset.json
    run,       \* the run of "sca remediate-emergency"
    plan,      \* .cache/sca-remediation-plan.json
    merger,    \* the run of "sca merge"
    audits,    \* the audit directory: path -> record
    released,  \* the plans merged and released
    digest,    \* SECURITY-PATCHES.md
    asked,    \* the runs still to be started
    left

repo == <<files, staged, head>>
others == <<items, ruleset>>
merging == <<merger, audits, released, digest>>
bounds == <<asked, left>>
vars == <<repo, others, run, plan, merging, bounds>>

None == "none"
NoVerdict == [decision |-> "none", recheck |-> "unknown", closure |-> FALSE]
Idle == [at |-> "idle"]
Targets == {Files[i] : i \in DOMAIN Files}

\* What a file says of the package, and whether its bytes are those that writing it out
\* anew gives, as a text's always are.
Content(says, canonical) == [says |-> says, canonical |-> canonical]
Garbled == Content("garbled", FALSE)   \* JSON that cannot be parsed
Link == Content("link", TRUE)
NoFile == Content("none", TRUE)
Parsed == {Content(s, c) : s \in {"vulnerable", "fixed", "other"}, c \in BOOLEAN}
Contents == Parsed \union {Garbled, Link}
Written(f) == {c \in Contents \ {Link} : f \in Json \/ c.canonical}

TypeOK ==
    /\ files \in [Targets -> Contents] /\ staged \in [Targets -> Contents \union {NoFile}]
    /\ head.files \in [Targets -> Contents]
    /\ run.at \in {"idle", "bind", "select", "targets", "unchanged", "review", "read", "reread",
                   "revise", "stage", "check", "rename", "verify", "output"}
    /\ run # Idle => run.attempt \in 0..MaxIterations
    /\ merger.at \in {"idle", "gate", "audit", "result"}
    /\ left \in 0..Budget

Init ==
    /\ files \in [Targets -> Contents] /\ \A f \in Targets : files[f] \in Written(f)
    /\ head = [commit |-> 0, files |-> files]
    /\ staged = [f \in Targets |-> NoFile]
    /\ items = 0
    /\ ruleset \in Rulesets
    /\ run = Idle
    /\ plan = [file |-> "absent"]
    /\ merger = Idle
    /\ audits = [a \in {} |-> None]
    /\ released = {}
    /\ digest = {}
    /\ asked \in Scenarios
    /\ left = Budget

Happens == left > 0 /\ left' = left - 1
Calm == UNCHANGED left

-----------------------------------------------------------------------------
(***************************************************************************)
(* remediateFromFiles: binding, selection and targets                      *)
(***************************************************************************)
Goes(at) == run' = [run EXCEPT !.at = at]
Throws == run' = Idle

\* The operator has reviewed the work items and noted the commit.
Start(r) ==
    /\ run = Idle
    /\ asked' = asked \ {r}
    /\ run' = [at |-> "bind", args |-> r, digest |-> items, expected |-> head.commit,
               left |-> left, attempt |-> 0, verdict |-> NoVerdict, read |-> <<>>, next |-> 1,
               atHead |-> left, atFile |-> left, approved |-> FALSE, why |-> None]
    /\ UNCHANGED <<repo, others, plan, merging, left>>

\* verifyApplyBinding: without it nothing is ever written but the plan.
Bind ==
    /\ run.at = "bind"
    /\ IF run.args.apply /\ (items # run.digest \/ head.commit # run.expected)
       THEN Throws ELSE Goes("select")
    /\ UNCHANGED <<repo, others, plan, merging, bounds>>

\* No emergency is a plan that says so; two of them, evidence that is not exactly
\* one consistent row, no fix and a pnpm lockfile to patch are refused.
Select ==
    /\ run.at = "select"
    /\ CASE run.args.emergencies = 0 -> run' = [run EXCEPT !.at = "output", !.why = "nothing"]
         [] run.args.emergencies = 1 /\ run.args.rows = 1 /\ ~(run.args.apply /\ run.args.pnpm) ->
               Goes("targets")
         [] OTHER -> Throws
    /\ UNCHANGED <<repo, others, plan, merging, bounds>>

\* validatePathComponents of every target; then the revision; git asks whether they
\* are as committed; then the revision again.
Validate ==
    /\ run.at = "targets"
    /\ CASE \E f \in Targets : files[f] = Link -> Throws
         [] ~(\E f \in Targets : files[f] = Link) /\ ~run.args.apply -> Goes("review")
         [] ~(\E f \in Targets : files[f] = Link) /\ run.args.apply ->
               IF head.commit = run.expected THEN Goes("unchanged") ELSE Throws
    /\ UNCHANGED <<repo, others, plan, merging, bounds>>

Unchanged ==
    /\ run.at = "unchanged"
    /\ IF files = head.files /\ head.commit = run.expected THEN Goes("review") ELSE Throws
    /\ UNCHANGED <<repo, others, plan, merging, bounds>>

-----------------------------------------------------------------------------
(***************************************************************************)
(* remediateEmergency                                                      *)
(***************************************************************************)
\* validateFixAttempt: inside the allowed paths, no test, no deletion, no scanner.
InBounds(attempt) == attempt = "inside"

\* applyBoundedFixer: a build that is not green takes exactly one attempt.
Fixer(r) == r.green \/ (Len(r.fixes) = 1 /\ InBounds(r.fixes[1]))

\* What ends a run before the agent is asked.
Refused(r) ==
    \/ ~r.sideEffects \/ r.state # "in_progress"
    \/ r.tools \cap {"merge", "secret"} # {}
    \/ ~Fixer(r)
    \/ ~r.dependencyReview
    \/ r.malicious

Escalated == run' = [run EXCEPT !.at = "output", !.approved = FALSE, !.why = "escalated"]

\* An agent answers, in time or not, with a verdict or with something else.
Verdicts == [decision : {"approve", "reject", "escalate"}, recheck : {"clean", "unknown"},
             closure : BOOLEAN]
Answers == Verdicts \union {[decision |-> "late", recheck |-> "unknown", closure |-> FALSE],
                            [decision |-> "invalid", recheck |-> "unknown", closure |-> FALSE]}

\* parseAgentResponse: an approval needs a clean recheck of the whole closure.
Accepted(a) == a.decision = "approve" /\ a.recheck = "clean" /\ a.closure

Rejected(a) == a.decision \in {"reject", "escalate"}

\* Variant: one attempt too many.
TriesOnceMore == run.attempt <= MaxIterations

MayTryAgain == run.attempt < MaxIterations

Review(a) ==
    /\ run.at = "review"
    /\ LET fixes == run.args.reviewFixes
       IN  CASE Refused(run.args) -> Escalated
             [] ~Refused(run.args) /\ Accepted(a) ->
                   run' = [run EXCEPT !.at = IF run.args.apply THEN "read" ELSE "output",
                                      !.approved = TRUE, !.verdict = a]
             [] /\ ~Refused(run.args) /\ ~Accepted(a) /\ Rejected(a)
                /\ MayTryAgain
                /\ run.attempt < Len(fixes) /\ InBounds(fixes[run.attempt + 1]) ->
                   run' = [run EXCEPT !.attempt = @ + 1]
             [] OTHER -> Escalated
    /\ UNCHANGED <<repo, others, plan, merging, bounds>>

-----------------------------------------------------------------------------
(***************************************************************************)
(* applyDependencyBump                                                     *)
(***************************************************************************)
\* updatePackageLock and its like: the exact vulnerable version gives way to the fix, and
\* JSON is written out anew even if it has no such version.
Replacement(f, content) ==
    Content(IF content.says = "vulnerable" THEN "fixed" ELSE content.says,
            content.canonical \/ f \in Json)

Same(f, content) == files[f] = content /\ files[f] # Link

\* One file after the other is read; an apply that would change no byte fails.
Read ==
    /\ run.at = "read"
    /\ LET f == Files[Len(run.read) + 1]
           read == Append(run.read, files[f])
       IN  IF files[f] \in {Link, Garbled} THEN Throws
           ELSE IF Len(read) < Len(Files) THEN run' = [run EXCEPT !.read = read]
           ELSE IF \A i \in DOMAIN read : Replacement(Files[i], read[i]) = read[i] THEN Throws
           ELSE run' = [run EXCEPT !.read = read, !.at = "reread"]
    /\ UNCHANGED <<repo, others, plan, merging, bounds>>

\* Variant: what has changed on the way is read again.
RereadUntilSame ==
    /\ run.at = "reread"
    /\ IF /\ \A i \in DOMAIN Files : Same(Files[i], run.read[i])
          /\ head.commit = run.expected
       THEN Goes("revise") ELSE run' = [run EXCEPT !.at = "read", !.read = <<>>]
    /\ UNCHANGED <<repo, others, plan, merging, bounds>>

\* assertRepositoryFileUnchanged of all, and assertApplyRevision.
Reread ==
    /\ run.at = "reread"
    /\ IF /\ \A i \in DOMAIN Files : Same(Files[i], run.read[i])
          /\ head.commit = run.expected
       THEN Goes("revise") ELSE Throws
    /\ UNCHANGED <<repo, others, plan, merging, bounds>>

File == Files[run.next]
Old == run.read[run.next]
More == run.next < Len(Files)
Onwards(at) == run' = [run EXCEPT !.at = IF More THEN "revise" ELSE at, !.next = @ + 1]

\* A file that would stay as it is is passed over; before each other the revision.
Revise ==
    /\ run.at = "revise"
    /\ CASE Replacement(File, Old) = Old -> Onwards("output")
         [] Replacement(File, Old) # Old /\ head.commit = run.expected ->
               run' = [run EXCEPT !.at = "stage", !.atHead = left]
         [] OTHER -> Throws
    /\ UNCHANGED <<repo, others, plan, merging, bounds>>

\* atomicReplaceRepositoryFile: the new content goes to a file of its own first.
Stage ==
    /\ run.at = "stage"
    /\ staged' = [staged EXCEPT ![File] = Replacement(File, Old)]
    /\ Goes("check")
    /\ UNCHANGED <<files, head, others, plan, merging, bounds>>

\* Variant: what was checked a while ago is not checked again.
NoCheck ==
    /\ run.at = "check"
    /\ run' = [run EXCEPT !.at = "rename", !.atFile = left]
    /\ UNCHANGED <<repo, others, plan, merging, bounds>>

Check ==
    /\ run.at = "check"
    /\ IF Same(File, Old)
       THEN run' = [run EXCEPT !.at = "rename", !.atFile = left] /\ UNCHANGED staged
       ELSE staged' = [staged EXCEPT ![File] = NoFile] /\ Throws
    /\ UNCHANGED <<files, head, others, plan, merging, bounds>>

Rename ==
    /\ run.at = "rename"
    /\ files' = [files EXCEPT ![File] = staged[File]]
    /\ staged' = [staged EXCEPT ![File] = NoFile]
    /\ Goes("verify")
    /\ UNCHANGED <<head, others, plan, merging, bounds>>

Verify ==
    /\ run.at = "verify"
    /\ IF Same(File, Replacement(File, Old)) THEN Onwards("output") ELSE Throws
    /\ UNCHANGED <<repo, others, plan, merging, bounds>>

\* writeRepositoryOutput: a plan is replaced as a whole.
Output ==
    /\ run.at = "output"
    /\ plan' = [file |-> "whole", approved |-> run.approved, verdict |-> run.verdict,
                asked |-> run.why = None, advisory |-> run.args.advisory,
                dependencyReview |-> run.args.dependencyReview, run |-> run.args]
    /\ Throws
    /\ UNCHANGED <<repo, others, merging, bounds>>

-----------------------------------------------------------------------------
(***************************************************************************)
(* merge.ts, verify-ruleset.ts, record.ts, digest.ts                       *)
(***************************************************************************)
Moves(at) == merger' = [merger EXCEPT !.at = at]
Blocked == merger' = Idle

\* mergeFromFiles: a plan that is not approved, or never got to the agent, is
\* nothing to merge.
MergeStarts ==
    /\ merger = Idle
    /\ plan.file = "whole" /\ plan.approved /\ plan.asked
    /\ merger' = [at |-> "gate", plan |-> plan]
    /\ UNCHANGED <<repo, others, run, plan, audits, released, digest, bounds>>

\* verifyRuleset: three identities, no bypass, no automatic merge, the declared checks.
RulesetOk(r) ==
    /\ ~r.autoMerge /\ ~r.bypass /\ r.checks /\ r.dismissStale /\ r.approvals = 1
    /\ Cardinality({r.reviewer, r.remediator, r.merger}) = 3
    /\ r.probe

\* mergeEmergencyPr: the gate, which reads what the plan says of its checks.
Gate ==
    /\ merger.at = "gate"
    /\ IF RulesetOk(ruleset) /\ merger.plan.dependencyReview THEN Moves("audit") ELSE Blocked
    /\ UNCHANGED <<repo, others, run, plan, audits, released, digest, bounds>>

\* Variant: the release is made first.
ReleaseBeforeAudit ==
    /\ merger.at = "audit"
    /\ released' = released \union {merger.plan}
    /\ Moves("result")
    /\ UNCHANGED <<repo, others, run, plan, audits, digest, bounds>>

\* The record is named for the day and the advisory; no record, no merge.
Audit ==
    /\ merger.at = "audit"
    /\ \/ /\ audits' = [a \in DOMAIN audits \union {merger.plan.advisory} |->
                           IF a = merger.plan.advisory THEN merger.plan ELSE audits[a]]
          /\ Moves("result")
          /\ Calm
       \/ Happens /\ Blocked /\ UNCHANGED audits
    /\ UNCHANGED <<repo, others, run, plan, released, digest, asked>>

Release ==
    /\ merger.at = "result"
    /\ released' = released \union {merger.plan}
    /\ Blocked
    /\ UNCHANGED <<repo, others, run, plan, audits, digest, bounds>>

\* renderDigestFromAuditDir: the newest records, up to the limit.
Render ==
    /\ \E shown \in SUBSET DOMAIN audits :
          /\ Cardinality(shown) = IF Cardinality(DOMAIN audits) < Limit
                                  THEN Cardinality(DOMAIN audits) ELSE Limit
          /\ digest' = shown
    /\ digest' # digest
    /\ UNCHANGED <<repo, others, run, plan, merger, audits, released, bounds>>

-----------------------------------------------------------------------------
\* People write JSON as they like.
Edits(f) == {Content("other", f \notin Json), Link} \union (Written(f) \intersect {Garbled})

Edit(f, content) ==
    /\ Happens
    /\ files' = [files EXCEPT ![f] = content]
    /\ UNCHANGED <<staged, head, others, run, plan, merging, asked>>

Commit ==
    /\ Happens
    /\ head' = [commit |-> head.commit + 1, files |-> files]
    /\ UNCHANGED <<files, staged, others, run, plan, merging, asked>>

TriageAgain ==
    /\ Happens
    /\ items' = items + 1
    /\ UNCHANGED <<repo, ruleset, run, plan, merging, asked>>

RulesetDrifts ==
    /\ Happens
    /\ ruleset' \in Rulesets
    /\ UNCHANGED <<repo, items, run, plan, merging, asked>>

KillRun ==
    /\ Happens
    /\ run # Idle
    /\ Throws
    /\ UNCHANGED <<repo, others, plan, merging, asked>>

KillMerge ==
    /\ Happens
    /\ merger # Idle
    /\ Blocked
    /\ UNCHANGED <<repo, others, run, plan, audits, released, digest, asked>>

Steps ==
    \/ Bind \/ Select \/ Validate \/ Unchanged
    \/ \E a \in Answers : Review(a)
    \/ Read \/ Reread \/ Revise \/ Stage \/ Check \/ Rename \/ Verify \/ Output

Next ==
    \/ \E r \in asked : Start(r)
    \/ Steps
    \/ MergeStarts \/ Gate \/ Audit \/ Release \/ Render
    \/ \E f \in Targets : \E c \in Edits(f) : Edit(f, c)
    \/ Commit \/ TriageAgain \/ RulesetDrifts \/ KillRun \/ KillMerge

Spec == Init /\ [][Next]_vars

\* Files and git answer, and the agent's timer runs.
FairSpec == Spec /\ WF_vars(Steps)

-----------------------------------------------------------------------------
(***************************************************************************)
(* Properties                                                              *)
(***************************************************************************)
\* A file is replaced at the commit the operator reviewed, from the work items the
\* operator reviewed, over the very content that was read, all as of the last check
\* before the replacement.  It says the same afterwards but for the exact vulnerable
\* version; without that version it is replaced only as JSON that was written otherwise.
ReplacesWhatWasReviewed ==
    run.at = "rename" =>
        /\ run.args.apply /\ run.approved
        /\ run.atHead = left => head.commit = run.expected
        /\ run.atFile = left => files[File] = Old
        /\ \/ Old.says = "vulnerable" /\ staged[File].says = "fixed"
           \/ File \in Json /\ ~Old.canonical /\ staged[File] = Content(Old.says, TRUE)

\* Whatever is released was approved by an agent that had rechecked the whole closure
\* and found it clean, had passed the dependency review, was claimed, and has an
\* audit record under its advisory.
ReleasesAreReviewedAndAudited ==
    \A p \in released :
        /\ p.approved /\ Accepted(p.verdict) /\ ~p.run.malicious /\ p.dependencyReview
        /\ p.run.sideEffects /\ p.run.state = "in_progress"
        /\ p.advisory \in DOMAIN audits
        /\ Accepted(audits[p.advisory].verdict)

\* A run ends, however often the agent answers late or asks for changes.
RunsEnd == run # Idle ~> run = Idle
=============================================================================
