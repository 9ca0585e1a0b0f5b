------------------------------ MODULE ScaScope ------------------------------
(***************************************************************************)
(* The scope of the supply-chain scan (tools/sca/src: discover.ts,         *)
(* policy.ts, classify-scope.ts, scope-sync.ts).                           *)
(*                                                                         *)
(* "sca scope-sync" walks the repository, compares what it finds with the  *)
(* scope file, lets conventions and a classifier place what is new, and    *)
(* with --apply writes the scope file.  Meanwhile people edit that file,   *)
(* manifests come and go, and other syncs run.                             *)
(***************************************************************************)
EXTENDS Integers, FiniteSets, Functions

CONSTANTS
    Syncs,       \* processes running "sca scope-sync"
    Manifests,   \* manifests there can be
    Matches,     \* the conventions each of them matches: "acting", "exclude"
    Skipped,     \* those in directories the walk leaves out or cannot read
    Human,       \* tracks a person may write into the scope file
    SampleBudget,\* how many manifests the classifier is asked about
    Budget       \* units of edits and changes to the tree

VARIABLES
    tree,     \* the manifests in the repository
    scope,    \* the scope file: the track of each manifest it lists
    sync,     \* the processes
    granted,  \* manifests a person has once given the track "emergency"
    given,    \* the tracks people gave while no sync was under way
    left      \* edits and changes left

vars == <<tree, scope, sync, granted, given, left>>

Tracks == {"emergency", "cadence", "report-only", "ignore"}
Idle == [at |-> "idle"]

\* What a classifier may answer about a manifest: a track with confidence or
\* without, or something else than a proposal.
Proposals == [track : Tracks, sure : BOOLEAN] \union {[track |-> "none", sure |-> FALSE]}

TypeOK ==
    /\ tree \subseteq Manifests
    /\ DOMAIN scope \subseteq Manifests /\ \A m \in DOMAIN scope : scope[m] \in Tracks
    /\ \A s \in Syncs : sync[s].at \in {"idle", "diff", "write", "done"}
    /\ granted \subseteq Manifests /\ DOMAIN given \subseteq Manifests
    /\ left \in 0..Budget

Init ==
    /\ tree \in SUBSET Manifests
    /\ scope = [m \in {} |-> "ignore"]
    /\ sync = [s \in Syncs |-> Idle]
    /\ granted = {}
    /\ given = [m \in {} |-> "ignore"]
    /\ left = Budget

-----------------------------------------------------------------------------
(***************************************************************************)
(* Placing one manifest                                                    *)
(***************************************************************************)
\* A decision: the track, and whether a person has to look.
Decided(track, human) == [track |-> track, needsHuman |-> human]

\* classifyManifest, under the default conventions: exclusion goes first.
ClassifyManifest(m) ==
    CASE "exclude" \in Matches[m] -> Decided("report-only", FALSE)
      [] "exclude" \notin Matches[m] /\ "acting" \in Matches[m] -> Decided("cadence", FALSE)
      [] OTHER -> Decided("report-only", TRUE)

\* proposeTrack: no proposal, an emergency or low confidence go to a person.
ProposeTrack(p) ==
    IF p.track \in {"none", "emergency"} \/ ~p.sure
    THEN Decided("report-only", TRUE) ELSE Decided(p.track, FALSE)

\* classifyDrift asks about the first of those that need a person.
Asked(added) ==
    {q \in SUBSET added : Cardinality(q) = IF Cardinality(added) < SampleBudget
                                           THEN Cardinality(added) ELSE SampleBudget}

NeedsHuman(decisions) == {m \in DOMAIN decisions : decisions[m].needsHuman}

-----------------------------------------------------------------------------
(***************************************************************************)
(* A sync                                                                  *)
(***************************************************************************)
\* discoverManifests.
Discovered == tree \ Skipped

Walk(s, apply, classify) ==
    /\ sync[s] = Idle
    /\ sync' = [sync EXCEPT ![s] = [at |-> "diff", apply |-> apply, classify |-> classify,
                                    found |-> Discovered]]
    /\ UNCHANGED <<tree, scope, granted, given, left>>

\* Variant: everything is placed anew.
ProposedAnew(m, decisions) ==
    IF m \in DOMAIN decisions THEN decisions[m].track ELSE ClassifyManifest(m).track

\* What the file lists keeps its track.
Proposed(m, decisions) == IF m \in DOMAIN decisions THEN decisions[m].track ELSE scope[m]

\* readScopeFile, diffScope, classifyDrift and proposeScope: what is gone is
\* left out, what is new is placed.
Diff(s) ==
    /\ sync[s].at = "diff"
    /\ LET found == sync[s].found
           added == found \ DOMAIN scope
           unsure == {m \in added : ClassifyManifest(m).needsHuman}
       IN  \E q \in IF sync[s].classify THEN Asked(unsure) ELSE {{}} :
           \E answer \in [q -> Proposals] :
              LET decisions == [m \in added |-> IF m \in q THEN ProposeTrack(answer[m])
                                                ELSE ClassifyManifest(m)]
                  unplaced == NeedsHuman(decisions)
              IN  sync' = [sync EXCEPT ![s] =
                     [at |-> IF sync[s].apply THEN "write" ELSE "done",
                      found |-> found,
                      proposed |-> [m \in found |-> Proposed(m, decisions)],
                      exit |-> IF unplaced # {} THEN 3 ELSE 0]]
    /\ UNCHANGED <<tree, scope, granted, given, left>>

\* The scope file is written as a whole, whatever it has become meanwhile.
WriteScope(s) ==
    /\ sync[s].at = "write"
    /\ scope' = sync[s].proposed
    /\ sync' = [sync EXCEPT ![s].at = "done"]
    /\ UNCHANGED <<tree, granted, given, left>>

Exit(s) ==
    /\ sync[s].at = "done"
    /\ sync' = [sync EXCEPT ![s] = Idle]
    /\ UNCHANGED <<tree, scope, granted, given, left>>

\* The process is killed.
Kill(s) ==
    /\ left > 0
    /\ sync[s].at \in {"diff", "write"}
    /\ sync' = [sync EXCEPT ![s] = Idle]
    /\ left' = left - 1
    /\ UNCHANGED <<tree, scope, granted, given>>

-----------------------------------------------------------------------------
Change ==
    /\ left > 0
    /\ left' = left - 1

With(tracks, m, track) ==
    [n \in DOMAIN tracks \union {m} |-> IF n = m THEN track ELSE tracks[n]]
Without(tracks, m) == Restrict(tracks, DOMAIN tracks \ {m})

Edit(m, track) ==
    /\ Change
    /\ scope' = With(scope, m, track)
    /\ granted' = IF track = "emergency" THEN granted \union {m} ELSE granted
    /\ given' = IF m \in Discovered /\ \A s \in Syncs : sync[s].at \notin {"diff", "write"}
                THEN With(given, m, track) ELSE Without(given, m)
    /\ UNCHANGED <<tree, sync>>

Move(m) ==
    /\ Change
    /\ tree' = IF m \in tree THEN tree \ {m} ELSE tree \union {m}
    /\ given' = Without(given, m)
    /\ UNCHANGED <<scope, sync, granted>>

Next ==
    \/ \E s \in Syncs :
          \/ \E apply, classify \in BOOLEAN : Walk(s, apply, classify)
          \/ Diff(s) \/ WriteScope(s) \/ Exit(s) \/ Kill(s)
    \/ \E m \in Manifests :
          \/ \E track \in Human : Edit(m, track)
          \/ Move(m)

Spec == Init /\ [][Next]_vars

-----------------------------------------------------------------------------
(***************************************************************************)
(* Properties                                                              *)
(***************************************************************************)
\* The red line of policy.ts: no manifest is on the track that merges by itself,
\* in the file or on the way there, unless a person once put it there.
OnlyPeopleGrantEmergency ==
    /\ \A m \in DOMAIN scope : scope[m] = "emergency" => m \in granted
    /\ \A s \in Syncs : sync[s].at \in {"write", "done"} =>
          \A m \in DOMAIN sync[s].proposed :
             sync[s].proposed[m] = "emergency" => m \in granted

\* A track a person gave while no sync was under way outlives every sync, for
\* as long as the manifest stays where it is.
PeoplesTracksSurvive ==
    \A m \in DOMAIN given : m \in DOMAIN scope /\ scope[m] = given[m]
=============================================================================
