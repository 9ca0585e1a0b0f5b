-------------------------- MODULE MCDriftClassifier --------------------------
(***************************************************************************)
(* Small instances of DriftClassifier.                                     *)
(***************************************************************************)
EXTENDS DriftClassifier

CONSTANTS c1, c2

Entry(version, source, confidence) ==
    [version |-> version, verdict |-> Verdict(source, confidence), at |-> 0,
     asked |-> 0, from |-> Unrecorded]

LegacyHigh == Entry(1, "ConsoleBreakGlass", "high")
StoredMedium == Entry(2, "ProviderApiChurn", "medium")

AnyFile == {Missing, Empty, Garbled, Foreign, LegacyHigh, StoredMedium}
NoFile == {Missing}
FewFiles == {Missing, LegacyHigh, StoredMedium}
LegacyFile == {LegacyHigh}

\* Answers for a high and a medium verdict, whatever the probe says, and for a
\* degraded run.
Answer(auto, ct, pv, gl) == [auto |-> auto, ct |-> ct, pv |-> pv, gl |-> gl]
FewSignals == {Answer("detected", "detected", "clean", "clean"),
               Answer("detected", "clean", "clean", "detected"),
               Answer("failed", "detected", "clean", "clean")}
=============================================================================
