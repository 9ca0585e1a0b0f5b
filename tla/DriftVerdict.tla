---------------------------- MODULE DriftVerdict ----------------------------
(***************************************************************************)
(* The verdict of the drift classifier: what the signals of the four       *)
(* adapters and of the CloudTrail delivery probe say about one resource    *)
(* (packages/drift/src/verdict.ts, monotonicity.ts and the pure part of    *)
(* classify in classifier.ts).                                             *)
(***************************************************************************)
EXTENDS Naturals

Sources == {"None", "ProviderApiChurn", "ConsoleBreakGlass", "GenuineIacDrift",
            "Mixed", "Unknown"}

Confidences == {"none", "low", "medium", "high"}

Verdicts == [source : Sources, confidence : Confidences]

Verdict(source, confidence) == [source |-> source, confidence |-> confidence]

\* CONFIDENCE_RANK
Rank(confidence) == CASE confidence = "none"   -> 0
                      [] confidence = "low"    -> 1
                      [] confidence = "medium" -> 2
                      [] confidence = "high"   -> 3

\* An adapter's answer: {detected, ok}, where a rejection is neither.
Answers == {"detected", "clean", "failed"}

Signals == [auto : Answers, ct : Answers, pv : Answers, gl : Answers]

\* runProbe: a failure and a timeout are the same outcome.
ProbeFailed == [ok |-> FALSE, delivered |-> FALSE, inTransit |-> FALSE]
Probes == {ProbeFailed} \union [ok : {TRUE}, delivered : BOOLEAN, inTransit : BOOLEAN]

\* The VerdictSnapshot of classify.
Snapshot(s, probe) ==
    [mutated        |-> s.auto = "detected",
     eventInTransit |-> probe.ok /\ probe.inTransit,
     eventDelivered |-> probe.ok /\ probe.delivered,
     providerDrift  |-> s.pv = "detected"]

HardenedVerdict(snap) ==
    CASE ~ snap.mutated -> Verdict("None", "none")
      [] snap.mutated /\ snap.eventDelivered /\ snap.providerDrift -> Verdict("Mixed", "high")
      [] snap.mutated /\ snap.eventDelivered /\ ~ snap.providerDrift ->
             Verdict("ConsoleBreakGlass", "high")
      [] snap.mutated /\ ~ snap.eventDelivered /\ snap.eventInTransit -> Verdict("Unknown", "low")
      [] snap.mutated /\ ~ snap.eventDelivered /\ ~ snap.eventInTransit /\ snap.providerDrift ->
             Verdict("ProviderApiChurn", "medium")
      [] OTHER -> Verdict("Unknown", "low")

\* requiredAdapterFailed
Degraded(s) == "failed" \in {s.auto, s.pv}

\* Variant: a delivered probe stands for a console event (the demotion is
\* skipped when the probe is healthy).
TrustsTheProbe(s, verdict) ==
    IF s.auto = "detected" /\ s.ct = "detected"
    THEN Verdict(IF s.pv = "detected" THEN "Mixed" ELSE "ConsoleBreakGlass", "high")
    ELSE verdict

\* Escalation and demotion by what CloudTrail really saw.
Corrected(s, verdict) ==
    CASE s.auto = "detected" /\ s.ct = "detected" ->
             Verdict(IF s.pv = "detected" THEN "Mixed" ELSE "ConsoleBreakGlass", "high")
      [] verdict.source \in {"Mixed", "ConsoleBreakGlass"} /\ s.ct # "detected" ->
             IF s.pv = "detected" THEN Verdict("ProviderApiChurn", "medium")
                                  ELSE Verdict("Unknown", "low")
      [] OTHER -> verdict

\* A local commit explains a mutation that nothing else explains.
Attributed(s, verdict) ==
    IF s.auto = "detected" /\ s.gl = "detected" /\ verdict.source = "Unknown"
    THEN Verdict("GenuineIacDrift", "medium") ELSE verdict

Classified(s, probe) ==
    Attributed(s, Corrected(s, HardenedVerdict(Snapshot(s, probe))))

MeetsMinConfidence(verdict, threshold) ==
    /\ Rank(verdict.confidence) > 0
    /\ Rank(verdict.confidence) >= Rank(threshold)

\* checkMonotonicity, against the entry the caller has just read.
AllowsWrite(existing, verdict) ==
    existing = {} \/ \A e \in existing : Rank(verdict.confidence) >= Rank(e.confidence)
=============================================================================
