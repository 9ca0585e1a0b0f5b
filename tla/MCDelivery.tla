----------------------------- MODULE MCDelivery -----------------------------
(***************************************************************************)
(* Small instances of the programs of Delivery: what there is for each,    *)
(* and where those stand that are not at work.                             *)
(***************************************************************************)
EXTENDS Delivery, BrokerArgs, IssuerArgs, TrustPrograms, EndpointPrograms

CONSTANTS s1, ma, mb, mc, p1, p2

-----------------------------------------------------------------------------
(***************************************************************************)
(* Scope, scanning and triage                                              *)
(***************************************************************************)
ThreeConventions == [m \in {ma, mb, mc} |-> IF m = ma THEN {"acting"} ELSE {}]

FindingOf(key, class, fix, cvss) ==
    [key |-> key, class |-> class, fix |-> fix, kev |-> "no", epss |-> "low", cvss |-> cvss,
     locked |-> TRUE, supported |-> TRUE, fixture |-> FALSE]

\* One key in two lockfiles, one on the base branch, malicious code without a
\* fix, a fixture.
Seen ==
    <<FindingOf("a", "critical", TRUE, "unavailable"), FindingOf("b", "critical", TRUE, "low"),
      FindingOf("a", "critical", TRUE, "unavailable"), FindingOf("m", "malicious", FALSE, "low"),
      [FindingOf("x", "critical", TRUE, "low") EXCEPT !.fixture = TRUE]>>

LockfilesSeen == {{}, {1}, {2, 5}, {1, 3}, {4}}

-----------------------------------------------------------------------------
(***************************************************************************)
(* Boundary, issuer, trust and endpoint                                    *)
(***************************************************************************)
TwoBoundaries == {SharedEndpoints, OtherEvidence}

Nowhere == {}

Workflows == {Work, Other}
InOr == [w \in Workflows |-> "o/r"]

Policies == INSTANCE DeploymentPolicies

ProgramsOfJobs == ProgramsOf(Policies!DeploymentRole)

-----------------------------------------------------------------------------
(***************************************************************************)
(* The authority of node-label controllers                                 *)
(***************************************************************************)
Component(name, account, key, value) ==
    [name |-> name, cluster |-> "plain", group |-> "g", namespace |-> "n", account |-> account,
     key |-> key, value |-> value, interval |-> 60, age |-> 120, skew |-> 15, nodes |-> 200,
     metrics |-> "m", sound |-> TRUE]

Account(account) == [namespace |-> "n", account |-> account]

ProgramsOfLabels ==
    {{Component("a", "x", "k", "v")},
     {Component("a", "z", "k", "w"), Component("b", "x", "l", "v")}}

PodsOfLabels == {Account("x"), Account("z"), Account("o")}

Strangers == {Account("o")}

-----------------------------------------------------------------------------
(***************************************************************************)
(* The webhook fallback                                                    *)
(***************************************************************************)
ThreeDeliveries ==
    <<[type |-> "member", source |-> "a", sound |-> TRUE],
      [type |-> "code_scanning_alert", source |-> "b", sound |-> TRUE],
      [type |-> "fork", source |-> "a", sound |-> TRUE]>>

-----------------------------------------------------------------------------
\* Init, taken program by program; templates change later.
MCInit ==
    /\ part \in Programs
    /\ Scope!Init /\ (part # "scope" => tree = {})
    /\ Triage!Init /\ (part # "triage" => present = {} /\ binary = "none")
    /\ Webhook!Init /\ Authority!Init
    /\ IF part = "boundary" THEN Boundary!Init
       ELSE args = NoBoundary /\ stack = NoBoundary /\ at = "declared" /\ fresh = TRUE
            /\ report = {} /\ reviewLeft = 0
    /\ Issuer!Init
    /\ Trust!Init /\ (\A repo \in DOMAIN templates : templates[repo] = Trust!Documented)
    /\ Endpoint!Init

MCSpec == MCInit /\ [][Next]_vars
=============================================================================
