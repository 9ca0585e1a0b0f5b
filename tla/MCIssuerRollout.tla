--------------------------- MODULE MCIssuerRollout ---------------------------
(***************************************************************************)
(* An issuer one of whose arguments has a "c." in it.                      *)
(***************************************************************************)
EXTENDS IssuerArgs

VARIABLES live, op, goal, accounts, deployments, active, activated, pods, left

Rollout == INSTANCE IssuerRollout WITH
    Hosts <- Network,
    Dotted <- Words,
    Args <- DottedIssuers,
    MaxPods <- 1,
    Limit <- 1

Spec == Rollout!Spec

\* workload-capability-issuer-boundary.md:85: the gate binds the exact command
\* and arguments, so the issuer's own Pod is only refused for being inert.
OwnPodsFit == Rollout!OwnPodsFit
=============================================================================
