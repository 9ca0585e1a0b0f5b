--------------------------- MODULE MCBrokerReview ---------------------------
(***************************************************************************)
(* A boundary that nobody touches, for every kind of arguments.            *)
(***************************************************************************)
EXTENDS BrokerArgs, Integers

VARIABLES args, stack, at, fresh, report, left

Review == INSTANCE BrokerReview WITH
    Args <- {SharedEndpoints, OtherEvidence, MasterUnknown, OwnEndpoints, WithTransportTls},
    Budget <- 0

Spec == Review!Spec

\* brokered-aurora-postgres-boundary.md:146: what the component declares for
\* arguments it accepts passes the mandatory pack.
BoundariesPassThePack == Review!BoundariesPassThePack
=============================================================================
