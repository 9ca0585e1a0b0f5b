----------------------------- MODULE Suppressions -----------------------------
(***************************************************************************)
(* How a policy is silenced (packages/policies/src/aws/suppressions.ts).   *)
(* A suppression covers a scope of URNs, or the stack, gives a reason and  *)
(* expires; one that lacks any of these is passed over.                    *)
(***************************************************************************)
EXTENDS Integers

Suppressed(rule, urn, suppressions, now) == \E s \in suppressions :
    s.rule = rule /\ s.reason # "" /\ urn \in s.scope /\ s.expires > now
=============================================================================
