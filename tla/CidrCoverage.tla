----------------------------- MODULE CidrCoverage -----------------------------
(***************************************************************************)
(* Whether a list of CIDRs covers a whole family of addresses              *)
(* (packages/k8s-baseline/src/cidr-coverage.ts, and its copy in            *)
(* packages/policies/src/k8s).                                             *)
(*                                                                         *)
(* A CIDR is written [family, head, tail, elided, prefix]: the groups of   *)
(* its address before and after a "::" (or all of them in head, when there *)
(* is none), and the length of its prefix, Unreadable when it is missing   *)
(* or no number.                                                           *)
(***************************************************************************)
EXTENDS Integers, Sequences, SequencesExt

CONSTANTS
    Groups,           \* family |-> groups of an address: 4 and 8 in the code
    GroupBits         \* family |-> bits of a group: 8 and 16 in the code

Families == {"ipv4", "ipv6"}
Unreadable == -1

Cidr == [family : Families, head : Seq(Int), tail : Seq(Int), elided : BOOLEAN, prefix : Int]

Radix(family) == 2^GroupBits[family]
Bits(family) == Groups[family] * GroupBits[family]
LastAddress(family) == 2^Bits(family) - 1

Written(cidr) == cidr.head \o cidr.tail
Zeros(cidr) == [i \in 1..(Groups[cidr.family] - Len(Written(cidr))) |-> 0]

Start(cidr) ==
    LET groups == cidr.head \o Zeros(cidr) \o cidr.tail
        value[i \in 0..Len(groups)] ==
            IF i = 0 THEN 0 ELSE value[i - 1] * Radix(cidr.family) + groups[i]
    IN  value[Len(groups)]
Size(cidr) == 2^(Bits(cidr.family) - cidr.prefix)
End(cidr) == Start(cidr) + Size(cidr) - 1

\* All groups, or some left out; each in its range; no bit of a host.
Parses(cidr) ==
    /\ IF cidr.elided THEN Len(Written(cidr)) < Groups[cidr.family]
       ELSE Len(Written(cidr)) = Groups[cidr.family]
    /\ \A g \in ToSet(Written(cidr)) : g \in 0..(Radix(cidr.family) - 1)
    /\ cidr.prefix \in 0..Bits(cidr.family)
    /\ Start(cidr) % Size(cidr) = 0

\* Takes a block that starts next to it for a gap.
ExtendOverlapping(family, covered, cidr) ==
    IF \/ cidr.family # family
       \/ Start(cidr) > (IF covered < 0 THEN 0 ELSE covered) \/ End(cidr) < covered
    THEN covered ELSE End(cidr)

\* What of a family is covered from zero on grows by a block that starts in it or next to it.
\* Blocks come in the order of their starts: after a gap nothing grows it.
Extend(family, covered, cidr) ==
    IF cidr.family # family \/ Start(cidr) > covered + 1 \/ End(cidr) < covered
    THEN covered ELSE End(cidr)

\* An order of the places by start; which of two equal ones comes first does not matter.
Sorts(order, cidrs) ==
    /\ Range(order) = DOMAIN cidrs
    /\ \A i, j \in DOMAIN cidrs : i < j => Start(cidrs[order[i]]) <= Start(cidrs[order[j]])

CoveredFromZero(cidrs, family) ==
    LET order == CHOOSE o \in [DOMAIN cidrs -> DOMAIN cidrs] : Sorts(o, cidrs)
        covered[i \in 0..Len(cidrs)] ==
            IF i = 0 THEN -1 ELSE Extend(family, covered[i - 1], cidrs[order[i]])
    IN  covered[Len(cidrs)]

\* analyzeCidrCoverage.
Coverage(cidrs) ==
    IF \E c \in ToSet(cidrs) : ~Parses(c) THEN "malformed"
    ELSE IF \E f \in Families : CoveredFromZero(cidrs, f) >= LastAddress(f) THEN "internet"
    ELSE "narrow"
=============================================================================
