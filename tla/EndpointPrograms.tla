--------------------------- MODULE EndpointPrograms ---------------------------
(***************************************************************************)
(* Programs about the endpoint of a cluster.  Addresses of ipv4 have two   *)
(* groups of a bit, those of ipv6 three.                                   *)
(***************************************************************************)
EXTENDS Integers, Sequences, FiniteSets, SequencesExt

GroupsOf == [f \in {"ipv4", "ipv6"} |-> IF f = "ipv4" THEN 2 ELSE 3]
BitsOf == [f \in {"ipv4", "ipv6"} |-> 1]

V4(a, b, prefix) ==
    [family |-> "ipv4", head |-> <<a, b>>, tail |-> <<>>, elided |-> FALSE, prefix |-> prefix]
V6(head, tail, prefix) ==
    [family |-> "ipv6", head |-> head, tail |-> tail, elided |-> TRUE, prefix |-> prefix]

All == V4(0, 0, 0)
Low == V4(0, 0, 1)
High == V4(1, 0, 1)
Home == V4(0, 1, 2)
Office == V4(1, 0, 2)
Wider == V4(1, 1, 1)     \* has the bits of a host
Half6 == V6(<<>>, <<>>, 1)
Rest6 == V6(<<1>>, <<>>, 1)
Home6 == V6(<<1>>, <<1>>, 3)

Path(mode, cidrs, cidrBlocks) ==
    [mode |-> mode, cidrs |-> cidrs, cidrBlocks |-> cidrBlocks, ipv6CidrBlocks |-> <<>>,
     securityGroups |-> <<>>, createRules |-> TRUE, group |-> TRUE,
     exception |-> IF mode = "public-temporary" THEN "reason and date" ELSE "none"]
Private(cidrBlocks) == Path("private", <<>>, cidrBlocks)

Cluster(public, cidrs) == [public |-> public, cidrs |-> cidrs, audit |-> TRUE, tagged |-> FALSE]
Foundation(mode, cidrs) == [mode |-> mode, cidrs |-> cidrs, audit |-> TRUE, adopted |-> FALSE]

Excuse(expires) ==
    {[rule |-> "CL-1", reason |-> "bootstrap", scope |-> {"cluster"}, expires |-> expires]}

OfPaths(path, suppressions) ==
    [by |-> "path", cluster |-> Cluster(FALSE, <<>>), paths |-> {path},
     suppressions |-> suppressions]
OfItself(cidrs) ==
    [by |-> "itself", cluster |-> Cluster(TRUE, cidrs), paths |-> {}, suppressions |-> {}]
OfFoundation(foundation, paths) ==
    [by |-> "foundation", cluster |-> foundation, paths |-> paths, suppressions |-> Excuse(1)]

\* Every list of up to two blocks of ipv4 (or of what has the bits of a host), three
\* that are everything in each order, and ipv6; what the paths and the foundation are
\* given.
Blocks == {All, Low, High, Home, Office, Wider, V4(0, 0, 2), V4(1, 1, 2)}
Lists ==
    {SetToSeq(s) : s \in {x \in SUBSET Blocks : Cardinality(x) <= 2}}
    \cup SetToSeqs({High, Home, V4(0, 0, 2)})
    \cup {<<Home, Rest6, Half6>>, <<Home6, Half6>>}

Paths ==
    {Private(<<Home, Office>>), Private(<<Office>>), Private(<<Office, Home>>), Private(<<Low>>),
     Private(<<High>>), Private(<<Low, High>>), Private(<<Home6>>), Private(<<>>),
     [Private(<<Home>>) EXCEPT !.ipv6CidrBlocks = <<Home6>>],
     [Private(<<>>) EXCEPT !.securityGroups = <<"vpn", "bastion">>],
     [Private(<<Home>>) EXCEPT !.createRules = FALSE],
     [Private(<<Home>>) EXCEPT !.group = FALSE],
     Path("restricted-public", <<Low>>, <<>>), Path("restricted-public", <<Low, High>>, <<>>),
     Path("public-temporary", <<High, Low>>, <<Home>>),
     [Path("public-temporary", <<All>>, <<>>) EXCEPT !.exception = "blank"]}

EndpointPrograms ==
    {OfItself(list) : list \in Lists}
    \cup {OfPaths(p, Excuse(1)) : p \in Paths}
    \cup {OfPaths(Path("public-temporary", <<All>>, <<Office>>), {})}
    \cup {OfFoundation(Foundation(mode, cidrs), paths) :
            mode \in {"private", "restricted-public"},
            cidrs \in {<<>>, <<Low>>, <<High, Low>>},
            paths \in {{}, {Private(<<Home>>)}}}
    \cup {OfFoundation([Foundation("private", <<>>) EXCEPT !.adopted = TRUE],
                       {Private(<<Home, Office>>)}),
          OfFoundation([Foundation("private", <<>>) EXCEPT !.audit = FALSE], {})}
=============================================================================
