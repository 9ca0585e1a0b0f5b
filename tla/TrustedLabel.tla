---------------------------- MODULE TrustedLabel ----------------------------
(***************************************************************************)
(* What the trusted-node-label reconciler promises of the protected label, *)
(* without cycles, evidence, messages or failures.                         *)
(*                                                                         *)
(* A verdict is about one version of one Node object: "grant" about a      *)
(* version without the label, "withdraw" about a version with the trusted  *)
(* value.  The label of a Node moves only when a verdict is carried out on *)
(* the very version it was reached about.  Verdicts may be forgotten at    *)
(* any time and the world may move on under them; a verdict about an old   *)
(* version is then simply void.                                            *)
(***************************************************************************)
EXTENDS Integers

CONSTANTS Names, NoNode, Objects, Absent, Trusted,
          Enforced   \* no other principal can write the protected label

VARIABLES node, rev, verdicts

vars == <<node, rev, verdicts>>

Verdicts == [name : Names, version : Objects, label : {Absent, Trusted}]

\* A verdict moves the label between absent and trusted, never from a
\* conflicting value.
Sound(v) == v.version.label = IF v.label = Trusted THEN Absent ELSE Trusted

Init ==
    /\ node \in [Names -> Objects \union {NoNode}]
    /\ rev \in Nat
    /\ verdicts = {}

\* Only Node n is written, with the next resource version.
Writes(n) ==
    /\ node' \in [Names -> Objects \union {NoNode}]
    /\ \A m \in Names \ {n} : node'[m] = node[m]
    /\ rev' = rev + 1
    /\ node'[n] # NoNode => node'[n].rv = rev'

\* Anybody else changes, creates or removes a Node.  Where the label is
\* enforced, a change leaves it alone and a creation comes without it.
Foreign(n) ==
    /\ Writes(n)
    /\ Enforced /\ node'[n] # NoNode =>
           node'[n].label = IF node[n] = NoNode THEN Absent ELSE node[n].label
    /\ UNCHANGED verdicts

\* A verdict is reached, about a version that may be history already.
Reach ==
    /\ \E v \in verdicts' :
          v \in Verdicts /\ Sound(v) /\ verdicts' = verdicts \union {v}
    /\ UNCHANGED <<node, rev>>

Forget ==
    /\ verdicts' \subseteq verdicts
    /\ UNCHANGED <<node, rev>>

\* A verdict is carried out on the version it is about, and on nothing else.
CarryOut(v) ==
    /\ node[v.name] = v.version
    /\ Writes(v.name)
    /\ node'[v.name] = [v.version EXCEPT !.label = v.label, !.rv = rev']
    /\ verdicts' \subseteq verdicts

Next ==
    \/ \E n \in Names : Foreign(n)
    \/ Reach
    \/ Forget
    \/ \E v \in verdicts : CarryOut(v)

Spec == Init /\ [][Next]_vars
=============================================================================
