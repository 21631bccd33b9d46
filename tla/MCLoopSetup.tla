----------------------------- MODULE MCLoopSetup -----------------------------
(* Loops between visors a and b, over a relay c or directly, for TLC. *)
EXTENDS LoopSetup, TLC

Hop(x, y) == [from |-> x, to |-> y]

\* All loops go through the relay on the way out and on the way back.
RelayedLoop ==
    [src |-> "a", dst |-> "b", rport |-> 3,
     fwd |-> <<Hop("a", "c"), Hop("c", "b")>>, rev |-> <<Hop("b", "c"), Hop("c", "a")>>]
RelayedLoops == [l \in Loops |-> RelayedLoop]

\* All loops share one direct transport.
DirectLoop ==
    [src |-> "a", dst |-> "b", rport |-> 3, fwd |-> <<Hop("a", "b")>>, rev |-> <<Hop("b", "a")>>]
DirectLoops == [l \in Loops |-> DirectLoop]

\* The loops of one instance differ in their names only.
LoopNames == Permutations(Loops)
=============================================================================
