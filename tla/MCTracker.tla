------------------------------ MODULE MCTracker ------------------------------
(* Small instances of Tracker for TLC.                                     *)
EXTENDS Tracker, TLC

CONSTANTS s1, s2, p1, p2, p3, h1, h2

TwoSwarms == {s1, s2}
TwoPeers == {p1, p2}
ThreePeers == {p1, p2, p3}
TwoHandlers == {h1, h2}

\* Swarms, peers and handlers are each interchangeable.
Symmetry == {f @@ g @@ h : f \in Permutations(Swarms), g \in Permutations(Peers),
                           h \in Permutations(Handlers)}
=============================================================================
