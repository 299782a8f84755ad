------------------------------- MODULE MCSwarm -------------------------------
(* A small instance of Swarm for TLC.                                      *)
EXTENDS Swarm

CONSTANTS s1, d1, d2

OneSeeder == {s1}
TwoDownloaders == {d1, d2}

\* The peer id of d2 is so long that a list of some of the chunks does not fit.
OneListTooLong == [d \in TwoDownloaders |-> IF d = d1 THEN SUBSET Chunks ELSE {{}}]

\* Room for everybody, and a tracker that refuses the third peer and answers with one.
WideAndNarrow == {[peers |-> 3, response |-> 3], [peers |-> 2, response |-> 1]}
=============================================================================
