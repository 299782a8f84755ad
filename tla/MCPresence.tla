------------------------------ MODULE MCPresence ------------------------------
(* Small instances of Presence for TLC.                                    *)
EXTENDS Presence

CONSTANTS k1, k2, w1, w2

TwoChunks == {k1, k2}
TwoWorkers == {w1, w2}
=============================================================================
