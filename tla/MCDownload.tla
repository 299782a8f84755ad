------------------------------ MODULE MCDownload ------------------------------
(* Small instances of Download for TLC.                                    *)
EXTENDS DownloadRefinement, TLC

CONSTANTS w1, w2

TwoWorkers == {w1, w2}
OneWorker == {w1}
AllThreads == Workers \cup {Main}

\* The workers run the same code.
Symmetry == Permutations(Workers)
=============================================================================
