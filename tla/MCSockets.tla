------------------------------ MODULE MCSockets ------------------------------
(* A small instance of Sockets for TLC.                                    *)
EXTENDS Sockets, TLC

CONSTANTS t1, t2, t3

ThreeThreads == {t1, t2, t3}
ThreeDescriptors == 0 .. 2

\* The threads run the same code.
Symmetry == Permutations(Threads)
=============================================================================
