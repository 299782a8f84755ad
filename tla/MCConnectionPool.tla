--------------------------- MODULE MCConnectionPool ---------------------------
(* Small instances of ConnectionPool for TLC.                              *)
EXTENDS ConnectionPool

CONSTANTS t1, t2, c1, c2, c3

TwoWorkers == {t1, t2}
ThreeClients == {c1, c2, c3}
=============================================================================
