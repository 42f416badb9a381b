-------------------------------- MODULE MCConnPool -------------------------------
(* A small instance of ConnPool: two mutations, a query and a cron job share *)
(* a pool of two connections.                                                  *)
EXTENDS ConnPool, TLC

CONSTANTS m1, m2, q1, j1

Changes == {m1, m2}
Readers == {q1, j1}
Clients == {m1, q1}
===============================================================================
