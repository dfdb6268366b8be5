--------------------------- MODULE MCMysqlLifecycle -------------------------
(* Instances of MysqlLifecycle for TLC. *)
EXTENDS MysqlLifecycle

CONSTANTS q1, q2, t1, t2
=============================================================================
