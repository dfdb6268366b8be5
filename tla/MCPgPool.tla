------------------------------ MODULE MCPgPool ------------------------------
(* Instances of PgPool for TLC. *)
EXTENDS PgPool, TLC

CONSTANTS a1, a2, f1, f2

=============================================================================
