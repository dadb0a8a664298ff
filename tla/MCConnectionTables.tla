-------------------------- MODULE MCConnectionTables --------------------------
(* ConnectionTables with two threads and one ID in each table: every       *)
(* occupied slot is in the way of every allocation.                        *)
EXTENDS ConnectionTables
=============================================================================
