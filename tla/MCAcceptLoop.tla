----------------------------- MODULE MCAcceptLoop -----------------------------
(* AcceptLoop with a few remotes and a small budget.                       *)
EXTENDS AcceptLoop
=============================================================================
