------------------------------ MODULE MCSockSend ------------------------------
(* SockSend with two workers and two messages whose bytes all differ.      *)
EXTENDS SockSend

MCMessages == <<[code |-> 1027, id |-> 516], [code |-> 5, id |-> 65280]>>
=============================================================================
