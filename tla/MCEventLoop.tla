----------------------------- MODULE MCEventLoop ------------------------------
(* EventLoop with a few connections and workers.                           *)
EXTENDS EventLoop

(* One connection is a service: only peers and services are removed.  The  *)
(* others have any realm.                                                  *)
MCInit == Init /\ realm[CHOOSE c \in Conns : TRUE] = "service"

MCFairSpec == MCInit /\ [][Next]_vars /\ Fairness
=============================================================================
