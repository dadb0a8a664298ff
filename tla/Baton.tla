--------------------------------- MODULE Baton ---------------------------------
(***************************************************************************)
(* What the event loop promises of its connections: the receive of each is *)
(* a baton.  It is posted at the completion port, or its completion is     *)
(* queued there, or one worker holds it, and only that worker may post it  *)
(* again.  A baton that was dropped is never picked up.                    *)
(***************************************************************************)
CONSTANTS Owners,     \* the connections
          Hands       \* the workers

VARIABLE baton        \* connection -> "none", "posted", "queued", "dropped", or a worker

Move(c, from, to) == baton[c] = from /\ baton' = [baton EXCEPT ![c] = to]

Register(c) == Move(c, "none", "posted")

(* The first receive could not be posted.                                  *)
Miss(c) == Move(c, "none", "dropped")

Complete(c) == Move(c, "posted", "queued")
Take(c, w) == Move(c, "queued", w)
Repost(c, w) == Move(c, w, "posted")
Drop(c, w) == Move(c, w, "dropped")

(* The event is taken and given to no handler.                             *)
Discard(c) == Move(c, "queued", "dropped")

Init == baton = [c \in Owners |-> "none"]

Next ==
  \E c \in Owners :
    \/ Register(c) \/ Miss(c) \/ Complete(c) \/ Discard(c)
    \/ \E w \in Hands : Take(c, w) \/ Repost(c, w) \/ Drop(c, w)

Spec == Init /\ [][Next]_baton

=============================================================================
