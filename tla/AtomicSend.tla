------------------------------- MODULE AtomicSend -------------------------------
(***************************************************************************)
(* What sockSend promises to those who forward messages: a message goes out*)
(* at once and whole, at some moment between the call and its return, in   *)
(* whatever order the calls are served.  A call that returns without having*)
(* sent its message leaves a connection on which the remote end can tell   *)
(* no message from another any more, and so may opening a connection and   *)
(* failing in the middle of a call.                                        *)
(***************************************************************************)
EXTENDS Sequences

CONSTANTS Workers, Connections, Headers,
          NoJob       \* the worker has called nothing

VARIABLES call,       \* worker -> the connection and the header it sends
          delivered,  \* worker -> whether its message has gone out
          line,       \* connection -> "shut", "clear" or "garbled"
          heard       \* connection -> the headers heard while it is clear

vars == <<call, delivered, line, heard>>

Init ==
  /\ call = [w \in Workers |-> NoJob]
  /\ delivered = [w \in Workers |-> FALSE]
  /\ line = [c \in Connections |-> "shut"]
  /\ heard = [c \in Connections |-> <<>>]

(* From now on nothing can be told of what is sent on these connections.   *)
Garble(broken) ==
  /\ line' = [c \in Connections |-> IF c \in broken THEN "garbled" ELSE line[c]]
  /\ heard' = [c \in Connections |-> IF c \in broken THEN <<>> ELSE heard[c]]

Open(c) ==
  /\ line[c] = "shut"
  /\ \E broken \in SUBSET {d \in Connections : d = c \/ line[d] # "shut"} :
       /\ line' = [d \in Connections |-> IF d \in broken THEN "garbled"
                                         ELSE IF d = c THEN "clear" ELSE line[d]]
       /\ heard' = [d \in Connections |-> IF d \in broken THEN <<>> ELSE heard[d]]
  /\ UNCHANGED <<call, delivered>>

Ask(w) ==
  /\ call[w] = NoJob
  /\ \E c \in Connections, h \in Headers :
       /\ line[c] # "shut"
       /\ call' = [call EXCEPT ![w] = [connection |-> c, header |-> h]]
  /\ UNCHANGED <<delivered, line, heard>>

Deliver(w) ==
  /\ call[w] # NoJob /\ ~ delivered[w]
  /\ delivered' = [delivered EXCEPT ![w] = TRUE]
  /\ heard' = IF line[call[w].connection] = "clear"
              THEN [heard EXCEPT ![call[w].connection] = Append(@, call[w].header)]
              ELSE heard
  /\ UNCHANGED <<call, line>>

Return(w) ==
  /\ call[w] # NoJob /\ delivered[w]
  /\ call' = [call EXCEPT ![w] = NoJob]
  /\ delivered' = [delivered EXCEPT ![w] = FALSE]
  /\ UNCHANGED <<line, heard>>

GiveUp(w) ==
  /\ call[w] # NoJob /\ ~ delivered[w]
  /\ call' = [call EXCEPT ![w] = NoJob]
  /\ Garble({call[w].connection})
  /\ UNCHANGED delivered

Fail(c) ==
  /\ line[c] # "shut"
  /\ Garble({c})
  /\ UNCHANGED <<call, delivered>>

Next ==
  \/ \E c \in Connections : Open(c) \/ Fail(c)
  \/ \E w \in Workers : Ask(w) \/ Deliver(w) \/ Return(w) \/ GiveUp(w)

Spec == Init /\ [][Next]_vars

=============================================================================
