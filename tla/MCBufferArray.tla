----------------------------- MODULE MCBufferArray -----------------------------
(* BufferArray with fewer buffers than senders.                            *)
EXTENDS BufferArray
=============================================================================
