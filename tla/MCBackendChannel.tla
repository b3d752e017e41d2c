--------------------------- MODULE MCBackendChannel ---------------------------
(* A small instance of BackendChannel for TLC: the messages of a thread fit in a
   block of three, the last one of a forked process is cut. *)
EXTENDS BackendChannel

MCBodySize(t, i) == IF t \in Threads THEN 3 - i ELSE 2 * i - 1
=============================================================================
