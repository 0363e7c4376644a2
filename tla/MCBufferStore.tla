---------------------------- MODULE MCBufferStore ----------------------------
(***************************************************************************)
(* TLC instance of BufferStore.                                            *)
(***************************************************************************)
EXTENDS BufferStore

CONSTANTS p1, p2, r1

\* redact_memory is about the first event's memory.
MCTagged == {1}
=============================================================================
