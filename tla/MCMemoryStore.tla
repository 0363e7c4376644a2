--------------------------- MODULE MCMemoryStore ---------------------------
(***************************************************************************)
(* TLC instance of MemoryStore: two threads, each of which may also run    *)
(* the stages of a consolidation.                                          *)
(***************************************************************************)
EXTENDS MemoryStore, TLC

CONSTANTS a, b, x, y

\* The threads are interchangeable, and so are the contents.
Symmetry == Permutations(Caller) \cup Permutations(Content)
=============================================================================
