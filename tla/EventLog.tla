------------------------------ MODULE EventLog ------------------------------
(***************************************************************************)
(* What the event store promises to its callers, without files or locks.   *)
(* The log is a function from places to readable events, read in the order *)
(* of the places; a place without an event is of no consequence.  Events   *)
(* enter at the end and only whole; retention removes exactly the events   *)
(* older than its cutoff in one step; nothing ever reorders them.          *)
(*                                                                         *)
(* Two clauses are weaker than the wording of the store's documentation,   *)
(* and are what the code really keeps: the newest entry may lapse while    *)
(* its append has not been acknowledged, and an append that lands on a     *)
(* torn tail is acknowledged without entering the log (Fuse).              *)
(***************************************************************************)
EXTENDS Naturals, Functions

CONSTANT Event          \* event numbers; a larger one was created later

VARIABLES log,          \* the readable events, a function on a set of places
          acked         \* the events whose append has returned

vars == <<log, acked>>

Init == log = <<>> /\ acked = {}

\* Place i is the last one that holds an event.
IsLast(l, i) == i \in DOMAIN l /\ \A j \in DOMAIN l : j <= i

\* The newest entry may disappear as long as nobody was told it is there.
Lapsed(l) ==
    {l} \cup {Restrict(l, DOMAIN l \ {i}) : i \in {j \in DOMAIN l : IsLast(l, j) /\ l[j] \notin acked}}

Record(e) == /\ e \notin Range(log) \cup acked
             /\ \E i \in DOMAIN log' : /\ \A j \in DOMAIN log : j < i
                                       /\ log' = [j \in DOMAIN log \cup {i} |-> IF j = i THEN e ELSE log[j]]
             /\ acked' \in {acked, acked \cup {e}}

Fuse(e)   == /\ e \notin Range(log) \cup acked
             /\ log' \in Lapsed(log)
             /\ acked' = acked \cup {e}

Lapse     == log' \in Lapsed(log) /\ UNCHANGED acked

Expire    == /\ \E before \in Event : log' = Restrict(log, {i \in DOMAIN log : log[i] >= before})
             /\ UNCHANGED acked

Reset     == log' = <<>> /\ UNCHANGED acked

Next == \/ \E e \in Event : Record(e) \/ Fuse(e)
        \/ Lapse
        \/ Expire
        \/ Reset

Spec == Init /\ [][Next]_vars
=============================================================================
