------------------------------- MODULE AgeQueue -------------------------------
(***************************************************************************)
(* What a scheduler promises: its uops wait in the order in which they     *)
(* came, and the one that leaves is the first of them that is ready.       *)
(***************************************************************************)
EXTENDS Sequences, Naturals

CONSTANT Entries

VARIABLES
    queue,  \* occupied entries, oldest first
    ready,  \* the entries that were ready in the last cycle
    picked  \* the one of them that left, as a set

vars == <<queue, ready, picked>>

Occupied == {queue[k] : k \in DOMAIN queue}

Without(k) == [j \in 1 .. Len(queue) - 1 |-> queue[IF j < k THEN j ELSE j + 1]]

Init == queue = <<>> /\ ready = {} /\ picked = {}

\* new is a sequence of at most one entry, free before this cycle.
Cycle(rdy, new) ==
    /\ ready' = rdy
    /\ \/ /\ rdy = {}
          /\ picked' = {}
          /\ queue' = queue \o new
       \/ \E k \in DOMAIN queue :
             /\ queue[k] \in rdy
             /\ \A j \in 1 .. k - 1 : queue[j] \notin rdy
             /\ picked' = {queue[k]}
             /\ queue' = Without(k) \o new

Clear == queue' = <<>> /\ ready' = {} /\ picked' = {}

Next ==
    \/ \E rdy \in SUBSET Occupied,
          new \in {<<>>} \cup {<<e>> : e \in Entries \ Occupied} : Cycle(rdy, new)
    \/ Clear

Spec == Init /\ [][Next]_vars
=============================================================================
