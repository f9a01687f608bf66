--------------------------- MODULE PortReservation ---------------------------
(***************************************************************************)
(* What port 0 promises to the rest of the machine: a uop that starts is   *)
(* reported complete exactly its latency later, under its own ROB pointer, *)
(* and no two uops ever need the port in the same cycle.                   *)
(***************************************************************************)
EXTENDS Integers

CONSTANTS MulLat, DivLat, Robs, None

VARIABLES
    pending,  \* uops on the port: [rob, left], left cycles before the port
    reported  \* the ROB pointer whose completion is visible to the core

vars == <<pending, reported>>

Latencies == {0, MulLat + 1, DivLat + 1}

OnePerCycle(p) == \A x, y \in p : x.left = y.left => x = y

Due == {x \in pending : x.left = 0}

Init == pending = {} /\ reported = None

\* One cycle: the due uop is reported, the others come one cycle closer, a uop
\* that has only just issued may be killed, and at most one uop issues.
Tick(killed, issued) ==
    /\ \A x \in killed : x \in pending /\ x.left \in Latencies \ {0}
    /\ pending' = {[rob |-> x.rob, left |-> x.left - 1] :
                      x \in (pending \ Due) \ killed} \cup issued
    /\ OnePerCycle(pending')
    /\ \/ Due = {} /\ reported' = None
       \/ \E x \in Due : reported' = x.rob

Next ==
    \E killed \in {{}} \cup {{x} : x \in pending},
       issued \in {{}} \cup {{[rob |-> r, left |-> l]} : r \in Robs, l \in Latencies} :
          Tick(killed, issued)

Spec == Init /\ [][Next]_vars
=============================================================================
