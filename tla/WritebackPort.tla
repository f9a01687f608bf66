---------------------------- MODULE WritebackPort ----------------------------
(***************************************************************************)
(* Port 0 of the integer cluster (exec.sv) and the two long-latency units  *)
(* that share its register-file write port and its completion bundle with  *)
(* the single-cycle ALU: the pipelined multiplier (mul.sv) and the         *)
(* iterative divider (divider.sv).                                         *)
(*                                                                         *)
(* Nothing arbitrates the port when a result arrives.  The only protection *)
(* is a shift register of reservations, r_wb_bitvec, that the scheduler    *)
(* looks at one or two cycles before the result would be produced.         *)
(*                                                                         *)
(* One step is one clock cycle.  Data are left out: a uop is the ROB       *)
(* pointer it carries, and its kind says which unit executes it.           *)
(***************************************************************************)
EXTENDS Integers

CONSTANTS
    MulLat,  \* `MUL_LAT
    DivLat,  \* `DIV32_LAT, which is also `MAX_LAT
    Robs,    \* ROB pointers a uop can carry
    None     \* no uop

(* MUL_LAT = 3 and DIV32_LAT = 33 in machine.vh; the select guard of a
   multiply reads bit MUL_LAT+2 of a vector whose last bit is DIV32_LAT. *)
ASSUME LatAssumption ==
    /\ MulLat \in Nat /\ MulLat >= 1
    /\ DivLat \in Nat /\ DivLat >= MulLat + 2
ASSUME NoneAssumption == None \notin Robs

VARIABLES
    wb,     \* r_wb_bitvec
    issue,  \* r_start_int with int_uop: the uop that executes in this cycle
    mul,    \* r_complete[i] / r_rob_ptr[i] of the multiplier's stages
    div,    \* r_state, r_idx, r_rob_ptr of the divider
    cmpl,   \* complete_valid_1 with complete_bundle_1.rob_ptr
    dsDone  \* ds_done, driven by the core while it drains

vars == <<wb, issue, mul, div, cmpl, dsDone>>

Kinds == {"int", "mul", "div"}
NoIssue == [kind |-> "int", rob |-> None]
Issues == [kind : Kinds, rob : Robs] \cup {NoIssue}
DivStates == {"IDLE", "DIVIDE", "PACK_OUTPUT", "WAIT_FOR_WB"}

\* W-1 in divider.sv, where the divider's latency is that of W iterations,
\* the packing of the result and the write-back.
LastIdx == DivLat - 2

Valid == issue.rob # None
StartMul == Valid /\ issue.kind = "mul" /\ ~dsDone
StartDiv == Valid /\ issue.kind = "div" /\ ~dsDone
MulComplete == mul[MulLat] # None
DivComplete == div.state = "WAIT_FOR_WB"
AluComplete == Valid /\ issue.kind = "int"

-----------------------------------------------------------------------------
Init ==
    /\ wb = [i \in 0..DivLat |-> FALSE]
    /\ issue = NoIssue
    /\ mul = [i \in 0..MulLat |-> None]
    /\ div = [state |-> "IDLE", idx |-> 0, rob |-> None]
    /\ cmpl = None
    /\ dsDone = FALSE

ShiftReservations_Killed ==
    wb' = [i \in 0..DivLat |->
             \/ i < DivLat /\ wb[i + 1]
             \/ i = DivLat /\ Valid /\ issue.kind = "div"
             \/ i = MulLat /\ Valid /\ issue.kind = "mul"]
\* n_wb_bitvec: shift down and reserve the slot of a unit that starts now.
ShiftReservations ==
    wb' = [i \in 0..DivLat |->
             \/ i < DivLat /\ wb[i + 1]
             \/ i = DivLat /\ StartDiv
             \/ i = MulLat /\ StartMul]

MulStep ==
    mul' = [i \in 0..MulLat |->
              IF i = 0 THEN IF StartMul THEN issue.rob ELSE None
                       ELSE mul[i - 1]]

DivStep ==
    \/ /\ div.state = "IDLE" /\ StartDiv
       /\ div' = [state |-> "DIVIDE", idx |-> LastIdx, rob |-> issue.rob]
    \/ /\ div.state = "IDLE" /\ ~StartDiv
       /\ UNCHANGED div
    \/ /\ div.state = "DIVIDE" /\ div.idx > 0
       /\ div' = [div EXCEPT !.idx = @ - 1]
    \/ /\ div.state = "DIVIDE" /\ div.idx = 0
       /\ div' = [div EXCEPT !.state = "PACK_OUTPUT"]
    \/ /\ div.state = "PACK_OUTPUT"
       /\ div' = [div EXCEPT !.state = "WAIT_FOR_WB"]
    \/ /\ div.state = "WAIT_FOR_WB"
       /\ div' = [div EXCEPT !.state = "IDLE"]

\* wrptr0 / complete_bundle_1: the multiplier wins over the divider, which
\* wins over the ALU; what loses is dropped without a trace.
Complete ==
    cmpl' = IF MulComplete THEN mul[MulLat]
            ELSE IF DivComplete THEN div.rob
            ELSE IF AluComplete THEN issue.rob
            ELSE None

\* ROB pointers of uops that have issued and not completed.
InFlight ==
    ({issue.rob} \cup {mul[i] : i \in 0..MulLat}
       \cup (IF div.state = "IDLE" THEN {} ELSE {div.rob})) \ {None}

MaySelect_IntLate(kind) ==
    CASE kind = "div" -> div.state = "IDLE" /\ ~StartDiv
      [] kind = "mul" -> ~wb[MulLat + 2]
      [] kind = "int" -> ~wb[0]
\* t_alu_entry_rdy: when an entry of this kind may be selected.
MaySelect(kind) ==
    CASE kind = "div" -> div.state = "IDLE" /\ ~StartDiv
      [] kind = "mul" -> ~wb[MulLat + 2]
      [] kind = "int" -> ~wb[1]

Clock(ds) ==
    /\ dsDone' = ds
    /\ ShiftReservations
    /\ MulStep
    /\ DivStep
    /\ Complete

\* The scheduler picks a ready uop; ds_done kills it on its way to issue.
Select(kind, rob, ds) ==
    /\ rob \notin InFlight
    /\ MaySelect(kind)
    /\ ~dsDone
    /\ issue' = [kind |-> kind, rob |-> rob]
    /\ Clock(ds)

\* No entry is ready, or the one picked is killed by ds_done.
Bubble(ds) ==
    /\ issue' = NoIssue
    /\ Clock(ds)

Next ==
    \/ \E kind \in Kinds, rob \in Robs, ds \in BOOLEAN : Select(kind, rob, ds)
    \/ \E ds \in BOOLEAN : Bubble(ds)

Spec == Init /\ [][Next]_vars

-----------------------------------------------------------------------------
TypeOK ==
    /\ wb \in [0..DivLat -> BOOLEAN]
    /\ issue \in Issues
    /\ mul \in [0..MulLat -> Robs \cup {None}]
    /\ div \in [state : DivStates, idx : 0..LastIdx, rob : Robs \cup {None}]
    /\ cmpl \in Robs \cup {None}
    /\ dsDone \in BOOLEAN

\* The divider occupies the port in DivSlot(k) exactly k cycles from now.
DivSlot(k) ==
    \/ div.state = "WAIT_FOR_WB" /\ k = 0
    \/ div.state = "PACK_OUTPUT" /\ k = 1
    \/ div.state = "DIVIDE" /\ k = div.idx + 2

MulSlot(k) == k <= MulLat /\ mul[MulLat - k] # None

(* The reservation vector tells the truth: bit k is set if and only if the
   multiplier or the divider delivers a result in k cycles.  A stale or a
   missing bit is what lets two results meet (exec.sv, n_wb_bitvec). *)
ReservationsExact ==
    \A k \in 0..DivLat : wb[k] <=> (MulSlot(k) \/ DivSlot(k))

(* The three $stop assertions of exec.sv, strengthened from register writes
   to completions: in no cycle do two of the multiplier, the divider and the
   ALU deliver on port 0. *)
PortExclusive ==
    /\ ~(MulComplete /\ DivComplete)
    /\ ~(MulComplete /\ AluComplete)
    /\ ~(DivComplete /\ AluComplete)

(* The multiplier and the divider never hold reservations for one cycle. *)
UnitsDisjoint == \A k \in 0..DivLat : ~(MulSlot(k) /\ DivSlot(k))

(* What was selected under the guards still fits when it executes. *)
IssueFits ==
    Valid => /\ issue.kind = "int" => ~wb[0]
             /\ issue.kind = "mul" => ~wb[MulLat + 1]
             /\ issue.kind = "div" => div.state = "IDLE"

IInv == TypeOK /\ ReservationsExact /\ UnitsDisjoint /\ IssueFits

-----------------------------------------------------------------------------
\* Cycles from issue to the port, and the uop rob that needs it in left cycles.
Latency(kind) ==
    CASE kind = "int" -> 0
      [] kind = "mul" -> MulLat + 1
      [] kind = "div" -> DivLat + 1
Use(rob, left) == [rob |-> rob, left |-> left]

OnPort ==
    {Use(mul[MulLat - k], k) : k \in {j \in 0..MulLat : MulSlot(j)}}
    \cup {Use(div.rob, k) : k \in {j \in 0..DivLat : DivSlot(j)}}
    \cup {Use(issue.rob, Latency(kind)) : kind \in {k \in Kinds : Valid /\ k = issue.kind}}

Abstract == INSTANCE PortReservation WITH pending <- OnPort, reported <- cmpl

(* Every uop that starts on port 0 is reported exactly once, under its own ROB
   pointer and exactly its latency after it started (complete_bundle_1). *)
ReportsOnTime == Abstract!Spec
=============================================================================
