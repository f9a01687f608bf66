-------------------------- MODULE WritebackPortProofs --------------------------
(***************************************************************************)
(* Proofs about WritebackPort, for every multiplier latency of at least    *)
(* one cycle and every divider latency at least two cycles longer: the     *)
(* reservations are exact, nothing collides on the port, and every uop is  *)
(* reported on time.                                                       *)
(***************************************************************************)
EXTENDS WritebackPort, TLAPS

(* Where a unit's result is due moves one cycle closer every cycle, and a unit
   that starts is due its full latency later (mul.sv, divider.sv). *)
LEMMA SlotsShift ==
    ASSUME TypeOK, NEW ds, Clock(ds), IssueFits, NEW k \in 0..DivLat
    PROVE  /\ MulSlot(k)' <=> \/ k < DivLat /\ MulSlot(k + 1)
                              \/ k = MulLat /\ StartMul
           /\ DivSlot(k)' <=> \/ k < DivLat /\ DivSlot(k + 1)
                              \/ k = DivLat /\ StartDiv
<1> USE LatAssumption, NoneAssumption
<1>1. MulSlot(k)' <=> \/ k < DivLat /\ MulSlot(k + 1)
                      \/ k = MulLat /\ StartMul
  <2>1. CASE k > MulLat
    BY <2>1 DEF MulSlot
  <2>2. CASE k = MulLat
    <3>1. mul'[0] = IF StartMul THEN issue.rob ELSE None
      BY DEF Clock, MulStep
    <3>2. StartMul => issue.rob # None
      BY DEF StartMul, Valid
    <3> QED BY <2>2, <3>1, <3>2 DEF MulSlot
  <2>3. CASE k < MulLat
    <3>1. MulLat - k \in 1..MulLat
      BY <2>3
    <3>2. mul'[MulLat - k] = mul[(MulLat - k) - 1]
      BY <3>1 DEF Clock, MulStep
    <3>3. (MulLat - k) - 1 = MulLat - (k + 1)
      BY <2>3
    <3> QED BY <2>3, <3>2, <3>3 DEF MulSlot
  <2> QED BY <2>1, <2>2, <2>3
<1>2. DivSlot(k)' <=> \/ k < DivLat /\ DivSlot(k + 1)
                      \/ k = DivLat /\ StartDiv
  <2> USE DEF DivSlot, LastIdx
  <2>1. DivStep
    BY DEF Clock
  <2>2. div.state \in DivStates /\ div.idx \in 0..LastIdx /\ div \in [state : DivStates, idx : 0..LastIdx, rob : Robs \cup {None}]
    BY DEF TypeOK
  <2>3. StartDiv => div.state = "IDLE"
    BY DEF IssueFits, StartDiv
  <2>4. CASE div.state = "IDLE" /\ StartDiv
    BY <2>1, <2>2, <2>4 DEF DivStep
  <2>5. CASE div.state = "IDLE" /\ ~StartDiv
    BY <2>1, <2>2, <2>5 DEF DivStep
  <2>6. CASE div.state = "DIVIDE" /\ div.idx > 0
    BY <2>1, <2>2, <2>3, <2>6 DEF DivStep
  <2>7. CASE div.state = "DIVIDE" /\ div.idx = 0
    BY <2>1, <2>2, <2>3, <2>7 DEF DivStep
  <2>8. CASE div.state = "PACK_OUTPUT"
    BY <2>1, <2>2, <2>3, <2>8 DEF DivStep
  <2>9. CASE div.state = "WAIT_FOR_WB"
    BY <2>1, <2>2, <2>3, <2>9 DEF DivStep
  <2> QED BY <2>2, <2>4, <2>5, <2>6, <2>7, <2>8, <2>9 DEF DivStates
<1> QED BY <1>1, <1>2

-----------------------------------------------------------------------------
(* The registers keep their widths. *)
LEMMA ClockType ==
    ASSUME TypeOK, NEW ds \in BOOLEAN, Clock(ds), issue' \in Issues
    PROVE  TypeOK'
<1> USE LatAssumption, NoneAssumption
<1>1. wb' \in [0..DivLat -> BOOLEAN]
  <2>1. wb' = [i \in 0..DivLat |->
             \/ i < DivLat /\ wb[i + 1]
             \/ i = DivLat /\ StartDiv
             \/ i = MulLat /\ StartMul]
    BY DEF Clock, ShiftReservations
  <2> HIDE DEF StartDiv, StartMul
  <2>2. \A i \in 0..DivLat :
             (\/ i < DivLat /\ wb[i + 1]
              \/ i = DivLat /\ StartDiv
              \/ i = MulLat /\ StartMul) \in BOOLEAN
    OBVIOUS
  <2> QED BY <2>1, <2>2, Zenon
<1>2. issue.rob \in Robs \cup {None}
  BY DEF TypeOK, Issues, NoIssue
<1>3. mul' \in [0..MulLat -> Robs \cup {None}]
  <2>1. \A i \in 0..MulLat : i # 0 => i - 1 \in 0..MulLat
    OBVIOUS
  <2> QED BY <1>2, <2>1 DEF Clock, MulStep, TypeOK
<1>4. div' \in [state : DivStates, idx : 0..LastIdx, rob : Robs \cup {None}]
  BY <1>2 DEF Clock, DivStep, TypeOK, DivStates, LastIdx
<1>5. cmpl' \in Robs \cup {None}
  BY <1>2 DEF Clock, Complete, TypeOK
<1>6. dsDone' \in BOOLEAN
  BY DEF Clock
<1> QED BY <1>1, <1>3, <1>4, <1>5, <1>6 DEF TypeOK

(* A cycle in which whatever issues fits keeps the reservations exact. *)
LEMMA ClockReservations ==
    ASSUME IInv, NEW ds \in BOOLEAN, Clock(ds)
    PROVE  ReservationsExact' /\ UnitsDisjoint'
<1> USE LatAssumption
<1>1. ASSUME NEW k \in 0..DivLat
      PROVE  (wb[k]' <=> (MulSlot(k)' \/ DivSlot(k)')) /\ ~(MulSlot(k)' /\ DivSlot(k)')
  <2>1. wb'[k] <=> \/ k < DivLat /\ wb[k + 1]
                   \/ k = DivLat /\ StartDiv
                   \/ k = MulLat /\ StartMul
    BY DEF Clock, ShiftReservations
  <2>2. MulSlot(k)' <=> \/ k < DivLat /\ MulSlot(k + 1)
                        \/ k = MulLat /\ StartMul
    BY SlotsShift DEF IInv
  <2>3. DivSlot(k)' <=> \/ k < DivLat /\ DivSlot(k + 1)
                        \/ k = DivLat /\ StartDiv
    BY SlotsShift DEF IInv
  <2>4. CASE k < DivLat
    <3>1. k + 1 \in 0..DivLat
      BY <2>4
    <3>2. wb[k + 1] <=> (MulSlot(k + 1) \/ DivSlot(k + 1))
      BY <3>1 DEF IInv, ReservationsExact
    <3>3. ~(MulSlot(k + 1) /\ DivSlot(k + 1))
      BY <3>1 DEF IInv, UnitsDisjoint
    <3>4. k = MulLat /\ StartMul => ~wb[k + 1]
      BY DEF IInv, IssueFits, StartMul
    <3> QED BY <2>1, <2>2, <2>3, <2>4, <3>2, <3>3, <3>4
  <2>5. CASE k = DivLat
    <3>1. k # MulLat /\ ~(k < DivLat)
      BY <2>5
    <3> QED BY <2>1, <2>2, <2>3, <2>5, <3>1
  <2> QED BY <2>4, <2>5
<1> QED BY <1>1 DEF ReservationsExact, UnitsDisjoint

(* The select guards look far enough ahead: what they let through still fits
   the port one cycle later, when it executes (t_alu_entry_rdy). *)
LEMMA SelectFits ==
    ASSUME IInv, NEW kind \in Kinds, NEW rob \in Robs, NEW ds \in BOOLEAN,
           Select(kind, rob, ds)
    PROVE  IssueFits'
<1> USE LatAssumption, NoneAssumption
<1>1. issue' = [kind |-> kind, rob |-> rob] /\ MaySelect(kind) /\ ~dsDone
  BY DEF Select
<1>2. ShiftReservations /\ DivStep
  BY DEF Select, Clock
<1>3. CASE kind = "int"
  <2>1. ~wb[1]
    BY <1>1, <1>3 DEF MaySelect
  <2>2. ~wb'[0]
    BY <1>2, <2>1 DEF ShiftReservations
  <2> QED BY <1>1, <1>3, <2>2 DEF IssueFits, Valid
<1>4. CASE kind = "mul"
  <2>1. ~wb[MulLat + 2]
    BY <1>1, <1>4 DEF MaySelect
  <2>2. MulLat + 1 \in 0..DivLat /\ MulLat + 1 # MulLat /\ MulLat + 1 # DivLat
        /\ (MulLat + 1) + 1 = MulLat + 2
    OBVIOUS
  <2>3. ~wb'[MulLat + 1]
    BY <1>2, <2>1, <2>2 DEF ShiftReservations
  <2> QED BY <1>1, <1>4, <2>3 DEF IssueFits, Valid
<1>5. CASE kind = "div"
  <2>1. div.state = "IDLE" /\ ~StartDiv
    BY <1>1, <1>5 DEF MaySelect
  <2>2. div'.state = "IDLE"
    BY <1>2, <2>1 DEF DivStep
  <2> QED BY <1>1, <1>5, <2>2 DEF IssueFits, Valid
<1> QED BY <1>3, <1>4, <1>5 DEF Kinds

-----------------------------------------------------------------------------
(* The port starts with nothing reserved. *)
LEMMA InitIInv == Init => IInv
<1> USE LatAssumption, NoneAssumption
<1> SUFFICES ASSUME Init PROVE IInv
  OBVIOUS
<1>1. TypeOK
  <2>1. div \in [state : DivStates, idx : 0..LastIdx, rob : Robs \cup {None}]
    BY DEF Init, DivStates, LastIdx
  <2>2. wb \in [0..DivLat -> BOOLEAN] /\ mul \in [0..MulLat -> Robs \cup {None}]
    BY DEF Init
  <2>3. issue \in Issues /\ cmpl \in Robs \cup {None} /\ dsDone \in BOOLEAN
    BY DEF Init, Issues
  <2> QED BY <2>1, <2>2, <2>3 DEF TypeOK
<1>2. \A k \in 0..DivLat : ~MulSlot(k) /\ ~DivSlot(k) /\ ~wb[k]
  BY DEF Init, MulSlot, DivSlot
<1>3. IssueFits
  BY DEF Init, IssueFits, Valid, NoIssue
<1> QED BY <1>1, <1>2, <1>3 DEF IInv, ReservationsExact, UnitsDisjoint

(* Every cycle keeps the reservations exact. *)
LEMMA NextIInv == IInv /\ [Next]_vars => IInv'
<1> SUFFICES ASSUME IInv, [Next]_vars PROVE IInv'
  OBVIOUS
<1>1. ASSUME NEW kind \in Kinds, NEW rob \in Robs, NEW ds \in BOOLEAN,
             Select(kind, rob, ds)
      PROVE  IInv'
  <2>1. Clock(ds) /\ issue' \in Issues
    BY <1>1 DEF Select, Issues
  <2>2. TypeOK'
    BY <2>1, ClockType DEF IInv
  <2> QED BY <1>1, <2>1, <2>2, ClockReservations, SelectFits DEF IInv
<1>2. ASSUME NEW ds \in BOOLEAN, Bubble(ds)
      PROVE  IInv'
  <2>1. Clock(ds) /\ issue' = NoIssue
    BY <1>2 DEF Bubble
  <2>2. TypeOK'
    BY <2>1, ClockType DEF IInv, Issues
  <2>3. IssueFits'
    BY <2>1 DEF IssueFits, Valid, NoIssue
  <2> QED BY <2>1, <2>2, <2>3, ClockReservations DEF IInv
<1>3. CASE UNCHANGED vars
  BY <1>3 DEF vars, IInv, TypeOK, ReservationsExact, UnitsDisjoint, IssueFits,
              MulSlot, DivSlot, Valid, LastIdx
<1> QED BY <1>1, <1>2, <1>3 DEF Next

(* The inductive invariant of the port. *)
THEOREM Invariant == Spec => []IInv
BY InitIInv, NextIInv, PTL DEF Spec

(* Registers keep their widths: the divider's counter never wraps below zero
   and no stage holds anything but a ROB pointer. *)
THEOREM TypeCorrect == Spec => []TypeOK
<1>1. IInv => TypeOK
  BY DEF IInv
<1> QED BY <1>1, Invariant, PTL

(* The reservation vector names exactly the cycles in which a unit delivers. *)
THEOREM ReservationsAlwaysExact == Spec => []ReservationsExact
<1>1. IInv => ReservationsExact
  BY DEF IInv
<1> QED BY <1>1, Invariant, PTL

(* The $stop assertions of exec.sv never fire: for every latency, at most one
   of the multiplier, the divider and the ALU delivers on port 0 per cycle. *)
THEOREM PortNeverShared == Spec => []PortExclusive
<1>1. IInv => PortExclusive
  <2> SUFFICES ASSUME IInv PROVE PortExclusive
    OBVIOUS
  <2>1. 0 \in 0..DivLat /\ 0 <= MulLat /\ MulLat - 0 = MulLat
    BY LatAssumption
  <2>2. MulComplete <=> MulSlot(0)
    BY <2>1 DEF MulComplete, MulSlot
  <2>3. DivComplete => DivSlot(0)
    BY DEF DivComplete, DivSlot
  <2>4. ~(MulSlot(0) /\ DivSlot(0))
    BY <2>1 DEF IInv, UnitsDisjoint
  <2>5. AluComplete => ~MulSlot(0) /\ ~DivSlot(0)
    BY <2>1 DEF IInv, IssueFits, AluComplete, ReservationsExact
  <2> QED BY <2>2, <2>3, <2>4, <2>5 DEF PortExclusive
<1> QED BY <1>1, Invariant, PTL

-----------------------------------------------------------------------------
(* A uop is on the port as a product in the multiplier, as the division under
   way, or because it executes in this cycle (exec.sv). *)
On(rob, left) ==
    \/ left \in 0..MulLat /\ MulSlot(left) /\ rob = mul[MulLat - left]
    \/ left \in 0..DivLat /\ DivSlot(left) /\ rob = div.rob
    \/ Valid /\ rob = issue.rob /\ left = Latency(issue.kind)

(* OnPort, element by element. *)
LEMMA OnPortIs ==
    ASSUME TypeOK, NEW x
    PROVE  x \in OnPort <=> x = Use(x.rob, x.left) /\ On(x.rob, x.left)
<1>1. issue.rob # None => issue.kind \in Kinds
  BY DEF TypeOK, Issues, NoIssue, Kinds
<1>2. ASSUME x \in OnPort PROVE x = Use(x.rob, x.left) /\ On(x.rob, x.left)
  BY <1>2 DEF OnPort, On, Use
<1>3. ASSUME x = Use(x.rob, x.left), On(x.rob, x.left) PROVE x \in OnPort
  BY <1>1, <1>3 DEF OnPort, On, Valid
<1> QED BY <1>2, <1>3

(* The same for the uops on the port after a cycle. *)
LEMMA OnPortIsNext ==
    ASSUME TypeOK', NEW x
    PROVE  x \in OnPort' <=> x = Use(x.rob, x.left) /\ On(x.rob, x.left)'
<1>1. issue'.rob # None => issue'.kind \in Kinds
  BY DEF TypeOK, Issues, NoIssue, Kinds
<1>2. ASSUME x \in OnPort' PROVE x = Use(x.rob, x.left) /\ On(x.rob, x.left)'
  BY <1>2 DEF OnPort, On, Use
<1>3. ASSUME x = Use(x.rob, x.left), On(x.rob, x.left)' PROVE x \in OnPort'
  BY <1>1, <1>3 DEF OnPort, On, Valid
<1> QED BY <1>2, <1>3

(* No two uops on the port need it in the same cycle: what makes the reported
   uop unique (wrptr0). *)
LEMMA OneUse ==
    ASSUME IInv, NEW rob1, NEW rob2, NEW left, On(rob1, left), On(rob2, left)
    PROVE  rob1 = rob2
<1> USE LatAssumption, NoneAssumption
<1>1. MulSlot(left) => left <= MulLat
  BY DEF MulSlot
<1>2. left \in 0..DivLat => ~(MulSlot(left) /\ DivSlot(left))
  BY DEF IInv, UnitsDisjoint
<1>3. ASSUME Valid, left = Latency(issue.kind), left \in 0..DivLat
      PROVE  ~MulSlot(left) /\ ~DivSlot(left)
  <2>1. issue.kind \in Kinds
    BY <1>3 DEF IInv, TypeOK, Issues, NoIssue, Kinds
  <2>2. left \in {0, MulLat + 1} /\ ~wb[left]
    BY <1>3, <2>1 DEF IInv, IssueFits, Latency, Kinds
  <2> QED BY <1>3, <2>2 DEF IInv, ReservationsExact
<1> QED BY <1>1, <1>2, <1>3 DEF On

(* The same after a cycle. *)
LEMMA OneUseNext ==
    ASSUME IInv', NEW rob1, NEW rob2, NEW left, On(rob1, left)', On(rob2, left)'
    PROVE  rob1 = rob2
<1> USE LatAssumption, NoneAssumption
<1>1. MulSlot(left)' => left <= MulLat
  BY DEF MulSlot
<1>2. left \in 0..DivLat => ~(MulSlot(left)' /\ DivSlot(left)')
  BY DEF IInv, UnitsDisjoint
<1>3. ASSUME Valid', left = Latency(issue'.kind), left \in 0..DivLat
      PROVE  ~MulSlot(left)' /\ ~DivSlot(left)'
  <2>1. issue'.kind \in Kinds
    BY <1>3 DEF IInv, TypeOK, Issues, NoIssue, Kinds
  <2>2. left \in {0, MulLat + 1} /\ ~wb'[left]
    BY <1>3, <2>1 DEF IInv, IssueFits, Latency, Kinds, Valid
  <2> QED BY <1>3, <2>2 DEF IInv, ReservationsExact
<1> QED BY <1>1, <1>2, <1>3 DEF On

\* A multiply or a division that ds_done kills in the cycle it would start.
KilledStart == Valid /\ issue.kind # "int" /\ dsDone

(* One cycle moves every uop one cycle closer, except the one that is reported
   and one killed as it starts (mul.sv, divider.sv, exec.sv). *)
LEMMA CycleMoves ==
    ASSUME IInv, NEW ds, Clock(ds), NEW rob, NEW left
    PROVE  (\/ left \in 0..MulLat /\ MulSlot(left)' /\ rob = mul'[MulLat - left]
            \/ left \in 0..DivLat /\ DivSlot(left)' /\ rob = div'.rob)
           <=>
           /\ left \in Nat /\ On(rob, left + 1)
           /\ ~(KilledStart /\ rob = issue.rob /\ left + 1 = Latency(issue.kind))
<1> USE LatAssumption, NoneAssumption
<1>1. TypeOK /\ IssueFits
  BY DEF IInv
<1>2. ASSUME NEW k \in 0..DivLat
      PROVE  /\ MulSlot(k)' <=> \/ k < DivLat /\ MulSlot(k + 1)
                                \/ k = MulLat /\ StartMul
             /\ DivSlot(k)' <=> \/ k < DivLat /\ DivSlot(k + 1)
                                \/ k = DivLat /\ StartDiv
  BY <1>1, SlotsShift
<1>3. ASSUME left \in 0..MulLat, MulSlot(left)'
      PROVE  mul'[MulLat - left] = IF left = MulLat THEN issue.rob ELSE mul[MulLat - (left + 1)]
  <2>1. MulLat - left \in 0..MulLat /\ (MulLat - left) - 1 = MulLat - (left + 1)
    BY <1>3
  <2>2. mul'[MulLat - left] = IF MulLat - left = 0 THEN IF StartMul THEN issue.rob ELSE None
                              ELSE mul[(MulLat - left) - 1]
    BY <2>1 DEF Clock, MulStep
  <2>3. left = MulLat => StartMul
    BY <1>2, <1>3 DEF MulSlot
  <2> QED BY <1>3, <2>1, <2>2, <2>3
<1>4. ASSUME NEW k \in 0..DivLat, DivSlot(k)'
      PROVE  div'.rob = IF k = DivLat THEN issue.rob ELSE div.rob
  <2>1. DivSlot(DivLat)' => ~DivSlot(DivLat + 1)
    BY <1>1 DEF DivSlot, TypeOK, LastIdx
  <2>2. DivSlot(k) => k <= DivLat
    BY <1>1 DEF DivSlot, TypeOK, LastIdx
  <2>3. div \in [state : DivStates, idx : 0..LastIdx, rob : Robs \cup {None}] /\ DivStep
    BY <1>1 DEF TypeOK, Clock
  <2>4. k = DivLat => StartDiv
    BY <1>2, <1>4
  <2>5. k # DivLat => DivSlot(k + 1)
    BY <1>2, <1>4
  <2> QED BY <1>4, <2>3, <2>4, <2>5, <1>1 DEF DivSlot, DivStep, StartDiv, IssueFits, DivStates
<1>5. (left \in 0..MulLat /\ MulSlot(left)' /\ rob = mul'[MulLat - left])
      <=> \/ left \in 0..MulLat - 1 /\ MulSlot(left + 1) /\ rob = mul[MulLat - (left + 1)]
          \/ left = MulLat /\ StartMul /\ rob = issue.rob
  BY <1>2, <1>3 DEF MulSlot
<1>6. (left \in 0..DivLat /\ DivSlot(left)' /\ rob = div'.rob)
      <=> \/ left \in 0..DivLat - 1 /\ DivSlot(left + 1) /\ rob = div.rob
          \/ left = DivLat /\ StartDiv /\ rob = issue.rob
  BY <1>2, <1>4
<1>7. left \in Nat =>
      (On(rob, left + 1) <=>
          \/ left \in 0..MulLat - 1 /\ MulSlot(left + 1) /\ rob = mul[MulLat - (left + 1)]
          \/ left \in 0..DivLat - 1 /\ DivSlot(left + 1) /\ rob = div.rob
          \/ Valid /\ rob = issue.rob /\ left + 1 = Latency(issue.kind))
  BY DEF On
<1> DEFINE Killed == KilledStart /\ rob = issue.rob /\ left + 1 = Latency(issue.kind)
<1>8. left \in Nat /\ Valid /\ rob = issue.rob /\ left + 1 = Latency(issue.kind) /\ ~KilledStart
      <=> \/ left = MulLat /\ StartMul /\ rob = issue.rob
          \/ left = DivLat /\ StartDiv /\ rob = issue.rob
  <2>1. Valid => issue.kind \in Kinds
    BY <1>1 DEF Valid, TypeOK, Issues, NoIssue, Kinds
  <2> QED BY <2>1 DEF KilledStart, StartMul, StartDiv, Latency, Kinds
<1>9. ASSUME left \in Nat, Killed
      PROVE  /\ ~(left \in 0..MulLat - 1 /\ MulSlot(left + 1))
             /\ ~(left \in 0..DivLat - 1 /\ DivSlot(left + 1))
  <2>1. issue.kind \in {"mul", "div"}
    BY <1>1, <1>9 DEF KilledStart, Valid, TypeOK, Issues, NoIssue, Kinds
  <2>2. left = MulLat \/ left = DivLat
    BY <1>9, <2>1 DEF Latency
  <2>3. issue.kind = "mul" => ~wb[MulLat + 1] /\ left = MulLat
    BY <1>1, <1>9 DEF IssueFits, KilledStart, Latency
  <2>4. issue.kind = "div" => left = DivLat
    BY <1>9 DEF Latency
  <2>5. MulLat + 1 \in 0..DivLat
    OBVIOUS
  <2>6. issue.kind = "mul" => ~DivSlot(MulLat + 1)
    BY <2>3, <2>5 DEF IInv, ReservationsExact
  <2> QED BY <2>1, <2>3, <2>4, <2>6
<1> HIDE DEF Killed
<1>10. left \in 0..MulLat \/ left \in 0..DivLat => left \in Nat
  OBVIOUS
<1>11. Killed <=> KilledStart /\ rob = issue.rob /\ left + 1 = Latency(issue.kind)
  BY DEF Killed
<1>12. KilledStart => Valid
  BY DEF KilledStart
<1> QED BY <1>5, <1>6, <1>7, <1>8, <1>9, <1>10, <1>11, <1>12

\* The uop killed at the end of this cycle, and the one that executes next.
KilledUse == {Use(issue.rob, Latency(kind)) : kind \in {k \in Kinds : KilledStart /\ k = issue.kind}}
IssuedUse == {Use(issue'.rob, Latency(kind)) : kind \in {k \in Kinds : Valid' /\ k = issue'.kind}}

(* A clock cycle is a tick of the abstract port (exec.sv). *)
LEMMA ClockTicks ==
    ASSUME IInv, IInv', NEW ds, Clock(ds)
    PROVE  Abstract!Tick(KilledUse, IssuedUse)
<1> USE LatAssumption, NoneAssumption
<1>1. TypeOK /\ TypeOK'
  BY DEF IInv
<1>2. Valid => issue.kind \in Kinds
  BY <1>1 DEF Valid, TypeOK, Issues, NoIssue, Kinds
<1>3. Valid' => issue'.kind \in Kinds
  BY <1>1 DEF Valid, TypeOK, Issues, NoIssue, Kinds
<1>4. \A x \in KilledUse : x \in OnPort /\ x.left \in Abstract!Latencies \ {0}
  <2> SUFFICES ASSUME NEW x \in KilledUse
               PROVE  x \in OnPort /\ x.left \in Abstract!Latencies \ {0}
    OBVIOUS
  <2>1. /\ x = Use(x.rob, x.left) /\ Valid /\ issue.kind # "int"
        /\ x.rob = issue.rob /\ x.left = Latency(issue.kind)
    BY DEF KilledUse, KilledStart, Use
  <2>2. On(x.rob, x.left)
    BY <2>1 DEF On
  <2>3. x.left \in {MulLat + 1, DivLat + 1}
    BY <1>2, <2>1 DEF Latency, Kinds
  <2> QED BY <1>1, <2>1, <2>2, <2>3, OnPortIs DEF Abstract!Latencies
<1>5. ASSUME NEW x
      PROVE  x \in KilledUse <=> /\ KilledStart
                                 /\ x = Use(issue.rob, Latency(issue.kind))
  BY <1>2 DEF KilledUse, KilledStart
<1>6. ASSUME NEW x
      PROVE  x \in IssuedUse <=> /\ Valid'
                                 /\ x = Use(issue'.rob, Latency(issue'.kind))
  BY <1>3 DEF IssuedUse
<1> DEFINE Moved == {Use(x.rob, x.left - 1) : x \in (OnPort \ Abstract!Due) \ KilledUse}
<1>7. OnPort' = Moved \cup IssuedUse
  <2>1. ASSUME NEW y \in OnPort' PROVE y \in Moved \cup IssuedUse
    <3>1. y = Use(y.rob, y.left) /\ On(y.rob, y.left)'
      BY <1>1, <2>1, OnPortIsNext
    <3>2. CASE Valid' /\ y.rob = issue'.rob /\ y.left = Latency(issue'.kind)
      BY <1>6, <3>1, <3>2
    <3>3. CASE \/ y.left \in 0..MulLat /\ MulSlot(y.left)' /\ y.rob = mul'[MulLat - y.left]
               \/ y.left \in 0..DivLat /\ DivSlot(y.left)' /\ y.rob = div'.rob
      <4>1. /\ y.left \in Nat /\ On(y.rob, y.left + 1)
            /\ ~(KilledStart /\ y.rob = issue.rob /\ y.left + 1 = Latency(issue.kind))
        BY <3>3, CycleMoves
      <4> DEFINE x == Use(y.rob, y.left + 1)
      <4>2. x.rob = y.rob /\ x.left = y.left + 1 /\ x = Use(x.rob, x.left)
        BY DEF Use
      <4>3. x \in OnPort
        BY <1>1, <4>1, <4>2, OnPortIs
      <4>4. x.left # 0 /\ x.left - 1 = y.left
        BY <4>1, <4>2
      <4>5. x \notin KilledUse
        BY <1>5, <4>1, <4>2 DEF Use
      <4> HIDE DEF x
      <4>6. y = Use(x.rob, x.left - 1)
        BY <3>1, <4>2, <4>4
      <4> QED BY <4>3, <4>4, <4>5, <4>6 DEF Abstract!Due
    <3> QED BY <3>1, <3>2, <3>3 DEF On
  <2>2. ASSUME NEW y \in Moved PROVE y \in OnPort'
    <3>1. PICK x \in (OnPort \ Abstract!Due) \ KilledUse : y = Use(x.rob, x.left - 1)
      BY <2>2
    <3>2. x = Use(x.rob, x.left) /\ On(x.rob, x.left) /\ x.left # 0
      BY <1>1, <3>1, OnPortIs DEF Abstract!Due
    <3>3. x.left \in Nat
      BY <1>2, <3>2 DEF On, Latency, Kinds
    <3>4. PICK m \in Nat : x.left = m + 1
      BY <3>2, <3>3, x.left = (x.left - 1) + 1, x.left - 1 \in Nat
    <3>5. y = Use(x.rob, m)
      BY <3>1, <3>4
    <3>6. ~(KilledStart /\ x.rob = issue.rob /\ m + 1 = Latency(issue.kind))
      BY <1>5, <3>1, <3>2, <3>4
    <3>7. \/ m \in 0..MulLat /\ MulSlot(m)' /\ x.rob = mul'[MulLat - m]
          \/ m \in 0..DivLat /\ DivSlot(m)' /\ x.rob = div'.rob
      BY <3>2, <3>4, <3>6, CycleMoves
    <3>8. On(x.rob, m)'
      BY <3>7 DEF On
    <3>9. y.rob = x.rob /\ y.left = m
      BY <3>5 DEF Use
    <3> QED BY <1>1, <3>5, <3>8, <3>9, OnPortIsNext
  <2>3. ASSUME NEW y \in IssuedUse PROVE y \in OnPort'
    <3>1. Valid' /\ y.rob = issue'.rob /\ y.left = Latency(issue'.kind) /\ y = Use(y.rob, y.left)
      BY <1>6, <2>3 DEF Use
    <3>2. On(y.rob, y.left)'
      BY <3>1 DEF On
    <3> QED BY <1>1, <3>1, <3>2, OnPortIsNext
  <2> HIDE DEF Moved
  <2> QED BY <2>1, <2>2, <2>3
<1>8. Moved = {[rob |-> x.rob, left |-> x.left - 1] : x \in (OnPort \ Abstract!Due) \ KilledUse}
  BY DEF Use
<1>9. Abstract!OnePerCycle(OnPort')
  <2> SUFFICES ASSUME NEW x \in OnPort', NEW y \in OnPort', x.left = y.left
               PROVE  x = y
    BY DEF Abstract!OnePerCycle
  <2>1. x = Use(x.rob, x.left) /\ On(x.rob, x.left)'
    BY <1>1, OnPortIsNext
  <2>2. y = Use(y.rob, x.left) /\ On(y.rob, x.left)'
    BY <1>1, OnPortIsNext
  <2>3. x.rob = y.rob
    BY <2>1, <2>2, OneUseNext
  <2> QED BY <2>1, <2>2, <2>3
<1>10. \/ Abstract!Due = {} /\ cmpl' = None
       \/ \E x \in Abstract!Due : cmpl' = x.rob
  <2>1. cmpl' = IF MulComplete THEN mul[MulLat]
                ELSE IF DivComplete THEN div.rob
                ELSE IF AluComplete THEN issue.rob
                ELSE None
    BY DEF Clock, Complete
  <2>2. ASSUME NEW r, On(r, 0) PROVE \E x \in Abstract!Due : r = x.rob
    <3>1. Use(r, 0).rob = r /\ Use(r, 0).left = 0
      BY DEF Use
    <3>2. Use(r, 0) \in OnPort
      BY <1>1, <2>2, <3>1, OnPortIs
    <3> QED BY <3>1, <3>2 DEF Abstract!Due
  <2>3. MulLat - 0 = MulLat /\ 0 \in 0..MulLat /\ 0 \in 0..DivLat
    OBVIOUS
  <2>4. MulComplete => On(mul[MulLat], 0)
    BY <2>3 DEF MulComplete, On, MulSlot
  <2>5. DivComplete => On(div.rob, 0)
    BY <2>3 DEF DivComplete, On, DivSlot
  <2>6. AluComplete => On(issue.rob, 0)
    BY DEF AluComplete, On, Latency
  <2>7. ASSUME ~MulComplete, ~DivComplete, ~AluComplete PROVE Abstract!Due = {}
    <3> SUFFICES ASSUME NEW x \in OnPort, x.left = 0 PROVE FALSE
      BY DEF Abstract!Due
    <3>1. On(x.rob, 0)
      BY <1>1, OnPortIs
    <3>2. ~MulSlot(0)
      BY <2>3, <2>7 DEF MulComplete, MulSlot
    <3>3. ~DivSlot(0)
      BY <1>1, <2>7 DEF DivComplete, DivSlot, TypeOK, LastIdx
    <3>4. ~(Valid /\ 0 = Latency(issue.kind))
      BY <1>2, <2>7 DEF AluComplete, Latency, Kinds
    <3> QED BY <3>1, <3>2, <3>3, <3>4 DEF On
  <2> QED BY <2>1, <2>2, <2>4, <2>5, <2>6, <2>7
<1> HIDE DEF Moved
<1> QED BY <1>4, <1>7, <1>8, <1>9, <1>10 DEF Abstract!Tick

(* Port 0 implements PortReservation: every uop that starts is reported once,
   under its own ROB pointer and exactly its latency later (exec.sv). *)
THEOREM ReportedOnTime == Spec => ReportsOnTime
<1> USE LatAssumption, NoneAssumption
<1>1. Init => Abstract!Init
  <2> SUFFICES ASSUME Init PROVE OnPort = {} /\ cmpl = None
    BY DEF Abstract!Init
  <2>1. \A k \in 0..DivLat : ~MulSlot(k) /\ ~DivSlot(k)
    BY DEF Init, MulSlot, DivSlot
  <2>2. ~Valid
    BY DEF Init, Valid, NoIssue
  <2> QED BY <2>1, <2>2 DEF OnPort, Init
<1>2. IInv /\ IInv' /\ [Next]_vars => [Abstract!Next]_(Abstract!vars)
  <2> SUFFICES ASSUME IInv, IInv', [Next]_vars PROVE [Abstract!Next]_(Abstract!vars)
    OBVIOUS
  <2>1. ASSUME NEW ds, Clock(ds) PROVE Abstract!Next
    <3>1. Abstract!Tick(KilledUse, IssuedUse)
      BY <2>1, ClockTicks
    <3>2. KilledUse \in {{}} \cup {{x} : x \in OnPort}
      <4>1. \A x, y \in KilledUse : x = y
        BY DEF KilledUse
      <4>2. \A x \in KilledUse : x \in OnPort
        BY <3>1 DEF Abstract!Tick
      <4> QED BY <4>1, <4>2
    <3>3. IssuedUse \in {{}} \cup {{[rob |-> r, left |-> l]} : r \in Robs, l \in Abstract!Latencies}
      <4>1. CASE ~Valid'
        BY <4>1 DEF IssuedUse
      <4>2. CASE Valid'
        <5>1. issue'.kind \in Kinds /\ issue'.rob \in Robs
          BY <4>2 DEF IInv, TypeOK, Valid, Issues, NoIssue, Kinds
        <5>2. Latency(issue'.kind) \in Abstract!Latencies
          BY <5>1 DEF Latency, Kinds, Abstract!Latencies
        <5>3. IssuedUse = {[rob |-> issue'.rob, left |-> Latency(issue'.kind)]}
          BY <4>2, <5>1 DEF IssuedUse, Use
        <5> QED BY <5>1, <5>2, <5>3
      <4> QED BY <4>1, <4>2
    <3> QED BY <3>1, <3>2, <3>3 DEF Abstract!Next
  <2>2. CASE UNCHANGED vars
    BY <2>2 DEF vars, Abstract!vars, OnPort, MulSlot, DivSlot, Valid
  <2> QED BY <2>1, <2>2 DEF Next, Select, Bubble
<1> QED BY <1>1, <1>2, Invariant, PTL DEF Spec, ReportsOnTime, Abstract!Spec
=============================================================================
