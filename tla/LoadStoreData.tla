----------------------------- MODULE LoadStoreData -----------------------------
(***************************************************************************)
(* Proofs about the data in LoadStore, for every number of sets, slots,    *)
(* queue entries and operations: cache and memory together hold exactly    *)
(* what the program has committed, a flush writes all of it back, and a    *)
(* load is answered with the last stores before it in program order.       *)
(*                                                                         *)
(* The invariant, DInv, says of the queue that its first g requests are    *)
(* the retired stores and the rest is of the window, in its order, of the  *)
(* store data that they are in the same order, of the arrays that a clean  *)
(* line is that of the memory, and of what port 2 has read that it is      *)
(* still what a load may be told.                                          *)
(***************************************************************************)
EXTENDS LoadStoreProofs

-----------------------------------------------------------------------------

Rows == [valid : BOOLEAN, dirty : BOOLEAN, tag : Tags, data : Lines]
Mems == [Sets -> [Tags -> Lines]]

MemReqs == [store : BOOLEAN, set : Sets, tag : Tags, data : Lines, valid : BOOLEAN]
CacheData ==
    /\ arr \in [Sets -> Rows] /\ mem \in Mems /\ memReq \in MemReqs
    /\ flushIdx \in Sets /\ p1.out \in Rows
    /\ p2 = [req |-> p2.req, out |-> p2.out, fwd |-> p2.fwd, wrData |-> p2.wrData,
             busy |-> p2.busy, busyWord |-> p2.busyWord, unaligned |-> p2.unaligned]
    /\ p2.out \in Rows /\ p2.fwd \in BOOLEAN /\ p2.wrData \in Lines
    /\ p2.busy \in BOOLEAN /\ p2.busyWord \in BOOLEAN /\ p2.unaligned \in BOOLEAN
CoreData ==
    /\ committed \in Mems /\ mdq \in Seq([rob : Slots, val : Vals]) /\ retired \subseteq Slots

\* What is behind the cache: a line that is not dirty is that of the memory, one that
\* is being written back is still in the arrays.
RowsInv(a, m) ==
    \A s \in Sets : /\ a[s].dirty => a[s].valid
                    /\ a[s].valid /\ ~a[s].dirty => a[s].data = m[s][a[s].tag]
MemInv ==
    /\ RowsInv(arr, mem)
    /\ inhibit <=> memReq.valid /\ memReq.store
    /\ memReq.valid =>
          LET row == arr[memReq.set] IN
          IF memReq.store
          THEN row.valid /\ row.dirty /\ row.tag = memReq.tag /\ row.data = memReq.data
          ELSE state = "INJECT_RELOAD" /\ ~(row.valid /\ row.dirty)

\* How far the walk through the sets has come.
Invalid(a, n) == \A s \in Sets : s < n => ~a[s].valid
WalkInv ==
    /\ state \in {"INIT_CACHE", "FLUSH_CACHE"} => Invalid(arr, flushIdx)
    /\ state = "FLUSH_CACHE" => p1.out = arr[flushIdx]
    /\ state = "FLUSH_CACHE_WAIT" =>
          memReq.set = flushIdx - 1 /\ Invalid(arr, flushIdx - 1) /\ memReq.store
    /\ state = "FLUSH_CACHE_LAST_WAIT" =>
          memReq.set = NumSets - 1 /\ Invalid(arr, NumSets - 1) /\ memReq.store
    /\ flushDone => Invalid(arr, NumSets) /\ mq = <<>> /\ p1.req = NoReq

\* The requests in the order in which they came.
Pipe == mq \o (IF On2 THEN <<p2.req>> ELSE <<>>)
\* An operation of the window whose request the cache has had.
Had(e, r) == e.rob = r.rob /\ e.st \in {"sent", "done"}

\* The first g requests are retired stores, the others are of the window, in
\* its order.
QueueOrder(w, q, g) ==
    /\ \A i \in 1 .. g : q[i].op.store /\ ~\E k \in DOMAIN w : Had(w[k], q[i])
    /\ \A i \in g + 1 .. Len(q) : \E k \in DOMAIN w :
          Had(w[k], q[i]) /\ w[k].op = q[i].op /\ (~q[i].op.store => w[k].st = "sent")
    /\ \A i \in g + 1 .. Len(q), j \in g + 1 .. Len(q), k \in DOMAIN w, l \in DOMAIN w :
          i < j /\ Had(w[k], q[i]) /\ Had(w[l], q[j]) => k < l
\* Operations go through the stages in their order.
WindowOrder(w) ==
    \A k \in DOMAIN w, l \in DOMAIN w : k < l =>
       /\ w[l].st \in {"sent", "done"} => w[k].st \in {"sent", "done"}
       /\ w[l].st = "queued" => w[k].st # "new"
       /\ w[k].op.store /\ w[l].op.store /\ w[l].data => w[k].data

\* The store data: those of the retired stores, then those of the window.
DataOrder(w, q, d, g) ==
    /\ g <= Len(d)
    /\ \A i \in 1 .. g : d[i] = [rob |-> q[i].rob, val |-> q[i].op.val]
    /\ \A i \in g + 1 .. Len(d) : \E k \in DOMAIN w :
          w[k].op.store /\ w[k].data /\ d[i] = [rob |-> w[k].rob, val |-> w[k].op.val]
    /\ \A k \in DOMAIN w : w[k].op.store /\ w[k].data =>
          \E i \in g + 1 .. Len(d) : d[i].rob = w[k].rob
    /\ \A i \in g + 1 .. Len(d), j \in g + 1 .. Len(d), k \in DOMAIN w, l \in DOMAIN w :
          i < j /\ d[i].rob = w[k].rob /\ d[j].rob = w[l].rob => k < l

\* No store is dropped but by a recovery.
StoresHeld(w, q) ==
    \A k \in DOMAIN w : w[k].op.store /\ w[k].st \in {"sent", "done"} =>
       \E i \in DOMAIN q : q[i].rob = w[k].rob

\* What is marked as retired is, and is marked a cycle after it has retired.
MarkedInv(g) ==
    /\ \A k \in DOMAIN win : win[k].rob \notin retired
    /\ \A i \in DOMAIN mq :
          /\ mq[i].op.store /\ grad[mq[i].rob] = 2 => i <= g
          /\ i <= g => grad[mq[i].rob] = 2 \/ mq[i].rob \in retired

\* A load r that is older than what is queued; port 1 has such a one, or a store
\* with its data.
First(w, q, r) ==
    \E k \in DOMAIN w :
       /\ w[k].rob = r.rob /\ w[k].op = r.op /\ w[k].st = "sent"
       /\ \A i \in DOMAIN q, l \in DOMAIN w : Had(w[l], q[i]) => k < l
Port1Inv(g) ==
    /\ Store1 => p1.val = Op1.val
    /\ Pending1 /\ ~Op1.store => g = 0 /\ First(win, Pipe, p1.req)

\* A load in port 2 that is to be answered from what it read a cycle ago.
Port2Inv ==
    On2 /\ ~p2.req.op.store /\ Hit2 /\ MayBypass =>
       LET op == p2.req.op IN
       /\ arr[op.set].valid /\ arr[op.set].tag = op.tag
       /\ \A w \in op.words :
             /\ Data2[w] = arr[op.set].data[w]
             /\ ~(p1.on /\ Op1.set = op.set /\ Op1.tag = op.tag /\ Op1.store /\ w \in Op1.words)
             /\ Writers(mq, DOMAIN mq, op.set, op.tag, w) = {}

OrderInv(g) ==
    /\ g \in 0 .. Len(mq)
    /\ QueueOrder(win, Pipe, g) /\ WindowOrder(win) /\ DataOrder(win, mq, mdq, g)
    /\ ~drain => StoresHeld(win, Pipe)
    /\ MarkedInv(g) /\ Port1Inv(g)
    /\ committed = IF state \in Starting THEN mem ELSE After(Written, mq, 1 .. g)

RecoveryInv ==
    /\ dsDone <=> core \in {"DRAIN", "RAT"}
    /\ drain => dsDone \/ win = <<>>
    /\ drain \/ dsDone => retired = {}

DInv == /\ CacheData /\ CoreData /\ MemInv /\ WalkInv /\ Port2Inv /\ RecoveryInv
        /\ \E g \in 0 .. Len(mq) : OrderInv(g)
-----------------------------------------------------------------------------
(***************************************************************************)
(* What a sequence of operations leaves of the lines.                      *)
(***************************************************************************)
\* Places of a sequence.
Places == {I \in SUBSET Nat : \E n \in Nat : I \subseteq 1 .. n}

(* A set of places that is not empty has a last one, and Max finds it. *)
LEMMA LastPlace ==
    ASSUME NEW S \in Places, S # {}
    PROVE  Max(S) \in S /\ \A j \in S : j <= Max(S)
<1> PICK n \in Nat : S \in SUBSET (1 .. n)
  BY DEF Places
<1> DEFINE After1(i) == i .. n
           T == {After1(i) : i \in S}
<1>1. T \subseteq FiniteSubsetsOf(1 .. n)
  <2> SUFFICES ASSUME NEW i \in S
               PROVE  After1(i) \in FiniteSubsetsOf(1 .. n)
    OBVIOUS
  <2>1. After1(i) \subseteq 1 .. n /\ IsFiniteSet(After1(i))
    BY FS_Interval
  <2> QED BY <2>1 DEF FiniteSubsetsOf
<1>2. T # {}
  OBVIOUS
<1>3. PICK t \in T : \A y \in T : <<y, t>> \notin StrictSubsetOrdering(1 .. n)
  <2> HIDE DEF T
  <2> QED BY <1>1, <1>2, FS_StrictSubsetOrderingWellFounded, WFMin
<1>4. PICK i \in S : t = After1(i)
  OBVIOUS
<1>5. ASSUME NEW j \in S, j > i
      PROVE  FALSE
  <2>1. After1(j) \subseteq After1(i) /\ i \in After1(i) /\ i \notin After1(j)
    BY <1>5
  <2>2. After1(j) \in SUBSET (1 .. n) /\ After1(i) \in SUBSET (1 .. n)
    OBVIOUS
  <2>3. <<After1(j), After1(i)>> \in StrictSubsetOrdering(1 .. n)
    BY <2>1, <2>2 DEF StrictSubsetOrdering
  <2> QED BY <1>3, <1>4, <2>3
<1>6. \A j \in S : i >= j
  BY <1>5
<1>7. /\ (CHOOSE x \in S : \A y \in S : x >= y) \in S
      /\ \A y \in S : (CHOOSE x \in S : \A z \in S : x >= z) >= y
  BY <1>6
<1> QED BY <1>7 DEF Max

(* A word that none of the operations writes keeps its value, any other has
   that of the last of them that writes it. *)
LEMMA WordAfter ==
    ASSUME NEW lines, NEW q, NEW I \in Places,
           NEW s \in Sets, NEW t \in Tags, NEW w \in Words,
           NEW ws, ws = Writers(q, I, s, t, w)
    PROVE  \/ ws = {} /\ After(lines, q, I)[s][t][w] = lines[s][t][w]
           \/ \E i \in ws : /\ \A j \in ws : j <= i
                            /\ After(lines, q, I)[s][t][w] = q[i].op.val
<1>1. After(lines, q, I)[s][t][w] = IF ws = {} THEN lines[s][t][w] ELSE q[Max(ws)].op.val
  BY DEF After
<1>2. ws \in Places
  <2>1. ws \subseteq I
    BY DEF Writers
  <2> QED BY <2>1 DEF Places
<1>3. ws # {} => Max(ws) \in ws /\ \A j \in ws : j <= Max(ws)
  BY <1>2, LastPlace
<1> QED BY <1>1, <1>3

(* Two sets of lines are the same if they hold the same words. *)
LEMMA SameLines ==
    ASSUME NEW a \in Mems, NEW b \in Mems,
           \A s \in Sets, t \in Tags, w \in Words : a[s][t][w] = b[s][t][w]
    PROVE  a = b
<1>1. ASSUME NEW s \in Sets PROVE a[s] = b[s]
  <2>1. a[s] \in [Tags -> Lines] /\ b[s] \in [Tags -> Lines]
    BY DEF Mems
  <2>2. ASSUME NEW t \in Tags PROVE a[s][t] = b[s][t]
    <3>1. a[s][t] \in Lines /\ b[s][t] \in Lines
      BY <2>1
    <3> QED BY <3>1 DEF Lines
  <2> QED BY <2>1, <2>2
<1> QED BY <1>1 DEF Mems

(* The fields of an operation. *)
LEMMA OpFields ==
    ASSUME NEW op \in Ops
    PROVE  /\ op.store \in BOOLEAN /\ op.set \in Sets /\ op.tag \in Tags
           /\ op.words \in SUBSET Words /\ op.val \in Vals /\ op.nop \in BOOLEAN
           /\ op.word \in Words /\ op.unaligned \in BOOLEAN /\ op.lw \in BOOLEAN
<1>1. op \in OpRecs
  BY L1DAssumption
<1> QED BY <1>1 DEF OpRecs

(* Intervals that begin at one, one place and no place are sets of places. *)
LEMMA PlacesAre ==
    /\ \A I \in Places : I \subseteq Nat
    /\ \A I \in Places, J \in Places : I \cup J \in Places
    /\ \A n \in Int, m \in Nat : m >= 1 => m .. n \in Places
    /\ \A n \in Nat : n >= 1 => {n} \in Places
    /\ {} \in Places
<1>1. ASSUME NEW I \in Places, NEW J \in Places PROVE I \cup J \in Places
  <2>1. PICK n \in Nat : I \subseteq 1 .. n
    BY DEF Places
  <2>2. PICK m \in Nat : J \subseteq 1 .. m
    BY DEF Places
  <2>3. n + m \in Nat /\ I \cup J \subseteq 1 .. (n + m)
    BY <2>1, <2>2
  <2>4. I \cup J \in SUBSET Nat
    BY <1>1 DEF Places
  <2> QED BY <2>3, <2>4 DEF Places
<1>2. ASSUME NEW n \in Int, NEW m \in Nat, m >= 1 PROVE m .. n \in Places
  <2>1. m .. n \subseteq 1 .. (IF n > 0 THEN n ELSE 0) /\ m .. n \subseteq Nat
    BY <1>2
  <2>2. (IF n > 0 THEN n ELSE 0) \in Nat
    OBVIOUS
  <2> QED BY <2>1, <2>2 DEF Places
<1>3. ASSUME NEW n \in Nat, n >= 1 PROVE {n} \in Places
  <2>1. {n} \subseteq 1 .. n
    BY <1>3
  <2> QED BY <2>1 DEF Places
<1>4. {} \in Places
  <2>1. {} \subseteq 1 .. 0
    OBVIOUS
  <2> QED BY <2>1 DEF Places
<1>5. \A I \in Places : I \subseteq Nat
  BY DEF Places
<1> QED BY <1>1, <1>2, <1>3, <1>4, <1>5

(* What operations leave of the lines are lines. *)
LEMMA AfterMems ==
    ASSUME NEW lines \in Mems, NEW q, NEW I \in Places,
           \A i \in I : q[i].op \in Ops
    PROVE  After(lines, q, I) \in Mems
<1>1. ASSUME NEW s \in Sets, NEW t \in Tags, NEW w \in Words
      PROVE  After(lines, q, I)[s][t][w] \in Vals
  <2> PICK ws : ws = Writers(q, I, s, t, w)
    OBVIOUS
  <2>1. lines[s][t][w] \in Vals
    <3>1. lines[s] \in [Tags -> Lines]
      BY DEF Mems
    <3>2. lines[s][t] \in [Words -> Vals]
      BY <3>1 DEF Lines
    <3> QED BY <3>2
  <2>2. \A i \in ws : q[i].op.val \in Vals
    BY OpFields DEF Writers
  <2> QED BY <2>1, <2>2, WordAfter
<1> DEFINE val(s, t, w) == LET ws == Writers(q, I, s, t, w)
                           IN  IF ws = {} THEN lines[s][t][w] ELSE q[Max(ws)].op.val
<1>2. After(lines, q, I) = [s \in Sets |-> [t \in Tags |-> [w \in Words |-> val(s, t, w)]]]
  BY DEF After
<1>3. \A s \in Sets, t \in Tags, w \in Words : val(s, t, w) \in Vals
  BY <1>1, <1>2
<1> QED BY <1>2, <1>3 DEF Mems, Lines

(* Loads leave the lines as they are. *)
LEMMA AfterLoads ==
    ASSUME NEW lines \in Mems, NEW q, NEW I \in Places,
           \A i \in I : q[i].op \in Ops /\ ~q[i].op.store
    PROVE  After(lines, q, I) = lines
<1>1. After(lines, q, I) \in Mems
  BY AfterMems
<1>2. ASSUME NEW s \in Sets, NEW t \in Tags, NEW w \in Words
      PROVE  After(lines, q, I)[s][t][w] = lines[s][t][w]
  <2>1. Writers(q, I, s, t, w) = {}
    BY DEF Writers
  <2> QED BY <2>1, WordAfter
<1> QED BY <1>1, <1>2, SameLines

(* The same operations at other places do the same. *)
LEMMA AfterShifted ==
    ASSUME NEW lines \in Mems, NEW q, NEW I \in Places,
           NEW p, NEW J \in Places, NEW h \in Int,
           \A i \in I : i + h \in J /\ q[i].op \in Ops /\ q[i].op = p[i + h].op,
           \A j \in J : j - h \in I
    PROVE  After(lines, q, I) = After(lines, p, J)
<1>0. I \subseteq Nat /\ J \subseteq Nat
  BY PlacesAre
<1>1. \A j \in J : p[j].op \in Ops
  <2> SUFFICES ASSUME NEW j \in J PROVE p[j].op \in Ops
    OBVIOUS
  <2>1. PICK i \in I : i = j - h
    OBVIOUS
  <2>2. i + h = j
    BY <1>0, <2>1
  <2> QED BY <2>2
<1>2. After(lines, q, I) \in Mems /\ After(lines, p, J) \in Mems
  BY <1>1, AfterMems
<1>3. ASSUME NEW s \in Sets, NEW t \in Tags, NEW w \in Words
      PROVE  After(lines, q, I)[s][t][w] = After(lines, p, J)[s][t][w]
  <2> PICK ws, vs : ws = Writers(q, I, s, t, w) /\ vs = Writers(p, J, s, t, w)
    OBVIOUS
  <2>1. ws \subseteq I /\ vs \subseteq J
    BY DEF Writers
  <2>2. \A i \in ws : i + h \in vs /\ q[i].op.val = p[i + h].op.val
    BY DEF Writers
  <2>3. ASSUME NEW j \in vs PROVE j - h \in ws
    <3>1. PICK i \in I : i = j - h
      BY <2>1
    <3>2. i + h = j
      BY <1>0, <2>1, <3>1
    <3>3. q[i].op = p[j].op
      BY <3>1, <3>2
    <3> QED BY <3>1, <3>3 DEF Writers
  <2>4. CASE ws = {}
    <3>1. vs = {}
      BY <2>3, <2>4
    <3>2. (\A i \in ws : FALSE) /\ (\A i \in vs : FALSE)
      BY <2>4, <3>1
    <3>3. After(lines, q, I)[s][t][w] = lines[s][t][w]
      BY <3>2, WordAfter
    <3>4. After(lines, p, J)[s][t][w] = lines[s][t][w]
      BY <3>2, WordAfter
    <3> QED BY <3>3, <3>4
  <2>5. CASE ws # {}
    <3>1. PICK i \in ws : (\A j \in ws : j <= i) /\ After(lines, q, I)[s][t][w] = q[i].op.val
      BY <2>5, WordAfter
    <3>2. vs # {}
      BY <2>2, <3>1
    <3>3. PICK k \in vs : (\A j \in vs : j <= k) /\ After(lines, p, J)[s][t][w] = p[k].op.val
      BY <3>2, WordAfter
    <3>4. i + h <= k /\ k - h <= i
      BY <2>2, <2>3, <3>1, <3>3
    <3>5. i + h = k
      BY <1>0, <2>1, <3>4
    <3> QED BY <2>2, <3>1, <3>3, <3>5
  <2> QED BY <2>4, <2>5
<1> QED BY <1>2, <1>3, SameLines

(* Some operations, and then some that come after them. *)
LEMMA AfterMore ==
    ASSUME NEW lines \in Mems, NEW q, NEW I \in Places,
           NEW J \in Places, \A i \in I \cup J : q[i].op \in Ops,
           \A i \in I, j \in J : i < j
    PROVE  After(After(lines, q, I), q, J) = After(lines, q, I \cup J)
<1> PICK one, both : one = After(lines, q, I) /\ both = I \cup J
  OBVIOUS
<1>0. both \in Places /\ I \subseteq Nat /\ J \subseteq Nat
  BY PlacesAre
<1>1. one \in Mems /\ After(one, q, J) \in Mems /\ After(lines, q, both) \in Mems
  <2>1. one \in Mems
    BY AfterMems
  <2> QED BY <1>0, <2>1, AfterMems
<1>2. ASSUME NEW s \in Sets, NEW t \in Tags, NEW w \in Words
      PROVE  After(one, q, J)[s][t][w] = After(lines, q, both)[s][t][w]
  <2> PICK ws, vs, us : /\ ws = Writers(q, I, s, t, w) /\ vs = Writers(q, J, s, t, w)
                        /\ us = Writers(q, both, s, t, w)
    OBVIOUS
  <2>1. us = ws \cup vs /\ ws \subseteq I /\ vs \subseteq J
    BY DEF Writers
  <2>2. \/ us = {} /\ After(lines, q, both)[s][t][w] = lines[s][t][w]
        \/ \E i \in us : /\ \A j \in us : j <= i
                         /\ After(lines, q, both)[s][t][w] = q[i].op.val
    <3>1. us = Writers(q, both, s, t, w)
      OBVIOUS
    <3> QED BY ONLY <1>0, <3>1, WordAfter, s \in Sets, t \in Tags, w \in Words
  <2>3. CASE vs = {}
    <3>1. us = ws
      BY <2>1, <2>3
    <3>2. After(one, q, J)[s][t][w] = one[s][t][w]
      <4>1. \A i \in vs : FALSE
        BY <2>3
      <4> QED BY <4>1, WordAfter
    <3>3. \/ ws = {} /\ one[s][t][w] = lines[s][t][w]
          \/ \E i \in ws : (\A j \in ws : j <= i) /\ one[s][t][w] = q[i].op.val
      BY WordAfter
    <3>4. \A i \in us, j \in us : i <= j /\ j <= i => i = j
      BY <1>0, <2>1
    <3> QED BY <2>2, <3>1, <3>2, <3>3, <3>4
  <2>4. CASE vs # {}
    <3>1. PICK k \in vs : (\A j \in vs : j <= k) /\ After(one, q, J)[s][t][w] = q[k].op.val
      BY <2>4, WordAfter
    <3>2. PICK i \in us : /\ \A j \in us : j <= i
                          /\ After(lines, q, both)[s][t][w] = q[i].op.val
      BY <2>1, <2>2, <2>4
    <3>3. k <= i /\ k \in J
      BY <2>1, <3>1, <3>2
    <3>4. i \in vs
      <4>1. i \notin I
        BY <1>0, <3>3
      <4> QED BY <2>1, <4>1
    <3>5. i = k
      BY <1>0, <2>1, <3>1, <3>3, <3>4
    <3> QED BY <3>1, <3>2, <3>5
  <2> QED BY <2>3, <2>4
<1> QED BY <1>1, <1>2, SameLines

-----------------------------------------------------------------------------
(***************************************************************************)
(* The order of the window and of the queues in a cycle: w, q and d become *)
(* u, p and e; h requests leave at the head and m of the others remain.    *)
(***************************************************************************)
Taken1(w, u, K) ==
    /\ w \in Seq(Entries) /\ u \in Seq(Entries) /\ Len(u) = Len(w) /\ K \subseteq DOMAIN w
    /\ \A l \in DOMAIN w :
          /\ u[l].rob = w[l].rob /\ u[l].op = w[l].op
          /\ u[l].st \in {"sent", "done"} <=> w[l].st \in {"sent", "done"} \/ l \in K
    /\ \A k \in K : w[k].st = "queued" /\ \A j \in 1 .. k - 1 : w[j].st # "queued"
Moved(q, p, h, m, w, K) ==
    /\ q \in Seq(Reqs) /\ p \in Seq(Reqs) /\ m \in Nat /\ h + m <= Len(q) /\ m <= Len(p)
    /\ \A i \in 1 .. m : p[i] = q[i + h]
    /\ \A i \in m + 1 .. Len(p) : \E k \in K :
          i = m + 1 /\ p[i] = [op |-> w[k].op, rob |-> w[k].rob]
    /\ \A k \in K : m + 1 \in DOMAIN p /\ p[m + 1] = [op |-> w[k].op, rob |-> w[k].rob]

(* A request that remains was had before, by the same operation. *)
LEMMA HadBefore ==
    ASSUME NEW w, NEW u, NEW K, Taken1(w, u, K),
           NEW q, NEW p, NEW h \in {0, 1}, NEW m, Moved(q, p, h, m, w, K),
           \A k \in K, i \in 1 .. m : q[i + h].rob # w[k].rob,
           NEW l \in DOMAIN w, NEW i \in 1 .. m, Had(u[l], p[i])
    PROVE  Had(w[l], q[i + h])
<1>1. /\ u[l].rob = w[l].rob
      /\ u[l].st \in {"sent", "done"} <=> w[l].st \in {"sent", "done"} \/ l \in K
  BY DEF Taken1
<1>2. p[i] = q[i + h] /\ u[l].rob = p[i].rob /\ u[l].st \in {"sent", "done"}
  BY DEF Had, Moved
<1>3. l \notin K
  BY <1>1, <1>2
<1> QED BY <1>1, <1>2, <1>3 DEF Had

(* The requests stay in their order; those that remain have not been answered, and the
   one that comes is none of them. *)
Remain(w, u, K, q, h, m) ==
    /\ \A k \in K, i \in 1 .. m : q[i + h].rob # w[k].rob
    /\ \A k \in K : u[k].st = "sent"
    /\ \A l \in DOMAIN w, i \in 1 .. m :
          w[l].rob = q[i + h].rob /\ ~q[i + h].op.store /\ w[l].st = "sent"
             => u[l].st = "sent"
RetiredLeft(g, g1, h, m) == g1 = (IF g = 0 THEN 0 ELSE g - h) /\ g <= h + m

(* Requests leave at the head of the queue and the one that is taken comes last: the
   queue stays in the order of the window (n_mq_head_ptr, t_push_miss). *)
LEMMA QueueAdvances ==
    ASSUME NEW w, NEW u, NEW K, Taken1(w, u, K), NoTwo(w), WindowOrder(w),
           NEW q, NEW p, NEW h \in {0, 1}, NEW m, Moved(q, p, h, m, w, K),
           NEW g \in Nat, NEW g1 \in Nat, RetiredLeft(g, g1, h, m),
           QueueOrder(w, q, g), Remain(w, u, K, q, h, m)
    PROVE  QueueOrder(u, p, g1)
<1>0. /\ g1 = (IF g = 0 THEN 0 ELSE g - h) /\ g <= h + m
      /\ \A k \in K, i \in 1 .. m : q[i + h].rob # w[k].rob
      /\ \A k \in K : u[k].st = "sent"
      /\ \A l \in DOMAIN w, i \in 1 .. m :
            w[l].rob = q[i + h].rob /\ ~q[i + h].op.store /\ w[l].st = "sent"
               => u[l].st = "sent"
  BY DEF Remain, RetiredLeft
<1>1. /\ Len(w) \in Nat /\ DOMAIN w = 1 .. Len(w) /\ DOMAIN u = DOMAIN w
      /\ Len(q) \in Nat /\ Len(p) \in Nat /\ m \in Nat
      /\ K \subseteq DOMAIN w
  BY DEF Taken1, Moved
<1>2. \A l \in DOMAIN w :
          /\ u[l].rob = w[l].rob /\ u[l].op = w[l].op
          /\ u[l].st \in {"sent", "done"} <=> w[l].st \in {"sent", "done"} \/ l \in K
  BY DEF Taken1
<1>3. \A k \in K : w[k].st = "queued" /\ \A j \in 1 .. k - 1 : w[j].st # "queued"
  BY DEF Taken1
<1>4. /\ h + m <= Len(q)
      /\ \A i \in 1 .. m : p[i] = q[i + h]
      /\ \A i \in m + 1 .. Len(p) : \E k \in K :
             i = m + 1 /\ p[i] = [op |-> w[k].op, rob |-> w[k].rob]
  BY DEF Moved
<1>5. \A l \in DOMAIN w, i \in 1 .. m : Had(u[l], p[i]) => Had(w[l], q[i + h])
  BY <1>0, HadBefore
<1>6. ASSUME NEW i \in 1 .. g1
      PROVE  p[i].op.store /\ ~\E k \in DOMAIN u : Had(u[k], p[i])
  <2>1. i \in 1 .. m /\ i + h \in 1 .. g
    BY <1>0, <1>1
  <2>2. q[i + h].op.store /\ ~\E k \in DOMAIN w : Had(w[k], q[i + h])
    BY <2>1 DEF QueueOrder
  <2> QED BY <1>1, <1>4, <1>5, <2>1, <2>2
<1>7. ASSUME NEW i \in g1 + 1 .. Len(p), i <= m
      PROVE  i \in 1 .. m /\ i + h \in g + 1 .. Len(q) /\ p[i] = q[i + h]
  BY <1>0, <1>1, <1>4, <1>7
<1>8. ASSUME NEW i \in g1 + 1 .. Len(p), i > m
      PROVE  \E k \in K : i = m + 1 /\ p[i] = [op |-> w[k].op, rob |-> w[k].rob]
  BY <1>0, <1>1, <1>4, <1>8
<1>9. ASSUME NEW i \in g1 + 1 .. Len(p)
      PROVE  \E k \in DOMAIN u : /\ Had(u[k], p[i]) /\ u[k].op = p[i].op
                                 /\ ~p[i].op.store => u[k].st = "sent"
  <2>1. CASE i <= m
    <3>1. PICK j \in g + 1 .. Len(q) : j = i + h /\ p[i] = q[j] /\ i \in 1 .. m
      BY <1>7, <2>1
    <3>2. PICK k \in DOMAIN w : /\ Had(w[k], q[j]) /\ w[k].op = q[j].op
                                /\ ~q[j].op.store => w[k].st = "sent"
      BY <3>1 DEF QueueOrder
    <3>3. Had(u[k], p[i])
      BY <1>2, <3>1, <3>2 DEF Had
    <3>4. ~p[i].op.store => u[k].st = "sent"
      BY <1>0, <3>1, <3>2 DEF Had
    <3> QED BY <1>1, <1>2, <3>1, <3>2, <3>3, <3>4
  <2>2. CASE i > m
    <3>1. PICK k \in K : p[i] = [op |-> w[k].op, rob |-> w[k].rob]
      BY <1>8, <2>2
    <3>2. p[i].op = w[k].op /\ p[i].rob = w[k].rob
      BY <3>1
    <3> QED BY <1>0, <1>1, <1>2, <3>2 DEF Had
  <2> QED BY <1>0, <1>1, <2>1, <2>2
<1>10. ASSUME NEW i \in g1 + 1 .. Len(p), NEW j \in g1 + 1 .. Len(p),
              NEW k \in DOMAIN u, NEW l \in DOMAIN u,
              i < j, Had(u[k], p[i]), Had(u[l], p[j])
       PROVE  k < l
  <2>1. i <= m
    <3>1. CASE i > m
      <4>1. i = m + 1
        BY <1>8, <3>1
      <4>2. j > m
        BY <1>1, <1>10, <3>1
      <4>3. j = m + 1
        BY <1>8, <4>2
      <4> QED BY <1>10, <4>1, <4>3
    <3> QED BY <1>0, <1>1, <3>1
  <2>2. Had(w[k], q[i + h]) /\ i + h \in g + 1 .. Len(q)
    BY <1>0, <1>1, <1>5, <1>7, <1>10, <2>1
  <2>3. CASE j <= m
    <3>1. j \in 1 .. m /\ j + h \in g + 1 .. Len(q)
      BY <1>7, <2>3
    <3>2. i + h < j + h
      BY <1>1, <1>10
    <3>3. Had(w[l], q[j + h])
      BY <1>1, <1>5, <1>10, <3>1
    <3> QED BY <1>1, <2>2, <3>1, <3>2, <3>3 DEF QueueOrder
  <2>4. CASE j > m
    <3>1. PICK x \in K : p[j] = [op |-> w[x].op, rob |-> w[x].rob]
      BY <1>8, <2>4
    <3>2. w[l].rob = w[x].rob
      BY <1>1, <1>2, <1>10, <3>1 DEF Had
    <3>3. l = x
      BY <1>1, <3>2 DEF NoTwo
    <3>4. w[l].st = "queued" /\ w[k].st \in {"sent", "done"}
      BY <1>3, <2>2, <3>3 DEF Had
    <3>5. ~(l < k)
      BY <1>1, <3>4 DEF WindowOrder
    <3> QED BY <1>1, <3>4, <3>5
  <2> QED BY <1>0, <1>1, <2>3, <2>4
<1> QED BY <1>6, <1>9, <1>10 DEF QueueOrder

(* The operations stay in the order of their stages. *)
LEMMA WindowAdvances ==
    ASSUME NEW w, NEW u, NEW K, Taken1(w, u, K), WindowOrder(w),
           NEW N \in SUBSET (DOMAIN w), NEW D \in SUBSET (DOMAIN w),
           \A l \in DOMAIN w :
              /\ u[l].st = "queued" => w[l].st = "queued" \/ l \in N
              /\ u[l].st = "new" => w[l].st = "new" /\ l \notin N
              /\ u[l].data <=> w[l].data \/ l \in D
              /\ w[l].st \in {"new", "queued", "sent", "done"},
           \A l \in N : w[l].st = "new" /\ \A j \in 1 .. l - 1 : w[j].st # "new",
           \A l \in D : \A j \in DOMAIN w : w[j].op.store /\ ~w[j].data => l <= j
    PROVE  WindowOrder(u)
<1>1. /\ Len(w) \in Nat /\ DOMAIN w = 1 .. Len(w) /\ DOMAIN u = DOMAIN w
      /\ K \subseteq DOMAIN w
  BY DEF Taken1
<1>2. \A l \in DOMAIN w :
          /\ u[l].rob = w[l].rob /\ u[l].op = w[l].op
          /\ u[l].st \in {"sent", "done"} <=> w[l].st \in {"sent", "done"} \/ l \in K
  BY DEF Taken1
<1>3. \A k \in K : w[k].st = "queued" /\ \A j \in 1 .. k - 1 : w[j].st # "queued"
  BY DEF Taken1
<1> SUFFICES ASSUME NEW k \in DOMAIN w, NEW l \in DOMAIN w, k < l
             PROVE  /\ u[l].st \in {"sent", "done"} => u[k].st \in {"sent", "done"}
                    /\ u[l].st = "queued" => u[k].st # "new"
                    /\ u[k].op.store /\ u[l].op.store /\ u[l].data => u[k].data
  BY <1>1 DEF WindowOrder
<1>4. /\ w[l].st \in {"sent", "done"} => w[k].st \in {"sent", "done"}
      /\ w[l].st = "queued" => w[k].st # "new"
      /\ w[k].op.store /\ w[l].op.store /\ w[l].data => w[k].data
  BY DEF WindowOrder
<1>5. k \in 1 .. l - 1
  BY <1>1
<1>6. u[l].st \in {"sent", "done"} => u[k].st \in {"sent", "done"}
  <2>1. CASE l \in K
    <3>1. w[l].st = "queued" /\ w[k].st # "queued"
      BY <1>3, <1>5, <2>1
    <3> QED BY <1>2, <1>4, <3>1
  <2>2. CASE l \notin K
    BY <1>2, <1>4, <2>2
  <2> QED BY <2>1, <2>2
<1>7. u[l].st = "queued" => u[k].st # "new"
  <2>1. CASE l \in N
    BY <1>5, <2>1
  <2>2. CASE l \notin N
    BY <1>4, <2>2
  <2> QED BY <2>1, <2>2
<1>8. u[k].op.store /\ u[l].op.store /\ u[l].data => u[k].data
  <2>1. CASE l \in D
    <3>1. w[k].op.store /\ ~w[k].data => l <= k
      BY <2>1
    <3> QED BY <1>1, <1>2, <3>1
  <2>2. CASE l \notin D
    BY <1>2, <1>4, <2>2
  <2> QED BY <2>1, <2>2
<1> QED BY <1>6, <1>7, <1>8

(* The store data stay in order. *)
DataMoved(d, e, h, w, D) ==
    /\ d \in Seq([rob : Slots, val : Vals]) /\ e \in Seq([rob : Slots, val : Vals])
    /\ h \in {0, 1} /\ h <= Len(d) /\ Len(e) >= Len(d) - h
    /\ \A i \in 1 .. Len(d) - h : e[i] = d[i + h]
    /\ \A i \in Len(d) - h + 1 .. Len(e) : \E k \in D :
          i = Len(d) - h + 1 /\ e[i] = [rob |-> w[k].rob, val |-> w[k].op.val]
    /\ \A k \in D : Len(d) - h + 1 \in DOMAIN e
\* The stores D, at most one, whose data are read: the oldest that waits for them.
DataTaken(w, u, D) ==
    /\ D \subseteq DOMAIN w
    /\ \A l \in DOMAIN w : u[l].data <=> w[l].data \/ l \in D
    /\ \A l \in D : /\ w[l].op.store /\ ~w[l].data
                    /\ \A j \in DOMAIN w : w[j].op.store /\ ~w[j].data => l <= j
    /\ \A k \in D, l \in D : k = l
RetiredMoved(q, p, h, g) == h <= g /\ \A i \in 1 .. g - h : p[i] = q[i + h]

(* Store data leave at the head of their queue, and those that are read come last: they
   stay in the order of the stores (r_mdq). *)
LEMMA DataAdvances ==
    ASSUME NEW w, NEW u, NEW K, Taken1(w, u, K), NoTwo(w), WindowOrder(w),
           NEW D, DataTaken(w, u, D), NEW d, NEW e, NEW h, DataMoved(d, e, h, w, D),
           NEW g \in Nat, NEW g1, g1 = g - h, NEW q, NEW p, RetiredMoved(q, p, h, g),
           DataOrder(w, q, d, g)
    PROVE  DataOrder(u, p, e, g1)
<1> SUFFICES ASSUME D \in SUBSET (DOMAIN w),
                    \A l \in DOMAIN w : u[l].data <=> w[l].data \/ l \in D,
                    \A l \in D : /\ w[l].op.store /\ ~w[l].data
                                 /\ \A j \in DOMAIN w : w[j].op.store /\ ~w[j].data => l <= j,
                    \A k \in D, l \in D : k = l,
                    h <= g, \A i \in 1 .. g - h : p[i] = q[i + h]
             PROVE  DataOrder(u, p, e, g - h)
  BY DEF DataTaken, RetiredMoved
<1>1. /\ Len(w) \in Nat /\ DOMAIN w = 1 .. Len(w) /\ DOMAIN u = DOMAIN w
      /\ \A l \in DOMAIN w : u[l].rob = w[l].rob /\ u[l].op = w[l].op
  BY DEF Taken1
<1>2. /\ Len(d) \in Nat /\ Len(e) \in Nat /\ h \in {0, 1} /\ h <= Len(d)
      /\ Len(e) >= Len(d) - h
      /\ DOMAIN e = 1 .. Len(e)
  BY DEF DataMoved
<1> PICK m \in Nat : m = Len(d) - h
  BY <1>2
<1>3. /\ \A i \in 1 .. m : e[i] = d[i + h]
      /\ \A i \in m + 1 .. Len(e) : \E k \in D :
            i = m + 1 /\ e[i] = [rob |-> w[k].rob, val |-> w[k].op.val]
      /\ \A k \in D : m + 1 \in DOMAIN e
  BY ONLY DataMoved(d, e, h, w, D), m = Len(d) - h DEF DataMoved
<1>4. g <= Len(d) /\ g - h <= m /\ g - h >= 0 /\ m <= Len(e)
  BY <1>2 DEF DataOrder
<1>5. ASSUME NEW i \in 1 .. g - h
      PROVE  e[i] = [rob |-> p[i].rob, val |-> p[i].op.val]
  <2>1. i + h \in 1 .. g /\ i \in 1 .. m
    BY <1>2, <1>4
  <2>2. d[i + h] = [rob |-> q[i + h].rob, val |-> q[i + h].op.val]
    BY <2>1 DEF DataOrder
  <2> QED BY <1>3, <2>1, <2>2
<1>6. ASSUME NEW i \in g - h + 1 .. Len(e), i <= m
      PROVE  i \in 1 .. m /\ i + h \in g + 1 .. Len(d) /\ e[i] = d[i + h]
  <2>1. i \in 1 .. m /\ i + h \in g + 1 .. Len(d)
    BY <1>2, <1>4, <1>6
  <2> QED BY <1>3, <2>1
<1>7. ASSUME NEW i \in g - h + 1 .. Len(e), i > m
      PROVE  \E k \in D : i = m + 1 /\ e[i] = [rob |-> w[k].rob, val |-> w[k].op.val]
  <2>1. i \in m + 1 .. Len(e)
    BY <1>2, <1>7
  <2> QED BY <1>3, <2>1
<1>8. ASSUME NEW i \in g - h + 1 .. Len(e)
      PROVE  \E k \in DOMAIN u :
                u[k].op.store /\ u[k].data /\ e[i] = [rob |-> u[k].rob, val |-> u[k].op.val]
  <2>1. CASE i <= m
    <3>1. PICK j \in g + 1 .. Len(d) : e[i] = d[j]
      BY <1>6, <2>1
    <3>2. PICK k \in DOMAIN w : w[k].op.store /\ w[k].data
                                /\ d[j] = [rob |-> w[k].rob, val |-> w[k].op.val]
      BY DEF DataOrder
    <3> QED BY <1>1, <3>1, <3>2
  <2>2. CASE i > m
    <3>1. PICK k \in D : e[i] = [rob |-> w[k].rob, val |-> w[k].op.val]
      BY <1>7, <2>2
    <3>2. w[k].op.store /\ u[k].data /\ k \in DOMAIN w
      OBVIOUS
    <3> QED BY <1>1, <3>1, <3>2
  <2> QED BY <1>2, <1>4, <2>1, <2>2
<1>9. ASSUME NEW k \in DOMAIN u, u[k].op.store, u[k].data
      PROVE  \E i \in g - h + 1 .. Len(e) : e[i].rob = u[k].rob
  <2>1. CASE k \in D
    <3>1. m + 1 \in m + 1 .. Len(e) /\ m + 1 \in g - h + 1 .. Len(e)
      BY <1>2, <1>3, <1>4, <2>1
    <3>2. PICK x \in D : e[m + 1] = [rob |-> w[x].rob, val |-> w[x].op.val]
      BY <1>3, <3>1
    <3>3. x = k
      BY <2>1
    <3> QED BY <1>1, <3>1, <3>2, <3>3
  <2>2. CASE k \notin D
    <3>1. w[k].op.store /\ w[k].data
      BY <1>1, <1>9, <2>2
    <3>2. PICK j \in g + 1 .. Len(d) : d[j].rob = w[k].rob
      BY <1>1, <3>1 DEF DataOrder
    <3>3. PICK i \in g - h + 1 .. m : i = j - h
      BY <1>2, <1>4
    <3>4. i \in 1 .. m /\ i + h = j /\ i \in g - h + 1 .. Len(e)
      BY <1>2, <1>4, <3>3
    <3>5. e[i] = d[j]
      BY <1>3, <3>4
    <3> QED BY <1>1, <3>2, <3>4, <3>5
  <2> QED BY <2>1, <2>2
<1>10. ASSUME NEW i \in g - h + 1 .. Len(e), NEW j \in g - h + 1 .. Len(e),
              NEW k \in DOMAIN u, NEW l \in DOMAIN u,
              i < j, e[i].rob = u[k].rob, e[j].rob = u[l].rob
       PROVE  k < l
  <2>1. i <= m
    <3>1. CASE i > m
      <4>1. i = m + 1
        BY <1>7, <3>1
      <4>2. j > m
        BY <1>2, <1>10, <3>1
      <4>3. j = m + 1
        BY <1>7, <4>2
      <4> QED BY <1>10, <4>1, <4>3
    <3> QED BY <1>2, <1>4, <3>1
  <2>2. PICK x \in g + 1 .. Len(d) : x = i + h /\ d[x].rob = w[k].rob
    BY <1>1, <1>6, <1>10, <2>1
  <2>3. CASE j <= m
    <3>1. PICK y \in g + 1 .. Len(d) : y = j + h /\ d[y].rob = w[l].rob
      <4>1. j + h \in g + 1 .. Len(d) /\ e[j] = d[j + h]
        BY <1>6, <2>3
      <4>2. e[j].rob = w[l].rob
        BY <1>1, <1>10
      <4> QED BY <4>1, <4>2
    <3>2. x < y
      BY <1>2, <1>4, <1>10, <2>2, <3>1
    <3>3. \A a \in g + 1 .. Len(d), b \in g + 1 .. Len(d), n \in DOMAIN w, o \in DOMAIN w :
             a < b /\ d[a].rob = w[n].rob /\ d[b].rob = w[o].rob => n < o
      BY DEF DataOrder
    <3>4. k \in DOMAIN w /\ l \in DOMAIN w
      BY <1>1
    <3> QED BY ONLY <2>2, <3>1, <3>2, <3>3, <3>4
  <2>4. CASE j > m
    <3>1. PICK y \in D : e[j] = [rob |-> w[y].rob, val |-> w[y].op.val]
      BY <1>7, <2>4
    <3>2. l = y
      BY <1>1, <1>10, <3>1 DEF NoTwo
    <3>3. PICK z \in DOMAIN w : w[z].op.store /\ w[z].data
                                /\ d[x] = [rob |-> w[z].rob, val |-> w[z].op.val]
      BY DEF DataOrder
    <3>4. z = k
      <4>1. w[z].rob = w[k].rob /\ k \in DOMAIN w
        BY <1>1, <2>2, <3>3
      <4> QED BY <4>1 DEF NoTwo
    <3>5. ~w[l].data /\ w[l].op.store /\ w[k].op.store /\ w[k].data
      BY <3>2, <3>3, <3>4
    <3>6. ~(l < k)
      BY <1>1, <3>5 DEF WindowOrder
    <3> QED BY <1>1, <3>5, <3>6
  <2> QED BY <1>2, <1>4, <2>3, <2>4
<1> QED BY <1>2, <1>4, <1>5, <1>8, <1>9, <1>10 DEF DataOrder

(* No store is dropped but one that has retired. *)
OthersLeave(q, h, m, g) ==
    \A i \in DOMAIN q : i <= h \/ i > h + m => i <= g \/ ~q[i].op.store

(* A store that has been taken is still held when nothing but retired stores and loads
   has left. *)
LEMMA StoresAdvance ==
    ASSUME NEW w, NEW u, NEW K, Taken1(w, u, K), NoTwo(w),
           NEW q, NEW p, NEW h \in {0, 1}, NEW m, Moved(q, p, h, m, w, K),
           NEW g \in Nat, QueueOrder(w, q, g), StoresHeld(w, q), OthersLeave(q, h, m, g)
    PROVE  StoresHeld(u, p)
<1>1. /\ Len(w) \in Nat /\ DOMAIN w = 1 .. Len(w) /\ DOMAIN u = DOMAIN w
      /\ Len(q) \in Nat /\ DOMAIN q = 1 .. Len(q) /\ DOMAIN p = 1 .. Len(p) /\ m \in Nat
      /\ Len(p) \in Nat
  BY DEF Taken1, Moved
<1>2. \A l \in DOMAIN w :
          /\ u[l].rob = w[l].rob /\ u[l].op = w[l].op
          /\ u[l].st \in {"sent", "done"} <=> w[l].st \in {"sent", "done"} \/ l \in K
  BY DEF Taken1
<1>3. /\ h + m <= Len(q) /\ \A i \in 1 .. m : p[i] = q[i + h]
      /\ \A k \in K : m + 1 \in DOMAIN p /\ p[m + 1] = [op |-> w[k].op, rob |-> w[k].rob]
  BY DEF Moved
<1> SUFFICES ASSUME NEW l \in DOMAIN w, u[l].op.store, u[l].st \in {"sent", "done"}
             PROVE  \E i \in DOMAIN p : p[i].rob = u[l].rob
  BY <1>1 DEF StoresHeld
<1>4. CASE l \in K
  <2>1. m + 1 \in DOMAIN p /\ p[m + 1] = [op |-> w[l].op, rob |-> w[l].rob]
    BY <1>3, <1>4
  <2>2. p[m + 1].rob = w[l].rob
    BY <2>1
  <2> QED BY <1>2, <2>1, <2>2
<1>5. CASE l \notin K
  <2>1. w[l].op.store /\ w[l].st \in {"sent", "done"}
    BY <1>2, <1>5
  <2>2. PICK i \in DOMAIN q : q[i].rob = w[l].rob
    BY <2>1 DEF StoresHeld
  <2>3. Had(w[l], q[i])
    BY <2>1, <2>2 DEF Had
  <2>4. i > g
    BY <1>1, <2>3 DEF QueueOrder
  <2>5. PICK k \in DOMAIN w : Had(w[k], q[i]) /\ w[k].op = q[i].op
    BY <1>1, <2>4 DEF QueueOrder
  <2>6. k = l
    BY <2>2, <2>5 DEF Had, NoTwo
  <2>7. q[i].op.store
    BY <2>1, <2>5, <2>6
  <2>8. ~(i <= h) /\ ~(i > h + m)
    BY <1>1, <2>4, <2>7 DEF OthersLeave
  <2>9. PICK j \in 1 .. m : j = i - h
    BY <1>1, <2>8
  <2>10. j + h = i /\ j <= Len(p)
    <3>1. m <= Len(p)
      BY DEF Moved
    <3> QED BY <1>1, <2>9, <3>1
  <2>11. p[j] = q[i] /\ j \in DOMAIN p
    BY <1>1, <1>3, <2>10
  <2> QED BY <1>2, <2>2, <2>11
<1> QED BY <1>4, <1>5

(* What port 1 has remains older than what is queued. *)
OlderThan(w, q, h, m, k) == \A i \in 1 .. m, l \in DOMAIN w : Had(w[l], q[i + h]) => k < l

(* A load that is older than everything queued stays so. *)
LEMMA FirstAdvances ==
    ASSUME NEW w, NEW u, NEW K, Taken1(w, u, K), NoTwo(w), WindowOrder(w),
           NEW q, NEW p, NEW h \in {0, 1}, NEW m, Moved(q, p, h, m, w, K),
           Remain(w, u, K, q, h, m), NEW k \in DOMAIN w, OlderThan(w, q, h, m, k),
           NEW r, w[k].rob = r.rob, w[k].op = r.op, w[k].st = "sent", u[k].st = "sent"
    PROVE  First(u, p, r)
<1>0. \A x \in K, i \in 1 .. m : q[i + h].rob # w[x].rob
  BY DEF Remain
<1>1. /\ Len(w) \in Nat /\ DOMAIN w = 1 .. Len(w) /\ DOMAIN u = DOMAIN w
      /\ DOMAIN p = 1 .. Len(p) /\ Len(p) \in Nat /\ m \in Nat
  BY DEF Taken1, Moved
<1>2. \A l \in DOMAIN w : u[l].rob = w[l].rob /\ u[l].op = w[l].op
  BY DEF Taken1
<1>3. ASSUME NEW i \in DOMAIN p, NEW l \in DOMAIN w, Had(u[l], p[i]) PROVE k < l
  <2>1. CASE i <= m
    <3>1. i \in 1 .. m
      BY <1>1, <2>1
    <3>2. Had(w[l], q[i + h])
      BY <1>0, <1>3, <3>1, HadBefore
    <3> QED BY <3>1, <3>2 DEF OlderThan
  <2>2. CASE i > m
    <3>1. i \in m + 1 .. Len(p)
      BY <1>1, <2>2
    <3>2. PICK x \in K : p[i] = [op |-> w[x].op, rob |-> w[x].rob]
      BY <3>1 DEF Moved
    <3>3. x \in DOMAIN w /\ w[x].st = "queued"
      BY DEF Taken1
    <3>4. l = x
      BY <1>2, <1>3, <3>2, <3>3 DEF Had, NoTwo
    <3>5. l # k /\ ~(l < k)
      BY <3>3, <3>4 DEF WindowOrder
    <3> QED BY <1>1, <3>5
  <2> QED BY <1>1, <2>1, <2>2
<1> QED BY <1>1, <1>2, <1>3 DEF First

-----------------------------------------------------------------------------
(***************************************************************************)
(* The head of the window w retires, which leaves v; an operation is       *)
(* allocated.                                                              *)
(***************************************************************************)
Dropped(w, v) ==
    /\ w \in Seq(Entries) /\ v \in Seq(Entries) /\ Len(w) >= 1 /\ Len(v) = Len(w) - 1
    /\ \A i \in 1 .. Len(w) - 1 : v[i] = w[i + 1]

(* The window without its oldest operation, place by place. *)
LEMMA DroppedIs ==
    ASSUME NEW w, NEW v, Dropped(w, v), NoTwo(w)
    PROVE  /\ Len(w) \in Nat \ {0} /\ DOMAIN w = 1 .. Len(w) /\ DOMAIN v = 1 .. Len(w) - 1
           /\ \A k \in DOMAIN v : k + 1 \in DOMAIN w /\ v[k] = w[k + 1] /\ w[k + 1].rob # w[1].rob
           /\ \A k \in DOMAIN w : k # 1 => k - 1 \in DOMAIN v /\ v[k - 1] = w[k]
           /\ NoTwo(v)
<1>1. /\ Len(w) \in Nat \ {0} /\ DOMAIN w = 1 .. Len(w) /\ DOMAIN v = 1 .. Len(w) - 1
      /\ \A i \in 1 .. Len(w) - 1 : v[i] = w[i + 1]
  BY DEF Dropped
<1>2. ASSUME NEW k \in DOMAIN v
      PROVE  k + 1 \in DOMAIN w /\ v[k] = w[k + 1] /\ w[k + 1].rob # w[1].rob
  <2>1. k + 1 \in DOMAIN w /\ k + 1 # 1 /\ 1 \in DOMAIN w
    BY <1>1
  <2> QED BY <1>1, <2>1 DEF NoTwo
<1>3. ASSUME NEW k \in DOMAIN w, k # 1
      PROVE  k - 1 \in DOMAIN v /\ v[k - 1] = w[k]
  <2>1. k - 1 \in 1 .. Len(w) - 1 /\ (k - 1) + 1 = k
    BY <1>1, <1>3
  <2> QED BY <1>1, <2>1
<1>4. NoTwo(v)
  <2> SUFFICES ASSUME NEW k \in DOMAIN v, NEW l \in DOMAIN v, v[k].rob = v[l].rob
               PROVE  k = l
    BY DEF NoTwo
  <2>1. k + 1 = l + 1
    BY <1>2 DEF NoTwo
  <2> QED BY <1>1, <2>1
<1> QED BY <1>1, <1>2, <1>3, <1>4

(* What holds of the window holds of the rest of it. *)
LEMMA RetireAny ==
    ASSUME NEW w, NEW v, Dropped(w, v), NoTwo(w), WindowOrder(w), NEW q
    PROVE  /\ WindowOrder(v)
           /\ StoresHeld(w, q) => StoresHeld(v, q)
           /\ \A r : First(w, q, r) /\ w[1].st = "done" => First(v, q, r)
<1>1. /\ Len(w) \in Nat \ {0} /\ DOMAIN w = 1 .. Len(w) /\ DOMAIN v = 1 .. Len(w) - 1
      /\ \A k \in DOMAIN v : k + 1 \in DOMAIN w /\ v[k] = w[k + 1]
      /\ \A k \in DOMAIN w : k # 1 => k - 1 \in DOMAIN v /\ v[k - 1] = w[k]
  BY DroppedIs
<1>2. WindowOrder(v)
  <2> SUFFICES ASSUME NEW k \in DOMAIN v, NEW l \in DOMAIN v, k < l
               PROVE  /\ v[l].st \in {"sent", "done"} => v[k].st \in {"sent", "done"}
                      /\ v[l].st = "queued" => v[k].st # "new"
                      /\ v[k].op.store /\ v[l].op.store /\ v[l].data => v[k].data
    BY DEF WindowOrder
  <2>1. PICK x \in DOMAIN w, y \in DOMAIN w : x = k + 1 /\ y = l + 1 /\ v[k] = w[x] /\ v[l] = w[y]
    BY <1>1
  <2>2. x < y
    BY <1>1, <2>1
  <2> QED BY <2>1, <2>2 DEF WindowOrder
<1>3. ASSUME StoresHeld(w, q) PROVE StoresHeld(v, q)
  BY <1>1, <1>3 DEF StoresHeld
<1>4. ASSUME NEW r, First(w, q, r), w[1].st = "done" PROVE First(v, q, r)
  <2>1. PICK k \in DOMAIN w :
           /\ w[k].rob = r.rob /\ w[k].op = r.op /\ w[k].st = "sent"
           /\ \A i \in DOMAIN q, l \in DOMAIN w : Had(w[l], q[i]) => k < l
    BY <1>4 DEF First
  <2>2. k # 1
    BY <1>4, <2>1
  <2>3. PICK x \in DOMAIN v : x = k - 1 /\ v[x] = w[k]
    BY <1>1, <2>2
  <2>4. ASSUME NEW i \in DOMAIN q, NEW l \in DOMAIN v, Had(v[l], q[i]) PROVE x < l
    <3>1. l + 1 \in DOMAIN w /\ Had(w[l + 1], q[i])
      BY <1>1, <2>4
    <3>2. k < l + 1
      BY <2>1, <3>1
    <3> QED BY <1>1, <2>3, <3>2
  <2> QED BY <2>1, <2>3, <2>4 DEF First
<1> QED BY <1>2, <1>3, <1>4

(* A store that retires is the first of those that had not retired, in the queue and
   in that of the data. *)
LEMMA RetireStore ==
    ASSUME NEW w, NEW v, Dropped(w, v), NoTwo(w), w[1].op.store, w[1].st = "done", w[1].data,
           NEW q \in Seq(Reqs), NEW d, Len(d) \in Nat, NEW g \in Nat,
           QueueOrder(w, q, g), DataOrder(w, q, d, g), StoresHeld(w, q)
    PROVE  /\ g + 1 \in DOMAIN q /\ q[g + 1].rob = w[1].rob /\ q[g + 1].op = w[1].op
           /\ QueueOrder(v, q, g + 1) /\ DataOrder(v, q, d, g + 1)
<1>1. /\ Len(w) \in Nat \ {0} /\ DOMAIN w = 1 .. Len(w) /\ DOMAIN v = 1 .. Len(w) - 1
      /\ \A k \in DOMAIN v : k + 1 \in DOMAIN w /\ v[k] = w[k + 1] /\ w[k + 1].rob # w[1].rob
      /\ \A k \in DOMAIN w : k # 1 => k - 1 \in DOMAIN v /\ v[k - 1] = w[k]
      /\ Len(q) \in Nat /\ DOMAIN q = 1 .. Len(q) /\ 1 \in DOMAIN w
  BY DroppedIs
<1>2. PICK x \in DOMAIN q : q[x].rob = w[1].rob
  BY <1>1 DEF StoresHeld
<1>3. Had(w[1], q[x])
  BY <1>2 DEF Had
<1>4. x > g
  BY <1>1, <1>3 DEF QueueOrder
<1>5. x = g + 1
  <2>1. CASE x > g + 1
    <3>1. g + 1 \in g + 1 .. Len(q) /\ x \in g + 1 .. Len(q)
      BY <1>1, <2>1
    <3>2. PICK k \in DOMAIN w : Had(w[k], q[g + 1])
      BY <3>1 DEF QueueOrder
    <3>4. \A l \in DOMAIN w : Had(w[l], q[x]) => k < l
      BY <2>1, <3>1, <3>2 DEF QueueOrder
    <3>3. k < 1
      BY <1>1, <1>3, <3>4
    <3> QED BY <1>1, <3>3
  <2> QED BY <1>1, <1>4, <2>1
<1>6. q[x].op = w[1].op
  <2>1. PICK k \in DOMAIN w : Had(w[k], q[x]) /\ w[k].op = q[x].op
    BY <1>1, <1>4 DEF QueueOrder
  <2>2. k = 1
    BY <1>1, <1>2, <2>1 DEF Had, NoTwo
  <2> QED BY <2>1, <2>2
<1>7. ASSUME NEW i \in 1 .. x
      PROVE  q[i].op.store /\ ~\E k \in DOMAIN v : Had(v[k], q[i])
  <2>1. CASE i = x
    BY <1>1, <1>2, <1>6, <2>1 DEF Had
  <2>2. CASE i # x
    <3>1. i \in 1 .. g
      BY <1>5, <2>2
    <3>2. q[i].op.store /\ ~\E k \in DOMAIN w : Had(w[k], q[i])
      BY <3>1 DEF QueueOrder
    <3> QED BY <1>1, <3>2
  <2> QED BY <2>1, <2>2
<1>8. ASSUME NEW i \in x + 1 .. Len(q)
      PROVE  \E k \in DOMAIN v : Had(v[k], q[i]) /\ v[k].op = q[i].op
                                 /\ (~q[i].op.store => v[k].st = "sent")
  <2>1. i \in g + 1 .. Len(q) /\ x \in g + 1 .. Len(q) /\ x < i
    BY <1>1, <1>5
  <2>2. PICK k \in DOMAIN w : Had(w[k], q[i]) /\ w[k].op = q[i].op
                              /\ (~q[i].op.store => w[k].st = "sent")
    BY <2>1 DEF QueueOrder
  <2>3. 1 < k
    BY <1>1, <1>3, <2>1, <2>2 DEF QueueOrder
  <2>4. k - 1 \in DOMAIN v /\ v[k - 1] = w[k]
    BY <1>1, <2>3
  <2> QED BY <2>2, <2>4
<1>9. QueueOrder(v, q, x)
  <2>1. ASSUME NEW i \in x + 1 .. Len(q), NEW j \in x + 1 .. Len(q),
               NEW k \in DOMAIN v, NEW l \in DOMAIN v, i < j, Had(v[k], q[i]), Had(v[l], q[j])
        PROVE  k < l
    <3>1. i \in g + 1 .. Len(q) /\ j \in g + 1 .. Len(q)
      BY <1>1, <1>5
    <3>2. PICK y \in DOMAIN w, z \in DOMAIN w : y = k + 1 /\ z = l + 1 /\ v[k] = w[y] /\ v[l] = w[z]
      BY <1>1
    <3>3. y < z
      BY <2>1, <3>1, <3>2 DEF QueueOrder
    <3> QED BY <1>1, <3>2, <3>3
  <2> QED BY <1>7, <1>8, <2>1 DEF QueueOrder
<1>10. PICK y \in g + 1 .. Len(d) : d[y].rob = w[1].rob
  BY <1>1 DEF DataOrder
<1>11. y = x
  <2>1. CASE y > g + 1
    <3>1. g + 1 \in g + 1 .. Len(d)
      BY <1>10, <2>1
    <3>2. PICK k \in DOMAIN w : d[g + 1] = [rob |-> w[k].rob, val |-> w[k].op.val]
      BY <3>1 DEF DataOrder
    <3>3. d[g + 1].rob = w[k].rob
      BY <3>2
    <3>4. k < 1
      BY <1>1, <1>10, <2>1, <3>1, <3>3 DEF DataOrder
    <3> QED BY <1>1, <3>4
  <2> QED BY <1>5, <2>1
<1>12. d[x] = [rob |-> q[x].rob, val |-> q[x].op.val]
  <2>1. PICK k \in DOMAIN w : d[x] = [rob |-> w[k].rob, val |-> w[k].op.val]
    BY <1>11 DEF DataOrder
  <2>2. d[x].rob = w[k].rob
    BY <2>1
  <2>3. k = 1
    BY <1>1, <1>10, <1>11, <2>2 DEF NoTwo
  <2> QED BY <1>2, <1>6, <2>1, <2>3
<1>13. DataOrder(v, q, d, x)
  <2>1. x <= Len(d) /\ x \in g + 1 .. Len(d) /\ g <= Len(d)
    BY <1>10, <1>11
  <2>2. ASSUME NEW i \in 1 .. x PROVE d[i] = [rob |-> q[i].rob, val |-> q[i].op.val]
    <3>1. i = x \/ i \in 1 .. g
      BY <1>5
    <3> QED BY <1>12, <3>1 DEF DataOrder
  <2>3. ASSUME NEW i \in x + 1 .. Len(d)
        PROVE  \E k \in DOMAIN v :
                  v[k].op.store /\ v[k].data /\ d[i] = [rob |-> v[k].rob, val |-> v[k].op.val]
    <3>1. i \in g + 1 .. Len(d) /\ x < i
      BY <1>1, <1>5
    <3>2. PICK k \in DOMAIN w : w[k].op.store /\ w[k].data
                                /\ d[i] = [rob |-> w[k].rob, val |-> w[k].op.val]
      BY <3>1 DEF DataOrder
    <3>3. d[i].rob = w[k].rob
      BY <3>2
    <3>4. 1 < k
      BY <1>1, <1>10, <1>11, <2>1, <3>1, <3>3 DEF DataOrder
    <3>5. k - 1 \in DOMAIN v /\ v[k - 1] = w[k]
      BY <1>1, <3>4
    <3> QED BY <3>2, <3>5
  <2>4. ASSUME NEW k \in DOMAIN v, v[k].op.store, v[k].data
        PROVE  \E i \in x + 1 .. Len(d) : d[i].rob = v[k].rob
    <3>1. k + 1 \in DOMAIN w /\ v[k] = w[k + 1] /\ w[k + 1].rob # w[1].rob
      BY <1>1
    <3>2. PICK i \in g + 1 .. Len(d) : d[i].rob = w[k + 1].rob
      BY <2>4, <3>1 DEF DataOrder
    <3>3. i # x
      BY <1>10, <1>11, <3>1, <3>2
    <3>4. i \in x + 1 .. Len(d)
      BY <1>5, <3>3
    <3> QED BY <3>1, <3>2, <3>4
  <2>5. ASSUME NEW i \in x + 1 .. Len(d), NEW j \in x + 1 .. Len(d),
               NEW k \in DOMAIN v, NEW l \in DOMAIN v,
               i < j, d[i].rob = v[k].rob, d[j].rob = v[l].rob
        PROVE  k < l
    <3>1. i \in g + 1 .. Len(d) /\ j \in g + 1 .. Len(d)
      BY <1>1, <1>5
    <3>2. PICK a \in DOMAIN w, b \in DOMAIN w : a = k + 1 /\ b = l + 1 /\ v[k] = w[a] /\ v[l] = w[b]
      BY <1>1
    <3>3. a < b
      BY <2>5, <3>1, <3>2 DEF DataOrder
    <3> QED BY <1>1, <3>2, <3>3
  <2> QED BY <2>1, <2>2, <2>3, <2>4, <2>5 DEF DataOrder
<1> QED BY <1>2, <1>5, <1>6, <1>9, <1>13

(* A load that retires is not in the queue. *)
LEMMA RetireLoad ==
    ASSUME NEW w, NEW v, Dropped(w, v), NoTwo(w), ~w[1].op.store, w[1].st = "done",
           NEW q \in Seq(Reqs), NEW d, Len(d) \in Nat, NEW g \in Nat,
           QueueOrder(w, q, g), DataOrder(w, q, d, g)
    PROVE  QueueOrder(v, q, g) /\ DataOrder(v, q, d, g)
<1>1. /\ Len(w) \in Nat \ {0} /\ DOMAIN w = 1 .. Len(w) /\ DOMAIN v = 1 .. Len(w) - 1
      /\ \A k \in DOMAIN v : k + 1 \in DOMAIN w /\ v[k] = w[k + 1]
      /\ \A k \in DOMAIN w : k # 1 => k - 1 \in DOMAIN v /\ v[k - 1] = w[k]
  BY DroppedIs
<1>2. ASSUME NEW i \in 1 .. g
      PROVE  q[i].op.store /\ ~\E k \in DOMAIN v : Had(v[k], q[i])
  BY <1>1 DEF QueueOrder
<1>3. ASSUME NEW i \in g + 1 .. Len(q)
      PROVE  \E k \in DOMAIN v : Had(v[k], q[i]) /\ v[k].op = q[i].op
                                 /\ (~q[i].op.store => v[k].st = "sent")
  <2>1. PICK k \in DOMAIN w : Had(w[k], q[i]) /\ w[k].op = q[i].op
                              /\ (~q[i].op.store => w[k].st = "sent")
    BY DEF QueueOrder
  <2>2. k # 1
    BY <2>1
  <2>3. k - 1 \in DOMAIN v /\ v[k - 1] = w[k]
    BY <1>1, <2>2
  <2> QED BY <2>1, <2>3
<1>4. ASSUME NEW i \in g + 1 .. Len(q), NEW j \in g + 1 .. Len(q),
             NEW k \in DOMAIN v, NEW l \in DOMAIN v, i < j, Had(v[k], q[i]), Had(v[l], q[j])
      PROVE  k < l
  <2>1. PICK y \in DOMAIN w, z \in DOMAIN w : y = k + 1 /\ z = l + 1 /\ v[k] = w[y] /\ v[l] = w[z]
    BY <1>1
  <2>2. y < z
    BY <1>4, <2>1 DEF QueueOrder
  <2> QED BY <1>1, <2>1, <2>2
<1>5. ASSUME NEW i \in g + 1 .. Len(d)
      PROVE  \E k \in DOMAIN v :
                v[k].op.store /\ v[k].data /\ d[i] = [rob |-> v[k].rob, val |-> v[k].op.val]
  <2>1. PICK k \in DOMAIN w : w[k].op.store /\ w[k].data
                              /\ d[i] = [rob |-> w[k].rob, val |-> w[k].op.val]
    BY DEF DataOrder
  <2>2. k - 1 \in DOMAIN v /\ v[k - 1] = w[k]
    BY <1>1, <2>1
  <2> QED BY <2>1, <2>2
<1>6. ASSUME NEW k \in DOMAIN v, v[k].op.store, v[k].data
      PROVE  \E i \in g + 1 .. Len(d) : d[i].rob = v[k].rob
  BY <1>1, <1>6 DEF DataOrder
<1>7. ASSUME NEW i \in g + 1 .. Len(d), NEW j \in g + 1 .. Len(d),
             NEW k \in DOMAIN v, NEW l \in DOMAIN v,
             i < j, d[i].rob = v[k].rob, d[j].rob = v[l].rob
      PROVE  k < l
  <2>1. PICK y \in DOMAIN w, z \in DOMAIN w : y = k + 1 /\ z = l + 1 /\ v[k] = w[y] /\ v[l] = w[z]
    BY <1>1
  <2>2. y < z
    BY <1>7, <2>1 DEF DataOrder
  <2> QED BY <1>1, <2>1, <2>2
<1>8. QueueOrder(v, q, g)
  BY <1>2, <1>3, <1>4 DEF QueueOrder
<1>9. DataOrder(v, q, d, g)
  <2>1. g <= Len(d) /\ \A i \in 1 .. g : d[i] = [rob |-> q[i].rob, val |-> q[i].op.val]
    BY DEF DataOrder
  <2> QED BY <1>5, <1>6, <1>7, <2>1 DEF DataOrder
<1> QED BY <1>8, <1>9

(* A new operation has not met a queue yet. *)
Added(w, v) ==
    /\ w \in Seq(Entries) /\ v \in Seq(Entries) /\ Len(v) = Len(w) + 1
    /\ \A i \in 1 .. Len(w) : v[i] = w[i]
    /\ v[Len(w) + 1].st = "new" /\ ~v[Len(w) + 1].data
    /\ \A i \in 1 .. Len(w) : w[i].rob # v[Len(w) + 1].rob

(* An operation that is allocated comes after all others, and changes no order. *)
LEMMA AllocateOne ==
    ASSUME NEW w, NEW v, Added(w, v), WindowOrder(w), NEW q \in Seq(Reqs),
           NEW d, Len(d) \in Nat, NEW g \in Nat, QueueOrder(w, q, g), DataOrder(w, q, d, g)
    PROVE  /\ WindowOrder(v) /\ QueueOrder(v, q, g)
           /\ DataOrder(v, q, d, g)
           /\ StoresHeld(w, q) => StoresHeld(v, q)
           /\ \A r : First(w, q, r) => First(v, q, r)
<1>1. /\ Len(w) \in Nat /\ DOMAIN w = 1 .. Len(w) /\ DOMAIN v = 1 .. Len(w) + 1
      /\ \A i \in DOMAIN w : v[i] = w[i] /\ i \in DOMAIN v
  BY DEF Added
<1>2. PICK n \in DOMAIN v : n = Len(w) + 1 /\ v[n].st = "new" /\ ~v[n].data
                            /\ \A i \in DOMAIN w : w[i].rob # v[n].rob /\ i < n
  <2>1. Len(w) + 1 \in DOMAIN v
    BY <1>1
  <2> QED BY <1>1, <2>1 DEF Added
<1>3. \A k \in DOMAIN v : k \in DOMAIN w \/ k = n
  BY <1>1, <1>2
<1>4. \A r : \A k \in DOMAIN v : Had(v[k], r) => k \in DOMAIN w /\ Had(w[k], r)
  BY <1>1, <1>2, <1>3 DEF Had
<1>5. WindowOrder(v)
  <2> SUFFICES ASSUME NEW k \in DOMAIN v, NEW l \in DOMAIN v, k < l
               PROVE  /\ v[l].st \in {"sent", "done"} => v[k].st \in {"sent", "done"}
                      /\ v[l].st = "queued" => v[k].st # "new"
                      /\ v[k].op.store /\ v[l].op.store /\ v[l].data => v[k].data
    BY DEF WindowOrder
  <2>1. k \in DOMAIN w
    BY <1>1, <1>2, <1>3
  <2>2. CASE l = n
    BY <1>2, <2>2
  <2>3. CASE l \in DOMAIN w
    BY <1>1, <2>1, <2>3 DEF WindowOrder
  <2> QED BY <1>3, <2>2, <2>3
<1>6. QueueOrder(v, q, g)
  <2>1. ASSUME NEW i \in 1 .. g PROVE q[i].op.store /\ ~\E k \in DOMAIN v : Had(v[k], q[i])
    BY <1>4 DEF QueueOrder
  <2>2. ASSUME NEW i \in g + 1 .. Len(q)
        PROVE  \E k \in DOMAIN v : Had(v[k], q[i]) /\ v[k].op = q[i].op
                                   /\ (~q[i].op.store => v[k].st = "sent")
    <3>1. PICK k \in DOMAIN w : Had(w[k], q[i]) /\ w[k].op = q[i].op
                                /\ (~q[i].op.store => w[k].st = "sent")
      BY DEF QueueOrder
    <3> QED BY <1>1, <3>1
  <2>3. ASSUME NEW i \in g + 1 .. Len(q), NEW j \in g + 1 .. Len(q), NEW k \in DOMAIN v,
               NEW l \in DOMAIN v, i < j, Had(v[k], q[i]), Had(v[l], q[j])
        PROVE  k < l
    <3>1. k \in DOMAIN w /\ Had(w[k], q[i]) /\ l \in DOMAIN w /\ Had(w[l], q[j])
      BY <1>4, <2>3
    <3> QED BY <2>3, <3>1 DEF QueueOrder
  <2> QED BY <2>1, <2>2, <2>3 DEF QueueOrder
<1>7. DataOrder(v, q, d, g)
  <2>1. g <= Len(d) /\ \A i \in 1 .. g : d[i] = [rob |-> q[i].rob, val |-> q[i].op.val]
    BY DEF DataOrder
  <2>2. ASSUME NEW i \in g + 1 .. Len(d)
        PROVE  \E k \in DOMAIN w :
                  w[k].op.store /\ w[k].data /\ d[i] = [rob |-> w[k].rob, val |-> w[k].op.val]
    BY DEF DataOrder
  <2>3. ASSUME NEW i \in g + 1 .. Len(d), NEW k \in DOMAIN v, d[i].rob = v[k].rob
        PROVE  k \in DOMAIN w /\ d[i].rob = w[k].rob
    <3>1. PICK l \in DOMAIN w : d[i] = [rob |-> w[l].rob, val |-> w[l].op.val]
      BY <2>2
    <3>2. d[i].rob = w[l].rob
      BY <3>1
    <3>3. k # n
      BY <1>2, <2>3, <3>2
    <3> QED BY <1>1, <1>3, <2>3, <3>3
  <2>4. ASSUME NEW k \in DOMAIN v, v[k].op.store, v[k].data
        PROVE  \E i \in g + 1 .. Len(d) : d[i].rob = v[k].rob
    <3>1. k \in DOMAIN w /\ v[k] = w[k]
      BY <1>1, <1>2, <1>3, <2>4
    <3> QED BY <2>4, <3>1 DEF DataOrder
  <2>5. ASSUME NEW i \in g + 1 .. Len(d), NEW j \in g + 1 .. Len(d),
               NEW k \in DOMAIN v, NEW l \in DOMAIN v,
               i < j, d[i].rob = v[k].rob, d[j].rob = v[l].rob
        PROVE  k < l
    <3>1. k \in DOMAIN w /\ l \in DOMAIN w /\ d[i].rob = w[k].rob /\ d[j].rob = w[l].rob
      BY <2>3, <2>5
    <3> QED BY <2>5, <3>1 DEF DataOrder
  <2>6. ASSUME NEW i \in g + 1 .. Len(d)
        PROVE  \E k \in DOMAIN v :
                  v[k].op.store /\ v[k].data /\ d[i] = [rob |-> v[k].rob, val |-> v[k].op.val]
    <3>1. PICK k \in DOMAIN w :
             w[k].op.store /\ w[k].data /\ d[i] = [rob |-> w[k].rob, val |-> w[k].op.val]
      BY <2>2
    <3>2. k \in DOMAIN v /\ v[k] = w[k]
      BY <1>1
    <3> QED BY <3>1, <3>2
  <2> QED BY <2>1, <2>4, <2>5, <2>6 DEF DataOrder
<1>8. StoresHeld(w, q) => StoresHeld(v, q)
  BY <1>1, <1>2, <1>3 DEF StoresHeld
<1>9. ASSUME NEW r, First(w, q, r) PROVE First(v, q, r)
  <2>1. PICK k \in DOMAIN w :
           /\ w[k].rob = r.rob /\ w[k].op = r.op /\ w[k].st = "sent"
           /\ \A i \in DOMAIN q, l \in DOMAIN w : Had(w[l], q[i]) => k < l
    BY <1>9 DEF First
  <2>2. ASSUME NEW i \in DOMAIN q, NEW l \in DOMAIN v, Had(v[l], q[i]) PROVE k < l
    BY <1>4, <2>1, <2>2
  <2> QED BY <1>1, <2>1, <2>2 DEF First
<1> QED BY <1>5, <1>6, <1>7, <1>8, <1>9

-----------------------------------------------------------------------------
(***************************************************************************)
(* What the arrays and the memory hold together.                           *)
(***************************************************************************)
ViewOf(a, m) ==
    [s \in Sets |-> [t \in Tags |-> IF a[s].valid /\ a[s].tag = t THEN a[s].data ELSE m[s][t]]]
WrittenOf(a, m, r) == IF r # NoReq THEN After(ViewOf(a, m), <<r>>, {1}) ELSE ViewOf(a, m)

(* The fields of a row of the arrays and of a request to the memory. *)
LEMMA RowFields ==
    /\ NoLine \in Rows /\ NoLine.valid = FALSE /\ NoLine.dirty = FALSE /\ Zeros \in Lines
    /\ NoMem \in MemReqs /\ NoMem.valid = FALSE
    /\ \A row \in Rows : /\ row.valid \in BOOLEAN /\ row.dirty \in BOOLEAN
                         /\ row.tag \in Tags /\ row.data \in Lines
    /\ \A r \in MemReqs : /\ r.store \in BOOLEAN /\ r.set \in Sets /\ r.tag \in Tags
                          /\ r.data \in Lines /\ r.valid \in BOOLEAN
<1>1. Zeros \in Lines
  <2>1. (CHOOSE v \in Vals : TRUE) \in Vals
    BY OpsAssumption
  <2> QED BY <2>1 DEF Zeros, Lines
<1>2. NoLine \in Rows /\ NoLine.valid = FALSE /\ NoLine.dirty = FALSE /\ NoLine.tag \in Tags
  <2>1. (CHOOSE t \in Tags : TRUE) \in Tags
    BY OpsAssumption
  <2> QED BY <1>1, <2>1 DEF NoLine, Rows
<1>3. NoMem \in MemReqs /\ NoMem.valid = FALSE
  <2>1. 0 \in Sets
    BY L1DAssumption DEF Sets
  <2> QED BY <1>1, <1>2, <2>1 DEF NoMem, MemReqs
<1> QED BY <1>1, <1>2, <1>3 DEF Rows, MemReqs

(* A line of the memory. *)
LEMMA MemsAre ==
    ASSUME NEW m \in Mems, NEW s \in Sets, NEW t \in Tags
    PROVE  m[s][t] \in Lines
<1>1. m[s] \in [Tags -> Lines]
  BY DEF Mems
<1> QED BY <1>1

(* The view, line by line. *)
LEMMA ViewIs ==
    ASSUME NEW a \in [Sets -> Rows], NEW m \in Mems
    PROVE  /\ ViewOf(a, m) \in Mems
           /\ \A s \in Sets, t \in Tags :
                 ViewOf(a, m)[s][t] = IF a[s].valid /\ a[s].tag = t THEN a[s].data ELSE m[s][t]
<1> DEFINE line(s, t) == IF a[s].valid /\ a[s].tag = t THEN a[s].data ELSE m[s][t]
<1>1. ASSUME NEW s \in Sets, NEW t \in Tags PROVE line(s, t) \in Lines
  <2>1. a[s].data \in Lines /\ m[s][t] \in Lines
    BY RowFields, MemsAre
  <2> QED BY <2>1
<1>2. ViewOf(a, m) = [s \in Sets |-> [t \in Tags |-> line(s, t)]]
  BY DEF ViewOf
<1> HIDE DEF line
<1>3. /\ ViewOf(a, m) \in Mems
      /\ \A s \in Sets, t \in Tags : ViewOf(a, m)[s][t] = line(s, t)
  BY <1>1, <1>2 DEF Mems
<1> QED BY <1>3 DEF line

(* The view is the same if it is for each line. *)
LEMMA SameView ==
    ASSUME NEW a \in [Sets -> Rows], NEW m \in Mems, NEW b \in [Sets -> Rows], NEW n \in Mems,
           \A s \in Sets, t \in Tags :
              (IF a[s].valid /\ a[s].tag = t THEN a[s].data ELSE m[s][t])
                 = (IF b[s].valid /\ b[s].tag = t THEN b[s].data ELSE n[s][t])
    PROVE  ViewOf(a, m) = ViewOf(b, n)
BY DEF ViewOf

(* The memory answers: a line that comes is the one that the view has for it, and
   one that has been written back is given up. *)
MemFits(in) ==
    /\ in.rsp \in BOOLEAN /\ (in.rsp => memReq.valid)
    /\ in.line = IF memReq.store THEN Zeros ELSE mem[memReq.set][memReq.tag]
    /\ mem' = IF in.rsp /\ memReq.store
              THEN [mem EXCEPT ![memReq.set][memReq.tag] = memReq.data] ELSE mem

(* An answer changes neither the view nor that clean lines are those of the memory. *)
LEMMA MemoryAnswers ==
    ASSUME CacheData, MemInv, NEW in, MemFits(in), Arrays(in, {}, FALSE)
    PROVE  /\ arr' \in [Sets -> Rows] /\ mem' \in Mems
           /\ ViewOf(arr', mem') = ViewOf(arr, mem) /\ RowsInv(arr', mem')
           /\ ~in.rsp => arr' = arr /\ mem' = mem
           /\ \A s \in Sets : s # memReq.set => arr'[s] = arr[s]
           /\ in.rsp /\ memReq.store => ~arr'[memReq.set].valid
<1>1. /\ arr \in [Sets -> Rows] /\ mem \in Mems /\ memReq \in MemReqs /\ RowsInv(arr, mem)
      /\ inhibit <=> memReq.valid /\ memReq.store
  BY DEF CacheData, MemInv
<1>2. arr' = [s \in Sets |->
                IF in.rsp /\ s = memReq.set
                THEN IF inhibit THEN NoLine
                     ELSE [valid |-> TRUE, dirty |-> FALSE, tag |-> memReq.tag, data |-> in.line]
                ELSE arr[s]]
  BY DEF Arrays
<1>3. CASE ~in.rsp
  <2>1. arr' = arr
    BY <1>1, <1>2, <1>3
  <2>2. mem' = mem
    BY <1>3 DEF MemFits
  <2> QED BY <1>1, <1>3, <2>1, <2>2
<1>4. CASE in.rsp
  <2>1. memReq.valid /\ memReq.set \in Sets /\ memReq.tag \in Tags /\ memReq.data \in Lines
        /\ memReq.store \in BOOLEAN
    BY <1>1, <1>4, RowFields DEF MemFits
  <2> PICK set, tag : set = memReq.set /\ tag = memReq.tag
    OBVIOUS
  <2>2. CASE memReq.store
    <3>1. arr' = [s \in Sets |-> IF s = set THEN NoLine ELSE arr[s]]
      BY <1>1, <1>2, <1>4, <2>1, <2>2
    <3>2. mem' = [mem EXCEPT ![set][tag] = memReq.data]
      BY <1>4, <2>2 DEF MemFits
    <3>3. arr' \in [Sets -> Rows] /\ \A s \in Sets : s # set => arr'[s] = arr[s]
      BY <1>1, <3>1, RowFields
    <3>4. ~arr'[set].valid /\ ~arr'[set].dirty
      BY <2>1, <3>1, RowFields
    <3>5. /\ arr[set].valid /\ arr[set].tag = tag /\ arr[set].data = memReq.data
      BY <2>1, <2>2 DEF MemInv
    <3>6. mem' \in Mems /\ \A s \in Sets, t \in Tags :
             mem'[s][t] = IF s = set /\ t = tag THEN memReq.data ELSE mem[s][t]
      <4>1. mem' = [s \in Sets |-> IF s = set THEN [mem[s] EXCEPT ![tag] = memReq.data] ELSE mem[s]]
        BY <1>1, <3>2 DEF Mems
      <4>2. \A s \in Sets : mem[s] \in [Tags -> Lines]
        BY <1>1 DEF Mems
      <4>3. \A s \in Sets : [mem[s] EXCEPT ![tag] = memReq.data] \in [Tags -> Lines]
        BY <2>1, <4>2
      <4>4. mem' \in Mems
        BY <4>1, <4>2, <4>3 DEF Mems
      <4>5. ASSUME NEW s \in Sets, NEW t \in Tags
            PROVE  mem'[s][t] = IF s = set /\ t = tag THEN memReq.data ELSE mem[s][t]
        <5>1. mem'[s] = IF s = set THEN [mem[s] EXCEPT ![tag] = memReq.data] ELSE mem[s]
          BY <4>1
        <5>2. mem[s] \in [Tags -> Lines]
          BY <4>2
        <5> QED BY <2>1, <5>1, <5>2
      <4> QED BY <4>4, <4>5
    <3>7. ASSUME NEW s \in Sets, NEW t \in Tags
          PROVE  (IF arr'[s].valid /\ arr'[s].tag = t THEN arr'[s].data ELSE mem'[s][t])
                   = (IF arr[s].valid /\ arr[s].tag = t THEN arr[s].data ELSE mem[s][t])
      <4>1. CASE s = set
        BY <3>4, <3>5, <3>6, <4>1
      <4>2. CASE s # set
        BY <3>3, <3>6, <4>2
      <4> QED BY <4>1, <4>2
    <3>8. ViewOf(arr', mem') = ViewOf(arr, mem)
      BY <1>1, <3>3, <3>6, <3>7, SameView
    <3>9. RowsInv(arr', mem')
      <4> SUFFICES ASSUME NEW s \in Sets
                   PROVE  /\ arr'[s].dirty => arr'[s].valid
                          /\ arr'[s].valid /\ ~arr'[s].dirty =>
                                arr'[s].data = mem'[s][arr'[s].tag]
        BY DEF RowsInv
      <4>1. CASE s = set
        BY <3>4, <4>1
      <4>2. CASE s # set
        <5>1. arr'[s] = arr[s] /\ arr[s].tag \in Tags
          BY <1>1, <3>3, <4>2, RowFields
        <5>2. mem'[s][arr[s].tag] = mem[s][arr[s].tag]
          BY <3>6, <4>2, <5>1
        <5> QED BY <1>1, <5>1, <5>2 DEF RowsInv
      <4> QED BY <4>1, <4>2
    <3> QED BY <1>4, <2>2, <3>3, <3>4, <3>6, <3>8, <3>9
  <2>3. CASE ~memReq.store
    <3> PICK row : row = [valid |-> TRUE, dirty |-> FALSE, tag |-> tag, data |-> in.line]
      OBVIOUS
    <3>1. arr' = [s \in Sets |-> IF s = set THEN row ELSE arr[s]] /\ mem' = mem
      BY <1>1, <1>2, <1>4, <2>1, <2>3 DEF MemFits
    <3>2. in.line = mem[set][tag] /\ mem[set][tag] \in Lines
      BY <1>1, <2>1, <2>3, MemsAre DEF MemFits
    <3>3. row \in Rows /\ row.valid /\ ~row.dirty /\ row.tag = tag /\ row.data = mem[set][tag]
      BY <2>1, <3>2 DEF Rows
    <3>4. /\ arr' \in [Sets -> Rows] /\ arr'[set] = row
          /\ \A s \in Sets : s # set => arr'[s] = arr[s]
      BY <1>1, <2>1, <3>1, <3>3
    <3>5. ~(arr[set].valid /\ arr[set].dirty)
      BY <2>1, <2>3 DEF MemInv
    <3>6. arr[set].valid => arr[set].data = mem[set][arr[set].tag]
      BY <1>1, <2>1, <3>5 DEF RowsInv
    <3>7. ASSUME NEW s \in Sets, NEW t \in Tags
          PROVE  (IF arr'[s].valid /\ arr'[s].tag = t THEN arr'[s].data ELSE mem'[s][t])
                   = (IF arr[s].valid /\ arr[s].tag = t THEN arr[s].data ELSE mem[s][t])
      <4>1. CASE s = set
        BY <3>1, <3>3, <3>4, <3>6, <4>1
      <4>2. CASE s # set
        BY <3>1, <3>4, <4>2
      <4> QED BY <4>1, <4>2
    <3>10. mem' \in Mems /\ arr' \in [Sets -> Rows]
      BY <1>1, <3>1, <3>4
    <3>8. ViewOf(arr', mem') = ViewOf(arr, mem)
      BY ONLY <1>1, <3>7, <3>10, SameView
    <3>9. RowsInv(arr', mem')
      BY <1>1, <3>1, <3>3, <3>4 DEF RowsInv
    <3> QED BY <1>1, <1>4, <2>3, <3>1, <3>4, <3>8, <3>9
  <2> QED BY <2>1, <2>2, <2>3
<1> QED BY <1>1, <1>3, <1>4 DEF MemFits

\* What a cycle does to the lines: it changes nothing, but a store that leaves the
\* queue is counted as performed; the initialization ends with empty arrays.
ViewStep(in) ==
    LET new == WrittenOf(arr', mem', p1'.req) IN
    IF state \in Starting THEN state' \notin Starting => new = mem' /\ mq' = <<>>
    ELSE IF state = "ACTIVE" /\ StoreFires(in) THEN new = After(Written, mq, {1})
    ELSE new = Written
DataGood(in) == CacheData' /\ MemInv' /\ WalkInv' /\ ViewStep(in)
DataBefore(in) ==
    /\ CacheInv /\ CacheData /\ MemInv /\ WalkInv /\ Fits(in) /\ MemFits(in)
    /\ (flushDone => state = "ACTIVE")

(* The memory does not answer what it was not asked. *)
LEMMA NoAnswer ==
    ASSUME NEW in, DataBefore(in), state \notin Waiting
    PROVE  in.rsp = FALSE /\ memReq = NoMem /\ memReq.valid = FALSE /\ inhibit = FALSE /\ mem' = mem
<1>1. ~memReq.valid /\ memReq = NoMem
  BY DEF DataBefore, CacheInv, StateInv
<1>2. in.rsp = FALSE
  BY <1>1 DEF DataBefore, MemFits
<1>3. inhibit \in BOOLEAN /\ ~inhibit
  BY <1>1 DEF DataBefore, MemInv, CacheInv, CacheType
<1>4. mem' = mem
  BY <1>2 DEF DataBefore, MemFits
<1> QED BY <1>1, <1>2, <1>3, <1>4, RowFields

(* The two ports while nothing is accepted. *)
LEMMA PortsIdle ==
    /\ NoP2 = [req |-> NoP2.req, out |-> NoP2.out, fwd |-> NoP2.fwd, wrData |-> NoP2.wrData,
               busy |-> NoP2.busy, busyWord |-> NoP2.busyWord, unaligned |-> NoP2.unaligned]
    /\ NoP2.out \in Rows /\ NoP2.fwd \in BOOLEAN /\ NoP2.wrData \in Lines
    /\ NoP2.busy \in BOOLEAN /\ NoP2.busyWord \in BOOLEAN /\ NoP2.unaligned \in BOOLEAN
    /\ NoP1.req = NoReq /\ NoP1.out \in Rows
    /\ \A s : Read(s).req = NoReq /\ Read(s).out = arr[s]
BY RowFields DEF NoP1, NoP2, Read

(* The walk through the sets (n_flush_idx). *)
LEMMA NextIdx ==
    ASSUME NEW i \in Sets
    PROVE  /\ (i + 1) % NumSets = IF i = NumSets - 1 THEN 0 ELSE i + 1
           /\ (i + 1) % NumSets \in Sets /\ 0 \in Sets
<1>1. NumSets \in Nat \ {0} /\ i \in Nat /\ i <= NumSets - 1
  BY L1DAssumption DEF Sets
<1>2. CASE i = NumSets - 1
  <2>1. i + 1 = NumSets
    BY <1>1, <1>2
  <2>2. NumSets % NumSets = 0
    BY <1>1
  <2> QED BY <1>1, <1>2, <2>1, <2>2 DEF Sets
<1>3. CASE i # NumSets - 1
  <2>1. i + 1 \in 0 .. NumSets - 1
    BY <1>1, <1>3
  <2>2. (i + 1) % NumSets = i + 1
    BY <1>1, <2>1
  <2> QED BY <1>1, <1>3, <2>1, <2>2 DEF Sets
<1> QED BY <1>2, <1>3

(* Without a valid line the view is the memory. *)
LEMMA EmptyView ==
    ASSUME NEW a \in [Sets -> Rows], NEW m \in Mems, \A s \in Sets : ~a[s].valid
    PROVE  ViewOf(a, m) = m
<1>1. ViewOf(a, m) \in Mems
  BY ViewIs
<1>2. ASSUME NEW s \in Sets PROVE ViewOf(a, m)[s] = m[s]
  <2>1. ViewOf(a, m)[s] \in [Tags -> Lines] /\ m[s] \in [Tags -> Lines]
    BY <1>1 DEF Mems
  <2>2. \A t \in Tags : ViewOf(a, m)[s][t] = m[s][t]
    BY ViewIs
  <2> QED BY <2>1, <2>2
<1> QED BY <1>1, <1>2 DEF Mems

(* The walk of the initialization and that of a flush (INIT_CACHE, FLUSH_CACHE):
   a row that is given up is not dirty, or nothing is in the arrays yet. *)
LEMMA RowGivenUp ==
    ASSUME NEW in, DataBefore(in), state \notin Waiting, Arrays(in, {flushIdx}, FALSE)
    PROVE  /\ arr' \in [Sets -> Rows] /\ mem' = mem /\ mem' \in Mems
           /\ ~arr'[flushIdx].valid /\ \A s \in Sets : s # flushIdx => arr'[s] = arr[s]
           /\ RowsInv(arr', mem')
           /\ ~arr[flushIdx].dirty => ViewOf(arr', mem') = ViewOf(arr, mem)
<1>1. /\ arr \in [Sets -> Rows] /\ mem \in Mems /\ RowsInv(arr, mem) /\ flushIdx \in Sets
      /\ in.rsp = FALSE /\ mem' = mem
  BY NoAnswer DEF DataBefore, CacheData, MemInv
<1>2. arr' = [s \in Sets |-> IF s = flushIdx THEN NoLine ELSE arr[s]]
  BY <1>1 DEF Arrays
<1>3. /\ arr' \in [Sets -> Rows] /\ ~arr'[flushIdx].valid /\ ~arr'[flushIdx].dirty
      /\ \A s \in Sets : s # flushIdx => arr'[s] = arr[s]
  BY <1>1, <1>2, RowFields
<1>4. RowsInv(arr', mem')
  BY <1>1, <1>3 DEF RowsInv
<1>5. ASSUME ~arr[flushIdx].dirty PROVE ViewOf(arr', mem') = ViewOf(arr, mem)
  <2>1. mem' \in Mems /\ arr' \in [Sets -> Rows]
    BY <1>1, <1>3
  <2>2. ASSUME NEW s \in Sets, NEW t \in Tags
        PROVE  (IF arr'[s].valid /\ arr'[s].tag = t THEN arr'[s].data ELSE mem'[s][t])
                 = (IF arr[s].valid /\ arr[s].tag = t THEN arr[s].data ELSE mem[s][t])
    BY <1>1, <1>3, <1>5 DEF RowsInv
  <2> QED BY ONLY <1>1, <2>1, <2>2, SameView
<1> QED BY <1>1, <1>3, <1>4, <1>5

(* INITIALIZE: nothing is in the cache yet. *)
LEMMA InitializeData ==
    ASSUME NEW in, DataBefore(in), Initialize(in)
    PROVE  DataGood(in)
<1>1. /\ state = "INITIALIZE" /\ state' = "INIT_CACHE" /\ flushIdx' = 0 /\ p1' = NoP1
      /\ p2' = NoP2 /\ mq' = mq /\ flushDone' = flushDone /\ inhibit' = inhibit
      /\ Arrays(in, {}, FALSE) /\ memReq' = IF in.rsp THEN NoMem ELSE memReq
  BY DEF Initialize, Paused, Asks
<1>2. state \notin Waiting /\ state \in Starting /\ state' \in Starting
  BY <1>1 DEF Waiting, Starting
<1>3. in.rsp = FALSE /\ memReq = NoMem /\ memReq.valid = FALSE /\ inhibit = FALSE /\ mem' = mem
  BY <1>2, NoAnswer
<1>4. CacheData /\ MemInv /\ MemFits(in) /\ ~flushDone
  BY <1>1 DEF DataBefore
<1>5. arr' \in [Sets -> Rows] /\ mem' \in Mems /\ RowsInv(arr', mem')
  BY <1>1, <1>4, MemoryAnswers
<1>6. memReq' = NoMem /\ NoMem \in MemReqs /\ NoMem.valid = FALSE /\ 0 \in Sets
  BY <1>1, <1>3, RowFields, L1DAssumption DEF Sets
<1>7. CacheData'
  BY <1>1, <1>5, <1>6, PortsIdle DEF CacheData
<1>8. MemInv'
  BY <1>1, <1>3, <1>5, <1>6 DEF MemInv
<1>9. Invalid(arr', 0)
  BY DEF Invalid, Sets
<1>10. WalkInv'
  BY <1>1, <1>4, <1>9 DEF WalkInv
<1>11. ViewStep(in)
  BY <1>2 DEF ViewStep
<1> QED BY <1>7, <1>8, <1>10, <1>11 DEF DataGood

(* INIT_CACHE: one row after the other is given up, and all are when requests are served. *)
LEMMA InitCacheData ==
    ASSUME NEW in, DataBefore(in), InitCache(in)
    PROVE  DataGood(in)
<1>1. /\ state = "INIT_CACHE" /\ p1' = NoP1 /\ p2' = NoP2 /\ mq' = mq /\ inhibit' = inhibit
      /\ flushIdx' = (flushIdx + 1) % NumSets
      /\ flushDone' = (flushIdx = NumSets - 1)
      /\ state' = IF flushIdx = NumSets - 1 THEN "ACTIVE" ELSE state
      /\ Arrays(in, {flushIdx}, FALSE) /\ memReq' = IF in.rsp THEN NoMem ELSE memReq
  BY DEF InitCache, Paused, Asks
<1>2. state \notin Waiting /\ state \in Starting /\ "ACTIVE" \notin Starting
  BY <1>1 DEF Waiting, Starting
<1>3. in.rsp = FALSE /\ memReq = NoMem /\ memReq.valid = FALSE /\ inhibit = FALSE /\ mem' = mem
  BY <1>2, NoAnswer
<1>4. flushIdx \in Sets /\ Invalid(arr, flushIdx) /\ mq = <<>>
  BY <1>1, <1>2 DEF DataBefore, CacheData, WalkInv, CacheInv, StateInv
<1>5. /\ arr' \in [Sets -> Rows] /\ mem' \in Mems /\ RowsInv(arr', mem')
      /\ ~arr'[flushIdx].valid /\ \A s \in Sets : s # flushIdx => arr'[s] = arr[s]
  BY <1>1, <1>2, RowGivenUp
<1>6. memReq' = NoMem /\ NoMem \in MemReqs /\ NoMem.valid = FALSE
  BY <1>1, <1>3, RowFields
<1>7. /\ flushIdx' = IF flushIdx = NumSets - 1 THEN 0 ELSE flushIdx + 1
      /\ flushIdx' \in Sets /\ flushIdx \in Int /\ NumSets \in Int
  BY <1>1, <1>4, NextIdx, L1DAssumption DEF Sets
<1>8. CacheData'
  BY <1>1, <1>5, <1>6, <1>7, PortsIdle DEF CacheData
<1>9. MemInv'
  BY <1>1, <1>3, <1>5, <1>6 DEF MemInv
<1>10. Invalid(arr', flushIdx + 1)
  <2> SUFFICES ASSUME NEW s \in Sets, s < flushIdx + 1 PROVE ~arr'[s].valid
    BY DEF Invalid
  <2>1. s = flushIdx \/ s < flushIdx
    BY <1>7 DEF Sets
  <2> QED BY <1>4, <1>5, <2>1 DEF Invalid
<1>11. CASE flushIdx = NumSets - 1
  <2>1. Invalid(arr', NumSets)
    BY <1>7, <1>10, <1>11
  <2>2. state' = "ACTIVE" /\ p1'.req = NoReq /\ mq' = <<>>
    BY <1>1, <1>4, <1>11, PortsIdle
  <2>3. WalkInv'
    BY <2>1, <2>2 DEF WalkInv
  <2>4. ViewOf(arr', mem') = mem'
    <3>1. ASSUME NEW s \in Sets PROVE ~arr'[s].valid
      <4>1. s < NumSets
        BY <1>7 DEF Sets
      <4> QED BY <2>1, <4>1 DEF Invalid
    <3> QED BY <1>5, <3>1, EmptyView
  <2>5. ViewStep(in)
    BY <1>2, <2>2, <2>4 DEF ViewStep, WrittenOf
  <2> QED BY <1>8, <1>9, <2>3, <2>5 DEF DataGood
<1>12. CASE flushIdx # NumSets - 1
  <2>1. state' = "INIT_CACHE" /\ flushIdx' = flushIdx + 1 /\ flushDone' = FALSE
    BY <1>1, <1>7, <1>12
  <2>2. WalkInv'
    BY <1>10, <2>1 DEF WalkInv
  <2>3. ViewStep(in)
    BY <1>1, <1>2, <2>1 DEF ViewStep
  <2> QED BY <1>8, <1>9, <2>2, <2>3 DEF DataGood
<1> QED BY <1>11, <1>12

(* The cache while it waits for a line, or for the answer to a write-back. *)
LEMMA WaitData ==
    ASSUME NEW in, DataBefore(in), Arrays(in, {}, FALSE), Asks(in, NoMem),
           state \in Waiting, p2' = NoP2, p1'.req = p1.req, p1'.out \in Rows, mq' = mq,
           inhibit' = (inhibit /\ ~in.rsp), flushIdx' = flushIdx,
           ~in.rsp => state' = state, state' \notin Starting
    PROVE  CacheData' /\ MemInv' /\ ViewStep(in)
<1>1. CacheData /\ MemInv /\ MemFits(in) /\ inhibit \in BOOLEAN /\ in.rsp \in BOOLEAN
  BY DEF DataBefore, CacheInv, CacheType, MemFits
<1>2. /\ arr' \in [Sets -> Rows] /\ mem' \in Mems
      /\ ViewOf(arr', mem') = ViewOf(arr, mem) /\ RowsInv(arr', mem')
      /\ ~in.rsp => arr' = arr
  BY <1>1, MemoryAnswers
<1>3. memReq' = IF in.rsp THEN NoMem ELSE memReq
  BY DEF Asks
<1>4. memReq' \in MemReqs
  BY <1>1, <1>3, RowFields DEF CacheData
<1>5. CacheData'
  BY <1>1, <1>2, <1>4, PortsIdle DEF CacheData
<1>6. MemInv'
  <2>1. CASE in.rsp
    <3>1. ~memReq'.valid /\ inhibit' = FALSE
      BY <1>1, <1>3, <2>1, RowFields
    <3> QED BY <1>2, <3>1 DEF MemInv
  <2>2. CASE ~in.rsp
    <3>1. memReq' = memReq /\ inhibit' = inhibit /\ arr' = arr /\ state' = state
      BY <1>1, <1>2, <1>3, <2>2
    <3> QED BY <1>1, <1>2, <3>1 DEF MemInv
  <2> QED BY <1>1, <2>1, <2>2
<1>7. state \notin Starting /\ state # "ACTIVE"
  BY DEF Starting, Waiting
<1>8. ViewStep(in)
  BY <1>2, <1>7 DEF ViewStep, Written, WrittenOf, View, ViewOf
<1> QED BY <1>5, <1>6, <1>8

(* INJECT_RELOAD: the write-back or the line of a miss. *)
LEMMA InjectReloadData ==
    ASSUME NEW in, DataBefore(in), InjectReload(in)
    PROVE  DataGood(in)
<1>1. /\ state = "INJECT_RELOAD" /\ state' = (IF in.rsp THEN "HANDLE_RELOAD" ELSE state)
      /\ p1' = p1 /\ p2' = NoP2 /\ mq' = mq /\ inhibit' = (inhibit /\ ~in.rsp)
      /\ Arrays(in, {}, FALSE) /\ Asks(in, NoMem) /\ flushDone' = FALSE /\ flushIdx' = flushIdx
  BY DEF InjectReload
<1>2. state \in Waiting /\ state' \notin Starting /\ p1.out \in Rows
  BY <1>1 DEF Waiting, Starting, DataBefore, CacheData
<1>3. CacheData' /\ MemInv' /\ ViewStep(in)
  BY <1>1, <1>2, WaitData
<1>4. WalkInv'
  BY <1>1 DEF WalkInv
<1> QED BY <1>3, <1>4 DEF DataGood

(* FLUSH_CACHE_WAIT and FLUSH_CACHE_LAST_WAIT: a line has been written back. *)
LEMMA FlushCacheWaitData ==
    ASSUME NEW in, DataBefore(in), FlushCacheWait(in)
    PROVE  DataGood(in)
<1> DEFINE last == state = "FLUSH_CACHE_LAST_WAIT"
<1>1. /\ state \in {"FLUSH_CACHE_WAIT", "FLUSH_CACHE_LAST_WAIT"}
      /\ state' = IF ~in.rsp THEN state ELSE IF last THEN "ACTIVE" ELSE "FLUSH_CACHE"
      /\ flushDone' = (in.rsp /\ last)
      /\ p1' = (IF state' = "ACTIVE" THEN NoP1 ELSE Read(flushIdx))
      /\ p2' = NoP2 /\ mq' = mq /\ inhibit' = (inhibit /\ ~in.rsp)
      /\ Arrays(in, {}, FALSE) /\ Asks(in, NoMem) /\ flushIdx' = flushIdx
  BY DEF FlushCacheWait, Paused
<1>2. /\ state \in Waiting /\ state \in Flushing /\ state' \notin Starting
      /\ state \notin Missing /\ state # "ACTIVE"
  BY <1>1 DEF Waiting, Starting, Flushing, Missing
<1>3. /\ CacheData /\ MemInv /\ MemFits(in) /\ WalkInv /\ CacheInv
      /\ in.rsp \in BOOLEAN /\ flushIdx \in Sets /\ arr \in [Sets -> Rows]
  BY DEF DataBefore, CacheData, MemFits
<1>4. p1.req = NoReq /\ mq = <<>>
  BY <1>2, <1>3 DEF CacheInv, StateInv
<1>5. p1'.req = NoReq /\ p1'.out \in Rows /\ (state' # "ACTIVE" => p1'.out = arr[flushIdx])
  BY <1>1, <1>3, PortsIdle
<1>6. CacheData' /\ MemInv' /\ ViewStep(in)
  BY <1>1, <1>2, <1>4, <1>5, WaitData
<1>7. /\ ~in.rsp => arr' = arr
      /\ \A s \in Sets : s # memReq.set => arr'[s] = arr[s]
      /\ in.rsp /\ memReq.store => ~arr'[memReq.set].valid
  BY <1>1, <1>3, MemoryAnswers
<1>8. NumSets \in Int /\ flushIdx \in Int
  BY <1>3, L1DAssumption DEF Sets
<1>9. WalkInv'
  <2>1. CASE ~in.rsp
    <3>1. arr' = arr /\ memReq' = memReq /\ flushIdx' = flushIdx /\ state' = state /\ ~flushDone'
      BY <1>1, <1>7, <2>1 DEF Asks
    <3> QED BY <1>1, <1>3, <3>1 DEF WalkInv
  <2>2. CASE in.rsp /\ last
    <3>1. memReq.set = NumSets - 1 /\ Invalid(arr, NumSets - 1) /\ memReq.store
      BY <1>3, <2>2 DEF WalkInv
    <3>2. ASSUME NEW s \in Sets PROVE ~arr'[s].valid
      <4>1. CASE s = memReq.set
        BY <1>7, <2>2, <3>1, <4>1
      <4>2. CASE s # memReq.set
        <5>1. s < NumSets - 1
          BY <1>8, <3>1, <4>2 DEF Sets
        <5> QED BY <1>7, <3>1, <4>2, <5>1 DEF Invalid
      <4> QED BY <4>1, <4>2
    <3>3. Invalid(arr', NumSets)
      BY <3>2 DEF Invalid
    <3>4. state' = "ACTIVE" /\ mq' = <<>>
      BY <1>1, <1>4, <2>2
    <3> QED BY <1>5, <3>3, <3>4 DEF WalkInv
  <2>3. CASE in.rsp /\ ~last
    <3>1. state = "FLUSH_CACHE_WAIT" /\ state' = "FLUSH_CACHE" /\ flushDone' = FALSE
      BY <1>1, <2>3
    <3>2. memReq.set = flushIdx - 1 /\ Invalid(arr, flushIdx - 1) /\ memReq.store
      BY <1>3, <3>1 DEF WalkInv
    <3>3. ASSUME NEW s \in Sets, s < flushIdx PROVE ~arr'[s].valid
      <4>1. CASE s = memReq.set
        BY <1>7, <2>3, <3>2, <4>1
      <4>2. CASE s # memReq.set
        <5>1. s < flushIdx - 1
          BY <1>8, <3>2, <3>3, <4>2 DEF Sets
        <5> QED BY <1>7, <3>2, <4>2, <5>1 DEF Invalid
      <4> QED BY <4>1, <4>2
    <3>4. Invalid(arr', flushIdx')
      BY <1>1, <3>3 DEF Invalid
    <3>5. p1'.out = arr'[flushIdx']
      <4>1. flushIdx # memReq.set
        BY <1>8, <3>2
      <4>2. arr'[flushIdx] = arr[flushIdx]
        BY <1>3, <1>7, <4>1
      <4> QED BY <1>1, <1>5, <3>1, <4>2
    <3> QED BY <3>1, <3>4, <3>5 DEF WalkInv
  <2> QED BY <1>3, <2>1, <2>2, <2>3
<1> QED BY <1>6, <1>9 DEF DataGood

(* Port 1 with a load in it, or with nothing, adds nothing to the view. *)
LEMMA NothingWritten ==
    ASSUME NEW a \in [Sets -> Rows], NEW m \in Mems, NEW r \in Reqs \cup {NoReq},
           r # NoReq => ~r.op.store
    PROVE  WrittenOf(a, m, r) = ViewOf(a, m)
<1>1. CASE r = NoReq
  BY <1>1 DEF WrittenOf
<1>2. CASE r # NoReq
  <2>1. ViewOf(a, m) \in Mems /\ {1} \in Places
    BY ViewIs, PlacesAre
  <2>2. r.op \in Ops /\ ~r.op.store
    BY <1>2 DEF Reqs
  <2>3. \A i \in {1} : <<r>>[i].op \in Ops /\ ~<<r>>[i].op.store
    BY <2>2
  <2>4. After(ViewOf(a, m), <<r>>, {1}) = ViewOf(a, m)
    BY <2>1, <2>3, AfterLoads
  <2> QED BY <1>2, <2>4 DEF WrittenOf
<1> QED BY <1>1, <1>2

(* The line has come, and port 1 goes on with it (HANDLE_RELOAD). *)
LEMMA HandleReloadData ==
    ASSUME NEW in, DataBefore(in), HandleReload(in)
    PROVE  DataGood(in)
<1> DEFINE kept == p1.req.op.store \/ ~early
           again == [p1 EXCEPT !.on = TRUE, !.reload = TRUE, !.retry = FALSE,
                               !.out = arr[Op1.set],
                               !.busy = \E q \in Queued : q.op.set = Op1.set]
<1>1. /\ state = "HANDLE_RELOAD" /\ state' = "ACTIVE" /\ p2' = NoP2 /\ mq' = mq
      /\ p1' = IF kept THEN again ELSE NoP1
      /\ Arrays(in, {}, FALSE) /\ memReq' = (IF in.rsp THEN NoMem ELSE memReq)
      /\ flushDone' = FALSE /\ inhibit' = inhibit /\ flushIdx' = flushIdx
  BY DEF HandleReload, Paused, Asks
<1>2. state \notin Waiting /\ state \in Missing /\ state \notin Starting
  BY <1>1 DEF Waiting, Starting, Missing
<1>3. in.rsp = FALSE /\ memReq = NoMem /\ memReq.valid = FALSE /\ inhibit = FALSE /\ mem' = mem
  BY <1>2, NoAnswer
<1>4. /\ CacheData /\ MemInv /\ MemFits(in) /\ arr \in [Sets -> Rows] /\ mem \in Mems
      /\ early \in BOOLEAN /\ p1.req \in Reqs /\ Op1.set \in Sets
  <2>1. CacheData /\ MemInv /\ MemFits(in) /\ p1.req \in Reqs /\ early \in BOOLEAN
    BY <1>2 DEF DataBefore, CacheInv, CacheType, StateInv
  <2>2. Op1.set \in Sets
    BY <2>1, ReqFields DEF Op1
  <2> QED BY <2>1, <2>2 DEF CacheData
<1>5. arr' = arr /\ RowsInv(arr', mem')
  BY <1>1, <1>3, <1>4, MemoryAnswers
<1>6. p1 = [on |-> p1.on, req |-> p1.req, val |-> p1.val, retry |-> p1.retry,
            reload |-> p1.reload, busy |-> p1.busy, out |-> p1.out]
  BY DEF DataBefore, CacheInv, CacheType
<1>7. again.req = p1.req /\ again.out = arr[Op1.set]
  BY <1>6
<1> HIDE DEF again
<1>8. memReq' = NoMem /\ NoMem \in MemReqs /\ NoMem.valid = FALSE
  BY <1>1, <1>3, RowFields
<1>9. p1'.out \in Rows
  BY <1>1, <1>4, <1>7, PortsIdle
<1>10. CacheData'
  BY <1>1, <1>3, <1>4, <1>5, <1>8, <1>9, PortsIdle DEF CacheData
<1>11. MemInv'
  BY <1>1, <1>3, <1>5, <1>8 DEF MemInv
<1>12. WalkInv'
  BY <1>1 DEF WalkInv
<1>13. WrittenOf(arr, mem, p1'.req) = Written
  <2>1. Written = WrittenOf(arr, mem, p1.req)
    BY DEF Written, WrittenOf, View, ViewOf
  <2>2. CASE kept
    BY <1>1, <1>7, <2>1, <2>2
  <2>3. CASE ~kept
    <3>1. p1'.req = NoReq /\ ~p1.req.op.store
      BY <1>1, <2>3, PortsIdle
    <3>2. WrittenOf(arr, mem, NoReq) = ViewOf(arr, mem)
      BY DEF WrittenOf
    <3>3. WrittenOf(arr, mem, p1.req) = ViewOf(arr, mem)
      BY ONLY <1>4, <3>1, NothingWritten
    <3> QED BY <2>1, <3>1, <3>2, <3>3
  <2> QED BY <2>2, <2>3
<1>14. ViewStep(in)
  BY <1>1, <1>2, <1>3, <1>5, <1>13 DEF ViewStep
<1> QED BY <1>10, <1>11, <1>12, <1>14 DEF DataGood

(* A set of the flush: its row is written back, or given up (FLUSH_CACHE). *)
LEMMA FlushCacheData ==
    ASSUME NEW in, DataBefore(in), FlushCache(in)
    PROVE  DataGood(in)
<1> DEFINE last == flushIdx = NumSets - 1
           dirty == p1.out.dirty
<1> PICK back : back = [store |-> TRUE, set |-> flushIdx, tag |-> p1.out.tag,
                        data |-> p1.out.data, valid |-> TRUE]
  OBVIOUS
<1>1. /\ state = "FLUSH_CACHE"
      /\ flushIdx' = (flushIdx + 1) % NumSets
      /\ state' = IF dirty THEN IF last THEN "FLUSH_CACHE_LAST_WAIT" ELSE "FLUSH_CACHE_WAIT"
                  ELSE IF last THEN "ACTIVE" ELSE state
      /\ flushDone' = (last /\ ~dirty)
      /\ inhibit' = (inhibit \/ dirty)
      /\ Arrays(in, IF dirty THEN {} ELSE {flushIdx}, FALSE)
      /\ Asks(in, IF dirty THEN back ELSE NoMem)
      /\ p1' = (IF state' = "ACTIVE" THEN NoP1 ELSE Read(flushIdx'))
      /\ p2' = NoP2 /\ mq' = mq
  BY DEF FlushCache, Paused
<1>2. /\ state \notin Waiting /\ state \notin Missing /\ state \in Flushing
      /\ state \notin Starting /\ state # "ACTIVE"
  BY <1>1 DEF Waiting, Starting, Missing, Flushing
<1>3. in.rsp = FALSE /\ memReq = NoMem /\ memReq.valid = FALSE /\ inhibit = FALSE /\ mem' = mem
  BY <1>2, NoAnswer
<1>4. /\ CacheData /\ MemInv /\ MemFits(in) /\ arr \in [Sets -> Rows] /\ mem \in Mems
      /\ flushIdx \in Sets /\ Invalid(arr, flushIdx) /\ p1.out = arr[flushIdx]
      /\ p1.req = NoReq /\ mq = <<>>
  BY <1>1, <1>2 DEF DataBefore, CacheData, WalkInv, CacheInv, StateInv
<1>5. /\ flushIdx' = IF last THEN 0 ELSE flushIdx + 1
      /\ flushIdx' \in Sets /\ flushIdx \in Int /\ NumSets \in Int
  BY <1>1, <1>4, NextIdx, L1DAssumption DEF Sets
<1>6. p1'.req = NoReq /\ p1'.out \in Rows /\ (state' # "ACTIVE" => p1'.out = arr[flushIdx'])
  BY <1>1, <1>4, <1>5, PortsIdle
<1>7. p1.out \in Rows /\ dirty \in BOOLEAN /\ p1.out.tag \in Tags /\ p1.out.data \in Lines
  BY <1>4, RowFields
<1>8. Written = ViewOf(arr, mem) /\ \A a, m : WrittenOf(a, m, p1'.req) = ViewOf(a, m)
  BY <1>4, <1>6 DEF Written, WrittenOf, View, ViewOf
<1>9. CASE dirty
  <2>1. arr' = arr /\ RowsInv(arr', mem')
    BY <1>1, <1>3, <1>4, <1>9, MemoryAnswers
  <2>2. /\ memReq' = back /\ back \in MemReqs /\ back.valid /\ back.store /\ back.set = flushIdx
        /\ back.tag = p1.out.tag /\ back.data = p1.out.data
    <3>1. back \in MemReqs /\ back.valid
      BY <1>4, <1>7 DEF MemReqs
    <3>2. back # NoMem
      BY <3>1, RowFields
    <3> QED BY <1>1, <1>9, <3>1, <3>2 DEF Asks
  <2>3. arr[flushIdx].valid /\ arr[flushIdx].dirty
    BY <1>4, <1>9 DEF MemInv, RowsInv
  <2>4. CacheData'
    BY <1>1, <1>3, <1>4, <1>5, <1>6, <2>1, <2>2, PortsIdle DEF CacheData
  <2>5. MemInv'
    BY <1>1, <1>4, <1>9, <2>1, <2>2, <2>3 DEF MemInv
  <2>6. WalkInv'
    <3>1. CASE last
      <4>1. state' = "FLUSH_CACHE_LAST_WAIT" /\ flushDone' = FALSE
        BY <1>1, <1>9, <3>1
      <4> QED BY <1>4, <2>1, <2>2, <3>1, <4>1 DEF WalkInv
    <3>2. CASE ~last
      <4>1. state' = "FLUSH_CACHE_WAIT" /\ flushDone' = FALSE
        BY <1>1, <1>9, <3>2
      <4>2. flushIdx = flushIdx' - 1
        BY <1>5, <3>2
      <4> QED BY <1>4, <2>1, <2>2, <4>1, <4>2 DEF WalkInv
    <3> QED BY <3>1, <3>2
  <2>7. ViewStep(in)
    BY <1>2, <1>3, <1>8, <2>1 DEF ViewStep
  <2> QED BY <2>4, <2>5, <2>6, <2>7 DEF DataGood
<1>10. CASE ~dirty
  <2>1. Arrays(in, {flushIdx}, FALSE) /\ memReq' = NoMem /\ inhibit' = FALSE
    BY <1>1, <1>3, <1>10 DEF Asks
  <2>2. /\ arr' \in [Sets -> Rows] /\ mem' \in Mems /\ ~arr'[flushIdx].valid
        /\ \A s \in Sets : s # flushIdx => arr'[s] = arr[s]
        /\ RowsInv(arr', mem') /\ ViewOf(arr', mem') = ViewOf(arr, mem)
    BY <1>2, <1>4, <1>10, <2>1, RowGivenUp
  <2>3. CacheData'
    BY <1>1, <1>5, <1>6, <2>1, <2>2, RowFields, PortsIdle DEF CacheData
  <2>4. MemInv'
    BY <2>1, <2>2, RowFields DEF MemInv
  <2>5. Invalid(arr', flushIdx + 1)
    <3> SUFFICES ASSUME NEW s \in Sets, s < flushIdx + 1 PROVE ~arr'[s].valid
      BY DEF Invalid
    <3>1. s = flushIdx \/ s < flushIdx
      BY <1>5 DEF Sets
    <3> QED BY <1>4, <2>2, <3>1 DEF Invalid
  <2>6. WalkInv'
    <3>1. CASE last
      <4>1. state' = "ACTIVE" /\ mq' = <<>> /\ p1'.req = NoReq /\ Invalid(arr', NumSets)
        BY <1>1, <1>4, <1>5, <1>6, <1>10, <2>5, <3>1
      <4> QED BY <4>1 DEF WalkInv
    <3>2. CASE ~last
      <4>1. state' = "FLUSH_CACHE" /\ flushDone' = FALSE /\ flushIdx' = flushIdx + 1
        BY <1>1, <1>5, <1>10, <3>2
      <4>2. p1'.out = arr'[flushIdx']
        <5>1. flushIdx' # flushIdx /\ p1'.out = arr[flushIdx']
          BY <1>5, <1>6, <4>1
        <5> QED BY <1>5, <2>2, <5>1
      <4> QED BY <2>5, <4>1, <4>2 DEF WalkInv
    <3> QED BY <3>1, <3>2
  <2>7. ViewStep(in)
    BY <1>2, <1>8, <2>2 DEF ViewStep
  <2> QED BY <2>3, <2>4, <2>6, <2>7 DEF DataGood
<1> QED BY <1>7, <1>9, <1>10

(* A store that is written to the arrays is seen there (t_wr_array). *)
LEMMA WriteShows ==
    ASSUME NEW a \in [Sets -> Rows], NEW m \in Mems, NEW r \in Reqs, r.op.store,
           a[r.op.set].valid, a[r.op.set].tag = r.op.tag,
           NEW b \in [Sets -> Rows], \A s \in Sets : s # r.op.set => b[s] = a[s],
           b[r.op.set].valid, b[r.op.set].tag = r.op.tag, b[r.op.set].dirty,
           \A w \in Words : b[r.op.set].data[w] =
              IF w \in r.op.words THEN r.op.val ELSE a[r.op.set].data[w]
    PROVE  /\ ViewOf(b, m) = WrittenOf(a, m, r)
           /\ RowsInv(a, m) => RowsInv(b, m)
<1>1. /\ r.op.set \in Sets /\ r.op.tag \in Tags /\ r.op.val \in Vals /\ r.op \in Ops /\ r # NoReq
  BY OpFields, ReqFields DEF Reqs
<1>2. RowsInv(a, m) => RowsInv(b, m)
  BY DEF RowsInv
<1> DEFINE v == ViewOf(a, m)
           u == ViewOf(b, m)
           n == After(v, <<r>>, {1})
<1>3. v \in Mems /\ u \in Mems
  BY ViewIs
<1>4. WrittenOf(a, m, r) = n
  BY <1>1 DEF WrittenOf
<1>5. /\ \A s \in Sets, t \in Tags :
            v[s][t] = IF a[s].valid /\ a[s].tag = t THEN a[s].data ELSE m[s][t]
      /\ \A s \in Sets, t \in Tags :
            u[s][t] = IF b[s].valid /\ b[s].tag = t THEN b[s].data ELSE m[s][t]
  BY ViewIs
<1> HIDE DEF v, u
<1>6. n \in Mems
  <2>1. \A i \in {1} : <<r>>[i].op \in Ops
    BY <1>1
  <2> QED BY <1>3, <2>1, PlacesAre, AfterMems
<1>7. ASSUME NEW s \in Sets, NEW t \in Tags, NEW w \in Words
      PROVE  n[s][t][w] = IF r.op.set = s /\ r.op.tag = t /\ w \in r.op.words
                          THEN r.op.val ELSE v[s][t][w]
  <2> PICK ws : ws = Writers(<<r>>, {1}, s, t, w)
    OBVIOUS
  <2>1. \A i \in ws : i = 1
    BY DEF Writers
  <2>2. 1 \in ws <=> r.op.set = s /\ r.op.tag = t /\ w \in r.op.words
    BY DEF Writers
  <2>3. {1} \in Places
    BY PlacesAre
  <2>4. \/ ws = {} /\ n[s][t][w] = v[s][t][w]
        \/ \E i \in ws : n[s][t][w] = <<r>>[i].op.val
    BY <2>3, WordAfter
  <2>5. <<r>>[1].op.val = r.op.val
    OBVIOUS
  <2> HIDE DEF n
  <2> QED BY <2>1, <2>2, <2>4, <2>5
<1> HIDE DEF n
<1>8. ASSUME NEW s \in Sets, NEW t \in Tags, NEW w \in Words
      PROVE  u[s][t][w] = IF r.op.set = s /\ r.op.tag = t /\ w \in r.op.words
                          THEN r.op.val ELSE v[s][t][w]
  <2>1. CASE s = r.op.set /\ t = r.op.tag
    <3>1. u[s][t] = b[r.op.set].data /\ v[s][t] = a[r.op.set].data
      BY <1>5, <2>1
    <3> QED BY <2>1, <3>1
  <2>2. CASE s = r.op.set /\ t # r.op.tag
    <3>1. u[s][t] = v[s][t]
      BY <1>5, <2>2
    <3> QED BY <2>2, <3>1
  <2>3. CASE s # r.op.set
    <3>1. u[s][t] = v[s][t]
      BY <1>5, <2>3
    <3> QED BY <2>3, <3>1
  <2> QED BY <2>1, <2>2, <2>3
<1>9. u = n
  BY <1>3, <1>6, <1>7, <1>8, SameLines
<1> QED BY <1>2, <1>4, <1>9 DEF u

(* What an active cycle does to the arrays: it writes the store of port 1, if
   that hits. *)
LEMMA ActiveArrays ==
    ASSUME NEW in, DataBefore(in), Active(in), Store1 => p1.val = Op1.val
    PROVE  /\ arr' \in [Sets -> Rows] /\ mem' = mem /\ RowsInv(arr', mem')
           /\ ViewOf(arr', mem') = IF Miss THEN ViewOf(arr, mem) ELSE Written
           /\ ~WriteArray => arr' = arr
           /\ WriteArray =>
                 /\ StoreData \in Lines /\ arr'[Op1.set].data = StoreData
                 /\ \A w \in Words : StoreData[w] =
                       IF w \in Op1.words THEN Op1.val ELSE arr[Op1.set].data[w]
           /\ \A s \in Sets : /\ arr'[s].valid = arr[s].valid /\ arr'[s].tag = arr[s].tag
                              /\ s # Op1.set => arr'[s] = arr[s]
           /\ WriteArray <=> p1.on /\ Op1.store /\ ~Miss
           /\ Miss => ~WriteArray
<1>1. state = "ACTIVE" /\ Arrays(in, {}, WriteArray)
  BY DEF Active
<1>2. state \notin Waiting
  BY <1>1 DEF Waiting
<1>3. in.rsp = FALSE /\ mem' = mem
  BY <1>2, NoAnswer
<1>4. /\ arr \in [Sets -> Rows] /\ mem \in Mems /\ RowsInv(arr, mem) /\ CacheInv /\ Fits(in)
  BY DEF DataBefore, CacheData, MemInv
<1>5. /\ p1.req # NoReq <=> p1.on
      /\ ~Miss /\ p1.on => Hit1
      /\ Store1 <=> p1.on /\ Op1.store
  BY <1>1, <1>4, ActiveFacts
<1>6. p1.on => p1.retry \/ p1.reload
  BY <1>4 DEF CacheInv, StateInv
<1>7. /\ WriteArray => p1.on /\ Op1.store /\ TagMatch1
      /\ p1.on /\ Op1.store /\ ~Miss => WriteArray
      /\ Miss => ~WriteArray
  BY <1>5, <1>6 DEF WriteArray, StoreHit, Hit1, Miss
<1>8. Written = WrittenOf(arr, mem, p1.req)
  BY DEF Written, WrittenOf, View, ViewOf
<1>9. arr' = [s \in Sets |-> IF WriteArray /\ s = Op1.set
                             THEN [arr[s] EXCEPT !.dirty = TRUE, !.data = StoreData]
                             ELSE arr[s]]
  BY <1>1, <1>3 DEF Arrays
<1>10. CASE ~WriteArray
  <2>1. arr' = arr
    BY <1>4, <1>9, <1>10
  <2>2. ~Miss => Written = ViewOf(arr, mem)
    <3> SUFFICES ASSUME ~Miss PROVE Written = ViewOf(arr, mem)
      OBVIOUS
    <3>1. p1.req \in Reqs \cup {NoReq} /\ (p1.req # NoReq => ~p1.req.op.store)
      BY <1>4, <1>5, <1>7, <1>10 DEF CacheInv, CacheType, Op1
    <3> QED BY ONLY <1>4, <1>8, <3>1, NothingWritten
  <2> QED BY <1>3, <1>4, <1>5, <1>7, <1>10, <2>1, <2>2
<1>11. CASE WriteArray
  <2>1. p1.on /\ Op1.store /\ TagMatch1 /\ p1.val = Op1.val /\ ~Miss
    BY <1>5, <1>7, <1>11
  <2>2. p1.req \in Reqs /\ p1.out = arr[Op1.set]
    BY <1>4, <2>1 DEF CacheInv, StateInv, CacheType
  <2>3. p1.req.op.set \in Sets /\ p1.req.op.store /\ Op1 = p1.req.op /\ Op1.val \in Vals
    <3>1. p1.req.op \in Ops
      BY <2>2 DEF Reqs
    <3> QED BY <2>1, <3>1, OpFields DEF Op1
  <2>4. /\ arr[Op1.set] \in Rows /\ arr[Op1.set].data \in [Words -> Vals]
        /\ arr[Op1.set].valid /\ arr[Op1.set].tag = Op1.tag
    <3>1. arr[Op1.set] \in Rows
      BY <1>4, <2>3
    <3> QED BY <2>1, <2>2, <3>1, RowFields DEF TagMatch1, Lines
  <2>5. /\ StoreData \in Lines
        /\ \A w \in Words : StoreData[w] =
              IF w \in Op1.words THEN Op1.val ELSE arr[Op1.set].data[w]
    BY <2>1, <2>2, <2>3, <2>4 DEF StoreData, Merge, Lines
  <2> DEFINE written == [arr[Op1.set] EXCEPT !.dirty = TRUE, !.data = StoreData]
  <2> PICK row : row = written
    OBVIOUS
  <2>6. /\ row \in Rows /\ row.valid = arr[Op1.set].valid /\ row.tag = arr[Op1.set].tag
        /\ row.dirty /\ row.data = StoreData
    BY ONLY <2>4, <2>5, row = written DEF Rows, written
  <2>7. /\ arr' \in [Sets -> Rows] /\ arr'[Op1.set] = row
        /\ \A s \in Sets : s # Op1.set => arr'[s] = arr[s]
    BY <1>4, <1>9, <1>11, <2>3, <2>6
  <2>8. ViewOf(arr', mem) = WrittenOf(arr, mem, p1.req) /\ RowsInv(arr', mem)
    <3> PICK b : b = arr'
      OBVIOUS
    <3> PICK set : set = Op1.set
      OBVIOUS
    <3> PICK r : r = p1.req
      BY Zenon
    <3>1. /\ b \in [Sets -> Rows] /\ r \in Reqs /\ r.op.store /\ set = r.op.set
          /\ \A s \in Sets : s # set => b[s] = arr[s]
          /\ b[set].valid /\ b[set].tag = r.op.tag /\ b[set].dirty
          /\ arr[set].valid /\ arr[set].tag = r.op.tag
          /\ \A w \in Words : b[set].data[w] =
                IF w \in r.op.words THEN r.op.val ELSE arr[set].data[w]
      BY <2>2, <2>3, <2>4, <2>5, <2>6, <2>7
    <3>2. ViewOf(b, mem) = WrittenOf(arr, mem, r) /\ RowsInv(b, mem)
      BY ONLY <1>4, <3>1, WriteShows
    <3> QED BY <3>2
  <2>9. \A s \in Sets : /\ arr'[s].valid = arr[s].valid /\ arr'[s].tag = arr[s].tag
                        /\ s # Op1.set => arr'[s] = arr[s]
    BY <2>6, <2>7
  <2> QED BY <1>3, <1>7, <1>8, <1>11, <2>1, <2>5, <2>6, <2>7, <2>8, <2>9
<1> QED BY <1>10, <1>11

(* What port 2 reads and compares while a request is taken. *)
LEMMA NextPort2 ==
    ASSUME NEW in, DataBefore(in), Active(in), Store1 => p1.val = Op1.val
    PROVE  /\ p2' = [req |-> p2'.req, out |-> p2'.out, fwd |-> p2'.fwd, wrData |-> p2'.wrData,
                     busy |-> p2'.busy, busyWord |-> p2'.busyWord, unaligned |-> p2'.unaligned]
           /\ p2'.out \in Rows /\ p2'.fwd \in BOOLEAN /\ p2'.wrData \in Lines
           /\ p2'.busy \in BOOLEAN /\ p2'.busyWord \in BOOLEAN /\ p2'.unaligned \in BOOLEAN
           /\ Accept(in) =>
                 /\ p2'.req = in.req /\ p2'.out = arr[in.req.op.set]
                 /\ p2'.fwd <=> CmBlock(in.req)
                 /\ p2'.fwd => p2'.wrData = StoreData
                 /\ p2'.busy <=> \E q \in Queued : q.op.set = in.req.op.set
                                                   /\ (q.op.store \/ in.req.op.store)
                 /\ p2'.busyWord <=> \E q \in Queued : q.op.set = in.req.op.set
                                        /\ q.op.tag = in.req.op.tag /\ q.op.word = in.req.op.word
                 /\ p2'.unaligned <=> in.req.op.unaligned \/ \E q \in Queued : q.op.unaligned
<1>1. state = "ACTIVE" /\ p2' = NextP2(in) /\ CacheInv /\ Fits(in) /\ arr \in [Sets -> Rows]
  BY DEF Active, DataBefore, CacheData
<1>2. CASE ~Accept(in)
  <2>1. p2' = NoP2
    BY <1>1, <1>2 DEF NextP2
  <2> QED BY <1>2, <2>1, PortsIdle
<1>3. CASE Accept(in)
  <2> PICK r : r = in.req
    OBVIOUS
  <2> PICK busy, word, unaligned, data :
         /\ busy = \E q \in Queued : q.op.set = r.op.set /\ (q.op.store \/ r.op.store)
         /\ word = \E q \in Queued : q.op.set = r.op.set /\ q.op.tag = r.op.tag
                                                         /\ q.op.word = r.op.word
         /\ unaligned = (r.op.unaligned \/ \E q \in Queued : q.op.unaligned)
         /\ data = IF CmBlock(r) THEN StoreData ELSE Zeros
    OBVIOUS
  <2>1. p2' = [req |-> r, out |-> arr[r.op.set], fwd |-> CmBlock(r), wrData |-> data,
               busy |-> busy, busyWord |-> word, unaligned |-> unaligned]
    BY <1>1, <1>3 DEF NextP2
  <2>2. r \in Reqs /\ r.op.set \in Sets
    BY <1>1, <1>3, ActiveFacts, ReqFields
  <2>3. CmBlock(r) => WriteArray
    <3>1. CmBlock(r) => p1.on /\ Op1.store
      BY DEF CmBlock, LastWr
    <3>2. ~Miss
      BY <1>3 DEF Accept
    <3> QED BY <3>1, <3>2, ActiveArrays
  <2>4. data \in Lines
    BY <2>3, ActiveArrays, RowFields
  <2>5. arr[r.op.set] \in Rows /\ CmBlock(r) \in BOOLEAN
    BY <1>1, <2>2 DEF CmBlock, LastWr
  <2>6. busy \in BOOLEAN /\ word \in BOOLEAN /\ unaligned \in BOOLEAN
    <3>1. r.op.unaligned \in BOOLEAN
      BY <2>2, OpFields DEF Reqs
    <3> QED BY <3>1
  <2>7. /\ p2'.req = r /\ p2'.out = arr[r.op.set] /\ p2'.fwd = CmBlock(r) /\ p2'.wrData = data
        /\ p2'.busy = busy /\ p2'.busyWord = word /\ p2'.unaligned = unaligned
    BY <2>1
  <2>8. p2' = [req |-> p2'.req, out |-> p2'.out, fwd |-> p2'.fwd, wrData |-> p2'.wrData,
               busy |-> p2'.busy, busyWord |-> p2'.busyWord, unaligned |-> p2'.unaligned]
    BY <2>1
  <2> QED BY <1>3, <2>4, <2>5, <2>6, <2>7, <2>8
<1> QED BY <1>2, <1>3

(* A cycle in which the cache serves requests (ACTIVE). *)
LEMMA ActiveData ==
    ASSUME NEW in, DataBefore(in), Active(in), Store1 => p1.val = Op1.val
    PROVE  DataGood(in)
<1>1. /\ state = "ACTIVE"
      /\ state' = IF FlushStarts(in) THEN "FLUSH_CACHE"
                  ELSE IF MissStarts THEN "INJECT_RELOAD" ELSE state
      /\ Asks(in, IF ~MissStarts THEN NoMem ELSE IF DirtyMiss THEN Victim ELSE Fetch)
      /\ inhibit' = IF Miss THEN DirtyMiss ELSE inhibit
      /\ flushIdx' = 0 /\ flushDone' = FALSE
  BY DEF Active
<1>2. /\ state \notin Waiting /\ state \notin Starting /\ state' \notin Starting
  BY <1>1 DEF Waiting, Starting
<1>3. in.rsp = FALSE /\ memReq = NoMem /\ inhibit = FALSE /\ mem' = mem
  BY <1>2, NoAnswer
<1>4. /\ arr \in [Sets -> Rows] /\ mem \in Mems /\ CacheInv /\ Fits(in) /\ MemInv
      /\ arr' \in [Sets -> Rows] /\ RowsInv(arr', mem') /\ mq \in Seq(Reqs)
  BY ActiveArrays DEF DataBefore, CacheData, CacheInv, CacheType
<1>5. /\ Miss => MissStarts /\ ~Fires(in) /\ ~FlushStarts(in) /\ ~StoreFires(in)
      /\ ~Miss => ~MissStarts
      /\ FlushStarts(in) => ~p1.on /\ ~Fires(in)
  <2>1. Miss => p1.on
    BY DEF Miss
  <2> QED BY <1>1, <1>4, <2>1, ActiveFacts DEF Fires, Pops
<1>6. Fires(in) => Head1 \in Reqs /\ mq # <<>>
  <2>1. Fires(in) => mq # <<>>
    BY DEF Fires, LoadFires, StoreFires, MayFire
  <2> QED BY <1>4, <2>1 DEF Head1
<1>7. /\ Miss => p1'.req = p1.req
      /\ Fires(in) => p1'.req = Head1 /\ p1'.out = arr[Head1.op.set]
      /\ ~Miss /\ ~Fires(in) => p1'.req = NoReq
  BY <1>4, ActivePorts
<1>8. p1'.out \in Rows /\ (FlushStarts(in) => p1'.out = arr[0])
  <2>1. CASE Fires(in)
    <3>1. Head1.op.set \in Sets
      BY <1>6, <2>1, ReqFields
    <3> QED BY <1>4, <1>5, <1>7, <2>1, <3>1
  <2>2. CASE ~Fires(in)
    <3>1. p1' = (IF FlushStarts(in) THEN Read(0)
                 ELSE IF MissStarts THEN [p1 EXCEPT !.on = FALSE, !.out = NoLine] ELSE NoP1)
      BY <2>2 DEF Active
    <3>2. p1 = [on |-> p1.on, req |-> p1.req, val |-> p1.val, retry |-> p1.retry,
                reload |-> p1.reload, busy |-> p1.busy, out |-> p1.out]
      BY <1>4 DEF CacheInv, CacheType
    <3>3. [p1 EXCEPT !.on = FALSE, !.out = NoLine].out = NoLine
      BY <3>2
    <3>4. 0 \in Sets
      BY L1DAssumption DEF Sets
    <3> QED BY <1>4, <3>1, <3>3, <3>4, PortsIdle, RowFields
  <2> QED BY <2>1, <2>2
<1>9. Miss => /\ p1.out = arr[Op1.set] /\ p1.out \in Rows /\ Op1.set \in Sets /\ Op1.tag \in Tags
  <2> SUFFICES ASSUME Miss PROVE p1.out = arr[Op1.set] /\ Op1.set \in Sets /\ Op1.tag \in Tags
    BY <1>4
  <2>1. p1.on /\ p1.req \in Reqs /\ p1.out = arr[Op1.set]
    BY <1>4 DEF Miss, CacheInv, StateInv, CacheType
  <2>2. p1.req.op \in Ops
    BY <2>1 DEF Reqs
  <2> QED BY <2>1, <2>2, OpFields DEF Op1
<1>10. memReq' \in MemReqs /\ MemInv'
  <2>1. CASE ~Miss
    <3>1. memReq' = NoMem /\ inhibit' = FALSE
      BY <1>1, <1>3, <1>5, <2>1 DEF Asks
    <3> QED BY <1>4, <3>1, RowFields DEF MemInv
  <2>2. CASE Miss /\ DirtyMiss
    <3>1. Victim \in MemReqs /\ Victim.valid
      BY <1>9, <2>2, RowFields DEF Victim, MemReqs
    <3>2. memReq' = Victim
      <4>1. Victim # NoMem
        BY <3>1, RowFields
      <4> QED BY <1>1, <1>5, <2>2, <4>1 DEF Asks
    <3>3. /\ memReq'.store /\ memReq'.valid /\ memReq'.set = Op1.set /\ memReq'.tag = p1.out.tag
          /\ memReq'.data = p1.out.data
      BY <3>2 DEF Victim
    <3>4. arr' = arr /\ p1.out.valid /\ p1.out.dirty
      BY <2>2, ActiveArrays DEF DirtyMiss
    <3> QED BY <1>1, <1>4, <1>9, <2>2, <3>1, <3>2, <3>3, <3>4 DEF MemInv
  <2>3. CASE Miss /\ ~DirtyMiss
    <3>1. Fetch \in MemReqs /\ Fetch.valid
      BY <1>9, <2>3, RowFields DEF Fetch, MemReqs
    <3>2. memReq' = Fetch
      <4>1. Fetch # NoMem
        BY <3>1, RowFields
      <4> QED BY <1>1, <1>5, <2>3, <4>1 DEF Asks
    <3>3. ~memReq'.store /\ memReq'.valid /\ memReq'.set = Op1.set
      BY <3>2 DEF Fetch
    <3>4. arr' = arr /\ ~(p1.out.valid /\ p1.out.dirty)
      BY <2>3, ActiveArrays DEF DirtyMiss
    <3>5. state' = "INJECT_RELOAD" /\ inhibit' = FALSE
      <4>1. inhibit' = DirtyMiss
        BY <1>1, <2>3
      <4>2. DirtyMiss \in BOOLEAN
        BY DEF DirtyMiss, Miss
      <4> QED BY <1>1, <1>5, <2>3, <4>1, <4>2
    <3>6. ~(arr'[memReq'.set].valid /\ arr'[memReq'.set].dirty)
      BY <1>9, <2>3, <3>3, <3>4
    <3>7. MemInv'
      BY ONLY <1>4, <3>3, <3>5, <3>6 DEF MemInv
    <3> QED BY <3>1, <3>2, <3>7
  <2> QED BY <2>1, <2>2, <2>3
<1>11. CacheData'
  <2>1. 0 \in Sets
    BY L1DAssumption DEF Sets
  <2> QED BY <1>1, <1>3, <1>4, <1>8, <1>10, <2>1, NextPort2 DEF CacheData
<1>12. WalkInv'
  <2>1. CASE FlushStarts(in)
    <3>1. arr' = arr
      BY <1>5, <2>1, ActiveArrays
    <3>2. Invalid(arr', 0)
      BY DEF Invalid, Sets
    <3> QED BY <1>1, <1>8, <2>1, <3>1, <3>2 DEF WalkInv
  <2>2. CASE ~FlushStarts(in)
    BY <1>1, <2>2 DEF WalkInv
  <2> QED BY <2>1, <2>2
<1>13. ViewStep(in)
  <2>1. Written = WrittenOf(arr, mem, p1.req)
    BY DEF Written, WrittenOf, View, ViewOf
  <2>2. CASE Miss
    <3>1. arr' = arr /\ ~StoreFires(in)
      BY <1>5, <2>2, ActiveArrays
    <3> QED BY <1>2, <1>3, <1>7, <2>1, <2>2, <3>1 DEF ViewStep
  <2>3. CASE ~Miss /\ ~Fires(in)
    <3>1. ViewOf(arr', mem') = Written /\ p1'.req = NoReq /\ ~StoreFires(in)
      BY <1>7, <2>3, ActiveArrays DEF Fires
    <3> QED BY <1>2, <3>1 DEF ViewStep, WrittenOf
  <2>4. CASE ~Miss /\ LoadFires
    <3>1. ViewOf(arr', mem') = Written /\ p1'.req = Head1 /\ ~StoreFires(in) /\ ~Head1.op.store
      BY <1>7, <2>4, ActiveArrays DEF Fires, LoadFires, StoreFires
    <3>2. WrittenOf(arr', mem', Head1) = ViewOf(arr', mem')
      BY <1>3, <1>4, <1>6, <2>4, <3>1, NothingWritten DEF Fires
    <3> QED BY <1>2, <3>1, <3>2 DEF ViewStep
  <2>5. CASE ~Miss /\ StoreFires(in)
    <3>1. ViewOf(arr', mem') = Written /\ p1'.req = Head1 /\ Head1 \in Reqs
      BY <1>6, <1>7, <2>5, ActiveArrays DEF Fires
    <3>2. WrittenOf(arr', mem', Head1) = After(Written, <<Head1>>, {1})
      BY <3>1, ReqFields DEF WrittenOf
    <3>3. Written \in Mems
      <4>1. ViewOf(arr', mem') \in Mems
        BY <1>3, <1>4, ViewIs
      <4> QED BY <3>1, <4>1
    <3>4. After(Written, <<Head1>>, {1}) = After(Written, mq, {1})
      <4>1. \A i \in {1} : <<Head1>>[i].op \in Ops /\ <<Head1>>[i].op = mq[i + 0].op /\ i + 0 \in {1}
        BY <3>1 DEF Reqs, Head1
      <4>2. \A j \in {1} : j - 0 \in {1}
        OBVIOUS
      <4> QED BY <3>3, <4>1, <4>2, PlacesAre, AfterShifted
    <3> QED BY <1>1, <1>2, <2>5, <3>1, <3>2, <3>4 DEF ViewStep
  <2> QED BY <2>2, <2>3, <2>4, <2>5 DEF Fires
<1> QED BY <1>10, <1>11, <1>12, <1>13 DEF DataGood

(* Every cycle of the cache. *)
LEMMA CacheKeepsLines ==
    ASSUME NEW in, DataBefore(in), CacheStep(in), Store1 => p1.val = Op1.val
    PROVE  DataGood(in)
BY InitializeData, InitCacheData, ActiveData, InjectReloadData, HandleReloadData,
   FlushCacheData, FlushCacheWaitData DEF CacheStep

(* The queue after an active cycle, place by place: h requests leave at its head and
   that of port 2 enters, or not. *)
LEMMA ActivePlaces ==
    ASSUME CacheInv, NEW in, Fits(in), Active(in)
    PROVE  /\ mq \in Seq(Reqs) /\ mq' \in Seq(Reqs)
           /\ \E h \in {0, 1} :
                /\ h = 1 <=> Pops(in)
                /\ h <= Len(mq) /\ Len(mq') = Len(mq) - h + (IF PushMiss(in) THEN 1 ELSE 0)
                /\ \A i \in 1 .. Len(mq) - h : mq'[i] = mq[i + h]
                /\ PushMiss(in) => p2.req \in Reqs /\ mq'[Len(mq) - h + 1] = p2.req
<1> PICK h \in {0, 1} : h = 1 <=> Pops(in)
  OBVIOUS
<1>1. /\ mq \in Seq(Reqs) /\ mq' \in Seq(Reqs) 
      /\ PushMiss(in) => p2.req \in Reqs
  BY ActiveQueue DEF CacheInv, CacheType
<1>2. Pops(in) => mq # <<>>
  BY DEF Pops, Fires, LoadFires, StoreFires, StoreKilled, MayFire
<1> PICK left : left = QueueLeft(in)
  OBVIOUS
<1>3. /\ left \in Seq(Reqs) /\ Len(left) = Len(mq) - h /\ h <= Len(mq)
      /\ \A i \in 1 .. Len(mq) - h : left[i] = mq[i + h]
  <2>1. CASE Pops(in)
    <3>1. left = Tail(mq) /\ h = 1
      BY <2>1 DEF QueueLeft
    <3> QED BY <1>1, <1>2, <2>1, <3>1
  <2>2. CASE ~Pops(in)
    <3>1. left = mq /\ h = 0
      BY <2>2 DEF QueueLeft
    <3> QED BY <1>1, <3>1
  <2> QED BY <2>1, <2>2
<1>4. mq' = left \o (IF PushMiss(in) THEN <<p2.req>> ELSE <<>>)
  BY DEF Active
<1>5. CASE PushMiss(in)
  <2>1. mq' = left \o <<p2.req>> /\ p2.req \in Reqs
    BY <1>1, <1>4, <1>5
  <2>2. Len(mq') = Len(left) + 1 /\ mq'[Len(left) + 1] = p2.req
        /\ \A i \in 1 .. Len(left) : mq'[i] = left[i]
    <3> PICK p, x : p = mq' /\ x = p2.req
      OBVIOUS
    <3>1. left \in Seq(Reqs) /\ x \in Reqs /\ p = left \o <<x>>
      BY <1>3, <2>1
    <3>2. Len(p) = Len(left) + 1 /\ p[Len(left) + 1] = x
          /\ \A i \in 1 .. Len(left) : p[i] = left[i]
      BY ONLY <3>1
    <3> QED BY <3>2
  <2> QED BY <1>1, <1>3, <1>5, <2>1, <2>2
<1>6. CASE ~PushMiss(in)
  <2>1. mq' = left
    BY <1>3, <1>4, <1>6
  <2> QED BY <1>1, <1>3, <1>6, <2>1
<1> QED BY <1>5, <1>6

(* What port 2 has read for a load is, if it may answer from it, what the load is
   to see: no store that is still queued or in port 1 covers it. *)
LEMMA BypassSound ==
    ASSUME NEW in, DataBefore(in), Active(in), Store1 => p1.val = Op1.val
    PROVE  Port2Inv'
<1>1. /\ state = "ACTIVE" /\ CacheInv /\ Fits(in) /\ arr \in [Sets -> Rows]
      /\ mq \in Seq(Reqs) /\ (On2' <=> Accept(in))
      /\ p1.on => p1.out = arr[Op1.set]
  BY ActivePorts DEF Active, DataBefore, CacheData, CacheInv, CacheType, StateInv
<1> SUFFICES ASSUME Accept(in), ~p2'.req.op.store, Hit2', MayBypass'
             PROVE  LET op == p2'.req.op IN
                    /\ arr'[op.set].valid /\ arr'[op.set].tag = op.tag
                    /\ \A w \in op.words :
                        /\ Data2'[w] = arr'[op.set].data[w]
                        /\ ~(p1'.on /\ p1'.req.op.set = op.set /\ p1'.req.op.tag = op.tag
                                    /\ p1'.req.op.store /\ w \in p1'.req.op.words)
                        /\ Writers(mq', DOMAIN mq', op.set, op.tag, w) = {}
  BY <1>1 DEF Port2Inv, Op1
<1> PICK r : r = in.req
  OBVIOUS
<1>2. /\ p2'.req = r /\ p2'.out = arr[r.op.set]
      /\ p2'.fwd \in BOOLEAN /\ p2'.busy \in BOOLEAN /\ p2'.busyWord \in BOOLEAN
      /\ p2'.unaligned \in BOOLEAN
      /\ p2'.fwd <=> CmBlock(r)
      /\ p2'.fwd => p2'.wrData = StoreData
      /\ p2'.busy <=> \E q \in Queued : q.op.set = r.op.set /\ (q.op.store \/ r.op.store)
      /\ p2'.busyWord <=> \E q \in Queued : q.op.set = r.op.set
                                   /\ q.op.tag = r.op.tag /\ q.op.word = r.op.word
      /\ p2'.unaligned <=> r.op.unaligned \/ \E q \in Queued : q.op.unaligned
  BY NextPort2
<1>3. r \in Reqs /\ r.op \in Ops /\ r.op.set \in Sets /\ ~r.op.store /\ r.op.tag \in Tags
  <2>1. r \in Reqs /\ r.op \in Ops /\ ~r.op.store
    BY <1>1, <1>2, ActiveFacts DEF Reqs
  <2> QED BY ONLY <2>1, OpFields
<1>4. /\ ~Miss /\ ~LoadFires /\ ~BehindStore(r)
  BY DEF Accept
<1>5. arr[r.op.set].valid /\ arr[r.op.set].tag = r.op.tag
  BY <1>2 DEF Hit2
<1>6. ~p2'.busy \/ (r.op.lw /\ ~p2'.busyWord /\ ~p2'.unaligned)
  BY <1>2 DEF MayBypass
<1>7. arr'[r.op.set].valid /\ arr'[r.op.set].tag = r.op.tag
  BY <1>3, <1>5, ActiveArrays
<1>8. Data2' = arr'[r.op.set].data
  <2>1. Data2' = IF p2'.fwd THEN p2'.wrData ELSE p2'.out.data
    BY DEF Data2
  <2>2. CASE CmBlock(r)
    <3>1. p1.on /\ Op1.store /\ Op1.set = r.op.set
      BY <2>2 DEF CmBlock, LastWr
    <3>2. arr'[Op1.set].data = StoreData
      BY <1>4, <3>1, ActiveArrays
    <3> QED BY <1>2, <2>1, <2>2, <3>1, <3>2
  <2>3. CASE ~CmBlock(r)
    <3>1. arr'[r.op.set] = arr[r.op.set]
      <4>1. CASE WriteArray /\ Op1.set = r.op.set
        <5>1. p1.on /\ Op1.store /\ Hit1
          BY <4>1 DEF WriteArray, StoreHit, Hit1
        <5>2. arr[Op1.set].tag = Op1.tag
          BY <1>1, <5>1 DEF Hit1, TagMatch1
        <5>3. CmBlock(r)
          BY <1>5, <4>1, <5>1, <5>2 DEF CmBlock, LastWr
        <5> QED BY <2>3, <5>3
      <4>2. CASE ~(WriteArray /\ Op1.set = r.op.set)
        BY <1>3, <4>2, ActiveArrays
      <4> QED BY <4>1, <4>2
    <3> QED BY <1>2, <2>1, <2>3, <3>1
  <2> QED BY <2>2, <2>3
<1>9. ASSUME NEW q \in Queued, NEW w \in r.op.words
      PROVE  ~(q.op.store /\ q.op.set = r.op.set /\ q.op.tag = r.op.tag /\ w \in q.op.words)
  <2>1. q.op \in Ops
    <3>1. q \in Reqs
      BY <1>1 DEF Queued
    <3> QED BY <3>1 DEF Reqs
  <2>2. CASE ~p2'.busy
    BY <1>2, <2>2
  <2>3. CASE r.op.lw /\ ~p2'.busyWord /\ ~p2'.unaligned
    <3>1. ~r.op.unaligned /\ ~q.op.unaligned
      BY <1>2, <2>3
    <3>2. r.op.words \subseteq {r.op.word} /\ q.op.words \subseteq {q.op.word}
      BY <1>3, <2>1, <3>1, OpsAssumption
    <3>3. ~(q.op.set = r.op.set /\ q.op.tag = r.op.tag /\ q.op.word = r.op.word)
      BY <1>2, <2>3
    <3> QED BY <3>2, <3>3
  <2> QED BY <1>6, <2>2, <2>3
<1>10. ASSUME NEW w \in r.op.words
       PROVE  ~(p1'.on /\ p1'.req.op.set = r.op.set /\ p1'.req.op.tag = r.op.tag
                       /\ p1'.req.op.store /\ w \in p1'.req.op.words)
  <2> SUFFICES ASSUME p1'.on
               PROVE  ~(p1'.req.op.set = r.op.set /\ p1'.req.op.tag = r.op.tag
                       /\ p1'.req.op.store /\ w \in p1'.req.op.words)
    OBVIOUS
  <2>1. Fires(in) /\ p1'.req = Head1
    BY <1>1, <1>4, ActivePorts
  <2>2. mq # <<>>
    BY <2>1 DEF Fires, LoadFires, StoreFires, MayFire
  <2>3. 1 \in DOMAIN mq
    BY <1>1, <2>2
  <2>4. Head1 \in Queued
    BY <2>3 DEF Queued, Head1
  <2> QED BY <1>9, <2>1, <2>4
<1>11. ASSUME NEW w \in r.op.words
       PROVE  Writers(mq', DOMAIN mq', r.op.set, r.op.tag, w) = {}
  <2> SUFFICES ASSUME NEW i \in DOMAIN mq', mq'[i].op.store, mq'[i].op.set = r.op.set,
                      mq'[i].op.tag = r.op.tag, w \in mq'[i].op.words
               PROVE  FALSE
    BY DEF Writers
  <2>1. PICK h \in {0, 1} :
        /\ h <= Len(mq) /\ Len(mq') = Len(mq) - h + (IF PushMiss(in) THEN 1 ELSE 0)
        /\ \A j \in 1 .. Len(mq) - h : mq'[j] = mq[j + h]
        /\ PushMiss(in) => mq'[Len(mq) - h + 1] = p2.req
    BY <1>1, ActivePlaces
  <2> Len(mq) \in Nat /\ Len(mq') \in Nat /\ DOMAIN mq = 1 .. Len(mq)
      /\ DOMAIN mq' = 1 .. Len(mq')
    BY <1>1, ActivePlaces
  <2>2. CASE i \in 1 .. Len(mq) - h
    <3>1. i + h \in DOMAIN mq /\ mq'[i] = mq[i + h]
      BY <2>1, <2>2
    <3>2. mq'[i] \in Queued
      BY <3>1 DEF Queued
    <3> QED BY <1>9, <3>2
  <2>3. CASE ~(i \in 1 .. Len(mq) - h)
    <3>1. PushMiss(in) /\ i = Len(mq) - h + 1
      BY <2>1, <2>3
    <3>2. mq'[i] = p2.req /\ On2
      BY <2>1, <3>1 DEF PushMiss
    <3> QED BY <1>3, <1>4, <3>2 DEF BehindStore
  <2> QED BY <2>2, <2>3
<1> QED BY <1>2, <1>7, <1>8, <1>10, <1>11

-----------------------------------------------------------------------------
(***************************************************************************)
(* A cycle of the machine: first what the cache takes and answers, then    *)
(* what the core retires and allocates.                                    *)
(***************************************************************************)
\* The operation of the window whose request the cache takes.
Accepted(in) == IF state = "ACTIVE" /\ Accept(in) THEN QueueHead ELSE {}
\* The cache and the core see the same inputs.
Cycle(in) == /\ IInv /\ Fits(in) /\ in.req = Request /\ CacheStep(in)
             /\ HeldStep(in) /\ CacheInv'

(* The operation and the data of an entry of the window in a cycle. *)
LEMMA UpdatedAlso ==
    ASSUME CoreType, NEW in, NEW pop, NEW data
    PROVE  \A i \in DOMAIN win :
              /\ Updated(in, pop, data)[i].op = win[i].op
              /\ Updated(in, pop, data)[i].data <=> win[i].data \/ i \in data
<1> SUFFICES ASSUME NEW i \in DOMAIN win
             PROVE  /\ Updated(in, pop, data)[i].op = win[i].op
                    /\ Updated(in, pop, data)[i].data <=> win[i].data \/ i \in data
  OBVIOUS
<1>1. win[i] \in Entries
  BY DEF CoreType
<1>2. PICK st : st = IF win[i].rob = Response(in).rob THEN "done"
                     ELSE IF i \in QueueHead /\ state = "ACTIVE" /\ Accept(in) THEN "sent"
                     ELSE IF i \in pop THEN "queued" ELSE win[i].st
  OBVIOUS
<1>3. Updated(in, pop, data)[i] = [win[i] EXCEPT !.st = st, !.data = @ \/ i \in data]
  BY <1>2 DEF Updated
<1>4. Updated(in, pop, data)[i].op = win[i].op
  BY <1>1, <1>3 DEF Entries
<1>5. Updated(in, pop, data)[i].data = (win[i].data \/ i \in data)
  BY <1>1, <1>3 DEF Entries
<1> QED BY <1>4, <1>5

(* What a cycle does to the window before anything retires: the stages of its
   operations stay in their order. *)
WindowTook(in, data, u) ==
    /\ Taken1(win, u, Accepted(in)) /\ NoTwo(win) /\ NoTwo(u)
    /\ \A k \in Accepted(in) : u[k].st = "sent"
    /\ \A l \in DOMAIN win :
         /\ u[l].data <=> win[l].data \/ l \in data
         /\ win[l].st = "sent" /\ win[l].rob # Response(in).rob => u[l].st = "sent"
         /\ win[l].st = "done" => u[l].st = "done"
    /\ data \in SUBSET (DOMAIN win)
    /\ \A l \in data : /\ win[l].op.store /\ ~win[l].data
                       /\ \A j \in DOMAIN win : win[j].op.store /\ ~win[j].data => l <= j
    /\ \A k \in data, l \in data : k = l
    /\ WindowOrder(win) => WindowOrder(u)

(* The window after a cycle of the queues, before anything retires. *)
LEMMA WindowTaken ==
    ASSUME NEW in, Cycle(in), NEW pop \in {{}, Oldest("new")}, NEW data \in {{}, DataHead},
           NEW u, u = Updated(in, pop, data)
    PROVE  WindowTook(in, data, u)
<1>1. /\ CoreType /\ NoTwo(win) /\ Sent = HeldLoads /\ in.req = Request
      /\ Response(in).rob # NoRob => Response(in).rob \in HeldLoads
      /\ \A i \in DOMAIN win : win[i] \in Entries
      /\ win \in Seq(Entries) /\ Len(win) \in Nat /\ DOMAIN win = 1 .. Len(win)
  BY DEF Cycle, IInv, TypeOK, CoreType, WindowInv, HeldInv, HeldStep
<1>2. PICK acc \in BOOLEAN : acc <=> state = "ACTIVE" /\ Accept(in)
  OBVIOUS
<1>3. /\ u \in Seq(Entries) /\ Len(u) = Len(win)
      /\ \A i \in DOMAIN win :
           /\ u[i].rob = win[i].rob
           /\ u[i].st = IF win[i].rob = Response(in).rob THEN "done"
                        ELSE IF i \in QueueHead /\ acc THEN "sent"
                        ELSE IF i \in pop THEN "queued" ELSE win[i].st
  <2>1. CoreType /\ u = Updated(in, pop, data)
    BY <1>1
  <2> PICK n \in 0 .. Len(win) : TRUE
    BY <1>1
  <2>2. /\ u \in Seq(Entries) /\ Len(u) = Len(win)
        /\ \A i \in DOMAIN win :
             /\ u[i].rob = win[i].rob
             /\ u[i].st = IF win[i].rob = Response(in).rob THEN "done"
                          ELSE IF i \in QueueHead /\ state = "ACTIVE" /\ Accept(in) THEN "sent"
                          ELSE IF i \in pop THEN "queued" ELSE win[i].st
    BY ONLY <2>1, n \in 0 .. Len(win), UpdatedIs
  <2> QED BY <1>2, <2>2
<1>4. \A i \in DOMAIN win : u[i].op = win[i].op /\ (u[i].data <=> win[i].data \/ i \in data)
  BY <1>1, UpdatedAlso
<1>5. \A i \in DOMAIN win : win[i].st \in {"new", "queued", "sent", "done"} /\ win[i].rob # NoRob
  BY <1>1, L1DAssumption DEF Entries
<1>6. Accepted(in) = IF acc THEN QueueHead ELSE {}
  BY <1>2 DEF Accepted
<1>7. \A k \in QueueHead : /\ k \in DOMAIN win /\ win[k].st = "queued"
                           /\ \A j \in 1 .. k - 1 : win[j].st # "queued"
  BY DEF QueueHead, Oldest
<1>8. \A l \in pop : /\ l \in DOMAIN win /\ win[l].st = "new"
                     /\ \A j \in 1 .. l - 1 : win[j].st # "new"
  BY DEF Oldest
<1>9. \A i \in DOMAIN win : win[i].rob = Response(in).rob => win[i].st = "sent"
  <2> SUFFICES ASSUME NEW i \in DOMAIN win, win[i].rob = Response(in).rob
               PROVE  win[i].st = "sent"
    OBVIOUS
  <2>1. win[i].rob \in Sent
    BY <1>1, <1>5
  <2>2. PICK j \in DOMAIN win : win[j].st = "sent" /\ win[j].rob = win[i].rob
    BY <2>1 DEF Sent
  <2>3. i = j
    BY <1>1, <2>2 DEF NoTwo
  <2> QED BY <2>2, <2>3
<1>10. Taken1(win, u, Accepted(in))
  <2>1. \A l \in DOMAIN win :
           u[l].st \in {"sent", "done"} <=> win[l].st \in {"sent", "done"} \/ l \in Accepted(in)
    <3> SUFFICES ASSUME NEW l \in DOMAIN win
                 PROVE  u[l].st \in {"sent", "done"}
                           <=> win[l].st \in {"sent", "done"} \/ l \in Accepted(in)
      OBVIOUS
    <3>1. CASE win[l].rob = Response(in).rob
      BY <1>3, <1>9, <3>1
    <3>2. CASE win[l].rob # Response(in).rob /\ l \in Accepted(in)
      BY <1>3, <1>6, <3>2
    <3>3. CASE win[l].rob # Response(in).rob /\ l \notin Accepted(in)
      BY <1>3, <1>6, <1>8, <3>3
    <3> QED BY <3>1, <3>2, <3>3
  <2>2. Accepted(in) \subseteq DOMAIN win
    BY <1>6, <1>7
  <2> QED BY <1>1, <1>3, <1>4, <1>6, <1>7, <2>1, <2>2 DEF Taken1
<1>11. NoTwo(u)
  <2>1. DOMAIN u = DOMAIN win
    BY <1>1, <1>3
  <2> QED BY <1>1, <1>3, <2>1 DEF NoTwo
<1>12. \A k \in Accepted(in) : u[k].st = "sent"
  <2> SUFFICES ASSUME NEW k \in Accepted(in) PROVE u[k].st = "sent"
    OBVIOUS
  <2>1. acc /\ k \in QueueHead /\ k \in DOMAIN win /\ win[k].st = "queued"
    BY <1>6, <1>7
  <2>2. win[k].rob # Response(in).rob
    BY <1>9, <2>1
  <2> QED BY <1>3, <2>1, <2>2
<1>13. \A l \in DOMAIN win : win[l].st = "sent" /\ win[l].rob # Response(in).rob
                                 => u[l].st = "sent"
  BY <1>3, <1>8
<1>17. \A l \in DOMAIN win : win[l].st = "done" => u[l].st = "done"
  BY <1>3, <1>7, <1>8
<1>14. /\ data \in SUBSET (DOMAIN win)
       /\ \A l \in data : /\ win[l].op.store /\ ~win[l].data
                          /\ \A j \in DOMAIN win : win[j].op.store /\ ~win[j].data => l <= j
  BY DEF DataHead, AwaitData
<1>15. \A k \in data, l \in data : k = l
  <2> SUFFICES ASSUME NEW k \in data, NEW l \in data PROVE k = l
    OBVIOUS
  <2>1. k <= l /\ l <= k /\ k \in DOMAIN win /\ l \in DOMAIN win
    BY <1>14
  <2> QED BY <1>1, <2>1
<1>16. ASSUME WindowOrder(win) PROVE WindowOrder(u)
  <2>1. \A l \in DOMAIN win :
           /\ u[l].st = "queued" => win[l].st = "queued" \/ l \in pop
           /\ u[l].st = "new" => win[l].st = "new" /\ l \notin pop
    BY <1>3
  <2>2. pop \in SUBSET (DOMAIN win)
    BY <1>8
  <2> QED BY <1>4, <1>5, <1>8, <1>10, <1>14, <1>16, <2>1, <2>2, WindowAdvances
<1> QED BY <1>1, <1>4, <1>10, <1>11, <1>12, <1>13, <1>14, <1>15, <1>16, <1>17 DEF WindowTook

\* Pipe, of any queue q and any request r in port 2.
PipeOf(q, r) == q \o (IF r # NoReq THEN <<r>> ELSE <<>>)

(* The request of port 2 comes after those of the queue. *)
LEMMA PipeIs ==
    ASSUME NEW q \in Seq(Reqs), NEW r \in Reqs \cup {NoReq}
    PROVE  /\ PipeOf(q, r) \in Seq(Reqs) /\ Len(q) \in Nat
           /\ Len(PipeOf(q, r)) = Len(q) + (IF r # NoReq THEN 1 ELSE 0)
           /\ \A i \in 1 .. Len(q) : PipeOf(q, r)[i] = q[i]
           /\ r # NoReq => PipeOf(q, r)[Len(q) + 1] = r
           /\ r = NoReq => PipeOf(q, r) = q
<1>1. CASE r = NoReq
  <2>1. PipeOf(q, r) = q
    BY <1>1 DEF PipeOf
  <2> QED BY <1>1, <2>1
<1>2. CASE r # NoReq
  <2>1. PipeOf(q, r) = q \o <<r>> /\ r \in Reqs
    BY <1>2 DEF PipeOf
  <2> PICK p : p = q \o <<r>>
    OBVIOUS
  <2>2. p \in Seq(Reqs) /\ Len(p) = Len(q) + 1 /\ p[Len(q) + 1] = r
        /\ \A i \in 1 .. Len(q) : p[i] = q[i]
    BY <2>1
  <2> QED BY <1>2, <2>1, <2>2
<1> QED BY <1>1, <1>2

(* While the cache does not serve requests the queue stands still. *)
LEMMA QueueStands ==
    ASSUME NEW in, CacheInv, CacheStep(in), state # "ACTIVE"
    PROVE  mq' = mq /\ p2' = NoP2 /\ ~On2
<1>1. ~On2
  BY DEF CacheInv, StateInv
<1>2. ~Active(in)
  BY DEF Active
<1>3. mq' = mq /\ p2' = NoP2
  BY <1>2 DEF CacheStep, Initialize, InitCache, InjectReload, HandleReload, FlushCache,
              FlushCacheWait, Paused
<1> QED BY <1>1, <1>3

(* What a cycle does to the requests in their order: the first leaves, or not, that of
   port 2 is queued or answered, and the one that is taken comes last. *)
LEMMA CacheAdvances ==
    ASSUME NEW in, Cycle(in)
    PROVE  /\ Pipe \in Seq(Reqs) /\ Pipe' \in Seq(Reqs)
           /\ mq \in Seq(Reqs) /\ mq' \in Seq(Reqs) /\ Len(mq') <= Len(Pipe')
           /\ \A i \in 1 .. Len(mq) : Pipe[i] = mq[i]
           /\ \A i \in 1 .. Len(mq') : Pipe'[i] = mq'[i]
           /\ \E h \in {0, 1} :
                /\ h = 1 <=> state = "ACTIVE" /\ Pops(in)
                /\ Moved(Pipe, Pipe', h, Len(mq'), win, Accepted(in))
                /\ h <= Len(mq) /\ Len(mq) <= h + Len(mq')
                /\ \/ Len(Pipe) = h + Len(mq')
                   \/ /\ state = "ACTIVE" /\ On2 /\ ~PushMiss(in)
                      /\ Len(mq) = h + Len(mq') /\ Len(Pipe) = Len(mq) + 1
                      /\ Pipe[Len(mq) + 1] = p2.req
<1>1. /\ CacheInv /\ CoreType /\ Fits(in) /\ in.req = Request /\ CacheStep(in)
      /\ mq \in Seq(Reqs) /\ mq' \in Seq(Reqs)
      /\ p2.req \in Reqs \cup {NoReq} /\ p2'.req \in Reqs \cup {NoReq}
  BY DEF Cycle, IInv, TypeOK, CacheInv, CacheType
<1>2. Pipe = PipeOf(mq, p2.req) /\ Pipe' = PipeOf(mq', p2'.req)
  BY DEF Pipe, PipeOf, On2
<1> PICK q, p : q = Pipe /\ p = Pipe'
  OBVIOUS
<1>3. /\ q \in Seq(Reqs) /\ Len(mq) \in Nat
      /\ Len(q) = Len(mq) + (IF On2 THEN 1 ELSE 0)
      /\ \A i \in 1 .. Len(mq) : q[i] = mq[i]
      /\ On2 => q[Len(mq) + 1] = p2.req
  BY <1>1, <1>2, PipeIs DEF On2
<1>4. /\ p \in Seq(Reqs) /\ Len(mq') \in Nat
      /\ Len(p) = Len(mq') + (IF p2'.req # NoReq THEN 1 ELSE 0)
      /\ \A i \in 1 .. Len(mq') : p[i] = mq'[i]
      /\ p2'.req # NoReq => p[Len(mq') + 1] = p2'.req
  BY <1>1, <1>2, PipeIs
<1>5. Len(mq') <= Len(p)
  BY <1>4
<1>6. CASE state # "ACTIVE"
  <2>1. mq' = mq /\ p2'.req = NoReq /\ ~On2
    BY <1>1, <1>6, QueueStands DEF NoP2
  <2>2. Accepted(in) = {}
    BY <1>6 DEF Accepted
  <2>3. Moved(q, p, 0, Len(mq'), win, Accepted(in))
    BY <1>3, <1>4, <2>1, <2>2 DEF Moved
  <2>4. Len(q) = 0 + Len(mq') /\ 0 <= Len(mq) /\ Len(mq) <= 0 + Len(mq')
    BY <1>3, <1>4, <2>1
  <2> QED BY <1>1, <1>3, <1>4, <1>5, <1>6, <2>3, <2>4
<1>7. CASE state = "ACTIVE"
  <2>1. Active(in)
    BY <1>1, <1>7 DEF CacheStep, Initialize, InitCache, InjectReload, HandleReload, FlushCache,
              FlushCacheWait
  <2>2. PICK h \in {0, 1} :
           /\ h = 1 <=> Pops(in)
           /\ h <= Len(mq) /\ Len(mq') = Len(mq) - h + (IF PushMiss(in) THEN 1 ELSE 0)
           /\ \A i \in 1 .. Len(mq) - h : mq'[i] = mq[i + h]
           /\ PushMiss(in) => p2.req \in Reqs /\ mq'[Len(mq) - h + 1] = p2.req
    BY <1>1, <2>1, ActivePlaces
  <2>3. PushMiss(in) => On2
    BY DEF PushMiss
  <2>4. h + Len(mq') <= Len(q) /\ Len(mq) <= h + Len(mq')
    BY <1>3, <1>4, <2>2, <2>3
  <2>5. ASSUME NEW i \in 1 .. Len(mq') PROVE p[i] = q[i + h]
    <3>1. CASE i <= Len(mq) - h
      <4>1. i \in 1 .. Len(mq) - h /\ i + h \in 1 .. Len(mq)
        BY <1>3, <2>2, <3>1
      <4> QED BY <1>3, <1>4, <2>2, <4>1
    <3>2. CASE ~(i <= Len(mq) - h)
      <4>1. PushMiss(in) /\ i = Len(mq) - h + 1 /\ i + h = Len(mq) + 1
        BY <1>3, <1>4, <2>2, <3>2
      <4> QED BY <1>3, <1>4, <2>2, <2>3, <4>1
    <3> QED BY <3>1, <3>2
  <2>6. p2'.req = IF Accept(in) THEN Request ELSE NoReq
    BY <1>1, <2>1, ActivePorts
  <2>7. Accept(in) => Request # NoReq
    BY <1>1 DEF Accept
  <2>10. \/ Len(q) = h + Len(mq')
         \/ /\ On2 /\ ~PushMiss(in)
            /\ Len(mq) = h + Len(mq') /\ Len(q) = Len(mq) + 1
            /\ q[Len(mq) + 1] = p2.req
    <3> PICK l, n \in Nat : l = Len(mq) /\ n = Len(mq')
      BY <1>3, <1>4
    <3>1. n = l - h + (IF PushMiss(in) THEN 1 ELSE 0) /\ Len(q) = l + (IF On2 THEN 1 ELSE 0)
          /\ (On2 => q[l + 1] = p2.req)
      BY <1>3, <2>2
    <3>2. CASE PushMiss(in)
      BY <2>3, <3>1, <3>2
    <3>3. CASE ~PushMiss(in)
      BY <3>1, <3>3
    <3> QED BY <3>2, <3>3
  <2>8. CASE Accept(in)
    <3>1. PICK k \in DOMAIN win : /\ QueueHead = {k}
                                  /\ Request = [op |-> win[k].op, rob |-> win[k].rob]
      BY <1>1, <2>7, <2>8, RequestIs
    <3>2. Accepted(in) = {k}
      BY <1>7, <2>8, <3>1 DEF Accepted
    <3>3. /\ Len(p) = Len(mq') + 1
          /\ p[Len(mq') + 1] = [op |-> win[k].op, rob |-> win[k].rob]
      BY <1>4, <2>6, <2>7, <2>8, <3>1
    <3>4. \A x \in Accepted(in) : Len(mq') + 1 \in DOMAIN p
             /\ p[Len(mq') + 1] = [op |-> win[x].op, rob |-> win[x].rob]
      BY <1>4, <3>2, <3>3
    <3>5. \A i \in Len(mq') + 1 .. Len(p) : \E x \in Accepted(in) :
             i = Len(mq') + 1 /\ p[i] = [op |-> win[x].op, rob |-> win[x].rob]
      BY <1>4, <3>2, <3>3
    <3>6. Moved(q, p, h, Len(mq'), win, Accepted(in))
      BY <1>3, <1>4, <1>5, <2>4, <2>5, <3>4, <3>5 DEF Moved
    <3> QED BY <1>1, <1>3, <1>4, <1>5, <1>7, <2>2, <2>4, <2>10, <3>6
  <2>9. CASE ~Accept(in)
    <3>1. Accepted(in) = {} /\ Len(p) = Len(mq')
      BY <1>4, <2>6, <2>9 DEF Accepted
    <3>2. Moved(q, p, h, Len(mq'), win, Accepted(in))
      BY <1>3, <1>4, <2>4, <2>5, <3>1 DEF Moved
    <3> QED BY <1>1, <1>3, <1>4, <1>5, <1>7, <2>2, <2>4, <2>10, <3>2
  <2> QED BY <2>8, <2>9
<1> QED BY <1>6, <1>7

\* What the core shows the cache of its queues.
FromCore(in) ==
    /\ in.data = IF mdq = <<>> THEN [rob |-> NoRob, val |-> AnyVal] ELSE mdq[1]
    /\ in.retired = retired /\ in.drain = drain

(* A load that is held before and after a cycle is not answered in it. *)
LEMMA StillHeld ==
    ASSUME NEW in, Cycle(in), NEW s \in HeldLoads, s \in HeldLoads'
    PROVE  s # Response(in).rob
<1>1. HeldLoads' = (HeldLoads \ {Response(in).rob}) \cup Taken(in)
  BY DEF Cycle, HeldStep
<1>2. s \notin Taken(in)
  BY DEF Cycle, Fits, Taken, Accept
<1> QED BY <1>1, <1>2

(* No request of the cache has the slot of the one that is taken. *)
LEMMA TakenIsNew ==
    ASSUME NEW in, Cycle(in), NEW k \in Accepted(in), NEW i \in DOMAIN Pipe
    PROVE  Pipe[i].rob # win[k].rob
<1>1. /\ CacheInv /\ CoreType /\ Fits(in) /\ in.req = Request /\ NoTwo(win)
      /\ mq \in Seq(Reqs) /\ p2.req \in Reqs \cup {NoReq}
  BY DEF Cycle, IInv, TypeOK, CacheInv, CacheType, WindowInv
<1>2. state = "ACTIVE" /\ Accept(in) /\ k \in QueueHead
  BY DEF Accepted
<1>3. in.req # NoReq /\ in.req.rob \notin slotBusy /\ in.req.rob \notin HeldLoads
  BY <1>1, <1>2, ActiveFacts DEF Accept
<1>4. in.req.rob = win[k].rob
  <2>1. PICK l \in DOMAIN win : /\ QueueHead = {l}
                                /\ Request = [op |-> win[l].op, rob |-> win[l].rob]
    BY <1>1, <1>3, RequestIs
  <2>2. l = k
    BY <1>2, <2>1
  <2> QED BY <1>1, <2>1, <2>2
<1>5. Pipe = PipeOf(mq, p2.req)
  BY DEF Pipe, PipeOf, On2
<1>6. CASE i \in 1 .. Len(mq)
  <2>1. Pipe[i] = mq[i] /\ i \in DOMAIN mq
    <3>1. Pipe[i] = mq[i]
      BY <1>1, <1>6, CacheAdvances
    <3> QED BY <1>1, <1>6, <3>1
  <2>2. mq[i].rob \in slotBusy
    BY <1>1, <2>1 DEF CacheInv, SlotsInv, AllRobs
  <2> QED BY <1>3, <1>4, <2>1, <2>2
<1>7. CASE ~(i \in 1 .. Len(mq))
  <2>1. On2 /\ Pipe[i] = p2.req
    <3>1. /\ Pipe \in Seq(Reqs) /\ Len(mq) \in Nat
          /\ Len(Pipe) = Len(mq) + (IF p2.req # NoReq THEN 1 ELSE 0)
          /\ p2.req # NoReq => Pipe[Len(mq) + 1] = p2.req
      BY <1>1, <1>5, PipeIs
    <3>2. i \in 1 .. Len(Pipe)
      BY <3>1
    <3>3. p2.req # NoReq /\ i = Len(mq) + 1
      BY <1>7, <3>1, <3>2
    <3> QED BY <3>1, <3>3 DEF On2
  <2>2. p2.req.rob \in HeldLoads
    BY <2>1 DEF HeldLoads
  <2> QED BY <1>3, <1>4, <2>1, <2>2
<1> QED BY <1>6, <1>7

(* The loads that remain in the queue, or enter it, have not been answered. *)
LEMMA QueuedUnanswered ==
    ASSUME NEW in, Cycle(in), NEW h \in {0, 1},
           Moved(Pipe, Pipe', h, Len(mq'), win, Accepted(in)),
           NEW i \in 1 .. Len(mq'), ~Pipe[i + h].op.store
    PROVE  Pipe[i + h].rob # Response(in).rob
<1>1. /\ mq \in Seq(Reqs) /\ mq' \in Seq(Reqs) /\ p2.req \in Reqs \cup {NoReq}
      /\ \A j \in 1 .. Len(mq') : Pipe'[j] = mq'[j]
  BY CacheAdvances DEF Cycle, IInv, TypeOK, CacheType
<1>2. PICK r : r = Pipe[i + h]
  OBVIOUS
<1>3. mq'[i] = r /\ i \in DOMAIN mq'
  BY <1>1, <1>2 DEF Moved
<1>4. r.rob \in HeldLoads'
  BY <1>2, <1>3 DEF HeldLoads
<1>5. r.rob \in HeldLoads
  <2>1. /\ Pipe \in Seq(Reqs) /\ Len(mq) \in Nat
        /\ Len(Pipe) = Len(mq) + (IF p2.req # NoReq THEN 1 ELSE 0)
        /\ \A j \in 1 .. Len(mq) : Pipe[j] = mq[j]
        /\ p2.req # NoReq => Pipe[Len(mq) + 1] = p2.req
    <3>1. Pipe = PipeOf(mq, p2.req)
      BY DEF Pipe, PipeOf, On2
    <3> QED BY <1>1, <3>1, PipeIs
  <2>2. i + h \in 1 .. Len(Pipe)
    <3>1. h + Len(mq') <= Len(Pipe) /\ Len(mq') \in Nat
      BY <1>1 DEF Moved
    <3> QED BY <2>1, <3>1
  <2>3. CASE i + h \in 1 .. Len(mq)
    <3>1. mq[i + h] = r /\ i + h \in DOMAIN mq
      BY <1>1, <1>2, <2>1, <2>3
    <3> QED BY <1>2, <3>1 DEF HeldLoads
  <2>4. CASE ~(i + h \in 1 .. Len(mq))
    <3>1. p2.req # NoReq /\ i + h = Len(mq) + 1
      BY <2>1, <2>2, <2>4
    <3>2. On2 /\ r = p2.req
      BY <1>2, <2>1, <3>1 DEF On2
    <3> QED BY <3>2 DEF HeldLoads
  <2> QED BY <2>3, <2>4
<1> QED BY <1>2, <1>4, <1>5, StillHeld

(* The head of the queue: a store that fires is the oldest that has retired and meets
   its own data; a load that fires, and a store that is killed, have no retired store
   in front of them. *)
LEMMA HeadFires ==
    ASSUME NEW in, Cycle(in), FromCore(in), CoreData, RecoveryInv, NEW g, OrderInv(g),
           state = "ACTIVE"
    PROVE  /\ StoreFires(in) => /\ g >= 1 /\ Len(mdq) >= 1
                                /\ in.data.val = Head1.op.val
           /\ LoadFires => g = 0
           /\ StoreKilled(in) => g = 0
<1>1. /\ mq \in Seq(Reqs) /\ mdq \in Seq([rob : Slots, val : Vals])
      /\ g \in 0 .. Len(mq) /\ Len(mq) \in Nat /\ Len(mdq) \in Nat
      /\ \A i \in 1 .. Len(mq) : Pipe[i] = mq[i]
  BY CacheAdvances DEF OrderInv, CoreData
<1>2. MayFire => 1 \in DOMAIN mq /\ Head1 = mq[1] /\ Head1 \in Reqs
  BY <1>1 DEF MayFire, Head1
<1>3. /\ \A i \in DOMAIN mq :
           /\ mq[i].op.store /\ grad[mq[i].rob] = 2 => i <= g
           /\ i <= g => grad[mq[i].rob] = 2 \/ mq[i].rob \in retired
      /\ g <= Len(mdq)
      /\ \A i \in 1 .. g : mdq[i] = [rob |-> mq[i].rob, val |-> mq[i].op.val]
      /\ \A i \in 1 .. g : mq[i].op.store
  BY <1>1 DEF OrderInv, MarkedInv, DataOrder, QueueOrder
<1>4. g >= 1 => /\ mdq # <<>> /\ in.data = mdq[1]
                /\ in.data.rob = mq[1].rob /\ in.data.val = mq[1].op.val
  <2> SUFFICES ASSUME g >= 1 PROVE /\ mdq # <<>> /\ in.data = mdq[1]
                                   /\ in.data.rob = mq[1].rob /\ in.data.val = mq[1].op.val
    OBVIOUS
  <2>1. 1 \in 1 .. g /\ Len(mdq) >= 1
    BY <1>1, <1>3
  <2>2. mdq # <<>>
    BY <2>1
  <2>3. mdq[1] = [rob |-> mq[1].rob, val |-> mq[1].op.val]
    BY <1>3, <2>1
  <2> QED BY <2>2, <2>3 DEF FromCore
<1>5. ASSUME StoreFires(in)
      PROVE  g >= 1 /\ Len(mdq) >= 1 /\ in.data.val = Head1.op.val
  <2>1. g >= 1
    BY <1>1, <1>2, <1>3, <1>5 DEF StoreFires
  <2> QED BY <1>1, <1>2, <1>3, <1>4, <1>5, <2>1 DEF StoreFires
<1>6. ASSUME LoadFires, g >= 1 PROVE FALSE
  <2>1. 1 \in 1 .. g
    BY <1>1, <1>6
  <2> QED BY <1>2, <1>3, <1>6, <2>1 DEF LoadFires
<1>7. ASSUME StoreKilled(in), g >= 1 PROVE FALSE
  <2>1. retired = {}
    BY <1>7 DEF StoreKilled, FromCore, RecoveryInv
  <2>2. grad[mq[1].rob] = 2
    BY <1>1, <1>2, <1>3, <1>7, <2>1 DEF StoreKilled
  <2> QED BY <1>2, <1>4, <1>7, <2>2 DEF StoreKilled, StoreFires
<1> QED BY <1>1, <1>5, <1>6, <1>7

\* A cycle before which g requests of the queue are retired stores; f is 1 if the first
\* of them leaves the queue to be performed, and h if anything leaves it.
CycleFrom(in, g, f) ==
    /\ Cycle(in) /\ FromCore(in) /\ CoreData /\ RecoveryInv /\ OrderInv(g)
    /\ g \in 0 .. Len(mq) /\ g \in Nat
    /\ f \in {0, 1} /\ (f = 1 <=> state = "ACTIVE" /\ StoreFires(in))
Leaves(in, g, f, h) ==
    /\ h = 1 <=> state = "ACTIVE" /\ Pops(in)
    /\ Moved(Pipe, Pipe', h, Len(mq'), win, Accepted(in))
    /\ f <= h /\ f <= g /\ h <= Len(mq) /\ g <= h + Len(mq')
    /\ g - f = IF g = 0 THEN 0 ELSE g - h
    /\ \/ Len(Pipe) = h + Len(mq')
       \/ /\ state = "ACTIVE" /\ On2 /\ ~PushMiss(in)
          /\ Len(mq) = h + Len(mq') /\ Len(Pipe) = Len(mq) + 1
          /\ Pipe[Len(mq) + 1] = p2.req

(* What leaves the queue in a cycle, and that a store that is performed is the first
   of the retired ones. *)
LEMMA HeadLeaves ==
    ASSUME NEW in, NEW g, NEW f, CycleFrom(in, g, f)
    PROVE  \E h \in {0, 1} : Leaves(in, g, f, h)
<1>1. /\ Cycle(in) /\ FromCore(in) /\ CoreData /\ RecoveryInv /\ OrderInv(g)
      /\ g \in 0 .. Len(mq) /\ g \in Nat
      /\ f \in {0, 1} /\ (f = 1 <=> state = "ACTIVE" /\ StoreFires(in))
  BY DEF CycleFrom
<1>2. PICK h \in {0, 1} :
         /\ h = 1 <=> state = "ACTIVE" /\ Pops(in)
         /\ Moved(Pipe, Pipe', h, Len(mq'), win, Accepted(in))
         /\ h <= Len(mq) /\ Len(mq) <= h + Len(mq')
         /\ \/ Len(Pipe) = h + Len(mq')
            \/ /\ state = "ACTIVE" /\ On2 /\ ~PushMiss(in)
               /\ Len(mq) = h + Len(mq') /\ Len(Pipe) = Len(mq) + 1
               /\ Pipe[Len(mq) + 1] = p2.req
  BY <1>1, CacheAdvances
<1>3. mq \in Seq(Reqs) /\ mq' \in Seq(Reqs) /\ Len(mq) \in Nat /\ Len(mq') \in Nat
  BY <1>1, CacheAdvances
<1>4. g <= h + Len(mq')
  BY <1>1, <1>2, <1>3
<1>5. f <= h /\ f <= g /\ g - f = IF g = 0 THEN 0 ELSE g - h
  <2>1. CASE h = 0
    <3>1. f = 0
      BY <1>1, <1>2, <2>1 DEF Pops, Fires
    <3> QED BY <1>1, <2>1, <3>1
  <2>2. CASE h = 1
    <3>1. state = "ACTIVE" /\ (LoadFires \/ StoreFires(in) \/ StoreKilled(in))
      BY <1>2, <2>2 DEF Pops, Fires
    <3>2. CASE StoreFires(in)
      <4>1. g >= 1 /\ f = 1
        BY <1>1, <3>1, <3>2, HeadFires
      <4> QED BY <1>1, <2>2, <4>1
    <3>3. CASE ~StoreFires(in)
      <4>1. g = 0 /\ f = 0
        BY <1>1, <3>1, <3>3, HeadFires
      <4> QED BY <2>2, <4>1
    <3> QED BY <3>2, <3>3
  <2> QED BY <2>1, <2>2
<1>6. Leaves(in, g, f, h)
  BY <1>2, <1>4, <1>5 DEF Leaves
<1> QED BY <1>6

(* The orders of the requests and of the window after the cache has taken its step. *)
LEMMA OrderTaken ==
    ASSUME NEW in, NEW g, NEW f, CycleFrom(in, g, f), NEW h \in {0, 1}, Leaves(in, g, f, h),
           NEW data, NEW u, WindowTook(in, data, u)
    PROVE  /\ NoTwo(u) /\ WindowOrder(u) /\ QueueOrder(u, Pipe', g - f)
           /\ u \in Seq(Entries) /\ Len(u) = Len(win) /\ g - f \in Nat
           /\ Remain(win, u, Accepted(in), Pipe, h, Len(mq'))
<1>1. /\ Cycle(in) /\ QueueOrder(win, Pipe, g) /\ WindowOrder(win) /\ g \in Nat /\ f \in {0, 1}
  BY DEF CycleFrom, OrderInv
<1>2. /\ Moved(Pipe, Pipe', h, Len(mq'), win, Accepted(in))
      /\ g <= h + Len(mq') /\ g - f = IF g = 0 THEN 0 ELSE g - h
      /\ f <= g
  BY DEF Leaves
<1>3. /\ Taken1(win, u, Accepted(in)) /\ NoTwo(win) /\ NoTwo(u) /\ WindowOrder(u)
      /\ \A k \in Accepted(in) : u[k].st = "sent"
      /\ \A l \in DOMAIN win :
           win[l].st = "sent" /\ win[l].rob # Response(in).rob => u[l].st = "sent"
  BY <1>1 DEF WindowTook
<1>4. PICK m, g1 : m = Len(mq') /\ g1 = g - f
  OBVIOUS
<1>5. \A k \in Accepted(in), i \in 1 .. m : Pipe[i + h].rob # win[k].rob
  <2> SUFFICES ASSUME NEW k \in Accepted(in), NEW i \in 1 .. m
               PROVE  Pipe[i + h].rob # win[k].rob
    OBVIOUS
  <2>1. i + h \in DOMAIN Pipe
    BY <1>2, <1>4 DEF Moved
  <2> QED BY <1>1, <2>1, TakenIsNew
<1>6. \A l \in DOMAIN win, i \in 1 .. m :
         win[l].rob = Pipe[i + h].rob /\ ~Pipe[i + h].op.store /\ win[l].st = "sent"
            => u[l].st = "sent"
  BY <1>1, <1>2, <1>3, <1>4, QueuedUnanswered
<1>7. g1 \in Nat /\ RetiredLeft(g, g1, h, m)
  BY <1>1, <1>2, <1>4 DEF RetiredLeft
<1>8. Remain(win, u, Accepted(in), Pipe, h, m)
  BY <1>3, <1>5, <1>6 DEF Remain
<1>9. QueueOrder(u, Pipe', g1)
  <2> PICK q, p, K : q = Pipe /\ p = Pipe' /\ K = Accepted(in)
    OBVIOUS
  <2>1. /\ Moved(q, p, h, m, win, K) /\ QueueOrder(win, q, g) /\ Taken1(win, u, K)
        /\ g \in Nat /\ WindowOrder(win) /\ NoTwo(win) /\ Remain(win, u, K, q, h, m)
    BY <1>1, <1>2, <1>3, <1>4, <1>8
  <2>2. QueueOrder(u, p, g1)
    BY ONLY <1>7, <2>1, h \in {0, 1}, QueueAdvances
  <2> QED BY <2>2
<1> QED BY <1>3, <1>4, <1>7, <1>8, <1>9 DEF Taken1

(* The store data after a cycle: what is performed leaves the queue (mem_sd_ack), what
   is read comes last. *)
LEMMA DataPushed ==
    ASSUME NEW in, NEW g, NEW f, CycleFrom(in, g, f), NEW data, NEW u, WindowTook(in, data, u),
           PushData(in, data)
    PROVE  DataMoved(mdq, mdq', f, win, data)
<1> DEFINE D == [rob : Slots, val : Vals]
<1>1. /\ mdq \in Seq(D) /\ f \in {0, 1} /\ (f = 1 <=> state = "ACTIVE" /\ StoreFires(in))
      /\ win \in Seq(Entries) /\ data \subseteq DOMAIN win /\ Cycle(in)
      /\ \A k \in data, l \in data : k = l
  BY DEF CycleFrom, CoreData, WindowTook, Taken1
<1> PICK left : left = IF f = 1 THEN Tail(mdq) ELSE mdq
  OBVIOUS
<1>2. f <= Len(mdq) /\ Len(mdq) \in Nat
  <2>1. f = 1 => Len(mdq) >= 1
    BY <1>1, HeadFires DEF CycleFrom
  <2> QED BY <1>1, <2>1
<1>3. /\ left \in Seq(D) /\ Len(left) = Len(mdq) - f
      /\ \A i \in 1 .. Len(mdq) - f : left[i] = mdq[i + f]
  <2>1. CASE f = 0
    BY <1>1, <1>2, <2>1
  <2>2. CASE f = 1
    <3>1. mdq # <<>> /\ left = Tail(mdq)
      BY <1>1, <1>2, <2>2
    <3> QED BY <1>1, <1>2, <2>2, <3>1
  <2> QED BY <1>1, <2>1, <2>2
<1>4. CASE data = {}
  <2>1. mdq' = left \o <<>>
    BY <1>1, <1>4 DEF PushData
  <2>2. mdq' = left
    BY <1>3, <2>1
  <2>3. \A i \in Len(mdq) - f + 1 .. Len(mdq') : FALSE
    BY <1>2, <1>3, <2>2
  <2>4. \A k \in data : FALSE
    BY <1>4
  <2> QED BY <1>1, <1>2, <1>3, <2>2, <2>3, <2>4 DEF DataMoved
<1>5. CASE data # {}
  <2>1. PICK k \in data : k = CHOOSE i \in data : TRUE
    BY <1>5
  <2>2. PICK d : d = [rob |-> win[k].rob, val |-> win[k].op.val]
    OBVIOUS
  <2>3. mdq' = left \o <<d>>
    BY <1>1, <1>5, <2>1, <2>2 DEF PushData
  <2>4. d \in D
    <3>1. win[k] \in Entries
      BY <1>1
    <3>2. win[k].rob \in Slots /\ win[k].op \in Ops
      BY <3>1 DEF Entries
    <3> QED BY <2>2, <3>2, OpFields
  <2> PICK e : e = mdq'
    OBVIOUS
  <2>5. /\ e \in Seq(D) /\ Len(e) = Len(mdq) - f + 1 /\ e[Len(mdq) - f + 1] = d
        /\ \A i \in 1 .. Len(mdq) - f : e[i] = mdq[i + f]
    <3>1. PICK n \in Nat : n = Len(left) /\ n = Len(mdq) - f
      BY <1>3
    <3>2. e \in Seq(D) /\ Len(e) = n + 1 /\ e[n + 1] = d /\ \A i \in 1 .. n : e[i] = left[i]
      <4> PICK A : A = D
        OBVIOUS
      <4>1. left \in Seq(A) /\ d \in A /\ e = left \o <<d>> /\ n = Len(left)
        BY <1>3, <2>3, <2>4, <3>1
      <4>2. e \in Seq(A) /\ Len(e) = n + 1 /\ e[n + 1] = d /\ \A i \in 1 .. n : e[i] = left[i]
        BY ONLY <4>1
      <4> QED BY <4>2
    <3> QED BY <1>3, <3>1, <3>2
  <2>6. \A i \in Len(mdq) - f + 1 .. Len(e) : \E x \in data :
           i = Len(mdq) - f + 1 /\ e[i] = [rob |-> win[x].rob, val |-> win[x].op.val]
    BY <1>1, <1>2, <2>2, <2>5
  <2>7. \A x \in data : Len(mdq) - f + 1 \in DOMAIN e
    BY <1>1, <1>2, <2>5
  <2>8. DataMoved(mdq, e, f, win, data)
    <3>1. Len(e) >= Len(mdq) - f
      BY <1>1, <1>2, <2>5
    <3> QED BY <1>1, <1>2, <2>5, <2>6, <2>7, <3>1 DEF DataMoved
  <2> QED BY <2>8
<1> QED BY <1>4, <1>5

(* The retired stores that remain in the queue move up. *)
LEMMA RetiredStay ==
    ASSUME NEW in, NEW g, NEW f, CycleFrom(in, g, f), NEW h \in {0, 1}, Leaves(in, g, f, h)
    PROVE  RetiredMoved(mq, mq', f, g)
<1>1. Cycle(in) /\ g \in Nat /\ f \in {0, 1} /\ g \in 0 .. Len(mq)
  BY DEF CycleFrom, OrderInv
<1>2. /\ Len(mq) \in Nat /\ Len(mq') \in Nat
      /\ \A i \in 1 .. Len(mq) : Pipe[i] = mq[i]
      /\ \A i \in 1 .. Len(mq') : Pipe'[i] = mq'[i]
  <2>1. Cycle(in)
    BY <1>1
  <2>2. mq \in Seq(Reqs) /\ mq' \in Seq(Reqs)
    BY ONLY <2>1, CacheAdvances
  <2>3. /\ \A i \in 1 .. Len(mq) : Pipe[i] = mq[i]
        /\ \A i \in 1 .. Len(mq') : Pipe'[i] = mq'[i]
    BY ONLY <2>1, CacheAdvances
  <2> QED BY <2>2, <2>3
<1>3. /\ f <= h /\ f <= g /\ g <= h + Len(mq')
      /\ g - f = IF g = 0 THEN 0 ELSE g - h
      /\ \A i \in 1 .. Len(mq') : Pipe'[i] = Pipe[i + h]
  BY DEF Leaves, Moved
<1>4. ASSUME NEW i \in 1 .. g - f PROVE mq'[i] = mq[i + f]
  <2>1. f = h
    BY <1>1, <1>3
  <2>2. i \in 1 .. Len(mq') /\ i + h \in 1 .. Len(mq)
    BY <1>1, <1>2, <1>3, <2>1
  <2>3. mq'[i] = Pipe[i + h] /\ Pipe[i + h] = mq[i + h]
    BY <1>2, <1>3, <2>2
  <2> QED BY <2>1, <2>3
<1> QED BY <1>3, <1>4 DEF RetiredMoved

(* The store data after a cycle (r_mdq, core_store_data_ack). *)
LEMMA DataTakenOn ==
    ASSUME NEW in, NEW g, NEW f, CycleFrom(in, g, f), NEW h \in {0, 1}, Leaves(in, g, f, h),
           NEW data, NEW u, WindowTook(in, data, u), PushData(in, data)
    PROVE  DataOrder(u, mq', mdq', g - f)
<1>1. /\ Cycle(in) /\ WindowOrder(win) /\ g \in Nat /\ f \in {0, 1}
      /\ DataOrder(win, mq, mdq, g) /\ g \in 0 .. Len(mq)
  BY DEF CycleFrom, OrderInv
<1>2. Taken1(win, u, Accepted(in)) /\ NoTwo(win) /\ DataTaken(win, u, data)
  BY DEF WindowTook, DataTaken
<1>3. DataMoved(mdq, mdq', f, win, data)
  BY DataPushed
<1>4. RetiredMoved(mq, mq', f, g)
  BY RetiredStay
<1> PICK e, p, K, g1 : e = mdq' /\ p = mq' /\ K = Accepted(in) /\ g1 = g - f
  OBVIOUS
<1>5. /\ DataMoved(mdq, e, f, win, data) /\ RetiredMoved(mq, p, f, g) /\ Taken1(win, u, K)
      /\ g1 = g - f
  BY <1>2, <1>3, <1>4
<1>6. DataOrder(u, p, e, g1)
  BY ONLY <1>1, <1>2, <1>5, DataAdvances
<1> QED BY <1>6

(* While nothing is drained every store that the cache has had is still there: only
   a retired one, or a load, leaves the queue. *)
LEMMA StoresTaken ==
    ASSUME NEW in, NEW g, NEW f, CycleFrom(in, g, f), NEW h \in {0, 1}, Leaves(in, g, f, h),
           NEW data, NEW u, WindowTook(in, data, u), ~dsDone
    PROVE  StoresHeld(u, Pipe')
<1>1. /\ Cycle(in) /\ FromCore(in) /\ CoreData /\ RecoveryInv /\ OrderInv(g)
      /\ QueueOrder(win, Pipe, g) /\ g \in Nat
      /\ Pipe \in Seq(Reqs) /\ mq \in Seq(Reqs) /\ \A i \in 1 .. Len(mq) : Pipe[i] = mq[i]
      /\ mq' \in Seq(Reqs) /\ p2.req \in Reqs \cup {NoReq}
  BY CacheAdvances DEF CycleFrom, OrderInv, Cycle, IInv, TypeOK, CacheType
<1>2. Taken1(win, u, Accepted(in)) /\ NoTwo(win)
  BY DEF WindowTook
<1>3. CASE drain
  <2>1. win = <<>>
    BY <1>1, <1>3 DEF RecoveryInv
  <2>2. DOMAIN u = {}
    BY <1>2, <2>1 DEF Taken1
  <2> QED BY <2>2 DEF StoresHeld
<1>4. CASE ~drain
  <2>1. StoresHeld(win, Pipe)
    BY <1>1, <1>4 DEF OrderInv
  <2>2. PICK m : m = Len(mq')
    OBVIOUS
  <2>3. /\ Len(Pipe) \in Nat /\ Len(mq) \in Nat /\ m \in Nat /\ DOMAIN Pipe = 1 .. Len(Pipe)
        /\ h <= Len(mq) /\ h + m <= Len(Pipe) /\ (h = 1 <=> state = "ACTIVE" /\ Pops(in))
        /\ \/ Len(Pipe) = h + m
           \/ /\ On2 /\ ~PushMiss(in) /\ Len(mq) = h + m /\ Len(Pipe) = Len(mq) + 1
              /\ Pipe[Len(mq) + 1] = p2.req
    BY <1>1, <2>2 DEF Leaves, Moved
  <2>4. ASSUME NEW i \in DOMAIN Pipe, i <= h PROVE i <= g \/ ~Pipe[i].op.store
    <3>1. i = 1 /\ h = 1 /\ Pipe[i] = Head1 /\ state = "ACTIVE"
      <4> PICK n, l \in Nat : n = Len(Pipe) /\ l = Len(mq)
        BY <2>3
      <4>1. i \in 1 .. n /\ i <= h /\ h <= l
        BY <2>3, <2>4
      <4>2. i = 1 /\ h = 1 /\ 1 \in 1 .. l
        BY ONLY <4>1, n \in Nat, l \in Nat, h \in {0, 1}
      <4>3. \A x \in 1 .. l : Pipe[x] = mq[x]
        BY <1>1
      <4>4. Pipe[1] = Head1
        BY <4>2, <4>3 DEF Head1
      <4>5. state = "ACTIVE"
        BY <2>3, <4>2
      <4> QED BY ONLY <4>2, <4>4, <4>5
    <3>2. StoreFires(in) \/ LoadFires
      BY <1>1, <1>4, <2>3, <3>1 DEF Pops, Fires, StoreKilled, FromCore
    <3>3. StoreFires(in) => g >= 1
      BY <1>1, <3>1, HeadFires
    <3>4. CASE StoreFires(in)
      BY <1>1, <3>1, <3>3, <3>4
    <3>5. CASE LoadFires
      BY <3>1, <3>5 DEF LoadFires
    <3> QED BY <3>2, <3>4, <3>5
  <2>5. ASSUME NEW i \in DOMAIN Pipe, i > h + m PROVE ~Pipe[i].op.store
    <3>1. On2 /\ ~PushMiss(in) /\ Pipe[i] = p2.req
      <4> PICK n, l, last \in Nat : n = Len(Pipe) /\ l = Len(mq) /\ last = h + m
        BY <2>3
      <4>1. i \in 1 .. n /\ i > last /\ last <= n
        BY <2>3, <2>5
      <4>2. n # last
        BY ONLY <4>1, n \in Nat, last \in Nat
      <4>3. On2 /\ ~PushMiss(in) /\ l = last /\ n = l + 1 /\ Pipe[l + 1] = p2.req
        BY <2>3, <4>2
      <4>4. i = l + 1
        BY ONLY <4>1, <4>3, n \in Nat, last \in Nat
      <4> QED BY ONLY <4>3, <4>4
    <3>2. p2.req.op \in Ops
      BY <1>1, <3>1 DEF On2, Reqs
    <3>3. ~AtOnce(in) => ~p2.req.op.store
      BY <3>1 DEF PushMiss
    <3>4. AtOnce(in) => p2.req.op.nop
      BY <1>1, <1>4 DEF AtOnce, FromCore
    <3>5. p2.req.op.nop => ~p2.req.op.store
      BY <3>2, OpsAssumption
    <3>6. ~p2.req.op.store
      BY <3>3, <3>4, <3>5
    <3> QED BY <3>1, <3>6
  <2>6. OthersLeave(Pipe, h, m, g)
    BY <2>4, <2>5 DEF OthersLeave
  <2> PICK q, p, K : q = Pipe /\ p = Pipe' /\ K = Accepted(in)
    OBVIOUS
  <2>7. /\ Moved(q, p, h, m, win, K) /\ Taken1(win, u, K) /\ QueueOrder(win, q, g)
        /\ StoresHeld(win, q) /\ OthersLeave(q, h, m, g)
    BY <1>1, <1>2, <2>1, <2>2, <2>6 DEF Leaves
  <2>8. StoresHeld(u, p)
    BY ONLY <1>1, <1>2, <2>7, h \in {0, 1}, StoresAdvance
  <2> QED BY <2>8
<1> QED BY <1>3, <1>4

(* What port 1 holds after a cycle: nothing, what it held before, or the head of the
   queue, a store with its data. *)
LEMMA PortStep ==
    ASSUME NEW in, Cycle(in)
    PROVE  \/ p1'.req = NoReq
           \/ /\ p1'.req = p1.req /\ p1'.val = p1.val /\ p1.req # NoReq
              /\ ~(state = "ACTIVE" /\ Pops(in))
              /\ Pending1' /\ ~Op1'.store => Pending1
           \/ /\ state = "ACTIVE" /\ Fires(in) /\ p1'.req = Head1
              /\ Head1.op.store => p1'.val = in.data.val
<1>1. CacheInv /\ Fits(in) /\ CacheStep(in)
  BY DEF Cycle, IInv, TypeOK, CacheInv
<1>2. p1 = [on |-> p1.on, req |-> p1.req, val |-> p1.val, retry |-> p1.retry,
            reload |-> p1.reload, busy |-> p1.busy, out |-> p1.out]
  BY <1>1 DEF CacheInv, CacheType
<1>3. CASE Active(in)
  <2>1. state = "ACTIVE"
    BY <1>3 DEF Active
  <2>2. CASE Miss
    <3>1. p1'.req = p1.req /\ p1.on /\ p1.req # NoReq
      BY <1>1, <1>3, <2>1, <2>2, ActivePorts, ActiveFacts DEF Miss
    <3>2. MissStarts /\ ~Fires(in) /\ ~FlushStarts(in) /\ ~Pops(in) /\ early = FALSE
      BY <1>1, <2>1, <2>2, <3>1, ActiveFacts
    <3>3. p1' = [p1 EXCEPT !.on = FALSE, !.out = NoLine]
      BY <1>3, <3>2 DEF Active
    <3>4. p1'.val = p1.val
      BY <1>2, <3>3
    <3> QED BY <3>1, <3>2, <3>4 DEF Pending1
  <2>3. CASE Fires(in)
    <3>1. p1'.req = Head1
      BY <1>1, <1>3, <2>3, ActivePorts
    <3>2. p1' = [NoP1 EXCEPT !.on = TRUE, !.retry = TRUE, !.req = Head1,
                             !.val = IF Head1.op.store THEN in.data.val ELSE @,
                             !.out = arr[Head1.op.set],
                             !.busy = \E i \in 2 .. Len(mq) : mq[i].op.set = Head1.op.set]
      BY <1>3, <2>3 DEF Active
    <3>3. Head1.op.store => p1'.val = in.data.val
      BY <3>2 DEF NoP1
    <3> QED BY <2>1, <2>3, <3>1, <3>3
  <2>4. CASE ~Miss /\ ~Fires(in)
    BY <1>1, <1>3, <2>4, ActivePorts
  <2> QED BY <2>2, <2>3, <2>4
<1>4. CASE InjectReload(in)
  <2>1. p1' = p1 /\ state = "INJECT_RELOAD" /\ ~early
    BY <1>1, <1>4 DEF InjectReload, CacheInv, StateInv
  <2> QED BY <2>1 DEF Pending1
<1>5. CASE HandleReload(in)
  <2>1. state = "HANDLE_RELOAD"
    BY <1>5 DEF HandleReload
  <2>2. CASE p1.req.op.store \/ ~early
    <3>1. p1' = [p1 EXCEPT !.on = TRUE, !.reload = TRUE, !.retry = FALSE,
                           !.out = arr[Op1.set],
                           !.busy = \E q \in Queued : q.op.set = Op1.set]
      BY <1>5, <2>2 DEF HandleReload, Paused
    <3>2. p1'.req = p1.req /\ p1'.val = p1.val
      BY <1>2, <3>1
    <3> QED BY <2>1, <2>2, <3>2 DEF Pending1, Op1
  <2>3. CASE ~(p1.req.op.store \/ ~early)
    <3>1. p1' = NoP1
      BY <1>5, <2>3 DEF HandleReload, Paused
    <3> QED BY <3>1, PortsIdle
  <2> QED BY <2>2, <2>3
<1>6. CASE Initialize(in) \/ InitCache(in) \/ FlushCache(in) \/ FlushCacheWait(in)
  <2>1. p1' = NoP1 \/ \E s : p1' = Read(s)
    BY <1>6 DEF Initialize, InitCache, FlushCache, FlushCacheWait, Paused
  <2>2. p1'.req = NoReq
    BY <2>1, PortsIdle
  <2> QED BY <2>2
<1> QED BY <1>1, <1>3, <1>4, <1>5, <1>6 DEF CacheStep

(* Port 1 after a cycle: a store in it has its data, and a load is older than
   what is queued. *)
PortOrder(w, g) ==
    /\ Store1' => p1'.val = Op1'.val
    /\ Pending1' /\ ~Op1'.store => g = 0 /\ First(w, Pipe', p1'.req)

(* Port 1 after a cycle, whatever enters the window. *)
LEMMA PortTaken ==
    ASSUME NEW in, NEW g, NEW f, CycleFrom(in, g, f), NEW h \in {0, 1}, Leaves(in, g, f, h),
           NEW data, NEW u, WindowTook(in, data, u)
    PROVE  PortOrder(u, g - f)
<1>1. /\ Cycle(in) /\ FromCore(in) /\ CoreData /\ RecoveryInv /\ OrderInv(g)
      /\ QueueOrder(win, Pipe, g) /\ WindowOrder(win) /\ Port1Inv(g) /\ g \in Nat
      /\ Pipe \in Seq(Reqs) /\ mq \in Seq(Reqs) /\ \A i \in 1 .. Len(mq) : Pipe[i] = mq[i]
  BY CacheAdvances DEF CycleFrom, OrderInv
<1>2. /\ Taken1(win, u, Accepted(in)) /\ NoTwo(win)
      /\ \A l \in DOMAIN win :
           win[l].st = "sent" /\ win[l].rob # Response(in).rob => u[l].st = "sent"
  BY DEF WindowTook
<1>3. /\ Moved(Pipe, Pipe', h, Len(mq'), win, Accepted(in)) /\ h <= Len(mq)
      /\ h = 1 <=> state = "ACTIVE" /\ Pops(in)
      /\ f <= h /\ g - f = IF g = 0 THEN 0 ELSE g - h
  BY DEF Leaves
<1>4. Remain(win, u, Accepted(in), Pipe, h, Len(mq'))
  BY OrderTaken
<1>5. /\ Len(mq') \in Nat /\ h + Len(mq') <= Len(Pipe) /\ Len(Pipe) \in Nat
      /\ DOMAIN Pipe = 1 .. Len(Pipe) /\ Len(mq) \in Nat
      /\ \A i \in 1 .. Len(mq') : i + h \in DOMAIN Pipe
  BY <1>1, <1>3 DEF Moved
<1>6. ASSUME NEW r, NEW k \in DOMAIN win, win[k].rob = r.rob, win[k].op = r.op,
             win[k].st = "sent", r.rob \in HeldLoads, r.rob \in HeldLoads',
             OlderThan(win, Pipe, h, Len(mq'), k)
      PROVE  First(u, Pipe', r)
  <2>1. u[k].st = "sent"
    BY <1>1, <1>2, <1>6, StillHeld
  <2> PICK q, p, K, m : q = Pipe /\ p = Pipe' /\ K = Accepted(in) /\ m = Len(mq')
    OBVIOUS
  <2>2. /\ Taken1(win, u, K) /\ NoTwo(win) /\ WindowOrder(win) /\ Moved(q, p, h, m, win, K)
        /\ Remain(win, u, K, q, h, m) /\ OlderThan(win, q, h, m, k)
    BY <1>1, <1>2, <1>3, <1>4, <1>6
  <2>3. /\ win[k].rob = r.rob /\ win[k].op = r.op /\ win[k].st = "sent" /\ k \in DOMAIN win
    BY <1>6
  <2>4. First(u, p, r)
    BY ONLY <2>1, <2>2, <2>3, h \in {0, 1}, FirstAdvances
  <2> QED BY <2>4
<1>7. CASE p1'.req = NoReq
  BY <1>7 DEF PortOrder, Store1, Pending1
<1>8. CASE /\ p1'.req = p1.req /\ p1'.val = p1.val /\ p1.req # NoReq
           /\ ~(state = "ACTIVE" /\ Pops(in))
           /\ Pending1' /\ ~Op1'.store => Pending1
  <2>1. Op1' = Op1
    BY <1>8 DEF Op1
  <2>2. Store1' => p1'.val = Op1'.val
    BY <1>1, <1>8, <2>1 DEF Store1, Port1Inv
  <2>3. ASSUME Pending1', ~Op1'.store PROVE g - f = 0 /\ First(u, Pipe', p1'.req)
    <3>1. Pending1 /\ ~Op1.store /\ h = 0
      BY <1>3, <1>8, <2>1, <2>3
    <3>2. g = 0 /\ First(win, Pipe, p1.req)
      BY <1>1, <3>1 DEF Port1Inv
    <3>3. PICK k \in DOMAIN win :
             /\ win[k].rob = p1.req.rob /\ win[k].op = p1.req.op /\ win[k].st = "sent"
             /\ \A i \in DOMAIN Pipe, l \in DOMAIN win : Had(win[l], Pipe[i]) => k < l
      BY <3>2 DEF First
    <3>4. OlderThan(win, Pipe, h, Len(mq'), k)
      BY <1>5, <3>3 DEF OlderThan
    <3>5. p1.req.rob \in HeldLoads /\ p1.req.rob \in HeldLoads'
      BY <1>8, <2>3, <3>1 DEF HeldLoads
    <3>6. First(u, Pipe', p1.req)
      BY <1>6, <3>3, <3>4, <3>5
    <3> QED BY <1>3, <1>8, <3>2, <3>6
  <2> QED BY <2>2, <2>3 DEF PortOrder
<1>9. CASE /\ state = "ACTIVE" /\ Fires(in) /\ p1'.req = Head1
           /\ Head1.op.store => p1'.val = in.data.val
  <2>1. Op1' = Head1.op /\ h = 1
    BY <1>3, <1>9 DEF Op1, Pops
  <2>2. Store1' => p1'.val = Op1'.val
    <3>1. Head1.op.store => StoreFires(in)
      BY <1>9 DEF Fires, LoadFires
    <3> QED BY <1>1, <1>9, <2>1, <3>1, HeadFires DEF Store1
  <2>3. ASSUME Pending1', ~Op1'.store PROVE g - f = 0 /\ First(u, Pipe', p1'.req)
    <3>1. LoadFires
      BY <1>9, <2>1, <2>3 DEF Fires, StoreFires
    <3>2. g = 0
      BY <1>1, <1>9, <3>1, HeadFires
    <3>3. 1 \in DOMAIN mq /\ 1 \in 1 .. Len(Pipe) /\ Pipe[1] = Head1 /\ mq[1] = Head1
      BY <1>1, <1>3, <1>5, <2>1 DEF Head1
    <3>4. /\ \A i \in g + 1 .. Len(Pipe) : \E k \in DOMAIN win :
                Had(win[k], Pipe[i]) /\ win[k].op = Pipe[i].op
                /\ (~Pipe[i].op.store => win[k].st = "sent")
          /\ \A i \in g + 1 .. Len(Pipe), j \in g + 1 .. Len(Pipe),
                k \in DOMAIN win, l \in DOMAIN win :
                i < j /\ Had(win[k], Pipe[i]) /\ Had(win[l], Pipe[j]) => k < l
      BY <1>1 DEF QueueOrder
    <3>5. PICK k \in DOMAIN win : /\ Had(win[k], Head1) /\ win[k].op = Head1.op
                                  /\ win[k].st = "sent"
      BY <2>1, <2>3, <3>2, <3>3, <3>4
    <3>6. OlderThan(win, Pipe, h, Len(mq'), k)
      <4> SUFFICES ASSUME NEW i \in 1 .. Len(mq'), NEW l \in DOMAIN win, Had(win[l], Pipe[i + h])
                   PROVE  k < l
        BY DEF OlderThan
      <4>1. i + h \in 1 .. Len(Pipe) /\ 1 < i + h
        BY <1>5, <2>1
      <4>2. Had(win[k], Pipe[1])
        BY <3>3, <3>5
      <4>3. g + 1 = 1
        BY <3>2
      <4> QED BY <3>3, <3>4, <4>1, <4>2, <4>3
    <3>7. Head1.rob \in HeldLoads
      BY <2>1, <2>3, <3>3 DEF HeldLoads
    <3>8. Head1.rob \in HeldLoads'
      BY <1>9, <2>1, <2>3 DEF HeldLoads
    <3>9. First(u, Pipe', Head1)
      BY <1>6, <3>5, <3>6, <3>7, <3>8 DEF Had
    <3> QED BY <1>3, <1>9, <3>2, <3>9
  <2> QED BY <2>2, <2>3 DEF PortOrder
<1> QED BY <1>1, <1>7, <1>8, <1>9, PortStep

(* The view with the store of port 1 are lines. *)
LEMMA WrittenIs ==
    ASSUME NEW a \in [Sets -> Rows], NEW m \in Mems, NEW r \in Reqs \cup {NoReq}
    PROVE  WrittenOf(a, m, r) \in Mems
<1>1. ViewOf(a, m) \in Mems
  BY ViewIs
<1>2. CASE r = NoReq
  BY <1>1, <1>2 DEF WrittenOf
<1>3. CASE r # NoReq
  <2> PICK q : q = <<r>>
    OBVIOUS
  <2>1. \A i \in {1} : q[i].op \in Ops
    BY <1>3 DEF Reqs
  <2>2. {1} \in Places
    BY PlacesAre
  <2>3. After(ViewOf(a, m), q, {1}) \in Mems
    BY <1>1, <2>1, <2>2, AfterMems
  <2> QED BY <1>3, <2>3 DEF WrittenOf
<1> QED BY <1>2, <1>3

(* The lines, with port 1 and what is queued of the retired stores, are still what the
   program has committed. *)
LEMMA LinesTaken ==
    ASSUME NEW in, NEW g, NEW f, CycleFrom(in, g, f), NEW h \in {0, 1}, Leaves(in, g, f, h),
           DataBefore(in), DataGood(in)
    PROVE  /\ committed \in Mems
           /\ committed = IF state' \in Starting THEN mem' ELSE After(Written', mq', 1 .. g - f)
           /\ state' \notin Starting => Written' \in Mems
<1>1. /\ Cycle(in) /\ CacheInv /\ CacheData /\ Fits(in) /\ CacheStep(in) /\ CacheInv'
      /\ g \in 0 .. Len(mq) /\ g \in Nat /\ f \in {0, 1} /\ f <= g
      /\ f = 1 <=> state = "ACTIVE" /\ StoreFires(in)
      /\ committed = IF state \in Starting THEN mem ELSE After(Written, mq, 1 .. g)
      /\ mq \in Seq(Reqs) /\ mq' \in Seq(Reqs) /\ Len(mq) \in Nat
  BY CacheAdvances DEF CycleFrom, OrderInv, Cycle, DataBefore, Leaves
<1>2. /\ CacheData' /\ ViewStep(in) /\ Written' = WrittenOf(arr', mem', p1'.req)
      /\ Written = WrittenOf(arr, mem, p1.req)
  BY DEF DataGood, Written, WrittenOf, View, ViewOf
<1>3. Written \in Mems /\ Written' \in Mems
  <2>1. /\ arr \in [Sets -> Rows] /\ mem \in Mems /\ p1.req \in Reqs \cup {NoReq}
        /\ arr' \in [Sets -> Rows] /\ mem' \in Mems /\ p1'.req \in Reqs \cup {NoReq}
    BY <1>1, <1>2 DEF CacheData, CacheInv, CacheType
  <2> QED BY <1>2, <2>1, WrittenIs
<1>4. \A n \in Nat : 1 .. n \in Places
  BY PlacesAre
<1>5. \A i \in 1 .. g : mq[i].op \in Ops
  <2> SUFFICES ASSUME NEW i \in 1 .. g PROVE mq[i].op \in Ops
    OBVIOUS
  <2>1. mq[i] \in Reqs
    BY <1>1
  <2> QED BY <2>1 DEF Reqs
<1>6. CASE state \in Starting
  <2>1. mq = <<>> /\ g = 0 /\ f = 0 /\ state \notin Waiting
    <3>1. mq = <<>> /\ state \notin Waiting
      BY <1>1, <1>6 DEF CacheInv, StateInv, Starting, Waiting
    <3> QED BY <1>1, <3>1
  <2>2. committed = mem /\ mem' = mem
    BY <1>1, <1>6, <2>1, NoAnswer
  <2>3. committed \in Mems
    BY <1>1, <2>2 DEF CacheData
  <2>4. ASSUME state' \notin Starting PROVE committed = After(Written', mq', 1 .. g - f)
    <3>1. Written' = mem'
      BY <1>2, <1>6, <2>4 DEF ViewStep
    <3> PICK none : none = 1 .. g - f
      OBVIOUS
    <3>2. none \in Places /\ \A i \in none : FALSE
      <4>1. \A i \in none : FALSE
        BY <2>1
      <4>2. none = {}
        BY <4>1
      <4> QED BY <4>1, <4>2, PlacesAre
    <3>3. After(Written', mq', none) = Written'
      BY <1>3, <3>2, AfterLoads
    <3> QED BY <2>2, <3>1, <3>3
  <2> QED BY <1>3, <2>2, <2>3, <2>4
<1>7. CASE state \notin Starting
  <2>1. state' \notin Starting
    BY <1>1, <1>7, CacheMoves DEF Fits, CacheInv, CacheType, DataBefore
  <2> PICK old, q, p : old = Written /\ q = mq /\ p = mq'
    OBVIOUS
  <2>2. committed = After(old, q, 1 .. g) /\ old \in Mems /\ \A i \in 1 .. g : q[i].op \in Ops
    BY <1>1, <1>3, <1>5, <1>7
  <2>3. committed \in Mems
    BY <1>1, <1>4, <2>2, AfterMems
  <2>4. \A i \in 1 .. g - f : p[i] = q[i + f]
    BY RetiredStay DEF RetiredMoved
  <2>5. CASE f = 0
    <3>1. Written' = old
      BY <1>1, <1>2, <1>7, <2>5 DEF ViewStep
    <3>2. PICK I \in Places : I = 1 .. g
      BY <1>1, <1>4
    <3>3. \A i \in I : i + 0 = i /\ i + 0 \in I /\ i - 0 \in I /\ p[i] = q[i + 0] /\ p[i].op \in Ops
      BY <1>1, <2>2, <2>4, <2>5, <3>2
    <3>4. After(old, p, I) = After(old, q, I)
      BY ONLY <2>2, <3>3, I \in Places, AfterShifted
    <3>5. 1 .. g - f = I
      BY <1>1, <2>5, <3>2
    <3> QED BY <2>1, <2>2, <2>3, <3>1, <3>2, <3>4, <3>5, <1>3
  <2>6. CASE f = 1
    <3>1. Written' = After(old, q, {1})
      BY <1>1, <1>2, <1>7, <2>6 DEF ViewStep
    <3> PICK one : one = Written'
      OBVIOUS
    <3>2. PICK I, J, K \in Places : I = 1 .. g - 1 /\ J = 2 .. g /\ K = {1}
      BY <1>1, <2>6, PlacesAre
    <3>3. /\ \A i \in I : i + 1 \in J /\ p[i] = q[i + 1] /\ p[i].op \in Ops /\ p[i].op = q[i + 1].op
          /\ \A j \in J : j - 1 \in I
      BY <1>1, <2>2, <2>4, <2>6, <3>2
    <3>4. After(one, p, I) = After(one, q, J)
      BY ONLY <1>3, <3>3, I \in Places, J \in Places, one = Written', AfterShifted
    <3>5. After(After(old, q, K), q, J) = After(old, q, K \cup J)
      <4>1. \A i \in K \cup J : q[i].op \in Ops
        BY <1>1, <2>2, <2>6, <3>2
      <4>2. \A i \in K, j \in J : i < j
        BY <1>1, <3>2
      <4> QED BY ONLY <2>2, <4>1, <4>2, J \in Places, K \in Places, AfterMore
    <3>6. K \cup J = 1 .. g /\ 1 .. g - f = I
      BY <1>1, <2>6, <3>2
    <3> QED BY <1>3, <2>1, <2>2, <2>3, <3>1, <3>2, <3>4, <3>5, <3>6
  <2> QED BY <1>1, <2>5, <2>6
<1> QED BY <1>6, <1>7

-----------------------------------------------------------------------------
(***************************************************************************)
(* What the core retires and allocates after that, with the queues as they *)
(* are at the end of the cycle: w is the window, and g of the requests are *)
(* of stores that have left it.                                            *)
(***************************************************************************)
Ordered(w, g) ==
    /\ Pipe' \in Seq(Reqs) /\ Len(mdq') \in Nat /\ Len(mq') \in Nat /\ Len(mq') <= Len(Pipe')
    /\ \A i \in 1 .. Len(mq') : Pipe'[i] = mq'[i] /\ mq'[i].op \in Ops
    /\ w \in Seq(Entries) /\ NoTwo(w) /\ WindowOrder(w) /\ g \in 0 .. Len(mq')
    /\ QueueOrder(w, Pipe', g) /\ DataOrder(w, Pipe', mdq', g)
    /\ ~dsDone => StoresHeld(w, Pipe')
    /\ PortOrder(w, g)
    /\ \A k \in DOMAIN w, i \in DOMAIN Pipe' :
          i > Len(mq') /\ w[k].rob = Pipe'[i].rob => w[k].st # "done"

(* After the head of the window has retired everything is still in order; a store is
   then the last of the retired ones. *)
LEMMA RetireOne ==
    ASSUME NEW w, NEW v, NEW g, Ordered(w, g), Dropped(w, v), ~dsDone,
           w[1].st = "done", w[1].op.store => w[1].data
    PROVE  IF w[1].op.store
           THEN /\ Ordered(v, g + 1)
                /\ mq'[g + 1].rob = w[1].rob /\ mq'[g + 1].op = w[1].op
           ELSE Ordered(v, g)
<1> PICK q, d, m : q = Pipe' /\ d = mdq' /\ m = Len(mq')
  OBVIOUS
<1>1. /\ q \in Seq(Reqs) /\ Len(d) \in Nat /\ m \in Nat /\ m <= Len(q)
      /\ \A i \in 1 .. m : q[i] = mq'[i] /\ mq'[i].op \in Ops
      /\ w \in Seq(Entries) /\ NoTwo(w) /\ WindowOrder(w) /\ g \in 0 .. m
      /\ QueueOrder(w, q, g) /\ DataOrder(w, q, d, g)
      /\ StoresHeld(w, q) /\ PortOrder(w, g)
      /\ \A k \in DOMAIN w, i \in DOMAIN q : i > m /\ w[k].rob = q[i].rob => w[k].st # "done"
  BY DEF Ordered
<1>2. /\ Len(w) \in Nat \ {0} /\ DOMAIN w = 1 .. Len(w) /\ DOMAIN v = 1 .. Len(w) - 1
      /\ \A k \in DOMAIN v : k + 1 \in DOMAIN w /\ v[k] = w[k + 1] /\ w[k + 1].rob # w[1].rob
      /\ NoTwo(v) /\ v \in Seq(Entries)
  BY <1>1, DroppedIs DEF Dropped
<1>3. /\ WindowOrder(v) /\ StoresHeld(v, q)
      /\ \A r : First(w, q, r) => First(v, q, r)
  BY <1>1, RetireAny
<1>4. \A k \in DOMAIN v, i \in DOMAIN q : i > m /\ v[k].rob = q[i].rob => v[k].st # "done"
  BY <1>1, <1>2
<1>5. g \in Nat /\ Len(q) \in Nat /\ DOMAIN q = 1 .. Len(q) /\ 1 \in DOMAIN w
  BY <1>1, <1>2
<1>6. CASE w[1].op.store
  <2>1. /\ g + 1 \in DOMAIN q /\ q[g + 1].rob = w[1].rob /\ q[g + 1].op = w[1].op
        /\ QueueOrder(v, q, g + 1) /\ DataOrder(v, q, d, g + 1)
    BY <1>1, <1>5, <1>6, RetireStore
  <2>2. g + 1 \in 0 .. m /\ g + 1 \in 1 .. m
    BY <1>1, <1>5, <2>1
  <2>3. ~(Pending1' /\ ~Op1'.store)
    <3> SUFFICES ASSUME Pending1', ~Op1'.store PROVE FALSE
      OBVIOUS
    <3>1. First(w, q, p1'.req)
      BY <1>1 DEF PortOrder
    <3>2. PICK k \in DOMAIN w : \A i \in DOMAIN q, l \in DOMAIN w : Had(w[l], q[i]) => k < l
      BY <3>1 DEF First
    <3>3. Had(w[1], q[g + 1])
      BY <1>6, <2>1 DEF Had
    <3>4. k < 1
      BY <1>5, <2>1, <3>2, <3>3
    <3> QED BY <1>2, <3>4
  <2>4. PortOrder(v, g + 1)
    BY <1>1, <2>3 DEF PortOrder
  <2>5. Ordered(v, g + 1)
    BY <1>1, <1>2, <1>3, <1>4, <2>1, <2>2, <2>4 DEF Ordered
  <2>6. mq'[g + 1].rob = w[1].rob /\ mq'[g + 1].op = w[1].op
    BY <1>1, <2>1, <2>2
  <2> QED BY <1>6, <2>5, <2>6
<1>7. CASE ~w[1].op.store
  <2>1. QueueOrder(v, q, g) /\ DataOrder(v, q, d, g)
    BY <1>1, <1>5, <1>7, RetireLoad
  <2>2. PortOrder(v, g)
    BY <1>1, <1>3 DEF PortOrder
  <2>3. Ordered(v, g)
    BY <1>1, <1>2, <1>3, <1>4, <2>1, <2>2 DEF Ordered
  <2> QED BY <1>7, <2>3
<1> QED BY <1>6, <1>7

(* A new operation comes last. *)
LEMMA AllocatedLast ==
    ASSUME NEW w, NEW v, NEW g, Ordered(w, g), Added(w, v)
    PROVE  Ordered(v, g)
<1> PICK q, d, m : q = Pipe' /\ d = mdq' /\ m = Len(mq')
  OBVIOUS
<1>1. /\ q \in Seq(Reqs) /\ Len(d) \in Nat /\ m \in Nat /\ m <= Len(q)
      /\ \A i \in 1 .. m : q[i] = mq'[i] /\ mq'[i].op \in Ops
      /\ w \in Seq(Entries) /\ NoTwo(w) /\ WindowOrder(w) /\ g \in 0 .. m
      /\ QueueOrder(w, q, g) /\ DataOrder(w, q, d, g)
      /\ ~dsDone => StoresHeld(w, q)
      /\ PortOrder(w, g)
      /\ \A k \in DOMAIN w, i \in DOMAIN q : i > m /\ w[k].rob = q[i].rob => w[k].st # "done"
  BY DEF Ordered
<1>2. /\ Len(w) \in Nat /\ DOMAIN w = 1 .. Len(w) /\ DOMAIN v = 1 .. Len(w) + 1
      /\ v \in Seq(Entries) /\ \A i \in DOMAIN w : v[i] = w[i]
      /\ v[Len(w) + 1].st = "new" /\ \A i \in DOMAIN w : w[i].rob # v[Len(w) + 1].rob
  BY DEF Added
<1>3. \A k \in DOMAIN v : k \in DOMAIN w \/ k = Len(w) + 1
  BY <1>2
<1>4. g \in Nat
  BY <1>1
<1>5. /\ WindowOrder(v) /\ QueueOrder(v, q, g) /\ DataOrder(v, q, d, g)
      /\ ~dsDone => StoresHeld(v, q)
      /\ \A r : First(w, q, r) => First(v, q, r)
  BY <1>1, <1>4, AllocateOne
<1>6. NoTwo(v)
  BY <1>1, <1>2, <1>3 DEF NoTwo
<1>7. \A k \in DOMAIN v, i \in DOMAIN q : i > m /\ v[k].rob = q[i].rob => v[k].st # "done"
  BY <1>1, <1>2, <1>3
<1>8. PortOrder(v, g)
  BY <1>1, <1>5 DEF PortOrder
<1> QED BY <1>1, <1>2, <1>5, <1>6, <1>7, <1>8 DEF Ordered

(* The order of the data is about the retired stores of the queue only. *)
LEMMA SameData ==
    ASSUME NEW w, NEW q, NEW p, NEW d, NEW g, DataOrder(w, q, d, g),
           \A i \in 1 .. g : q[i] = p[i]
    PROVE  DataOrder(w, p, d, g)
BY DEF DataOrder

(* What the cache has taken and answered leaves everything in order. *)
LEMMA TakenOrdered ==
    ASSUME NEW in, NEW g, NEW f, CycleFrom(in, g, f), NEW h \in {0, 1}, Leaves(in, g, f, h),
           NEW data, NEW u, WindowTook(in, data, u), PushData(in, data)
    PROVE  Ordered(u, g - f)
<1>1. /\ NoTwo(u) /\ WindowOrder(u) /\ QueueOrder(u, Pipe', g - f)
      /\ u \in Seq(Entries) /\ Len(u) = Len(win) /\ g - f \in Nat
  BY OrderTaken
<1>2. DataOrder(u, mq', mdq', g - f)
  BY DataTakenOn
<1>3. ~dsDone => StoresHeld(u, Pipe')
  BY StoresTaken
<1>4. PortOrder(u, g - f)
  BY PortTaken
<1>5. /\ Cycle(in) /\ g \in Nat /\ f \in {0, 1}
  BY DEF CycleFrom
<1>6. /\ Pipe' \in Seq(Reqs) /\ mq' \in Seq(Reqs) /\ Len(mq') <= Len(Pipe')
      /\ \A i \in 1 .. Len(mq') : Pipe'[i] = mq'[i]
  BY <1>5, CacheAdvances
<1>7. Len(mdq') \in Nat
  BY DataPushed DEF DataMoved
<1>8. g - f <= Len(mq')
  BY <1>5, <1>6, Len(mq') \in Nat DEF Leaves
<1>9. /\ Taken1(win, u, Accepted(in)) /\ \A k \in Accepted(in) : u[k].st = "sent"
      /\ Moved(Pipe, Pipe', h, Len(mq'), win, Accepted(in))
  BY DEF WindowTook, Leaves
<1>10. ASSUME NEW k \in DOMAIN u, NEW i \in DOMAIN Pipe', i > Len(mq'), u[k].rob = Pipe'[i].rob
       PROVE  u[k].st # "done"
  <2>1. i \in Len(mq') + 1 .. Len(Pipe')
    BY <1>6, <1>10
  <2>2. PICK l \in Accepted(in) : Pipe'[i] = [op |-> win[l].op, rob |-> win[l].rob]
    BY <1>9, <2>1 DEF Moved
  <2>3. l \in DOMAIN u /\ u[l].rob = win[l].rob
    BY <1>9 DEF Taken1
  <2>4. l = k
    BY <1>1, <1>10, <2>2, <2>3 DEF NoTwo
  <2> QED BY <1>9, <2>4
<1>11. /\ Len(mq') \in Nat /\ g - f \in 0 .. Len(mq')
       /\ \A i \in 1 .. Len(mq') : Pipe'[i] = mq'[i] /\ mq'[i].op \in Ops
  <2>1. \A i \in 1 .. Len(mq') : mq'[i] \in Reqs
    BY <1>6
  <2> QED BY <1>1, <1>6, <1>8, <2>1 DEF Reqs
<1>12. DataOrder(u, Pipe', mdq', g - f)
  <2>1. \A i \in 1 .. g - f : mq'[i] = Pipe'[i]
    BY <1>11
  <2> QED BY <1>2, <2>1, SameData
<1> QED BY <1>1, <1>3, <1>4, <1>6, <1>7, <1>10, <1>11, <1>12 DEF Ordered

(* A store that retires adds its words to the committed ones, and is the next one
   of the retired stores that are still queued. *)
LEMMA RetireLines ==
    ASSUME NEW w, NEW v, NEW g, Ordered(w, g), Dropped(w, v), ~dsDone,
           w[1].st = "done", w[1].op.store => w[1].data,
           NEW lines \in Mems, NEW c, c = After(lines, mq', 1 .. g)
    PROVE  /\ After(c, w, {1}) \in Mems
           /\ \E g2 \in {g, g + 1} :
                /\ Ordered(v, g2) /\ After(c, w, {1}) = After(lines, mq', 1 .. g2)
                /\ \A i \in g + 1 .. g2 : mq'[i].rob = w[1].rob
<1> PICK p : p = mq'
  OBVIOUS
<1>1. /\ g \in Nat /\ g <= Len(p) /\ Len(p) \in Nat /\ \A i \in 1 .. Len(p) : p[i].op \in Ops
      /\ w[1] \in Entries
  BY DroppedIs DEF Ordered, Dropped
<1>2. PICK one, I, J : one = {1} /\ I = 1 .. g /\ J = {g + 1}
  OBVIOUS
<1>3. one \in Places /\ I \in Places /\ J \in Places
  BY <1>1, <1>2, PlacesAre
<1>4. c = After(lines, p, I) /\ c \in Mems
  <2>1. \A i \in I : p[i].op \in Ops
    BY <1>1, <1>2
  <2> QED BY <1>2, <1>3, <2>1, AfterMems
<1>5. \A i \in one : w[i].op \in Ops
  BY <1>1, <1>2 DEF Entries
<1>6. After(c, w, one) \in Mems
  BY <1>3, <1>4, <1>5, AfterMems
<1>7. CASE w[1].op.store
  <2>1. Ordered(v, g + 1) /\ p[g + 1].rob = w[1].rob /\ p[g + 1].op = w[1].op
    BY <1>7, RetireOne
  <2>2. g + 1 \in 1 .. Len(p)
    BY <1>1, <2>1 DEF Ordered
  <2>3. After(c, w, one) = After(c, p, J)
    <3>1. /\ \A i \in one : i + g \in J /\ w[i].op \in Ops /\ w[i].op = p[i + g].op
          /\ \A j \in J : j - g \in one
      BY <1>1, <1>2, <1>5, <2>1
    <3>2. g \in Int
      BY <1>1
    <3> QED BY ONLY <1>3, <1>4, <3>1, <3>2, AfterShifted
  <2>4. After(c, p, J) = After(lines, p, I \cup J)
    <3>1. \A i \in I \cup J : p[i].op \in Ops
      BY <1>1, <1>2, <2>2
    <3>2. \A i \in I, j \in J : i < j
      BY <1>1, <1>2
    <3> QED BY ONLY <1>3, <1>4, <3>1, <3>2, lines \in Mems, AfterMore
  <2>5. I \cup J = 1 .. g + 1
    BY <1>1, <1>2
  <2>6. \A i \in g + 1 .. g + 1 : p[i].rob = w[1].rob
    BY <1>1, <2>1
  <2> QED BY <1>2, <1>6, <2>1, <2>3, <2>4, <2>5, <2>6
<1>8. CASE ~w[1].op.store
  <2>1. Ordered(v, g)
    BY <1>8, RetireOne
  <2>2. After(c, w, one) = c
    <3>1. \A i \in one : w[i].op \in Ops /\ ~w[i].op.store
      BY <1>2, <1>5, <1>8
    <3> QED BY ONLY <1>3, <1>4, <3>1, AfterLoads
  <2>3. \A i \in g + 1 .. g : FALSE
    BY <1>1
  <2> QED BY <1>2, <1>4, <1>6, <2>1, <2>2, <2>3
<1> QED BY <1>7, <1>8

\* The first n of the window u have left it, which leaves v.
Behind(u, v, n) ==
    /\ u \in Seq(Entries) /\ v \in Seq(Entries) /\ n \in 0 .. Len(u) /\ Len(v) = Len(u) - n
    /\ \A i \in 1 .. Len(u) - n : v[i] = u[i + n]
\* What may retire; and what the committed lines are then, when the lines are those
\* of the memory and port 1.
Leaving(u, n) == \A i \in 1 .. n : u[i].st = "done" /\ (u[i].op.store => u[i].data)
Left(v, lines, c, g, g2, robs) ==
    /\ c \in Mems /\ Ordered(v, g2) /\ g2 \in Nat /\ g2 >= g
    /\ c = After(lines, mq', 1 .. g2)
    /\ \A i \in g + 1 .. g2 : mq'[i].rob \in robs

(* At most two operations retire in a cycle, one after the other. *)
LEMMA RetireSome ==
    ASSUME NEW u, NEW v, NEW n \in {1, 2}, Behind(u, v, n), Leaving(u, n), ~dsDone,
           NEW g, Ordered(u, g), NEW lines \in Mems, NEW c, c = After(lines, mq', 1 .. g)
    PROVE  \E g2 : Left(v, lines, After(c, u, 1 .. n), g, g2, {u[i].rob : i \in 1 .. n})
<1>1. /\ u \in Seq(Entries) /\ v \in Seq(Entries) /\ n <= Len(u) /\ Len(v) = Len(u) - n
      /\ Len(u) \in Nat /\ \A i \in 1 .. Len(u) - n : v[i] = u[i + n]
  BY DEF Behind
<1>2. \A i \in 1 .. n : u[i].st = "done" /\ (u[i].op.store => u[i].data)
  BY DEF Leaving
<1>3. g \in Nat /\ Len(mq') \in Nat /\ g <= Len(mq') /\ \A i \in 1 .. Len(mq') : mq'[i].op \in Ops
  BY DEF Ordered
<1>4. PICK t : t = Tail(u)
  OBVIOUS
<1>5. /\ t \in Seq(Entries) /\ Len(t) = Len(u) - 1 /\ \A i \in 1 .. Len(u) - 1 : t[i] = u[i + 1]
      /\ Len(u) >= 1
  <2>1. u # <<>> /\ Len(u) >= 1
    BY <1>1
  <2> QED BY <1>1, <1>4, <2>1
<1>6. Dropped(u, t)
  BY <1>1, <1>5 DEF Dropped
<1>7. PICK one : one = {1}
  OBVIOUS
<1>8. /\ one \in Places /\ 1 .. g \in Places
      /\ u[1].st = "done" /\ (u[1].op.store => u[1].data)
  BY <1>2, <1>3, <1>7, PlacesAre
<1>9. PICK c1 : c1 = After(c, u, one)
  OBVIOUS
<1>10. /\ c1 \in Mems
       /\ \E g2 \in {g, g + 1} :
            /\ Ordered(t, g2) /\ c1 = After(lines, mq', 1 .. g2)
            /\ \A i \in g + 1 .. g2 : mq'[i].rob = u[1].rob
  BY <1>6, <1>7, <1>8, <1>9, RetireLines
<1>11. PICK g1 \in {g, g + 1} :
            /\ Ordered(t, g1) /\ c1 = After(lines, mq', 1 .. g1)
            /\ \A i \in g + 1 .. g1 : mq'[i].rob = u[1].rob
  BY <1>10
<1>12. c \in Mems
  BY <1>3, <1>8, AfterMems
<1>13. CASE n = 1
  <2>1. v = t
    <3>1. v \in Seq(Entries) /\ Len(v) = Len(u) - 1 /\ \A i \in 1 .. Len(u) - 1 : v[i] = u[i + 1]
      BY <1>1, <1>13
    <3> QED BY ONLY <1>5, <3>1, SeqEqual
  <2>2. 1 .. n = one
    BY <1>7, <1>13
  <2>3. \A i \in g + 1 .. g1 : mq'[i].rob \in {u[j].rob : j \in 1 .. n}
    BY <1>11, <1>13
  <2> QED BY <1>3, <1>9, <1>10, <1>11, <2>1, <2>2, <2>3 DEF Left
<1>14. CASE n = 2
  <2>1. Len(t) >= 1 /\ t[1] = u[2] /\ 2 \in 1 .. n
    BY <1>1, <1>5, <1>14
  <2>2. Dropped(t, v)
    BY <1>1, <1>5, <1>14, <2>1 DEF Dropped
  <2>3. t[1].st = "done" /\ (t[1].op.store => t[1].data)
    BY <1>2, <2>1
  <2>4. PICK c2 : c2 = After(c1, t, one)
    OBVIOUS
  <2>5. /\ c2 \in Mems
        /\ \E g2 \in {g1, g1 + 1} :
             /\ Ordered(v, g2) /\ c2 = After(lines, mq', 1 .. g2)
             /\ \A i \in g1 + 1 .. g2 : mq'[i].rob = t[1].rob
    <3>1. Ordered(t, g1) /\ c1 = After(lines, mq', 1 .. g1)
      BY <1>11
    <3> QED BY ONLY <1>7, <2>2, <2>3, <2>4, <3>1, ~dsDone, lines \in Mems, RetireLines
  <2>6. PICK g2 \in {g1, g1 + 1} :
             /\ Ordered(v, g2) /\ c2 = After(lines, mq', 1 .. g2)
             /\ \A i \in g1 + 1 .. g2 : mq'[i].rob = t[1].rob
    BY <2>5
  <2>7. c2 = After(c, u, 1 .. n)
    <3>1. PICK two, both : two = {2} /\ both = 1 .. n
      OBVIOUS
    <3>2. two \in Places /\ both \in Places /\ both = one \cup two
      BY <1>7, <1>14, <3>1, PlacesAre
    <3>3. \A i \in both : u[i].op \in Ops
      <4>1. \A i \in both : u[i] \in Entries
        BY <1>1, <3>1
      <4> QED BY <4>1 DEF Entries
    <3>4. After(c1, u, two) = After(c, u, both)
      <4>1. \A i \in one \cup two : u[i].op \in Ops
        BY <3>2, <3>3
      <4>2. \A i \in one, j \in two : i < j
        BY <1>7, <3>1
      <4> QED BY ONLY <1>8, <1>9, <1>12, <3>2, <4>1, <4>2, AfterMore
    <3>5. After(c1, u, two) = After(c1, t, one)
      <4>1. /\ \A i \in two : i + (-1) \in one /\ u[i].op \in Ops /\ u[i].op = t[i + (-1)].op
            /\ \A j \in one : j - (-1) \in two
        BY <1>7, <1>14, <2>1, <3>1, <3>2, <3>3
      <4> PICK back \in Int : back = -1
        OBVIOUS
      <4>2. /\ \A i \in two : i + back \in one /\ u[i].op \in Ops /\ u[i].op = t[i + back].op
            /\ \A j \in one : j - back \in two
        BY <4>1
      <4> QED BY ONLY <1>8, <1>10, <3>2, <4>2, back \in Int, AfterShifted
    <3> QED BY <2>4, <3>1, <3>4, <3>5
  <2>8. g2 \in Nat /\ g2 >= g /\ g1 \in Nat
    BY <1>3
  <2>9. \A i \in g + 1 .. g2 : mq'[i].rob \in {u[j].rob : j \in 1 .. n}
    <3> SUFFICES ASSUME NEW i \in g + 1 .. g2 PROVE mq'[i].rob \in {u[j].rob : j \in 1 .. n}
      OBVIOUS
    <3>1. i \in g + 1 .. g1 \/ i \in g1 + 1 .. g2
      BY <1>3, <2>8
    <3>2. 1 \in 1 .. n /\ 2 \in 1 .. n
      BY <1>14
    <3>3. mq'[i].rob = u[1].rob \/ mq'[i].rob = u[2].rob
      BY <1>11, <2>1, <2>6, <3>1
    <3> QED BY <3>2, <3>3
  <2> QED BY <2>5, <2>6, <2>7, <2>8, <2>9 DEF Left
<1> QED BY <1>13, <1>14

(* What retires and is allocated in a cycle, and what is left of the window. *)
Settled(g) ==
    /\ Ordered(win', g) /\ g \in Nat /\ committed' \in Mems
    /\ committed' = IF state' \in Starting THEN mem' ELSE After(Written', mq', 1 .. g)
    /\ \A k \in DOMAIN win' : win'[k].rob \notin retired'
    /\ retired' \subseteq Slots /\ mdq' \in Seq([rob : Slots, val : Vals])
Graduating(g, g2) == g2 >= g /\ \A i \in g + 1 .. g2 : mq'[i].rob \in retired'

(* What is left when n operations have retired. *)
LEMMA LeftBehind ==
    ASSUME CoreType, NEW in, NEW pop, NEW data, NEW n, n \in 0 .. Len(win),
           NEW u, u = Updated(in, pop, data), NEW left, left = SubSeq(u, n + 1, Len(win))
    PROVE  Behind(u, left, n)
<1>1. /\ u \in Seq(Entries) /\ Len(u) = Len(win)
      /\ SubSeq(u, n + 1, Len(win)) \in Seq(Entries)
      /\ Len(SubSeq(u, n + 1, Len(win))) = Len(win) - n
      /\ \A i \in 1 .. Len(win) - n : SubSeq(u, n + 1, Len(win))[i] = u[i + n]
  <2>1. n \in 0 .. Len(win) /\ u = Updated(in, pop, data) /\ CoreType
    OBVIOUS
  <2> QED BY ONLY <2>1, UpdatedIs
<1> QED BY <1>1 DEF Behind

(* An operation is allocated, or none. *)
SameSlots(u) ==
    /\ win \in Seq(Entries) /\ Len(u) = Len(win)
    /\ \A i \in DOMAIN win : u[i].rob = win[i].rob
LeftOrNew(v, n) ==
    \A k \in DOMAIN v : \/ \E i \in n + 1 .. Len(win) : v[k].rob = win[i].rob
                       \/ v[k].rob \notin {win[i].rob : i \in DOMAIN win}

(* What is allocated comes after what is left. *)
LEMMA NewLast ==
    ASSUME NEW u, NEW left, NEW n, Behind(u, left, n), SameSlots(u),
           NEW new \in Allocations, NEW v, v = left \o new, NEW g, Ordered(left, g)
    PROVE  Ordered(v, g) /\ LeftOrNew(v, n)
<1> SUFFICES Ordered(v, g) /\ v \in Seq(Entries)
             /\ \A k \in DOMAIN v : \/ \E i \in n + 1 .. Len(win) : v[k].rob = win[i].rob
                                    \/ v[k].rob \notin {win[i].rob : i \in DOMAIN win}
  BY DEF LeftOrNew
<1>0. /\ win \in Seq(Entries) /\ Len(u) = Len(win)
      /\ \A i \in DOMAIN win : u[i].rob = win[i].rob
  BY DEF SameSlots
<1>1. /\ left \in Seq(Entries) /\ Len(left) = Len(u) - n /\ n \in 0 .. Len(u) /\ Len(u) \in Nat
      /\ Len(left) \in Nat /\ DOMAIN left = 1 .. Len(left)
      /\ \A i \in 1 .. Len(u) - n : left[i] = u[i + n]
  BY DEF Behind
<1>2. DOMAIN win = 1 .. Len(win)
  BY <1>0
<1>3. ASSUME NEW k \in DOMAIN left PROVE k + n \in n + 1 .. Len(win) /\ left[k].rob = win[k + n].rob
  <2>1. k + n \in n + 1 .. Len(win) /\ k + n \in 1 .. Len(win) /\ left[k] = u[k + n]
    BY <1>0, <1>1
  <2> QED BY <1>0, <1>2, <2>1
<1>4. CASE new = <<>>
  <2>1. v = left
    BY <1>1, <1>4
  <2> QED BY <1>1, <1>3, <2>1
<1>5. ASSUME NEW op \in Ops, NEW rob \in Slots, new = <<Entry(op, rob)>>,
             rob \notin {win[i].rob : i \in DOMAIN win}
      PROVE  /\ Ordered(v, g) /\ v \in Seq(Entries)
             /\ \A k \in DOMAIN v : \/ \E i \in n + 1 .. Len(win) : v[k].rob = win[i].rob
                                    \/ v[k].rob \notin {win[i].rob : i \in DOMAIN win}
  <2> PICK e : e = Entry(op, rob)
    OBVIOUS
  <2>1. e \in Entries /\ e.st = "new" /\ ~e.data /\ e.rob = rob
    BY DEF Entry, Entries
  <2>2. /\ v \in Seq(Entries) /\ Len(v) = Len(left) + 1 /\ v[Len(left) + 1] = e
        /\ \A i \in 1 .. Len(left) : v[i] = left[i]
    BY <1>1, <1>5, <2>1
  <2>3. \A i \in 1 .. Len(left) : left[i].rob # rob
    <3> SUFFICES ASSUME NEW i \in 1 .. Len(left) PROVE left[i].rob # rob
      OBVIOUS
    <3>1. i + n \in n + 1 .. Len(win) /\ left[i].rob = win[i + n].rob
      BY <1>1, <1>3
    <3>2. i + n \in DOMAIN win
      BY <1>1, <1>2, <3>1
    <3> QED BY <1>5, <3>1, <3>2
  <2>4. Added(left, v)
    BY <1>1, <2>1, <2>2, <2>3 DEF Added
  <2>5. Ordered(v, g)
    BY <2>4, AllocatedLast
  <2>6. ASSUME NEW k \in DOMAIN v
        PROVE  \/ \E i \in n + 1 .. Len(win) : v[k].rob = win[i].rob
               \/ v[k].rob \notin {win[i].rob : i \in DOMAIN win}
    <3>1. k \in DOMAIN left \/ k = Len(left) + 1
      BY <1>1, <2>2
    <3>2. CASE k \in DOMAIN left
      BY <1>1, <1>3, <2>2, <3>2
    <3>3. CASE k = Len(left) + 1
      BY <1>5, <2>1, <2>2, <3>3
    <3> QED BY <3>1, <3>2, <3>3
  <2> QED BY <2>2, <2>5, <2>6
<1>6. \/ new = <<>>
      \/ \E op \in Ops, rob \in Slots :
            new = <<Entry(op, rob)>> /\ rob \notin {win[i].rob : i \in DOMAIN win}
  BY DEF Allocations
<1> QED BY <1>4, <1>5, <1>6

(* A cycle in which n operations retire: some of them are stores, which from now on
   count among the retired ones of the queue. *)
LEMMA FlowSettles ==
    ASSUME NEW in, NEW g, NEW f, CycleFrom(in, g, f), NEW h \in {0, 1}, Leaves(in, g, f, h),
           DataBefore(in), DataGood(in), NEW n \in 0 .. 2, NEW news, news \subseteq Allocations,
           Flow(in, n, news), n >= 1 => core = "ACTIVE"
    PROVE  \E g2 : Settled(g2) /\ Graduating(g - f, g2)
<1>1. /\ Cycle(in) /\ IInv /\ CoreType /\ NoTwo(win) /\ win \in Seq(Entries)
      /\ Len(win) \in Nat /\ DOMAIN win = 1 .. Len(win) /\ dsDone \in BOOLEAN
      /\ state \in Starting => core = "FLUSH_FOR_HALT"
      /\ flushDone => state = "ACTIVE"
      /\ flushReq \in BOOLEAN /\ in.flush \in BOOLEAN /\ CacheStep(in)
      /\ dsDone => core \in {"DRAIN", "RAT"}
  BY DEF CycleFrom, Cycle, IInv, TypeOK, CoreType, WindowInv, FlushInv, CacheType, Fits,
         RecoveryInv
<1>2. /\ n <= Len(win) /\ \A i \in 1 .. n : MayRetire(win[i])
      /\ retired' = {win[i].rob : i \in 1 .. n} /\ committed' = After(committed, win, 1 .. n)
  BY DEF Flow
<1>3. PICK pop \in {{}, IF drain THEN {} ELSE Oldest("new")}, data \in {{}, DataHead} :
         /\ PushData(in, data)
         /\ \E new \in news : win' = SubSeq(Updated(in, pop, data), n + 1, Len(win)) \o new
  BY DEF Flow
<1>4. PICK u, left : u = Updated(in, pop, data) /\ left = SubSeq(u, n + 1, Len(win))
  OBVIOUS
<1>5. PICK new \in Allocations : win' = left \o new
  BY <1>3, <1>4
<1>6. WindowTook(in, data, u)
  <2>1. pop \in {{}, Oldest("new")}
    OBVIOUS
  <2> QED BY <1>1, <1>4, <2>1, WindowTaken
<1>7. /\ Len(u) = Len(win) /\ u \in Seq(Entries)
      /\ \A i \in DOMAIN win : /\ u[i].rob = win[i].rob /\ u[i].op = win[i].op
                               /\ win[i].st = "done" => u[i].st = "done"
                               /\ win[i].data => u[i].data
  BY <1>6 DEF WindowTook, Taken1
<1>8. Behind(u, left, n)
  <2>1. n \in 0 .. Len(win)
    <3> PICK l \in Nat : l = Len(win)
      BY <1>1
    <3>1. n <= l /\ n \in Nat
      BY <1>2
    <3>2. n \in 0 .. l
      BY ONLY <3>1, l \in Nat
    <3> QED BY <3>2, Zenon
  <2> QED BY ONLY <1>1, <1>4, <2>1, LeftBehind
<1>9. PICK g1 : g1 = g - f
  OBVIOUS
<1>10. Ordered(u, g1) /\ g1 \in Nat /\ Len(mq') \in Nat
  <2>1. Ordered(u, g - f)
    BY <1>3, <1>6, TakenOrdered
  <2> QED BY <1>9, <2>1 DEF Ordered
<1>11. /\ committed \in Mems
       /\ committed = IF state' \in Starting THEN mem' ELSE After(Written', mq', 1 .. g1)
       /\ state' \notin Starting => Written' \in Mems
  BY <1>9, LinesTaken
<1>12. \A i \in 1 .. n : win[i].op \in Ops /\ win[i].rob \in Slots /\ i \in DOMAIN win
  <2>1. \A i \in 1 .. n : i \in DOMAIN win /\ win[i] \in Entries
    BY <1>1, <1>2
  <2> QED BY <2>1 DEF Entries
<1>13. PICK I : I = 1 .. n
  OBVIOUS
<1>14. I \in Places
  BY <1>13, PlacesAre
<1>15. committed' = After(committed, u, I)
  <2>1. /\ \A i \in I : i + 0 \in I /\ win[i].op \in Ops /\ win[i].op = u[i + 0].op
        /\ \A j \in I : j - 0 \in I
    BY <1>7, <1>12, <1>13
  <2> PICK w, c : w = win /\ c = committed
    OBVIOUS
  <2>2. /\ \A i \in I : i + 0 \in I /\ w[i].op \in Ops /\ w[i].op = u[i + 0].op
        /\ \A j \in I : j - 0 \in I
        /\ c \in Mems
    BY <1>11, <2>1
  <2>3. After(c, w, I) = After(c, u, I)
    BY ONLY <1>14, <2>2, AfterShifted
  <2> QED BY <1>2, <1>13, <2>3
<1>16. \E g2 : /\ Ordered(left, g2) /\ g2 \in Nat /\ g2 >= g1 /\ committed' \in Mems
               /\ committed' = IF state' \in Starting THEN mem' ELSE After(Written', mq', 1 .. g2)
               /\ \A i \in g1 + 1 .. g2 : mq'[i].rob \in retired'
  <2>1. CASE n = 0
    <3>1. \A i \in I : FALSE
      BY <1>13, <2>1
    <3>2. committed' = committed
      BY <1>11, <1>14, <1>15, <3>1, AfterLoads
    <3>3. left = u
      BY <1>7, <1>8, <2>1, SeqEqual DEF Behind
    <3>4. \A i \in g1 + 1 .. g1 : FALSE
      BY <1>10
    <3>5. g1 >= g1
      BY <1>10
    <3>6. committed' = IF state' \in Starting THEN mem' ELSE After(Written', mq', 1 .. g1)
      BY <1>11, <3>2
    <3> QED BY <1>10, <1>11, <3>2, <3>3, <3>4, <3>5, <3>6
  <2>2. CASE n # 0
    <3>1. n \in {1, 2} /\ core = "ACTIVE"
      BY <2>2
    <3>2. ~dsDone /\ state' \notin Starting
      BY <1>1, <3>1, CacheMoves
    <3>3. Leaving(u, n)
      BY <1>2, <1>7, <1>12 DEF Leaving, MayRetire
    <3>4. committed = After(Written', mq', 1 .. g1) /\ Written' \in Mems
      BY <1>11, <3>2
    <3>5. \E g2 : Left(left, Written', After(committed, u, 1 .. n), g1, g2,
                       {u[i].rob : i \in 1 .. n})
      <4> PICK c, lines : c = committed /\ lines = Written'
        OBVIOUS
      <4>1. c = After(lines, mq', 1 .. g1) /\ lines \in Mems
        BY <3>4
      <4>2. \E g2 : Left(left, lines, After(c, u, 1 .. n), g1, g2, {u[i].rob : i \in 1 .. n})
        BY ONLY <1>8, <1>10, <3>1, <3>2, <3>3, <4>1, RetireSome
      <4> QED BY <4>2
    <3>6. PICK g2 : Left(left, Written', committed', g1, g2, {u[i].rob : i \in 1 .. n})
      BY <1>13, <1>15, <3>5
    <3>7. {u[i].rob : i \in 1 .. n} = retired'
      BY <1>2, <1>7, <1>12
    <3> QED BY <3>2, <3>6, <3>7 DEF Left
  <2> QED BY <2>1, <2>2
<1>17. PICK g2 : /\ Ordered(left, g2) /\ g2 \in Nat /\ g2 >= g1 /\ committed' \in Mems
                 /\ committed' = IF state' \in Starting THEN mem'
                                 ELSE After(Written', mq', 1 .. g2)
                 /\ \A i \in g1 + 1 .. g2 : mq'[i].rob \in retired'
  BY <1>16
<1>18. /\ Ordered(win', g2)
       /\ \A k \in DOMAIN win' : \/ \E i \in n + 1 .. Len(win) : win'[k].rob = win[i].rob
                                 \/ win'[k].rob \notin {win[i].rob : i \in DOMAIN win}
  <2> PICK v : v = win'
    OBVIOUS
  <2>1. v = left \o new /\ Ordered(left, g2)
    BY <1>5, <1>17
  <2>2. SameSlots(u)
    BY <1>1, <1>7 DEF SameSlots
  <2>3. Ordered(v, g2) /\ LeftOrNew(v, n)
    BY ONLY <1>8, <2>1, <2>2, new \in Allocations, NewLast
  <2> QED BY <2>3 DEF LeftOrNew
<1>19. ASSUME NEW k \in DOMAIN win' PROVE win'[k].rob \notin retired'
  <2>1. CASE \E i \in n + 1 .. Len(win) : win'[k].rob = win[i].rob
    <3>1. PICK i \in n + 1 .. Len(win) : win'[k].rob = win[i].rob
      BY <2>1
    <3>2. \A j \in 1 .. n : j \in DOMAIN win /\ i \in DOMAIN win /\ i # j
      BY <1>1, <1>2
    <3> QED BY <1>1, <1>2, <3>1, <3>2 DEF NoTwo
  <2>2. CASE win'[k].rob \notin {win[i].rob : i \in DOMAIN win}
    BY <1>2, <1>12, <2>2
  <2> QED BY <1>18, <2>1, <2>2
<1>20. retired' \subseteq Slots
  BY <1>2, <1>12
<1>21. mdq' \in Seq([rob : Slots, val : Vals])
  BY <1>3, <1>6, DataPushed DEF DataMoved
<1> QED BY <1>9, <1>17, <1>18, <1>19, <1>20, <1>21 DEF Settled, Graduating

(* The mark of a store that stays in the queue is the second one as soon as the store
   has retired; one that is queued gets the first. *)
LEMMA MarkStep ==
    ASSUME NEW in, Cycle(in), NEW g, NEW f, NEW h \in {0, 1}, Leaves(in, g, f, h),
           NEW i \in 1 .. Len(mq'), mq'[i].op.store
    PROVE  \/ /\ i + h \in 1 .. Len(mq) /\ mq'[i] = mq[i + h]
              /\ grad'[mq'[i].rob] = IF mq'[i].rob \in in.retired /\ grad[mq'[i].rob] = 1
                                     THEN 2 ELSE grad[mq'[i].rob]
           \/ i + h > Len(mq) /\ grad'[mq'[i].rob] = 1
<1>1. /\ CacheInv /\ Fits(in) /\ CacheStep(in) /\ mq \in Seq(Reqs) /\ mq' \in Seq(Reqs)
      /\ NoTwo(mq) /\ Len(mq) \in Nat /\ DOMAIN mq = 1 .. Len(mq) /\ Len(mq') \in Nat
      /\ p2.req \in Reqs \cup {NoReq}
  BY DEF Cycle, IInv, TypeOK, CacheInv, CacheType, SlotsInv
<1>2. h = 1 <=> state = "ACTIVE" /\ Pops(in)
  BY DEF Leaves
<1>3. PICK r : r = mq'[i].rob
  OBVIOUS
<1>4. r \in Slots
  <2>1. mq'[i] \in Reqs
    BY <1>1
  <2> QED BY <1>3, <2>1, ReqFields
<1>5. CASE ~Active(in)
  <2>1. state # "ACTIVE"
    BY <1>1, <1>5 DEF CacheStep, Initialize, InitCache, InjectReload, HandleReload, FlushCache,
              FlushCacheWait
  <2>2. mq' = mq
    BY <1>1, <2>1, QueueStands
  <2>3. Graduates(in, {}, {}, {})
    BY <1>1, <1>5 DEF CacheStep, Initialize, InitCache, InjectReload, HandleReload, FlushCache,
              FlushCacheWait, Paused
  <2>4. grad'[r] = IF r \in in.retired /\ grad[r] = 1 THEN 2 ELSE grad[r]
    BY <1>4, <2>3 DEF Graduates
  <2>5. h = 0
    BY <1>2, <2>1
  <2>6. i + h \in 1 .. Len(mq) /\ mq'[i] = mq[i + h]
    BY <1>1, <2>2, <2>5
  <2> QED BY <1>3, <2>4, <2>6
<1>6. CASE Active(in)
  <2>1. state = "ACTIVE"
    BY <1>6 DEF Active
  <2> DEFINE stored == IF PushMiss(in) /\ p2.req.op.store THEN {p2.req.rob} ELSE {}
             written == IF StoreHit THEN {p1.req.rob} ELSE {}
             killed == IF StoreKilled(in) THEN {Head1.rob} ELSE {}
  <2>2. Graduates(in, stored, written, killed)
    BY <1>6 DEF Active
  <2>3. grad'[r] = IF r \in written \cup killed THEN 0
                   ELSE IF r \in stored THEN 1
                   ELSE IF r \in in.retired /\ grad[r] = 1 THEN 2 ELSE grad[r]
    BY <1>4, <2>2 DEF Graduates
  <2>4. /\ slotBusy = AllRobs(mq) \cup (IF Pending1 THEN {p1.req.rob} ELSE {})
        /\ Pending1 => p1.req.rob \notin AllRobs(mq)
        /\ On2 => p2.req.rob \notin slotBusy
        /\ StoreHit => Pending1
    BY <1>1, <2>1 DEF CacheInv, SlotsInv, StateInv, StoreHit, Hit1, Pending1
  <2>5. /\ h <= Len(mq) /\ Len(mq') = Len(mq) - h + (IF PushMiss(in) THEN 1 ELSE 0)
        /\ \A j \in 1 .. Len(mq) - h : mq'[j] = mq[j + h]
        /\ PushMiss(in) => p2.req \in Reqs /\ mq'[Len(mq) - h + 1] = p2.req
    <3>1. PICK x \in {0, 1} :
             /\ x = 1 <=> Pops(in)
             /\ x <= Len(mq) /\ Len(mq') = Len(mq) - x + (IF PushMiss(in) THEN 1 ELSE 0)
             /\ \A j \in 1 .. Len(mq) - x : mq'[j] = mq[j + x]
             /\ PushMiss(in) => p2.req \in Reqs /\ mq'[Len(mq) - x + 1] = p2.req
      BY <1>1, <1>6, ActivePlaces
    <3>2. x = h
      BY <1>2, <2>1, <3>1
    <3> QED BY <3>1, <3>2
  <2>6. StoreKilled(in) => h = 1 /\ Len(mq) >= 1
    BY <1>2, <2>1, <2>5 DEF Pops
  <2> HIDE DEF stored, written, killed
  <2>7. CASE i <= Len(mq) - h
    <3>1. i + h \in 1 .. Len(mq) /\ mq'[i] = mq[i + h]
      BY <1>1, <2>5, <2>7
    <3>2. r \in AllRobs(mq) /\ r = mq[i + h].rob /\ i + h \in DOMAIN mq
      BY <1>1, <1>3, <3>1 DEF AllRobs
    <3>3. r \notin written /\ r \notin stored
      BY <2>4, <3>2 DEF written, stored, PushMiss
    <3>4. r \notin killed
      <4>1. StoreKilled(in) => 1 \in DOMAIN mq /\ i + h # 1
        BY <1>1, <2>6
      <4>2. StoreKilled(in) => Head1.rob # r
        BY <1>1, <3>2, <4>1 DEF Head1, NoTwo
      <4> QED BY <4>2 DEF killed
    <3> QED BY <1>3, <2>3, <3>1, <3>3, <3>4
  <2>8. CASE ~(i <= Len(mq) - h)
    <3>1. PushMiss(in) /\ i = Len(mq) - h + 1 /\ i + h > Len(mq)
      BY <1>1, <2>5, <2>8
    <3>2. mq'[i] = p2.req /\ On2
      BY <2>5, <3>1 DEF PushMiss
    <3>3. r \in stored
      BY <1>3, <3>1, <3>2 DEF stored
    <3>4. r \notin written
      BY <1>3, <2>4, <3>2 DEF written
    <3>5. r \notin killed
      <4>1. StoreKilled(in) => Head1.rob \in AllRobs(mq)
        BY <1>1, <2>6 DEF AllRobs, Head1
      <4> QED BY <1>3, <2>4, <3>2, <4>1 DEF killed
    <3> QED BY <1>3, <2>3, <3>1, <3>3, <3>4, <3>5
  <2> QED BY <2>7, <2>8
<1> QED BY <1>5, <1>6

(* What is marked as retired after the cycle is what has retired before it. *)
LEMMA MarkedNext ==
    ASSUME NEW in, NEW g, NEW f, CycleFrom(in, g, f), NEW h \in {0, 1}, Leaves(in, g, f, h),
           NEW g2, Settled(g2), Graduating(g - f, g2)
    PROVE  MarkedInv(g2)'
<1>1. /\ Cycle(in) /\ in.retired = retired /\ g \in 0 .. Len(mq) /\ g \in Nat /\ f \in {0, 1}
      /\ QueueOrder(win, Pipe, g) /\ MarkedInv(g) /\ CacheType /\ MarksInv
  BY DEF CycleFrom, FromCore, OrderInv, Cycle, IInv, TypeOK
<1>2. /\ Pipe \in Seq(Reqs) /\ mq \in Seq(Reqs) /\ mq' \in Seq(Reqs)
      /\ \A i \in 1 .. Len(mq) : Pipe[i] = mq[i]
  BY <1>1, CacheAdvances
<1>3. /\ h + Len(mq') <= Len(Pipe) /\ g <= h + Len(mq') /\ f <= g
      /\ g - f = IF g = 0 THEN 0 ELSE g - h
      /\ \A i \in 1 .. Len(mq') : Pipe'[i] = Pipe[i + h]
  BY DEF Leaves, Moved
<1>4. /\ \A i \in 1 .. Len(mq') : Pipe'[i] = mq'[i] /\ mq'[i].op \in Ops
      /\ g2 \in 0 .. Len(mq') /\ g2 \in Nat
      /\ QueueOrder(win', Pipe', g2) /\ \A k \in DOMAIN win' : win'[k].rob \notin retired'
  BY DEF Settled, Ordered
<1>5. /\ \A k \in DOMAIN win : win[k].rob \notin retired
      /\ \A i \in DOMAIN mq : /\ mq[i].op.store /\ grad[mq[i].rob] = 2 => i <= g
                              /\ i <= g => grad[mq[i].rob] = 2 \/ mq[i].rob \in retired
  BY <1>1 DEF MarkedInv
<1>6. /\ DOMAIN mq = 1 .. Len(mq) /\ Len(mq) \in Nat /\ Len(mq') \in Nat
      /\ DOMAIN mq' = 1 .. Len(mq') /\ Len(Pipe) \in Nat
  BY <1>2
<1>7. g2 >= g - f /\ \A i \in g - f + 1 .. g2 : mq'[i].rob \in retired'
  BY DEF Graduating
<1>8. ASSUME NEW i \in 1 .. Len(mq'), mq'[i].op.store, grad'[mq'[i].rob] = 2, i > g2
      PROVE  FALSE
  <2>1. /\ i + h \in 1 .. Len(mq) /\ mq'[i] = mq[i + h]
        /\ mq'[i].rob \in retired \/ grad[mq'[i].rob] = 2
    <3>1. Cycle(in) /\ Leaves(in, g, f, h) /\ in.retired = retired
      BY <1>1
    <3>2. \/ /\ i + h \in 1 .. Len(mq) /\ mq'[i] = mq[i + h]
             /\ grad'[mq'[i].rob] = IF mq'[i].rob \in in.retired /\ grad[mq'[i].rob] = 1
                                    THEN 2 ELSE grad[mq'[i].rob]
          \/ i + h > Len(mq) /\ grad'[mq'[i].rob] = 1
      <4>1. mq'[i].op.store
        BY <1>8
      <4> QED BY ONLY <3>1, <4>1, i \in 1 .. Len(mq'), h \in {0, 1}, MarkStep
    <3> QED BY ONLY <1>8, <3>1, <3>2
  <2>2. i + h > g /\ i + h \in g + 1 .. Len(Pipe)
    <3> PICK l, m, n \in Nat : l = Len(mq) /\ m = Len(mq') /\ n = Len(Pipe)
      BY <1>6
    <3>1. /\ g - f = (IF g = 0 THEN 0 ELSE g - h) /\ g2 >= g - f /\ i > g2 /\ i \in 1 .. m
          /\ h + m <= n /\ g2 \in Nat /\ g \in Nat
      BY <1>1, <1>3, <1>4, <1>7, <1>8
    <3>2. i + h > g /\ i + h \in g + 1 .. n
      BY ONLY <3>1, m \in Nat, n \in Nat, h \in {0, 1}
    <3> QED BY <3>2
  <2>3. mq'[i].rob \in retired
    <3>1. i + h \in DOMAIN mq /\ mq[i + h].op.store /\ ~(i + h <= g)
      BY ONLY <1>1, <1>6, <1>8, <2>1, <2>2, h \in {0, 1}, i \in 1 .. Len(mq')
    <3>2. grad[mq[i + h].rob] # 2
      BY <1>5, <3>1
    <3> QED BY <2>1, <3>2
  <2>4. PICK k \in DOMAIN win : Had(win[k], Pipe[i + h])
    BY <1>1, <2>2 DEF QueueOrder
  <2>5. win[k].rob = mq'[i].rob
    BY <1>2, <2>1, <2>4 DEF Had
  <2> QED BY <1>5, <2>3, <2>5
<1>9. ASSUME NEW i \in 1 .. Len(mq'), i <= g2
      PROVE  grad'[mq'[i].rob] = 2 \/ mq'[i].rob \in retired'
  <2>1. CASE i \in g - f + 1 .. g2
    BY <1>7, <2>1
  <2>2. CASE i \notin g - f + 1 .. g2
    <3>1. i <= g - f /\ g # 0 /\ i + h <= g /\ i + h \in 1 .. g
      <4> PICK m \in Nat : m = Len(mq')
        BY <1>6
      <4>1. /\ g - f = (IF g = 0 THEN 0 ELSE g - h) /\ i \notin g - f + 1 .. g2
            /\ i <= g2 /\ i \in 1 .. m /\ g2 \in Nat /\ g \in Nat
        BY <1>1, <1>3, <1>4, <1>9, <2>2
      <4>2. i <= g - f /\ g # 0 /\ i + h <= g /\ i + h \in 1 .. g
        <5>1. f \in Int
          BY <1>1
        <5> QED BY ONLY <4>1, <5>1, m \in Nat, h \in {0, 1}
      <4> QED BY <4>2, Zenon
    <3>2. i + h \in DOMAIN mq /\ Pipe[i + h] = mq[i + h] /\ mq'[i] = mq[i + h]
      <4>1. i + h \in 1 .. Len(mq)
        BY ONLY <1>1, <1>6, <3>1
      <4>2. mq'[i] = Pipe[i + h]
        BY <1>3, <1>4
      <4> QED BY <1>2, <1>6, <4>1, <4>2, Zenon
    <3>3. mq'[i].op.store
      BY <1>1, <3>1, <3>2 DEF QueueOrder
    <3>4. /\ i + h <= Len(mq)
          /\ grad'[mq'[i].rob] = IF mq'[i].rob \in retired /\ grad[mq'[i].rob] = 1
                                 THEN 2 ELSE grad[mq'[i].rob]
      <4>1. Cycle(in) /\ Leaves(in, g, f, h) /\ in.retired = retired
        BY <1>1
      <4>2. \/ /\ i + h \in 1 .. Len(mq) /\ mq'[i] = mq[i + h]
               /\ grad'[mq'[i].rob] = IF mq'[i].rob \in in.retired /\ grad[mq'[i].rob] = 1
                                      THEN 2 ELSE grad[mq'[i].rob]
            \/ i + h > Len(mq) /\ grad'[mq'[i].rob] = 1
        BY ONLY <3>3, <4>1, i \in 1 .. Len(mq'), h \in {0, 1}, MarkStep
      <4>3. i + h <= Len(mq) /\ ~(i + h > Len(mq))
        BY ONLY <1>6, <3>2
      <4> QED BY ONLY <4>1, <4>2, <4>3
    <3>5. grad[mq'[i].rob] = 2 \/ mq'[i].rob \in retired
      BY <1>5, <3>1, <3>2
    <3>6. grad[mq'[i].rob] \in 1 .. 2
      <4>1. mq[i + h] \in Reqs
        BY <1>2, <3>2
      <4>2. mq[i + h].rob \in Slots /\ mq[i + h].op.store = TRUE
        BY <3>2, <3>3, <4>1, ReqFields
      <4>3. mq[i + h].rob \in RobsOf(mq, TRUE)
        BY <3>2, <4>2 DEF RobsOf
      <4>4. grad[mq[i + h].rob] # 0 /\ grad[mq[i + h].rob] \in 0 .. 2
        BY <1>1, <4>2, <4>3 DEF MarksInv, CacheType
      <4> QED BY <3>2, <4>4
    <3> QED BY <3>4, <3>5, <3>6
  <2> QED BY <2>1, <2>2
<1>10. \A i \in DOMAIN mq' : /\ mq'[i].op.store /\ grad'[mq'[i].rob] = 2 => i <= g2
                             /\ i <= g2 => grad'[mq'[i].rob] = 2 \/ mq'[i].rob \in retired'
  BY <1>4, <1>6, <1>8, <1>9
<1> QED BY <1>4, <1>10 DEF MarkedInv

(* The recovery: nothing retires while r_ds_done is up, and the window is empty when it
   goes down. *)
LEMMA RecoveryNext ==
    ASSUME RecoveryInv, CoreType, NEW in, CoreStep(in), drain' = dsDone
    PROVE  RecoveryInv'
<1>1. /\ dsDone <=> core \in {"DRAIN", "RAT"}
      /\ dsDone \in BOOLEAN
  BY DEF RecoveryInv, CoreType
<1>2. ASSUME NEW news, Flow(in, 0, news) PROVE retired' = {}
  <2>1. retired' = {win[i].rob : i \in 1 .. 0}
    BY <1>2 DEF Flow
  <2> QED BY <2>1
<1>3. CASE Run(in)
  BY <1>1, <1>3 DEF Run, RecoveryInv
<1>4. CASE Restart(in)
  BY <1>1, <1>2, <1>4 DEF Restart, RecoveryInv
<1>5. CASE Drain(in)
  BY <1>1, <1>2, <1>5 DEF Drain, RecoveryInv
<1>6. ASSUME NEW ack \in BOOLEAN, Rat(in, ack) PROVE RecoveryInv'
  BY <1>1, <1>6 DEF Rat, RecoveryInv
<1>7. CASE Monitor(in)
  BY <1>1, <1>7 DEF Monitor, RecoveryInv
<1>8. CASE MonitorFlush(in)
  <2>1. core' \in {"ACTIVE", "MONITOR_FLUSH_CACHE"} /\ dsDone' = dsDone /\ ~dsDone
    BY <1>1, <1>8 DEF MonitorFlush
  <2> QED BY <1>1, <2>1 DEF RecoveryInv
<1>9. CASE FlushForHalt(in)
  <2>1. core' \in {"HALT", "FLUSH_FOR_HALT"} /\ dsDone' = dsDone /\ ~dsDone
    BY <1>1, <1>9 DEF FlushForHalt
  <2> QED BY <1>1, <2>1 DEF RecoveryInv
<1>10. CASE Halt(in)
  <2>1. core' \in {"ACTIVE", "HALT"} /\ dsDone' = dsDone /\ ~dsDone
    BY <1>1, <1>10 DEF Halt
  <2> QED BY <1>1, <2>1 DEF RecoveryInv
<1> QED BY <1>3, <1>4, <1>5, <1>6, <1>7, <1>8, <1>9, <1>10 DEF CoreStep

(* But for the end of a recovery, a step of the core is a cycle of the queues, in which
   something retires only if the core is active. *)
LEMMA CoreFlows ==
    ASSUME CoreType, CoreData, NEW in, CoreStep(in)
    PROVE  \/ \E n \in 0 .. 2, news \in SUBSET Allocations :
                 Flow(in, n, news) /\ (n >= 1 => core = "ACTIVE")
           \/ \E ack \in BOOLEAN : Rat(in, ack)
<1>1. {<<>>} \in SUBSET Allocations /\ Allocations \in SUBSET Allocations
  BY DEF Allocations
<1>2. ASSUME Flow(in, 0, {<<>>})
      PROVE  \E n \in 0 .. 2, news \in SUBSET Allocations :
                 Flow(in, n, news) /\ (n >= 1 => core = "ACTIVE")
  <2>1. 0 \in 0 .. 2 /\ ~(0 >= 1)
    OBVIOUS
  <2> QED BY <1>1, <1>2, <2>1
<1>3. CASE Run(in)
  <2>1. PICK n \in 0 .. 2 : Flow(in, n, Allocations)
    BY <1>3 DEF Run
  <2>2. core = "ACTIVE"
    BY <1>3 DEF Run
  <2> QED BY <1>1, <2>1, <2>2
<1>4. CASE Monitor(in)
  <2>1. /\ win = <<>> /\ retired' = {} /\ win' = win /\ PushData(in, {}) /\ committed' = committed
    BY <1>4 DEF Monitor
  <2>2. PICK none : none = 1 .. 0
    OBVIOUS
  <2>3. After(committed, win, none) = committed
    <3>1. \A i \in none : FALSE
      BY <2>2
    <3>2. none \in Places
      BY <2>2, PlacesAre
    <3> QED BY <3>1, <3>2, AfterLoads DEF CoreData
  <2>4. retired' = {win[i].rob : i \in 1 .. 0}
    BY <2>1
  <2>5. PICK u : u = Updated(in, {}, {})
    OBVIOUS
  <2>6. PICK n \in 0 .. Len(win) : n = 0
    BY <2>1
  <2>7. PICK left : left = SubSeq(u, n + 1, Len(win))
    OBVIOUS
  <2>8. left \in Seq(Entries) /\ Len(left) = Len(win) - n
    BY <2>5, <2>7, UpdatedIs
  <2>9. left = <<>>
    BY <2>1, <2>6, <2>8
  <2>10. win' = SubSeq(Updated(in, {}, {}), 0 + 1, Len(win)) \o <<>>
    <3>1. left = SubSeq(Updated(in, {}, {}), 0 + 1, Len(win))
      BY <2>5, <2>6, <2>7
    <3>2. win' = left \o <<>>
      BY <2>1, <2>9
    <3> QED BY <3>1, <3>2
  <2>11. 0 <= Len(win) /\ \A i \in 1 .. 0 : MayRetire(win[i])
    BY <2>1
  <2>12. \E pop \in {{}, IF drain THEN {} ELSE Oldest("new")}, data \in {{}, DataHead} :
           /\ PushData(in, data)
           /\ LET rest == SubSeq(Updated(in, pop, data), 0 + 1, Len(win))
              IN  \E new \in {<<>>} : win' = rest \o new
    BY <2>1, <2>10
  <2>13. Flow(in, 0, {<<>>})
    BY <2>2, <2>1, <2>3, <2>4, <2>11, <2>12 DEF Flow
  <2> QED BY <1>2, <2>13
<1>5. CASE Restart(in) \/ Drain(in) \/ MonitorFlush(in) \/ FlushForHalt(in) \/ Halt(in)
  BY <1>2, <1>5 DEF Restart, Drain, MonitorFlush, FlushForHalt, Halt
<1> QED BY <1>3, <1>4, <1>5 DEF CoreStep

(* The order of everything at the end of the cycle. *)
LEMMA OrderNext ==
    ASSUME NEW g, Settled(g), MarkedInv(g)', drain' = dsDone
    PROVE  OrderInv(g)' /\ CoreData' /\ g \in 0 .. Len(mq')
<1>1. /\ Ordered(win', g) /\ g \in Nat /\ committed' \in Mems
      /\ committed' = IF state' \in Starting THEN mem' ELSE After(Written', mq', 1 .. g)
      /\ retired' \subseteq Slots /\ mdq' \in Seq([rob : Slots, val : Vals])
  BY DEF Settled
<1>2. /\ g \in 0 .. Len(mq') /\ \A i \in 1 .. g : Pipe'[i] = mq'[i]
      /\ WindowOrder(win') /\ QueueOrder(win', Pipe', g) /\ DataOrder(win', Pipe', mdq', g)
      /\ ~dsDone => StoresHeld(win', Pipe')
      /\ PortOrder(win', g)
  BY <1>1 DEF Ordered
<1>3. DataOrder(win', mq', mdq', g)
  <2> PICK w, q, p, d : w = win' /\ q = Pipe' /\ p = mq' /\ d = mdq'
    OBVIOUS
  <2>1. DataOrder(w, q, d, g) /\ \A i \in 1 .. g : q[i] = p[i]
    BY <1>2
  <2>2. DataOrder(w, p, d, g)
    BY ONLY <2>1, SameData
  <2> QED BY <2>2
<1>4. ~drain' => StoresHeld(win', Pipe')
  BY <1>2
<1>5. Port1Inv(g)'
  BY <1>2 DEF PortOrder, Port1Inv
<1>6. CoreData'
  BY <1>1 DEF CoreData
<1>7. OrderInv(g)'
  BY <1>1, <1>2, <1>3, <1>4, <1>5 DEF OrderInv
<1> QED BY <1>2, <1>6, <1>7

(* The end of a recovery leaves nothing but what has retired before it: a store in
   port 1, if any. *)
LEMMA RatSettles ==
    ASSUME NEW in, NEW g, NEW f, CycleFrom(in, g, f), NEW h \in {0, 1}, Leaves(in, g, f, h),
           DataBefore(in), DataGood(in), NEW ack \in BOOLEAN, Rat(in, ack), EmptyStep(in)
    PROVE  Settled(0) /\ MarkedInv(0)'
<1>1. /\ Cycle(in) /\ IInv /\ CoreType /\ in.req = Request /\ core = "RAT"
      /\ mq = <<>> /\ ~On2 /\ Sent = HeldLoads /\ g \in 0 .. Len(mq)
      /\ \A i \in DOMAIN win : win[i].st \in {"new", "done"}
      /\ HeldStep(in) /\ Port1Inv(g) /\ f \in {0, 1}
      /\ f = 1 <=> state = "ACTIVE" /\ StoreFires(in)
  BY DEF CycleFrom, Cycle, IInv, TypeOK, WindowInv, DrainInv, HeldInv, Rat, OrderInv
<1>2. QueueHead = {} /\ HeldLoads = {}
  BY <1>1 DEF QueueHead, Oldest, Sent
<1>3. in.req = NoReq
  BY <1>1, <1>2 DEF Request
<1>4. mq' = <<>> /\ ~On2'
  BY <1>1, <1>3 DEF EmptyStep
<1>5. HeldLoads' = {}
  <2>1. Response(in).rob \notin HeldLoads /\ Taken(in) = {}
    BY <1>2, <1>3 DEF Taken, Accept
  <2> QED BY <1>1, <1>2, <2>1 DEF HeldStep
<1>6. ~(Pending1' /\ ~Op1'.store)
  BY <1>5 DEF HeldLoads
<1>7. Pipe' = <<>>
  BY <1>4 DEF Pipe
<1>8. g = 0 /\ f = 0
  BY <1>1 DEF StoreFires, MayFire
<1>9. /\ win' = <<>> /\ mdq' = <<>> /\ retired' = {} /\ committed' = committed
  BY DEF Rat
<1>10. /\ committed \in Mems
       /\ committed = IF state' \in Starting THEN mem' ELSE After(Written', mq', 1 .. 0)
  <2>1. /\ committed \in Mems
        /\ committed = IF state' \in Starting THEN mem' ELSE After(Written', mq', 1 .. g - f)
    BY LinesTaken
  <2>2. g - f = 0
    BY <1>8
  <2> QED BY <2>1, <2>2
<1>11. Store1' => p1'.val = Op1'.val
  <2>1. ~Fires(in)
    BY <1>1 DEF Fires, LoadFires, StoreFires, MayFire
  <2>2. p1'.req = NoReq \/ (p1'.req = p1.req /\ p1'.val = p1.val)
    BY <1>1, <2>1, PortStep
  <2>3. Store1 => p1.val = Op1.val
    BY <1>1 DEF Port1Inv
  <2> QED BY <2>2, <2>3 DEF Store1, Op1
<1>12. Ordered(win', 0)
  <2> PICK w, q, p, d, g0 : w = win' /\ q = Pipe' /\ p = mq' /\ d = mdq' /\ g0 = 0
    OBVIOUS
  <2>1. w = <<>> /\ q = <<>> /\ p = <<>> /\ d = <<>> /\ g0 = 0
    BY <1>4, <1>7, <1>9
  <2>2. /\ DOMAIN w = {} /\ Len(q) = 0 /\ Len(d) = 0 /\ Len(p) = 0 /\ DOMAIN q = {}
        /\ q \in Seq(Reqs) /\ w \in Seq(Entries)
    BY <2>1
  <2>3. NoTwo(w) /\ WindowOrder(w) /\ StoresHeld(w, q)
    BY <2>2 DEF NoTwo, WindowOrder, StoresHeld
  <2>4. (\A i \in 1 .. g0 : FALSE) /\ (\A i \in g0 + 1 .. 0 : FALSE)
    BY <2>1
  <2>5. QueueOrder(w, q, g0)
    BY <2>2, <2>4 DEF QueueOrder
  <2>6. DataOrder(w, q, d, g0)
    BY <2>1, <2>2, <2>4 DEF DataOrder
  <2>7. PortOrder(w, g0)
    BY <1>6, <1>11 DEF PortOrder
  <2>8. \A i \in 1 .. Len(p) : FALSE
    BY <2>2
  <2>9. Ordered(w, g0)
    BY <2>1, <2>2, <2>3, <2>5, <2>6, <2>7, <2>8 DEF Ordered
  <2> QED BY <2>9
<1>13. Settled(0)
  <2>1. \A k \in DOMAIN win' : FALSE
    BY <1>9
  <2>2. 0 \in Nat /\ retired' \subseteq Slots /\ mdq' \in Seq([rob : Slots, val : Vals])
    BY <1>9
  <2> QED BY <1>9, <1>10, <1>12, <2>1, <2>2 DEF Settled
<1>14. MarkedInv(0)'
  <2>1. (\A k \in DOMAIN win' : FALSE) /\ (\A i \in DOMAIN mq' : FALSE)
    BY <1>4, <1>9
  <2> QED BY <2>1 DEF MarkedInv
<1> QED BY <1>13, <1>14

(* Port 2 after any cycle. *)
LEMMA Port2Next ==
    ASSUME NEW in, DataBefore(in), CacheStep(in), Store1 => p1.val = Op1.val
    PROVE  Port2Inv'
<1>1. CASE Active(in)
  BY <1>1, BypassSound
<1>2. CASE ~Active(in)
  <2>1. p2' = NoP2
    BY <1>2 DEF CacheStep, Initialize, InitCache, InjectReload, HandleReload, FlushCache,
                FlushCacheWait, Paused
  <2>2. ~On2'
    BY <2>1 DEF On2, NoP2
  <2> QED BY <2>2 DEF Port2Inv
<1> QED BY <1>1, <1>2

-----------------------------------------------------------------------------
(***************************************************************************)
(* The invariant.                                                          *)
(***************************************************************************)

(* After reset nothing is queued and the arrays hold no clean line. *)
LEMMA InitData == Init => DInv
<1> SUFFICES ASSUME Init PROVE DInv
  OBVIOUS
<1>1. /\ state = "INITIALIZE" /\ mq = <<>> /\ p1 = NoP1 /\ p2 = NoP2 /\ inhibit = FALSE
      /\ arr \in [Sets -> {NoLine, [NoLine EXCEPT !.valid = TRUE, !.dirty = TRUE]}]
      /\ flushIdx = 0 /\ flushDone = FALSE /\ memReq = NoMem
      /\ core = "FLUSH_FOR_HALT" /\ dsDone = FALSE /\ drain = FALSE /\ win = <<>>
      /\ mdq = <<>> /\ retired = {}
      /\ mem = [s \in Sets |-> [t \in Tags |-> Zeros]] /\ committed = mem
  BY DEF Init, CacheInit
<1>2. p1.req = NoReq /\ p2.req = NoReq /\ ~On2
  BY <1>1 DEF NoP1, NoP2, On2
<1>3. mem \in Mems
  BY <1>1, RowFields DEF Mems
<1>4. \A s \in Sets : arr[s] \in Rows /\ (arr[s].dirty => arr[s].valid)
                      /\ (arr[s].valid => arr[s].dirty)
  <2> SUFFICES ASSUME NEW s \in Sets
               PROVE  arr[s] \in Rows /\ (arr[s].dirty => arr[s].valid)
                      /\ (arr[s].valid => arr[s].dirty)
    OBVIOUS
  <2>1. arr[s] = NoLine \/ arr[s] = [NoLine EXCEPT !.valid = TRUE, !.dirty = TRUE]
    BY <1>1
  <2> PICK row : row = [NoLine EXCEPT !.valid = TRUE, !.dirty = TRUE]
    OBVIOUS
  <2>2. row \in Rows /\ row.valid = TRUE /\ row.dirty = TRUE
    BY RowFields DEF Rows
  <2> QED BY <2>1, <2>2, RowFields
<1>5. CacheData
  <2>1. arr \in [Sets -> Rows]
    BY <1>1, <1>4
  <2>2. p2 = [req |-> p2.req, out |-> p2.out, fwd |-> p2.fwd, wrData |-> p2.wrData,
              busy |-> p2.busy, busyWord |-> p2.busyWord, unaligned |-> p2.unaligned]
    BY <1>1, PortsIdle
  <2>3. flushIdx \in Sets
    BY <1>1, L1DAssumption DEF Sets
  <2> QED BY <1>1, <1>3, <2>1, <2>2, <2>3, PortsIdle, RowFields DEF CacheData
<1>6. CoreData
  BY <1>1, <1>3 DEF CoreData
<1>7. MemInv
  <2>1. memReq.valid = FALSE
    BY <1>1, RowFields
  <2> QED BY <1>1, <1>4, <2>1 DEF MemInv, RowsInv
<1>8. WalkInv
  BY <1>1 DEF WalkInv
<1>9. Port2Inv /\ RecoveryInv
  BY <1>1, <1>2 DEF Port2Inv, RecoveryInv
<1>10. \E g \in 0 .. Len(mq) : OrderInv(g)
  <2> PICK g : g = 0
    OBVIOUS
  <2>1. Pipe = <<>>
    BY <1>1, <1>2 DEF Pipe
  <2>2. g \in 0 .. Len(mq) /\ (\A i \in 1 .. g : FALSE) /\ (\A i \in g + 1 .. 0 : FALSE)
    BY <1>1
  <2>3. Len(Pipe) = 0 /\ DOMAIN win = {} /\ Len(mdq) = 0 /\ DOMAIN mq = {}
    BY <1>1, <2>1
  <2>4. QueueOrder(win, Pipe, g)
    BY <2>2, <2>3 DEF QueueOrder
  <2>5. DataOrder(win, mq, mdq, g)
    <3>1. g <= Len(mdq)
      BY <2>2, <2>3, <1>1
    <3> QED BY <2>2, <2>3, <3>1 DEF DataOrder
  <2>6. WindowOrder(win) /\ StoresHeld(win, Pipe) /\ MarkedInv(g)
    BY <2>3 DEF WindowOrder, StoresHeld, MarkedInv
  <2>7. Port1Inv(g)
    BY <1>2 DEF Port1Inv, Store1, Pending1
  <2>8. committed = IF state \in Starting THEN mem ELSE After(Written, mq, 1 .. g)
    BY <1>1 DEF Starting
  <2> QED BY <2>2, <2>4, <2>5, <2>6, <2>7, <2>8 DEF OrderInv
<1> QED BY <1>5, <1>6, <1>7, <1>8, <1>9, <1>10 DEF DInv

(* Every cycle of the machine keeps the invariant. *)
LEMMA StepKeepsData == IInv /\ IInv' /\ DInv /\ [Next]_vars => DInv'
<1> SUFFICES ASSUME IInv, IInv', DInv, [Next]_vars PROVE DInv'
  OBVIOUS
<1>1. CASE UNCHANGED vars
  <2>1. cacheVars' = cacheVars /\ coreVars' = coreVars /\ mem' = mem /\ committed' = committed
    BY <1>1 DEF vars
  <2>2. /\ On2' = On2 /\ Op1' = Op1 /\ Pending1' = Pending1 /\ Store1' = Store1 /\ Pipe' = Pipe
        /\ Hit2' = Hit2 /\ MayBypass' = MayBypass /\ Data2' = Data2 /\ View' = View
    BY <2>1 DEF cacheVars, coreVars, On2, Op1, Pending1, Store1, Pipe, Hit2, MayBypass, Data2,
                View
  <2>3. Written' = Written
    BY <2>1, <2>2 DEF Written, cacheVars
  <2>4. CacheData' /\ CoreData'
    BY <2>1 DEF DInv, CacheData, CoreData, cacheVars, coreVars
  <2>5. MemInv' /\ WalkInv' /\ RecoveryInv'
    BY <2>1 DEF DInv, MemInv, WalkInv, RecoveryInv, cacheVars, coreVars
  <2>6. Port2Inv'
    BY <2>1, <2>2 DEF DInv, Port2Inv, cacheVars
  <2>7. PICK g \in 0 .. Len(mq) : OrderInv(g)
    BY DEF DInv
  <2>8. OrderInv(g)' /\ g \in 0 .. Len(mq')
    <3>1. MarkedInv(g)' /\ Port1Inv(g)'
      BY <2>1, <2>2, <2>7 DEF OrderInv, MarkedInv, Port1Inv, cacheVars, coreVars
    <3> QED BY <2>1, <2>2, <2>3, <2>7, <3>1 DEF OrderInv, cacheVars, coreVars
  <2> QED BY <2>4, <2>5, <2>6, <2>8 DEF DInv
<1>2. CASE Next
  <2>1. PICK answered \in Answers :
           /\ CacheStep(Inputs(answered)) /\ CoreStep(Inputs(answered))
           /\ Environment(Inputs(answered), answered)
    BY <1>2 DEF Next
  <2>2. PICK in : in = Inputs(answered)
    OBVIOUS
  <2>3. CacheStep(in) /\ CoreStep(in) /\ drain' = dsDone /\ Memory(answered)
    BY <2>1, <2>2 DEF Environment
  <2>4. Fits(in) /\ in.req = Request
    BY <2>2, InputsFit
  <2>5. /\ TypeOK /\ CoreType /\ CacheInv /\ FlushInv /\ nInflight \in Nat /\ CacheInv'
    BY FS_CardinalityType DEF IInv, TypeOK, CacheInv, HeldInv
  <2>6. HeldStep(in) /\ EmptyStep(in)
    BY <2>3, <2>4, <2>5, CacheGood DEF Good
  <2>7. Cycle(in)
    BY <2>3, <2>4, <2>5, <2>6 DEF Cycle
  <2>8. FromCore(in) /\ MemFits(in)
    <3>1. /\ in.data = IF mdq = <<>> THEN [rob |-> NoRob, val |-> AnyVal] ELSE mdq[1]
          /\ in.retired = retired /\ in.drain = drain /\ in.rsp = answered
          /\ in.line = IF memReq.store THEN Zeros ELSE mem[memReq.set][memReq.tag]
      BY <2>2 DEF Inputs
    <3>2. FromCore(in)
      BY <3>1 DEF FromCore
    <3>3. MemFits(in)
      BY <2>3, <3>1 DEF MemFits, Memory, Answers
    <3> QED BY <3>2, <3>3
  <2>9. /\ CacheData /\ CoreData /\ MemInv /\ WalkInv /\ Port2Inv /\ RecoveryInv
        /\ \E g \in 0 .. Len(mq) : OrderInv(g)
    BY DEF DInv
  <2>10. DataBefore(in)
    BY <2>4, <2>5, <2>8, <2>9 DEF DataBefore, FlushInv
  <2>11. PICK g \in 0 .. Len(mq) : OrderInv(g)
    BY <2>9
  <2>12. g \in Nat
    OBVIOUS
  <2>13. Store1 => p1.val = Op1.val
    BY <2>11 DEF OrderInv, Port1Inv
  <2>14. DataGood(in)
    BY <2>3, <2>10, <2>13, CacheKeepsLines
  <2>15. PICK f \in {0, 1} : f = 1 <=> state = "ACTIVE" /\ StoreFires(in)
    OBVIOUS
  <2>16. CycleFrom(in, g, f)
    BY <2>7, <2>8, <2>9, <2>11, <2>12, <2>15 DEF CycleFrom
  <2>17. PICK h \in {0, 1} : Leaves(in, g, f, h)
    BY <2>16, HeadLeaves
  <2>18. \E g2 : Settled(g2) /\ MarkedInv(g2)'
    <3>1. ASSUME NEW n \in 0 .. 2, NEW news \in SUBSET Allocations,
                 Flow(in, n, news), n >= 1 => core = "ACTIVE"
          PROVE  \E g2 : Settled(g2) /\ MarkedInv(g2)'
      <4>1. PICK g2 : Settled(g2) /\ Graduating(g - f, g2)
        BY <2>10, <2>14, <2>16, <2>17, <3>1, FlowSettles
      <4>2. MarkedInv(g2)'
        BY <2>16, <2>17, <4>1, MarkedNext
      <4> QED BY <4>1, <4>2
    <3>2. ASSUME NEW ack \in BOOLEAN, Rat(in, ack) PROVE \E g2 : Settled(g2) /\ MarkedInv(g2)'
      <4>1. Settled(0) /\ MarkedInv(0)'
        BY <2>6, <2>10, <2>14, <2>16, <2>17, <3>2, RatSettles
      <4> QED BY <4>1
    <3> QED BY <2>3, <2>5, <2>9, <3>1, <3>2, CoreFlows
  <2>19. CoreData' /\ \E g2 \in 0 .. Len(mq') : OrderInv(g2)'
    BY <2>3, <2>18, OrderNext
  <2>20. Port2Inv' /\ RecoveryInv'
    BY <2>3, <2>5, <2>9, <2>10, <2>13, Port2Next, RecoveryNext
  <2> QED BY <2>14, <2>19, <2>20 DEF DInv, DataGood
<1> QED BY <1>1, <1>2

-----------------------------------------------------------------------------
(***************************************************************************)
(* The results.                                                            *)
(***************************************************************************)

(* Everything above together: the arrays, the memory, the queues and the window of
   the machine keep to DInv in every cycle. *)
THEOREM DataInvariant == Spec => []DInv
<1>1. Init => DInv
  BY InitData
<1>2. IInv /\ IInv' /\ DInv /\ [Next]_vars => DInv'
  BY StepKeepsData
<1>3. Spec => []IInv
  BY Invariant
<1> QED BY <1>1, <1>2, <1>3, PTL DEF Spec

(* Of what is queued, exactly the first g requests are stores that have retired. *)
LEMMA GraduatedAre ==
    ASSUME IInv, NEW g, OrderInv(g)
    PROVE  Graduated = 1 .. g
<1>1. /\ mq \in Seq(Reqs) /\ Pipe = PipeOf(mq, p2.req) /\ g \in 0 .. Len(mq)
      /\ QueueOrder(win, Pipe, g) /\ p2.req \in Reqs \cup {NoReq}
  BY DEF IInv, TypeOK, CacheType, Pipe, PipeOf, On2, OrderInv
<1> PICK q : q = Pipe
  OBVIOUS
<1>2. Len(q) \in Nat /\ Len(q) >= Len(mq) /\ \A i \in 1 .. Len(mq) : q[i] = mq[i]
  <2>1. /\ q \in Seq(Reqs) /\ Len(mq) \in Nat
        /\ Len(q) = Len(mq) + (IF p2.req # NoReq THEN 1 ELSE 0)
        /\ \A i \in 1 .. Len(mq) : q[i] = mq[i]
    BY <1>1, PipeIs
  <2> QED BY <2>1
<1>3. QueueOrder(win, q, g)
  BY <1>1
<1>4. ASSUME NEW i \in 1 .. g PROVE i \in Graduated
  <2>1. i \in 1 .. Len(mq) /\ i \in DOMAIN mq /\ q[i] = mq[i]
    BY <1>1, <1>2
  <2>2. q[i].op.store /\ ~\E k \in DOMAIN win : Had(win[k], q[i])
    BY <1>3 DEF QueueOrder
  <2>3. mq[i].rob \notin Unretired
    BY <2>1, <2>2 DEF Unretired, Had
  <2> QED BY <2>1, <2>2, <2>3 DEF Graduated
<1>5. ASSUME NEW i \in Graduated PROVE i \in 1 .. g
  <2>1. i \in 1 .. Len(mq) /\ mq[i].rob \notin Unretired
    BY <1>1 DEF Graduated
  <2>2. CASE i \in g + 1 .. Len(q)
    <3>1. PICK k \in DOMAIN win : Had(win[k], q[i])
      BY <1>3, <2>2 DEF QueueOrder
    <3>2. mq[i].rob \in Unretired
      BY <1>2, <2>1, <3>1 DEF Unretired, Had
    <3> QED BY <2>1, <3>2
  <2>3. CASE i \notin g + 1 .. Len(q)
    BY <1>1, <1>2, <2>1, <2>3
  <2> QED BY <2>2, <2>3
<1> QED BY <1>4, <1>5

(* Cache and memory, with the stores that have retired and still wait in the queue,
   hold exactly what the program has committed (ViewExact): no eviction, reload, retry,
   flush or recovery loses a store, repeats an old line or lets a store of a wrong
   path through. *)
THEOREM NothingLost == Spec => []ViewExact
<1>1. IInv /\ DInv => ViewExact
  <2> SUFFICES ASSUME IInv, DInv, state \notin Starting
               PROVE  After(Written, mq, Graduated) = committed
    BY DEF ViewExact, Starting
  <2>1. PICK g \in 0 .. Len(mq) : OrderInv(g)
    BY DEF DInv
  <2>2. Graduated = 1 .. g
    BY <2>1, GraduatedAre
  <2> QED BY <2>1, <2>2 DEF OrderInv
<1>2. Spec => []IInv /\ []DInv
  BY Invariant, DataInvariant
<1> QED BY <1>1, <1>2, PTL

(* With no store in port 1 what the arrays and the memory hold is all there is. *)
LEMMA NothingWriting ==
    ASSUME IInv, DInv, ~Store1
    PROVE  Written = View /\ View \in Mems
<1>1. View = ViewOf(arr, mem) /\ arr \in [Sets -> Rows] /\ mem \in Mems
  BY DEF View, ViewOf, DInv, CacheData
<1>2. View \in Mems
  BY <1>1, ViewIs
<1>3. CASE p1.req = NoReq
  BY <1>2, <1>3 DEF Written
<1>4. CASE p1.req # NoReq
  <2>1. p1.req.op \in Ops /\ ~p1.req.op.store
    BY <1>4 DEF Store1, Op1, IInv, TypeOK, CacheType, Reqs
  <2> PICK q : q = <<p1.req>>
    OBVIOUS
  <2>2. {1} \in Places /\ \A i \in {1} : q[i].op \in Ops /\ ~q[i].op.store
    BY <2>1, PlacesAre
  <2>3. After(View, q, {1}) = View
    BY <1>2, <2>2, AfterLoads
  <2> QED BY <1>2, <1>4, <2>3 DEF Written
<1> QED BY <1>3, <1>4

(* No operation leaves the lines as they are. *)
LEMMA AfterNone ==
    ASSUME NEW lines \in Mems, NEW q
    PROVE  After(lines, q, 1 .. 0) = lines
<1> PICK I : I = 1 .. 0
  OBVIOUS
<1>1. I \in Places /\ \A i \in I : FALSE
  <2>1. I = {}
    OBVIOUS
  <2> QED BY <2>1, PlacesAre
<1>2. After(lines, q, I) = lines
  BY <1>1, AfterLoads
<1> QED BY <1>2

(* When the core sees that a flush has ended, before the host reads the memory for a
   monitor call, the memory holds every store that the program has committed and no
   line is left in the cache (FLUSH_CACHE, FLUSH_CACHE_LAST_WAIT). *)
THEOREM FlushLeavesNothing == Spec => []FlushWritesBack
<1>1. IInv /\ DInv => FlushWritesBack
  <2> SUFFICES ASSUME IInv, DInv, flushDone
               PROVE  mem = committed /\ \A s \in Sets : ~arr[s].valid
    BY DEF FlushWritesBack
  <2>1. /\ Invalid(arr, NumSets) /\ mq = <<>> /\ p1.req = NoReq /\ state = "ACTIVE"
        /\ arr \in [Sets -> Rows] /\ mem \in Mems
    BY DEF DInv, WalkInv, CacheData, IInv, FlushInv
  <2>2. \A s \in Sets : ~arr[s].valid
    <3> SUFFICES ASSUME NEW s \in Sets PROVE ~arr[s].valid
      OBVIOUS
    <3>1. s < NumSets
      BY L1DAssumption DEF Sets
    <3> QED BY <2>1, <3>1 DEF Invalid
  <2>3. View = mem
    BY <2>1, <2>2, EmptyView DEF View, ViewOf
  <2>4. Written = mem
    BY <2>1, <2>3 DEF Written
  <2>5. PICK g \in 0 .. Len(mq) : OrderInv(g)
    BY DEF DInv
  <2>6. g = 0
    <3>1. Len(mq) = 0
      BY <2>1
    <3> QED BY <2>5, <3>1
  <2>7. committed = After(Written, mq, 1 .. 0)
    BY <2>1, <2>5, <2>6 DEF OrderInv, Starting
  <2> QED BY <2>1, <2>2, <2>4, <2>7, AfterNone
<1>2. Spec => []IInv /\ []DInv
  BY Invariant, DataInvariant
<1> QED BY <1>1, <1>2, PTL

(* Nothing is older than the load that waits in port 1: what it must read is what the
   arrays and the memory hold. *)
LEMMA OldestLoad ==
    ASSUME IInv, DInv, core = "ACTIVE", state \notin Starting, Pending1, ~Op1.store
    PROVE  \E k \in DOMAIN win :
              win[k].rob = p1.req.rob /\ win[k].op = Op1 /\ Before(k) = View
<1>1. PICK g \in 0 .. Len(mq) : OrderInv(g)
  BY DEF DInv
<1>2. /\ g = 0 /\ First(win, Pipe, p1.req) /\ WindowOrder(win) /\ (~drain => StoresHeld(win, Pipe))
      /\ committed = After(Written, mq, 1 .. g)
  BY <1>1 DEF OrderInv, Port1Inv
<1>3. PICK k \in DOMAIN win :
         /\ win[k].rob = p1.req.rob /\ win[k].op = p1.req.op /\ win[k].st = "sent"
         /\ \A i \in DOMAIN Pipe, l \in DOMAIN win : Had(win[l], Pipe[i]) => k < l
  BY <1>2 DEF First
<1>4. win \in Seq(Entries) /\ k \in 1 .. Len(win) /\ Len(win) \in Nat
  BY DEF IInv, TypeOK, CoreType
<1>5. StoresHeld(win, Pipe)
  <2>1. win # <<>>
    BY <1>4
  <2>2. ~drain
    BY <2>1 DEF DInv, RecoveryInv
  <2> QED BY <1>2, <2>2
<1> PICK I : I = 1 .. k - 1
  OBVIOUS
<1>6. ASSUME NEW j \in I PROVE win[j].op \in Ops /\ ~win[j].op.store
  <2>1. j \in DOMAIN win /\ j < k /\ ~(k < j) /\ win[j] \in Entries
    BY <1>4
  <2>2. win[j].st \in {"sent", "done"}
    BY <1>2, <1>3, <2>1 DEF WindowOrder
  <2>3. ASSUME win[j].op.store PROVE FALSE
    <3>1. PICK i \in DOMAIN Pipe : Pipe[i].rob = win[j].rob
      BY <1>5, <2>1, <2>2, <2>3 DEF StoresHeld
    <3>2. Had(win[j], Pipe[i])
      BY <2>2, <3>1 DEF Had
    <3> QED BY <1>3, <2>1, <3>1, <3>2
  <2> QED BY <2>1, <2>3 DEF Entries
<1>7. committed \in Mems /\ Before(k) = After(committed, win, I)
  BY DEF DInv, CoreData, Before
<1>8. Before(k) = committed
  <2>1. I \in Places
    <3>1. k - 1 \in Int
      BY <1>4
    <3> QED BY <3>1, PlacesAre
  <2> QED BY <1>6, <1>7, <2>1, AfterLoads
<1>9. Written = View /\ View \in Mems
  BY NothingWriting DEF Store1
<1>10. committed = View
  BY <1>2, <1>9, AfterNone
<1> QED BY <1>3, <1>8, <1>10 DEF Op1

(* What port 2 has read for a load that it may answer is what the stores before the
   load leave: every such store is in the queue, and none there is to these words. *)
LEMMA BypassReads ==
    ASSUME IInv, DInv, core = "ACTIVE", state = "ACTIVE", ~drain,
           On2, ~p2.req.op.store, Hit2, MayBypass
    PROVE  \E k \in DOMAIN win :
              /\ win[k].rob = p2.req.rob /\ win[k].op = p2.req.op
              /\ \A w \in win[k].op.words :
                    Before(k)[win[k].op.set][win[k].op.tag][w] = Data2[w]
<1> PICK op : op = p2.req.op
  OBVIOUS
<1>1. PICK g \in 0 .. Len(mq) : OrderInv(g)
  BY DEF DInv
<1>2. /\ mq \in Seq(Reqs) /\ p2.req \in Reqs /\ Pipe = PipeOf(mq, p2.req) /\ win \in Seq(Entries)
      /\ NoTwo(win) /\ p1.req \in Reqs \cup {NoReq} /\ (p1.req # NoReq => p1.on)
      /\ DOMAIN win = 1 .. Len(win) /\ Len(win) \in Nat
  BY DEF IInv, TypeOK, CacheType, CoreType, WindowInv, StateInv, Missing, Pipe, PipeOf, On2
<1> PICK q : q = Pipe
  OBVIOUS
<1> PICK n \in Nat : n = Len(mq) + 1
  BY <1>2
<1>3. /\ q \in Seq(Reqs) /\ Len(q) = n /\ q[n] = p2.req /\ g \in Nat /\ g < n
      /\ \A i \in 1 .. n - 1 : q[i] = mq[i] /\ i \in DOMAIN mq
  <2>1. /\ q \in Seq(Reqs) /\ Len(mq) \in Nat /\ Len(q) = Len(mq) + 1 /\ q[Len(mq) + 1] = p2.req
        /\ \A i \in 1 .. Len(mq) : q[i] = mq[i]
    <3>1. p2.req \in Reqs \cup {NoReq} /\ p2.req # NoReq
      BY <1>2 DEF On2
    <3>2. q = PipeOf(mq, p2.req)
      BY <1>2
    <3> QED BY ONLY <1>2, <3>1, <3>2, PipeIs
  <2>2. \A i \in 1 .. Len(mq) : i \in DOMAIN mq
    BY <1>2
  <2> QED BY <2>1, <2>2
<1>4. /\ QueueOrder(win, q, g) /\ WindowOrder(win) /\ StoresHeld(win, q)
      /\ committed = After(Written, mq, 1 .. g)
  BY <1>1 DEF OrderInv, Starting
<1>5. PICK k \in DOMAIN win : Had(win[k], q[n]) /\ win[k].op = q[n].op /\ win[k].st = "sent"
  <2>1. n \in g + 1 .. Len(q) /\ ~q[n].op.store
    BY <1>3
  <2> QED BY <1>4, <2>1 DEF QueueOrder
<1>6. win[k].rob = p2.req.rob /\ win[k].op = op
  BY <1>3, <1>5 DEF Had
<1>7. /\ arr[op.set].valid /\ arr[op.set].tag = op.tag
      /\ \A w \in op.words :
            /\ Data2[w] = arr[op.set].data[w]
            /\ ~(p1.on /\ Op1.set = op.set /\ Op1.tag = op.tag /\ Op1.store /\ w \in Op1.words)
            /\ Writers(mq, DOMAIN mq, op.set, op.tag, w) = {}
  BY DEF DInv, Port2Inv
<1>8. /\ op \in Ops /\ op.set \in Sets /\ op.tag \in Tags /\ op.words \subseteq Words
      /\ k \in 1 .. Len(win)
  <2>1. op \in Ops
    BY <1>2 DEF Reqs
  <2> QED BY ONLY <1>2, <2>1, k \in DOMAIN win, OpFields
<1>9. ASSUME NEW w \in op.words PROVE Before(k)[op.set][op.tag][w] = Data2[w]
  <2> PICK I, J : I = 1 .. k - 1 /\ J = 1 .. g
    OBVIOUS
  <2>1. I \in Places /\ J \in Places /\ {1} \in Places /\ w \in Words
    <3>1. k - 1 \in Int /\ g \in Int
      BY <1>2, <1>3, <1>8
    <3>2. I \in Places /\ J \in Places
      BY <3>1, PlacesAre
    <3> QED BY <1>8, <3>2, PlacesAre
  <2>2. \A j \in Writers(win, I, op.set, op.tag, w) : FALSE
    <3> SUFFICES ASSUME NEW j \in I, win[j].op.store, win[j].op.set = op.set,
                        win[j].op.tag = op.tag, w \in win[j].op.words
                 PROVE  FALSE
      BY DEF Writers
    <3>1. j \in DOMAIN win /\ j < k /\ j # k
      BY <1>2, <1>8
    <3>2. win[j].st \in {"sent", "done"}
      BY <1>4, <1>5, <3>1 DEF WindowOrder
    <3>3. PICK i \in DOMAIN q : q[i].rob = win[j].rob
      BY <1>4, <3>1, <3>2 DEF StoresHeld
    <3>4. Had(win[j], q[i])
      BY <3>2, <3>3 DEF Had
    <3>5. i # n
      BY <1>2, <1>3, <1>6, <3>1, <3>3 DEF NoTwo
    <3>6. i \in 1 .. n - 1 /\ i \in Nat
      BY <1>3, <3>5
    <3>7. i \in g + 1 .. Len(q)
      <4>1. ~(i \in 1 .. g)
        BY <1>4, <3>1, <3>4 DEF QueueOrder
      <4> QED BY <1>3, <3>6, <4>1
    <3>8. PICK l \in DOMAIN win : Had(win[l], q[i]) /\ win[l].op = q[i].op
      BY <1>4, <3>7 DEF QueueOrder
    <3>9. l = j
      BY <1>2, <3>1, <3>3, <3>8 DEF NoTwo, Had
    <3>10. q[i] = mq[i] /\ i \in DOMAIN mq
      BY <1>3, <3>6
    <3>11. i \in Writers(mq, DOMAIN mq, op.set, op.tag, w)
      BY <3>8, <3>9, <3>10 DEF Writers
    <3> QED BY <1>7, <3>11
  <2>3. Before(k)[op.set][op.tag][w] = committed[op.set][op.tag][w]
    <3>1. Before(k) = After(committed, win, I)
      BY DEF Before
    <3> QED BY ONLY <1>8, <2>1, <2>2, <3>1, WordAfter
  <2>4. committed[op.set][op.tag][w] = Written[op.set][op.tag][w]
    <3>1. J \subseteq DOMAIN mq
      BY <1>2, <1>3
    <3>2. Writers(mq, J, op.set, op.tag, w) \subseteq Writers(mq, DOMAIN mq, op.set, op.tag, w)
      BY <3>1 DEF Writers
    <3>3. \A j \in Writers(mq, J, op.set, op.tag, w) : FALSE
      BY <1>7, <3>2
    <3>4. committed = After(Written, mq, J)
      BY <1>4
    <3> QED BY ONLY <1>8, <2>1, <3>3, <3>4, WordAfter
  <2>5. Written[op.set][op.tag][w] = View[op.set][op.tag][w]
    <3>1. CASE p1.req = NoReq
      BY <3>1 DEF Written
    <3>2. CASE p1.req # NoReq
      <4> PICK r : r = <<p1.req>>
        OBVIOUS
      <4>1. r[1].op = Op1 /\ p1.on
        BY <1>2, <3>2 DEF Op1
      <4>2. \A j \in Writers(r, {1}, op.set, op.tag, w) : FALSE
        BY <1>7, <4>1 DEF Writers
      <4>3. Written = After(View, r, {1})
        BY <3>2 DEF Written
      <4> QED BY ONLY <1>8, <2>1, <4>2, <4>3, WordAfter
    <3> QED BY <3>1, <3>2
  <2>6. View[op.set][op.tag] = arr[op.set].data
    <3>1. View = ViewOf(arr, mem) /\ arr \in [Sets -> Rows] /\ mem \in Mems
      BY DEF View, ViewOf, DInv, CacheData
    <3> QED BY <1>7, <1>8, <3>1, ViewIs
  <2> QED BY <1>7, <2>3, <2>4, <2>5, <2>6
<1> QED BY <1>6, <1>9

(* What the three ways to answer a load say: port 1 and the line that comes are what
   the arrays and the memory hold, port 2 may say what it has read. *)
LEMMA AnswerIs ==
    ASSUME IInv, DInv, NEW answered \in Answers, NEW in, in = Inputs(answered),
           Response(in).words # Unread
    PROVE  \/ /\ state \notin Starting /\ Pending1 /\ ~Op1.store
              /\ Response(in) = [rob |-> p1.req.rob,
                                 words |-> ReadWords(Op1, View[Op1.set][Op1.tag])]
           \/ /\ state = "ACTIVE" /\ ~drain /\ On2 /\ ~p2.req.op.store /\ Hit2 /\ MayBypass
              /\ Response(in) = [rob |-> p2.req.rob, words |-> ReadWords(p2.req.op, Data2)]
<1>1. /\ View = ViewOf(arr, mem) /\ arr \in [Sets -> Rows] /\ mem \in Mems
      /\ p1.req \in Reqs \cup {NoReq} /\ inhibit \in BOOLEAN /\ lock \in BOOLEAN
  BY DEF View, ViewOf, DInv, CacheData, IInv, TypeOK, CacheType
<1>2. /\ in.rsp = answered /\ in.drain = drain
      /\ in.line = IF memReq.store THEN Zeros ELSE mem[memReq.set][memReq.tag]
  BY DEF Inputs
<1>3. p1.req # NoReq => Op1.set \in Sets /\ Op1.tag \in Tags
  BY <1>1, OpFields DEF Op1, Reqs
<1>4. CASE state = "ACTIVE" /\ LoadHit
  <2>1. p1.on /\ TagMatch1 /\ ~Op1.store /\ p1.req # NoReq /\ p1.out = arr[Op1.set]
    BY <1>4 DEF LoadHit, Hit1, IInv, StateInv
  <2>2. View[Op1.set][Op1.tag] = p1.out.data
    BY <1>1, <1>3, <2>1, ViewIs DEF TagMatch1
  <2>3. Response(in) = [rob |-> p1.req.rob, words |-> ReadWords(Op1, p1.out.data)]
    BY <1>4 DEF Response
  <2> QED BY <1>4, <2>1, <2>2, <2>3 DEF Pending1, Starting
<1>5. CASE state = "ACTIVE" /\ ~LoadHit /\ Answer2(in)
  <2>1. Response(in) = [rob |-> p2.req.rob,
                        words |-> IF AtOnce(in) \/ p2.req.op.store THEN Unread
                                  ELSE ReadWords(p2.req.op, Data2)]
    BY <1>5 DEF Response
  <2>2. ~AtOnce(in) /\ ~p2.req.op.store
    BY <2>1
  <2> QED BY <1>2, <1>5, <2>1, <2>2 DEF Answer2, PushMiss, AtOnce
<1>6. CASE state = "INJECT_RELOAD" /\ in.rsp /\ ~Op1.store /\ ~lock
  <2>1. Response(in) = [rob |-> p1.req.rob, words |-> ReadWords(Op1, in.line)]
    BY <1>6 DEF Response
  <2>2. /\ p1.req # NoReq /\ memReq.set = Op1.set /\ memReq.tag = Op1.tag /\ ~inhibit
    BY <1>1, <1>6 DEF IInv, StateInv, Missing
  <2>3. memReq.valid
    BY <1>2, <1>6 DEF Answers
  <2>4. ~memReq.store /\ ~(arr[memReq.set].valid /\ arr[memReq.set].dirty) /\ RowsInv(arr, mem)
    BY <2>2, <2>3 DEF DInv, MemInv
  <2>5. in.line = mem[Op1.set][Op1.tag]
    BY <1>2, <2>2, <2>4
  <2>6. View[Op1.set][Op1.tag] = in.line
    <3>1. View[Op1.set][Op1.tag] = IF arr[Op1.set].valid /\ arr[Op1.set].tag = Op1.tag
                                   THEN arr[Op1.set].data ELSE mem[Op1.set][Op1.tag]
      BY <1>1, <1>3, <2>2, ViewIs
    <3>2. arr[Op1.set].valid => arr[Op1.set].data = mem[Op1.set][arr[Op1.set].tag]
      BY <1>3, <2>2, <2>4 DEF RowsInv
    <3> QED BY <2>5, <3>1, <3>2
  <2> QED BY <1>6, <2>1, <2>2, <2>6 DEF Pending1, Starting
<1>7. CASE /\ ~(state = "ACTIVE" /\ LoadHit)
           /\ ~(state = "ACTIVE" /\ ~LoadHit /\ Answer2(in))
           /\ ~(state = "INJECT_RELOAD" /\ in.rsp /\ ~Op1.store /\ ~lock)
  <2>1. Response(in) = NoRsp
    BY <1>7 DEF Response
  <2> QED BY <2>1 DEF NoRsp
<1> QED BY <1>4, <1>5, <1>6, <1>7

(* Every load is answered with what the program has written before it: with the last
   store to each of its words that comes before it in program order, wherever that
   store is when the load is answered, and with no later one (LoadsExact). *)
THEOREM LoadsReadTheProgram == Spec => []LoadsExact
<1>1. IInv /\ DInv => LoadsExact
  <2> SUFFICES ASSUME IInv, DInv, core = "ACTIVE", NEW answered \in Answers,
                      Response(Inputs(answered)).words # Unread
               PROVE  \E i \in DOMAIN win :
                         /\ win[i].rob = Response(Inputs(answered)).rob
                         /\ Response(Inputs(answered)).words =
                              ReadWords(win[i].op, Before(i)[win[i].op.set][win[i].op.tag])
    BY DEF LoadsExact
  <2> PICK in : in = Inputs(answered)
    OBVIOUS
  <2>1. CASE /\ state \notin Starting /\ Pending1 /\ ~Op1.store
             /\ Response(in) = [rob |-> p1.req.rob,
                                words |-> ReadWords(Op1, View[Op1.set][Op1.tag])]
    <3>1. PICK k \in DOMAIN win :
             win[k].rob = p1.req.rob /\ win[k].op = Op1 /\ Before(k) = View
      BY <2>1, OldestLoad
    <3> QED BY <2>1, <3>1
  <2>2. CASE /\ state = "ACTIVE" /\ ~drain /\ On2 /\ ~p2.req.op.store /\ Hit2 /\ MayBypass
             /\ Response(in) = [rob |-> p2.req.rob, words |-> ReadWords(p2.req.op, Data2)]
    <3>1. PICK k \in DOMAIN win :
             /\ win[k].rob = p2.req.rob /\ win[k].op = p2.req.op
             /\ \A w \in win[k].op.words :
                   Before(k)[win[k].op.set][win[k].op.tag][w] = Data2[w]
      BY <2>2, BypassReads
    <3>2. ReadWords(win[k].op, Before(k)[win[k].op.set][win[k].op.tag])
            = ReadWords(win[k].op, Data2)
      BY <3>1 DEF ReadWords
    <3> QED BY <2>2, <3>1, <3>2
  <2> QED BY <2>1, <2>2, AnswerIs
<1>2. Spec => []IInv /\ []DInv
  BY Invariant, DataInvariant
<1> QED BY <1>1, <1>2, PTL
================================================================================
