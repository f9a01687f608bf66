---------------------------- MODULE LoadStoreProofs ----------------------------
(***************************************************************************)
(* Proofs about LoadStore, for every number of sets, slots, queue entries  *)
(* and operations, and every content of the window: requests are neither   *)
(* forgotten nor answered twice, a recovery leaves nothing behind, and the *)
(* memory system is asked for one line at a time.                          *)
(***************************************************************************)
EXTENDS LoadStore, FiniteSetTheorems, SequenceTheorems, FunctionTheorems, TLAPS

-----------------------------------------------------------------------------
Starting == {"INITIALIZE", "INIT_CACHE"}
Flushing == {"FLUSH_CACHE", "FLUSH_CACHE_WAIT", "FLUSH_CACHE_LAST_WAIT"}
Missing == {"INJECT_RELOAD", "HANDLE_RELOAD"}
\* The states in which the memory system has a request to answer.
Waiting == {"INJECT_RELOAD", "FLUSH_CACHE_WAIT", "FLUSH_CACHE_LAST_WAIT"}
CoreStates == {"ACTIVE", "DRAIN", "RAT", "MONITOR_FLUSH_CACHE", "FLUSH_FOR_HALT", "HALT"}

CacheType ==
    /\ state \in States /\ mq \in Seq(Reqs)
    /\ p1 = [on |-> p1.on, req |-> p1.req, val |-> p1.val, retry |-> p1.retry,
             reload |-> p1.reload, busy |-> p1.busy, out |-> p1.out]
    /\ p1.on \in BOOLEAN /\ p1.retry \in BOOLEAN /\ p1.reload \in BOOLEAN
    /\ p1.req \in Reqs \cup {NoReq} /\ p2.req \in Reqs \cup {NoReq}
    /\ early \in BOOLEAN /\ lock \in BOOLEAN /\ inhibit \in BOOLEAN
    /\ grad \in [Slots -> 0 .. 2] /\ slotBusy \subseteq Slots
    /\ memqEmpty \in BOOLEAN /\ flushReq \in BOOLEAN /\ flushDone \in BOOLEAN
CoreType ==
    /\ core \in CoreStates /\ win \in Seq(Entries)
    /\ flush \in BOOLEAN /\ dsDone \in BOOLEAN /\ drain \in BOOLEAN
TypeOK == CacheType /\ CoreType

\* The slots of the queued loads or stores.
RobsOf(q, store) == {q[i].rob : i \in {j \in DOMAIN q : q[j].op.store = store}}
AllRobs(q) == {q[i].rob : i \in DOMAIN q}
NoTwo(q) == \A i, j \in DOMAIN q : q[i].rob = q[j].rob => i = j

\* The operations of the buffer have a slot each; it is empty for a flush, and
\* nothing of it is in exec's queue or in the cache when it is cleared.
WindowInv ==
    /\ NoTwo(win)
    /\ core \in {"MONITOR_FLUSH_CACHE", "FLUSH_FOR_HALT", "HALT"} => win = <<>>
    /\ core = "RAT" => \A i \in DOMAIN win : win[i].st \in {"new", "done"}

\* A slot has one request in the cache, and is busy from the time it is queued.
SlotsInv ==
    /\ NoTwo(mq)
    /\ slotBusy = AllRobs(mq) \cup (IF Pending1 THEN {p1.req.rob} ELSE {})
    /\ Pending1 => p1.req.rob \notin AllRobs(mq)
    /\ On2 => p2.req.rob \notin slotBusy

\* A slot is marked while it has a store in the cache; one in port 1 has retired.
Store1 == p1.req # NoReq /\ Op1.store
MarksInv ==
    /\ \A s \in Slots :
          grad[s] # 0 <=> s \in RobsOf(mq, TRUE) \/ (Store1 /\ p1.req.rob = s)
    /\ Store1 => grad[p1.req.rob] = 2

HeldInv ==
    /\ Sent = HeldLoads
    /\ IsFiniteSet(HeldLoads) /\ nInflight = Cardinality(HeldLoads)

\* What each state knows of port 1, of the line it waits for and of the memory.
StateInv ==
    /\ memReq.valid <=> state \in Waiting
    /\ ~memReq.valid => memReq = NoMem
    /\ On2 => state = "ACTIVE" /\ ~(p1.on /\ ~Op1.store)
    /\ p1.on => state = "ACTIVE" /\ p1.req # NoReq /\ p1.out = arr[Op1.set]
    /\ p1.req # NoReq => p1.on \/ state \in Missing
    /\ state \in Missing => p1.req # NoReq
    /\ p1.on => IF p1.retry THEN ~lock
                ELSE p1.reload /\ (IF lock THEN ~p1.out.valid ELSE TagMatch1)
    /\ lock => p1.req # NoReq
    /\ state = "INJECT_RELOAD" =>
          /\ memReq.set = Op1.set /\ lock = inhibit
          /\ ~lock => memReq.tag = Op1.tag
    /\ state = "HANDLE_RELOAD" =>
          /\ early <=> ~lock /\ ~Op1.store
          /\ IF lock THEN ~arr[Op1.set].valid
             ELSE arr[Op1.set].valid /\ arr[Op1.set].tag = Op1.tag
    /\ early => state = "HANDLE_RELOAD"
    /\ state \in Starting \cup Flushing => mq = <<>>

\* The flush handshake.
FlushInv ==
    /\ state \in Starting => core = "FLUSH_FOR_HALT"
    /\ flush \/ flushReq \/ state \in Flushing =>
          core = "MONITOR_FLUSH_CACHE" /\ ~flushDone
    /\ ~(flush /\ flushReq)
    /\ state \in Flushing => ~flush /\ ~flushReq
    /\ flushDone => state = "ACTIVE"

DrainInv == memqEmpty \/ core = "RAT" => mq = <<>> /\ ~On2

\* There is an entry of the queue for the request that is being decided.
RoomInv == Len(mq) + (IF On2 THEN 1 ELSE 0) <= MqEntries

IInv == /\ TypeOK /\ WindowInv /\ SlotsInv /\ MarksInv
        /\ HeldInv /\ StateInv /\ FlushInv /\ DrainInv /\ RoomInv
-----------------------------------------------------------------------------
(***************************************************************************)
(* The retry queue as the slots of its loads and of its stores.            *)
(***************************************************************************)
(* The fields of a request. *)
LEMMA ReqFields ==
    ASSUME NEW r \in Reqs
    PROVE  /\ r.rob \in Slots /\ r.op.store \in BOOLEAN /\ r.op.set \in Sets
           /\ r # NoReq /\ r.rob # NoRob
<1>1. r.op \in Ops /\ r.rob \in Slots
  BY DEF Reqs
<1>2. r.op \in OpRecs
  BY <1>1, L1DAssumption
<1>3. r.op.store \in BOOLEAN /\ r.op.set \in Sets
  BY <1>2 DEF OpRecs
<1> QED BY <1>1, <1>3, L1DAssumption

(* Every queued request is a load or a store, and none is both. *)
LEMMA LoadsAndStores ==
    ASSUME NEW q \in Seq(Reqs)
    PROVE  /\ AllRobs(q) = RobsOf(q, TRUE) \cup RobsOf(q, FALSE)
           /\ NoTwo(q) => RobsOf(q, TRUE) \cap RobsOf(q, FALSE) = {}
<1>1. \A i \in DOMAIN q : q[i] \in Reqs /\ q[i].op.store \in BOOLEAN
  <2> SUFFICES ASSUME NEW i \in DOMAIN q PROVE q[i] \in Reqs /\ q[i].op.store \in BOOLEAN
    OBVIOUS
  <2>1. q[i] \in Reqs
    OBVIOUS
  <2> QED BY <2>1, ReqFields
<1>2. AllRobs(q) = RobsOf(q, TRUE) \cup RobsOf(q, FALSE)
  BY <1>1 DEF AllRobs, RobsOf
<1>3. ASSUME NoTwo(q), NEW s \in RobsOf(q, TRUE), s \in RobsOf(q, FALSE) PROVE FALSE
  <2>1. PICK i \in DOMAIN q : q[i].op.store = TRUE /\ q[i].rob = s
    BY <1>3 DEF RobsOf
  <2>2. PICK j \in DOMAIN q : q[j].op.store = FALSE /\ q[j].rob = s
    BY <1>3 DEF RobsOf
  <2>3. i = j
    BY <1>3, <2>1, <2>2 DEF NoTwo
  <2> QED BY <2>1, <2>2, <2>3
<1> QED BY <1>2, <1>3

(* The head of the queue leaves it (n_mq_head_ptr). *)
LEMMA TailRobs ==
    ASSUME NEW q \in Seq(Reqs), q # <<>>, NoTwo(q)
    PROVE  /\ q[1] \in Reqs /\ q[1].op.store \in BOOLEAN
           /\ q[1].rob \in RobsOf(q, q[1].op.store)
           /\ Tail(q) \in Seq(Reqs) /\ NoTwo(Tail(q))
           /\ \A b \in BOOLEAN : RobsOf(Tail(q), b) = RobsOf(q, b) \ {q[1].rob}
<1>1. /\ Len(q) \in Nat /\ Len(q) > 0 /\ DOMAIN q = 1 .. Len(q)
      /\ Tail(q) \in Seq(Reqs) /\ Len(Tail(q)) = Len(q) - 1
      /\ DOMAIN Tail(q) = 1 .. Len(q) - 1
      /\ \A i \in 1 .. Len(q) - 1 : Tail(q)[i] = q[i + 1]
  OBVIOUS
<1>2. q[1] \in Reqs /\ q[1].op.store \in BOOLEAN /\ 1 \in DOMAIN q
  <2>1. q[1] \in Reqs /\ 1 \in DOMAIN q
    BY <1>1
  <2> QED BY <2>1, ReqFields
<1>3. q[1].rob \in RobsOf(q, q[1].op.store)
  BY <1>2 DEF RobsOf
<1>4. NoTwo(Tail(q))
  <2> SUFFICES ASSUME NEW i \in DOMAIN Tail(q), NEW j \in DOMAIN Tail(q),
                      Tail(q)[i].rob = Tail(q)[j].rob
               PROVE  i = j
    BY DEF NoTwo
  <2>1. i + 1 \in DOMAIN q /\ j + 1 \in DOMAIN q /\ q[i + 1].rob = q[j + 1].rob
    BY <1>1
  <2>2. i + 1 = j + 1
    BY <2>1 DEF NoTwo
  <2> QED BY <1>1, <2>2
<1>5. ASSUME NEW b \in BOOLEAN PROVE RobsOf(Tail(q), b) = RobsOf(q, b) \ {q[1].rob}
  <2>1. ASSUME NEW s \in RobsOf(Tail(q), b) PROVE s \in RobsOf(q, b) \ {q[1].rob}
    <3>1. PICK i \in DOMAIN Tail(q) : Tail(q)[i].op.store = b /\ Tail(q)[i].rob = s
      BY <2>1 DEF RobsOf
    <3>2. PICK k \in DOMAIN q : k = i + 1
      BY <1>1
    <3>3. q[k].op.store = b /\ q[k].rob = s /\ k # 1
      BY <1>1, <3>1, <3>2
    <3>4. q[1].rob # s
      BY <1>2, <3>3 DEF NoTwo
    <3> QED BY <3>3, <3>4 DEF RobsOf
  <2>2. ASSUME NEW s \in RobsOf(q, b), s # q[1].rob PROVE s \in RobsOf(Tail(q), b)
    <3>1. PICK k \in DOMAIN q : q[k].op.store = b /\ q[k].rob = s
      BY <2>2 DEF RobsOf
    <3>2. k # 1
      BY <2>2, <3>1
    <3>3. k - 1 \in DOMAIN Tail(q) /\ k = (k - 1) + 1
      BY <1>1, <3>1, <3>2
    <3>5. PICK i \in DOMAIN Tail(q) : i = k - 1
      BY <3>3
    <3>4. Tail(q)[i] = q[k]
      BY <1>1, <3>1, <3>5
    <3> QED BY <3>1, <3>4 DEF RobsOf
  <2> QED BY <2>1, <2>2
<1> QED BY <1>1, <1>2, <1>3, <1>4, <1>5

(* A request is pushed (t_push_miss). *)
LEMMA AppendRobs ==
    ASSUME NEW q \in Seq(Reqs), NEW r \in Reqs, r.rob \notin AllRobs(q), NoTwo(q)
    PROVE  /\ q \o <<r>> \in Seq(Reqs) /\ NoTwo(q \o <<r>>)
           /\ \A b \in BOOLEAN :
                RobsOf(q \o <<r>>, b) = RobsOf(q, b) \cup (IF r.op.store = b THEN {r.rob} ELSE {})
<1> DEFINE p == q \o <<r>>
<1>1. /\ Len(q) \in Nat /\ DOMAIN q = 1 .. Len(q) /\ DOMAIN p = 1 .. Len(q) + 1
      /\ p \in Seq(Reqs) /\ p[Len(q) + 1] = r
      /\ \A i \in 1 .. Len(q) : p[i] = q[i]
  OBVIOUS
<1> HIDE DEF p
<1>2. \A i \in DOMAIN q : p[i] = q[i] /\ i \in DOMAIN p /\ q[i].rob # r.rob
  BY <1>1 DEF AllRobs
<1>3. \A i \in DOMAIN p : i \in DOMAIN q \/ p[i] = r
  BY <1>1
<1>4. PICK k \in DOMAIN p : k = Len(q) + 1 /\ p[k] = r
  BY <1>1
<1>5. \A i \in DOMAIN p : i \in DOMAIN q \/ i = k
  BY <1>1, <1>4
<1>6. NoTwo(p)
  BY <1>2, <1>4, <1>5 DEF NoTwo
<1>7. \A b \in BOOLEAN : RobsOf(p, b) = RobsOf(q, b) \cup (IF r.op.store = b THEN {r.rob} ELSE {})
  <2> SUFFICES ASSUME NEW b \in BOOLEAN
               PROVE  RobsOf(p, b) = RobsOf(q, b) \cup (IF r.op.store = b THEN {r.rob} ELSE {})
    OBVIOUS
  <2>1. RobsOf(q, b) \subseteq RobsOf(p, b)
    BY <1>2 DEF RobsOf
  <2>2. r.op.store = b => r.rob \in RobsOf(p, b)
    BY <1>4 DEF RobsOf
  <2>3. \A s \in RobsOf(p, b) : s \in RobsOf(q, b) \/ (r.op.store = b /\ s = r.rob)
    BY <1>2, <1>3 DEF RobsOf
  <2> QED BY <2>1, <2>2, <2>3
<1> QED BY <1>1, <1>6, <1>7 DEF p

(* What a cycle makes of the queue: its head leaves, or not, and the request of
   port 2 enters, or not. *)
LEMMA QueueStep ==
    ASSUME NEW in, mq \in Seq(Reqs), NoTwo(mq),
           PushMiss(in) => p2.req \in Reqs /\ p2.req.rob \notin AllRobs(mq)
    PROVE  LET q == QueueLeft(in) \o (IF PushMiss(in) THEN <<p2.req>> ELSE <<>>)
               gone == IF Pops(in) THEN {Head1.rob} ELSE {}
           IN  /\ q \in Seq(Reqs) /\ NoTwo(q)
               /\ \A b \in BOOLEAN : RobsOf(q, b) =
                     (RobsOf(mq, b) \ gone)
                       \cup (IF PushMiss(in) /\ p2.req.op.store = b THEN {p2.req.rob} ELSE {})
               /\ Pops(in) => /\ Head1 \in Reqs /\ Head1.op.store \in BOOLEAN
                              /\ Head1.rob \in RobsOf(mq, Head1.op.store)
<1> DEFINE left == QueueLeft(in)
           gone == IF Pops(in) THEN {Head1.rob} ELSE {}
<1>1. Pops(in) => mq # <<>>
  BY DEF Pops, Fires, LoadFires, StoreFires, StoreKilled, MayFire
<1>2. /\ left \in Seq(Reqs) /\ NoTwo(left)
      /\ \A b \in BOOLEAN : RobsOf(left, b) = RobsOf(mq, b) \ gone
      /\ Pops(in) => /\ Head1 \in Reqs /\ Head1.op.store \in BOOLEAN
                     /\ Head1.rob \in RobsOf(mq, Head1.op.store)
  BY <1>1, TailRobs DEF QueueLeft, Head1
<1>3. AllRobs(left) \subseteq AllRobs(mq)
  BY <1>2, LoadsAndStores
<1> HIDE DEF left
<1>4. CASE PushMiss(in)
  <2>1. p2.req \in Reqs /\ p2.req.rob \notin AllRobs(left)
    BY <1>3, <1>4
  <2> QED BY <1>2, <1>4, <2>1, AppendRobs DEF left
<1>5. CASE ~PushMiss(in)
  <2>1. left \o <<>> = left
    BY <1>2
  <2> QED BY <1>2, <1>5, <2>1 DEF left
<1> QED BY <1>4, <1>5
-----------------------------------------------------------------------------
(***************************************************************************)
(* The reorder buffer and the queues of exec.                              *)
(***************************************************************************)
\* What the window knows of the cache: a request that is taken is sent, one that
\* is answered is done.
Taken(in) == IF state = "ACTIVE" /\ Accept(in) THEN {in.req.rob} ELSE {}
SentStep(in) == Sent' = (Sent \ {Response(in).rob}) \cup Taken(in)

(* The request of exec.sv is that of its oldest operation with an address. *)
LEMMA RequestIs ==
    ASSUME CoreType
    PROVE  \/ Request = NoReq /\ QueueHead = {}
           \/ /\ Request \in Reqs
              /\ \E k \in DOMAIN win :
                    /\ QueueHead = {k} /\ win[k].st = "queued"
                    /\ Request = [op |-> win[k].op, rob |-> win[k].rob]
<1>1. /\ Len(win) \in Nat /\ DOMAIN win = 1 .. Len(win)
      /\ \A i \in DOMAIN win : win[i] \in Entries
  BY DEF CoreType
<1>2. ASSUME NEW i \in QueueHead, NEW j \in QueueHead PROVE i = j
  <2>1. /\ i \in 1 .. Len(win) /\ j \in 1 .. Len(win)
        /\ win[i].st = "queued" /\ win[j].st = "queued"
        /\ \A k \in 1 .. i - 1 : win[k].st # "queued"
        /\ \A k \in 1 .. j - 1 : win[k].st # "queued"
    BY <1>1, <1>2 DEF QueueHead, Oldest
  <2>2. ~(i < j) /\ ~(j < i)
    BY <1>1, <2>1
  <2> QED BY <1>1, <2>1, <2>2
<1>3. CASE QueueHead = {}
  BY <1>3 DEF Request
<1>4. CASE QueueHead # {}
  <2>1. PICK k \in QueueHead : k = CHOOSE i \in QueueHead : TRUE
    BY <1>4
  <2>2. QueueHead = {k}
    BY <1>2
  <2>3. k \in DOMAIN win /\ win[k].st = "queued" /\ win[k] \in Entries
    BY <1>1 DEF QueueHead, Oldest
  <2>4. Request = [op |-> win[k].op, rob |-> win[k].rob]
    BY <1>4, <2>1 DEF Request
  <2>5. Request \in Reqs
    BY <2>3, <2>4 DEF Reqs, Entries
  <2> QED BY <2>2, <2>3, <2>4, <2>5
<1> QED BY <1>3, <1>4

(* One cycle of the window, entry by entry (n_rob_*, r_rob_sd_complete). *)
LEMMA UpdatedIs ==
    ASSUME CoreType, NEW in, NEW pop, NEW data, NEW n \in 0 .. Len(win),
           NEW u, u = Updated(in, pop, data)
    PROVE  /\ u \in Seq(Entries) /\ Len(u) = Len(win)
           /\ \A i \in DOMAIN win :
                /\ u[i].rob = win[i].rob
                /\ u[i].st = IF win[i].rob = Response(in).rob THEN "done"
                             ELSE IF i \in QueueHead /\ state = "ACTIVE" /\ Accept(in) THEN "sent"
                             ELSE IF i \in pop THEN "queued" ELSE win[i].st
           /\ SubSeq(u, n + 1, Len(win)) \in Seq(Entries)
           /\ Len(SubSeq(u, n + 1, Len(win))) = Len(win) - n
           /\ \A i \in 1 .. Len(win) - n : SubSeq(u, n + 1, Len(win))[i] = u[i + n]
<1>1. /\ Len(win) \in Nat /\ DOMAIN win = 1 .. Len(win)
      /\ \A i \in DOMAIN win : win[i] \in Entries
  BY DEF CoreType
<1> DEFINE St(i) == IF win[i].rob = Response(in).rob THEN "done"
                    ELSE IF i \in QueueHead /\ state = "ACTIVE" /\ Accept(in) THEN "sent"
                    ELSE IF i \in pop THEN "queued" ELSE win[i].st
<1>2. /\ DOMAIN u = 1 .. Len(win)
      /\ \A i \in DOMAIN win :
           u[i] = [win[i] EXCEPT !.st = St(i), !.data = @ \/ i \in data]
  BY <1>1 DEF Updated
<1>3. ASSUME NEW i \in DOMAIN win
      PROVE  u[i] \in Entries /\ u[i].rob = win[i].rob /\ u[i].st = St(i)
  <2>1. win[i] \in Entries /\ St(i) \in {"new", "queued", "sent", "done"}
    BY <1>1 DEF Entries
  <2>2. u[i] = [win[i] EXCEPT !.st = St(i), !.data = @ \/ i \in data]
    BY <1>2
  <2> HIDE DEF St
  <2> QED BY <2>1, <2>2 DEF Entries
<1>4. u \in Seq(Entries) /\ Len(u) = Len(win)
  <2>1. \A i \in 1 .. Len(win) : u[i] \in Entries
    BY <1>1, <1>3
  <2>2. u = [i \in 1 .. Len(win) |-> u[i]]
    BY <1>1 DEF Updated
  <2> QED BY <1>1, <2>1, <2>2
<1> HIDE DEF St
<1>5. /\ SubSeq(u, n + 1, Len(win)) \in Seq(Entries)
      /\ Len(SubSeq(u, n + 1, Len(win))) = Len(win) - n
      /\ \A i \in 1 .. Len(win) - n : SubSeq(u, n + 1, Len(win))[i] = u[i + n]
  <2>1. \A i \in n + 1 .. Len(win) : u[i] \in Entries
    BY <1>1, <1>3
  <2> DEFINE s == SubSeq(u, n + 1, Len(win))
  <2>2. /\ s \in Seq(Entries)
        /\ Len(s) = IF n + 1 <= Len(win) THEN Len(win) - (n + 1) + 1 ELSE 0
        /\ \A i \in 1 .. Len(win) - (n + 1) + 1 : s[i] = u[n + 1 + i - 1]
    BY <1>1, <2>1, SubSeqProperties
  <2> HIDE DEF s
  <2>3. Len(s) = Len(win) - n
    <3>1. Len(s) = IF n + 1 <= Len(win) THEN Len(win) - (n + 1) + 1 ELSE 0
      BY <2>2
    <3>2. PICK l \in Nat : l = Len(win)
      BY <1>1
    <3>3. n \in 0 .. l
      BY <3>2
    <3>4. Len(s) = IF n + 1 <= l THEN l - (n + 1) + 1 ELSE 0
      BY <3>1, <3>2
    <3>5. Len(s) = l - n
      BY <3>3, <3>4
    <3> QED BY <3>2, <3>5
  <2>4. ASSUME NEW i \in 1 .. Len(win) - n PROVE s[i] = u[i + n]
    <3>1. i \in 1 .. Len(win) - (n + 1) + 1 /\ n + 1 + i - 1 = i + n
      BY <1>1
    <3>2. s[i] = u[n + 1 + i - 1]
      BY <2>2, <3>1
    <3> QED BY <3>1, <3>2
  <2> QED BY <2>2, <2>3, <2>4 DEF s
<1> QED BY <1>3, <1>4, <1>5 DEF St

(* A cycle of the queues keeps one slot for each operation, and what it changes
   of the operations that are in the cache. *)
LEMMA FlowWindow ==
    ASSUME CoreType, NoTwo(win), NEW in, in.req = Request, NEW n \in 0 .. 2,
           NEW news, news \subseteq Allocations, Flow(in, n, news),
           Response(in).rob \notin Taken(in)
    PROVE  win' \in Seq(Entries) /\ NoTwo(win') /\ SentStep(in)
<1>1. /\ Len(win) \in Nat /\ DOMAIN win = 1 .. Len(win) /\ n \in Nat /\ n <= Len(win)
      /\ \A i \in DOMAIN win : win[i] \in Entries
      /\ \A i \in 1 .. n : win[i].st = "done"
  BY DEF CoreType, Flow, MayRetire
<1>2. PICK pop \in {{}, IF drain THEN {} ELSE Oldest("new")}, data \in {{}, DataHead},
           new \in news : win' = SubSeq(Updated(in, pop, data), n + 1, Len(win)) \o new
  BY DEF Flow
<1> DEFINE St(i) == IF win[i].rob = Response(in).rob THEN "done"
                    ELSE IF i \in QueueHead /\ state = "ACTIVE" /\ Accept(in) THEN "sent"
                    ELSE IF i \in pop THEN "queued" ELSE win[i].st
<1>3. PICK u : u = Updated(in, pop, data)
  OBVIOUS
<1>4. PICK left : left = SubSeq(u, n + 1, Len(win))
  OBVIOUS
<1>5. /\ \A i \in DOMAIN win : u[i].rob = win[i].rob /\ u[i].st = St(i)
      /\ left \in Seq(Entries) /\ Len(left) = Len(win) - n
      /\ \A i \in 1 .. Len(win) - n : left[i] = u[i + n]
  <2>1. n \in 0 .. Len(win)
    BY <1>1
  <2> QED BY <1>3, <1>4, <2>1, UpdatedIs
<1>6. \A i \in pop : i \in DOMAIN win /\ win[i].st = "new"
  BY <1>2 DEF Oldest
<1> HIDE DEF St
<1>7. \A i \in 1 .. Len(win) - n :
         /\ i + n \in DOMAIN win /\ left[i].rob = win[i + n].rob /\ left[i].st = St(i + n)
  BY <1>1, <1>5
<1>8. \/ new = <<>>
      \/ \E op \in Ops, rob \in Slots :
            /\ new = <<Entry(op, rob)>>
            /\ \A i \in DOMAIN win : win[i].rob # rob
  BY <1>2 DEF Allocations
<1>9. NoTwo(left)
  <2> SUFFICES ASSUME NEW i \in 1 .. Len(win) - n, NEW j \in 1 .. Len(win) - n,
                      left[i].rob = left[j].rob
               PROVE  i = j
    BY <1>5 DEF NoTwo
  <2>1. i + n \in DOMAIN win /\ j + n \in DOMAIN win /\ win[i + n].rob = win[j + n].rob
    BY <1>7
  <2>2. i + n = j + n
    BY <2>1 DEF NoTwo
  <2> QED BY <1>1, <2>2
<1>10. DOMAIN left = 1 .. Len(win) - n
  BY <1>5
<1>11. /\ win' \in Seq(Entries) /\ NoTwo(win')
       /\ Sent' = {left[i].rob : i \in {j \in DOMAIN left : left[j].st = "sent"}}
  <2>1. win' = left \o new
    BY <1>2, <1>3, <1>4
  <2>2. CASE new = <<>>
    <3>1. win' = left
      BY <1>5, <2>1, <2>2
    <3> QED BY <1>5, <1>9, <3>1 DEF Sent, NoTwo
  <2>3. ASSUME NEW op \in Ops, NEW rob \in Slots, new = <<Entry(op, rob)>>,
               \A i \in DOMAIN win : win[i].rob # rob
        PROVE  /\ win' \in Seq(Entries) /\ NoTwo(win')
               /\ Sent' = {left[i].rob : i \in {j \in DOMAIN left : left[j].st = "sent"}}
    <3> DEFINE e == Entry(op, rob)
    <3>1. e \in Entries /\ e.st = "new" /\ e.rob = rob
      BY DEF Entry, Entries
    <3> HIDE DEF e
    <3>2. win' = left \o <<e>>
      BY <2>1, <2>3 DEF e
    <3>3. /\ win' \in Seq(Entries) /\ DOMAIN win' = 1 .. Len(left) + 1
          /\ win'[Len(left) + 1] = e /\ \A i \in DOMAIN left : win'[i] = left[i]
      BY <1>5, <3>1, <3>2
    <3>4. PICK k \in DOMAIN win' : k = Len(left) + 1
      BY <1>5, <1>10, <3>3
    <3>5. \A i \in DOMAIN win' : i \in DOMAIN left \/ i = k
      BY <1>5, <1>10, <3>3, <3>4
    <3>6. \A i \in DOMAIN left : i \in DOMAIN win' /\ left[i].rob # rob
      <4> SUFFICES ASSUME NEW i \in DOMAIN left
                   PROVE  i \in DOMAIN win' /\ left[i].rob # rob
        OBVIOUS
      <4>1. i \in 1 .. Len(left) /\ Len(left) \in Nat
        BY <1>5
      <4>2. PICK j \in DOMAIN win : j = i + n
        BY <1>7, <1>10
      <4>3. left[i].rob # rob
        BY <1>7, <1>10, <2>3, <4>2
      <4> QED BY <3>3, <4>1, <4>3
    <3>7. NoTwo(win')
      BY <1>9, <3>1, <3>3, <3>4, <3>5, <3>6 DEF NoTwo
    <3>8. Sent' = {left[i].rob : i \in {j \in DOMAIN left : left[j].st = "sent"}}
      BY <3>1, <3>3, <3>4, <3>5, <3>6 DEF Sent
    <3> QED BY <3>3, <3>7, <3>8
  <2> QED BY <1>8, <2>2, <2>3
<1>12. SentStep(in)
  <2> DEFINE acc == state = "ACTIVE" /\ Accept(in)
  <2>1. acc => in.req # NoReq
    BY DEF Accept
  <2> HIDE DEF acc
  <2>2. ASSUME NEW s \in Sent' PROVE s \in (Sent \ {Response(in).rob}) \cup Taken(in)
    <3>1. PICK i \in 1 .. Len(win) - n : left[i].st = "sent" /\ left[i].rob = s
      BY <1>10, <1>11, <2>2
    <3>2. PICK k \in DOMAIN win : k = i + n
      BY <1>7
    <3>3. St(k) = "sent" /\ win[k].rob = s
      BY <1>7, <3>1, <3>2
    <3>4. s # Response(in).rob /\ ((k \in QueueHead /\ acc) \/ win[k].st = "sent")
      BY <3>3 DEF St, acc
    <3>5. CASE k \in QueueHead /\ acc
      BY <2>1, <3>3, <3>5, RequestIs DEF Taken, acc
    <3>6. CASE win[k].st = "sent"
      BY <3>3, <3>4, <3>6 DEF Sent
    <3> QED BY <3>4, <3>5, <3>6
  <2>3. ASSUME NEW k \in DOMAIN win, St(k) = "sent", win[k].st # "done"
        PROVE  win[k].rob \in Sent'
    <3>1. k > n
      BY <1>1, <2>3
    <3>2. PICK i \in 1 .. Len(win) - n : k = i + n
      <4>1. k - n \in 1 .. Len(win) - n /\ k = (k - n) + n
        BY <1>1, <3>1
      <4> QED BY <4>1
    <3>3. left[i].rob = win[k].rob /\ left[i].st = "sent"
      BY <1>7, <2>3, <3>2
    <3> QED BY <1>10, <1>11, <3>3
  <2>4. ASSUME NEW s \in Sent, s # Response(in).rob PROVE s \in Sent'
    <3>1. PICK k \in DOMAIN win : win[k].st = "sent" /\ win[k].rob = s
      BY DEF Sent
    <3>2. St(k) = "sent"
      BY <1>6, <2>4, <3>1 DEF St
    <3> QED BY <2>3, <3>1, <3>2
  <2>5. ASSUME acc PROVE in.req.rob \in Sent'
    <3>1. PICK k \in DOMAIN win : /\ QueueHead = {k} /\ win[k].st = "queued"
                                  /\ in.req.rob = win[k].rob
      BY <2>1, <2>5, RequestIs
    <3>2. St(k) = "sent"
      BY <2>5, <3>1 DEF St, acc, Taken
    <3> QED BY <2>3, <3>1, <3>2
  <2> QED BY <2>2, <2>4, <2>5 DEF SentStep, Taken, acc
<1> QED BY <1>11, <1>12

(* A cycle in which nothing retires and nothing is allocated. *)
LEMMA FlowNothing ==
    ASSUME CoreType, NEW in, Flow(in, 0, {<<>>})
    PROVE  /\ win = <<>> => win' = <<>>
           /\ NoneInFlight => \A i \in DOMAIN win' : win'[i].st \in {"new", "done"}
<1>1. PICK n \in Nat : n = 0
  OBVIOUS
<1>2. PICK pop \in {{}, IF drain THEN {} ELSE Oldest("new")}, data \in {{}, DataHead} :
         win' = SubSeq(Updated(in, pop, data), n + 1, Len(win)) \o <<>>
  BY <1>1 DEF Flow
<1>3. PICK u : u = Updated(in, pop, data)
  OBVIOUS
<1>4. PICK left : left = SubSeq(u, n + 1, Len(win))
  OBVIOUS
<1>5. Len(win) \in Nat /\ DOMAIN win = 1 .. Len(win) /\ n \in 0 .. Len(win)
  BY <1>1 DEF CoreType
<1>6. /\ \A i \in DOMAIN win :
            u[i].rob = win[i].rob /\
            u[i].st = IF win[i].rob = Response(in).rob THEN "done"
                      ELSE IF i \in QueueHead /\ state = "ACTIVE" /\ Accept(in) THEN "sent"
                      ELSE IF i \in pop THEN "queued" ELSE win[i].st
      /\ left \in Seq(Entries) /\ Len(left) = Len(win) - n
      /\ \A i \in 1 .. Len(win) - n : left[i] = u[i + n]
  <2>1. n \in 0 .. Len(win)
    BY <1>5
  <2> QED BY <1>3, <1>4, <2>1, UpdatedIs
<1>7. win' = left
  BY <1>2, <1>3, <1>6, <1>4
<1>8. win = <<>> => win' = <<>>
  BY <1>1, <1>5, <1>6, <1>7
<1>9. ASSUME NoneInFlight, NEW i \in DOMAIN win' PROVE win'[i].st \in {"new", "done"}
  <2>1. i \in DOMAIN win /\ win'[i] = u[i]
    BY <1>1, <1>5, <1>6, <1>7
  <2>2. win[i].st = "done" \/ (drain /\ win[i].st = "new")
    BY <1>9, <2>1 DEF NoneInFlight
  <2>3. i \notin QueueHead /\ i \notin pop
    BY <1>2, <2>2 DEF QueueHead, Oldest
  <2> QED BY <1>6, <2>1, <2>2, <2>3
<1> QED BY <1>8, <1>9

(* Whatever the core does, its window keeps its invariant. *)
LEMMA CoreWindowStep ==
    ASSUME CoreType, WindowInv, NEW in, in.req = Request, CoreStep(in),
           Response(in).rob \notin Taken(in)
    PROVE  /\ win' \in Seq(Entries) /\ WindowInv' /\ SentStep(in)
           /\ core' \in CoreStates /\ flush' \in BOOLEAN /\ dsDone' \in BOOLEAN
<1>1. /\ win \in Seq(Entries) /\ NoTwo(win) /\ core \in CoreStates
      /\ flush \in BOOLEAN /\ dsDone \in BOOLEAN
      /\ core \in {"MONITOR_FLUSH_CACHE", "FLUSH_FOR_HALT", "HALT"} => win = <<>>
      /\ core = "RAT" => \A i \in DOMAIN win : win[i].st \in {"new", "done"}
  BY DEF CoreType, WindowInv
<1>2. {<<>>} \subseteq Allocations
  BY DEF Allocations
<1>3. ASSUME Flow(in, 0, {<<>>})
      PROVE  win' \in Seq(Entries) /\ NoTwo(win') /\ SentStep(in)
  <2>1. 0 \in 0 .. 2
    OBVIOUS
  <2> QED BY <1>1, <1>2, <1>3, <2>1, FlowWindow
<1>4. ASSUME win' = <<>>
      PROVE  win' \in Seq(Entries) /\ NoTwo(win') /\ Sent' = {}
  BY <1>4 DEF NoTwo, Sent
<1>5. ASSUME QueueHead = {} PROVE Taken(in) = {}
  BY <1>5, RequestIs DEF Taken, Accept
<1>6. CASE Run(in)
  <2>1. PICK n \in 0 .. 2 : Flow(in, n, Allocations)
    BY <1>6 DEF Run
  <2>2. win' \in Seq(Entries) /\ NoTwo(win') /\ SentStep(in)
    BY <1>1, <2>1, FlowWindow
  <2> QED BY <1>1, <1>6, <2>2 DEF Run, WindowInv, NoTwo
<1>7. CASE Restart(in)
  BY <1>1, <1>3, <1>7 DEF Restart, WindowInv, CoreStates, NoTwo
<1>8. CASE Drain(in)
  <2>1. core' = "RAT" => NoneInFlight
    BY <1>8 DEF Drain
  <2>2. core' = "RAT" => \A i \in DOMAIN win' : win'[i].st \in {"new", "done"}
    BY <1>8, <2>1, FlowNothing DEF Drain
  <2> QED BY <1>1, <1>3, <1>8, <2>2 DEF Drain, WindowInv, CoreStates, NoTwo
<1>9. ASSUME NEW ack \in BOOLEAN, Rat(in, ack)
      PROVE  /\ win' \in Seq(Entries) /\ WindowInv' /\ SentStep(in)
             /\ core' \in CoreStates /\ flush' \in BOOLEAN /\ dsDone' \in BOOLEAN
  <2>1. win' = <<>> /\ core = "RAT"
    BY <1>9 DEF Rat
  <2>2. \A i \in DOMAIN win : win[i].st \in {"new", "done"}
    BY <1>1, <2>1
  <2>3. Sent = {} /\ QueueHead = {}
    BY <2>2 DEF Sent, QueueHead, Oldest
  <2>4. SentStep(in)
    BY <1>4, <1>5, <2>1, <2>3 DEF SentStep
  <2>5. core' \in CoreStates /\ flush' \in BOOLEAN /\ dsDone' \in BOOLEAN
    BY <1>1, <1>9 DEF Rat, CoreStates
  <2>6. win' \in Seq(Entries) /\ WindowInv'
    BY <1>4, <2>1 DEF WindowInv
  <2> QED BY <2>4, <2>5, <2>6
<1>10. CASE Monitor(in)
  <2>1. win' = <<>> /\ win = <<>>
    BY <1>10 DEF Monitor
  <2>2. Sent = {} /\ QueueHead = {}
    BY <2>1 DEF Sent, QueueHead, Oldest
  <2>3. SentStep(in)
    BY <1>4, <1>5, <2>1, <2>2 DEF SentStep
  <2>4. core' \in CoreStates /\ flush' \in BOOLEAN /\ dsDone' \in BOOLEAN /\ core' # "RAT"
    BY <1>1, <1>10 DEF Monitor, CoreStates
  <2>5. win' \in Seq(Entries) /\ WindowInv'
    BY <1>4, <2>1, <2>4 DEF WindowInv
  <2> QED BY <2>3, <2>4, <2>5
<1>11. CASE MonitorFlush(in)
  <2>1. win' = <<>>
    BY <1>1, <1>11, FlowNothing DEF MonitorFlush
  <2> QED BY <1>1, <1>3, <1>11, <2>1 DEF MonitorFlush, WindowInv, CoreStates, NoTwo
<1>12. CASE FlushForHalt(in)
  <2>1. win' = <<>>
    BY <1>1, <1>12, FlowNothing DEF FlushForHalt
  <2> QED BY <1>1, <1>3, <1>12, <2>1 DEF FlushForHalt, WindowInv, CoreStates, NoTwo
<1>13. CASE Halt(in)
  <2>1. win' = <<>>
    BY <1>1, <1>13, FlowNothing DEF Halt
  <2> QED BY <1>1, <1>3, <1>13, <2>1 DEF Halt, WindowInv, CoreStates, NoTwo
<1> QED BY <1>6, <1>7, <1>8, <1>9, <1>10, <1>11, <1>12, <1>13 DEF CoreStep
-----------------------------------------------------------------------------
(***************************************************************************)
(* The data cache.  A cycle of it answers a request that it holds, holds   *)
(* the one that it takes, and counts both.                                 *)
(***************************************************************************)
\* What the cache may rely on: a request of an operation that it does not hold,
\* an answer only to what it has asked, a flush only when no load is held.
Fits(in) ==
    /\ in.req \in Reqs \cup {NoReq}
    /\ in.req # NoReq => in.req.rob \notin HeldLoads
    /\ in.rsp \in BOOLEAN /\ in.flush \in BOOLEAN
    /\ in.rsp => memReq.valid
    /\ flushReq => HeldLoads = {}
CacheInv == CacheType /\ SlotsInv /\ MarksInv /\ StateInv

HeldStep(in) ==
    /\ HeldLoads' = (HeldLoads \ {Response(in).rob}) \cup Taken(in)
    /\ Response(in).rob # NoRob => Response(in).rob \in HeldLoads
    /\ nInflight' = nInflight + (IF Taken(in) # {} THEN 1 ELSE 0)
                              - (IF Response(in).rob # NoRob THEN 1 ELSE 0)
\* A cache that is found empty, and one that is left alone, is empty afterwards.
EmptyStep(in) ==
    memqEmpty' \/ (mq = <<>> /\ ~On2 /\ in.req = NoReq) => (mq = <<>> /\ ~On2)'
Good(in) == CacheInv' /\ HeldStep(in) /\ EmptyStep(in)

(* What is answered, and by which port (n_core_mem_rsp). *)
LEMMA ResponseIs ==
    ASSUME NEW in
    PROVE  /\ state = "ACTIVE" /\ LoadHit => Response(in).rob = p1.req.rob
           /\ state = "ACTIVE" /\ ~LoadHit /\ Answer2(in) => Response(in).rob = p2.req.rob
           /\ state = "INJECT_RELOAD" /\ AnsweredEarly(in) => Response(in).rob = p1.req.rob
           /\ ~(\/ state = "ACTIVE" /\ (LoadHit \/ Answer2(in))
                \/ state = "INJECT_RELOAD" /\ AnsweredEarly(in)) => Response(in).rob = NoRob
<1>1. ~(state = "ACTIVE" /\ state = "INJECT_RELOAD")
  OBVIOUS
<1> QED BY <1>1 DEF Response, NoRsp, AnsweredEarly

(* The marks of a cycle in which nothing is queued or performed. *)
LEMMA GraduatesOnly ==
    ASSUME grad \in [Slots -> 0 .. 2], NEW in, Graduates(in, {}, {}, {})
    PROVE  /\ grad' \in [Slots -> 0 .. 2]
           /\ \A s \in Slots : /\ grad'[s] # 0 <=> grad[s] # 0
                               /\ grad[s] = 2 => grad'[s] = 2
<1>1. grad' = [s \in Slots |-> IF s \in in.retired /\ grad[s] = 1 THEN 2 ELSE grad[s]]
  BY DEF Graduates
<1>2. \A s \in Slots : grad[s] \in 0 .. 2
  OBVIOUS
<1> QED BY <1>1, <1>2

(* The cache while it is initialized or flushed: there is no request in it. *)
LEMMA IdleStep ==
    ASSUME CacheInv, nInflight \in Nat, state \notin Missing \cup {"ACTIVE"},
           NEW in, Fits(in), NEW next, Paused(in, next),
           next = NoP1 \/ \E s : next = Read(s),
           state' \in States \ Missing, lock' = lock, early' = FALSE, inhibit' \in BOOLEAN,
           flushDone' \in BOOLEAN, nInflight' = nInflight,
           memReq'.valid <=> (state \in Waiting)', ~memReq'.valid => memReq' = NoMem
    PROVE  Good(in)
<1>1. /\ state \in Starting \cup Flushing /\ mq = <<>> /\ p1.req = NoReq /\ ~On2
      /\ lock = FALSE /\ lock \in BOOLEAN /\ slotBusy \subseteq Slots /\ flushReq \in BOOLEAN
  BY DEF CacheInv, CacheType, StateInv, States, Starting, Flushing, Missing
<1>2. /\ next.req = NoReq /\ next.on = FALSE /\ next.retry = FALSE /\ next.reload = FALSE
      /\ next = [on |-> next.on, req |-> next.req, val |-> next.val, retry |-> next.retry,
                 reload |-> next.reload, busy |-> next.busy, out |-> next.out]
  <2>1. CASE next = NoP1
    BY <2>1 DEF NoP1
  <2>2. ASSUME NEW s, next = Read(s)
        PROVE  next = [on |-> FALSE, req |-> NoReq, val |-> NoP1.val, retry |-> FALSE,
                       reload |-> FALSE, busy |-> FALSE, out |-> arr[s]]
    BY <2>2 DEF NoP1, Read
  <2>3. ASSUME NEW v, NEW o,
               next = [on |-> FALSE, req |-> NoReq, val |-> v, retry |-> FALSE,
                       reload |-> FALSE, busy |-> FALSE, out |-> o]
        PROVE  /\ next.req = NoReq /\ next.on = FALSE /\ next.retry = FALSE /\ next.reload = FALSE
               /\ next = [on |-> next.on, req |-> next.req, val |-> next.val, retry |-> next.retry,
                          reload |-> next.reload, busy |-> next.busy, out |-> next.out]
    BY <2>3
  <2> QED BY <2>1, <2>2, <2>3
<1>3. /\ p1' = next /\ p2' = NoP2 /\ mq' = <<>> /\ slotBusy' = slotBusy
      /\ flushReq' = (flushReq \/ in.flush) /\ Graduates(in, {}, {}, {})
      /\ memqEmpty' \in BOOLEAN
  BY <1>1 DEF Paused, Empties
<1>4. NoP2.req = NoReq
  BY DEF NoP2
<1>5. p1'.req = NoReq /\ p1'.on = FALSE /\ ~On2'
  BY <1>2, <1>3, <1>4 DEF On2
<1>6. grad \in [Slots -> 0 .. 2]
  BY DEF CacheInv, CacheType
<1>7. CacheType'
  <2>1. p1' = [on |-> p1'.on, req |-> p1'.req, val |-> p1'.val, retry |-> p1'.retry,
               reload |-> p1'.reload, busy |-> p1'.busy, out |-> p1'.out]
    BY <1>2, <1>3
  <2>2. p2'.req = NoReq
    BY <1>3, <1>4
  <2>3. grad' \in [Slots -> 0 .. 2]
    BY <1>3, <1>6, GraduatesOnly
  <2>6. state' \in States /\ mq' \in Seq(Reqs)
    BY <1>3
  <2>4. /\ p1'.on \in BOOLEAN /\ p1'.retry \in BOOLEAN /\ p1'.reload \in BOOLEAN
        /\ p1'.req \in Reqs \cup {NoReq} /\ p2'.req \in Reqs \cup {NoReq}
    BY <1>2, <1>3, <2>2
  <2>5. /\ early' \in BOOLEAN /\ lock' \in BOOLEAN /\ inhibit' \in BOOLEAN
        /\ slotBusy' \subseteq Slots /\ memqEmpty' \in BOOLEAN
        /\ flushReq' \in BOOLEAN /\ flushDone' \in BOOLEAN
    BY <1>1, <1>3 DEF Fits
  <2> QED BY <2>1, <2>3, <2>4, <2>5, <2>6 DEF CacheType
<1>8. ~Pending1 /\ ~Store1 /\ ~Pending1' /\ ~Store1'
  BY <1>1, <1>5 DEF Pending1, Store1
<1>9. SlotsInv'
  BY <1>1, <1>3, <1>5, <1>8 DEF CacheInv, SlotsInv, AllRobs, NoTwo
<1>10. MarksInv'
  <2>1. \A s \in Slots : grad'[s] # 0 <=> grad[s] # 0
    BY <1>3, <1>6, GraduatesOnly
  <2> QED BY <1>1, <1>3, <1>8, <2>1 DEF CacheInv, MarksInv
<1>11. StateInv'
  <2>1. state' \notin Missing /\ ~lock' /\ ~early'
    BY <1>1
  <2>2. ~(state' = "INJECT_RELOAD") /\ ~(state' = "HANDLE_RELOAD")
    BY <2>1 DEF Missing
  <2> QED BY <1>3, <1>5, <2>1, <2>2 DEF StateInv
<1>12. HeldStep(in)
  <2>1. Response(in).rob = NoRob /\ Taken(in) = {}
    BY <1>1, ResponseIs DEF Taken, Starting, Flushing, Missing
  <2>2. HeldLoads = {} /\ HeldLoads' = {}
    BY <1>1, <1>3, <1>5, <1>8 DEF HeldLoads
  <2>3. nInflight' = nInflight + 0 - 0
    OBVIOUS
  <2> QED BY <2>1, <2>2, <2>3 DEF HeldStep
<1>13. EmptyStep(in)
  BY <1>3, <1>5 DEF EmptyStep
<1> QED BY <1>7, <1>9, <1>10, <1>11, <1>12, <1>13 DEF Good, CacheInv

(* The cache is initialized and flushed set by set, with nothing else in it. *)
LEMMA IdleStates ==
    ASSUME CacheInv, nInflight \in Nat, NEW in, Fits(in),
           Initialize(in) \/ InitCache(in) \/ FlushCache(in) \/ FlushCacheWait(in)
    PROVE  Good(in)
<1>1. /\ lock \in BOOLEAN /\ inhibit \in BOOLEAN /\ early \in BOOLEAN /\ flushDone \in BOOLEAN
      /\ memReq.valid <=> state \in Waiting
      /\ ~memReq.valid => memReq = NoMem
      /\ early => state = "HANDLE_RELOAD"
  BY DEF CacheInv, CacheType, StateInv
<1>2. NoMem.valid = FALSE /\ (in.rsp => memReq.valid)
  BY DEF NoMem, Fits
<1>3. CASE Initialize(in)
  <2>1. /\ state = "INITIALIZE" /\ state' = "INIT_CACHE" /\ Paused(in, NoP1)
        /\ Asks(in, NoMem) /\ lock' = lock /\ early' = FALSE /\ inhibit' = inhibit
        /\ flushDone' = flushDone /\ nInflight' = nInflight
    BY <1>1, <1>3 DEF Initialize
  <2>2. memReq' = NoMem
    BY <1>1, <1>2, <2>1 DEF Asks, Waiting
  <2>3. memReq'.valid <=> (state \in Waiting)'
    BY <1>2, <2>1, <2>2 DEF Waiting
  <2> QED BY <1>1, <2>1, <2>2, <2>3, IdleStep DEF States, Missing
<1>4. CASE InitCache(in)
  <2>1. /\ state = "INIT_CACHE" /\ state' \in {"INIT_CACHE", "ACTIVE"} /\ Paused(in, NoP1)
        /\ Asks(in, NoMem) /\ lock' = lock /\ early' = FALSE /\ inhibit' = inhibit
        /\ flushDone' \in BOOLEAN /\ nInflight' = nInflight
    BY <1>1, <1>4 DEF InitCache
  <2>2. memReq' = NoMem
    BY <1>1, <1>2, <2>1 DEF Asks, Waiting
  <2>3. memReq'.valid <=> (state \in Waiting)'
    BY <1>2, <2>1, <2>2 DEF Waiting
  <2> QED BY <1>1, <2>1, <2>2, <2>3, IdleStep DEF States, Missing
<1>5. CASE FlushCache(in)
  <2> DEFINE next == IF state' = "ACTIVE" THEN NoP1 ELSE Read(flushIdx')
  <2>1. /\ state = "FLUSH_CACHE" /\ Paused(in, next)
        /\ state' \in {"FLUSH_CACHE", "FLUSH_CACHE_WAIT", "FLUSH_CACHE_LAST_WAIT", "ACTIVE"}
        /\ lock' = lock /\ early' = FALSE /\ inhibit' \in BOOLEAN /\ flushDone' \in BOOLEAN
    BY <1>1, <1>5 DEF FlushCache
  <2>2. next = NoP1 \/ \E s : next = Read(s)
    OBVIOUS
  <2>3. nInflight' = nInflight
    <3>1. nInflight' = nInflight + 0 - 0
      BY <1>5 DEF FlushCache, Counts
    <3> QED BY <3>1
  <2>4. memReq = NoMem /\ ~in.rsp
    BY <1>1, <1>2, <2>1 DEF Waiting
  <2>5. (memReq'.valid <=> (state \in Waiting)') /\ (~memReq'.valid => memReq' = NoMem)
    <3> DEFINE new == [store |-> TRUE, set |-> flushIdx, tag |-> p1.out.tag,
                       data |-> p1.out.data, valid |-> TRUE]
    <3>1. new.valid = TRUE
      OBVIOUS
    <3>2. Asks(in, IF p1.out.dirty THEN new ELSE NoMem)
      BY <1>5 DEF FlushCache
    <3> HIDE DEF new
    <3>3. CASE p1.out.dirty
      <4>1. memReq' = new
        BY <1>2, <3>1, <3>2, <3>3 DEF Asks
      <4>2. state' \in Waiting
        BY <1>5, <3>3 DEF FlushCache, Waiting
      <4> QED BY <3>1, <4>1, <4>2
    <3>4. CASE ~p1.out.dirty
      <4>1. memReq' = NoMem
        BY <2>4, <3>2, <3>4 DEF Asks
      <4>2. state' \notin Waiting
        BY <1>5, <3>4 DEF FlushCache, Waiting
      <4> QED BY <1>2, <4>1, <4>2
    <3> QED BY <3>3, <3>4
  <2> HIDE DEF next
  <2>6. state \notin Missing \cup {"ACTIVE"} /\ state' \in States \ Missing
    BY <2>1 DEF States, Missing
  <2> QED BY <2>1, <2>2, <2>3, <2>5, <2>6, IdleStep
<1>6. CASE FlushCacheWait(in)
  <2> DEFINE next == IF state' = "ACTIVE" THEN NoP1 ELSE Read(flushIdx)
  <2>1. /\ state \in {"FLUSH_CACHE_WAIT", "FLUSH_CACHE_LAST_WAIT"} /\ Paused(in, next)
        /\ state' = IF ~in.rsp THEN state
                    ELSE IF state = "FLUSH_CACHE_LAST_WAIT" THEN "ACTIVE" ELSE "FLUSH_CACHE"
        /\ Asks(in, NoMem)
        /\ lock' = lock /\ early' = FALSE /\ inhibit' \in BOOLEAN /\ flushDone' \in BOOLEAN
    BY <1>1, <1>6 DEF FlushCacheWait, Fits
  <2>2. next = NoP1 \/ \E s : next = Read(s)
    OBVIOUS
  <2>3. nInflight' = nInflight
    <3>1. nInflight' = nInflight + 0 - 0
      BY <1>6 DEF FlushCacheWait, Counts
    <3> QED BY <3>1
  <2>4. memReq' = IF in.rsp THEN NoMem ELSE memReq
    BY <2>1 DEF Asks
  <2>5. (memReq'.valid <=> (state \in Waiting)') /\ (~memReq'.valid => memReq' = NoMem)
    BY <1>1, <1>2, <2>1, <2>4 DEF Waiting
  <2> HIDE DEF next
  <2>6. state \notin Missing \cup {"ACTIVE"} /\ state' \in States \ Missing
    BY <2>1 DEF States, Missing
  <2> QED BY <2>1, <2>2, <2>3, <2>5, <2>6, IdleStep
<1> QED BY <1>3, <1>4, <1>5, <1>6

(* The line that a miss waits for comes; a load is answered with it at once unless
   it is the victim that has been written back (INJECT_RELOAD). *)
LEMMA InjectReloadStep ==
    ASSUME CacheInv, nInflight \in Nat, NEW in, Fits(in), InjectReload(in)
    PROVE  Good(in)
<1>1. /\ state = "INJECT_RELOAD" /\ mq \in Seq(Reqs) /\ p1.req \in Reqs /\ p1.on = FALSE /\ ~On2
      /\ lock \in BOOLEAN /\ lock = inhibit /\ early = FALSE /\ memReq.valid
      /\ memReq.set = Op1.set /\ (~lock => memReq.tag = Op1.tag)
      /\ grad \in [Slots -> 0 .. 2] /\ slotBusy \subseteq Slots
      /\ flushReq \in BOOLEAN
  <2>1. state = "INJECT_RELOAD" /\ state \in Missing /\ state \in Waiting
    BY DEF InjectReload, Missing, Waiting
  <2>2. CacheType /\ StateInv /\ early \in BOOLEAN
    BY DEF CacheInv, CacheType
  <2>3. ~early
    BY <2>1, <2>2 DEF StateInv
  <2> QED BY <2>1, <2>2, <2>3 DEF CacheType, StateInv
<1>2. /\ p1.req.rob \in Slots /\ Op1.store \in BOOLEAN /\ Op1.set \in Sets /\ p1.req # NoReq
      /\ p1.req.rob # NoRob
  BY <1>1, ReqFields DEF Op1
<1>3. in.rsp \in BOOLEAN /\ in.flush \in BOOLEAN
  BY DEF Fits
<1>4. /\ state' = IF in.rsp THEN "HANDLE_RELOAD" ELSE "INJECT_RELOAD"
      /\ p1' = p1 /\ p2' = NoP2 /\ mq' = mq /\ lock' = lock
      /\ inhibit' = (inhibit /\ ~in.rsp) /\ early' = AnsweredEarly(in)
      /\ slotBusy' = slotBusy \ (IF AnsweredEarly(in) THEN {p1.req.rob} ELSE {})
      /\ Graduates(in, {}, {}, {}) /\ flushReq' = (flushReq \/ in.flush) /\ flushDone' = FALSE
      /\ Arrays(in, {}, FALSE) /\ Asks(in, NoMem)
      /\ Empties(in, FALSE, FALSE, FALSE)
      /\ nInflight' = nInflight + 0 - (IF AnsweredEarly(in) THEN 1 ELSE 0)
  BY <1>1 DEF InjectReload, Counts
<1>5. ~On2' /\ Op1' = Op1
  BY <1>4 DEF On2, NoP2, Op1
<1>6. AnsweredEarly(in) <=> in.rsp /\ ~Op1.store /\ ~lock
  BY DEF AnsweredEarly
<1>7. CacheType'
  <2>1. p1 = [on |-> p1.on, req |-> p1.req, val |-> p1.val, retry |-> p1.retry,
              reload |-> p1.reload, busy |-> p1.busy, out |-> p1.out]
        /\ p1.retry \in BOOLEAN /\ p1.reload \in BOOLEAN
    BY DEF CacheInv, CacheType
  <2>2. grad' \in [Slots -> 0 .. 2]
    BY <1>1, <1>4, GraduatesOnly
  <2>3. state' \in States /\ p2'.req \in Reqs \cup {NoReq} /\ memqEmpty' \in BOOLEAN
    BY <1>4 DEF States, NoP2, Empties
  <2>4. early' \in BOOLEAN
    BY <1>4 DEF AnsweredEarly
  <2>5. inhibit' \in BOOLEAN /\ slotBusy' \subseteq Slots
    BY <1>1, <1>4
  <2> QED BY <1>1, <1>3, <1>4, <2>1, <2>2, <2>3, <2>4, <2>5 DEF CacheType
<1>8. Pending1 /\ (Pending1' <=> ~AnsweredEarly(in))
  BY <1>1, <1>2, <1>4, <1>6 DEF Pending1
<1>9. SlotsInv'
  <2>1. /\ NoTwo(mq) /\ slotBusy = AllRobs(mq) \cup {p1.req.rob}
        /\ p1.req.rob \notin AllRobs(mq)
    BY <1>8 DEF CacheInv, SlotsInv
  <2>2. slotBusy' = AllRobs(mq) \cup (IF Pending1' THEN {p1.req.rob} ELSE {})
    BY <1>4, <1>8, <2>1
  <2> QED BY <1>4, <1>5, <2>1, <2>2 DEF SlotsInv
<1>10. MarksInv'
  <2>1. \A s \in Slots : /\ grad'[s] # 0 <=> grad[s] # 0
                         /\ grad[s] = 2 => grad'[s] = 2
    BY <1>1, <1>4, GraduatesOnly
  <2>2. Store1' <=> Store1
    BY <1>4, <1>5 DEF Store1
  <2> QED BY <1>2, <1>4, <2>1, <2>2 DEF CacheInv, MarksInv
<1>11. StateInv'
  <2>1. memReq' = IF in.rsp THEN NoMem ELSE memReq
    BY <1>4 DEF Asks
  <2>2. (memReq'.valid <=> (state \in Waiting)') /\ (~memReq'.valid => memReq' = NoMem)
    BY <1>1, <1>4, <2>1 DEF Waiting, NoMem
  <2>3. state' = "INJECT_RELOAD" => memReq' = memReq /\ inhibit' = inhibit /\ ~early'
    BY <1>3, <1>4, <1>6, <2>1, <1>1 DEF CacheInv, CacheType
  <2>4. ASSUME state' = "HANDLE_RELOAD"
        PROVE  /\ early' <=> ~lock' /\ ~Op1.store
               /\ IF lock' THEN ~arr'[Op1.set].valid
                  ELSE arr'[Op1.set].valid /\ arr'[Op1.set].tag = Op1.tag
    <3>1. in.rsp
      BY <1>4, <2>4
    <3>2. arr'[Op1.set] = IF inhibit THEN NoLine
                          ELSE [valid |-> TRUE, dirty |-> FALSE, tag |-> memReq.tag, data |-> in.line]
      BY <1>1, <1>2, <1>4, <3>1 DEF Arrays
    <3>3. NoLine.valid = FALSE
      BY DEF NoLine
    <3>4. CASE lock
      BY <1>1, <1>4, <1>6, <3>1, <3>2, <3>3, <3>4
    <3>5. CASE ~lock
      <4>1. arr'[Op1.set].valid = TRUE /\ arr'[Op1.set].tag = memReq.tag
        BY <1>1, <3>2, <3>5
      <4> QED BY <1>1, <1>4, <1>6, <3>1, <3>5, <4>1
    <3> QED BY <3>4, <3>5
  <2>5. state' \in Missing /\ state' \notin Starting \cup Flushing
    BY <1>4 DEF Missing, Starting, Flushing
  <2>6. early' => state' = "HANDLE_RELOAD"
    BY <1>4, <1>6
  <2> QED BY <1>1, <1>2, <1>4, <1>5, <2>2, <2>3, <2>4, <2>5, <2>6 DEF StateInv
<1>12. HeldStep(in)
  <2>1. Response(in).rob = (IF AnsweredEarly(in) THEN p1.req.rob ELSE NoRob)
    BY <1>1, ResponseIs
  <2>2. Taken(in) = {}
    BY <1>1 DEF Taken
  <2> DEFINE queued == {mq[i].rob : i \in {j \in DOMAIN mq : ~mq[j].op.store}}
  <2>3. HeldLoads = queued \cup (IF ~Op1.store THEN {p1.req.rob} ELSE {})
    BY <1>1, <1>8 DEF HeldLoads
  <2>4. HeldLoads' = queued \cup (IF ~AnsweredEarly(in) /\ ~Op1.store THEN {p1.req.rob} ELSE {})
    BY <1>4, <1>5, <1>8 DEF HeldLoads
  <2>5. queued \subseteq Slots /\ p1.req.rob \notin queued
    <3>1. p1.req.rob \notin AllRobs(mq) /\ AllRobs(mq) \subseteq Slots
      BY <1>1, <1>8 DEF CacheInv, SlotsInv
    <3> QED BY <3>1 DEF AllRobs
  <2>6. NoRob \notin queued /\ NoRob # p1.req.rob
    BY <1>2, <2>5, L1DAssumption
  <2> HIDE DEF queued
  <2>7. HeldLoads' = (HeldLoads \ {Response(in).rob}) \cup Taken(in)
    BY <1>6, <2>1, <2>2, <2>3, <2>4, <2>5, <2>6
  <2>8. Response(in).rob # NoRob => Response(in).rob \in HeldLoads
    BY <1>6, <2>1, <2>3
  <2>9. nInflight' = nInflight + 0 - (IF Response(in).rob # NoRob THEN 1 ELSE 0)
    BY <1>2, <1>4, <2>1
  <2> QED BY <2>2, <2>7, <2>8, <2>9 DEF HeldStep
<1>13. EmptyStep(in)
  BY <1>4, <1>5 DEF EmptyStep, Empties
<1> QED BY <1>7, <1>9, <1>10, <1>11, <1>12, <1>13 DEF Good, CacheInv

(* The request is decided again, unless it was a load that has been answered
   (HANDLE_RELOAD). *)
LEMMA HandleReloadStep ==
    ASSUME CacheInv, nInflight \in Nat, NEW in, Fits(in), HandleReload(in)
    PROVE  Good(in)
<1>1. /\ state = "HANDLE_RELOAD" /\ mq \in Seq(Reqs) /\ p1.req \in Reqs /\ p1.on = FALSE /\ ~On2
      /\ lock \in BOOLEAN /\ inhibit \in BOOLEAN /\ early \in BOOLEAN
      /\ early <=> ~lock /\ ~Op1.store
      /\ IF lock THEN ~arr[Op1.set].valid
         ELSE arr[Op1.set].valid /\ arr[Op1.set].tag = Op1.tag
      /\ grad \in [Slots -> 0 .. 2] /\ slotBusy \subseteq Slots
      /\ flushReq \in BOOLEAN /\ ~memReq.valid /\ memReq = NoMem
  BY DEF HandleReload, CacheInv, CacheType, StateInv, Missing, Waiting
<1>2. /\ p1.req.rob \in Slots /\ Op1.store \in BOOLEAN /\ Op1.set \in Sets /\ p1.req # NoReq
      /\ p1.req.rob # NoRob
  BY <1>1, ReqFields DEF Op1
<1>3. in.flush \in BOOLEAN /\ in.rsp = FALSE
  BY <1>1 DEF Fits
<1> DEFINE again == [p1 EXCEPT !.on = TRUE, !.reload = TRUE, !.retry = FALSE,
                               !.out = arr[Op1.set],
                               !.busy = \E q \in Queued : q.op.set = Op1.set]
           next == IF p1.req.op.store \/ ~early THEN again ELSE NoP1
<1>4. /\ state' = "ACTIVE" /\ Paused(in, next) /\ Arrays(in, {}, FALSE) /\ Asks(in, NoMem)
      /\ nInflight' = nInflight + 0 - 0 /\ early' = FALSE /\ flushDone' = FALSE
      /\ lock' = lock /\ inhibit' = inhibit
  BY DEF HandleReload, Counts
<1>5. p1' = next /\ p2' = NoP2 /\ mq' = mq /\ slotBusy' = slotBusy
      /\ Graduates(in, {}, {}, {}) /\ flushReq' = (flushReq \/ in.flush)
      /\ memqEmpty' \in BOOLEAN /\ (memqEmpty' => mq = <<>>)
  BY <1>4 DEF Paused, Empties
<1>6. ~On2'
  BY <1>5 DEF On2, NoP2
<1>7. memReq' = NoMem /\ NoMem.valid = FALSE
  BY <1>3, <1>1, <1>4 DEF Asks, NoMem
<1>8. arr'[Op1.set] = arr[Op1.set]
  BY <1>2, <1>3, <1>4 DEF Arrays
<1>9. p1' = [on |-> p1'.on, req |-> p1'.req, val |-> p1'.val, retry |-> p1'.retry,
             reload |-> p1'.reload, busy |-> p1'.busy, out |-> p1'.out]
      /\ p1'.retry = FALSE
      /\ IF early THEN p1'.on = FALSE /\ p1'.req = NoReq /\ p1'.reload = FALSE
         ELSE /\ p1'.on = TRUE /\ p1'.req = p1.req /\ p1'.reload = TRUE
              /\ p1'.out = arr[Op1.set]
  <2>1. p1 = [on |-> p1.on, req |-> p1.req, val |-> p1.val, retry |-> p1.retry,
              reload |-> p1.reload, busy |-> p1.busy, out |-> p1.out]
    BY DEF CacheInv, CacheType
  <2>2. CASE early
    <3>1. p1' = NoP1
      BY <1>1, <1>5, <2>2 DEF Op1
    <3> QED BY <2>2, <3>1 DEF NoP1
  <2>3. CASE ~early
    <3>1. PICK b : b = \E q \in Queued : q.op.set = Op1.set
      OBVIOUS
    <3>2. p1' = [on |-> TRUE, req |-> p1.req, val |-> p1.val, retry |-> FALSE,
                 reload |-> TRUE, busy |-> b, out |-> arr[Op1.set]]
      BY <1>5, <2>1, <2>3, <3>1
    <3> QED BY <2>3, <3>2
  <2> QED BY <2>2, <2>3
<1> HIDE DEF next, again
<1>10. CacheType'
  <2>1. grad' \in [Slots -> 0 .. 2]
    BY <1>1, <1>5, GraduatesOnly
  <2>2. state' \in States /\ p2'.req \in Reqs \cup {NoReq}
    BY <1>4, <1>5 DEF States, NoP2
  <2>3. /\ p1'.on \in BOOLEAN /\ p1'.retry \in BOOLEAN /\ p1'.reload \in BOOLEAN
        /\ p1'.req \in Reqs \cup {NoReq}
    BY <1>1, <1>9
  <2>4. p1' = [on |-> p1'.on, req |-> p1'.req, val |-> p1'.val, retry |-> p1'.retry,
             reload |-> p1'.reload, busy |-> p1'.busy, out |-> p1'.out]
    BY <1>9
  <2> QED BY <1>1, <1>3, <1>4, <1>5, <2>1, <2>2, <2>3, <2>4 DEF CacheType
<1>11. (Pending1 <=> ~early) /\ (Pending1' <=> ~early)
  BY <1>1, <1>2, <1>4, <1>9 DEF Pending1
<1>12. ~early => Op1' = Op1
  BY <1>9 DEF Op1
<1>13. SlotsInv'
  BY <1>5, <1>6, <1>9, <1>11 DEF CacheInv, SlotsInv
<1>14. MarksInv'
  <2>1. \A s \in Slots : /\ grad'[s] # 0 <=> grad[s] # 0
                         /\ grad[s] = 2 => grad'[s] = 2
    BY <1>1, <1>5, GraduatesOnly
  <2>2. (Store1' <=> Store1) /\ (Store1' => p1'.req = p1.req)
    BY <1>1, <1>2, <1>9, <1>12 DEF Store1
  <2> QED BY <1>2, <1>5, <2>1, <2>2 DEF CacheInv, MarksInv
<1>15. StateInv'
  <2>1. /\ state' = "ACTIVE" /\ state' \notin Waiting /\ state' \notin Missing
        /\ state' \notin Starting \cup Flushing
    BY <1>4 DEF Waiting, Missing, Starting, Flushing
  <2>2. p1'.on => /\ p1'.req # NoReq /\ p1'.out = arr'[Op1'.set]
                  /\ p1'.reload
                  /\ IF lock' THEN ~p1'.out.valid ELSE TagMatch1'
    BY <1>1, <1>2, <1>4, <1>8, <1>9, <1>12 DEF TagMatch1
  <2>3. lock' => p1'.req # NoReq
    BY <1>1, <1>2, <1>4, <1>9
  <2>4. p1'.req # NoReq => p1'.on
    BY <1>9, <1>1
  <2> QED BY <1>4, <1>6, <1>7, <1>9, <2>1, <2>2, <2>3, <2>4 DEF StateInv
<1>16. HeldStep(in)
  <2>1. Response(in).rob = NoRob /\ Taken(in) = {}
    BY <1>1, ResponseIs DEF Taken
  <2> DEFINE queued == {mq[i].rob : i \in {j \in DOMAIN mq : ~mq[j].op.store}}
  <2>2. HeldLoads = queued \cup (IF ~early /\ ~Op1.store THEN {p1.req.rob} ELSE {})
    BY <1>1, <1>11 DEF HeldLoads
  <2>3. HeldLoads' = queued \cup (IF ~early /\ ~Op1.store THEN {p1.req.rob} ELSE {})
    BY <1>5, <1>6, <1>9, <1>11, <1>12 DEF HeldLoads
  <2>4. queued \subseteq Slots
    <3>1. AllRobs(mq) \subseteq Slots
      BY <1>1, <1>2 DEF CacheInv, SlotsInv
    <3> QED BY <3>1 DEF AllRobs
  <2> HIDE DEF queued
  <2>5. HeldLoads' = (HeldLoads \ {Response(in).rob}) \cup Taken(in)
    BY <1>2, <2>1, <2>2, <2>3, <2>4, L1DAssumption
  <2>6. nInflight' = nInflight + 0 - 0
    BY <1>4
  <2> QED BY <2>1, <2>5, <2>6 DEF HeldStep
<1>17. EmptyStep(in)
  BY <1>5, <1>6 DEF EmptyStep
<1> QED BY <1>10, <1>13, <1>14, <1>15, <1>16, <1>17 DEF Good, CacheInv
-----------------------------------------------------------------------------
(***************************************************************************)
(* The cache while it serves requests (ACTIVE).                            *)
(***************************************************************************)
(* The loads of the queue, as HeldLoads lists them. *)
LEMMA QueuedLoads ==
    ASSUME NEW q \in Seq(Reqs)
    PROVE  {q[i].rob : i \in {j \in DOMAIN q : ~q[j].op.store}} = RobsOf(q, FALSE)
<1>1. \A i \in DOMAIN q : q[i].op.store \in BOOLEAN
  <2> SUFFICES ASSUME NEW i \in DOMAIN q PROVE q[i].op.store \in BOOLEAN
    OBVIOUS
  <2>1. q[i] \in Reqs
    OBVIOUS
  <2> QED BY <2>1, ReqFields
<1> QED BY <1>1 DEF RobsOf

(* Which of the things that a cycle may do exclude each other: a miss stops both
   ports and is served at once, a load that port 1 answers leaves port 2 nothing to
   say, and a flush begins when the cache holds nothing. *)
LEMMA ActiveFacts ==
    ASSUME CacheInv, state = "ACTIVE", NEW in, Fits(in)
    PROVE  /\ in.rsp = FALSE /\ memReq = NoMem /\ early = FALSE
           /\ p1.req # NoReq <=> p1.on
           /\ Pending1 <=> p1.on
           /\ Store1 <=> p1.on /\ Op1.store
           /\ Miss => MissStarts /\ ~Pops(in) /\ ~Fires(in) /\ ~StoreKilled(in) /\ ~Accept(in)
           /\ ~Miss => ~MissStarts /\ lock = FALSE /\ (p1.on => Hit1)
           /\ FlushStarts(in) => ~p1.on /\ ~On2 /\ mq = <<>> /\ ~Accept(in) /\ ~Pops(in)
           /\ LoadHit => ~On2
           /\ Accept(in) => /\ in.req \in Reqs /\ in.req.rob \notin slotBusy
                            /\ in.req.rob \notin HeldLoads /\ ~LoadFires
<1>1. /\ lock \in BOOLEAN /\ early \in BOOLEAN /\ p1.on \in BOOLEAN
      /\ p1.retry \in BOOLEAN /\ p1.reload \in BOOLEAN
      /\ p1.req \in Reqs \cup {NoReq} /\ mq \in Seq(Reqs)
  BY DEF CacheInv, CacheType
<1>2. state \notin Waiting /\ state \notin Missing
  BY DEF Waiting, Missing
<1>3. /\ ~memReq.valid /\ memReq = NoMem /\ ~early
      /\ On2 => ~(p1.on /\ ~Op1.store)
      /\ p1.on => p1.req # NoReq
      /\ p1.req # NoReq => p1.on
      /\ p1.on => IF p1.retry THEN ~lock
                  ELSE p1.reload /\ (IF lock THEN ~p1.out.valid ELSE TagMatch1)
      /\ lock => p1.req # NoReq
  BY <1>2 DEF CacheInv, StateInv
<1>4. in.rsp = FALSE /\ early = FALSE
  BY <1>1, <1>3 DEF Fits
<1>5. (Pending1 <=> p1.on) /\ (Store1 <=> p1.on /\ Op1.store)
  BY <1>3 DEF Pending1, Store1
<1>6. lock => Miss
  BY <1>3 DEF Miss, TagMatch1
<1>7. ASSUME Miss PROVE MissStarts /\ ~Pops(in) /\ ~Fires(in) /\ ~StoreKilled(in) /\ ~Accept(in)
  <2>1. ~MayFire /\ ~Accept(in)
    BY <1>7 DEF MayFire, Accept
  <2>2. ~Fires(in) /\ ~StoreKilled(in) /\ ~Pops(in)
    BY <2>1 DEF Pops, Fires, LoadFires, StoreFires, StoreKilled
  <2>3. p1.retry \/ (lock /\ ~p1.out.valid)
    BY <1>3, <1>7 DEF Miss
  <2>4. MissStarts
    BY <1>7, <2>3 DEF MissStarts, DirtyMiss
  <2> QED BY <2>1, <2>2, <2>4
<1>8. ~Miss => ~MissStarts /\ lock = FALSE /\ (p1.on => Hit1)
  BY <1>1, <1>6 DEF MissStarts, DirtyMiss, Miss, Hit1
<1>9. ASSUME FlushStarts(in)
      PROVE  ~p1.on /\ ~On2 /\ mq = <<>> /\ ~Accept(in) /\ ~Pops(in)
  <2>1. HeldLoads = {} /\ mq = <<>> /\ ~(p1.on /\ Op1.store) /\ ~Accept(in)
    BY <1>9 DEF FlushStarts, Fits
  <2>2. ~On2 /\ ~(Pending1 /\ ~Op1.store)
    BY <2>1 DEF HeldLoads
  <2>3. ~Pops(in)
    BY <2>1 DEF Pops, Fires, LoadFires, StoreFires, StoreKilled, MayFire
  <2> QED BY <1>5, <2>1, <2>2, <2>3
<1>10. LoadHit => ~On2
  BY <1>3 DEF LoadHit, Hit1
<1>11. Accept(in) => /\ in.req \in Reqs /\ in.req.rob \notin slotBusy
                     /\ in.req.rob \notin HeldLoads /\ ~LoadFires
  BY DEF Accept, Fits
<1> QED BY <1>3, <1>4, <1>5, <1>7, <1>8, <1>9, <1>10, <1>11

(* What the ports hold after a cycle: port 1 what has missed or the head of the
   queue, port 2 the request that was taken. *)
LEMMA ActivePorts ==
    ASSUME CacheInv, NEW in, Fits(in), Active(in)
    PROVE  /\ p1' = [on |-> p1'.on, req |-> p1'.req, val |-> p1'.val, retry |-> p1'.retry,
                     reload |-> p1'.reload, busy |-> p1'.busy, out |-> p1'.out]
           /\ p1'.retry \in BOOLEAN /\ p1'.reload \in BOOLEAN
           /\ Miss => p1'.on = FALSE /\ p1'.req = p1.req
           /\ Fires(in) => /\ p1'.on = TRUE /\ p1'.req = Head1 /\ p1'.retry = TRUE
                           /\ p1'.out = arr[Head1.op.set]
           /\ ~Miss /\ ~Fires(in) => p1'.on = FALSE /\ p1'.req = NoReq
           /\ p2'.req = IF Accept(in) THEN in.req ELSE NoReq
           /\ On2' <=> Accept(in)
<1>1. state = "ACTIVE"
  BY DEF Active
<1>2. p1 = [on |-> p1.on, req |-> p1.req, val |-> p1.val, retry |-> p1.retry,
            reload |-> p1.reload, busy |-> p1.busy, out |-> p1.out]
      /\ p1.retry \in BOOLEAN /\ p1.reload \in BOOLEAN
  BY DEF CacheInv, CacheType
<1>3. /\ Miss => MissStarts /\ ~Fires(in) /\ ~FlushStarts(in)
      /\ ~Miss => ~MissStarts
  <2>1. Miss => p1.on
    BY DEF Miss
  <2> QED BY <1>1, <2>1, ActiveFacts
<1>4. p2'.req = IF Accept(in) THEN in.req ELSE NoReq
  BY DEF Active, NextP2, NoP2
<1>5. On2' <=> Accept(in)
  BY <1>4 DEF On2, Accept
<1>6. PICK v, b : v = (IF Head1.op.store THEN in.data.val ELSE NoP1.val)
                  /\ b = \E i \in 2 .. Len(mq) : mq[i].op.set = Head1.op.set
  OBVIOUS
<1>7. CASE Fires(in)
  <2>1. p1' = [NoP1 EXCEPT !.on = TRUE, !.retry = TRUE, !.req = Head1,
                           !.val = IF Head1.op.store THEN in.data.val ELSE @,
                           !.out = arr[Head1.op.set],
                           !.busy = \E i \in 2 .. Len(mq) : mq[i].op.set = Head1.op.set]
    BY <1>7 DEF Active
  <2>2. p1' = [on |-> TRUE, req |-> Head1, val |-> v, retry |-> TRUE, reload |-> FALSE,
               busy |-> b, out |-> arr[Head1.op.set]]
    BY <1>6, <2>1 DEF NoP1
  <2> QED BY <1>3, <1>4, <1>5, <1>7, <2>2
<1>8. CASE Miss
  <2>1. p1' = [p1 EXCEPT !.on = FALSE, !.out = NoLine]
    BY <1>3, <1>8 DEF Active
  <2>2. p1' = [on |-> FALSE, req |-> p1.req, val |-> p1.val, retry |-> p1.retry,
               reload |-> p1.reload, busy |-> p1.busy, out |-> NoLine]
    BY <1>2, <2>1
  <2> QED BY <1>2, <1>3, <1>4, <1>5, <1>8, <2>2
<1>9. CASE ~Miss /\ ~Fires(in)
  <2>1. p1' = NoP1 \/ p1' = [NoP1 EXCEPT !.out = arr[0]]
    BY <1>3, <1>9 DEF Active, Read
  <2>2. \E o : p1' = [on |-> FALSE, req |-> NoReq, val |-> NoP1.val, retry |-> FALSE,
                      reload |-> FALSE, busy |-> FALSE, out |-> o]
    BY <2>1 DEF NoP1
  <2> QED BY <1>4, <1>5, <1>9, <2>2
<1> QED BY <1>7, <1>8, <1>9

(* What the queue holds after a cycle. *)
LEMMA ActiveQueue ==
    ASSUME CacheInv, NEW in, Fits(in), Active(in)
    PROVE  LET gone == IF Pops(in) THEN {Head1.rob} ELSE {}
               pushed == IF PushMiss(in) THEN {p2.req.rob} ELSE {}
           IN  /\ mq' \in Seq(Reqs) /\ NoTwo(mq')
               /\ PushMiss(in) => p2.req \in Reqs
               /\ AllRobs(mq') = (AllRobs(mq) \ gone) \cup pushed
               /\ RobsOf(mq', TRUE) = (RobsOf(mq, TRUE) \ gone)
                     \cup (IF PushMiss(in) /\ p2.req.op.store THEN {p2.req.rob} ELSE {})
               /\ RobsOf(mq', FALSE) = (RobsOf(mq, FALSE) \ gone)
                     \cup (IF PushMiss(in) /\ ~p2.req.op.store THEN {p2.req.rob} ELSE {})
               /\ Pops(in) => /\ Head1 \in Reqs /\ Head1.op.store \in BOOLEAN
                              /\ Head1.rob \in RobsOf(mq, Head1.op.store)
               /\ mq = <<>> /\ ~PushMiss(in) => mq' = <<>>
<1> DEFINE q == QueueLeft(in) \o (IF PushMiss(in) THEN <<p2.req>> ELSE <<>>)
           gone == IF Pops(in) THEN {Head1.rob} ELSE {}
<1>1. mq' = q
  BY DEF Active
<1>2. mq \in Seq(Reqs) /\ NoTwo(mq)
  BY DEF CacheInv, CacheType, SlotsInv
<1>3. PushMiss(in) => p2.req \in Reqs /\ p2.req.rob \notin AllRobs(mq)
  BY DEF CacheInv, CacheType, SlotsInv, PushMiss, On2
<1>4. PushMiss(in) => p2.req.op.store \in BOOLEAN
  BY <1>3, ReqFields
<1>5. /\ q \in Seq(Reqs) /\ NoTwo(q)
      /\ \A b \in BOOLEAN : RobsOf(q, b) =
            (RobsOf(mq, b) \ gone)
               \cup (IF PushMiss(in) /\ p2.req.op.store = b THEN {p2.req.rob} ELSE {})
      /\ Pops(in) => /\ Head1 \in Reqs /\ Head1.op.store \in BOOLEAN
                     /\ Head1.rob \in RobsOf(mq, Head1.op.store)
  BY <1>2, <1>3, QueueStep
<1>6. mq = <<>> /\ ~PushMiss(in) => q = <<>>
  <2>1. mq = <<>> => ~Pops(in)
    BY DEF Pops, Fires, LoadFires, StoreFires, StoreKilled, MayFire
  <2>2. <<>> \o <<>> = <<>>
    OBVIOUS
  <2> QED BY <2>1, <2>2 DEF QueueLeft
<1> HIDE DEF q
<1>7. /\ RobsOf(q, TRUE) = (RobsOf(mq, TRUE) \ gone)
            \cup (IF PushMiss(in) /\ p2.req.op.store THEN {p2.req.rob} ELSE {})
      /\ RobsOf(q, FALSE) = (RobsOf(mq, FALSE) \ gone)
            \cup (IF PushMiss(in) /\ ~p2.req.op.store THEN {p2.req.rob} ELSE {})
  BY <1>4, <1>5
<1>8. AllRobs(q) = RobsOf(q, TRUE) \cup RobsOf(q, FALSE)
      /\ AllRobs(mq) = RobsOf(mq, TRUE) \cup RobsOf(mq, FALSE)
  BY <1>2, <1>5, LoadsAndStores
<1>9. AllRobs(q) = (AllRobs(mq) \ gone) \cup (IF PushMiss(in) THEN {p2.req.rob} ELSE {})
  BY <1>4, <1>7, <1>8
<1> QED BY <1>1, <1>3, <1>5, <1>6, <1>7, <1>9

(* What the slots of the queue and of the ports have to do with each other before a
   cycle. *)
LEMMA ActiveSlotsBefore ==
    ASSUME CacheInv, state = "ACTIVE", NEW in, Fits(in)
    PROVE  /\ slotBusy = AllRobs(mq) \cup (IF p1.on THEN {p1.req.rob} ELSE {})
           /\ p1.on => p1.req.rob \notin AllRobs(mq)
           /\ On2 => p2.req.rob \notin slotBusy
           /\ AllRobs(mq) = RobsOf(mq, TRUE) \cup RobsOf(mq, FALSE)
           /\ RobsOf(mq, TRUE) \cap RobsOf(mq, FALSE) = {}
           /\ slotBusy \subseteq Slots
           /\ p1.on => /\ p1.req \in Reqs /\ p1.req.rob \in Slots /\ Op1.store \in BOOLEAN
                       /\ p1.req.rob # NoRob
           /\ On2 => /\ p2.req \in Reqs /\ p2.req.rob \in Slots /\ p2.req.op.store \in BOOLEAN
                     /\ p2.req.rob # NoRob
           /\ HeldLoads = (IF On2 THEN {p2.req.rob} ELSE {}) \cup RobsOf(mq, FALSE)
                             \cup (IF p1.on /\ ~Op1.store THEN {p1.req.rob} ELSE {})
<1>1. /\ (p1.req # NoReq <=> p1.on) /\ (Pending1 <=> p1.on)
  BY ActiveFacts
<1>2. /\ mq \in Seq(Reqs) /\ NoTwo(mq) /\ slotBusy \subseteq Slots
      /\ p1.req \in Reqs \cup {NoReq} /\ p2.req \in Reqs \cup {NoReq}
      /\ slotBusy = AllRobs(mq) \cup (IF Pending1 THEN {p1.req.rob} ELSE {})
      /\ Pending1 => p1.req.rob \notin AllRobs(mq)
      /\ On2 => p2.req.rob \notin slotBusy
  BY DEF CacheInv, CacheType, SlotsInv
<1>3. p1.on => p1.req \in Reqs /\ p1.req.rob \in Slots /\ Op1.store \in BOOLEAN
               /\ p1.req.rob # NoRob
  BY <1>1, <1>2, ReqFields DEF Op1
<1>4. On2 => p2.req \in Reqs /\ p2.req.rob \in Slots /\ p2.req.op.store \in BOOLEAN
             /\ p2.req.rob # NoRob
  BY <1>2, ReqFields DEF On2
<1>5. HeldLoads = (IF On2 THEN {p2.req.rob} ELSE {}) \cup RobsOf(mq, FALSE)
                     \cup (IF p1.on /\ ~Op1.store THEN {p1.req.rob} ELSE {})
  BY <1>1, <1>2, QueuedLoads DEF HeldLoads
<1> QED BY <1>1, <1>2, <1>3, <1>4, <1>5, LoadsAndStores

(* The slots stay distinct, and the busy ones are those in the queue and in port 1
   (r_rob_inflight of the cache). *)
LEMMA ActiveSlots ==
    ASSUME CacheInv, NEW in, Fits(in), Active(in)
    PROVE  SlotsInv'
<1>1. state = "ACTIVE"
  BY DEF Active
<1> DEFINE killed == IF StoreKilled(in) THEN {Head1.rob} ELSE {}
           gone == IF Pops(in) THEN {Head1.rob} ELSE {}
           pushed == IF PushMiss(in) THEN {p2.req.rob} ELSE {}
<1>2. slotBusy' = ((slotBusy \cup pushed) \ (IF Hit1 THEN {p1.req.rob} ELSE {})) \ killed
  BY DEF Active
<1>3. NoTwo(mq') /\ AllRobs(mq') = (AllRobs(mq) \ gone) \cup pushed
      /\ (Pops(in) => Head1 \in Reqs /\ Head1.rob \in AllRobs(mq))
  <2>1. NoTwo(mq') /\ AllRobs(mq') = (AllRobs(mq) \ gone) \cup pushed
      /\ (Pops(in) => Head1 \in Reqs /\ Head1.op.store \in BOOLEAN
                      /\ Head1.rob \in RobsOf(mq, Head1.op.store))
    BY ActiveQueue
  <2> QED BY <1>1, <2>1, ActiveSlotsBefore
<1>4. /\ slotBusy = AllRobs(mq) \cup (IF p1.on THEN {p1.req.rob} ELSE {})
      /\ p1.on => p1.req.rob \notin AllRobs(mq)
      /\ On2 => p2.req.rob \notin slotBusy
      /\ On2 => p2.req.rob \in HeldLoads
  BY <1>1, ActiveSlotsBefore
<1>5. /\ Miss => ~Pops(in) /\ ~Fires(in) /\ ~StoreKilled(in) /\ p1.on /\ ~Hit1
      /\ ~Miss => (Hit1 <=> p1.on)
      /\ Accept(in) => in.req.rob \notin slotBusy /\ in.req.rob \notin HeldLoads
  <2>1. (Miss => p1.on /\ ~Hit1) /\ (Hit1 => p1.on)
    BY DEF Miss, Hit1
  <2> QED BY <1>1, <2>1, ActiveFacts
<1>6. (PushMiss(in) => On2) /\ (Pops(in) <=> Fires(in) \/ StoreKilled(in))
      /\ ~(Fires(in) /\ StoreKilled(in))
  BY DEF PushMiss, Pops, Fires, LoadFires, StoreKilled
<1>7. /\ Miss => p1'.on = FALSE /\ p1'.req = p1.req
      /\ Fires(in) => p1'.on = TRUE /\ p1'.req = Head1
      /\ ~Miss /\ ~Fires(in) => p1'.on = FALSE /\ p1'.req = NoReq
      /\ p2'.req = IF Accept(in) THEN in.req ELSE NoReq
      /\ On2' <=> Accept(in)
  BY ActivePorts
<1>8. state' # "HANDLE_RELOAD" /\ (Fires(in) => p1'.req # NoReq) /\ (Miss => p1'.req # NoReq)
  <2>1. state' # "HANDLE_RELOAD"
    BY DEF Active
  <2>2. Miss => p1.req # NoReq
    BY <1>1, <1>5, ActiveFacts
  <2>3. Fires(in) => Head1 # NoReq
    BY <1>3, <1>6, ReqFields
  <2> QED BY <1>7, <2>1, <2>2, <2>3
<1>9. Pending1' <=> Miss \/ Fires(in)
  BY <1>7, <1>8 DEF Pending1
<1>10. On2' => p2'.req.rob \notin slotBusy'
  BY <1>2, <1>4, <1>5, <1>6, <1>7
<1>11. CASE Miss
  <2>1. slotBusy' = slotBusy \cup pushed /\ AllRobs(mq') = AllRobs(mq) \cup pushed
    BY <1>2, <1>3, <1>5, <1>11
  <2>2. p1'.req.rob \notin AllRobs(mq')
    BY <1>4, <1>5, <1>6, <1>7, <1>11, <2>1
  <2>3. slotBusy' = AllRobs(mq') \cup {p1'.req.rob}
    BY <1>4, <1>5, <1>7, <1>11, <2>1
  <2> QED BY <1>3, <1>9, <1>10, <1>11, <2>2, <2>3 DEF SlotsInv
<1>12. CASE ~Miss /\ Fires(in)
  <2>1. AllRobs(mq') = (AllRobs(mq) \ {Head1.rob}) \cup pushed /\ Head1.rob \in AllRobs(mq)
    BY <1>3, <1>6, <1>12
  <2>2. slotBusy' = AllRobs(mq) \cup pushed
    BY <1>2, <1>4, <1>5, <1>6, <1>12
  <2>3. Head1.rob \notin pushed
    BY <1>4, <1>6, <2>1
  <2> QED BY <1>3, <1>7, <1>9, <1>10, <1>12, <2>1, <2>2, <2>3 DEF SlotsInv
<1>13. CASE ~Miss /\ ~Fires(in)
  <2>1. AllRobs(mq') = (AllRobs(mq) \ killed) \cup pushed
    BY <1>3, <1>6, <1>13
  <2>2. slotBusy' = (AllRobs(mq) \cup pushed) \ killed
    BY <1>2, <1>4, <1>5, <1>6, <1>13
  <2>3. killed \cap pushed = {}
    BY <1>3, <1>4, <1>6
  <2> QED BY <1>3, <1>9, <1>10, <1>13, <2>1, <2>2, <2>3 DEF SlotsInv
<1> QED BY <1>11, <1>12, <1>13

(* A slot stays marked exactly as long as its store is in the cache
   (r_graduated). *)
LEMMA ActiveMarks ==
    ASSUME CacheInv, NEW in, Fits(in), Active(in)
    PROVE  grad' \in [Slots -> 0 .. 2] /\ MarksInv'
<1>1. state = "ACTIVE"
  BY DEF Active
<1> DEFINE killed == IF StoreKilled(in) THEN {Head1.rob} ELSE {}
           gone == IF Pops(in) THEN {Head1.rob} ELSE {}
           stored == IF PushMiss(in) /\ p2.req.op.store THEN {p2.req.rob} ELSE {}
           written == IF StoreHit THEN {p1.req.rob} ELSE {}
           S == RobsOf(mq, TRUE)
<1>2. grad' = [s \in Slots |->
                 IF s \in written \cup killed THEN 0
                 ELSE IF s \in stored THEN 1
                 ELSE IF s \in in.retired /\ grad[s] = 1 THEN 2 ELSE grad[s]]
  BY DEF Active, Graduates
<1>3. grad \in [Slots -> 0 .. 2] /\ \A s \in Slots : grad[s] \in 0 .. 2
  BY DEF CacheInv, CacheType
<1>4. grad' \in [Slots -> 0 .. 2]
  BY <1>2, <1>3
<1>5. /\ \A s \in Slots : grad[s] # 0 <=> s \in S \/ (p1.on /\ Op1.store /\ p1.req.rob = s)
      /\ p1.on /\ Op1.store => grad[p1.req.rob] = 2
  <2>1. Store1 <=> p1.on /\ Op1.store
    BY <1>1, ActiveFacts
  <2> QED BY <2>1 DEF CacheInv, MarksInv
<1>6. /\ RobsOf(mq', TRUE) = (S \ gone) \cup stored
      /\ Pops(in) => /\ Head1 \in Reqs /\ Head1.op.store \in BOOLEAN
                     /\ Head1.rob \in RobsOf(mq, Head1.op.store)
      /\ PushMiss(in) => On2
  BY ActiveQueue DEF PushMiss
<1>7. /\ S \subseteq slotBusy /\ (p1.on => p1.req.rob \in slotBusy)
      /\ p1.on => p1.req.rob \notin S /\ p1.req.rob \notin RobsOf(mq, FALSE)
      /\ On2 => p2.req.rob \notin slotBusy
      /\ S \cap RobsOf(mq, FALSE) = {} /\ RobsOf(mq, FALSE) \subseteq slotBusy
      /\ slotBusy \subseteq Slots
  BY <1>1, ActiveSlotsBefore
<1>8. /\ Miss => ~Pops(in) /\ ~Fires(in) /\ ~StoreKilled(in) /\ p1.on /\ ~StoreHit
      /\ ~Miss => (StoreHit <=> p1.on /\ Op1.store)
  <2>1. (Miss => p1.on /\ ~Hit1) /\ (Hit1 => p1.on)
    BY DEF Miss, Hit1
  <2> QED BY <1>1, <2>1, ActiveFacts DEF StoreHit
<1>9. /\ Pops(in) <=> Fires(in) \/ StoreKilled(in)
      /\ StoreKilled(in) => ~Fires(in) /\ Head1.op.store
      /\ Fires(in) => IF Head1.op.store THEN grad[Head1.rob] = 2 ELSE TRUE
  BY DEF Pops, Fires, LoadFires, StoreKilled, StoreFires
<1>10. /\ Miss => p1'.on = FALSE /\ p1'.req = p1.req
       /\ Fires(in) => p1'.on = TRUE /\ p1'.req = Head1
       /\ ~Miss /\ ~Fires(in) => p1'.on = FALSE /\ p1'.req = NoReq
  BY ActivePorts
<1>11. p1.on => p1.req # NoReq
  BY <1>1, ActiveFacts
<1> HIDE DEF S
<1>12. CASE Miss
  <2>1. written = {} /\ killed = {} /\ RobsOf(mq', TRUE) = S \cup stored
    BY <1>6, <1>8, <1>12
  <2>2. Store1' <=> Op1.store
    BY <1>8, <1>10, <1>11, <1>12 DEF Store1, Op1
  <2>3. ASSUME NEW s \in Slots
        PROVE  /\ grad'[s] # 0 <=> s \in S \cup stored \/ (Op1.store /\ p1.req.rob = s)
               /\ s \notin stored /\ grad[s] = 2 => grad'[s] = 2
    <3>1. grad'[s] = IF s \in stored THEN 1
                     ELSE IF s \in in.retired /\ grad[s] = 1 THEN 2 ELSE grad[s]
      BY <1>2, <2>1
    <3> QED BY <1>3, <1>5, <1>8, <1>12, <3>1
  <2>4. p1.req.rob \in Slots /\ p1.req.rob \notin stored
    BY <1>6, <1>7, <1>8, <1>12
  <2>5. Store1' => grad'[p1'.req.rob] = 2
    BY <1>5, <1>8, <1>10, <1>12, <2>2, <2>3, <2>4
  <2>6. \A s \in Slots : grad'[s] # 0 <=> s \in RobsOf(mq', TRUE) \/ (Store1' /\ p1'.req.rob = s)
    BY <1>10, <1>12, <2>1, <2>2, <2>3
  <2> QED BY <1>4, <2>5, <2>6 DEF MarksInv
<1>13. CASE Fires(in)
  <2>0. ~Miss /\ killed = {} /\ gone = {Head1.rob}
    BY <1>8, <1>9, <1>13
  <2>1. Head1 \in Reqs /\ Head1.op.store \in BOOLEAN /\ Head1.rob \in RobsOf(mq, Head1.op.store)
        /\ Head1 # NoReq
    BY <1>6, <1>9, <1>13, ReqFields
  <2>2. Store1' <=> Head1.op.store
    BY <1>10, <1>13, <2>1 DEF Store1, Op1
  <2>3. /\ Head1.rob \in Slots /\ Head1.rob \notin stored
        /\ p1.on => Head1.rob # p1.req.rob
        /\ Head1.op.store <=> Head1.rob \in S
    BY <1>6, <1>7, <2>1 DEF S
  <2>4. ASSUME NEW s \in Slots
        PROVE  /\ grad'[s] # 0 <=> s \in stored \/ s \in S
               /\ s = Head1.rob /\ Head1.op.store => grad'[s] = 2
    <3>1. grad'[s] = IF s \in written THEN 0
                     ELSE IF s \in stored THEN 1
                     ELSE IF s \in in.retired /\ grad[s] = 1 THEN 2 ELSE grad[s]
      BY <1>2, <2>0
    <3>2. s \in written <=> p1.on /\ Op1.store /\ p1.req.rob = s
      BY <1>8, <2>0
    <3>3. s \in written => s \notin S /\ s \notin stored
      BY <1>6, <1>7, <3>2
    <3>4. grad[s] # 0 <=> s \in S \/ s \in written
      BY <1>5, <3>2
    <3>5. grad'[s] # 0 <=> s \in stored \/ s \in S
      BY <1>3, <3>1, <3>3, <3>4
    <3>6. s = Head1.rob /\ Head1.op.store => grad'[s] = 2
      BY <1>9, <1>13, <2>3, <3>1, <3>2
    <3> QED BY <3>5, <3>6
  <2>5. \A s \in Slots : grad'[s] # 0 <=> s \in RobsOf(mq', TRUE) \/ (Store1' /\ p1'.req.rob = s)
    BY <1>6, <1>10, <1>13, <2>0, <2>2, <2>3, <2>4
  <2>6. Store1' => grad'[p1'.req.rob] = 2
    BY <1>10, <1>13, <2>2, <2>3, <2>4
  <2> QED BY <1>4, <2>5, <2>6 DEF MarksInv
<1>14. CASE ~Miss /\ ~Fires(in)
  <2>1. ~Store1' /\ gone = killed
    BY <1>9, <1>10, <1>14 DEF Store1
  <2>2. killed \subseteq S /\ killed \cap stored = {}
    BY <1>6, <1>7, <1>9 DEF S
  <2>3. ASSUME NEW s \in Slots PROVE grad'[s] # 0 <=> s \in (S \ killed) \cup stored
    <3>1. grad'[s] = IF s \in written \cup killed THEN 0
                     ELSE IF s \in stored THEN 1
                     ELSE IF s \in in.retired /\ grad[s] = 1 THEN 2 ELSE grad[s]
      BY <1>2
    <3>2. s \in written <=> p1.on /\ Op1.store /\ p1.req.rob = s
      BY <1>8, <1>14
    <3>3. s \in written => s \notin S /\ s \notin stored
      BY <1>6, <1>7, <3>2
    <3>4. grad[s] # 0 <=> s \in S \/ s \in written
      BY <1>5, <3>2
    <3> QED BY <1>3, <2>2, <3>1, <3>3, <3>4
  <2> QED BY <1>4, <1>6, <2>1, <2>3 DEF MarksInv
<1> QED BY <1>8, <1>12, <1>13, <1>14

(* A miss is sent to the memory system at once, with what port 1 has read of the line
   that it replaces; nothing of the cache is stopped otherwise. *)
LEMMA ActiveState ==
    ASSUME CacheInv, NEW in, Fits(in), Active(in)
    PROVE  StateInv'
<1>1. state = "ACTIVE"
  BY DEF Active
<1>2. /\ in.rsp = FALSE /\ memReq = NoMem /\ early = FALSE
      /\ p1.req # NoReq <=> p1.on
      /\ Miss => MissStarts /\ ~Pops(in) /\ ~Fires(in) /\ ~StoreKilled(in) /\ ~Accept(in)
      /\ ~Miss => ~MissStarts /\ lock = FALSE /\ (p1.on => Hit1)
      /\ FlushStarts(in) => ~p1.on /\ ~On2 /\ mq = <<>> /\ ~Accept(in) /\ ~Pops(in)
      /\ Accept(in) => ~LoadFires
  BY <1>1, ActiveFacts
<1>3. /\ Miss => p1'.on = FALSE /\ p1'.req = p1.req
      /\ Fires(in) => /\ p1'.on = TRUE /\ p1'.req = Head1 /\ p1'.retry = TRUE
                      /\ p1'.out = arr[Head1.op.set]
      /\ ~Miss /\ ~Fires(in) => p1'.on = FALSE /\ p1'.req = NoReq
      /\ On2' <=> Accept(in)
  BY ActivePorts
<1>4. (Miss => p1.on /\ ~Hit1) /\ (FlushStarts(in) => ~Miss) /\ (Fires(in) => Pops(in))
  BY <1>2 DEF Miss, Hit1, Pops
<1>5. /\ state' = IF FlushStarts(in) THEN "FLUSH_CACHE"
                  ELSE IF Miss THEN "INJECT_RELOAD" ELSE "ACTIVE"
      /\ Asks(in, IF ~Miss THEN NoMem ELSE IF DirtyMiss THEN Victim ELSE Fetch)
      /\ inhibit' = IF Miss THEN DirtyMiss ELSE inhibit
      /\ lock' = IF Miss THEN DirtyMiss ELSE lock
      /\ Arrays(in, {}, WriteArray) /\ early' = FALSE
  BY <1>1, <1>2 DEF Active
<1>6. NoMem.valid = FALSE /\ Victim.valid = TRUE /\ Fetch.valid = TRUE
      /\ Victim.set = Op1.set /\ Fetch.set = Op1.set /\ Fetch.tag = Op1.tag
  BY DEF NoMem, Victim, Fetch
<1>7. memReq' = IF ~Miss THEN NoMem ELSE IF DirtyMiss THEN Victim ELSE Fetch
  <2>1. NoMem # Victim /\ NoMem # Fetch
    BY <1>6
  <2> QED BY <1>2, <1>5, <2>1 DEF Asks
<1>8. (memReq'.valid <=> (state \in Waiting)') /\ (~memReq'.valid => memReq' = NoMem)
  BY <1>4, <1>5, <1>6, <1>7 DEF Waiting
<1>9. ASSUME Fires(in)
      PROVE  /\ Head1 \in Reqs /\ Head1 # NoReq /\ Head1.op.store \in BOOLEAN
             /\ Op1' = Head1.op /\ arr'[Head1.op.set] = arr[Head1.op.set]
             /\ state' = "ACTIVE" /\ lock' = FALSE
             /\ Accept(in) => Head1.op.store
  <2>1. Head1 \in Reqs /\ Head1 # NoReq /\ Head1.op.store \in BOOLEAN /\ Head1.op.set \in Sets
    BY <1>4, <1>9, ActiveQueue, ReqFields
  <2>2. MayFire /\ ~LastWr(Head1.op.set)
    BY <1>9 DEF Fires, LoadFires, StoreFires, MayFire
  <2>3. ~(WriteArray /\ Head1.op.set = Op1.set)
    BY <2>2 DEF WriteArray, StoreHit, Hit1, LastWr
  <2>4. arr'[Head1.op.set] = arr[Head1.op.set]
    BY <1>2, <1>5, <2>1, <2>3 DEF Arrays
  <2>5. state' = "ACTIVE" /\ lock' = FALSE
    BY <1>2, <1>4, <1>5, <1>9
  <2>6. Accept(in) => Head1.op.store
    BY <1>2, <1>9, <2>2 DEF LoadFires
  <2> QED BY <1>3, <1>9, <2>1, <2>4, <2>5, <2>6 DEF Op1
<1>10. On2' => state' = "ACTIVE" /\ ~(p1'.on /\ ~Op1'.store)
  <2>1. On2' => ~Miss /\ ~FlushStarts(in)
    BY <1>2, <1>3
  <2> QED BY <1>3, <1>5, <1>9, <2>1
<1>11. p1'.on => /\ Fires(in) /\ state' = "ACTIVE" /\ p1'.req # NoReq
                 /\ p1'.out = arr'[Op1'.set] /\ p1'.retry /\ ~lock'
  <2>1. p1'.on => Fires(in)
    BY <1>3
  <2> QED BY <1>3, <1>9, <2>1
<1>12. p1'.req # NoReq => p1'.on \/ state' \in Missing
  BY <1>3, <1>4, <1>5 DEF Missing
<1>13. state' \in Missing => Miss /\ state' = "INJECT_RELOAD" /\ p1'.req # NoReq
  BY <1>2, <1>3, <1>4, <1>5 DEF Missing
<1>14. lock' => p1'.req # NoReq
  BY <1>2, <1>3, <1>4, <1>5
<1>15. state' = "INJECT_RELOAD" => /\ memReq'.set = Op1'.set /\ lock' = inhibit'
                                   /\ ~lock' => memReq'.tag = Op1'.tag
  <2>1. state' = "INJECT_RELOAD" => Miss
    BY <1>5
  <2>2. Miss => Op1' = Op1
    BY <1>3 DEF Op1
  <2> QED BY <1>5, <1>6, <1>7, <2>1, <2>2
<1>16. state' \in Starting \cup Flushing => mq' = <<>>
  <2>1. state' \in Starting \cup Flushing => FlushStarts(in)
    BY <1>5 DEF Starting, Flushing
  <2>2. FlushStarts(in) => mq = <<>> /\ ~PushMiss(in)
    BY <1>2 DEF PushMiss
  <2> QED BY <2>1, <2>2, ActiveQueue
<1>17. state' # "HANDLE_RELOAD"
  BY <1>5
<1> QED
  BY <1>5, <1>8, <1>10, <1>11, <1>12, <1>13, <1>14, <1>15, <1>16, <1>17 DEF StateInv

(* The registers keep their ranges. *)
LEMMA ActiveTypes ==
    ASSUME CacheInv, NEW in, Fits(in), Active(in)
    PROVE  CacheType'
<1>1. /\ state = "ACTIVE" /\ lock \in BOOLEAN /\ inhibit \in BOOLEAN /\ flushReq \in BOOLEAN
      /\ slotBusy \subseteq Slots /\ in.flush \in BOOLEAN
      /\ p1.req \in Reqs \cup {NoReq}
  BY DEF Active, CacheInv, CacheType, Fits
<1>2. state' \in States
  BY <1>1 DEF Active, States
<1>3. mq' \in Seq(Reqs)
  BY ActiveQueue
<1>4. grad' \in [Slots -> 0 .. 2]
  BY ActiveMarks
<1>5. /\ p1' = [on |-> p1'.on, req |-> p1'.req, val |-> p1'.val, retry |-> p1'.retry,
                reload |-> p1'.reload, busy |-> p1'.busy, out |-> p1'.out]
      /\ p1'.retry \in BOOLEAN /\ p1'.reload \in BOOLEAN
  BY ActivePorts
<1>6. Fires(in) => Head1 \in Reqs
  BY ActiveQueue DEF Pops
<1>7. Accept(in) => in.req \in Reqs
  BY <1>1, ActiveFacts
<1>8. p1'.on \in BOOLEAN /\ p1'.req \in Reqs \cup {NoReq} /\ p2'.req \in Reqs \cup {NoReq}
  BY <1>1, <1>6, <1>7, ActivePorts
<1>9. DirtyMiss \in BOOLEAN /\ FlushStarts(in) \in BOOLEAN
  BY DEF DirtyMiss, FlushStarts
<1>10. early' = FALSE /\ lock' \in BOOLEAN /\ inhibit' \in BOOLEAN
  BY <1>1, <1>9 DEF Active
<1>11. memqEmpty' \in BOOLEAN /\ flushReq' \in BOOLEAN /\ flushDone' \in BOOLEAN
  BY <1>1, <1>9 DEF Active, Empties
<1>12. slotBusy' \subseteq Slots
  <2>1. PushMiss(in) => p2.req.rob \in Slots
    BY <1>1, ActiveSlotsBefore DEF PushMiss
  <2> QED BY <1>1, <2>1 DEF Active
<1> QED BY <1>2, <1>3, <1>4, <1>5, <1>8, <1>10, <1>11, <1>12 DEF CacheType

(* Of the loads that the cache holds the one that it answers is given up, and the
   request that it takes is added (n_n_inflight, core_mem_rsp_valid). *)
LEMMA ActiveHeld ==
    ASSUME CacheInv, nInflight \in Nat, NEW in, Fits(in), Active(in)
    PROVE  HeldStep(in)
<1>1. state = "ACTIVE"
  BY DEF Active
<1> DEFINE L == RobsOf(mq, FALSE)
           gone == IF Pops(in) THEN {Head1.rob} ELSE {}
           kept == IF PushMiss(in) /\ ~p2.req.op.store THEN {p2.req.rob} ELSE {}
<1>2. /\ Miss => ~Pops(in) /\ ~Fires(in) /\ ~Accept(in) /\ p1.on /\ ~LoadHit
      /\ ~Miss => (LoadHit <=> p1.on /\ ~Op1.store)
      /\ LoadHit => ~On2
      /\ Accept(in) => /\ in.req \in Reqs /\ in.req.rob \notin slotBusy
                       /\ in.req.rob \notin HeldLoads /\ ~LoadFires
  <2>1. (Miss => p1.on /\ ~Hit1) /\ (Hit1 => p1.on)
    BY DEF Miss, Hit1
  <2> QED BY <1>1, <2>1, ActiveFacts DEF LoadHit
<1>3. /\ AllRobs(mq) = RobsOf(mq, TRUE) \cup L /\ RobsOf(mq, TRUE) \cap L = {}
      /\ slotBusy = AllRobs(mq) \cup (IF p1.on THEN {p1.req.rob} ELSE {})
      /\ p1.on => p1.req.rob \notin AllRobs(mq)
      /\ On2 => p2.req.rob \notin slotBusy
      /\ p1.on => p1.req.rob # NoRob
      /\ On2 => p2.req.op.store \in BOOLEAN /\ p2.req.rob # NoRob
      /\ slotBusy \subseteq Slots /\ NoRob \notin slotBusy
      /\ HeldLoads = (IF On2 THEN {p2.req.rob} ELSE {}) \cup L
                        \cup (IF p1.on /\ ~Op1.store THEN {p1.req.rob} ELSE {})
  BY <1>1, ActiveSlotsBefore, L1DAssumption
<1>4. /\ mq' \in Seq(Reqs) /\ RobsOf(mq', FALSE) = (L \ gone) \cup kept
      /\ Pops(in) => /\ Head1 \in Reqs /\ Head1.op.store \in BOOLEAN
                     /\ Head1.rob \in RobsOf(mq, Head1.op.store)
  BY ActiveQueue
<1>5. /\ Miss => p1'.on = FALSE /\ p1'.req = p1.req
      /\ Fires(in) => p1'.on = TRUE /\ p1'.req = Head1
      /\ ~Miss /\ ~Fires(in) => p1'.on = FALSE /\ p1'.req = NoReq
      /\ p2'.req = IF Accept(in) THEN in.req ELSE NoReq
      /\ On2' <=> Accept(in)
  BY ActivePorts
<1>6. /\ Pops(in) <=> Fires(in) \/ StoreKilled(in)
      /\ StoreKilled(in) => Head1.op.store /\ ~Fires(in)
      /\ PushMiss(in) => On2
      /\ Answer2(in) <=> On2 /\ (p2.req.op.store \/ ~PushMiss(in))
  BY DEF Pops, Fires, LoadFires, StoreFires, StoreKilled, PushMiss, Answer2
<1>7. /\ LoadHit => Response(in).rob = p1.req.rob
      /\ ~LoadHit /\ Answer2(in) => Response(in).rob = p2.req.rob
      /\ ~LoadHit /\ ~Answer2(in) => Response(in).rob = NoRob
  BY <1>1, ResponseIs
<1>8. Taken(in) = IF Accept(in) THEN {in.req.rob} ELSE {}
  BY <1>1 DEF Taken
<1>9. HeldLoads' = Taken(in) \cup (L \ gone) \cup kept
                      \cup (IF Miss /\ ~Op1.store THEN {p1.req.rob}
                            ELSE IF Fires(in) /\ ~Head1.op.store THEN {Head1.rob} ELSE {})
  <2>1. {mq'[i].rob : i \in {j \in DOMAIN mq' : ~mq'[j].op.store}} = (L \ gone) \cup kept
    BY <1>4, QueuedLoads
  <2>2. state' # "HANDLE_RELOAD"
    BY DEF Active
  <2>3. (p1.req # NoReq <=> p1.on) /\ (Fires(in) => Head1 # NoReq)
    BY <1>1, <1>4, <1>6, ActiveFacts, ReqFields
  <2>4. Pending1' <=> Miss \/ Fires(in)
    BY <1>2, <1>5, <2>2, <2>3 DEF Pending1
  <2>5. (Miss => Op1' = Op1) /\ (Fires(in) => Op1' = Head1.op)
    BY <1>5 DEF Op1
  <2>6. (IF Pending1' /\ ~Op1'.store THEN {p1'.req.rob} ELSE {})
          = (IF Miss /\ ~Op1.store THEN {p1.req.rob}
             ELSE IF Fires(in) /\ ~Head1.op.store THEN {Head1.rob} ELSE {})
    BY <1>2, <1>5, <2>4, <2>5
  <2>7. (IF On2' THEN {p2'.req.rob} ELSE {}) = Taken(in)
    BY <1>5, <1>8
  <2> QED BY <2>1, <2>6, <2>7 DEF HeldLoads
<1> HIDE DEF L
<1>10. Response(in).rob # NoRob => Response(in).rob \in HeldLoads
  BY <1>2, <1>3, <1>6, <1>7
<1>11. HeldLoads' = (HeldLoads \ {Response(in).rob}) \cup Taken(in)
  <2> DEFINE port2 == IF On2 THEN {p2.req.rob} ELSE {}
             port1 == IF p1.on /\ ~Op1.store THEN {p1.req.rob} ELSE {}
             next1 == IF Miss /\ ~Op1.store THEN {p1.req.rob}
                      ELSE IF Fires(in) /\ ~Head1.op.store THEN {Head1.rob} ELSE {}
  <2>1. HeldLoads = port2 \cup L \cup port1
    BY <1>3
  <2>2. port2 \ {Response(in).rob} = kept
    BY <1>2, <1>3, <1>6, <1>7
  <2>3. L \ {Response(in).rob} = L
    BY <1>2, <1>3, <1>6, <1>7
  <2>4. port1 \ {Response(in).rob} = IF Miss THEN port1 ELSE {}
    <3>1. CASE Miss
      <4>1. Response(in).rob \in port2 \cup {NoRob}
        BY <1>2, <1>6, <1>7, <3>1
      <4> QED BY <1>3, <3>1, <4>1
    <3>2. CASE ~Miss
      BY <1>2, <1>7, <3>2
    <3> QED BY <3>1, <3>2
  <2>5. (L \ gone) \cup next1 = L \cup (IF Miss THEN port1 ELSE {})
    <3>1. CASE Miss
      BY <1>2, <3>1
    <3>2. CASE ~Miss /\ Fires(in)
      <4>1. gone = {Head1.rob} /\ Head1.op.store \in BOOLEAN
            /\ Head1.rob \in RobsOf(mq, Head1.op.store)
        BY <1>4, <1>6, <3>2
      <4>2. Head1.op.store => Head1.rob \notin L
        BY <1>3, <4>1
      <4>3. ~Head1.op.store => Head1.rob \in L
        BY <4>1 DEF L
      <4> QED BY <3>2, <4>1, <4>2, <4>3
    <3>3. CASE ~Miss /\ ~Fires(in)
      <4>1. \A s \in gone : s \notin L
        BY <1>3, <1>4, <1>6, <3>3
      <4> QED BY <3>3, <4>1
    <3> QED BY <3>1, <3>2, <3>3
  <2>6. HeldLoads' = Taken(in) \cup (L \ gone) \cup kept \cup next1
    BY <1>9
  <2> HIDE DEF port1, port2, next1, kept, gone
  <2> QED BY <2>1, <2>2, <2>3, <2>4, <2>5, <2>6
<1>12. nInflight' = nInflight + (IF Taken(in) # {} THEN 1 ELSE 0)
                              - (IF Response(in).rob # NoRob THEN 1 ELSE 0)
  <2>1. nInflight' = nInflight + (IF Accept(in) THEN 1 ELSE 0)
                               - (IF Answer2(in) \/ LoadHit THEN 1 ELSE 0)
    BY DEF Active, Counts
  <2>2. Taken(in) # {} <=> Accept(in)
    BY <1>8
  <2>3. Response(in).rob # NoRob <=> Answer2(in) \/ LoadHit
    <3>1. LoadHit => p1.on
      BY DEF LoadHit, Hit1
    <3> QED BY <1>3, <1>6, <1>7, <3>1
  <2> QED BY <2>1, <2>2, <2>3
<1> QED BY <1>10, <1>11, <1>12 DEF HeldStep

(* A cycle of the active cache keeps all of it. *)
LEMMA ActiveStep ==
    ASSUME CacheInv, nInflight \in Nat, NEW in, Fits(in), Active(in)
    PROVE  Good(in)
<1>1. EmptyStep(in)
  <2>1. Empties(in, Fires(in), Accept(in), PushMiss(in))
    BY DEF Active
  <2>2. memqEmpty' => mq = <<>> /\ ~Accept(in) /\ ~PushMiss(in)
    BY <2>1 DEF Empties
  <2>3. ~On2 /\ in.req = NoReq => ~Accept(in) /\ ~PushMiss(in)
    BY DEF Accept, PushMiss
  <2>4. On2' <=> Accept(in)
    BY ActivePorts
  <2> QED BY <2>2, <2>3, <2>4, ActiveQueue DEF EmptyStep
<1> QED BY <1>1, ActiveTypes, ActiveSlots, ActiveMarks, ActiveState, ActiveHeld DEF Good, CacheInv

(* Whatever state the cache is in. *)
LEMMA CacheGood ==
    ASSUME CacheInv, nInflight \in Nat, NEW in, Fits(in), CacheStep(in)
    PROVE  Good(in)
BY IdleStates, ActiveStep, InjectReloadStep, HandleReloadStep DEF CacheStep
-----------------------------------------------------------------------------
(***************************************************************************)
(* The core and the cache together.                                        *)
(***************************************************************************)
(* What the core asks for and the memory answers is what the cache relies on: the
   request is of an operation that has not been sent, and a flush is asked for when
   the reorder buffer is empty. *)
LEMMA InputsFit ==
    ASSUME IInv, NEW answered \in Answers
    PROVE  /\ Fits(Inputs(answered)) /\ Inputs(answered).req = Request
           /\ Inputs(answered).flush = flush
<1> DEFINE in == Inputs(answered)
<1>1. in.req = Request /\ in.flush = flush /\ in.rsp = answered
  BY DEF Inputs
<1>2. /\ CoreType /\ NoTwo(win) /\ Sent = HeldLoads
      /\ flushReq => core = "MONITOR_FLUSH_CACHE"
      /\ core = "MONITOR_FLUSH_CACHE" => win = <<>>
  BY DEF IInv, TypeOK, WindowInv, HeldInv, FlushInv
<1> HIDE DEF in
<1>3. ASSUME in.req # NoReq PROVE in.req \in Reqs /\ in.req.rob \notin HeldLoads
  <2>1. PICK k \in DOMAIN win : win[k].st = "queued" /\ in.req.rob = win[k].rob
    BY <1>1, <1>2, <1>3, RequestIs
  <2>2. in.req.rob \notin Sent
    BY <1>2, <2>1 DEF Sent, NoTwo
  <2> QED BY <1>1, <1>2, <1>3, <2>2, RequestIs
<1>4. flushReq => HeldLoads = {}
  BY <1>2 DEF Sent
<1>5. in.rsp \in BOOLEAN /\ in.flush \in BOOLEAN /\ (in.rsp => memReq.valid)
  BY <1>1, <1>2 DEF Answers, CoreType
<1>6. Fits(in)
  BY <1>3, <1>4, <1>5 DEF Fits
<1> QED BY <1>1, <1>6 DEF in

(* How the states of the cache follow each other. *)
LEMMA CacheMoves ==
    ASSUME NEW in, CacheStep(in), flushReq \in BOOLEAN, in.flush \in BOOLEAN,
           flushDone => state = "ACTIVE"
    PROVE  /\ state' \in Starting => state \in Starting
           /\ state' \in Flushing =>
                 \/ state \in Flushing /\ (flushReq' => flushReq \/ in.flush)
                 \/ state = "ACTIVE" /\ flushReq /\ ~flushReq'
           /\ flushDone' => state' = "ACTIVE" /\ state \in Starting \cup Flushing
           /\ flushReq' => flushReq \/ in.flush
<1>1. CASE Initialize(in)
  BY <1>1 DEF Initialize, Paused, Starting, Flushing
<1>2. CASE InitCache(in)
  BY <1>2 DEF InitCache, Paused, Starting, Flushing
<1>3. CASE Active(in)
  <2>1. FlushStarts(in) => flushReq
    BY DEF FlushStarts
  <2> QED BY <1>3, <2>1 DEF Active, Starting, Flushing
<1>4. CASE InjectReload(in)
  BY <1>4 DEF InjectReload, Starting, Flushing
<1>5. CASE HandleReload(in)
  BY <1>5 DEF HandleReload, Paused, Starting, Flushing
<1>6. CASE FlushCache(in)
  <2>1. /\ state = "FLUSH_CACHE" /\ flushReq' = (flushReq \/ in.flush)
        /\ state' \in {"FLUSH_CACHE_LAST_WAIT", "FLUSH_CACHE_WAIT", "ACTIVE", "FLUSH_CACHE"}
        /\ flushDone' => state' = "ACTIVE"
    BY <1>6 DEF FlushCache, Paused
  <2> QED BY <2>1 DEF Starting, Flushing
<1>7. CASE FlushCacheWait(in)
  BY <1>7 DEF FlushCacheWait, Paused, Starting, Flushing
<1> QED BY <1>1, <1>2, <1>3, <1>4, <1>5, <1>6, <1>7 DEF CacheStep

(* A flush is asked for, done and reported once, while the core waits for it
   (flush_req_l1d, r_flush_req, r_flush_complete). *)
LEMMA FlushStep ==
    ASSUME TypeOK, FlushInv, NEW in, in.flush = flush, CacheStep(in), CoreStep(in)
    PROVE  FlushInv'
<1>1. /\ flush \in BOOLEAN /\ flushReq \in BOOLEAN /\ flushDone \in BOOLEAN
      /\ state \in Starting => core = "FLUSH_FOR_HALT"
      /\ flush \/ flushReq \/ state \in Flushing => core = "MONITOR_FLUSH_CACHE" /\ ~flushDone
      /\ ~(flush /\ flushReq)
      /\ state \in Flushing => ~flush /\ ~flushReq
      /\ flushDone => state = "ACTIVE"
  BY DEF TypeOK, CacheType, CoreType, FlushInv
<1>2. /\ state' \in Starting => state \in Starting
      /\ state' \in Flushing =>
            \/ state \in Flushing /\ (flushReq' => flushReq \/ flush)
            \/ state = "ACTIVE" /\ flushReq /\ ~flushReq'
      /\ flushDone' => state' = "ACTIVE" /\ state \in Starting \cup Flushing
      /\ flushReq' => flushReq \/ flush
  BY <1>1, CacheMoves
<1>3. /\ core = "FLUSH_FOR_HALT" /\ ~flushDone => core' = core
      /\ core = "MONITOR_FLUSH_CACHE" => ~flush' /\ (~flushDone => core' = core)
      /\ flush' => flush \/ (core = "ACTIVE" /\ core' = "MONITOR_FLUSH_CACHE")
  BY DEF CoreStep, Run, Restart, Drain, Rat, Monitor, MonitorFlush, FlushForHalt, Halt
<1>4. "ACTIVE" \notin Starting \cup Flushing
  BY DEF Starting, Flushing
<1>5. state' \in Starting => core' = "FLUSH_FOR_HALT"
  BY <1>1, <1>2, <1>3, <1>4
<1>6. flush' => /\ core' = "MONITOR_FLUSH_CACHE" /\ ~flushDone' /\ ~flushReq'
                /\ state' \notin Flushing
  BY <1>1, <1>2, <1>3
<1>7. flushReq' => core' = "MONITOR_FLUSH_CACHE" /\ ~flushDone'
  <2>1. flushReq' => core = "MONITOR_FLUSH_CACHE" /\ ~flushDone /\ state \notin Flushing
    BY <1>1, <1>2
  <2> QED BY <1>1, <1>2, <1>3, <2>1
<1>8. state' \in Flushing => /\ core' = "MONITOR_FLUSH_CACHE" /\ ~flushDone'
                             /\ ~flush' /\ ~flushReq'
  BY <1>1, <1>2, <1>3, <1>4
<1> QED BY <1>2, <1>5, <1>6, <1>7, <1>8 DEF FlushInv

(* The slots that are sent remain the ones that are held, and their number the count
   of the cache. *)
LEMMA HeldKept ==
    ASSUME HeldInv, CoreType, NEW in, SentStep(in), HeldStep(in),
           Taken(in) # {} => in.req.rob \notin HeldLoads
    PROVE  HeldInv'
<1>1. /\ Sent = HeldLoads /\ IsFiniteSet(HeldLoads) /\ nInflight = Cardinality(HeldLoads)
  BY DEF HeldInv
<1>2. Cardinality(HeldLoads) \in Nat
  BY <1>1, FS_CardinalityType
<1>3. NoRob \notin HeldLoads
  <2>1. \A i \in DOMAIN win : win[i].rob \in Slots
    <3>1. \A i \in DOMAIN win : win[i] \in Entries
      BY DEF CoreType
    <3> QED BY <3>1 DEF Entries
  <2>2. Sent \subseteq Slots
    BY <2>1 DEF Sent
  <2> QED BY <1>1, <2>2, L1DAssumption
<1> DEFINE left == HeldLoads \ {Response(in).rob}
           kept == left \cup Taken(in)
<1>4. /\ HeldLoads' = kept /\ Sent' = kept
      /\ Response(in).rob # NoRob => Response(in).rob \in HeldLoads
      /\ nInflight' = nInflight + (IF Taken(in) # {} THEN 1 ELSE 0)
                                - (IF Response(in).rob # NoRob THEN 1 ELSE 0)
  BY <1>1 DEF SentStep, HeldStep
<1>5. /\ IsFiniteSet(left)
      /\ Cardinality(left) = Cardinality(HeldLoads) - (IF Response(in).rob # NoRob THEN 1 ELSE 0)
  <2>1. /\ IsFiniteSet(left)
        /\ Cardinality(left) = IF Response(in).rob \in HeldLoads THEN Cardinality(HeldLoads) - 1
                               ELSE Cardinality(HeldLoads)
    BY <1>1, FS_RemoveElement
  <2>2. Response(in).rob \in HeldLoads <=> Response(in).rob # NoRob
    BY <1>3, <1>4
  <2> QED BY <1>2, <2>1, <2>2
<1>6. /\ IsFiniteSet(kept)
      /\ Cardinality(kept) = Cardinality(left) + (IF Taken(in) # {} THEN 1 ELSE 0)
  <2> HIDE DEF left
  <2>1. CASE Taken(in) = {}
    <3>1. kept = left /\ Cardinality(left) \in Nat
      BY <1>5, <2>1, FS_CardinalityType
    <3> QED BY <1>5, <2>1, <3>1
  <2>2. CASE Taken(in) # {}
    <3>1. Taken(in) = {in.req.rob} /\ in.req.rob \notin left
      BY <2>2 DEF Taken, left
    <3> QED BY <1>5, <2>2, <3>1, FS_AddElement
  <2> QED BY <2>1, <2>2
<1>7. nInflight' = Cardinality(kept)
  BY <1>1, <1>2, <1>4, <1>5, <1>6
<1> QED BY <1>4, <1>6, <1>7 DEF HeldInv

(* The reorder buffer is cleared only when the cache is empty and exec has no request
   for it (memq_empty, n_state of DRAIN). *)
LEMMA DrainStep ==
    ASSUME CoreType, WindowInv, DrainInv, NEW in, in.req = Request,
           CoreStep(in), EmptyStep(in)
    PROVE  DrainInv'
<1>1. memqEmpty \/ core = "RAT" => mq = <<>> /\ ~On2
  BY DEF DrainInv
<1>2. memqEmpty' \/ (mq = <<>> /\ ~On2 /\ Request = NoReq) => mq' = <<>> /\ ~On2'
  BY DEF EmptyStep
<1>3. ASSUME \A i \in DOMAIN win : win[i].st \in {"new", "done"} PROVE Request = NoReq
  BY <1>3 DEF Request, QueueHead, Oldest
<1>4. ASSUME core' = "RAT" PROVE mq = <<>> /\ ~On2 /\ Request = NoReq
  <2>1. \/ Drain(in) /\ memqEmpty /\ NoneInFlight
        \/ core = "RAT"
    BY <1>4 DEF CoreStep, Run, Restart, Drain, Rat, Monitor, MonitorFlush, FlushForHalt, Halt
  <2>2. \A i \in DOMAIN win : win[i].st \in {"new", "done"}
    BY <2>1 DEF NoneInFlight, WindowInv
  <2> QED BY <1>1, <1>3, <2>1, <2>2
<1> QED BY <1>2, <1>4 DEF DrainInv
(* A request is taken only while two entries are left, one of them for the request
   before it (mem_q_almost_full). *)
LEMMA RoomStep ==
    ASSUME CacheType, RoomInv, NEW in, CacheStep(in)
    PROVE  RoomInv'
<1>1. mq \in Seq(Reqs) /\ Len(mq) \in Nat /\ MqEntries \in Nat /\ MqEntries >= 2
      /\ p2.req \in Reqs \cup {NoReq}
  BY L1DAssumption DEF CacheType
<1>2. ~(NoP2.req # NoReq)
  BY DEF NoP2
<1>3. CASE ~Active(in)
  <2>1. mq' = mq /\ p2' = NoP2
    BY <1>3 DEF CacheStep, Initialize, InitCache, InjectReload, HandleReload, FlushCache,
       FlushCacheWait, Paused
  <2>2. ~On2'
    BY <1>2, <2>1 DEF On2
  <2>3. Len(mq) <= MqEntries
    <3>1. CASE On2
      BY <1>1, <3>1 DEF RoomInv
    <3>2. CASE ~On2
      BY <1>1, <3>2 DEF RoomInv
    <3> QED BY <3>1, <3>2
  <2> QED BY <1>1, <2>1, <2>2, <2>3 DEF RoomInv
<1>4. CASE Active(in)
  <2>1. On2' => Accept(in)
    BY <1>2, <1>4 DEF Active, NextP2, On2
  <2>2. Accept(in) => Len(mq) < MqEntries - 1
    BY DEF Accept
  <2>3. QueueLeft(in) \in Seq(Reqs) /\ Len(QueueLeft(in)) <= Len(mq)
    <3>1. Pops(in) => mq # <<>>
      BY DEF Pops, Fires, LoadFires, StoreFires, StoreKilled, MayFire
    <3>2. mq # <<>> => Tail(mq) \in Seq(Reqs) /\ Len(Tail(mq)) = Len(mq) - 1
      BY <1>1
    <3> QED BY <1>1, <3>1, <3>2 DEF QueueLeft
  <2>4. PICK l \in Nat : l = Len(QueueLeft(in)) /\ l <= Len(mq)
    BY <2>3
  <2>5. PushMiss(in) => On2
    BY DEF PushMiss
  <2>6. Len(mq') = l + (IF PushMiss(in) THEN 1 ELSE 0)
    <3>1. mq' = QueueLeft(in) \o (IF PushMiss(in) THEN <<p2.req>> ELSE <<>>)
      BY <1>4 DEF Active
    <3>2. PICK q \in Seq(Reqs) : q = QueueLeft(in) /\ Len(q) = l
      BY <2>3, <2>4
    <3>3. CASE PushMiss(in)
      <4>1. p2.req \in Reqs
        BY <1>1, <2>5, <3>3 DEF On2
      <4>2. mq' = q \o <<p2.req>>
        BY <3>1, <3>2, <3>3
      <4>3. Len(q \o <<p2.req>>) = Len(q) + 1
        BY <4>1
      <4> QED BY <3>2, <3>3, <4>2, <4>3
    <3>4. CASE ~PushMiss(in)
      <4>1. mq' = q \o <<>>
        BY <3>1, <3>2, <3>4
      <4>2. q \o <<>> = q
        OBVIOUS
      <4> QED BY <3>2, <3>4, <4>1, <4>2
    <3> QED BY <3>3, <3>4
  <2>7. PICK m \in Nat, k \in Nat : m = Len(mq) /\ k = Len(mq')
    BY <1>1, <2>6
  <2>8. k <= m + (IF On2 THEN 1 ELSE 0)
    BY <2>4, <2>5, <2>6, <2>7
  <2>9. m + (IF On2 THEN 1 ELSE 0) <= MqEntries
    BY <2>7 DEF RoomInv
  <2>10. k + (IF On2' THEN 1 ELSE 0) <= MqEntries
    <3>1. CASE On2'
      <4>1. m < MqEntries - 1 /\ k <= m + 1
        BY <2>1, <2>2, <2>7, <2>8, <3>1
      <4> QED BY <1>1, <3>1, <4>1
    <3>2. CASE ~On2'
      BY <1>1, <2>8, <2>9, <3>2
    <3> QED BY <3>1, <3>2
  <2> QED BY <2>7, <2>10 DEF RoomInv
<1> QED BY <1>3, <1>4

-----------------------------------------------------------------------------
(***************************************************************************)
(* The theorems.                                                           *)
(***************************************************************************)
(* After reset the cache, the buffer and the queues are empty. *)
LEMMA InitHolds == Init => IInv
<1> SUFFICES ASSUME Init PROVE IInv
  OBVIOUS
<1>1. /\ state = "INITIALIZE" /\ mq = <<>> /\ p1 = NoP1 /\ p2 = NoP2
      /\ early = FALSE /\ lock = FALSE /\ inhibit = FALSE
      /\ grad = [s \in Slots |-> 0] /\ slotBusy = {} /\ nInflight = 0
      /\ memqEmpty = TRUE /\ flushReq = FALSE /\ flushDone = FALSE /\ memReq = NoMem
      /\ core = "FLUSH_FOR_HALT" /\ dsDone = FALSE /\ drain = FALSE /\ win = <<>> /\ flush = FALSE
  BY DEF Init, CacheInit
<1>2. /\ p1.on = FALSE /\ p1.req = NoReq /\ p1.retry = FALSE /\ p1.reload = FALSE
      /\ p1 = [on |-> p1.on, req |-> p1.req, val |-> p1.val, retry |-> p1.retry,
               reload |-> p1.reload, busy |-> p1.busy, out |-> p1.out]
  BY <1>1 DEF NoP1
<1>3. p2.req = NoReq /\ ~On2
  BY <1>1 DEF NoP2, On2
<1>4. ~Pending1 /\ ~Store1
  BY <1>2 DEF Pending1, Store1
<1>5. TypeOK
  <2>1. state \in States /\ core \in CoreStates
    BY <1>1 DEF States, CoreStates
  <2>2. mq \in Seq(Reqs) /\ win \in Seq(Entries)
    BY <1>1
  <2>3. grad \in [Slots -> 0 .. 2]
    BY <1>1
  <2>4. CacheType
    BY <1>1, <1>2, <1>3, <2>1, <2>2, <2>3 DEF CacheType
  <2> QED BY <1>1, <2>1, <2>2, <2>4 DEF TypeOK, CoreType
<1>6. WindowInv /\ SlotsInv /\ MarksInv
  <2>1. WindowInv
    BY <1>1 DEF WindowInv, NoTwo
  <2>2. SlotsInv
    BY <1>1, <1>3, <1>4 DEF SlotsInv, NoTwo, AllRobs
  <2>3. MarksInv
    BY <1>1, <1>4 DEF MarksInv, RobsOf
  <2> QED BY <2>1, <2>2, <2>3
<1>7. HeldInv
  <2>1. HeldLoads = {} /\ Sent = {}
    BY <1>1, <1>3, <1>4 DEF HeldLoads, Sent
  <2> QED BY <1>1, <2>1, FS_EmptySet DEF HeldInv
<1>8. StateInv
  BY <1>1, <1>2, <1>3 DEF StateInv, NoMem, Waiting, Missing
<1>9. FlushInv /\ DrainInv
  BY <1>1, <1>3 DEF FlushInv, DrainInv, Starting, Flushing
<1>10. RoomInv
  BY <1>1, <1>3, L1DAssumption DEF RoomInv
<1> QED BY <1>5, <1>6, <1>7, <1>8, <1>9, <1>10 DEF IInv

(* Every cycle of the machine keeps the invariant. *)
LEMMA StepKeeps == IInv /\ [Next]_vars => IInv'
<1> SUFFICES ASSUME IInv, [Next]_vars PROVE IInv'
  OBVIOUS
<1>1. CASE UNCHANGED vars
  <2>1. /\ cacheVars' = cacheVars /\ coreVars' = coreVars
    BY <1>1 DEF vars
  <2>2. /\ On2' = On2 /\ Op1' = Op1 /\ Pending1' = Pending1 /\ Store1' = Store1
        /\ Sent' = Sent /\ HeldLoads' = HeldLoads /\ TagMatch1' = TagMatch1
    BY <2>1 DEF cacheVars, coreVars, On2, Op1, Pending1, Store1, Sent, HeldLoads, TagMatch1
  <2>3. TypeOK'
    BY <2>1 DEF IInv, TypeOK, CacheType, CoreType, cacheVars, coreVars
  <2>4. WindowInv' /\ SlotsInv' /\ MarksInv'
    BY <2>1, <2>2 DEF IInv, WindowInv, SlotsInv, MarksInv, cacheVars, coreVars
  <2>5. HeldInv'
    BY <2>1, <2>2 DEF IInv, HeldInv, cacheVars
  <2>6. StateInv'
    BY <2>1, <2>2 DEF IInv, StateInv, cacheVars
  <2>7. FlushInv' /\ DrainInv' /\ RoomInv'
    BY <2>1, <2>2 DEF IInv, FlushInv, DrainInv, RoomInv, cacheVars, coreVars
  <2> QED BY <2>3, <2>4, <2>5, <2>6, <2>7 DEF IInv
<1>2. CASE Next
  <2>1. PICK answered \in Answers :
           /\ CacheStep(Inputs(answered)) /\ CoreStep(Inputs(answered))
           /\ Environment(Inputs(answered), answered)
    BY <1>2 DEF Next
  <2>2. PICK in : in = Inputs(answered)
    OBVIOUS
  <2>3. CacheStep(in) /\ CoreStep(in) /\ drain' = dsDone
    BY <2>1, <2>2 DEF Environment
  <2>4. Fits(in) /\ in.req = Request /\ in.flush = flush
    BY <2>2, InputsFit
  <2>5. /\ TypeOK /\ CacheType /\ CoreType /\ WindowInv /\ HeldInv /\ FlushInv /\ DrainInv
        /\ RoomInv /\ CacheInv
    BY DEF IInv, TypeOK, CacheInv
  <2>6. nInflight \in Nat
    BY <2>5, FS_CardinalityType DEF HeldInv
  <2>7. Good(in)
    BY <2>3, <2>4, <2>5, <2>6, CacheGood
  <2>8. CacheInv' /\ HeldStep(in) /\ EmptyStep(in)
    BY <2>7 DEF Good
  <2>9. Taken(in) # {} => in.req.rob \notin HeldLoads /\ in.req.rob # NoRob
                          /\ Taken(in) = {in.req.rob}
    <3>1. Taken(in) # {} => in.req # NoReq /\ Taken(in) = {in.req.rob}
      BY DEF Taken, Accept
    <3>2. in.req # NoReq => in.req.rob \notin HeldLoads /\ in.req.rob # NoRob
      BY <2>4, ReqFields DEF Fits
    <3> QED BY <3>1, <3>2
  <2>10. Response(in).rob \notin Taken(in)
    <3>1. Response(in).rob # NoRob => Response(in).rob \in HeldLoads
      BY <2>8 DEF HeldStep
    <3> QED BY <2>9, <3>1
  <2>11. /\ win' \in Seq(Entries) /\ WindowInv' /\ SentStep(in)
         /\ core' \in CoreStates /\ flush' \in BOOLEAN /\ dsDone' \in BOOLEAN
    BY <2>3, <2>4, <2>5, <2>10, CoreWindowStep
  <2>12. TypeOK'
    BY <2>3, <2>5, <2>8, <2>11 DEF TypeOK, CoreType, CacheInv
  <2>13. HeldInv'
    BY <2>5, <2>8, <2>9, <2>11, HeldKept
  <2>14. FlushInv'
    BY <2>3, <2>4, <2>5, FlushStep
  <2>15. DrainInv'
    BY <2>3, <2>4, <2>5, <2>8, DrainStep
  <2>16. RoomInv'
    BY <2>3, <2>5, RoomStep
  <2> QED BY <2>8, <2>11, <2>12, <2>13, <2>14, <2>15, <2>16 DEF IInv, CacheInv
<1> QED BY <1>1, <1>2

(* The registers of the cache and of the core keep their ranges, and the queue, the two
   ports, the slots and the flush handshake agree with each other. *)
THEOREM Invariant == Spec => []IInv
BY InitHolds, StepKeeps, PTL DEF Spec

(* Every load or store that the cache took and has not answered is in it, in a port or
   in the queue, and r_n_inflight counts them. *)
THEOREM RequestsKept == Spec => []NoneForgotten
<1>1. IInv => NoneForgotten
  BY DEF IInv, HeldInv, NoneForgotten
<1> QED BY <1>1, Invariant, PTL

(* A line is given up with its last contents: no write comes between the read of a
   miss and the decision on it (t_mh_block, rr_last_wr). *)
THEOREM VictimIsFresh == Spec => []VictimFresh
<1>1. IInv => VictimFresh
  BY DEF IInv, StateInv, VictimFresh, Miss
<1> QED BY <1>1, Invariant, PTL

(* When the reorder buffer is cleared the cache has nothing left of what is thrown
   away; what it still has is a store that has retired. *)
THEOREM DrainLeavesNothing == Spec => []DrainedClean
<1>1. IInv => DrainedClean
  <2> SUFFICES ASSUME IInv, core = "RAT" PROVE
                 /\ mq = <<>> /\ ~On2 /\ nInflight = 0
                 /\ \A s \in Slots : grad[s] # 0 \/ s \in slotBusy =>
                      p1.req # NoReq /\ Op1.store /\ p1.req.rob = s /\ grad[s] = 2
    BY DEF DrainedClean
  <2>1. mq = <<>> /\ ~On2
    BY DEF IInv, DrainInv
  <2>2. HeldLoads = {} /\ nInflight = 0
    <3>1. \A i \in DOMAIN win : win[i].st \in {"new", "done"}
      BY DEF IInv, WindowInv
    <3>2. Sent = {}
      BY <3>1 DEF Sent
    <3> QED BY <3>2, FS_EmptySet DEF IInv, HeldInv
  <2>3. Pending1 => Op1.store
    BY <2>2 DEF HeldLoads
  <2>4. AllRobs(mq) = {} /\ RobsOf(mq, TRUE) = {}
    BY <2>1 DEF AllRobs, RobsOf
  <2>5. ASSUME NEW s \in Slots, grad[s] # 0 \/ s \in slotBusy
        PROVE  Store1 /\ p1.req.rob = s
    <3>1. grad[s] # 0 => Store1 /\ p1.req.rob = s
      BY <2>4 DEF IInv, MarksInv
    <3>2. s \in slotBusy => Pending1 /\ p1.req.rob = s
      BY <2>4 DEF IInv, SlotsInv
    <3> QED BY <2>3, <2>5, <3>1, <3>2 DEF Store1, Pending1
  <2>6. Store1 => grad[p1.req.rob] = 2
    BY DEF IInv, MarksInv
  <2> QED BY <2>1, <2>2, <2>5, <2>6 DEF Store1
<1> QED BY <1>1, Invariant, PTL

(* A request to the memory system stays as it is until it is answered: the states that
   make one are not those that wait for one (mem_req_valid). *)
THEOREM AsksOnce == Spec => OneRequest
<1>1. IInv /\ [Next]_vars => (memReq.valid /\ memReq'.valid => memReq' = memReq)
  <2> SUFFICES ASSUME IInv, [Next]_vars, memReq.valid, memReq'.valid PROVE memReq' = memReq
    OBVIOUS
  <2>1. CASE UNCHANGED vars
    BY <2>1 DEF vars, cacheVars
  <2>2. CASE Next
    <3>1. PICK answered \in Answers : CacheStep(Inputs(answered))
      BY <2>2 DEF Next
    <3>2. PICK in : in = Inputs(answered) /\ CacheStep(in)
      BY <3>1
    <3>3. state \in Waiting
      BY DEF IInv, StateInv
    <3>4. InjectReload(in) \/ FlushCacheWait(in)
      BY <3>2, <3>3 DEF CacheStep, Waiting, Initialize, InitCache, Active, HandleReload, FlushCache
    <3>5. Asks(in, NoMem)
      BY <3>4 DEF InjectReload, FlushCacheWait
    <3> QED BY <3>5 DEF Asks, NoMem
  <2> QED BY <2>1, <2>2
<1> QED BY <1>1, Invariant, PTL DEF Spec, OneRequest

(* A request is accepted a cycle before it is known whether it must be queued, while
   the one before it is being queued: there is an entry for both, and no request is
   pushed to a full queue (the $stop of l1d.sv; mem_q_almost_full). *)
QueueFits ==
    \A answered \in Answers :
        state = "ACTIVE" /\ PushMiss(Inputs(answered)) => Len(mq) < MqEntries

(* A request that has been accepted finds an entry of the retry queue: the $stop of
   l1d.sv is never reached. *)
THEOREM QueueNeverFull == Spec => []QueueFits
<1>1. IInv => QueueFits
  <2> SUFFICES ASSUME IInv, NEW in, PushMiss(in) PROVE Len(mq) < MqEntries
    BY DEF QueueFits
  <2>1. On2
    BY DEF PushMiss
  <2>2. Len(mq) + 1 <= MqEntries
    BY <2>1 DEF IInv, RoomInv
  <2>3. Len(mq) \in Nat /\ MqEntries \in Nat
    BY L1DAssumption DEF IInv, TypeOK, CacheType
  <2> QED BY <2>2, <2>3
<1> QED BY <1>1, Invariant, PTL

\* r_n_inflight has a bit more than an index of the queue.
CounterFits == nInflight < 2 * MqEntries

(* The counter of the requests not answered does not wrap: there are at most as many
   as the queue has entries, and one in port 1 (r_n_inflight). *)
THEOREM CounterNeverWraps == Spec => []CounterFits
<1>1. IInv => CounterFits
  <2> SUFFICES ASSUME IInv PROVE nInflight < 2 * MqEntries
    BY DEF CounterFits
  <2>1. /\ mq \in Seq(Reqs) /\ Len(mq) \in Nat /\ MqEntries \in Nat /\ MqEntries >= 2
        /\ Len(mq) + (IF On2 THEN 1 ELSE 0) <= MqEntries
        /\ IsFiniteSet(HeldLoads) /\ nInflight = Cardinality(HeldLoads)
    BY L1DAssumption DEF IInv, TypeOK, CacheType, RoomInv, HeldInv
  <2> DEFINE A == AllRobs(mq)
             B == A \cup {p1.req.rob}
  <2>2. IsFiniteSet(A) /\ Cardinality(A) \in Nat /\ Cardinality(A) <= Len(mq)
    <3> DEFINE f == [i \in 1 .. Len(mq) |-> mq[i].rob]
    <3>1. f \in Surjection(1 .. Len(mq), A)
      <4>1. \A i \in 1 .. Len(mq) : f[i] \in A
        BY <2>1 DEF AllRobs
      <4>2. f \in [1 .. Len(mq) -> A]
        BY <4>1
      <4>3. \A s \in A : \E i \in 1 .. Len(mq) : f[i] = s
        BY <2>1 DEF AllRobs
      <4> QED BY <4>2, <4>3, Fun_IsSurj
    <3>2. IsFiniteSet(1 .. Len(mq)) /\ Cardinality(1 .. Len(mq)) = Len(mq)
      <4>1. IsFiniteSet(1 .. Len(mq))
            /\ Cardinality(1 .. Len(mq)) = IF 1 > Len(mq) THEN 0 ELSE Len(mq) - 1 + 1
        <5>1. 1 \in Int /\ Len(mq) \in Int
          BY <2>1
        <5> QED BY <5>1, FS_Interval
      <4> QED BY <2>1, <4>1
    <3> HIDE DEF A, f
    <3>3. IsFiniteSet(A) /\ Cardinality(A) <= Cardinality(1 .. Len(mq))
      BY <3>1, <3>2, FS_Surjection
    <3> QED BY <3>2, <3>3, FS_CardinalityType
  <2>3. HeldLoads \subseteq B \cup (IF On2 THEN {p2.req.rob} ELSE {})
    BY DEF HeldLoads, AllRobs
  <2> HIDE DEF A
  <2>4. IsFiniteSet(B) /\ Cardinality(B) \in Nat /\ Cardinality(B) <= Len(mq) + 1
    <3>1. IsFiniteSet(B) /\ Cardinality(B) <= Cardinality(A) + 1
      <4>1. /\ IsFiniteSet(A \cup {p1.req.rob})
            /\ Cardinality(A \cup {p1.req.rob})
                 = IF p1.req.rob \in A THEN Cardinality(A) ELSE Cardinality(A) + 1
        BY <2>2, FS_AddElement
      <4> QED BY <2>2, <4>1
    <3>2. Cardinality(B) \in Nat
      BY <3>1, FS_CardinalityType
    <3> QED BY <2>1, <2>2, <3>1, <3>2
  <2> HIDE DEF B
  <2>5. Cardinality(HeldLoads) \in Nat
    BY <2>1, FS_CardinalityType
  <2>6. CASE On2
    <3>1. IsFiniteSet(B \cup {p2.req.rob}) /\ Cardinality(B \cup {p2.req.rob}) <= Cardinality(B) + 1
      <4>1. /\ IsFiniteSet(B \cup {p2.req.rob})
            /\ Cardinality(B \cup {p2.req.rob})
                 = IF p2.req.rob \in B THEN Cardinality(B) ELSE Cardinality(B) + 1
        BY <2>4, FS_AddElement
      <4> QED BY <2>4, <4>1
    <3>2. Cardinality(B \cup {p2.req.rob}) \in Nat
      BY <3>1, FS_CardinalityType
    <3>3. Cardinality(HeldLoads) <= Cardinality(B \cup {p2.req.rob})
      BY <2>3, <2>6, <3>1, FS_Subset
    <3>4. Len(mq) + 1 <= MqEntries
      BY <2>1, <2>6
    <3> QED BY <2>1, <2>4, <2>5, <3>1, <3>2, <3>3, <3>4
  <2>7. CASE ~On2
    <3>1. Cardinality(HeldLoads) <= Cardinality(B)
      BY <2>3, <2>4, <2>7, FS_Subset
    <3>2. Len(mq) <= MqEntries
      BY <2>1, <2>7
    <3> QED BY <2>1, <2>4, <2>5, <3>1, <3>2
  <2> QED BY <2>6, <2>7
<1> QED BY <1>1, Invariant, PTL
================================================================================
