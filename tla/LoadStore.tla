------------------------------- MODULE LoadStore -------------------------------
(***************************************************************************)
(* The way of a memory operation: the reorder buffer of core.sv as far as  *)
(* it holds loads and stores, the request and the store-data queue of      *)
(* exec.sv, the data cache, and the memory behind it, which answers a      *)
(* request after any time.                                                 *)
(*                                                                         *)
(* Addresses are computed in program order and requests leave exec in that *)
(* order; store data follow in a queue of their own.  A store leaves the   *)
(* reorder buffer before it is performed, and its slot can be used again.  *)
(* Architectural faults, whose flush does not wait for the loads behind    *)
(* the fault, are left to Core; here the buffer is emptied by a drain.     *)
(***************************************************************************)
EXTENDS L1D, FiniteSetsExt

CONSTANTS
    Window    \* how many loads and stores the reorder buffer holds at once

ASSUME WindowAssumption == Window \in Nat

\* An aligned access is to one word, and one across the end of its line is not sent as
\* a store.
ASSUME OpsAssumption ==
    /\ Tags # {} /\ Vals # {}
    /\ \A op \in Ops : /\ ~op.unaligned => op.words \subseteq {op.word}
                       /\ op.nop => ~op.store

VARIABLES
    core,       \* r_state of core.sv
    dsDone,     \* r_ds_done
    drain,      \* drain_ds_complete
    win,        \* the loads and stores of the reorder buffer, oldest first
    mdq,        \* r_mdq of exec.sv
    retired,    \* the slots of retired_rob_ptr and retired_rob_ptr_two
    flush,      \* r_flush_req_l1d
    mem,        \* what the memory behind the cache holds
    committed   \* what it would hold had every retired store been performed

coreVars == <<core, dsDone, drain, win, mdq, retired, flush>>
vars == <<cacheVars, coreVars, mem, committed>>

\* st: the operation waits for its address, its request is in exec's queue, in the
\* cache, or answered; data: the store data have been read and are in their queue.
Entry(op, rob) == [op |-> op, rob |-> rob, st |-> "new", data |-> FALSE]
Entries == [op : Ops, rob : Slots, st : {"new", "queued", "sent", "done"}, data : BOOLEAN]

\* The oldest operation in a stage.
Oldest(st) == {i \in DOMAIN win : win[i].st = st /\ \A j \in 1 .. i - 1 : win[j].st # st}
QueueHead == Oldest("queued")
AwaitData == {i \in DOMAIN win : win[i].op.store /\ ~win[i].data}
DataHead == {i \in AwaitData : \A j \in AwaitData : i <= j}

AnyVal == Zeros[CHOOSE w \in Words : TRUE]
Request ==
    IF QueueHead = {} THEN NoReq
    ELSE LET e == win[CHOOSE i \in QueueHead : TRUE] IN [op |-> e.op, rob |-> e.rob]

\* The inputs of the cache; answered is whether the memory answers now.
Inputs(answered) ==
    [req |-> Request,
     data |-> IF mdq = <<>> THEN [rob |-> NoRob, val |-> AnyVal] ELSE mdq[1],
     retired |-> retired,
     drain |-> drain,
     dead |-> {win[i].rob : i \in DOMAIN win},
     flush |-> flush,
     rsp |-> answered,
     line |-> IF memReq.store THEN Zeros ELSE mem[memReq.set][memReq.tag]]

Memory(answered) ==
    mem' = IF answered /\ memReq.store
           THEN [mem EXCEPT ![memReq.set][memReq.tag] = memReq.data] ELSE mem
-----------------------------------------------------------------------------
(***************************************************************************)
(* The reorder buffer and the queues of exec.                              *)
(***************************************************************************)

\* An access across the end of its line faults instead of retiring.
MayRetire(e) == e.st = "done" /\ ~e.op.nop /\ (e.op.store => e.data)

\* The window after what the cache says in this cycle; the operations at the places
\* pop and data, at most one each, get their address and their store data in it.
Updated(in, pop, data) ==
    [i \in DOMAIN win |->
        [win[i] EXCEPT
            !.st = IF win[i].rob = Response(in).rob THEN "done"
                   ELSE IF i \in QueueHead /\ state = "ACTIVE" /\ Accept(in) THEN "sent"
                   ELSE IF i \in pop THEN "queued" ELSE @,
            !.data = @ \/ i \in data]]

PushData(in, data) ==
    mdq' = (IF state = "ACTIVE" /\ StoreFires(in) THEN Tail(mdq) ELSE mdq)
             \o (IF data = {} THEN <<>>
                 ELSE LET e == win[CHOOSE i \in data : TRUE]
                      IN  <<[rob |-> e.rob, val |-> e.op.val]>>)

\* The stores to a word among the operations of q at the places I, and what the lines
\* hold after these operations: a word has the value of the last store to it.
Writers(q, I, s, t, w) ==
    {i \in I : q[i].op.store /\ q[i].op.set = s /\ q[i].op.tag = t /\ w \in q[i].op.words}
After(lines, q, I) ==
    [s \in Sets |-> [t \in Tags |-> [w \in Words |->
        LET ws == Writers(q, I, s, t, w)
        IN  IF ws = {} THEN lines[s][t][w] ELSE q[Max(ws)].op.val]]]

\* One cycle of the queues, whatever the core does: n operations retire and one of
\* the sequences in "news" is allocated.  Nothing is popped for exec's queue in the cycle after one
\* with r_ds_done.
Flow(in, n, news) ==
    /\ n <= Len(win) /\ \A i \in 1 .. n : MayRetire(win[i])
    /\ retired' = {win[i].rob : i \in 1 .. n}
    /\ committed' = After(committed, win, 1 .. n)
    /\ \E pop \in {{}, IF drain THEN {} ELSE Oldest("new")}, data \in {{}, DataHead} :
          /\ PushData(in, data)
          /\ LET left == SubSeq(Updated(in, pop, data), n + 1, Len(win))
             IN  \E new \in news : win' = left \o new
-----------------------------------------------------------------------------
(***************************************************************************)
(* The states of the core.                                                 *)
(***************************************************************************)
Allocations ==
    {<<>>} \cup
    (IF Len(win) = Window THEN {}
     ELSE {<<Entry(op, rob)>> : op \in Ops, rob \in Slots \ {win[i].rob : i \in DOMAIN win}})

Run(in) ==
    /\ core = "ACTIVE"
    /\ \E n \in 0 .. 2 : Flow(in, n, Allocations)
    /\ UNCHANGED <<core, dsDone, flush>>

\* A mispredicted branch or an interrupt; branches are not in the window.
Restart(in) ==
    /\ core = "ACTIVE"
    /\ Flow(in, 0, {<<>>})
    /\ core' = "DRAIN" /\ dsDone' = TRUE
    /\ UNCHANGED flush

\* r_rob_inflight of the core is zero: what has no address yet (mq_wait) is struck
\* from it while r_ds_done is up.
NoneInFlight == \A i \in DOMAIN win : win[i].st = "done" \/ (drain /\ win[i].st = "new")
Drain_WithoutCache(in) ==
    /\ core = "DRAIN"
    /\ Flow(in, 0, {<<>>})
    /\ core' = IF NoneInFlight THEN "RAT" ELSE core
    /\ UNCHANGED <<dsDone, flush>>
Drain(in) ==
    /\ core = "DRAIN"
    /\ Flow(in, 0, {<<>>})
    /\ core' = IF memqEmpty /\ NoneInFlight THEN "RAT" ELSE core
    /\ UNCHANGED <<dsDone, flush>>

\* t_clr_rob; ack is the answer of the fetch unit.
Rat(in, ack) ==
    /\ core = "RAT"
    /\ win' = <<>> /\ mdq' = <<>> /\ retired' = {}
    /\ core' = IF ack THEN "ACTIVE" ELSE core
    /\ dsDone' = ~ack
    /\ UNCHANGED <<flush, committed>>

Monitor_BesideLoads(in) ==
    /\ core = "ACTIVE"
    /\ core' = "MONITOR_FLUSH_CACHE" /\ flush' = TRUE
    /\ Flow(in, 0, {<<>>})
    /\ UNCHANGED dsDone
\* A serializing instruction waits until the reorder buffer is empty.
Monitor(in) ==
    /\ core = "ACTIVE" /\ win = <<>>
    /\ core' = "MONITOR_FLUSH_CACHE" /\ flush' = TRUE
    /\ retired' = {} /\ win' = win
    /\ PushData(in, {})
    /\ UNCHANGED <<dsDone, committed>>

\* The monitor call that follows, with no load or store in it, is left out.
MonitorFlush(in) ==
    /\ core = "MONITOR_FLUSH_CACHE"
    /\ Flow(in, 0, {<<>>})
    /\ flush' = FALSE
    /\ core' = IF flushDone THEN "ACTIVE" ELSE core
    /\ UNCHANGED dsDone

\* The flush after reset.
FlushForHalt(in) ==
    /\ core = "FLUSH_FOR_HALT"
    /\ Flow(in, 0, {<<>>})
    /\ core' = IF flushDone THEN "HALT" ELSE core
    /\ UNCHANGED <<dsDone, flush>>

\* The host lets the core run.
Halt(in) ==
    /\ core = "HALT"
    /\ Flow(in, 0, {<<>>})
    /\ core' \in {"HALT", "ACTIVE"}
    /\ UNCHANGED <<dsDone, flush>>

CoreStep(in) ==
    \/ Run(in) \/ Restart(in) \/ Drain(in) \/ \E ack \in BOOLEAN : Rat(in, ack)
    \/ Monitor(in) \/ MonitorFlush(in) \/ FlushForHalt(in) \/ Halt(in)

Environment(in, answered) ==
    /\ Memory(answered)
    /\ drain' = dsDone

Init ==
    /\ CacheInit
    /\ core = "FLUSH_FOR_HALT" /\ dsDone = FALSE /\ drain = FALSE
    /\ win = <<>> /\ mdq = <<>> /\ retired = {} /\ flush = FALSE
    /\ mem = [s \in Sets |-> [t \in Tags |-> Zeros]]
    /\ committed = mem

Answers == {a \in BOOLEAN : a => memReq.valid}
Next ==
    \E answered \in Answers :
        LET in == Inputs(answered)
        IN  CacheStep(in) /\ CoreStep(in) /\ Environment(in, answered)

Spec == Init /\ [][Next]_vars
-----------------------------------------------------------------------------

\* What a load at place i of the window must read.
Before(i) == After(committed, win, 1 .. i - 1)

(* A load is answered with what the stores before it in program order have left,
   wherever these are: in the arrays, in port 1, in the queue or still without
   their data (MayBypass, Accept, r_must_forward2). *)
LoadsExact ==
    core = "ACTIVE" =>
        \A answered \in Answers :
            LET rsp == Response(Inputs(answered)) IN
            rsp.words # Unread =>
                \E i \in DOMAIN win :
                    /\ win[i].rob = rsp.rob
                    /\ rsp.words = ReadWords(win[i].op, Before(i)[win[i].op.set][win[i].op.tag])

\* The request that waits for its line, or is about to be decided, in port 1.
Pending1 == p1.req # NoReq /\ ~(state = "HANDLE_RELOAD" /\ early)
Sent == {win[i].rob : i \in {j \in DOMAIN win : win[j].st = "sent"}}
HeldLoads ==
    (IF On2 THEN {p2.req.rob} ELSE {})
      \cup {mq[i].rob : i \in {j \in DOMAIN mq : ~mq[j].op.store}}
      \cup (IF Pending1 /\ ~Op1.store THEN {p1.req.rob} ELSE {})

(* Every request that was taken and not answered is somewhere in the cache, and
   the counter on which the end of a drain depends knows of it: none is
   forgotten, and none is answered twice (r_n_inflight). *)
NoneForgotten ==
    core # "RAT" => Sent = HeldLoads /\ nInflight = Cardinality(HeldLoads)

\* What the arrays hold, and for the other lines the memory.
View ==
    [s \in Sets |-> [t \in Tags |->
        IF arr[s].valid /\ arr[s].tag = t THEN arr[s].data ELSE mem[s][t]]]
Unretired == {win[i].rob : i \in {j \in DOMAIN win : win[j].st \in {"sent", "done"}}}
\* With the store of port 1, which has retired; and the places of the retired stores
\* that are still queued.
Written == IF p1.req # NoReq THEN After(View, <<p1.req>>, {1}) ELSE View
Graduated == {i \in DOMAIN mq : mq[i].op.store /\ mq[i].rob \notin Unretired}

(* Cache and memory together hold exactly the retired stores: with those still
   queued they are what the program has committed, and no store of a wrong path,
   no lost line and no line that is out of date is among them. *)
ViewExact ==
    state \notin {"INITIALIZE", "INIT_CACHE"} =>
        After(Written, mq, Graduated) = committed

(* What port 1 read of a line that is about to be given up is still what the
   arrays hold, so that no write is lost with it (t_mh_block; rr_last_wr). *)
VictimFresh ==
    state = "ACTIVE" /\ Miss => p1.out = arr[Op1.set]

(* When a recovery clears the reorder buffer, nothing of the wrong path is left in
   the cache to meet the next occupants of the slots (memq_empty). *)
DrainedClean ==
    core = "RAT" =>
        /\ mq = <<>> /\ ~On2 /\ nInflight = 0
        /\ \A s \in Slots : grad[s] # 0 \/ s \in slotBusy =>
              p1.req # NoReq /\ Op1.store /\ p1.req.rob = s /\ grad[s] = 2

(* When a flush has been reported the memory holds all that was committed. *)
FlushWritesBack ==
    flushDone /\ core = "MONITOR_FLUSH_CACHE" =>
        mem = committed /\ \A s \in Sets : ~arr[s].valid

(* The memory system is never asked again before it has answered. *)
OneRequest ==
    [][memReq.valid /\ memReq'.valid => memReq' = memReq]_vars
=============================================================================
