---------------------------------- MODULE L1D ----------------------------------
(***************************************************************************)
(* The direct-mapped write-back data cache of l1d.sv, one step per clock   *)
(* cycle.                                                                  *)
(*                                                                         *)
(* A request of the core reads the arrays through port 2 and is decided in *)
(* the next cycle: a load that hits and meets nothing older is answered,   *)
(* every store is answered and queued, everything else is queued.  The     *)
(* head of the queue reads the arrays through port 1: a load at once, a    *)
(* store when it has retired and its data are there.  A request that       *)
(* misses stops both ports until its line has been fetched.                *)
(*                                                                         *)
(* What the cache sees in a cycle is the record "in":                      *)
(*   req      core_mem_req, or NoReq         drain   drain_ds_complete     *)
(*   data     core_store_data [rob, val]     dead    dead_rob_mask         *)
(*   retired  retired_rob_ptr(_two), valid   flush   flush_req             *)
(*   rsp      mem_rsp_valid                  line    mem_rsp_load_data     *)
(* A request is [op, rob]; of its address the set, the tag and the word    *)
(* are kept.  flush_cl_req, which the core never raises, is left out, and  *)
(* so is the state WAIT_INJECT_RELOAD: a miss cannot meet the write that   *)
(* it waits for (VictimFresh of LoadStore).                                *)
(***************************************************************************)
EXTENDS Integers, Sequences, FiniteSets

CONSTANTS
    NumSets,     \* L1D_NUM_SETS
    Tags,
    Words,       \* the words of a line
    Vals,        \* what a word can hold
    MqEntries,   \* N_MQ_ENTRIES
    Slots,       \* ROB slots
    Ops,         \* the memory operations of the program
    NoReq, NoRob

Sets == 0 .. NumSets - 1
Lines == [Words -> Vals]

(* An operation covers some words of its line, starting in one.  "lw" is
   MEM_LW, a load of a whole word; "nop" is MEM_NOP, an access that would
   cross the end of its line. *)
OpRecs == [store : BOOLEAN, lw : BOOLEAN, nop : BOOLEAN, unaligned : BOOLEAN,
           set : Sets, tag : Tags, word : Words, words : SUBSET Words, val : Vals]
Reqs == [op : Ops, rob : Slots]

ASSUME L1DAssumption ==
    /\ NumSets \in Nat \ {0}
    /\ MqEntries \in Nat /\ MqEntries >= 2
    /\ Ops \subseteq OpRecs
    /\ NoReq \notin Reqs /\ NoRob \notin Slots

VARIABLES
    state,      \* r_state
    arr,        \* dc_valid, dc_dirty, dc_tag, dc_data
    mq,         \* r_mem_q between its pointers, oldest first
    p1,         \* r_got_req, r_req and what port 1 read
    p2,         \* r_got_req2, r_req2 and what port 2 read and compared
    early,      \* r_ack_ld_early
    lock,       \* r_lock_cache
    inhibit,    \* r_inhibit_write
    grad,       \* r_graduated
    slotBusy,   \* r_rob_inflight of the cache
    nInflight,  \* r_n_inflight
    memqEmpty,  \* memq_empty
    flushReq,   \* r_flush_req
    flushIdx,   \* r_cache_idx while the cache is initialized or flushed
    flushDone,  \* r_flush_complete
    memReq      \* the request that the memory system has not answered

cacheVars == <<state, arr, mq, p1, p2, early, lock, inhibit, grad,
               slotBusy, nInflight, memqEmpty, flushReq, flushIdx, flushDone, memReq>>

States == {"INITIALIZE", "INIT_CACHE", "ACTIVE", "INJECT_RELOAD",
           "HANDLE_RELOAD",
           "FLUSH_CACHE", "FLUSH_CACHE_WAIT", "FLUSH_CACHE_LAST_WAIT"}

Zeros == [w \in Words |-> CHOOSE v \in Vals : TRUE]
NoLine == [valid |-> FALSE, dirty |-> FALSE, tag |-> CHOOSE t \in Tags : TRUE, data |-> Zeros]
NoP1 == [on |-> FALSE, req |-> NoReq, val |-> Zeros[CHOOSE w \in Words : TRUE],
         retry |-> FALSE, reload |-> FALSE, busy |-> FALSE, out |-> NoLine]
NoP2 == [req |-> NoReq, out |-> NoLine, fwd |-> FALSE, wrData |-> Zeros,
         busy |-> FALSE, busyWord |-> FALSE, unaligned |-> FALSE]
NoMem == [store |-> FALSE, set |-> 0, tag |-> NoLine.tag, data |-> Zeros, valid |-> FALSE]

On2 == p2.req # NoReq
Merge(op, val, data) == [w \in Words |-> IF w \in op.words THEN val ELSE data[w]]
ReadWords(op, data) == [w \in op.words |-> data[w]]
-----------------------------------------------------------------------------
(***************************************************************************)
(* Port 2: the request accepted in the last cycle.                         *)
(***************************************************************************)
Hit2 == p2.out.valid /\ p2.out.tag = p2.req.op.tag
Data2 == IF p2.fwd THEN p2.wrData ELSE p2.out.data

\* A load may pass what is queued for its set if it is of a whole word that
\* nothing queued starts in, and nothing there is unaligned.
MayBypass == ~p2.busy \/ (p2.req.op.lw /\ ~p2.busyWord /\ ~p2.unaligned)

AtOnce(in) == On2 /\ (in.drain \/ p2.req.op.nop)
PushMiss(in) ==
    On2 /\ ~AtOnce(in) /\ (p2.req.op.store \/ ~(Hit2 /\ MayBypass))
Answer2(in) == On2 /\ (p2.req.op.store \/ ~PushMiss(in))

(***************************************************************************)
(* Port 1: a retry from the queue, or a request whose line has come.       *)
(***************************************************************************)
Op1 == p1.req.op
TagMatch1 == p1.out.valid /\ p1.out.tag = Op1.tag
Hit1 == p1.on /\ TagMatch1
Miss == p1.on /\ ~TagMatch1
DirtyMiss == Miss /\ p1.out.valid /\ p1.out.dirty
StoreHit == Hit1 /\ Op1.store
\* t_wr_array
WriteArray == StoreHit /\ (p1.retry \/ p1.reload)
StoreData == Merge(Op1, p1.val, p1.out.data)
Victim == [store |-> TRUE, set |-> Op1.set, tag |-> p1.out.tag,
           data |-> p1.out.data, valid |-> TRUE]
Fetch == [store |-> FALSE, set |-> Op1.set, tag |-> Op1.tag,
          data |-> Zeros, valid |-> TRUE]
MissStarts ==
    \/ DirtyMiss /\ (p1.retry \/ ~p1.busy)
    \/ Miss /\ ~DirtyMiss /\ (p1.retry \/ ~p1.busy \/ lock)

LastWr(set) == p1.on /\ Op1.store /\ Op1.set = set

(***************************************************************************)
(* The head of the queue.                                                  *)
(***************************************************************************)
Head1 == mq[1]
MayFire_BesideWrite == mq # <<>> /\ ~Miss /\ ~lock
MayFire == mq # <<>> /\ ~Miss /\ ~lock /\ ~LastWr(Head1.op.set)
LoadFires == MayFire /\ ~Head1.op.store
StoreFires_AnyTime(in) == MayFire /\ Head1.op.store /\ in.data.rob = Head1.rob
StoreFires(in) ==
    MayFire /\ Head1.op.store /\ grad[Head1.rob] = 2 /\ in.data.rob = Head1.rob
\* The machine drains and the store is on the wrong path.
StoreKilled(in) ==
    MayFire /\ Head1.op.store /\ ~StoreFires(in) /\ in.drain /\ Head1.rob \in in.dead
Fires(in) == LoadFires \/ StoreFires(in)
Pops(in) == Fires(in) \/ StoreKilled(in)
QueueLeft(in) == IF Pops(in) THEN Tail(mq) ELSE mq

(***************************************************************************)
(* A new request.                                                          *)
(***************************************************************************)
CmBlock(r) == LastWr(r.op.set) /\ Op1.tag = r.op.tag
\* The store that port 2 is about to queue is not among the compared ones.
BehindStore(r) ==
    On2 /\ p2.req.op.store /\ p2.req.op.set = r.op.set /\ ~r.op.store
Accept_BlindToPort2(in) ==
    /\ in.req # NoReq /\ ~Miss
    /\ Len(mq) < MqEntries - 1
    /\ ~LoadFires
    /\ ~(CmBlock(in.req) /\ ~(p1.reload \/ p1.retry))
    /\ in.req.rob \notin slotBusy
\* core_mem_req_ack; not while mem_q_almost_full or mem_q_full.
Accept(in) ==
    /\ in.req # NoReq /\ ~Miss
    /\ Len(mq) < MqEntries - 1
    /\ ~LoadFires
    /\ ~BehindStore(in.req)
    /\ ~(CmBlock(in.req) /\ ~(p1.reload \/ p1.retry))
    /\ in.req.rob \notin slotBusy

FlushStarts(in) ==
    ~Accept(in) /\ flushReq /\ mq = <<>> /\ ~(p1.on /\ Op1.store)

Queued == {mq[i] : i \in DOMAIN mq}
NextP2(in) ==
    IF ~Accept(in) THEN NoP2
    ELSE LET r == in.req
         IN  [req |-> r,
              out |-> arr[r.op.set],
              fwd |-> CmBlock(r),
              wrData |-> IF CmBlock(r) THEN StoreData ELSE Zeros,
              busy |-> \E q \in Queued :
                          q.op.set = r.op.set /\ (q.op.store \/ r.op.store),
              busyWord |-> \E q \in Queued :
                          q.op.set = r.op.set /\ q.op.tag = r.op.tag /\ q.op.word = r.op.word,
              unaligned |-> r.op.unaligned \/ \E q \in Queued : q.op.unaligned]
-----------------------------------------------------------------------------
(***************************************************************************)
(* core_mem_rsp: the slot that is answered, with the words that a load     *)
(* read.  Port 1 wins, and what port 2 had to say in that cycle is lost.   *)
(***************************************************************************)
Unread == <<>>
NoRsp == [rob |-> NoRob, words |-> Unread]
LoadHit == Hit1 /\ ~Op1.store
Response(in) ==
    CASE state = "ACTIVE" /\ LoadHit ->
            [rob |-> p1.req.rob, words |-> ReadWords(Op1, p1.out.data)]
      [] state = "ACTIVE" /\ ~LoadHit /\ Answer2(in) ->
            [rob |-> p2.req.rob,
             words |-> IF AtOnce(in) \/ p2.req.op.store THEN Unread
                       ELSE ReadWords(p2.req.op, Data2)]
      [] state = "INJECT_RELOAD" /\ in.rsp /\ ~Op1.store /\ ~lock ->
            [rob |-> p1.req.rob, words |-> ReadWords(Op1, in.line)]
      [] OTHER -> NoRsp
-----------------------------------------------------------------------------
(***************************************************************************)
(* What every cycle does, whatever the state of the FSM.                   *)
(***************************************************************************)

\* A response of the memory system writes its line, valid unless what was sent
\* was a write-back; "mark" are the sets that the FSM invalidates, which takes
\* the ports of the valid and dirty bits.  Nothing looks at the tag of an
\* invalid line.
Arrays(in, mark, write) ==
    arr' = [s \in Sets |->
              IF s \in mark THEN NoLine
              ELSE IF in.rsp /\ s = memReq.set
              THEN IF mark # {} THEN [arr[s] EXCEPT !.tag = memReq.tag, !.data = in.line]
                   ELSE IF inhibit THEN NoLine
                   ELSE [valid |-> TRUE, dirty |-> FALSE, tag |-> memReq.tag, data |-> in.line]
              ELSE IF write /\ s = Op1.set THEN [arr[s] EXCEPT !.dirty = TRUE, !.data = StoreData]
              ELSE arr[s]]

Asks(in, new) == memReq' = IF new # NoMem THEN new ELSE IF in.rsp THEN NoMem ELSE memReq

\* answers: whether n_core_mem_rsp_valid is up.
Counts(in, accepts, answers) ==
    nInflight' = nInflight + (IF accepts THEN 1 ELSE 0) - (IF answers THEN 1 ELSE 0)

Graduates(in, pushed, written, killed) ==
    grad' = [s \in Slots |->
               IF s \in written \cup killed THEN 0
               ELSE IF s \in pushed THEN 1
               ELSE IF s \in in.retired /\ grad[s] = 1 THEN 2 ELSE grad[s]]

Empties(in, next1, next2, pushed) ==
    memqEmpty' = (/\ mq = <<>> /\ in.drain /\ in.req = NoReq
                  /\ ~next1 /\ ~next2 /\ ~pushed /\ nInflight = 0)

\* Nothing is accepted, retried or queued; next is what port 1 holds.
Paused(in, next) ==
    /\ p1' = next /\ p2' = NoP2
    /\ UNCHANGED <<mq, slotBusy>>
    /\ Graduates(in, {}, {}, {})
    /\ Empties(in, next.on, FALSE, FALSE)
    /\ flushReq' = (flushReq \/ in.flush)

Read(set) == [NoP1 EXCEPT !.out = arr[set]]
-----------------------------------------------------------------------------
(***************************************************************************)
(* The states of the FSM.                                                  *)
(***************************************************************************)
CacheInit ==
    /\ state = "INITIALIZE"
    /\ arr \in [Sets -> {NoLine, [NoLine EXCEPT !.valid = TRUE, !.dirty = TRUE]}]
    /\ mq = <<>> /\ p1 = NoP1 /\ p2 = NoP2
    /\ early = FALSE /\ lock = FALSE /\ inhibit = FALSE
    /\ grad = [s \in Slots |-> 0] /\ slotBusy = {} /\ nInflight = 0
    /\ memqEmpty = TRUE /\ flushReq = FALSE /\ flushIdx = 0 /\ flushDone = FALSE
    /\ memReq = NoMem

Initialize(in) ==
    /\ state = "INITIALIZE"
    /\ state' = "INIT_CACHE" /\ flushIdx' = 0
    /\ Paused(in, NoP1) /\ Arrays(in, {}, FALSE)
    /\ Asks(in, NoMem)
    /\ UNCHANGED <<early, lock, inhibit, nInflight, flushDone>>

InitCache(in) ==
    /\ state = "INIT_CACHE"
    /\ flushIdx' = (flushIdx + 1) % NumSets
    /\ flushDone' = (flushIdx = NumSets - 1)
    /\ state' = IF flushIdx = NumSets - 1 THEN "ACTIVE" ELSE state
    /\ Paused(in, NoP1) /\ Arrays(in, {flushIdx}, FALSE)
    /\ Asks(in, NoMem)
    /\ UNCHANGED <<early, lock, inhibit, nInflight>>

Active(in) ==
    LET pushed == PushMiss(in)
        answers == Answer2(in) \/ LoadHit
        stored == IF pushed /\ p2.req.op.store THEN {p2.req.rob} ELSE {}
        killed == IF StoreKilled(in) THEN {Head1.rob} ELSE {}
    IN
    /\ state = "ACTIVE"
    /\ state' = IF FlushStarts(in) THEN "FLUSH_CACHE"
                ELSE IF MissStarts THEN "INJECT_RELOAD" ELSE state
    /\ Asks(in, IF ~MissStarts THEN NoMem ELSE IF DirtyMiss THEN Victim ELSE Fetch)
    /\ inhibit' = IF Miss THEN DirtyMiss ELSE inhibit
    /\ lock' = IF MissStarts THEN DirtyMiss ELSE lock
    /\ Arrays(in, {}, WriteArray)
    /\ mq' = QueueLeft(in) \o (IF pushed THEN <<p2.req>> ELSE <<>>)
    /\ p2' = NextP2(in)
    /\ p1' = IF Fires(in)
             THEN [NoP1 EXCEPT !.on = TRUE, !.retry = TRUE, !.req = Head1,
                               !.val = IF Head1.op.store THEN in.data.val ELSE @,
                               !.out = arr[Head1.op.set],
                               !.busy = \E i \in 2 .. Len(mq) : mq[i].op.set = Head1.op.set]
             ELSE IF FlushStarts(in) THEN Read(0)
             ELSE IF MissStarts THEN [p1 EXCEPT !.on = FALSE, !.out = NoLine]
             ELSE NoP1
    /\ early' = FALSE
    /\ Counts(in, Accept(in), answers)
    /\ Graduates(in, stored, IF StoreHit THEN {p1.req.rob} ELSE {}, killed)
    /\ slotBusy' = ((slotBusy \cup (IF pushed THEN {p2.req.rob} ELSE {}))
                       \ (IF Hit1 THEN {p1.req.rob} ELSE {})) \ killed
    /\ Empties(in, Fires(in), Accept(in), pushed)
    /\ flushReq' = (~FlushStarts(in) /\ (flushReq \/ in.flush))
    /\ flushIdx' = 0 /\ flushDone' = FALSE

\* A load is answered with the line as it comes, if it is the line it needs.
AnsweredEarly(in) == in.rsp /\ ~Op1.store /\ ~lock
InjectReload(in) ==
    /\ state = "INJECT_RELOAD"
    /\ state' = IF in.rsp THEN "HANDLE_RELOAD" ELSE state
    /\ inhibit' = (inhibit /\ ~in.rsp)
    /\ early' = AnsweredEarly(in)
    /\ p1' = p1 /\ p2' = NoP2 /\ UNCHANGED mq
    /\ slotBusy' = slotBusy \ (IF AnsweredEarly(in) THEN {p1.req.rob} ELSE {})
    /\ Graduates(in, {}, {}, {})
    /\ Empties(in, FALSE, FALSE, FALSE)
    /\ flushReq' = (flushReq \/ in.flush)
    /\ Counts(in, FALSE, AnsweredEarly(in))
    /\ Arrays(in, {}, FALSE) /\ Asks(in, NoMem)
    /\ flushDone' = FALSE /\ UNCHANGED <<lock, flushIdx>>

HandleReload_AnswersAgain(in) ==
    /\ state = "HANDLE_RELOAD"
    /\ state' = "ACTIVE"
    /\ Paused(in, [p1 EXCEPT !.on = TRUE, !.reload = TRUE, !.retry = FALSE,
                             !.out = arr[Op1.set],
                             !.busy = \E q \in Queued : q.op.set = Op1.set])
    /\ Arrays(in, {}, FALSE) /\ Asks(in, NoMem)
    /\ Counts(in, FALSE, FALSE)
    /\ early' = FALSE /\ flushDone' = FALSE
    /\ UNCHANGED <<lock, inhibit, flushIdx>>
HandleReload(in) ==
    /\ state = "HANDLE_RELOAD"
    /\ state' = "ACTIVE"
    /\ Paused(in, IF p1.req.op.store \/ ~early
                  THEN [p1 EXCEPT !.on = TRUE, !.reload = TRUE, !.retry = FALSE,
                                  !.out = arr[Op1.set],
                                  !.busy = \E q \in Queued : q.op.set = Op1.set]
                  ELSE NoP1)
    /\ Arrays(in, {}, FALSE) /\ Asks(in, NoMem)
    /\ Counts(in, FALSE, FALSE)
    /\ early' = FALSE /\ flushDone' = FALSE
    /\ UNCHANGED <<lock, inhibit, flushIdx>>

\* One set after the other: a dirty one is written back, and is invalidated when
\* the memory system answers, the others are invalidated at once.
FlushCache_KeepDirty(in) ==
    /\ state = "FLUSH_CACHE"
    /\ flushIdx' = (flushIdx + 1) % NumSets
    /\ state' = IF flushIdx = NumSets - 1 THEN "ACTIVE" ELSE state
    /\ flushDone' = (flushIdx = NumSets - 1)
    /\ Arrays(in, {flushIdx}, FALSE) /\ Asks(in, NoMem)
    /\ Paused(in, IF state' = "ACTIVE" THEN NoP1 ELSE Read(flushIdx'))
    /\ Counts(in, FALSE, FALSE)
    /\ early' = FALSE /\ UNCHANGED <<lock, inhibit>>
FlushCache(in) ==
    LET last == flushIdx = NumSets - 1
        dirty == p1.out.dirty
    IN
    /\ state = "FLUSH_CACHE"
    /\ flushIdx' = (flushIdx + 1) % NumSets
    /\ state' = IF dirty THEN IF last THEN "FLUSH_CACHE_LAST_WAIT" ELSE "FLUSH_CACHE_WAIT"
                ELSE IF last THEN "ACTIVE" ELSE state
    /\ flushDone' = (last /\ ~dirty)
    /\ inhibit' = (inhibit \/ dirty)
    /\ Arrays(in, IF dirty THEN {} ELSE {flushIdx}, FALSE)
    /\ Asks(in, IF dirty THEN [store |-> TRUE, set |-> flushIdx, tag |-> p1.out.tag,
                               data |-> p1.out.data, valid |-> TRUE]
                ELSE NoMem)
    /\ Paused(in, IF state' = "ACTIVE" THEN NoP1 ELSE Read(flushIdx'))
    /\ Counts(in, FALSE, FALSE)
    /\ early' = FALSE /\ UNCHANGED lock

FlushCacheWait(in) ==
    LET last == state = "FLUSH_CACHE_LAST_WAIT" IN
    /\ state \in {"FLUSH_CACHE_WAIT", "FLUSH_CACHE_LAST_WAIT"}
    /\ state' = IF ~in.rsp THEN state ELSE IF last THEN "ACTIVE" ELSE "FLUSH_CACHE"
    /\ flushDone' = (in.rsp /\ last)
    /\ inhibit' = (inhibit /\ ~in.rsp)
    /\ Arrays(in, {}, FALSE) /\ Asks(in, NoMem)
    /\ Paused(in, IF state' = "ACTIVE" THEN NoP1 ELSE Read(flushIdx))
    /\ Counts(in, FALSE, FALSE)
    /\ early' = FALSE /\ UNCHANGED <<lock, flushIdx>>

CacheStep(in) ==
    \/ Initialize(in) \/ InitCache(in) \/ Active(in)
    \/ InjectReload(in) \/ HandleReload(in)
    \/ FlushCache(in) \/ FlushCacheWait(in)
=============================================================================
