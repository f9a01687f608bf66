------------------------------- MODULE Hierarchy -------------------------------
(***************************************************************************)
(* The second level cache of l2.sv under its two clients, the flush        *)
(* control of core_l1d_l1i.sv and core.sv, and the memory of the test      *)
(* bench.  One step is a rising edge of the clock and the falling edge     *)
(* after it, on which the test bench serves the memory and the host        *)
(* handles a monitor call.                                                 *)
(*                                                                         *)
(* Of the data cache this module keeps which lines it owns and which are   *)
(* dirty, of the instruction cache only what it asks for; L1D has the rest *)
(* of the data cache.  A request of either is a pulse of one cycle; its    *)
(* address stays until the answer, and l2 keeps only that there was one.   *)
(***************************************************************************)
EXTENDS Integers, FiniteSets

CONSTANTS
    Image,        \* what the memory holds at first
    NumSets,      \* L2_LINES
    Tags,
    Banks,        \* the lines of the first level in one of the second
    Vals,         \* what a line of the first level can hold
    DLines,       \* the lines the program loads and stores
    ILines,       \* the lines it is fetched from, or might seem to be
    HostLines,    \* the lines of the second level that a monitor call may write
    Lats          \* mem_lat

Sets == 0 .. NumSets - 1
L2Lines == [tag : Tags, set : Sets]
L1Lines == [tag : Tags, set : Sets, bank : Banks]
Outer(l) == [tag |-> l.tag, set |-> l.set]

\* A monitor call writes no line that the front end may fetch meanwhile: the
\* instruction cache runs on during the call, and what it brings into the
\* second level is not invalidated when the call returns.
ASSUME HierarchyAssumption ==
    /\ NumSets \in Nat \ {0} /\ Lats \subseteq Nat \ {0}
    /\ Image \in [L2Lines -> [Banks -> Vals]]
    /\ DLines \subseteq L1Lines /\ ILines \subseteq L1Lines /\ HostLines \subseteq L2Lines
    /\ \A l \in ILines : Outer(l) \notin HostLines

VARIABLES
    l2,        \* the registers of the FSM
    arr, out,  \* the RAMs, and what they were read to hold
    pend,      \* r_l1d_req, r_l1i_req
    flushReq,  \* r_flush_req
    need,      \* r_need_l1d, r_need_l1i
    fstate,    \* r_flush_state of l2
    l2Done,    \* r_flush_complete of l2
    dc,        \* the data cache
    ic,        \* the instruction cache
    core,      \* r_state of the core
    reqs,      \* r_flush_req_l1d, r_flush_req_l1i
    got,       \* r_l1d_flush_complete, r_l1i_flush_complete, r_l2_flush_complete
    ctl,       \* r_flush_state of core_l1d_l1i; r_flush is that it is not idle
    mem,       \* sparse memory
    memRsp,    \* mem_rsp_valid, mem_rsp_load_data
    wait,      \* cycles until mem_reply_cycle, or NoWait
    lat,       \* mem_lat
    view       \* ghost: what the program has stored

l2Vars == <<l2, arr, out, pend, flushReq, need, fstate, l2Done>>
vars == <<l2Vars, dc, ic, core, reqs, got, ctl, mem, memRsp, wait, lat, view>>

Clients == {"d", "i"}
NoWait == -1
Absent == [state |-> "absent"]
Owned(st, v) == [state |-> st, val |-> v]
SomeVal == CHOOSE v \in Vals : TRUE
SomeTag == CHOOSE t \in Tags : TRUE
NoData == [b \in Banks |-> SomeVal]
NoRow == [valid |-> FALSE, dirty |-> FALSE, tag |-> SomeTag, data |-> NoData]
SomeLine == [tag |-> SomeTag, set |-> 0, bank |-> CHOOSE b \in Banks : TRUE]
Served(c) == [client |-> c, store |-> FALSE, tag |-> SomeTag, set |-> 0,
              bank |-> SomeLine.bank, val |-> SomeVal]
NoReq == [on |-> FALSE, store |-> FALSE, line |-> Outer(SomeLine), data |-> NoData]
NoRsp == [to |-> {}, val |-> SomeVal]
NoMemRsp == [on |-> FALSE, data |-> NoData]
-----------------------------------------------------------------------------
(***************************************************************************)
(* l2.sv: collecting the flushes of the first level.                       *)
(***************************************************************************)
Dones == (IF dc.done THEN {"d"} ELSE {}) \cup (IF ic.done THEN {"i"} ELSE {})
StillNeeded ==
    IF fstate = "WAIT_FOR_L1_FLUSH_DONE" THEN (need \cup reqs) \ (need \cap Dones)
    ELSE need \cup reqs
\* t_l2_flush_req
FlushFires_FirstDone == fstate = "WAIT_FOR_L1_FLUSH_DONE" /\ need \cap Dones # {}
FlushFires == fstate = "WAIT_FOR_L1_FLUSH_DONE" /\ StillNeeded = {}
CollectFlushes ==
    /\ need' = StillNeeded
    /\ fstate' = IF FlushFires THEN "WAIT_FOR_FLUSH"
                 ELSE IF StillNeeded # {} THEN "WAIT_FOR_L1_FLUSH_DONE" ELSE fstate
-----------------------------------------------------------------------------
(***************************************************************************)
(* l2.sv: the FSM.  Every state reads the RAMs at t_idx, and sees what was *)
(* read at the end of the cycle before.                                    *)
(***************************************************************************)
Asking_PulseOnly == {c \in Clients : (IF c = "d" THEN dc.phase ELSE ic.phase) = "asks"}
Asking == pend \cup {c \in Clients : (IF c = "d" THEN dc.phase ELSE ic.phase) = "asks"}
Flushing == flushReq \/ FlushFires

Reads(t) == out' = arr[t]
Writes(t, row) == arr' = [arr EXCEPT ![t] = row]
\* granted: whose request is taken; done: a flush has ended.
Keeps(granted, done) ==
    /\ pend' = Asking \ granted
    /\ flushReq' = (Flushing /\ ~done)
    /\ l2Done' = done
\* Reading again where the FSM stands, and taking no request.
Stays == Reads(l2.idx) /\ Keeps({}, FALSE)

Hit == out.valid /\ out.tag = l2.cur.tag
NeedWb == out.valid /\ out.dirty
WriteBack == [on |-> TRUE, store |-> TRUE, line |-> [tag |-> out.tag, set |-> l2.idx],
              data |-> out.data]
Reload == [on |-> TRUE, store |-> FALSE, line |-> Outer(l2.cur), data |-> NoData]

Initialize ==
    LET t == (l2.idx + 1) % NumSets IN
    /\ l2.state = "INITIALIZE"
    /\ l2' = [l2 EXCEPT !.idx = t, !.state = IF t = 0 THEN "IDLE" ELSE @]
    /\ Reads(t) /\ Writes(t, NoRow)
    /\ pend' = Asking /\ flushReq' = Flushing /\ l2Done' = (t = 0)

\* The client that was not served last goes first when both ask.
Granted ==
    IF Asking = Clients THEN IF l2.cur.client = "d" THEN "i" ELSE "d"
    ELSE CHOOSE c \in Asking : TRUE

IdleFlush ==
    /\ l2.state = "IDLE" /\ Flushing
    /\ l2' = [l2 EXCEPT !.state = "FLUSH_WAIT", !.idx = 0, !.rsp = NoRsp]
    /\ Reads(0) /\ Keeps({}, FALSE) /\ UNCHANGED arr

IdleNothing ==
    /\ l2.state = "IDLE" /\ ~Flushing /\ Asking = {}
    /\ l2' = [l2 EXCEPT !.idx = 0, !.rsp = NoRsp]
    /\ Reads(0) /\ Keeps({}, FALSE) /\ UNCHANGED arr

\* A store is answered when it is taken.
IdleGrant ==
    LET line == IF Granted = "d" THEN dc.line ELSE ic.line
        store == Granted = "d" /\ dc.store
    IN
    /\ l2.state = "IDLE" /\ ~Flushing /\ Asking # {}
    /\ l2' = [l2 EXCEPT
                !.state = "CHECK_VALID_AND_TAG", !.idx = line.set,
                !.cur = [client |-> Granted, store |-> store, tag |-> line.tag,
                         set |-> line.set, bank |-> line.bank,
                         val |-> IF store THEN dc.own[line].val ELSE SomeVal],
                !.rsp = [NoRsp EXCEPT !.to = IF store THEN {"d"} ELSE {}]]
    /\ Reads(line.set) /\ Keeps({Granted}, FALSE) /\ UNCHANGED arr

HitMarks(dirty) ==
    /\ l2.state = "CHECK_VALID_AND_TAG" /\ Hit
    /\ l2' = [l2 EXCEPT
                !.state = IF l2.cur.store THEN "WAIT_STORE_IDLE" ELSE "IDLE",
                !.reload = FALSE, !.cur = Served(@.client),
                !.rsp = IF l2.cur.store THEN NoRsp
                        ELSE [to |-> {l2.cur.client}, val |-> out.data[l2.cur.bank]]]
    /\ IF l2.cur.store
       THEN arr' = [arr EXCEPT ![l2.idx].dirty = dirty, ![l2.idx].data[l2.cur.bank] = l2.cur.val]
       ELSE UNCHANGED arr
    /\ Stays
CheckHit_StoreClean == HitMarks(out.dirty)
CheckHit == HitMarks(TRUE)

\* The test of r_reload is a $stop, which NothingStops says is never reached.
CheckMiss ==
    /\ l2.state = "CHECK_VALID_AND_TAG" /\ ~Hit
    /\ l2' = [l2 EXCEPT
                !.state = IF out.dirty THEN "DIRTY_STORE" ELSE "CLEAN_RELOAD",
                !.reload = IF out.dirty THEN @ ELSE TRUE,
                !.mreq = IF out.dirty THEN WriteBack ELSE Reload,
                !.rsp = NoRsp]
    /\ Stays /\ UNCHANGED arr

DirtyStore ==
    /\ l2.state = "DIRTY_STORE"
    /\ l2' = IF memRsp.on
             THEN [l2 EXCEPT !.state = "STORE_TURNAROUND", !.mreq = NoReq]
             ELSE l2
    /\ Stays /\ UNCHANGED arr

StoreTurnaround ==
    /\ l2.state = "STORE_TURNAROUND"
    /\ l2' = [l2 EXCEPT !.state = "CLEAN_RELOAD", !.reload = TRUE, !.mreq = Reload]
    /\ Stays /\ UNCHANGED arr

\* The dirty bit is left as it was: a line fetched in the place of a dirty one
\* is written back once more than it need be.
ReloadedInto(next) ==
    /\ l2.state = "CLEAN_RELOAD"
    /\ IF memRsp.on
       THEN /\ l2' = [l2 EXCEPT !.state = next, !.mreq = NoReq]
            /\ arr' = [arr EXCEPT ![l2.idx].valid = TRUE, ![l2.idx].tag = l2.cur.tag,
                                  ![l2.idx].data = memRsp.data]
       ELSE UNCHANGED <<l2, arr>>
    /\ Stays
CleanReload_ChecksAtOnce == ReloadedInto("CHECK_VALID_AND_TAG")
CleanReload == ReloadedInto("WAIT_CLEAN_RELOAD")

Turnaround ==
    /\ l2.state \in {"WAIT_CLEAN_RELOAD", "WAIT_STORE_IDLE"}
    /\ l2' = [l2 EXCEPT !.state = IF @ = "WAIT_STORE_IDLE" THEN "IDLE" ELSE "CHECK_VALID_AND_TAG"]
    /\ Stays /\ UNCHANGED arr

\* The line is read, and invalidated, before it is known whether to write it back.
\* Nothing looks at the tag and the data of an invalid line.
FlushWait ==
    /\ l2.state = "FLUSH_WAIT"
    /\ l2' = [l2 EXCEPT !.state = "FLUSH_TRIAGE"]
    /\ Writes(l2.idx, NoRow)
    /\ Stays

Last == l2.idx = NumSets - 1
\* To the next line, or out of the flush after the last.
Advances ==
    /\ l2' = [l2 EXCEPT !.state = IF Last THEN "IDLE" ELSE "FLUSH_WAIT",
                        !.idx = (l2.idx + 1) % NumSets, !.mreq = NoReq]
    /\ Reads((l2.idx + 1) % NumSets) /\ Keeps({}, Last)

FlushTriage ==
    /\ l2.state = "FLUSH_TRIAGE"
    /\ IF NeedWb
       THEN l2' = [l2 EXCEPT !.state = "FLUSH_STORE", !.mreq = WriteBack] /\ Stays
       ELSE Advances
    /\ UNCHANGED arr

FlushStore ==
    /\ l2.state = "FLUSH_STORE"
    /\ IF memRsp.on THEN Advances ELSE Stays /\ UNCHANGED l2
    /\ UNCHANGED arr

L2Step ==
    /\ CollectFlushes
    /\ \/ Initialize \/ IdleFlush \/ IdleNothing \/ IdleGrant
       \/ CheckHit \/ CheckMiss \/ DirtyStore \/ StoreTurnaround \/ CleanReload
       \/ Turnaround \/ FlushWait \/ FlushTriage \/ FlushStore
-----------------------------------------------------------------------------
(***************************************************************************)
(* The first level: what it asks for, when nothing of it is unanswered.    *)
(***************************************************************************)
Answered(c) == c \in l2.rsp.to
Empty == [l \in DLines |-> Absent]
Dirty == {l \in DLines : dc.own[l].state = "dirty"}
Running == core = "RUN"

\* A line comes in clean; a line that has been written back is gone.
DAnswered ==
    dc' = [dc EXCEPT !.phase = "idle", !.done = FALSE, !.flush = dc.flush \/ "d" \in reqs,
                     !.line = SomeLine, !.store = FALSE,
                     !.own[dc.line] = IF dc.store THEN Absent ELSE Owned("clean", l2.rsp.val)]
DWaits ==
    dc' = [dc EXCEPT !.phase = IF @ = "idle" THEN @ ELSE "waits", !.done = FALSE,
                     !.flush = dc.flush \/ "d" \in reqs]
DAsks(line, store) ==
    dc' = [dc EXCEPT !.phase = "asks", !.line = line, !.store = store, !.done = FALSE,
                     !.flush = dc.flush \/ "d" \in reqs]
DStores(line, v) ==
    dc' = [dc EXCEPT !.own[line] = Owned("dirty", v), !.done = FALSE,
                     !.flush = dc.flush \/ "d" \in reqs]

\* A flush writes back what is dirty, line after line, and keeps nothing.
DFlushes ==
    dc' = [dc EXCEPT !.walks = Dirty # {}, !.done = Dirty = {},
                     !.flush = dc.walks /\ (dc.flush \/ "d" \in reqs),
                     !.phase = IF Dirty = {} THEN @ ELSE "asks", !.store = TRUE,
                     !.line = IF Dirty = {} THEN @ ELSE CHOOSE l \in Dirty : TRUE,
                     !.own = IF Dirty = {} THEN Empty ELSE @]

DStep ==
    IF dc.phase # "idle"
    THEN (IF Answered("d") THEN DAnswered ELSE DWaits) /\ UNCHANGED view
    ELSE IF dc.flush \/ dc.walks THEN DFlushes /\ UNCHANGED view
    ELSE \/ DWaits /\ UNCHANGED view
         \* A load behind an architectural fault may come after the flush.
         \/ /\ Running \/ (core = "FLUSH_FOR_HALT" /\ l2.state # "INITIALIZE")
            /\ \E l \in DLines : dc.own[l] = Absent /\ DAsks(l, FALSE)
            /\ UNCHANGED view
         \/ /\ Running
            /\ \/ \E l \in Dirty : DAsks(l, TRUE) /\ UNCHANGED view
               \/ \E l \in DLines, v \in Vals :
                     /\ dc.own[l] # Absent /\ v # view[l]
                     /\ DStores(l, v) /\ view' = [view EXCEPT ![l] = v]
         \* The host stores: Memory does the same to the memory.
         \/ /\ core = "HANDLE_MONITOR" /\ DWaits
            /\ \E l \in DLines, v \in Vals :
                  Outer(l) \in HostLines /\ view' = [view EXCEPT ![l] = v]

\* The instruction cache does not stop for a monitor call.  A flush stops it
\* until the core restarts it.
IStep ==
    LET flush == ic.flush \/ "i" \in reqs
        quiet == [ic EXCEPT !.done = FALSE, !.flush = flush]
    IN
    IF ic.phase # "idle"
    THEN ic' = IF Answered("i") THEN [quiet EXCEPT !.phase = "idle", !.line = SomeLine]
               ELSE [quiet EXCEPT !.phase = "waits"]
    ELSE CASE ic.mode = "walks" -> ic' = [quiet EXCEPT !.mode = "stopped", !.done = TRUE]
           [] ic.mode = "stopped" -> ic' = [quiet EXCEPT !.mode = IF Running THEN "active" ELSE @]
           [] ic.mode = "active" /\ flush -> ic' = [quiet EXCEPT !.mode = "walks", !.flush = FALSE]
           [] OTHER -> \/ ic' = quiet
                       \/ \E l \in ILines : ic' = [quiet EXCEPT !.phase = "asks", !.line = l]
-----------------------------------------------------------------------------
(***************************************************************************)
(* core.sv and core_l1d_l1i.sv: who asks for a flush, and who waits.       *)
(***************************************************************************)
Seen == got \cup Dones \cup (IF l2Done THEN {"l2"} ELSE {})

AsksFlush ==
    /\ core = "RUN"
    /\ \/ core' = "MONITOR_FLUSH_CACHE" /\ reqs' = {"d"}
       \/ core' = "FLUSH_FOR_HALT" /\ reqs' = {"d", "i"}
    /\ got' = Seen
MonitorFlushed ==
    /\ core = "MONITOR_FLUSH_CACHE" /\ {"d", "l2"} \subseteq Seen
    /\ core' = "HANDLE_MONITOR" /\ got' = {} /\ reqs' = {}
HaltFlushed ==
    /\ core = "FLUSH_FOR_HALT" /\ Seen = {"d", "i", "l2"}
    /\ core' = "HALT" /\ got' = {} /\ reqs' = {}
GoesOn ==
    /\ core \in {"HANDLE_MONITOR", "HALT"}
    /\ core' = "RUN" /\ got' = Seen /\ reqs' = {}
CoreStep ==
    \/ AsksFlush \/ MonitorFlushed \/ HaltFlushed \/ GoesOn
    \/ /\ core = "MONITOR_FLUSH_CACHE" => ~({"d", "l2"} \subseteq Seen)
       /\ core = "FLUSH_FOR_HALT" => Seen # {"d", "i", "l2"}
       /\ got' = Seen /\ reqs' = {} /\ UNCHANGED core

\* GOT_L1D waits for the instruction cache only, GOT_L1I for the data cache.
Control ==
    ctl' = CASE ctl = "FLUSH_IDLE" ->
                    (CASE reqs = {"d", "i"} -> "WAIT_FOR_L1D_L1I"
                       [] reqs = {"i"} -> "GOT_L1D"
                       [] reqs = {"d"} -> "GOT_L1I"
                       [] OTHER -> ctl)
             [] ctl = "WAIT_FOR_L1D_L1I" ->
                    (CASE Dones = {"d"} -> "GOT_L1D"
                       [] Dones = {"i"} -> "GOT_L1I"
                       [] Dones = {"d", "i"} -> "FLUSH_L2"
                       [] OTHER -> ctl)
             [] ctl = "GOT_L1D" -> (IF "i" \in Dones THEN "FLUSH_L2" ELSE ctl)
             [] ctl = "GOT_L1I" -> (IF "d" \in Dones THEN "FLUSH_L2" ELSE ctl)
             [] ctl = "FLUSH_L2" -> (IF l2Done THEN "FLUSH_IDLE" ELSE ctl)
-----------------------------------------------------------------------------
(***************************************************************************)
(* The falling edge: the test bench answers lat cycles after it has seen a *)
(* load, twice as many after a store, with the request as it is then.      *)
(***************************************************************************)
Due ==
    IF wait # NoWait THEN wait - 1
    ELSE IF l2'.mreq.on THEN (IF l2'.mreq.store THEN 2 * lat ELSE lat)
    ELSE NoWait

\* What the host has stored, which is where the program's view changes while
\* the core waits for it.
HostMem ==
    [m \in L2Lines |-> [b \in Banks |->
        LET l == [tag |-> m.tag, set |-> m.set, bank |-> b] IN
        IF core = "HANDLE_MONITOR" /\ l \in DLines /\ view'[l] # view[l]
        THEN view'[l] ELSE mem[m][b]]]

Memory ==
    /\ wait' = IF Due = 0 THEN NoWait ELSE Due
    /\ memRsp' = IF Due = 0
                 THEN [on |-> TRUE,
                       data |-> IF l2'.mreq.store THEN NoData ELSE mem[l2'.mreq.line]]
                 ELSE NoMemRsp
    /\ mem' = IF Due = 0 /\ l2'.mreq.store
              THEN [HostMem EXCEPT ![l2'.mreq.line] = l2'.mreq.data] ELSE HostMem
    /\ UNCHANGED lat
-----------------------------------------------------------------------------
\* Out of reset the core waits for the caches to be cleared, as for a flush.
Init ==
    /\ l2 = [state |-> "INITIALIZE", idx |-> 0, reload |-> FALSE, mreq |-> NoReq, rsp |-> NoRsp,
             cur |-> Served("i")]
    /\ arr \in [Sets -> {NoRow, [NoRow EXCEPT !.valid = TRUE, !.dirty = TRUE]}]
    /\ out = NoRow /\ pend = {} /\ flushReq = FALSE
    /\ need = {} /\ fstate = "WAIT_FOR_FLUSH" /\ l2Done = FALSE
    /\ dc = [phase |-> "idle", line |-> SomeLine, store |-> FALSE, own |-> Empty,
             flush |-> FALSE, walks |-> TRUE, done |-> FALSE]
    /\ ic = [phase |-> "idle", line |-> SomeLine, mode |-> "walks", flush |-> FALSE, done |-> FALSE]
    /\ core = "FLUSH_FOR_HALT" /\ reqs = {} /\ got = {} /\ ctl = "FLUSH_IDLE"
    /\ mem = Image /\ memRsp = NoMemRsp /\ wait = NoWait /\ lat \in Lats
    /\ view = [l \in L1Lines |-> Image[Outer(l)][l.bank]]

Next == L2Step /\ DStep /\ IStep /\ CoreStep /\ Control /\ Memory
Spec == Init /\ [][Next]_vars /\ WF_vars(Next)
-----------------------------------------------------------------------------
\* A line of the data cache holds what the program or the host last stored in
\* it, and so does what is fetched, unless the data cache has not yet written it
\* back: neither a victim and the line that takes its place, nor the banks of a
\* line, nor the requests of the two clients are mixed up.
LinesExact ==
    /\ \A l \in DLines : dc.own[l] # Absent => dc.own[l].val = view[l]
    /\ "i" \in l2.rsp.to /\ (ic.line \in DLines => dc.own[ic.line].state # "dirty")
          => l2.rsp.val = view[ic.line]

\* When the core hands over to the host, or halts, the memory holds all that has
\* been stored, and no cache claims to be flushing: the flushes of the two levels
\* have ended in their order, and none of an earlier flush was taken for them.
HostSeesAll ==
    core \in {"HANDLE_MONITOR", "HALT"} =>
        /\ ctl = "FLUSH_IDLE"
        /\ \A l \in L1Lines : mem[Outer(l)][l.bank] = view[l]

\* A line that has been fetched is found (the $stop of l2.sv:576), and a request
\* to the memory is held until it is answered (the assertion of top.cc:955).
NothingStops ==
    /\ l2.state = "CHECK_VALID_AND_TAG" /\ ~Hit /\ ~out.dirty => ~l2.reload
    /\ wait # NoWait => l2.mreq.on

\* Nobody waits forever: a request of either first level cache is answered,
\* whatever the other asks and while flushes come between, and a flush ends, of a
\* monitor call, of a fault and of the reset.
NobodyStarves ==
    /\ []<>(dc.phase = "idle") /\ []<>(ic.phase = "idle")
    /\ []<>(core \notin {"MONITOR_FLUSH_CACHE", "FLUSH_FOR_HALT"})
================================================================================
