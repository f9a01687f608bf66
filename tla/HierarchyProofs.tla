---------------------------- MODULE HierarchyProofs ----------------------------
(***************************************************************************)
(* Proofs about Hierarchy, for every number of sets, tags and banks, every *)
(* memory latency and every choice of the lines the program, its code and  *)
(* the host use.                                                           *)
(***************************************************************************)
EXTENDS Hierarchy, TLAPS

-----------------------------------------------------------------------------
\* The states in which a request is being served, and those of a flush.
Busy == {"CHECK_VALID_AND_TAG", "DIRTY_STORE", "STORE_TURNAROUND", "CLEAN_RELOAD",
         "WAIT_CLEAN_RELOAD"}
Walking == {"FLUSH_WAIT", "FLUSH_TRIAGE", "FLUSH_STORE"}
L2States == Busy \cup Walking \cup {"INITIALIZE", "IDLE", "WAIT_STORE_IDLE"}

\* The registers hold these, or what they were reset to.
AnyVal == Vals \cup {SomeVal}
AnyTag == Tags \cup {SomeTag}
AnyBank == Banks \cup {SomeLine.bank}
Datas == [Banks -> AnyVal]
Rows == [valid : BOOLEAN, dirty : BOOLEAN, tag : AnyTag, data : Datas]
AnyL1Line == [tag : AnyTag, set : Sets, bank : AnyBank]
Reqs == [on : BOOLEAN, store : BOOLEAN, line : [tag : AnyTag, set : Sets], data : Datas]
Curs == [client : Clients, store : BOOLEAN, tag : AnyTag, set : Sets, bank : AnyBank,
         val : AnyVal]
Owns == {Absent} \cup {Owned(st, v) : st \in {"clean", "dirty"}, v \in AnyVal}

L2Type ==
    /\ l2 \in [state : L2States, idx : Sets, reload : BOOLEAN, mreq : Reqs,
               rsp : [to : SUBSET Clients, val : AnyVal], cur : Curs]
    /\ arr \in [Sets -> Rows] /\ out \in Rows
    /\ pend \subseteq Clients /\ flushReq \in BOOLEAN
    /\ need \subseteq Clients /\ fstate \in {"WAIT_FOR_FLUSH", "WAIT_FOR_L1_FLUSH_DONE"}
    /\ l2Done \in BOOLEAN

DType ==
    dc \in [phase : {"idle", "asks", "waits"}, line : AnyL1Line, store : BOOLEAN,
            own : [DLines -> Owns], flush : BOOLEAN, walks : BOOLEAN, done : BOOLEAN]
IType ==
    ic \in [phase : {"idle", "asks", "waits"}, line : AnyL1Line,
            mode : {"active", "walks", "stopped"}, flush : BOOLEAN, done : BOOLEAN]

CoreType ==
    /\ core \in {"RUN", "MONITOR_FLUSH_CACHE", "FLUSH_FOR_HALT", "HANDLE_MONITOR", "HALT"}
    /\ reqs \subseteq Clients /\ got \subseteq Clients \cup {"l2"}
    /\ ctl \in {"FLUSH_IDLE", "WAIT_FOR_L1D_L1I", "GOT_L1D", "GOT_L1I", "FLUSH_L2"}

MemType ==
    /\ mem \in [L2Lines -> Datas]
    /\ memRsp \in [on : BOOLEAN, data : Datas]
    /\ wait \in {NoWait} \cup (Nat \ {0}) /\ lat \in Lats
    /\ view \in [L1Lines -> AnyVal]

TypeOK == L2Type /\ DType /\ IType /\ CoreType /\ MemType

-----------------------------------------------------------------------------
\* A request to the memory is raised by the state that waits for its answer, and
\* dropped with it; a line that has been fetched is in the RAM.
Port ==
    /\ l2.mreq.on <=> l2.state \in {"DIRTY_STORE", "CLEAN_RELOAD", "FLUSH_STORE"}
    /\ wait # NoWait => l2.mreq.on /\ ~memRsp.on
    /\ memRsp.on => l2.mreq.on
    /\ l2.reload => l2.state \in {"CLEAN_RELOAD", "WAIT_CLEAN_RELOAD", "CHECK_VALID_AND_TAG"}
    /\ l2.state = "WAIT_CLEAN_RELOAD" =>
          arr[l2.idx].valid /\ arr[l2.idx].tag = l2.cur.tag
    /\ l2.state = "CHECK_VALID_AND_TAG" /\ l2.reload => Hit

\* The flush handshake, from its request to the answer of the second level.
Who == IF core = "MONITOR_FLUSH_CACHE" THEN {"d"} ELSE {"d", "i"}
CtlOf ==
    IF got = {} /\ core = "FLUSH_FOR_HALT" THEN "WAIT_FOR_L1D_L1I"
    ELSE IF "d" \in got THEN "GOT_L1D" ELSE "GOT_L1I"
DQuiet == ~dc.flush /\ ~dc.walks
IQuiet == ~ic.flush /\ ic.mode # "walks"
L2Quiet == ~flushReq /\ ~l2Done /\ l2.state \notin Walking \cup {"INITIALIZE"}
Idle == ctl = "FLUSH_IDLE" /\ fstate = "WAIT_FOR_FLUSH" /\ need = {}

\* Each of the flushing caches is at work, has just ended, or has been seen to.
DProgress ==
    /\ ~(dc.flush /\ dc.walks)
    /\ dc.done => DQuiet
    /\ "d" \in got => DQuiet /\ ~dc.done
    /\ "d" \notin got => dc.done \/ ~DQuiet
IProgress ==
    /\ ic.mode = "walks" => ~ic.flush
    /\ ic.mode = "active" => ic.flush
    /\ ic.done \/ "i" \in got => ic.mode = "stopped" /\ ~ic.flush
    /\ "i" \in got => ~ic.done
    /\ "i" \notin got => ic.done \/ ic.mode # "stopped"
IAway == ic.mode = "active" /\ ~ic.flush /\ ~ic.done

Reset ==
    /\ core = "FLUSH_FOR_HALT" /\ reqs = {} /\ Idle /\ ~flushReq
    /\ got \subseteq {"d", "i"} /\ DProgress /\ ~dc.flush
    /\ IProgress /\ ic.mode # "active" /\ ~ic.flush
    /\ dc.phase = "idle" /\ dc.own = Empty /\ ic.phase = "idle"
    /\ IF l2Done THEN l2.state = "IDLE" /\ DQuiet /\ IQuiet ELSE l2.state = "INITIALIZE"
Rests ==
    /\ core \in {"RUN", "HANDLE_MONITOR", "HALT"} /\ reqs = {} /\ got = {}
    /\ Idle /\ L2Quiet /\ DQuiet /\ IQuiet /\ ~dc.done /\ ~ic.done
    /\ ic.mode = "stopped" => core \in {"RUN", "HALT"}
    /\ core = "HALT" => ic.mode = "stopped"
Asked ==
    /\ core \in {"MONITOR_FLUSH_CACHE", "FLUSH_FOR_HALT"} /\ reqs = Who /\ got = {}
    /\ Idle /\ L2Quiet /\ DQuiet /\ ~dc.done /\ IAway
FirstLevel ==
    /\ core \in {"MONITOR_FLUSH_CACHE", "FLUSH_FOR_HALT"} /\ reqs = {}
    /\ got \subseteq Who /\ got # Who /\ need = Who \ got
    /\ fstate = "WAIT_FOR_L1_FLUSH_DONE" /\ ctl = CtlOf /\ L2Quiet
    /\ DProgress
    /\ IF "i" \in Who THEN IProgress ELSE IAway
SecondLevel ==
    /\ core \in {"MONITOR_FLUSH_CACHE", "FLUSH_FOR_HALT"} /\ reqs = {}
    /\ got = Who /\ need = {} /\ fstate = "WAIT_FOR_FLUSH" /\ ctl = "FLUSH_L2"
    /\ flushReq = ~l2Done
    /\ l2Done => l2.state = "IDLE"
    /\ l2.state # "INITIALIZE"
    /\ DProgress
    /\ IF "i" \in Who THEN IProgress ELSE IAway
Handshake == Reset \/ Rests \/ Asked \/ FirstLevel \/ SecondLevel

\* Who is served, who waits, who has been answered.
CurLine == [tag |-> l2.cur.tag, set |-> l2.cur.set, bank |-> l2.cur.bank]
ServesLoad(c) == l2.state \in Busy /\ ~l2.cur.store /\ l2.cur.client = c
Phase(c) == IF c = "d" THEN dc.phase ELSE ic.phase
LineOf(c) == IF c = "d" THEN dc.line ELSE ic.line
IsDirty(l) == l \in DLines /\ dc.own[l].state = "dirty"
Requests ==
    /\ \A c \in Clients :
          /\ c \in pend \/ c \in l2.rsp.to \/ ServesLoad(c) => Phase(c) = "waits"
          /\ c \in pend => c \notin l2.rsp.to /\ ~ServesLoad(c)
          /\ c \in l2.rsp.to => ~ServesLoad(c)
          /\ ServesLoad(c) => CurLine = LineOf(c) /\ (c = "d" => ~dc.store)
    /\ ic.phase # "idle" => ic.line \in ILines /\ ic.mode = "active"
    /\ dc.phase # "idle" => /\ dc.line \in DLines
                            /\ IF dc.store THEN IsDirty(dc.line)
                               ELSE dc.own[dc.line] = Absent
    /\ l2.rsp.to # {} =>
          \/ l2.state = "IDLE" /\ ("d" \in l2.rsp.to => ~dc.store)
          \/ /\ l2.state = "CHECK_VALID_AND_TAG" /\ l2.cur.store /\ l2.rsp.to = {"d"}
             /\ dc.store /\ dc.line = CurLine
    /\ l2.cur.store => /\ l2.state \in Busy /\ l2.cur.client = "d" /\ CurLine \in DLines
                       /\ l2.rsp.to = {} => dc.own[CurLine] = Absent
    /\ l2.state \in Busy => l2.idx = l2.cur.set /\ CurLine \in L1Lines

\* The rows of the second level, a row that is being flushed as it was read.
Row(s) == IF l2.state = "FLUSH_TRIAGE" /\ s = l2.idx THEN out ELSE arr[s]
LineAt(s) == [tag |-> Row(s).tag, set |-> s]
Victim == [tag |-> arr[l2.idx].tag, set |-> l2.idx]
RowsHeld ==
    /\ l2.state \in {"CHECK_VALID_AND_TAG", "FLUSH_WAIT"} => out = arr[l2.idx]
    /\ l2.state = "DIRTY_STORE" =>
          /\ arr[l2.idx].valid /\ arr[l2.idx].dirty
          /\ l2.mreq = [on |-> TRUE, store |-> TRUE, line |-> Victim, data |-> arr[l2.idx].data]
    /\ l2.state = "CLEAN_RELOAD" => l2.mreq = Reload
    /\ l2.state \in {"DIRTY_STORE", "STORE_TURNAROUND", "CLEAN_RELOAD"} /\ arr[l2.idx].valid =>
          arr[l2.idx].tag # l2.cur.tag
    /\ l2.state \in {"FLUSH_TRIAGE", "FLUSH_STORE"} => arr[l2.idx] = NoRow
    /\ l2.state = "FLUSH_STORE" =>
          l2.mreq.store /\ l2.mreq.line \in L2Lines /\ l2.mreq.line.set = l2.idx
    /\ l2.state # "INITIALIZE" => \A s \in Sets :
          /\ Row(s).dirty => Row(s).valid
          /\ Row(s).valid => Row(s).tag \in Tags

\* A row that is not dirty, and a victim that has been written back, is what the
\* memory holds; so is what the memory answers.
RowsExact ==
    /\ l2.state \in {"STORE_TURNAROUND", "CLEAN_RELOAD"} /\ arr[l2.idx].valid =>
          mem[Victim] = arr[l2.idx].data
    /\ memRsp.on => IF l2.mreq.store THEN mem[l2.mreq.line] = l2.mreq.data
                                     ELSE mem[l2.mreq.line] = memRsp.data
    /\ l2.state # "INITIALIZE" => \A s \in Sets :
          Row(s).valid /\ ~Row(s).dirty => mem[LineAt(s)] = Row(s).data

\* What has been flushed, or initialized, is clean; the host is handed a data
\* cache that holds nothing and a second level without its lines.
DSettled == dc.done \/ "d" \in got \/ core \in {"HANDLE_MONITOR", "HALT"}
Flushed ==
    /\ l2.state = "INITIALIZE" => \A s \in Sets : s \in 1 .. l2.idx => arr[s] = NoRow
    /\ l2.state \in Walking => \A s \in Sets : s < l2.idx => arr[s] = NoRow
    /\ l2Done => \A s \in Sets : arr[s] = NoRow
    /\ DSettled => /\ \A l \in DLines : ~IsDirty(l)
                   /\ dc.phase # "idle" => ~dc.store
    /\ DSettled /\ core \in {"MONITOR_FLUSH_CACHE", "HANDLE_MONITOR"} =>
          dc.phase = "idle" /\ dc.own = Empty
    /\ core \in {"HANDLE_MONITOR", "HALT"} =>
          ~l2.cur.store /\ \A s \in Sets : ~arr[s].dirty
    /\ core = "HANDLE_MONITOR" =>
          /\ l2.state \in Busy => Outer(CurLine) \notin HostLines
          /\ \A s \in Sets : arr[s].valid => LineAt(s) \notin HostLines

\* What a line holds below the data cache: a store that has been answered, the
\* row of the second level, a row on its way to the memory, or the memory.
Stored(l) == l2.cur.store /\ l = CurLine
Held(l) == Row(l.set).valid /\ Row(l.set).tag = l.tag
Leaving(l) == l2.state = "FLUSH_STORE" /\ l2.mreq.line = Outer(l)
Below(l) ==
    IF Stored(l) THEN l2.cur.val
    ELSE IF Held(l) THEN Row(l.set).data[l.bank]
    ELSE IF Leaving(l) THEN l2.mreq.data[l.bank]
    ELSE mem[Outer(l)][l.bank]
Exact ==
    /\ \A l \in DLines : dc.own[l] # Absent => dc.own[l].val = view[l]
    /\ l2.state = "INITIALIZE" => \A l \in L1Lines : mem[Outer(l)][l.bank] = view[l]
    /\ l2.state # "INITIALIZE" =>
          \A l \in L1Lines : Stored(l) \/ ~IsDirty(l) => Below(l) = view[l]
    /\ "d" \in l2.rsp.to /\ ~dc.store => l2.rsp.val = view[dc.line]
    /\ "i" \in l2.rsp.to /\ ~IsDirty(ic.line) => l2.rsp.val = view[ic.line]

IInv ==
    TypeOK /\ Port /\ Handshake /\ Requests /\ RowsHeld /\ RowsExact /\ Flushed /\ Exact

-----------------------------------------------------------------------------
(***************************************************************************)
(* The registers keep their types.                                         *)
(***************************************************************************)
(* The walk over the sets comes back to the first after the last (t_idx). *)
LEMMA NextSet ==
    ASSUME NEW k \in Sets
    PROVE  (k + 1) % NumSets = IF k = NumSets - 1 THEN 0 ELSE k + 1
<1> USE HierarchyAssumption DEF Sets
<1>1. NumSets \in Nat \ {0} /\ k \in 0 .. NumSets - 1
  OBVIOUS
<1>2. CASE k = NumSets - 1
  <2>1. k + 1 = NumSets
    BY <1>1, <1>2
  <2> QED BY <1>1, <1>2, <2>1
<1>3. CASE k # NumSets - 1
  BY <1>1, <1>3
<1> QED BY <1>2, <1>3

(* What is written before anything is known has the types of its register. *)
LEMMA ResetValues ==
    /\ 0 \in Sets /\ NoData \in Datas /\ NoRow \in Rows /\ NoReq \in Reqs
    /\ SomeLine \in AnyL1Line
    /\ \A c \in Clients : Served(c) \in Curs
    /\ NoRsp \in [to : SUBSET Clients, val : AnyVal]
    /\ NoMemRsp \in [on : BOOLEAN, data : Datas]
    /\ Empty \in [DLines -> Owns]
    /\ "d" \in Clients /\ "i" \in Clients
<1>1. 0 \in Sets
  BY HierarchyAssumption DEF Sets
<1>2. NoData \in Datas
  BY DEF NoData, Datas, AnyVal
<1>3. SomeLine \in AnyL1Line
  <2>1. SomeLine.bank \in AnyBank
    BY DEF AnyBank
  <2> QED BY <1>1, <2>1 DEF SomeLine, AnyL1Line, AnyTag
<1>4. NoRow \in Rows
  BY <1>2 DEF NoRow, Rows, AnyTag
<1>5. NoReq \in Reqs
  BY <1>1, <1>2 DEF NoReq, Reqs, Outer, SomeLine, AnyTag
<1>6. \A c \in Clients : Served(c) \in Curs
  BY <1>1 DEF Served, Curs, AnyTag, AnyVal, AnyBank
<1>7. NoRsp \in [to : SUBSET Clients, val : AnyVal]
  BY DEF NoRsp, AnyVal
<1>8. NoMemRsp \in [on : BOOLEAN, data : Datas]
  BY <1>2 DEF NoMemRsp
<1>9. Empty \in [DLines -> Owns]
  BY DEF Empty, Owns
<1> QED BY <1>1, <1>2, <1>3, <1>4, <1>5, <1>6, <1>7, <1>8, <1>9 DEF Clients

(* The requests that a row makes of the memory. *)
LEMMA RequestValues ==
    ASSUME L2Type
    PROVE  WriteBack \in Reqs /\ Reload \in Reqs
<1>1. out \in Rows /\ l2.cur \in Curs /\ l2.idx \in Sets
  BY DEF L2Type
<1> QED BY <1>1, ResetValues DEF WriteBack, Reload, Reqs, Outer, Rows, Curs

(* The FSM of the second level keeps its registers and RAMs typed. *)
LEMMA L2TypeKept ==
    ASSUME IInv, L2Step
    PROVE  L2Type'
<1>1. L2Type /\ DType /\ IType /\ CoreType /\ MemType /\ Requests
  BY DEF IInv, TypeOK
<1>2. need' \subseteq Clients /\ fstate' \in {"WAIT_FOR_FLUSH", "WAIT_FOR_L1_FLUSH_DONE"}
  BY <1>1 DEF L2Step, CollectFlushes, StillNeeded, L2Type, CoreType
<1>3. Flushing \in BOOLEAN
  BY <1>1 DEF Flushing, FlushFires, L2Type
<1>4. Asking \subseteq Clients
  BY <1>1 DEF Asking, L2Type
<1>5. /\ l2 \in [state : L2States, idx : Sets, reload : BOOLEAN, mreq : Reqs,
                 rsp : [to : SUBSET Clients, val : AnyVal], cur : Curs]
      /\ arr \in [Sets -> Rows] /\ out \in Rows
  BY <1>1 DEF L2Type
<1> DEFINE Ctl == pend' \subseteq Clients /\ flushReq' \in BOOLEAN /\ l2Done' \in BOOLEAN
           L2Rec == [state : L2States, idx : Sets, reload : BOOLEAN, mreq : Reqs,
                     rsp : [to : SUBSET Clients, val : AnyVal], cur : Curs]
           Good == l2' \in L2Rec /\ arr' \in [Sets -> Rows] /\ out' \in Rows /\ Ctl
<1> SUFFICES Good
  BY <1>2 DEF L2Type
<1>6. ASSUME NEW granted, NEW done \in BOOLEAN, Keeps(granted, done)
      PROVE  Ctl
  BY <1>3, <1>4, <1>6 DEF Keeps
<1>7. Stays => out' \in Rows /\ Ctl
  BY <1>5, <1>6 DEF Stays, Reads
<1>8. (l2.idx + 1) % NumSets \in Sets
  <2>1. l2.idx \in Sets
    BY <1>5
  <2> QED BY <2>1, NextSet, HierarchyAssumption DEF Sets
<1>9. /\ 0 \in Sets /\ NoData \in Datas /\ NoRow \in Rows /\ NoReq \in Reqs
      /\ \A c \in Clients : Served(c) \in Curs
      /\ NoRsp \in [to : SUBSET Clients, val : AnyVal]
      /\ WriteBack \in Reqs /\ Reload \in Reqs
  BY <1>1, ResetValues, RequestValues
<1> HIDE DEF L2Rec
<1>11. l2 \in L2Rec
  BY <1>5 DEF L2Rec
<1>12. CASE Initialize
  <2>1. l2' \in L2Rec
    BY <1>5, <1>8, <1>12 DEF Initialize, L2Rec, L2States
  <2> QED BY <1>3, <1>4, <1>5, <1>8, <1>9, <1>12, <2>1 DEF Initialize, Reads, Writes
<1>13. CASE IdleFlush
  <2>1. l2' \in L2Rec
    BY <1>5, <1>9, <1>13 DEF IdleFlush, L2Rec, L2States, Walking
  <2> QED BY <1>5, <1>6, <1>9, <1>13, <2>1 DEF IdleFlush, Reads
<1>14. CASE IdleNothing
  <2>1. l2' \in L2Rec
    BY <1>5, <1>9, <1>14 DEF IdleNothing, L2Rec, L2States
  <2> QED BY <1>5, <1>6, <1>9, <1>14, <2>1 DEF IdleNothing, Reads
<1>15. CASE IdleGrant
  <2> DEFINE line == IF Granted = "d" THEN dc.line ELSE ic.line
             store == Granted = "d" /\ dc.store
             cur == [client |-> Granted, store |-> store, tag |-> line.tag,
                     set |-> line.set, bank |-> line.bank,
                     val |-> IF store THEN dc.own[line].val ELSE SomeVal]
  <2>1. Granted \in Asking
    BY <1>4, <1>15 DEF IdleGrant, Granted, Clients
  <2>2. line \in AnyL1Line /\ store \in BOOLEAN
    BY <1>1 DEF DType, IType
  <2>3. store => dc.own[line].val \in AnyVal
    <3>1. Granted = "d" => dc.phase # "idle"
      BY <1>1, <2>1 DEF Asking, Requests, Phase, Clients
    <3>2. store => line \in DLines /\ dc.own[line].state = "dirty"
      BY <1>1, <3>1 DEF Requests, IsDirty
    <3>3. store => dc.own[line] \in Owns /\ dc.own[line].state = "dirty"
      BY <1>1, <3>2 DEF DType
    <3>4. \A o \in Owns : o.state = "dirty" => o.val \in AnyVal
      BY DEF Owns, Absent, Owned
    <3> QED BY <3>3, <3>4
  <2>4. cur \in Curs
    BY <1>4, <2>1, <2>2, <2>3 DEF Curs, AnyVal, AnyL1Line
  <2>5. l2' = [l2 EXCEPT !.state = "CHECK_VALID_AND_TAG", !.idx = line.set, !.cur = cur,
                         !.rsp = [NoRsp EXCEPT !.to = IF store THEN {"d"} ELSE {}]]
    BY <1>15 DEF IdleGrant
  <2>6. [NoRsp EXCEPT !.to = IF store THEN {"d"} ELSE {}] \in [to : SUBSET Clients, val : AnyVal]
    BY <1>9 DEF NoRsp, Clients
  <2>7. line.set \in Sets
    BY <2>2 DEF AnyL1Line
  <2>8. Keeps({Granted}, FALSE) /\ out' = arr[line.set] /\ arr' = arr
    BY <1>15 DEF IdleGrant, Reads
  <2> HIDE DEF line, store, cur
  <2>9. l2' \in L2Rec
    BY <1>5, <2>4, <2>5, <2>6, <2>7 DEF L2Rec, L2States, Busy
  <2> QED BY <1>5, <1>6, <2>7, <2>8, <2>9
<1>16. CASE CheckHit
  <2>1. l2.cur.bank \in Banks
    BY <1>1, <1>16 DEF CheckHit, HitMarks, Requests, Busy, CurLine, L1Lines
  <2>2. out.data[l2.cur.bank] \in AnyVal /\ l2.cur.client \in Clients /\ l2.cur.val \in AnyVal
    BY <1>5, <2>1 DEF Rows, Datas, Curs
  <2>3. Served(l2.cur.client) \in Curs
    BY <1>9, <2>2
  <2>4. l2' \in L2Rec
    BY <1>5, <1>9, <1>16, <2>2, <2>3 DEF CheckHit, HitMarks, L2Rec, L2States, Busy
  <2>5. arr' \in [Sets -> Rows]
    <3>1. CASE ~l2.cur.store
      BY <1>5, <1>16, <3>1 DEF CheckHit, HitMarks
    <3>2. CASE l2.cur.store
      <4> DEFINE row == [arr[l2.idx] EXCEPT !.dirty = TRUE, !.data[l2.cur.bank] = l2.cur.val]
      <4>1. arr' = [arr EXCEPT ![l2.idx] = row]
        BY <1>5, <1>16, <3>2 DEF CheckHit, HitMarks
      <4>2. arr[l2.idx] \in Rows /\ arr[l2.idx].data \in Datas
        BY <1>5 DEF Rows
      <4>3. [arr[l2.idx].data EXCEPT ![l2.cur.bank] = l2.cur.val] \in Datas
        BY <2>2, <4>2 DEF Datas
      <4>4. row \in Rows
        BY <4>2, <4>3 DEF Rows
      <4> HIDE DEF row
      <4> QED BY <1>5, <4>1, <4>4
    <3> QED BY <3>1, <3>2
  <2> QED BY <1>7, <1>16, <2>4, <2>5 DEF CheckHit, HitMarks
<1>17. CASE CheckMiss
  <2>1. l2' \in L2Rec
    BY <1>5, <1>9, <1>17 DEF CheckMiss, L2Rec, L2States, Busy
  <2> QED BY <1>5, <1>7, <1>17, <2>1 DEF CheckMiss
<1>18. CASE DirtyStore
  <2>1. l2' \in L2Rec
    BY <1>5, <1>9, <1>18 DEF DirtyStore, L2Rec, L2States, Busy
  <2> QED BY <1>5, <1>7, <1>18, <2>1 DEF DirtyStore
<1>19. CASE StoreTurnaround
  <2>1. l2' \in L2Rec
    BY <1>5, <1>9, <1>19 DEF StoreTurnaround, L2Rec, L2States, Busy
  <2> QED BY <1>5, <1>7, <1>19, <2>1 DEF StoreTurnaround
<1>20. CASE CleanReload
  <2>1. l2' \in L2Rec
    <3>1. CASE ~memRsp.on
      <4>1. l2' = l2
        BY <1>20, <3>1 DEF CleanReload, ReloadedInto
      <4>2. l2 \in L2Rec
        BY <1>5 DEF L2Rec
      <4> QED BY ONLY <4>1, <4>2
    <3>2. CASE memRsp.on
      <4>1. l2' = [l2 EXCEPT !.state = "WAIT_CLEAN_RELOAD", !.mreq = NoReq]
        BY <1>20, <3>2 DEF CleanReload, ReloadedInto
      <4>2. "WAIT_CLEAN_RELOAD" \in L2States
        BY DEF L2States, Busy
      <4> QED BY ONLY <1>5, <1>9, <4>1, <4>2 DEF L2Rec
    <3> QED BY <3>1, <3>2
  <2>2. memRsp.data \in Datas /\ l2.cur.tag \in AnyTag
    BY <1>1, <1>5 DEF MemType, Curs
  <2>3. arr' \in [Sets -> Rows]
    <3>1. CASE ~memRsp.on
      BY <1>5, <1>20, <3>1 DEF CleanReload, ReloadedInto
    <3>2. CASE memRsp.on
      <4> DEFINE row == [arr[l2.idx] EXCEPT !.valid = TRUE, !.tag = l2.cur.tag, !.data = memRsp.data]
      <4>1. arr' = [arr EXCEPT ![l2.idx] = row]
        BY <1>5, <1>20, <3>2 DEF CleanReload, ReloadedInto
      <4>2. row \in Rows
        BY <1>5, <2>2 DEF Rows
      <4> HIDE DEF row
      <4> QED BY <1>5, <4>1, <4>2
    <3> QED BY <3>1, <3>2
  <2> QED BY <1>5, <1>7, <1>20, <2>1, <2>3 DEF CleanReload, ReloadedInto
<1>21. CASE Turnaround
  <2>1. l2' \in L2Rec
    BY <1>5, <1>9, <1>21 DEF Turnaround, L2Rec, L2States, Busy
  <2> QED BY <1>5, <1>7, <1>21, <2>1 DEF Turnaround
<1>22. CASE FlushWait
  <2>1. l2' \in L2Rec
    BY <1>5, <1>9, <1>22 DEF FlushWait, L2Rec, L2States, Walking
  <2> QED BY <1>5, <1>7, <1>9, <1>22, <2>1 DEF FlushWait, Writes
<1>23. Advances => l2' \in L2Rec /\ out' \in Rows /\ Ctl
  <2> SUFFICES ASSUME Advances PROVE l2' \in L2Rec /\ out' \in Rows /\ Ctl
    OBVIOUS
  <2>1. l2' \in L2Rec
    BY <1>5, <1>8, <1>9 DEF Advances, L2Rec, L2States, Walking
  <2>2. Last \in BOOLEAN
    BY DEF Last
  <2> QED BY <1>5, <1>6, <1>8, <2>1, <2>2 DEF Advances, Reads
<1>24. CASE FlushTriage
  <2>1. CASE NeedWb
    <3>1. l2' \in L2Rec
      BY <1>5, <1>9, <1>24, <2>1 DEF FlushTriage, L2Rec, L2States, Walking
    <3> QED BY <1>5, <1>7, <1>24, <2>1, <3>1 DEF FlushTriage
  <2>2. CASE ~NeedWb
    BY <1>5, <1>23, <1>24, <2>2 DEF FlushTriage
  <2> QED BY <2>1, <2>2
<1>25. CASE FlushStore
  BY <1>5, <1>7, <1>11, <1>23, <1>25 DEF FlushStore
<1> QED BY <1>12, <1>13, <1>14, <1>15, <1>16, <1>17, <1>18, <1>19, <1>20, <1>21, <1>22, <1>24,
           <1>25 DEF L2Step

(* So does the data cache, and what the program has stored. *)
LEMMA DTypeKept ==
    ASSUME IInv, DStep
    PROVE  DType' /\ view' \in [L1Lines -> AnyVal]
<1>1. L2Type /\ DType /\ IType /\ CoreType /\ MemType /\ Requests
  BY DEF IInv, TypeOK
<1>2. /\ dc \in [phase : {"idle", "asks", "waits"}, line : AnyL1Line, store : BOOLEAN,
              own : [DLines -> Owns], flush : BOOLEAN, walks : BOOLEAN, done : BOOLEAN]
      /\ view \in [L1Lines -> AnyVal]
  BY <1>1 DEF DType, MemType
<1>3. SomeLine \in AnyL1Line /\ Empty \in [DLines -> Owns]
  BY ResetValues
<1>4. DLines \subseteq AnyL1Line /\ DLines \subseteq L1Lines
  BY HierarchyAssumption DEF L1Lines, AnyL1Line, AnyTag, AnyBank
<1>5. Dirty \subseteq DLines
  BY DEF Dirty
<1>6. ASSUME NEW st \in {"clean", "dirty"}, NEW v \in AnyVal PROVE Owned(st, v) \in Owns
  BY DEF Owns
<1>7. ("d" \in reqs) \in BOOLEAN
  OBVIOUS
<1>8. CASE UNCHANGED view /\ DWaits
  BY <1>1, <1>2, <1>8 DEF DWaits, DType
<1>9. CASE dc.phase # "idle" /\ DAnswered /\ UNCHANGED view
  <2> DEFINE o == IF dc.store THEN Absent ELSE Owned("clean", l2.rsp.val)
  <2>1. l2.rsp.val \in AnyVal
    BY <1>1 DEF L2Type
  <2>2. o \in Owns
    BY <1>6, <2>1 DEF Owns
  <2>3. dc.line \in DLines
    BY <1>1, <1>9 DEF Requests
  <2>4. dc' = [dc EXCEPT !.phase = "idle", !.done = FALSE, !.flush = dc.flush \/ "d" \in reqs,
                     !.line = SomeLine, !.store = FALSE, !.own = [@ EXCEPT ![dc.line] = o]]
    BY <1>9 DEF DAnswered
  <2> HIDE DEF o
  <2>5. [dc.own EXCEPT ![dc.line] = o] \in [DLines -> Owns]
    BY <1>2, <2>2
  <2> QED BY <1>2, <1>3, <1>9, <2>4, <2>5 DEF DType
<1>10. CASE DFlushes /\ UNCHANGED view
  <2> DEFINE next == IF Dirty = {} THEN dc.line ELSE CHOOSE l \in Dirty : TRUE
  <2>1. next \in AnyL1Line
    BY <1>2, <1>4, <1>5
  <2>2. dc' = [dc EXCEPT !.walks = Dirty # {}, !.done = Dirty = {},
                     !.flush = dc.walks /\ (dc.flush \/ "d" \in reqs),
                     !.phase = IF Dirty = {} THEN @ ELSE "asks", !.store = TRUE,
                     !.line = next,
                     !.own = IF Dirty = {} THEN Empty ELSE @]
    BY <1>2, <1>10 DEF DFlushes
  <2> HIDE DEF next
  <2>3. (Dirty = {}) \in BOOLEAN /\ (dc.walks /\ (dc.flush \/ "d" \in reqs)) \in BOOLEAN
    BY <1>2
  <2> QED BY <1>2, <1>3, <1>10, <2>1, <2>2, <2>3 DEF DType
<1>11. ASSUME NEW l \in DLines, NEW st \in BOOLEAN, DAsks(l, st), UNCHANGED view
       PROVE  DType' /\ view' \in [L1Lines -> AnyVal]
  BY <1>2, <1>4, <1>11 DEF DAsks, DType
<1>12. ASSUME NEW l \in DLines, NEW v \in Vals, view' = [view EXCEPT ![l] = v]
       PROVE  view' \in [L1Lines -> AnyVal]
  BY <1>2, <1>4, <1>12 DEF AnyVal
<1>13. ASSUME NEW l \in DLines, NEW v \in Vals, DStores(l, v), view' = [view EXCEPT ![l] = v]
       PROVE  DType' /\ view' \in [L1Lines -> AnyVal]
  <2>1. Owned("dirty", v) \in Owns
    BY <1>6 DEF AnyVal
  <2>2. [dc.own EXCEPT ![l] = Owned("dirty", v)] \in [DLines -> Owns]
    BY <1>2, <2>1
  <2> QED BY <1>2, <1>12, <1>13, <2>2 DEF DStores, DType
<1>14. ASSUME NEW l \in DLines, NEW v \in Vals, DWaits, view' = [view EXCEPT ![l] = v]
       PROVE  DType' /\ view' \in [L1Lines -> AnyVal]
  BY <1>2, <1>12, <1>14 DEF DWaits, DType
<1> QED BY <1>5, <1>8, <1>9, <1>10, <1>11, <1>13, <1>14 DEF DStep

(* The instruction cache too. *)
LEMMA ITypeKept ==
    ASSUME IInv, IStep
    PROVE  IType'
<1>1. ic \in [phase : {"idle", "asks", "waits"}, line : AnyL1Line,
              mode : {"active", "walks", "stopped"}, flush : BOOLEAN, done : BOOLEAN]
  BY DEF IInv, TypeOK, IType
<1>2. SomeLine \in AnyL1Line
  BY ResetValues
<1>3. ILines \subseteq AnyL1Line
  BY HierarchyAssumption DEF L1Lines, AnyL1Line, AnyTag, AnyBank
<1> DEFINE flush == ic.flush \/ "i" \in reqs
           quiet == [ic EXCEPT !.done = FALSE, !.flush = flush]
<1>4. flush \in BOOLEAN
  BY <1>1
<1>5. CASE ic.phase # "idle"
  <2>1. ic' = IF Answered("i") THEN [quiet EXCEPT !.phase = "idle", !.line = SomeLine]
               ELSE [quiet EXCEPT !.phase = "waits"]
    BY <1>5 DEF IStep
  <2> HIDE DEF flush
  <2> QED BY <1>1, <1>2, <1>4, <2>1 DEF IType
<1>6. CASE ic.phase = "idle"
  <2>1. \/ ic' = [quiet EXCEPT !.mode = "stopped", !.done = TRUE]
        \/ ic' = [quiet EXCEPT !.mode = IF Running THEN "active" ELSE @]
        \/ ic' = [quiet EXCEPT !.mode = "walks", !.flush = FALSE]
        \/ ic' = quiet
        \/ \E l \in ILines : ic' = [quiet EXCEPT !.phase = "asks", !.line = l]
    BY <1>1, <1>6 DEF IStep
  <2> HIDE DEF flush
  <2> QED BY <1>1, <1>3, <1>4, <2>1 DEF IType
<1> QED BY <1>5, <1>6

(* And the core and its flush control. *)
LEMMA CoreTypeKept ==
    ASSUME IInv, CoreStep, Control
    PROVE  CoreType'
<1>1. CoreType /\ DType /\ IType
  BY DEF IInv, TypeOK
<1>2. Seen \subseteq Clients \cup {"l2"}
  BY <1>1 DEF Seen, Dones, CoreType, Clients
<1>3. /\ core' \in {"RUN", "MONITOR_FLUSH_CACHE", "FLUSH_FOR_HALT", "HANDLE_MONITOR", "HALT"}
      /\ reqs' \subseteq Clients /\ got' \subseteq Clients \cup {"l2"}
  BY <1>1, <1>2 DEF CoreType, CoreStep, AsksFlush, MonitorFlushed, HaltFlushed, GoesOn, Clients
<1>4. ctl' \in {"FLUSH_IDLE", "WAIT_FOR_L1D_L1I", "GOT_L1D", "GOT_L1I", "FLUSH_L2"}
  BY <1>1 DEF CoreType, Control
<1> QED BY <1>3, <1>4 DEF CoreType

-----------------------------------------------------------------------------
(***************************************************************************)
(* The port to the memory.                                                 *)
(***************************************************************************)
ReqStates == {"DIRTY_STORE", "CLEAN_RELOAD", "FLUSH_STORE"}

(* A request is held as it is until it is answered, and dropped with the answer
   (l2.sv, r_mem_req). *)
LEMMA RequestHeld ==
    ASSUME IInv, L2Step, l2.mreq.on
    PROVE  /\ ~memRsp.on => l2' = l2 /\ arr' = arr
           /\ memRsp.on => ~l2'.mreq.on
<1>1. L2Type /\ l2.state \in ReqStates
  BY DEF IInv, TypeOK, Port, ReqStates
<1>2. ~NoReq.on
  BY DEF NoReq
<1>3. CASE l2.state = "DIRTY_STORE"
  <2>1. DirtyStore
    BY <1>3 DEF L2Step, Initialize, IdleFlush, IdleNothing, IdleGrant, CheckHit, HitMarks,
                CheckMiss, StoreTurnaround, CleanReload, ReloadedInto, Turnaround, FlushWait,
                FlushTriage, FlushStore
  <2> QED BY <1>1, <1>2, <2>1 DEF DirtyStore, L2Type
<1>4. CASE l2.state = "CLEAN_RELOAD"
  <2>1. CleanReload
    BY <1>4 DEF L2Step, Initialize, IdleFlush, IdleNothing, IdleGrant, CheckHit, HitMarks,
                CheckMiss, StoreTurnaround, DirtyStore, Turnaround, FlushWait,
                FlushTriage, FlushStore
  <2> QED BY <1>1, <1>2, <2>1 DEF CleanReload, ReloadedInto, L2Type
<1>5. CASE l2.state = "FLUSH_STORE"
  <2>1. FlushStore
    BY <1>5 DEF L2Step, Initialize, IdleFlush, IdleNothing, IdleGrant, CheckHit, HitMarks,
                CheckMiss, StoreTurnaround, CleanReload, ReloadedInto, Turnaround, FlushWait,
                FlushTriage, DirtyStore
  <2> QED BY <1>1, <1>2, <2>1 DEF FlushStore, Advances, L2Type
<1> QED BY <1>1, <1>3, <1>4, <1>5 DEF ReqStates

(* What the falling edge does: an answer is due only to a request that is up. *)
LEMMA MemoryAnswers ==
    ASSUME IInv, L2Step, Memory
    PROVE  /\ Due \in {NoWait} \cup Nat
           /\ memRsp'.on <=> Due = 0
           /\ wait' = (IF Due = 0 THEN NoWait ELSE Due)
           /\ Due # NoWait => l2'.mreq.on
<1>1. wait \in {NoWait} \cup (Nat \ {0}) /\ lat \in Nat \ {0}
  BY HierarchyAssumption DEF IInv, TypeOK, MemType
<1>2. wait # NoWait => l2.mreq.on /\ ~memRsp.on
  BY DEF IInv, Port
<1>3. wait # NoWait => l2'.mreq.on
  BY <1>2, RequestHeld
<1>4. Due \in {NoWait} \cup Nat
  BY <1>1 DEF Due, NoWait
<1>5. Due # NoWait => l2'.mreq.on
  BY <1>3 DEF Due
<1>6. (memRsp'.on <=> Due = 0) /\ wait' = IF Due = 0 THEN NoWait ELSE Due
  BY DEF Memory, NoMemRsp
<1> QED BY <1>4, <1>5, <1>6

(* The row that a line fetched from the memory leaves (l2.sv, CLEAN_RELOAD). *)
LEMMA ReloadedRow ==
    ASSUME L2Type, CleanReload, memRsp.on
    PROVE  /\ arr'[l2.idx].valid /\ arr'[l2.idx].tag = l2.cur.tag
           /\ arr'[l2.idx].data = memRsp.data /\ arr'[l2.idx].dirty = arr[l2.idx].dirty
           /\ \A s \in Sets : s # l2.idx => arr'[s] = arr[s]
<1> DEFINE row == [arr[l2.idx] EXCEPT !.valid = TRUE, !.tag = l2.cur.tag, !.data = memRsp.data]
<1>1. arr \in [Sets -> Rows] /\ l2.idx \in Sets
  BY DEF L2Type
<1>2. arr' = [arr EXCEPT ![l2.idx] = row]
  BY <1>1 DEF CleanReload, ReloadedInto
<1>3. /\ row.valid /\ row.tag = l2.cur.tag /\ row.data = memRsp.data
      /\ row.dirty = arr[l2.idx].dirty
  BY <1>1 DEF Rows
<1> HIDE DEF row
<1> QED BY <1>1, <1>2, <1>3

(* The row that a store leaves (l2.sv, CHECK_VALID_AND_TAG). *)
LEMMA StoredRow ==
    ASSUME L2Type, CheckHit, l2.cur.store
    PROVE  /\ arr'[l2.idx].valid = arr[l2.idx].valid /\ arr'[l2.idx].tag = arr[l2.idx].tag
           /\ arr'[l2.idx].data = [arr[l2.idx].data EXCEPT ![l2.cur.bank] = l2.cur.val]
           /\ arr'[l2.idx].dirty
           /\ \A s \in Sets : s # l2.idx => arr'[s] = arr[s]
<1> DEFINE row == [arr[l2.idx] EXCEPT !.dirty = TRUE, !.data[l2.cur.bank] = l2.cur.val]
<1>1. arr \in [Sets -> Rows] /\ l2.idx \in Sets
  BY DEF L2Type
<1>2. arr' = [arr EXCEPT ![l2.idx] = row]
  BY <1>1 DEF CheckHit, HitMarks
<1>3. /\ row.valid = arr[l2.idx].valid /\ row.tag = arr[l2.idx].tag
      /\ row.data = [arr[l2.idx].data EXCEPT ![l2.cur.bank] = l2.cur.val] /\ row.dirty
  BY <1>1 DEF Rows
<1> HIDE DEF row
<1> QED BY <1>1, <1>2, <1>3

(* The states that wait for the memory are those with a request up, and a line
   that was fetched is found. *)
LEMMA PortKept ==
    ASSUME IInv, L2Step, Memory
    PROVE  Port'
<1>1. /\ L2Type /\ L2Type' /\ Port
  BY L2TypeKept DEF IInv, TypeOK
<1>2. ~NoReq.on /\ WriteBack.on /\ Reload.on
  BY DEF NoReq, WriteBack, Reload
<1>3. /\ l2 \in [state : L2States, idx : Sets, reload : BOOLEAN, mreq : Reqs,
                 rsp : [to : SUBSET Clients, val : AnyVal], cur : Curs]
      /\ l2.state \in L2States /\ arr \in [Sets -> Rows] /\ l2.idx \in Sets
  BY <1>1 DEF L2Type
<1>4. /\ l2.mreq.on <=> l2.state \in ReqStates
      /\ l2.reload => l2.state \in {"CLEAN_RELOAD", "WAIT_CLEAN_RELOAD", "CHECK_VALID_AND_TAG"}
      /\ l2.state = "WAIT_CLEAN_RELOAD" => arr[l2.idx].valid /\ arr[l2.idx].tag = l2.cur.tag
      /\ l2.state = "CHECK_VALID_AND_TAG" /\ l2.reload => Hit
  BY <1>1 DEF Port, ReqStates
<1> DEFINE Good ==
      /\ l2'.mreq.on <=> l2'.state \in ReqStates
      /\ l2'.reload => l2'.state \in {"CLEAN_RELOAD", "WAIT_CLEAN_RELOAD", "CHECK_VALID_AND_TAG"}
      /\ l2'.state = "WAIT_CLEAN_RELOAD" => arr'[l2'.idx].valid /\ arr'[l2'.idx].tag = l2'.cur.tag
      /\ l2'.state = "CHECK_VALID_AND_TAG" /\ l2'.reload => Hit'
<1>5. Good
  <2> USE <1>2, <1>3, <1>4 DEF ReqStates
  <2>1. CASE Initialize
    BY <2>1 DEF Initialize
  <2>2. CASE IdleFlush
    BY <2>2 DEF IdleFlush
  <2>3. CASE IdleNothing
    BY <2>3 DEF IdleNothing
  <2>4. CASE IdleGrant
    BY <2>4 DEF IdleGrant
  <2>5. CASE CheckHit
    BY <2>5 DEF CheckHit, HitMarks
  <2>6. CASE CheckMiss
    BY <2>6 DEF CheckMiss
  <2>7. CASE DirtyStore
    BY <2>7 DEF DirtyStore
  <2>8. CASE StoreTurnaround
    BY <2>8 DEF StoreTurnaround
  <2>9. CASE CleanReload
    <3>1. CASE memRsp.on
      <4>1. l2' = [l2 EXCEPT !.state = "WAIT_CLEAN_RELOAD", !.mreq = NoReq]
        BY <2>9, <3>1 DEF CleanReload, ReloadedInto
      <4>2. /\ l2'.state = "WAIT_CLEAN_RELOAD" /\ ~l2'.mreq.on
            /\ l2'.idx = l2.idx /\ l2'.cur = l2.cur
        BY <4>1
      <4>3. arr'[l2.idx].valid /\ arr'[l2.idx].tag = l2.cur.tag
        BY <1>1, <2>9, <3>1, ReloadedRow
      <4> QED BY <4>2, <4>3
    <3>2. CASE ~memRsp.on
      BY <2>9, <3>2 DEF CleanReload, ReloadedInto
    <3> QED BY <3>1, <3>2
  <2>10. CASE Turnaround
    BY <2>10 DEF Turnaround, Stays, Reads, Hit
  <2>11. CASE FlushWait
    BY <2>11 DEF FlushWait
  <2>12. Advances /\ l2.state \in Walking => Good
    BY DEF Advances, Walking
  <2>13. CASE FlushTriage
    BY <2>12, <2>13 DEF FlushTriage, Walking
  <2>14. CASE FlushStore
    BY <2>12, <2>14 DEF FlushStore, Walking
  <2> QED BY <2>1, <2>2, <2>3, <2>4, <2>5, <2>6, <2>7, <2>8, <2>9, <2>10, <2>11, <2>13,
             <2>14 DEF L2Step
<1>6. /\ wait' # NoWait => l2'.mreq.on /\ ~memRsp'.on
      /\ memRsp'.on => l2'.mreq.on
  BY MemoryAnswers DEF NoWait
<1> QED BY <1>5, <1>6 DEF Port, ReqStates

-----------------------------------------------------------------------------
(***************************************************************************)
(* The flush handshake.                                                    *)
(***************************************************************************)
(* What a step of the second level does to a flush: it is remembered until it
   starts from IDLE, and is over when the last set has been read. *)
LEMMA L2Flushes ==
    ASSUME IInv, L2Step
    PROVE  /\ l2.state = "INITIALIZE" =>
                 /\ flushReq' = Flushing
                 /\ l2Done' => l2'.state = "IDLE"
                 /\ ~l2Done' => l2'.state = "INITIALIZE"
           /\ l2.state \in Walking =>
                 /\ flushReq' = (Flushing /\ ~l2Done')
                 /\ l2Done' => l2'.state = "IDLE"
                 /\ ~l2Done' => l2'.state \in Walking
           /\ l2.state \notin Walking \cup {"INITIALIZE"} =>
                 /\ flushReq' = Flushing /\ ~l2Done' /\ l2'.state # "INITIALIZE"
                 /\ l2'.state \in Walking => l2.state = "IDLE" /\ Flushing
<1>1. L2Type
  BY DEF IInv, TypeOK
<1>2. /\ l2 \in [state : L2States, idx : Sets, reload : BOOLEAN, mreq : Reqs,
                 rsp : [to : SUBSET Clients, val : AnyVal], cur : Curs]
  BY <1>1 DEF L2Type
<1> DEFINE Good ==
      /\ l2.state = "INITIALIZE" =>
            /\ flushReq' = Flushing
            /\ l2Done' => l2'.state = "IDLE"
            /\ ~l2Done' => l2'.state = "INITIALIZE"
      /\ l2.state \in Walking =>
            /\ flushReq' = (Flushing /\ ~l2Done')
            /\ l2Done' => l2'.state = "IDLE"
            /\ ~l2Done' => l2'.state \in Walking
      /\ l2.state \notin Walking \cup {"INITIALIZE"} =>
            /\ flushReq' = Flushing /\ ~l2Done' /\ l2'.state # "INITIALIZE"
            /\ l2'.state \in Walking => l2.state = "IDLE" /\ Flushing
<1>3. Flushing \in BOOLEAN
  BY <1>1 DEF Flushing, FlushFires, L2Type
<1>4. ASSUME NEW granted, Keeps(granted, FALSE) PROVE flushReq' = Flushing /\ ~l2Done'
  BY <1>3, <1>4 DEF Keeps
<1>5. Stays => flushReq' = Flushing /\ ~l2Done'
  BY <1>4 DEF Stays
<1> SUFFICES Good
  OBVIOUS
<1> HIDE DEF Flushing
<1>6. CASE Initialize
  BY <1>2, <1>6 DEF Initialize, Walking
<1>7. CASE IdleFlush
  BY <1>2, <1>4, <1>7 DEF IdleFlush, Walking
<1>8. CASE IdleNothing
  BY <1>2, <1>4, <1>8 DEF IdleNothing, Walking
<1>9. CASE IdleGrant
  BY <1>2, <1>4, <1>9 DEF IdleGrant, Walking
<1>10. CASE CheckHit
  BY <1>2, <1>5, <1>10 DEF CheckHit, HitMarks, Walking
<1>11. CASE CheckMiss
  BY <1>2, <1>5, <1>11 DEF CheckMiss, Walking
<1>12. CASE DirtyStore
  BY <1>2, <1>5, <1>12 DEF DirtyStore, Walking
<1>13. CASE StoreTurnaround
  BY <1>2, <1>5, <1>13 DEF StoreTurnaround, Walking
<1>14. CASE CleanReload
  BY <1>2, <1>5, <1>14 DEF CleanReload, ReloadedInto, Walking
<1>15. CASE Turnaround
  <2>1. l2'.state \in {"IDLE", "CHECK_VALID_AND_TAG"}
    BY <1>2, <1>15 DEF Turnaround
  <2> QED BY <1>5, <1>15, <2>1 DEF Turnaround, Walking
<1>16. CASE FlushWait
  <2>1. l2'.state = "FLUSH_TRIAGE" /\ Stays /\ l2.state = "FLUSH_WAIT"
    BY <1>2, <1>16 DEF FlushWait
  <2> QED BY <1>3, <1>5, <2>1 DEF Walking
<1>17. Advances /\ l2.state \in Walking => Good
  <2> SUFFICES ASSUME Advances, l2.state \in Walking PROVE Good
    OBVIOUS
  <2>1. Last \in BOOLEAN
    BY DEF Last
  <2>2. flushReq' = (Flushing /\ ~Last) /\ l2Done' = Last
    BY DEF Advances, Keeps
  <2>3. l2'.state = IF Last THEN "IDLE" ELSE "FLUSH_WAIT"
    BY <1>2 DEF Advances
  <2> HIDE DEF Last
  <2> QED BY <1>3, <2>1, <2>2, <2>3 DEF Walking
<1>18. CASE FlushTriage
  <2>1. l2.state \in Walking
    BY <1>18 DEF FlushTriage, Walking
  <2>2. CASE NeedWb
    <3>1. Stays /\ l2' = [l2 EXCEPT !.state = "FLUSH_STORE", !.mreq = WriteBack]
      BY <1>18, <2>2 DEF FlushTriage
    <3>2. l2'.state = "FLUSH_STORE"
      BY <1>2, <3>1
    <3> QED BY <1>3, <1>5, <2>1, <3>1, <3>2 DEF Walking
  <2>3. CASE ~NeedWb
    <3>1. Advances
      BY <1>18, <2>3 DEF FlushTriage
    <3> QED BY <1>17, <2>1, <3>1
  <2> QED BY <2>2, <2>3
<1>19. CASE FlushStore
  <2>1. l2.state \in Walking
    BY <1>19 DEF FlushStore, Walking
  <2>2. CASE memRsp.on
    <3>1. Advances
      BY <1>19, <2>2 DEF FlushStore
    <3> QED BY <1>17, <2>1, <3>1
  <2>3. CASE ~memRsp.on
    <3>1. Stays /\ l2'.state = l2.state
      BY <1>19, <2>3 DEF FlushStore
    <3> QED BY <1>3, <1>5, <2>1, <3>1 DEF Walking
  <2> QED BY <2>2, <2>3
<1> QED BY <1>6, <1>7, <1>8, <1>9, <1>10, <1>11, <1>12, <1>13, <1>14, <1>15, <1>16, <1>18,
           <1>19 DEF L2Step

(* A flush of the data cache: remembered, then walked through, then reported. *)
LEMMA DFlushSteps ==
    ASSUME IInv, DStep
    PROVE  /\ dc'.flush \in BOOLEAN /\ dc'.walks \in BOOLEAN /\ dc'.done \in BOOLEAN
           /\ "d" \notin reqs /\ DQuiet => DQuiet' /\ ~dc'.done
           /\ "d" \in reqs /\ DQuiet => dc'.flush /\ ~dc'.walks /\ ~dc'.done
           /\ "d" \notin reqs /\ ~DQuiet /\ ~(dc.flush /\ dc.walks) =>
                 /\ ~(dc'.flush /\ dc'.walks)
                 /\ dc'.done <=> DQuiet'
<1>1. DType /\ DType'
  BY DTypeKept DEF IInv, TypeOK
<1>2. dc \in [phase : {"idle", "asks", "waits"}, line : AnyL1Line, store : BOOLEAN,
            own : [DLines -> Owns], flush : BOOLEAN, walks : BOOLEAN, done : BOOLEAN]
  BY <1>1 DEF DType
<1>3. dc'.flush \in BOOLEAN /\ dc'.walks \in BOOLEAN /\ dc'.done \in BOOLEAN
  BY <1>1 DEF DType
<1>4. CASE dc.phase = "idle" /\ (dc.flush \/ dc.walks)
  <2>1. DFlushes
    BY <1>4 DEF DStep
  <2>2. /\ dc'.walks = (Dirty # {}) /\ dc'.done = (Dirty = {})
        /\ dc'.flush = (dc.walks /\ (dc.flush \/ "d" \in reqs))
    BY <1>2, <2>1 DEF DFlushes
  <2> QED BY <1>3, <1>4, <2>2 DEF DQuiet
<1>5. CASE ~(dc.phase = "idle" /\ (dc.flush \/ dc.walks))
  <2>1. \/ DAnswered \/ DWaits
        \/ \E l \in DLines, st \in BOOLEAN : DAsks(l, st)
        \/ \E l \in DLines, v \in Vals : DStores(l, v)
    BY <1>5 DEF DStep, Dirty
  <2>2. /\ ~dc'.done /\ dc'.walks = dc.walks
        /\ dc'.flush = (dc.flush \/ "d" \in reqs)
    BY <1>2, <2>1 DEF DAnswered, DWaits, DAsks, DStores
  <2> QED BY <1>2, <1>3, <2>2 DEF DQuiet
<1> QED BY <1>4, <1>5

\* The instruction cache has been told to flush and has not ended.
IWorks ==
    \/ ic.mode = "walks" /\ ~ic.flush
    \/ ic.mode = "active" /\ ic.flush

(* A flush of the instruction cache, which then stops. *)
LEMMA IFlushSteps ==
    ASSUME IInv, IStep
    PROVE  /\ "i" \notin reqs /\ IAway => IAway'
           /\ "i" \in reqs /\ IAway => ~ic'.done /\ IWorks'
           /\ "i" \notin reqs /\ IWorks =>
                 \/ ~ic'.done /\ IWorks'
                 \/ ic'.done /\ ic'.mode = "stopped" /\ ~ic'.flush
           /\ "i" \notin reqs /\ ic.mode = "stopped" /\ ~ic.flush =>
                 /\ ~ic'.flush /\ ~ic'.done
                 /\ ic'.mode = (IF Running THEN "active" ELSE "stopped")
<1>1. ic \in [phase : {"idle", "asks", "waits"}, line : AnyL1Line,
            mode : {"active", "walks", "stopped"}, flush : BOOLEAN, done : BOOLEAN]
  BY DEF IInv, TypeOK, IType
<1>2. CASE ic.phase # "idle"
  <2> ic.mode = "active"
    BY <1>2 DEF IInv, Requests
  <2>1. ~ic'.done /\ ic'.flush = (ic.flush \/ "i" \in reqs) /\ ic'.mode = ic.mode
    BY <1>1, <1>2 DEF IStep
  <2> QED BY <1>1, <2>1 DEF IAway, IWorks
<1>3. CASE ic.phase = "idle" /\ ic.mode = "walks"
  BY <1>1, <1>3 DEF IStep, IAway, IWorks
<1>4. CASE ic.phase = "idle" /\ ic.mode = "stopped"
  BY <1>1, <1>4 DEF IStep, IAway, IWorks
<1>5. CASE ic.phase = "idle" /\ ic.mode = "active"
  BY <1>1, <1>5 DEF IStep, IAway, IWorks
<1> QED BY <1>1, <1>2, <1>3, <1>4, <1>5

(* The handshake goes on: out of reset, to rest, and for each flush from the
   request through the first level to the second (core_l1d_l1i.sv, core.sv). *)
LEMMA HandshakeKept ==
    ASSUME IInv, L2Step, DStep, IStep, CoreStep, Control
    PROVE  Handshake'
<1>1. /\ L2Type /\ DType /\ IType /\ CoreType /\ Handshake
      /\ Requests /\ Flushed
  BY DEF IInv, TypeOK
<1>2. /\ dc.done \in BOOLEAN /\ dc.flush \in BOOLEAN /\ dc.walks \in BOOLEAN
      /\ ic.done \in BOOLEAN /\ ic.flush \in BOOLEAN /\ ic.mode \in {"active", "walks", "stopped"}
      /\ l2Done \in BOOLEAN /\ flushReq \in BOOLEAN
  BY <1>1 DEF DType, IType, L2Type
<1>3. /\ need' = StillNeeded
      /\ fstate' = IF FlushFires THEN "WAIT_FOR_FLUSH"
                   ELSE IF StillNeeded # {} THEN "WAIT_FOR_L1_FLUSH_DONE" ELSE fstate
  BY DEF L2Step, CollectFlushes
<1>4. CASE Rests
  <2> USE <1>4 DEF Rests, Idle, L2Quiet
  <2>1. Dones = {} /\ StillNeeded = {} /\ ~FlushFires /\ ~Flushing /\ Seen = {}
    BY DEF Dones, StillNeeded, FlushFires, Flushing, Seen
  <2>2. Idle' /\ need' = {}
    BY <1>3, <2>1 DEF Control
  <2>3. L2Quiet'
    BY <2>1, L2Flushes DEF L2Quiet
  <2>4. DQuiet' /\ ~dc'.done
    BY DFlushSteps
  <2>5. CASE ic.mode = "active"
    <3>1. IAway'
      BY <1>2, <2>5, IFlushSteps DEF IAway, IQuiet
    <3>2. \/ core = "RUN" /\ core' \in {"MONITOR_FLUSH_CACHE", "FLUSH_FOR_HALT"} /\ reqs' = Who'
             /\ got' = {}
          \/ core' \in {"RUN", "HANDLE_MONITOR"} /\ reqs' = {} /\ got' = {}
      BY <2>1, <2>5 DEF CoreStep, AsksFlush, MonitorFlushed, HaltFlushed, GoesOn, Who
    <3> QED BY <2>2, <2>3, <2>4, <3>1, <3>2 DEF Handshake, Asked, IAway, IQuiet
  <2>6. CASE ic.mode = "stopped"
    <3>1. /\ ~ic'.flush /\ ~ic'.done
          /\ ic'.mode = (IF Running THEN "active" ELSE "stopped")
      BY <1>2, <2>6, IFlushSteps DEF IQuiet
    <3>2. CASE core = "RUN"
      <4>1. IAway'
        BY <3>1, <3>2 DEF IAway, Running
      <4>2. \/ core' \in {"MONITOR_FLUSH_CACHE", "FLUSH_FOR_HALT"} /\ reqs' = Who' /\ got' = {}
            \/ core' = "RUN" /\ reqs' = {} /\ got' = {}
        BY <2>1, <3>2 DEF CoreStep, AsksFlush, MonitorFlushed, HaltFlushed, GoesOn, Who
      <4> QED BY <2>2, <2>3, <2>4, <4>1, <4>2 DEF Handshake, Asked, IAway, IQuiet
    <3>3. CASE core = "HALT"
      <4>1. core' \in {"RUN", "HALT"} /\ reqs' = {} /\ got' = {}
        BY <2>1, <3>3 DEF CoreStep, AsksFlush, MonitorFlushed, HaltFlushed, GoesOn
      <4> QED BY <2>2, <2>3, <2>4, <3>1, <3>3, <4>1 DEF Handshake, IQuiet, Running
    <3> QED BY <2>6, <3>2, <3>3
  <2> QED BY <1>2, <2>5, <2>6 DEF IQuiet
<1>5. CASE Asked
  <2> USE <1>5 DEF Asked, Idle, L2Quiet
  <2>1. Dones = {} /\ StillNeeded = Who /\ ~FlushFires /\ ~Flushing /\ Seen = {} /\ Who # {}
    BY DEF Dones, StillNeeded, FlushFires, Flushing, Seen, IAway, Who
  <2>2. need' = Who /\ fstate' = "WAIT_FOR_L1_FLUSH_DONE"
    BY <1>3, <2>1
  <2>3. core' = core /\ reqs' = {} /\ got' = {} /\ Who' = Who
    BY <2>1 DEF CoreStep, AsksFlush, MonitorFlushed, HaltFlushed, GoesOn, Who
  <2>4. ctl' = CtlOf'
    BY <2>3 DEF Control, CtlOf, Who
  <2>5. L2Quiet'
    BY <2>1, L2Flushes DEF L2Quiet
  <2>6. DProgress' /\ "d" \in Who
    BY <2>3, DFlushSteps DEF DProgress, Who, DQuiet
  <2>7. IF "i" \in Who THEN IProgress' ELSE IAway'
    BY <1>2, <2>3, IFlushSteps DEF IProgress, IWorks
  <2> QED BY <2>1, <2>2, <2>3, <2>4, <2>5, <2>6, <2>7 DEF Handshake, FirstLevel
<1>6. CASE FirstLevel
  <2> USE <1>6 DEF FirstLevel, L2Quiet
  <2>1. ~l2Done /\ "l2" \notin got /\ Seen = got \cup Dones /\ Dones \subseteq Who
    BY DEF Who, Seen, Dones, IAway
  <2>2. core' = core /\ reqs' = {} /\ got' = got \cup Dones /\ Who' = Who
    BY <2>1 DEF CoreStep, AsksFlush, MonitorFlushed, HaltFlushed, GoesOn, Who, Dones
  <2>3. StillNeeded = Who \ got'
    BY <2>1, <2>2 DEF StillNeeded
  <2>4. DProgress'
    BY <1>2, <2>2, DFlushSteps DEF DProgress, Dones, DQuiet
  <2>5. IF "i" \in Who THEN IProgress' ELSE IAway'
    BY <1>2, <2>2, IFlushSteps DEF IProgress, IWorks, Dones, Running
  <2>6. CASE StillNeeded = {}
    <3>1. got' = Who /\ need' = {} /\ fstate' = "WAIT_FOR_FLUSH" /\ Flushing
      BY <1>3, <2>1, <2>2, <2>3, <2>6 DEF FlushFires, Flushing
    <3>2. flushReq' /\ ~l2Done' /\ l2'.state # "INITIALIZE"
      BY <3>1, L2Flushes
    <3>3. ctl' = "FLUSH_L2"
      BY <2>1, <2>2, <3>1 DEF Control, CtlOf, Who, Dones
    <3> QED BY <2>2, <2>4, <2>5, <3>1, <3>2, <3>3 DEF Handshake, SecondLevel
  <2>7. CASE StillNeeded # {}
    <3>1. got' # Who /\ got' \subseteq Who /\ need' = Who \ got'
          /\ fstate' = "WAIT_FOR_L1_FLUSH_DONE" /\ ~Flushing
      BY <1>3, <2>1, <2>2, <2>3, <2>7 DEF FlushFires, Flushing
    <3>2. L2Quiet'
      BY <3>1, L2Flushes DEF L2Quiet
    <3>3. ctl' = CtlOf'
      BY <2>1, <2>2, <3>1 DEF Control, CtlOf, Who, Dones
    <3> QED BY <2>2, <2>4, <2>5, <3>1, <3>2, <3>3 DEF Handshake, FirstLevel
  <2> QED BY <2>6, <2>7
<1>7. CASE SecondLevel
  <2> USE <1>7 DEF SecondLevel
  <2>1. ~dc.done /\ ~ic.done /\ Dones = {} /\ StillNeeded = {} /\ ~FlushFires
    BY <1>2 DEF Dones, StillNeeded, FlushFires, DProgress, IProgress, IAway, Who
  <2>2. need' = {} /\ fstate' = "WAIT_FOR_FLUSH" /\ Flushing = flushReq
    BY <1>2, <1>3, <2>1 DEF Flushing
  <2>3. DQuiet' /\ ~dc'.done
    BY DFlushSteps DEF DProgress, Who
  <2>4. CASE l2Done
    <3>1. Seen = Who \cup {"l2"}
      BY <2>1, <2>4 DEF Seen
    <3>2. /\ \/ core = "MONITOR_FLUSH_CACHE" /\ core' = "HANDLE_MONITOR"
             \/ core = "FLUSH_FOR_HALT" /\ core' = "HALT"
          /\ reqs' = {} /\ got' = {}
      BY <3>1 DEF CoreStep, AsksFlush, MonitorFlushed, HaltFlushed, GoesOn, Who
    <3>3. ctl' = "FLUSH_IDLE"
      BY <2>4 DEF Control
    <3>4. L2Quiet'
      BY <2>2, <2>4, L2Flushes DEF L2Quiet, Walking
    <3>5. ~ic'.done /\ IQuiet' /\ ic'.mode = IF core = "MONITOR_FLUSH_CACHE" THEN "active" ELSE "stopped"
      BY <1>2, IFlushSteps DEF IProgress, IAway, Who, IQuiet, Running
    <3> QED BY <2>2, <2>3, <3>2, <3>3, <3>4, <3>5 DEF Handshake, Rests, Idle
  <2>5. CASE ~l2Done
    <3>1. Seen = Who
      BY <2>1, <2>5 DEF Seen
    <3>2. core' = core /\ reqs' = {} /\ got' = got /\ Who' = Who
      BY <3>1 DEF CoreStep, AsksFlush, MonitorFlushed, HaltFlushed, GoesOn, Who
    <3>3. ctl' = "FLUSH_L2"
      BY <2>5 DEF Control
    <3>4. flushReq' = ~l2Done' /\ (l2Done' => l2'.state = "IDLE") /\ l2'.state # "INITIALIZE"
      BY <1>2, <2>2, <2>5, L2Flushes DEF Walking
    <3>5. IF "i" \in Who THEN IProgress' ELSE IAway'
      BY <1>2, <3>2, IFlushSteps DEF IProgress, IWorks, Who, Running
    <3>6. DProgress'
      <4>1. "d" \in got' /\ ~dc'.done /\ ~dc'.flush /\ ~dc'.walks
        BY <2>3, <3>2 DEF Who, DQuiet
      <4> QED BY <4>1 DEF DProgress, DQuiet
    <3> QED BY <2>2, <3>2, <3>3, <3>4, <3>5, <3>6 DEF Handshake, SecondLevel
  <2> QED BY <1>2, <2>4, <2>5
<1>8. CASE Reset
  <2> USE <1>8 DEF Reset, Idle
  <2>1. StillNeeded = {} /\ ~FlushFires /\ ~Flushing /\ Dones \subseteq {"d", "i"}
    BY DEF StillNeeded, FlushFires, Flushing, Dones
  <2>2. Idle' /\ need' = {}
    BY <1>3, <2>1 DEF Control
  <2>3. CASE l2Done
    <3>1. Seen = {"d", "i", "l2"}
      BY <1>2, <2>3 DEF Seen, Dones, DProgress, IProgress, IQuiet
    <3>2. core' = "HALT" /\ reqs' = {} /\ got' = {}
      BY <3>1 DEF CoreStep, AsksFlush, MonitorFlushed, HaltFlushed, GoesOn
    <3>3. L2Quiet'
      BY <2>1, <2>3, L2Flushes DEF L2Quiet, Walking
    <3>4. DQuiet' /\ ~dc'.done
      BY <2>3, DFlushSteps
    <3>5. IQuiet' /\ ~ic'.done /\ ic'.mode = "stopped"
      BY <1>2, <2>3, IFlushSteps DEF IQuiet, Running
    <3> QED BY <2>2, <3>2, <3>3, <3>4, <3>5 DEF Handshake, Rests
  <2>4. CASE ~l2Done
    <3>1. Seen = got \cup Dones
      BY <2>4 DEF Seen
    <3>2. core' = core /\ reqs' = {} /\ got' = got \cup Dones
      BY <2>1, <2>4, <3>1 DEF CoreStep, AsksFlush, MonitorFlushed, HaltFlushed, GoesOn
    <3>3. /\ ~flushReq'
          /\ IF l2Done' THEN l2'.state = "IDLE" ELSE l2'.state = "INITIALIZE"
      BY <2>1, <2>4, L2Flushes
    <3>4. Dirty = {} /\ l2.state = "INITIALIZE"
      BY <2>4 DEF Dirty, Empty, Absent
    <3>5. /\ dc'.phase = "idle" /\ dc'.own = Empty
          /\ ~dc'.flush /\ ~dc'.walks /\ dc'.done = dc.walks
      <4>1. dc \in [phase : {"idle", "asks", "waits"}, line : AnyL1Line, store : BOOLEAN,
            own : [DLines -> Owns], flush : BOOLEAN, walks : BOOLEAN, done : BOOLEAN]
        BY <1>1 DEF DType
      <4>2. CASE dc.walks
        <5>1. DFlushes
          BY <4>2 DEF DStep
        <5> QED BY <3>4, <4>1, <4>2, <5>1 DEF DFlushes
      <4>3. CASE ~dc.walks
        <5>1. DWaits
          BY <3>4, <4>3 DEF DStep, Running
        <5> QED BY <4>1, <4>3, <5>1 DEF DWaits
      <4> QED BY <1>2, <4>2, <4>3
    <3>6. DProgress' /\ DQuiet'
      <4>1. ("d" \in got => ~dc.walks) /\ ("d" \notin got => dc.done \/ dc.walks)
        BY DEF DProgress, DQuiet
      <4>2. ("d" \in got' <=> "d" \in got \/ dc.done) /\ (dc.done => ~dc.walks)
        BY <3>2 DEF Dones, DProgress, DQuiet
      <4> QED BY <1>2, <3>5, <4>1, <4>2 DEF DProgress, DQuiet
    <3>7. /\ ic'.phase = "idle" /\ ic'.mode = "stopped" /\ ~ic'.flush
          /\ ic'.done = (ic.mode = "walks")
      <4>1. ic \in [phase : {"idle", "asks", "waits"}, line : AnyL1Line,
              mode : {"active", "walks", "stopped"}, flush : BOOLEAN, done : BOOLEAN]
        BY <1>1 DEF IType
      <4>2. CASE ic.mode = "walks"
        BY <4>1, <4>2 DEF IStep
      <4>3. CASE ic.mode = "stopped"
        BY <4>1, <4>3 DEF IStep, Running
      <4> QED BY <1>2, <4>2, <4>3
    <3>8. IProgress'
      <4>1. "i" \in got' <=> "i" \in got \/ ic.done
        BY <3>2 DEF Dones
      <4> QED BY <1>2, <3>7, <4>1 DEF IProgress
    <3>9. got' \subseteq {"d", "i"}
      BY <2>1, <3>2
    <3> QED BY <2>2, <3>2, <3>3, <3>5, <3>6, <3>7, <3>8, <3>9 DEF Handshake, IQuiet
  <2> QED BY <1>2, <2>3, <2>4
<1> QED BY <1>1, <1>4, <1>5, <1>6, <1>7, <1>8 DEF Handshake

-----------------------------------------------------------------------------
(***************************************************************************)
(* Who is served, who waits, who has been answered.                        *)
(***************************************************************************)
(* A cache that waits keeps its request until it is answered, and one that asks
   had nothing unanswered: the data cache, *)
LEMMA DRequestSteps ==
    ASSUME IInv, DStep
    PROVE  /\ dc.phase # "idle" /\ "d" \in l2.rsp.to =>
                 /\ dc'.phase = "idle"
                 /\ dc'.own = [dc.own EXCEPT ![dc.line] = IF dc.store THEN Absent
                                                          ELSE Owned("clean", l2.rsp.val)]
           /\ dc.phase # "idle" /\ "d" \notin l2.rsp.to =>
                 /\ dc'.phase = "waits" /\ dc'.line = dc.line /\ dc'.store = dc.store
                 /\ dc'.own = dc.own
           /\ dc.phase = "idle" =>
                 /\ dc'.phase \in {"idle", "asks"}
                 /\ dc'.phase = "asks" =>
                       /\ dc'.line \in DLines /\ dc'.own = dc.own
                       /\ IF dc'.store THEN dc.own[dc'.line].state = "dirty"
                          ELSE dc.own[dc'.line] = Absent
                 /\ \A l \in DLines : dc.own[l] = Absent => dc'.own[l] = Absent
<1>1. dc \in [phase : {"idle", "asks", "waits"}, line : AnyL1Line, store : BOOLEAN,
            own : [DLines -> Owns], flush : BOOLEAN, walks : BOOLEAN, done : BOOLEAN]
  BY DEF IInv, TypeOK, DType
<1>2. CASE dc.phase # "idle" /\ "d" \in l2.rsp.to
  <2>1. DAnswered
    BY <1>2 DEF DStep, Answered
  <2> QED BY <1>1, <1>2, <2>1 DEF DAnswered
<1>3. CASE dc.phase # "idle" /\ "d" \notin l2.rsp.to
  <2>1. DWaits
    BY <1>3 DEF DStep, Answered
  <2> QED BY <1>1, <1>3, <2>1 DEF DWaits
<1>4. CASE dc.phase = "idle" /\ (dc.flush \/ dc.walks)
  <2>1. DFlushes
    BY <1>4 DEF DStep
  <2>2. CASE Dirty = {}
    <3>1. dc'.phase = "idle" /\ dc'.own = Empty
      BY <1>1, <1>4, <2>1, <2>2 DEF DFlushes
    <3> QED BY <1>4, <3>1 DEF Empty
  <2>3. CASE Dirty # {}
    <3> DEFINE next == CHOOSE l \in Dirty : TRUE
    <3>1. next \in Dirty
      BY <2>3
    <3>2. dc'.phase = "asks" /\ dc'.own = dc.own /\ dc'.store /\ dc'.line = next
      BY <1>1, <2>1, <2>3 DEF DFlushes
    <3> HIDE DEF next
    <3> QED BY <1>4, <3>1, <3>2 DEF Dirty
  <2> QED BY <2>2, <2>3
<1>5. CASE dc.phase = "idle" /\ ~(dc.flush \/ dc.walks)
  <2>1. \/ DWaits
        \/ \E l \in DLines : dc.own[l] = Absent /\ DAsks(l, FALSE)
        \/ \E l \in Dirty : DAsks(l, TRUE)
        \/ \E l \in DLines, v \in Vals : dc.own[l] # Absent /\ DStores(l, v)
    BY <1>5 DEF DStep
  <2>2. CASE DWaits
    BY <1>1, <1>5, <2>2 DEF DWaits
  <2>3. CASE \E l \in DLines : dc.own[l] = Absent /\ DAsks(l, FALSE)
    BY <1>1, <1>5, <2>3 DEF DAsks
  <2>4. CASE \E l \in Dirty : DAsks(l, TRUE)
    BY <1>1, <1>5, <2>4 DEF DAsks, Dirty
  <2>5. CASE \E l \in DLines, v \in Vals : dc.own[l] # Absent /\ DStores(l, v)
    BY <1>1, <1>5, <2>5 DEF DStores
  <2> QED BY <2>1, <2>2, <2>3, <2>4, <2>5
<1> QED BY <1>2, <1>3, <1>4, <1>5

(* and the instruction cache, which asks for nothing while it is flushed. *)
LEMMA IRequestSteps ==
    ASSUME IInv, IStep
    PROVE  /\ ic.phase # "idle" /\ "i" \in l2.rsp.to => ic'.phase = "idle"
           /\ ic.phase # "idle" /\ "i" \notin l2.rsp.to =>
                 ic'.phase = "waits" /\ ic'.line = ic.line /\ ic'.mode = ic.mode
           /\ ic.phase = "idle" =>
                 /\ ic'.phase \in {"idle", "asks"}
                 /\ ic'.phase = "asks" => ic'.line \in ILines /\ ic'.mode = "active"
<1>1. ic \in [phase : {"idle", "asks", "waits"}, line : AnyL1Line,
            mode : {"active", "walks", "stopped"}, flush : BOOLEAN, done : BOOLEAN]
  BY DEF IInv, TypeOK, IType
<1>2. CASE ic.phase # "idle" /\ "i" \in l2.rsp.to
  BY <1>1, <1>2 DEF IStep, Answered
<1>3. CASE ic.phase # "idle" /\ "i" \notin l2.rsp.to
  BY <1>1, <1>3 DEF IStep, Answered
<1>4. CASE ic.phase = "idle" /\ ic.mode = "walks"
  BY <1>1, <1>4 DEF IStep
<1>5. CASE ic.phase = "idle" /\ ic.mode = "stopped"
  BY <1>1, <1>5 DEF IStep
<1>6. CASE ic.phase = "idle" /\ ic.mode = "active"
  BY <1>1, <1>6 DEF IStep
<1> QED BY <1>1, <1>2, <1>3, <1>4, <1>5, <1>6

(* The second level serves one request from its grant to its hit, and answers
   in no other step. *)
LEMMA L2Serves ==
    ASSUME IInv, L2Step
    PROVE  \/ IdleGrant
           \/ CheckHit
           \/ /\ l2'.cur = l2.cur /\ l2'.rsp.to = {} /\ pend' = Asking
              /\ \/ l2.state \in Busy /\ l2'.state \in Busy /\ l2'.idx = l2.idx
                 \/ l2.state \notin Busy /\ l2'.state \notin Busy
<1>1. L2Type /\ Requests
  BY DEF IInv, TypeOK
<1>2. l2 \in [state : L2States, idx : Sets, reload : BOOLEAN, mreq : Reqs,
              rsp : [to : SUBSET Clients, val : AnyVal], cur : Curs]
  BY <1>1 DEF L2Type
<1>3. l2.state \notin {"IDLE", "CHECK_VALID_AND_TAG"} => l2.rsp.to = {}
  BY <1>1 DEF Requests
<1>4. NoRsp.to = {}
  BY DEF NoRsp
<1> DEFINE Good ==
      \/ IdleGrant
      \/ CheckHit
      \/ /\ l2'.cur = l2.cur /\ l2'.rsp.to = {} /\ pend' = Asking
         /\ \/ l2.state \in Busy /\ l2'.state \in Busy /\ l2'.idx = l2.idx
            \/ l2.state \notin Busy /\ l2'.state \notin Busy
<1> SUFFICES Good
  OBVIOUS
<1>5. ASSUME NEW done, Keeps({}, done) PROVE pend' = Asking
  BY <1>5 DEF Keeps
<1>6. Stays => pend' = Asking
  BY <1>5 DEF Stays
<1> USE DEF Busy
<1>7. CASE Initialize
  BY <1>2, <1>3, <1>7 DEF Initialize
<1>8. CASE IdleFlush
  BY <1>2, <1>4, <1>5, <1>8 DEF IdleFlush
<1>9. CASE IdleNothing
  BY <1>2, <1>4, <1>5, <1>9 DEF IdleNothing
<1>10. CASE CheckMiss
  BY <1>2, <1>4, <1>6, <1>10 DEF CheckMiss
<1>11. CASE DirtyStore
  BY <1>2, <1>3, <1>6, <1>11 DEF DirtyStore
<1>12. CASE StoreTurnaround
  BY <1>2, <1>3, <1>6, <1>12 DEF StoreTurnaround
<1>13. CASE CleanReload
  BY <1>2, <1>3, <1>6, <1>13 DEF CleanReload, ReloadedInto
<1>14. CASE Turnaround
  <2>1. l2'.rsp.to = {} /\ l2'.cur = l2.cur /\ l2'.idx = l2.idx
    BY <1>2, <1>3, <1>14 DEF Turnaround
  <2>2. CASE l2.state = "WAIT_STORE_IDLE"
    BY <1>2, <1>6, <1>14, <2>1, <2>2 DEF Turnaround
  <2>3. CASE l2.state = "WAIT_CLEAN_RELOAD"
    BY <1>2, <1>6, <1>14, <2>1, <2>3 DEF Turnaround
  <2> QED BY <1>14, <2>2, <2>3 DEF Turnaround
<1>15. CASE FlushWait
  BY <1>2, <1>3, <1>6, <1>15 DEF FlushWait
<1>16. Advances /\ l2.state \in Walking => Good
  BY <1>2, <1>3, <1>5 DEF Advances, Walking
<1>17. CASE FlushTriage
  <2>1. CASE NeedWb
    BY <1>2, <1>3, <1>6, <1>17, <2>1 DEF FlushTriage
  <2>2. CASE ~NeedWb
    BY <1>16, <1>17, <2>2 DEF FlushTriage, Walking
  <2> QED BY <2>1, <2>2
<1>18. CASE FlushStore
  <2>1. CASE memRsp.on
    BY <1>16, <1>18, <2>1 DEF FlushStore, Walking
  <2>2. CASE ~memRsp.on
    BY <1>2, <1>3, <1>6, <1>18, <2>2 DEF FlushStore
  <2> QED BY <2>1, <2>2
<1> QED BY <1>7, <1>8, <1>9, <1>10, <1>11, <1>12, <1>13, <1>14, <1>15, <1>17, <1>18 DEF L2Step

(* A grant takes the request as its cache holds it. *)
LEMMA GrantTakes ==
    ASSUME IInv, IdleGrant
    PROVE  /\ Granted \in Asking /\ pend' = Asking \ {Granted}
           /\ l2'.state = "CHECK_VALID_AND_TAG" /\ l2'.idx = LineOf(Granted).set
           /\ l2'.cur.client = Granted /\ l2'.cur.store = (Granted = "d" /\ dc.store)
           /\ l2'.cur.tag = LineOf(Granted).tag /\ l2'.cur.set = LineOf(Granted).set
           /\ l2'.cur.bank = LineOf(Granted).bank
           /\ l2'.cur.store => l2'.cur.val = dc.own[dc.line].val
           /\ l2'.rsp.to = IF l2'.cur.store THEN {"d"} ELSE {}
<1>1. L2Type
  BY DEF IInv, TypeOK
<1>2. Asking \subseteq Clients
  BY <1>1 DEF Asking, L2Type
<1>3. Granted \in Asking
  BY <1>2 DEF IdleGrant, Granted, Clients
<1> DEFINE line == IF Granted = "d" THEN dc.line ELSE ic.line
           store == Granted = "d" /\ dc.store
           cur == [client |-> Granted, store |-> store, tag |-> line.tag, set |-> line.set,
                   bank |-> line.bank, val |-> IF store THEN dc.own[line].val ELSE SomeVal]
           rsp == [NoRsp EXCEPT !.to = IF store THEN {"d"} ELSE {}]
<1>4. l2' = [l2 EXCEPT !.state = "CHECK_VALID_AND_TAG", !.idx = line.set, !.cur = cur, !.rsp = rsp]
  BY DEF IdleGrant
<1>5. l2 \in [state : L2States, idx : Sets, reload : BOOLEAN, mreq : Reqs,
              rsp : [to : SUBSET Clients, val : AnyVal], cur : Curs]
  BY <1>1 DEF L2Type
<1>6. rsp.to = IF store THEN {"d"} ELSE {}
  BY DEF NoRsp
<1>7. /\ cur.client = Granted /\ cur.store = store /\ cur.tag = line.tag /\ cur.set = line.set
      /\ cur.bank = line.bank
      /\ store => cur.val = dc.own[dc.line].val
  OBVIOUS
<1>8. line = LineOf(Granted)
  BY DEF LineOf
<1>11. store \in BOOLEAN /\ store = (Granted = "d" /\ dc.store)
  BY DEF IInv, TypeOK, DType
<1> HIDE DEF cur, rsp, line, store
<1>9. /\ l2'.state = "CHECK_VALID_AND_TAG" /\ l2'.idx = line.set /\ l2'.cur = cur
      /\ l2'.rsp = rsp
  BY <1>4, <1>5
<1>10. pend' = Asking \ {Granted}
  BY DEF IdleGrant, Keeps
<1> QED BY <1>3, <1>6, <1>7, <1>8, <1>9, <1>10, <1>11

(* A hit answers the cache that is served, or ends a store. *)
LEMMA HitServes ==
    ASSUME IInv, CheckHit
    PROVE  /\ l2.state = "CHECK_VALID_AND_TAG" /\ Hit /\ pend' = Asking
           /\ l2'.state = IF l2.cur.store THEN "WAIT_STORE_IDLE" ELSE "IDLE"
           /\ ~l2'.cur.store /\ l2'.idx = l2.idx
           /\ l2'.rsp.to = IF l2.cur.store THEN {} ELSE {l2.cur.client}
           /\ ~l2.cur.store => l2'.rsp.val = out.data[l2.cur.bank]
           /\ ~l2.cur.store => arr' = arr
<1>1. l2 \in [state : L2States, idx : Sets, reload : BOOLEAN, mreq : Reqs,
              rsp : [to : SUBSET Clients, val : AnyVal], cur : Curs]
  BY DEF IInv, TypeOK, L2Type
<1> QED BY <1>1 DEF CheckHit, HitMarks, Served, NoRsp, Stays, Keeps

(* No request is served twice, lost or answered with another's line. *)
LEMMA RequestsKept ==
    ASSUME IInv, L2Step, DStep, IStep
    PROVE  Requests'
<1>1. L2Type /\ L2Type' /\ DType /\ IType /\ Requests
  BY L2TypeKept DEF IInv, TypeOK
<1>2. "d" \in Clients /\ "i" \in Clients /\ \A c \in Clients : c = "d" \/ c = "i"
  BY DEF Clients
<1>3. /\ DLines \subseteq L1Lines /\ ILines \subseteq L1Lines
  BY HierarchyAssumption
<1>4. Asking \subseteq Clients
  BY <1>1 DEF Asking, L2Type
<1>5. ASSUME NEW c \in Clients, c \in Asking \/ ServesLoad(c)
      PROVE  /\ Phase(c) # "idle" /\ c \notin l2.rsp.to
             /\ Phase(c)' = "waits" /\ LineOf(c)' = LineOf(c) /\ LineOf(c) \in L1Lines
             /\ c = "d" => dc'.store = dc.store /\ dc.line \in DLines
  <2>1. Phase(c) # "idle" /\ c \notin l2.rsp.to
    BY <1>1, <1>5 DEF Requests, Asking, Phase
  <2>2. CASE c = "d"
    BY <1>1, <1>3, <2>1, <2>2, DRequestSteps DEF Phase, LineOf, Requests
  <2>3. CASE c = "i"
    BY <1>1, <1>3, <2>1, <2>3, IRequestSteps DEF Phase, LineOf, Requests
  <2> QED BY <1>2, <2>1, <2>2, <2>3
<1>6. \A c \in Asking : ~ServesLoad(c) /\ c \notin l2.rsp.to
  BY <1>1, <1>4 DEF Requests, Asking, Phase
<1>7. ic'.phase # "idle" => ic'.line \in ILines /\ ic'.mode = "active"
  BY <1>1, IRequestSteps, ITypeKept DEF Requests, IType
<1>8. dc'.phase # "idle" => /\ dc'.line \in DLines
                            /\ IF dc'.store THEN IsDirty(dc.line)'
                               ELSE dc'.own[dc'.line] = Absent
  BY <1>1, DRequestSteps, DTypeKept DEF Requests, DType, IsDirty
<1> DEFINE Waiting == \A c \in Clients :
              /\ c \in pend' \/ c \in l2'.rsp.to \/ ServesLoad(c)' => Phase(c)' = "waits"
              /\ c \in pend' => c \notin l2'.rsp.to /\ ~ServesLoad(c)'
              /\ c \in l2'.rsp.to => ~ServesLoad(c)'
              /\ ServesLoad(c)' => CurLine' = LineOf(c)' /\ (c = "d" => ~dc'.store)
           Replies == l2'.rsp.to # {} =>
              \/ l2'.state = "IDLE" /\ ("d" \in l2'.rsp.to => ~dc'.store)
              \/ /\ l2'.state = "CHECK_VALID_AND_TAG" /\ l2'.cur.store /\ l2'.rsp.to = {"d"}
                 /\ dc'.store /\ dc'.line = CurLine'
           Stores == l2'.cur.store =>
              /\ l2'.state \in Busy /\ l2'.cur.client = "d" /\ CurLine' \in DLines
              /\ l2'.rsp.to = {} => dc'.own[CurLine'] = Absent
           Place == l2'.state \in Busy => l2'.idx = l2'.cur.set /\ CurLine' \in L1Lines
<1> SUFFICES Waiting /\ Replies /\ Stores /\ Place
  BY <1>7, <1>8 DEF Requests
<1>9. CASE IdleGrant
  <2>1. PICK c \in Clients : c = Granted
    BY <1>4, <1>9, GrantTakes
  <2>2. /\ c \in Asking /\ pend' = Asking \ {c}
        /\ l2'.state = "CHECK_VALID_AND_TAG" /\ l2'.idx = LineOf(c).set
        /\ l2'.cur.client = c /\ l2'.cur.store = (c = "d" /\ dc.store)
        /\ l2'.cur.tag = LineOf(c).tag /\ l2'.cur.set = LineOf(c).set
        /\ l2'.cur.bank = LineOf(c).bank
        /\ l2'.rsp.to = IF l2'.cur.store THEN {"d"} ELSE {}
    BY <1>9, <2>1, GrantTakes
  <2>3. /\ LineOf(c) \in L1Lines /\ LineOf(c)' = LineOf(c)
        /\ c = "d" => dc'.store = dc.store /\ dc.line \in DLines
    BY <1>5, <2>2
  <2>4. CurLine' = LineOf(c)
    BY <2>2, <2>3 DEF CurLine, L1Lines
  <2>5. \A k \in Clients : ServesLoad(k)' <=> (k = c /\ ~l2'.cur.store)
    BY <2>2 DEF ServesLoad, Busy
  <2>6. dc.store \in BOOLEAN
    BY <1>1 DEF DType
  <2>7. Waiting
    BY <1>4, <1>5, <2>2, <2>3, <2>4, <2>5, <2>6
  <2>8. l2'.cur.store => c = "d" /\ dc'.store /\ CurLine' = dc.line /\ dc'.line = dc.line
    BY <2>2, <2>3, <2>4, <2>6 DEF LineOf
  <2>9. Replies /\ Stores
    BY <2>2, <2>3, <2>8 DEF Busy
  <2> QED BY <2>2, <2>3, <2>4, <2>7, <2>9
<1>10. CASE CheckHit
  <2>1. /\ l2.state = "CHECK_VALID_AND_TAG" /\ pend' = Asking
        /\ l2'.state = IF l2.cur.store THEN "WAIT_STORE_IDLE" ELSE "IDLE"
        /\ ~l2'.cur.store
        /\ l2'.rsp.to = IF l2.cur.store THEN {} ELSE {l2.cur.client}
    BY <1>10, HitServes
  <2>2. l2'.state \notin Busy
    BY <2>1 DEF Busy
  <2>3. \A c \in Clients : ~ServesLoad(c)'
    BY <2>2 DEF ServesLoad
  <2>4. \A c \in l2'.rsp.to : c \in Clients /\ ServesLoad(c)
    BY <1>1, <2>1 DEF ServesLoad, Busy, L2Type, Curs
  <2>5. Waiting
    BY <1>4, <1>5, <1>6, <2>1, <2>3, <2>4
  <2>6. "d" \in l2'.rsp.to => l2'.state = "IDLE" /\ ~dc'.store
    BY <1>1, <1>2, <1>5, <2>1, <2>4 DEF Requests
  <2>7. Replies
    BY <2>1, <2>6
  <2> QED BY <2>1, <2>2, <2>5, <2>7
<1>11. CASE /\ l2'.cur = l2.cur /\ l2'.rsp.to = {} /\ pend' = Asking
            /\ \/ l2.state \in Busy /\ l2'.state \in Busy /\ l2'.idx = l2.idx
               \/ l2.state \notin Busy /\ l2'.state \notin Busy
  <2>1. CurLine' = CurLine /\ \A c \in Clients : ServesLoad(c)' = ServesLoad(c)
    BY <1>11 DEF CurLine, ServesLoad
  <2>2. Waiting
    BY <1>1, <1>4, <1>5, <1>6, <1>11, <2>1 DEF Requests
  <2>3. l2.cur.store => dc'.own[CurLine] = Absent
    <3>1. l2.cur.store => CurLine \in DLines /\ (l2.rsp.to = {} => dc.own[CurLine] = Absent)
      BY <1>1 DEF Requests
    <3>2. CASE l2.rsp.to = {}
      BY <3>1, <3>2, DRequestSteps
    <3>3. CASE l2.rsp.to # {} /\ l2.cur.store
      <4>1. "d" \in l2.rsp.to /\ dc.store /\ dc.line = CurLine
        BY <1>1, <3>3 DEF Requests, Busy
      <4>2. dc.phase # "idle"
        BY <1>1, <1>2, <4>1 DEF Requests, Phase
      <4>3. dc.own \in [DLines -> Owns]
        BY <1>1 DEF DType
      <4> QED BY <3>1, <3>3, <4>1, <4>2, <4>3, DRequestSteps
    <3> QED BY <3>2, <3>3
  <2> QED BY <1>1, <1>11, <2>1, <2>2, <2>3 DEF Requests
<1> QED BY <1>9, <1>10, <1>11, L2Serves

-----------------------------------------------------------------------------
(***************************************************************************)
(* The rows of the second level.                                           *)
(***************************************************************************)
(* Which steps change a row: a store that hits, a line that comes in, and a
   flush, which has read the row before it invalidates it. *)
LEMMA RowsMove ==
    ASSUME IInv, L2Step, l2.state # "INITIALIZE", NEW s \in Sets
    PROVE  \/ Row(s)' = Row(s)
           \/ CheckHit /\ l2.cur.store /\ s = l2.idx
           \/ CleanReload /\ memRsp.on /\ s = l2.idx
           \/ FlushTriage /\ s = l2.idx /\ Row(s)' = NoRow
<1>1. L2Type /\ RowsHeld
  BY DEF IInv, TypeOK
<1>2. /\ l2 \in [state : L2States, idx : Sets, reload : BOOLEAN, mreq : Reqs,
                 rsp : [to : SUBSET Clients, val : AnyVal], cur : Curs]
      /\ arr \in [Sets -> Rows] /\ l2.idx \in Sets
  BY <1>1 DEF L2Type
<1> DEFINE Good ==
      \/ Row(s)' = Row(s)
      \/ CheckHit /\ l2.cur.store /\ s = l2.idx
      \/ CleanReload /\ memRsp.on /\ s = l2.idx
      \/ FlushTriage /\ s = l2.idx /\ Row(s)' = NoRow
<1> SUFFICES Good
  OBVIOUS
<1>3. CASE IdleFlush
  BY <1>2, <1>3 DEF IdleFlush, Row
<1>4. CASE IdleNothing
  BY <1>2, <1>4 DEF IdleNothing, Row
<1>5. CASE IdleGrant
  BY <1>2, <1>5 DEF IdleGrant, Row
<1>6. CASE CheckHit
  <2>1. l2.state # "FLUSH_TRIAGE" /\ l2'.state # "FLUSH_TRIAGE"
    BY <1>2, <1>6 DEF CheckHit, HitMarks
  <2>2. CASE ~l2.cur.store
    BY <1>6, <2>1, <2>2 DEF CheckHit, HitMarks, Row
  <2>3. CASE l2.cur.store /\ s # l2.idx
    BY <1>1, <1>6, <2>1, <2>3, StoredRow DEF Row
  <2> QED BY <1>6, <2>2, <2>3
<1>7. CASE CheckMiss
  BY <1>2, <1>7 DEF CheckMiss, Row
<1>8. CASE DirtyStore
  BY <1>2, <1>8 DEF DirtyStore, Row
<1>9. CASE StoreTurnaround
  BY <1>2, <1>9 DEF StoreTurnaround, Row
<1>10. CASE CleanReload
  <2>1. l2.state # "FLUSH_TRIAGE" /\ l2'.state # "FLUSH_TRIAGE"
    BY <1>2, <1>10 DEF CleanReload, ReloadedInto
  <2>2. CASE ~memRsp.on
    BY <1>10, <2>1, <2>2 DEF CleanReload, ReloadedInto, Row
  <2>3. CASE memRsp.on /\ s # l2.idx
    BY <1>1, <1>10, <2>1, <2>3, ReloadedRow DEF Row
  <2> QED BY <1>10, <2>2, <2>3
<1>11. CASE Turnaround
  <2>1. l2.state # "FLUSH_TRIAGE" /\ l2'.state # "FLUSH_TRIAGE"
    BY <1>2, <1>11 DEF Turnaround
  <2> QED BY <1>11, <2>1 DEF Turnaround, Row
<1>12. CASE FlushWait
  <2>1. /\ l2'.state = "FLUSH_TRIAGE" /\ l2'.idx = l2.idx /\ l2.state = "FLUSH_WAIT"
        /\ out' = arr[l2.idx] /\ arr' = [arr EXCEPT ![l2.idx] = NoRow]
    BY <1>2, <1>12 DEF FlushWait, Stays, Reads, Writes
  <2>2. Row(s) = arr[s] /\ Row(s)' = IF s = l2.idx THEN out' ELSE arr'[s]
    BY <2>1 DEF Row
  <2> QED BY <1>2, <2>1, <2>2
<1>13. l2.state = "FLUSH_TRIAGE" => arr[l2.idx] = NoRow
  BY <1>1 DEF RowsHeld
<1>14. CASE FlushTriage
  <2>1. arr' = arr /\ l2'.state # "FLUSH_TRIAGE" /\ l2.state = "FLUSH_TRIAGE"
    BY <1>2, <1>14 DEF FlushTriage, Advances
  <2> QED BY <1>13, <1>14, <2>1 DEF Row
<1>15. CASE FlushStore
  <2>1. arr' = arr /\ l2'.state # "FLUSH_TRIAGE" /\ l2.state # "FLUSH_TRIAGE"
    BY <1>2, <1>15 DEF FlushStore, Advances
  <2> QED BY <2>1 DEF Row
<1> QED BY <1>3, <1>4, <1>5, <1>6, <1>7, <1>8, <1>9, <1>10, <1>11, <1>12, <1>14, <1>15
        DEF L2Step, Initialize

(* Out of INITIALIZE every row is clear: the walk begins at the second set and
   clears the first last. *)
LEMMA Cleared ==
    ASSUME IInv, L2Step, l2.state = "INITIALIZE"
    PROVE  /\ Initialize /\ arr' \in [Sets -> Rows] /\ l2' \in [state : L2States, idx : Sets,
                 reload : BOOLEAN, mreq : Reqs, rsp : [to : SUBSET Clients, val : AnyVal],
                 cur : Curs]
           /\ ~l2.mreq.on /\ l2'.mreq = l2.mreq /\ l2'.cur = l2.cur /\ l2'.rsp = l2.rsp
           /\ l2'.state = "INITIALIZE" =>
                 l2'.idx = l2.idx + 1 /\ \A s \in Sets : s \in 1 .. l2'.idx => arr'[s] = NoRow
           /\ l2'.state # "INITIALIZE" =>
                 l2'.state = "IDLE" /\ \A s \in Sets : arr'[s] = NoRow
           /\ l2Done' => l2'.state = "IDLE"
<1>1. L2Type /\ L2Type' /\ Port /\ Flushed
  BY L2TypeKept DEF IInv, TypeOK
<1>2. /\ l2 \in [state : L2States, idx : Sets, reload : BOOLEAN, mreq : Reqs,
                 rsp : [to : SUBSET Clients, val : AnyVal], cur : Curs]
      /\ arr \in [Sets -> Rows] /\ l2.idx \in Sets
  BY <1>1 DEF L2Type
<1>3. Initialize
  BY DEF L2Step, IdleFlush, IdleNothing, IdleGrant, CheckHit, HitMarks, CheckMiss, DirtyStore,
         StoreTurnaround, CleanReload, ReloadedInto, Turnaround, FlushWait, FlushTriage, FlushStore
<1> DEFINE t == (l2.idx + 1) % NumSets
<1>4. t = IF l2.idx = NumSets - 1 THEN 0 ELSE l2.idx + 1
  BY <1>2, NextSet
<1>5. l2' = [l2 EXCEPT !.idx = t, !.state = IF t = 0 THEN "IDLE" ELSE @]
      /\ arr' = [arr EXCEPT ![t] = NoRow] /\ l2Done' = (t = 0)
  BY <1>3 DEF Initialize, Writes
<1>6. \A s \in Sets : s \in 1 .. l2.idx => arr[s] = NoRow
  BY <1>1 DEF Flushed
<1>7. NumSets \in Nat \ {0} /\ Sets = 0 .. NumSets - 1
  BY HierarchyAssumption DEF Sets
<1> HIDE DEF t
<1>8. t \in Sets
  BY <1>2, <1>4, <1>7
<1>9. /\ l2'.idx = t /\ l2'.state = (IF t = 0 THEN "IDLE" ELSE "INITIALIZE")
      /\ l2'.mreq = l2.mreq /\ l2'.cur = l2.cur /\ l2'.rsp = l2.rsp
  BY <1>2, <1>5
<1>10. \A s \in Sets : arr'[s] = IF s = t THEN NoRow ELSE arr[s]
  BY <1>2, <1>5, <1>8
<1>11. CASE t = 0
  <2>1. \A s \in Sets : arr'[s] = NoRow
    BY <1>2, <1>4, <1>6, <1>7, <1>10, <1>11
  <2> QED BY <1>1, <1>3, <1>9, <1>11, <2>1 DEF L2Type, Port
<1>12. CASE t # 0
  <2>1. t = l2.idx + 1
    BY <1>4, <1>12
  <2>2. ~l2Done'
    BY <1>5, <1>12
  <2>3. \A s \in Sets : s \in 1 .. t => arr'[s] = NoRow
    BY <1>2, <1>6, <1>7, <1>10, <2>1
  <2> QED BY <1>1, <1>3, <1>9, <1>12, <2>1, <2>2, <2>3 DEF L2Type, Port
<1> QED BY <1>11, <1>12

(* The state of the FSM says what it knows of the row it is at. *)
LEMMA RowsHeldKept ==
    ASSUME IInv, L2Step
    PROVE  RowsHeld'
<1>1. L2Type /\ L2Type' /\ Port /\ Requests /\ RowsHeld
  BY L2TypeKept DEF IInv, TypeOK
<1>2. /\ l2 \in [state : L2States, idx : Sets, reload : BOOLEAN, mreq : Reqs,
                 rsp : [to : SUBSET Clients, val : AnyVal], cur : Curs]
      /\ arr \in [Sets -> Rows] /\ l2.idx \in Sets /\ out \in Rows /\ l2'.idx \in Sets
  BY <1>1 DEF L2Type
<1>3. /\ l2.state \in {"CHECK_VALID_AND_TAG", "FLUSH_WAIT"} => out = arr[l2.idx]
      /\ l2.state = "DIRTY_STORE" =>
            /\ arr[l2.idx].valid /\ arr[l2.idx].dirty
            /\ l2.mreq = [on |-> TRUE, store |-> TRUE, line |-> Victim, data |-> arr[l2.idx].data]
      /\ l2.state = "CLEAN_RELOAD" => l2.mreq = Reload
      /\ l2.state \in {"DIRTY_STORE", "STORE_TURNAROUND", "CLEAN_RELOAD"} /\ arr[l2.idx].valid =>
            arr[l2.idx].tag # l2.cur.tag
      /\ l2.state \in {"FLUSH_TRIAGE", "FLUSH_STORE"} => arr[l2.idx] = NoRow
      /\ l2.state = "FLUSH_STORE" =>
            l2.mreq.store /\ l2.mreq.line \in L2Lines /\ l2.mreq.line.set = l2.idx
  BY <1>1 DEF RowsHeld
<1>4. l2.state # "INITIALIZE" =>
         \A s \in Sets : (Row(s).dirty => Row(s).valid) /\ (Row(s).valid => Row(s).tag \in Tags)
  BY <1>1 DEF RowsHeld
<1> DEFINE
      Looks == /\ l2'.state \in {"CHECK_VALID_AND_TAG", "FLUSH_WAIT"} => out' = arr'[l2'.idx]
               /\ l2'.state \in {"FLUSH_TRIAGE", "FLUSH_STORE"} => arr'[l2'.idx] = NoRow
      Asks == /\ l2'.state = "DIRTY_STORE" =>
                    /\ arr'[l2'.idx].valid /\ arr'[l2'.idx].dirty
                    /\ l2'.mreq = [on |-> TRUE, store |-> TRUE, line |-> Victim',
                                   data |-> arr'[l2'.idx].data]
              /\ l2'.state = "CLEAN_RELOAD" => l2'.mreq = Reload'
              /\ l2'.state \in {"DIRTY_STORE", "STORE_TURNAROUND", "CLEAN_RELOAD"}
                    /\ arr'[l2'.idx].valid => arr'[l2'.idx].tag # l2'.cur.tag
              /\ l2'.state = "FLUSH_STORE" =>
                    l2'.mreq.store /\ l2'.mreq.line \in L2Lines /\ l2'.mreq.line.set = l2'.idx
      Good == Looks /\ Asks
<1>5. Good
  <2>1. CASE Initialize
    BY <1>2, <2>1 DEF Initialize
  <2>2. CASE IdleFlush
    BY <1>2, <2>2 DEF IdleFlush, Reads
  <2>3. CASE IdleNothing
    BY <1>2, <2>3 DEF IdleNothing
  <2>4. CASE IdleGrant
    <3>1. l2'.state = "CHECK_VALID_AND_TAG" /\ out' = arr'[l2'.idx]
      BY <2>4, GrantTakes DEF IdleGrant, Reads, LineOf
    <3> QED BY <3>1
  <2>5. CASE CheckHit
    BY <1>2, <2>5 DEF CheckHit, HitMarks
  <2>6. CASE CheckMiss
    <3>1. out = arr[l2.idx] /\ arr' = arr
      BY <1>3, <2>6 DEF CheckMiss
    <3>2. Row(l2.idx) = arr[l2.idx]
      BY <2>6 DEF CheckMiss, Row
    <3>3. arr[l2.idx].dirty => arr[l2.idx].valid
      BY <1>2, <1>4, <2>6, <3>2 DEF CheckMiss
    <3>4. arr[l2.idx].valid => arr[l2.idx].tag # l2.cur.tag
      BY <2>6, <3>1 DEF CheckMiss, Hit
    <3>5. /\ l2'.idx = l2.idx /\ l2'.cur = l2.cur
          /\ l2'.state = (IF out.dirty THEN "DIRTY_STORE" ELSE "CLEAN_RELOAD")
          /\ l2'.mreq = (IF out.dirty THEN WriteBack ELSE Reload)
      BY <1>2, <2>6 DEF CheckMiss
    <3>6. Victim' = Victim /\ Reload' = Reload
      BY <3>1, <3>5 DEF Victim, Reload
    <3> QED BY <3>1, <3>3, <3>4, <3>5, <3>6 DEF WriteBack, Victim
  <2>7. CASE DirtyStore
    <3>1. CASE memRsp.on
      BY <1>2, <1>3, <2>7, <3>1 DEF DirtyStore
    <3>2. CASE ~memRsp.on
      <4>1. l2' = l2 /\ arr' = arr /\ l2.state = "DIRTY_STORE"
        BY <2>7, <3>2 DEF DirtyStore
      <4>2. Victim' = Victim
        BY <4>1 DEF Victim
      <4> QED BY <1>3, <4>1, <4>2
    <3> QED BY <3>1, <3>2
  <2>8. CASE StoreTurnaround
    <3>1. /\ l2'.state = "CLEAN_RELOAD" /\ l2'.mreq = Reload /\ l2'.cur = l2.cur
          /\ l2'.idx = l2.idx /\ arr' = arr /\ l2.state = "STORE_TURNAROUND"
      BY <1>2, <2>8 DEF StoreTurnaround
    <3>2. Reload' = Reload
      BY <3>1 DEF Reload
    <3> QED BY <1>3, <3>1, <3>2
  <2>9. CASE CleanReload
    <3>1. CASE memRsp.on
      <4>1. l2'.state = "WAIT_CLEAN_RELOAD"
        BY <1>2, <2>9, <3>1 DEF CleanReload, ReloadedInto
      <4> QED BY <4>1
    <3>2. CASE ~memRsp.on
      <4>1. l2' = l2 /\ arr' = arr /\ l2.state = "CLEAN_RELOAD"
        BY <2>9, <3>2 DEF CleanReload, ReloadedInto
      <4>2. Reload' = Reload
        BY <4>1 DEF Reload
      <4> QED BY <1>3, <4>1, <4>2
    <3> QED BY <3>1, <3>2
  <2>10. CASE Turnaround
    <3>1. l2'.idx = l2.idx /\ out' = arr[l2.idx] /\ arr' = arr
      BY <1>2, <2>10 DEF Turnaround, Stays, Reads
    <3>2. l2'.state \in {"IDLE", "CHECK_VALID_AND_TAG"}
      BY <1>2, <2>10 DEF Turnaround
    <3> QED BY <3>1, <3>2
  <2>11. CASE FlushWait
    <3>1. /\ l2'.state = "FLUSH_TRIAGE" /\ l2'.idx = l2.idx
          /\ arr' = [arr EXCEPT ![l2.idx] = NoRow]
      BY <1>2, <2>11 DEF FlushWait, Writes
    <3> QED BY <1>2, <3>1
  <2>12. Advances /\ arr' = arr => Good
    <3> SUFFICES ASSUME Advances, arr' = arr PROVE Good
      OBVIOUS
    <3>1. l2'.state \in {"IDLE", "FLUSH_WAIT"} /\ l2'.idx = (l2.idx + 1) % NumSets
      BY <1>2 DEF Advances
    <3>2. out' = arr'[l2'.idx]
      BY <3>1 DEF Advances, Reads
    <3> QED BY <3>1, <3>2
  <2>13. CASE FlushTriage
    <3>1. CASE NeedWb
      <4>1. /\ l2'.state = "FLUSH_STORE" /\ l2'.mreq = WriteBack /\ l2'.idx = l2.idx
            /\ arr' = arr /\ l2.state = "FLUSH_TRIAGE"
        BY <1>2, <2>13, <3>1 DEF FlushTriage
      <4>2. Row(l2.idx) = out
        BY <4>1 DEF Row
      <4>3. out.valid /\ out.tag \in Tags
        BY <1>2, <1>4, <3>1, <4>1, <4>2 DEF NeedWb
      <4>4. WriteBack.store /\ WriteBack.line \in L2Lines /\ WriteBack.line.set = l2.idx
        BY <1>2, <4>3 DEF WriteBack, L2Lines
      <4> QED BY <1>3, <4>1, <4>4
    <3>2. CASE ~NeedWb
      BY <2>12, <2>13, <3>2 DEF FlushTriage
    <3> QED BY <3>1, <3>2
  <2>14. CASE FlushStore
    <3>1. CASE memRsp.on
      BY <2>12, <2>14, <3>1 DEF FlushStore
    <3>2. CASE ~memRsp.on
      <4>1. l2' = l2 /\ arr' = arr /\ l2.state = "FLUSH_STORE"
        BY <2>14, <3>2 DEF FlushStore
      <4> QED BY <1>3, <4>1
    <3> QED BY <3>1, <3>2
  <2> HIDE DEF Good
  <2> QED BY <2>1, <2>2, <2>3, <2>4, <2>5, <2>6, <2>7, <2>8, <2>9, <2>10, <2>11, <2>13,
             <2>14 DEF L2Step
<1>6. ASSUME NEW s \in Sets, l2'.state # "INITIALIZE"
      PROVE  (Row(s)'.dirty => Row(s)'.valid) /\ (Row(s)'.valid => Row(s)'.tag \in Tags)
  <2>1. ~NoRow.dirty /\ ~NoRow.valid
    BY DEF NoRow
  <2>2. CASE l2.state = "INITIALIZE"
    <3>1. Row(s)' = NoRow
      BY <1>6, <2>2, Cleared DEF Row
    <3> QED BY <2>1, <3>1
  <2>3. CASE l2.state # "INITIALIZE" /\ Row(s)' = Row(s)
    BY <1>4, <2>3
  <2>4. CASE CheckHit /\ l2.cur.store /\ s = l2.idx
    <3>1. l2.state = "CHECK_VALID_AND_TAG" /\ l2'.state = "WAIT_STORE_IDLE" /\ out.valid
      BY <2>4, HitServes DEF Hit
    <3>2. Row(s)' = arr'[s] /\ Row(s) = arr[s] /\ arr[s].valid
      BY <1>3, <2>4, <3>1 DEF Row
    <3> QED BY <1>1, <1>4, <2>4, <3>1, <3>2, StoredRow
  <2>5. CASE CleanReload /\ memRsp.on /\ s = l2.idx
    <3>1. l2.state = "CLEAN_RELOAD" /\ l2'.state = "WAIT_CLEAN_RELOAD"
      BY <1>2, <2>5 DEF CleanReload, ReloadedInto
    <3>2. Row(s)' = arr'[s]
      BY <3>1 DEF Row
    <3>3. l2.cur.tag \in Tags
      BY <1>1, <3>1 DEF Requests, Busy, CurLine, L1Lines
    <3> QED BY <1>1, <2>5, <3>2, <3>3, ReloadedRow
  <2>6. CASE Row(s)' = NoRow
    BY <2>1, <2>6
  <2> QED BY <2>2, <2>3, <2>4, <2>5, <2>6, RowsMove
<1> QED BY <1>5, <1>6 DEF RowsHeld

(* A request to the memory names a line that it has. *)
LEMMA RequestsInRange ==
    ASSUME IInv, L2Step, DStep, IStep, Memory, l2'.mreq.on
    PROVE  l2'.mreq.line \in L2Lines
<1>1. L2Type' /\ Port' /\ Requests' /\ RowsHeld'
  BY L2TypeKept, PortKept, RequestsKept, RowsHeldKept
<1>2. l2'.idx \in Sets
  BY <1>1 DEF L2Type
<1>3. CASE l2'.state = "DIRTY_STORE"
  <2>1. arr'[l2'.idx].valid /\ l2'.mreq.line = Victim'
    BY <1>1, <1>3 DEF RowsHeld
  <2>2. Row(l2.idx)' = arr'[l2'.idx]
    BY <1>3 DEF Row
  <2>3. arr'[l2'.idx].tag \in Tags
    BY <1>1, <1>2, <1>3, <2>1, <2>2 DEF RowsHeld, Row
  <2> QED BY <1>2, <2>1, <2>3 DEF Victim, L2Lines
<1>4. CASE l2'.state = "CLEAN_RELOAD"
  <2>1. l2'.mreq.line = Outer(l2'.cur) /\ CurLine' \in L1Lines
    BY <1>1, <1>4 DEF RowsHeld, Requests, Reload, Busy
  <2> QED BY <2>1 DEF CurLine, L1Lines, L2Lines, Outer
<1>5. CASE l2'.state = "FLUSH_STORE"
  BY <1>1, <1>5 DEF RowsHeld
<1> QED BY <1>1, <1>3, <1>4, <1>5 DEF Port

-----------------------------------------------------------------------------
(***************************************************************************)
(* The memory.                                                             *)
(***************************************************************************)
(* What is stored is stored by the program in a line that the data cache owns,
   or by the host while the core waits for it. *)
LEMMA ViewSteps ==
    ASSUME IInv, DStep
    PROVE  \/ /\ view' = view
              /\ dc.phase = "idle" => dc'.own = dc.own \/ (Dirty = {} /\ dc'.own = Empty)
           \/ /\ Running /\ dc.phase = "idle"
              /\ \E l \in DLines, v \in Vals :
                    /\ dc.own[l] # Absent /\ dc'.own = [dc.own EXCEPT ![l] = Owned("dirty", v)]
                    /\ view' = [view EXCEPT ![l] = v]
           \/ /\ core = "HANDLE_MONITOR" /\ dc.phase = "idle" /\ dc'.own = dc.own
              /\ \E l \in DLines, v \in Vals :
                    Outer(l) \in HostLines /\ view' = [view EXCEPT ![l] = v]
<1>1. dc \in [phase : {"idle", "asks", "waits"}, line : AnyL1Line, store : BOOLEAN,
            own : [DLines -> Owns], flush : BOOLEAN, walks : BOOLEAN, done : BOOLEAN]
  BY DEF IInv, TypeOK, DType
<1>2. CASE dc.phase # "idle"
  BY <1>2 DEF DStep
<1>3. CASE dc.phase = "idle" /\ (dc.flush \/ dc.walks)
  <2>1. DFlushes /\ view' = view
    BY <1>3 DEF DStep
  <2>2. CASE Dirty = {}
    <3>1. dc'.own = Empty
      BY <1>1, <2>1, <2>2 DEF DFlushes
    <3> QED BY <2>1, <2>2, <3>1
  <2>3. CASE Dirty # {}
    <3>1. dc'.own = dc.own
      BY <1>1, <2>1, <2>3 DEF DFlushes
    <3> QED BY <2>1, <3>1
  <2> QED BY <2>2, <2>3
<1>4. CASE dc.phase = "idle" /\ ~(dc.flush \/ dc.walks)
  <2>1. \/ DWaits /\ view' = view
        \/ \E l \in DLines : DAsks(l, FALSE) /\ view' = view
        \/ \E l \in Dirty : DAsks(l, TRUE) /\ view' = view
        \/ Running /\ \E l \in DLines, v \in Vals : dc.own[l] # Absent /\ DStores(l, v)
                                                  /\ view' = [view EXCEPT ![l] = v]
        \/ core = "HANDLE_MONITOR" /\ DWaits /\ \E l \in DLines, v \in Vals :
              Outer(l) \in HostLines /\ view' = [view EXCEPT ![l] = v]
    BY <1>4 DEF DStep
  <2>2. (DWaits \/ \E l, st : DAsks(l, st)) => dc'.own = dc.own
    BY <1>1 DEF DWaits, DAsks
  <2>3. \A l \in DLines, v \in Vals :
           DStores(l, v) => dc'.own = [dc.own EXCEPT ![l] = Owned("dirty", v)]
    BY <1>1 DEF DStores
  <2> QED BY <1>4, <2>1, <2>2, <2>3
<1> QED BY <1>2, <1>3, <1>4

(* The host writes its lines only, and only while the core waits for it. *)
LEMMA HostWrites ==
    ASSUME IInv, DStep
    PROVE  /\ HostMem \in [L2Lines -> Datas]
           /\ \A l \in L1Lines : HostMem[Outer(l)][l.bank] =
                 IF core = "HANDLE_MONITOR" /\ view'[l] # view[l] THEN view'[l]
                 ELSE mem[Outer(l)][l.bank]
           /\ \A m \in L2Lines : core # "HANDLE_MONITOR" \/ m \notin HostLines =>
                 HostMem[m] = mem[m]
<1>1. /\ mem \in [L2Lines -> Datas] /\ view \in [L1Lines -> AnyVal]
      /\ view' \in [L1Lines -> AnyVal]
  BY DTypeKept DEF IInv, TypeOK, MemType
<1>2. DLines \subseteq L1Lines
  BY HierarchyAssumption
<1>3. ASSUME core = "HANDLE_MONITOR", NEW l \in L1Lines, view'[l] # view[l]
      PROVE  l \in DLines /\ Outer(l) \in HostLines
  BY <1>1, <1>2, <1>3, ViewSteps DEF Running
<1> DEFINE At(m, b) == [tag |-> m.tag, set |-> m.set, bank |-> b]
           Now(m, b) == IF core = "HANDLE_MONITOR" /\ At(m, b) \in DLines
                           /\ view'[At(m, b)] # view[At(m, b)]
                        THEN view'[At(m, b)] ELSE mem[m][b]
<1>4. HostMem = [m \in L2Lines |-> [b \in Banks |-> Now(m, b)]]
  BY DEF HostMem
<1>5. ASSUME NEW m \in L2Lines, NEW b \in Banks
      PROVE  /\ At(m, b) \in L1Lines /\ Outer(At(m, b)) = m
             /\ Now(m, b) \in AnyVal
  <2>1. At(m, b) \in L1Lines /\ Outer(At(m, b)) = m
    BY DEF L1Lines, L2Lines, Outer
  <2> HIDE DEF At
  <2>2. mem[m][b] \in AnyVal
    BY <1>1 DEF Datas
  <2> QED BY <1>1, <2>1, <2>2
<1>6. ASSUME NEW l \in L1Lines
      PROVE  Outer(l) \in L2Lines /\ l.bank \in Banks /\ At(Outer(l), l.bank) = l
  BY DEF L1Lines, L2Lines, Outer
<1>7. HostMem \in [L2Lines -> Datas]
  <2> HIDE DEF Now
  <2> QED BY <1>4, <1>5 DEF Datas
<1>8. ASSUME NEW l \in L1Lines
      PROVE  HostMem[Outer(l)][l.bank] =
                IF core = "HANDLE_MONITOR" /\ view'[l] # view[l] THEN view'[l]
                ELSE mem[Outer(l)][l.bank]
  <2>1. HostMem[Outer(l)][l.bank] = Now(Outer(l), l.bank)
    <3> HIDE DEF Now
    <3> QED BY <1>4, <1>6
  <2>2. At(Outer(l), l.bank) = l
    BY <1>6
  <2> HIDE DEF At
  <2> QED BY <1>3, <2>1, <2>2
<1>9. ASSUME NEW m \in L2Lines, core # "HANDLE_MONITOR" \/ m \notin HostLines
      PROVE  HostMem[m] = mem[m]
  <2>1. ASSUME NEW b \in Banks PROVE Now(m, b) = mem[m][b]
    <3>1. At(m, b) \in L1Lines /\ Outer(At(m, b)) = m
      BY <1>5
    <3> HIDE DEF At
    <3> QED BY <1>3, <1>9, <3>1
  <2>2. HostMem[m] = [b \in Banks |-> Now(m, b)]
    <3> HIDE DEF Now
    <3> QED BY <1>4
  <2>3. mem[m] = [b \in Banks |-> mem[m][b]]
    BY <1>1 DEF Datas
  <2> HIDE DEF Now
  <2> QED BY <2>1, <2>2, <2>3
<1> QED BY <1>7, <1>8, <1>9

(* The memory changes by what the host writes and by the store it answers. *)
LEMMA MemSteps ==
    ASSUME IInv, L2Step, DStep, IStep, Memory
    PROVE  /\ MemType'
           /\ \A m \in L2Lines :
                 mem'[m] = IF memRsp'.on /\ l2'.mreq.store /\ m = l2'.mreq.line
                           THEN l2'.mreq.data ELSE HostMem[m]
           /\ memRsp'.on /\ ~l2'.mreq.store => memRsp'.data = mem[l2'.mreq.line]
           /\ memRsp'.on => l2'.mreq.on /\ l2'.mreq.line \in L2Lines
<1>1. MemType /\ L2Type'
  BY L2TypeKept DEF IInv, TypeOK
<1>2. HostMem \in [L2Lines -> Datas]
  BY HostWrites
<1>3. /\ Due \in {NoWait} \cup Nat /\ (memRsp'.on <=> Due = 0)
      /\ wait' = (IF Due = 0 THEN NoWait ELSE Due)
      /\ Due # NoWait => l2'.mreq.on
  BY MemoryAnswers
<1>4. memRsp'.on => l2'.mreq.on /\ l2'.mreq.line \in L2Lines
  BY <1>3, RequestsInRange DEF NoWait
<1>5. l2'.mreq \in Reqs /\ l2'.mreq.data \in Datas
  BY <1>1 DEF L2Type, Reqs
<1>6. mem' = IF Due = 0 /\ l2'.mreq.store
             THEN [HostMem EXCEPT ![l2'.mreq.line] = l2'.mreq.data] ELSE HostMem
  BY DEF Memory
<1>7. \A m \in L2Lines : mem'[m] = IF memRsp'.on /\ l2'.mreq.store /\ m = l2'.mreq.line
                                  THEN l2'.mreq.data ELSE HostMem[m]
  BY <1>2, <1>3, <1>4, <1>6
<1>8. mem' \in [L2Lines -> Datas]
  BY <1>2, <1>5, <1>6
<1>9. memRsp' = IF Due = 0
                THEN [on |-> TRUE,
                      data |-> IF l2'.mreq.store THEN NoData ELSE mem[l2'.mreq.line]]
                ELSE NoMemRsp
  BY DEF Memory
<1>10. memRsp' \in [on : BOOLEAN, data : Datas]
  <2>1. NoData \in Datas /\ NoMemRsp \in [on : BOOLEAN, data : Datas]
    BY ResetValues
  <2>2. Due = 0 => mem[l2'.mreq.line] \in Datas
    BY <1>1, <1>3, <1>4 DEF MemType
  <2> QED BY <1>9, <2>1, <2>2
<1>11. memRsp'.on /\ ~l2'.mreq.store => memRsp'.data = mem[l2'.mreq.line]
  BY <1>3, <1>9
<1>12. wait' \in {NoWait} \cup (Nat \ {0})
  BY <1>3
<1>13. lat' \in Lats /\ view' \in [L1Lines -> AnyVal]
  BY <1>1, DTypeKept DEF Memory, MemType
<1> QED BY <1>4, <1>7, <1>8, <1>10, <1>11, <1>12, <1>13 DEF MemType

(* The host writes no line that is in the second level or on its way there. *)
LEMMA HostSpares ==
    ASSUME IInv, DStep, NEW m \in L2Lines,
           \/ Row(m.set).valid /\ Row(m.set).tag = m.tag
           \/ l2.state \in Busy /\ m = Outer(l2.cur)
    PROVE  HostMem[m] = mem[m]
<1>1. Handshake /\ Flushed
  BY DEF IInv
<1>2. CASE core # "HANDLE_MONITOR"
  BY <1>2, HostWrites
<1>3. CASE core = "HANDLE_MONITOR"
  <2>1. l2.state \notin Walking
    BY <1>1, <1>3 DEF Handshake, Reset, Rests, Asked, FirstLevel, SecondLevel, L2Quiet
  <2>2. \A s \in Sets : Row(s) = arr[s]
    BY <2>1 DEF Row, Walking
  <2>3. m.set \in Sets /\ m = [tag |-> m.tag, set |-> m.set]
    BY DEF L2Lines
  <2>4. Outer(CurLine) = Outer(l2.cur)
    BY DEF CurLine, Outer
  <2>5. m \notin HostLines
    BY <1>1, <1>3, <2>2, <2>3, <2>4 DEF Flushed, LineAt
  <2> QED BY <2>5, HostWrites
<1> QED BY <1>2, <1>3

(* A store that is answered is of a row that is dirty, or of one that has been
   flushed from its set. *)
LEMMA StoreOf ==
    ASSUME IInv, L2Step, DStep, IStep, Memory, memRsp'.on, l2'.mreq.store
    PROVE  /\ l2'.idx \in Sets
           /\ \/ /\ l2'.state = "DIRTY_STORE" /\ l2'.mreq.line = Victim'
                 /\ Row(l2.idx)' = arr'[l2'.idx]
                 /\ arr'[l2'.idx].valid /\ arr'[l2'.idx].dirty
              \/ /\ l2'.state = "FLUSH_STORE" /\ l2'.mreq.line.set = l2'.idx
                 /\ arr'[l2'.idx] = NoRow
<1>1. L2Type' /\ Port' /\ RowsHeld'
  BY L2TypeKept, PortKept, RowsHeldKept
<1>2. l2'.state \in ReqStates
  BY <1>1 DEF Port, ReqStates
<1>3. l2'.state # "CLEAN_RELOAD"
  BY <1>1 DEF RowsHeld, Reload
<1>4. l2'.idx \in Sets
  BY <1>1 DEF L2Type
<1> QED BY <1>1, <1>2, <1>3, <1>4 DEF RowsHeld, ReqStates, Row

(* A line is fetched for the request that missed, whose victim is in place. *)
LEMMA ReloadComes ==
    ASSUME IInv, L2Step, l2'.state \in {"STORE_TURNAROUND", "CLEAN_RELOAD"}
    PROVE  /\ l2.state \in Busy /\ l2'.cur = l2.cur /\ l2'.idx = l2.idx /\ arr' = arr
           /\ \/ l2.state = "DIRTY_STORE" /\ memRsp.on
              \/ l2.state \in {"STORE_TURNAROUND", "CLEAN_RELOAD"}
              \/ l2.state = "CHECK_VALID_AND_TAG" /\ ~out.dirty
<1>1. l2 \in [state : L2States, idx : Sets, reload : BOOLEAN, mreq : Reqs,
              rsp : [to : SUBSET Clients, val : AnyVal], cur : Curs]
  BY DEF IInv, TypeOK, L2Type
<1>2. CASE CheckMiss
  BY <1>1, <1>2 DEF CheckMiss, Busy
<1>3. CASE DirtyStore
  BY <1>1, <1>3 DEF DirtyStore, Busy
<1>4. CASE StoreTurnaround
  BY <1>1, <1>4 DEF StoreTurnaround, Busy
<1>5. CASE CleanReload
  <2>1. CASE memRsp.on
    <3>1. l2'.state = "WAIT_CLEAN_RELOAD"
      BY <1>1, <1>5, <2>1 DEF CleanReload, ReloadedInto
    <3> QED BY <3>1
  <2>2. CASE ~memRsp.on
    BY <1>5, <2>2 DEF CleanReload, ReloadedInto, Busy
  <2> QED BY <2>1, <2>2
<1>6. CASE Initialize
  BY <1>1, <1>6 DEF Initialize
<1>7. CASE IdleFlush \/ IdleNothing
  BY <1>1, <1>7 DEF IdleFlush, IdleNothing
<1>8. CASE IdleGrant
  BY <1>8, GrantTakes
<1>9. CASE CheckHit
  BY <1>9, HitServes
<1>10. CASE Turnaround
  BY <1>1, <1>10 DEF Turnaround
<1>11. CASE FlushWait
  BY <1>1, <1>11 DEF FlushWait
<1>12. CASE FlushTriage
  BY <1>1, <1>12 DEF FlushTriage, Advances
<1>13. CASE FlushStore
  BY <1>1, <1>13 DEF FlushStore, Advances
<1> QED BY <1>2, <1>3, <1>4, <1>5, <1>6, <1>7, <1>8, <1>9, <1>10, <1>11, <1>12, <1>13 DEF L2Step

(* What the memory holds of a row, a victim and an answer stays so. *)
LEMMA RowsExactKept ==
    ASSUME IInv, L2Step, DStep, IStep, Memory
    PROVE  RowsExact'
<1>1. L2Type /\ L2Type' /\ Port /\ Port' /\ Requests /\ RowsHeld /\ RowsHeld' /\ RowsExact
  BY L2TypeKept, PortKept, RowsHeldKept DEF IInv, TypeOK
<1>2. /\ l2 \in [state : L2States, idx : Sets, reload : BOOLEAN, mreq : Reqs,
                 rsp : [to : SUBSET Clients, val : AnyVal], cur : Curs]
      /\ arr \in [Sets -> Rows] /\ l2.idx \in Sets /\ l2'.idx \in Sets
  BY <1>1 DEF L2Type
<1>3. /\ \A m \in L2Lines :
            mem'[m] = IF memRsp'.on /\ l2'.mreq.store /\ m = l2'.mreq.line
                      THEN l2'.mreq.data ELSE HostMem[m]
      /\ memRsp'.on /\ ~l2'.mreq.store => memRsp'.data = mem[l2'.mreq.line]
      /\ memRsp'.on => l2'.mreq.on /\ l2'.mreq.line \in L2Lines
  BY MemSteps
<1>4. /\ l2.state \in {"STORE_TURNAROUND", "CLEAN_RELOAD"} /\ arr[l2.idx].valid =>
            mem[Victim] = arr[l2.idx].data
      /\ memRsp.on => IF l2.mreq.store THEN mem[l2.mreq.line] = l2.mreq.data
                                       ELSE mem[l2.mreq.line] = memRsp.data
      /\ l2.state # "INITIALIZE" => \A s \in Sets :
            Row(s).valid /\ ~Row(s).dirty => mem[LineAt(s)] = Row(s).data
  BY <1>1 DEF RowsExact
<1>5. ASSUME l2'.state \in {"STORE_TURNAROUND", "CLEAN_RELOAD"}, arr'[l2'.idx].valid
      PROVE  mem'[Victim'] = arr'[l2'.idx].data
  <2>1. /\ l2.state \in Busy /\ l2'.idx = l2.idx /\ arr' = arr
        /\ \/ l2.state = "DIRTY_STORE" /\ memRsp.on
           \/ l2.state \in {"STORE_TURNAROUND", "CLEAN_RELOAD"}
           \/ l2.state = "CHECK_VALID_AND_TAG" /\ ~out.dirty
    BY <1>5, ReloadComes
  <2>2. Row(l2.idx) = arr[l2.idx] /\ arr[l2.idx].valid /\ Victim' = Victim
    BY <1>5, <2>1 DEF Row, Busy, Victim
  <2>3. arr[l2.idx].tag \in Tags
    BY <1>1, <1>2, <2>1, <2>2 DEF RowsHeld, Busy
  <2>4. Victim \in L2Lines /\ Victim.tag = arr[l2.idx].tag /\ Victim.set = l2.idx
    BY <1>2, <2>3 DEF Victim, L2Lines
  <2>5. HostMem[Victim] = mem[Victim]
    BY <2>2, <2>4, HostSpares
  <2>6. ~(memRsp'.on /\ l2'.mreq.store)
    BY <1>5, StoreOf
  <2>7. mem'[Victim'] = mem[Victim]
    BY <1>3, <2>2, <2>4, <2>5, <2>6
  <2>8. CASE l2.state = "DIRTY_STORE" /\ memRsp.on
    <3>1. l2.mreq = [on |-> TRUE, store |-> TRUE, line |-> Victim, data |-> arr[l2.idx].data]
      BY <1>1, <2>8 DEF RowsHeld
    <3>2. l2.mreq.store /\ l2.mreq.line = Victim /\ l2.mreq.data = arr[l2.idx].data
      BY <3>1
    <3> QED BY <1>4, <2>1, <2>7, <2>8, <3>2
  <2>9. CASE l2.state \in {"STORE_TURNAROUND", "CLEAN_RELOAD"}
    BY <1>4, <2>1, <2>2, <2>7, <2>9
  <2>10. CASE l2.state = "CHECK_VALID_AND_TAG" /\ ~out.dirty
    <3>1. ~arr[l2.idx].dirty
      BY <1>1, <2>10 DEF RowsHeld
    <3>2. LineAt(l2.idx) = Victim
      BY <2>2 DEF LineAt, Victim
    <3> QED BY <1>2, <1>4, <2>1, <2>2, <2>7, <2>10, <3>1, <3>2
  <2> QED BY <2>1, <2>8, <2>9, <2>10
<1>6. ASSUME memRsp'.on
      PROVE  IF l2'.mreq.store THEN mem'[l2'.mreq.line] = l2'.mreq.data
                               ELSE mem'[l2'.mreq.line] = memRsp'.data
  <2>1. CASE l2'.mreq.store
    BY <1>3, <1>6, <2>1
  <2>2. CASE ~l2'.mreq.store
    <3>1. l2'.state = "CLEAN_RELOAD" /\ l2'.mreq = Reload'
      <4>1. l2'.state \in ReqStates
        BY <1>1, <1>3, <1>6 DEF Port, ReqStates
      <4> QED BY <1>1, <2>2, <4>1 DEF RowsHeld, ReqStates
    <3>2. l2.state \in Busy /\ l2'.cur = l2.cur
      BY <3>1, ReloadComes
    <3>3. l2'.mreq.line = Outer(l2.cur)
      BY <3>1, <3>2 DEF Reload
    <3>4. HostMem[l2'.mreq.line] = mem[l2'.mreq.line]
      BY <1>3, <1>6, <3>2, <3>3, HostSpares
    <3> QED BY <1>3, <1>6, <2>2, <3>4
  <2> QED BY <2>1, <2>2
<1>7. ASSUME l2'.state # "INITIALIZE", NEW s \in Sets, Row(s)'.valid, ~Row(s)'.dirty
      PROVE  mem'[LineAt(s)'] = Row(s)'.data
  <2>1. ~NoRow.valid
    BY DEF NoRow
  <2>2. l2.state # "INITIALIZE"
    BY <1>7, <2>1, Cleared DEF Row
  <2> DEFINE m == [tag |-> Row(s)'.tag, set |-> s]
  <2>3. m \in L2Lines /\ m.set = s /\ m.tag = Row(s)'.tag /\ LineAt(s)' = m
    BY <1>1, <1>7 DEF RowsHeld, L2Lines, LineAt
  <2>4. ~(memRsp'.on /\ l2'.mreq.store /\ m = l2'.mreq.line)
    <3> SUFFICES ASSUME memRsp'.on, l2'.mreq.store, m = l2'.mreq.line PROVE FALSE
      OBVIOUS
    <3>1. l2'.mreq.line.set = l2'.idx
      BY StoreOf DEF Victim
    <3>2. s = l2'.idx
      BY <2>3, <3>1
    <3>3. Row(s)' = arr'[s]
      BY <3>2, StoreOf DEF Row
    <3> QED BY <1>7, <2>1, <3>2, <3>3, StoreOf
  <2>5. mem'[LineAt(s)'] = HostMem[m]
    BY <1>3, <2>3, <2>4
  <2> HIDE DEF m
  <2>6. CASE Row(s)' = Row(s)
    <3>1. LineAt(s) = m
      BY <2>3, <2>6 DEF LineAt, m
    <3>2. HostMem[m] = mem[m]
      BY <1>7, <2>3, <2>6, HostSpares
    <3> QED BY <1>4, <1>7, <2>2, <2>5, <2>6, <3>1, <3>2
  <2>7. CASE CheckHit /\ l2.cur.store /\ s = l2.idx
    <3>1. l2'.state # "FLUSH_TRIAGE"
      BY <2>7, HitServes
    <3> QED BY <1>1, <1>7, <2>7, <3>1, StoredRow DEF Row
  <2>8. CASE CleanReload /\ memRsp.on /\ s = l2.idx
    <3>1. l2.state = "CLEAN_RELOAD" /\ l2'.state = "WAIT_CLEAN_RELOAD"
      BY <1>2, <2>8 DEF CleanReload, ReloadedInto
    <3>2. Row(s)' = arr'[s]
      BY <3>1 DEF Row
    <3>3. Row(s)'.tag = l2.cur.tag /\ Row(s)'.data = memRsp.data
      BY <1>1, <2>8, <3>2, ReloadedRow
    <3>4. l2.mreq = Reload /\ l2.idx = l2.cur.set
      BY <1>1, <3>1 DEF RowsHeld, Requests, Busy
    <3>5. ~l2.mreq.store /\ l2.mreq.line = m /\ m = Outer(l2.cur)
      BY <2>8, <3>3, <3>4 DEF Reload, Outer, m
    <3>6. HostMem[m] = mem[m]
      BY <2>3, <3>1, <3>5, HostSpares DEF Busy
    <3> QED BY <1>4, <2>5, <2>8, <3>3, <3>5, <3>6
  <2>9. CASE Row(s)' = NoRow
    BY <1>7, <2>1, <2>9
  <2> QED BY <2>2, <2>6, <2>7, <2>8, <2>9, RowsMove
<1> QED BY <1>5, <1>6, <1>7 DEF RowsExact

-----------------------------------------------------------------------------
(***************************************************************************)
(* What a flush leaves behind.                                             *)
(***************************************************************************)
(* The walk over the sets leaves none of them out (l2.sv, FLUSH_WAIT to
   FLUSH_STORE). *)
LEMMA WalkClears ==
    ASSUME IInv, L2Step
    PROVE  /\ l2'.state \in Walking => \A s \in Sets : s < l2'.idx => arr'[s] = NoRow
           /\ l2Done' => \A s \in Sets : arr'[s] = NoRow
<1>1. L2Type /\ RowsHeld /\ Flushed
  BY DEF IInv, TypeOK
<1>2. /\ l2 \in [state : L2States, idx : Sets, reload : BOOLEAN, mreq : Reqs,
                 rsp : [to : SUBSET Clients, val : AnyVal], cur : Curs]
      /\ arr \in [Sets -> Rows] /\ l2.idx \in Sets
  BY <1>1 DEF L2Type
<1>3. NumSets \in Nat \ {0} /\ Sets = 0 .. NumSets - 1
  BY HierarchyAssumption DEF Sets
<1>4. /\ l2.state \in Walking => \A s \in Sets : s < l2.idx => arr[s] = NoRow
      /\ l2.state \in {"FLUSH_TRIAGE", "FLUSH_STORE"} => arr[l2.idx] = NoRow
  BY <1>1 DEF RowsHeld, Flushed
<1> DEFINE Good == /\ l2'.state \in Walking => \A s \in Sets : s < l2'.idx => arr'[s] = NoRow
                   /\ l2Done' => \A s \in Sets : arr'[s] = NoRow
<1> SUFFICES Good
  OBVIOUS
<1>5. CASE l2.state = "INITIALIZE"
  <2>1. l2'.state \notin Walking
    BY <1>5, Cleared DEF Walking
  <2>2. l2Done' => l2'.state # "INITIALIZE"
    BY <1>5, Cleared
  <2> QED BY <1>5, <2>1, <2>2, Cleared
<1>6. CASE l2.state \notin Walking \cup {"INITIALIZE"}
  <2>1. ~l2Done' /\ (l2'.state \in Walking => l2.state = "IDLE" /\ Flushing)
    BY <1>6, L2Flushes
  <2>2. CASE l2.state = "IDLE" /\ Flushing
    <3>1. IdleFlush
      BY <2>2 DEF L2Step, Initialize, IdleNothing, IdleGrant, CheckHit, HitMarks, CheckMiss,
                  DirtyStore, StoreTurnaround, CleanReload, ReloadedInto, Turnaround, FlushWait,
                  FlushTriage, FlushStore
    <3>2. l2'.idx = 0
      BY <1>2, <3>1 DEF IdleFlush
    <3> QED BY <1>3, <2>1, <3>2
  <2> QED BY <2>1, <2>2
<1>7. Advances /\ arr' = arr /\ l2.state \in {"FLUSH_TRIAGE", "FLUSH_STORE"} => Good
  <2> SUFFICES ASSUME Advances, arr' = arr, l2.state \in {"FLUSH_TRIAGE", "FLUSH_STORE"}
               PROVE  Good
    OBVIOUS
  <2>1. \A s \in Sets : s < l2.idx + 1 => arr'[s] = NoRow
    BY <1>2, <1>3, <1>4 DEF Walking
  <2>2. l2'.idx = (l2.idx + 1) % NumSets /\ l2'.state = IF Last THEN "IDLE" ELSE "FLUSH_WAIT"
    BY <1>2 DEF Advances
  <2>3. l2Done' = Last
    BY DEF Advances, Keeps
  <2>4. CASE Last
    <3>1. \A s \in Sets : s < l2.idx + 1
      BY <1>2, <1>3, <2>4 DEF Last
    <3> QED BY <2>1, <2>2, <2>4, <3>1 DEF Walking
  <2>5. CASE ~Last
    <3>1. l2'.idx = l2.idx + 1
      BY <1>2, <2>2, <2>5, NextSet DEF Last
    <3> QED BY <2>1, <2>3, <2>5, <3>1
  <2> QED BY <2>4, <2>5
<1>8. CASE FlushWait
  <2>1. /\ l2'.idx = l2.idx /\ arr' = [arr EXCEPT ![l2.idx] = NoRow]
        /\ ~l2Done' /\ l2.state \in Walking
    BY <1>2, <1>8 DEF FlushWait, Writes, Stays, Keeps, Walking
  <2> QED BY <1>2, <1>4, <2>1
<1>9. CASE FlushTriage
  <2>1. l2.state = "FLUSH_TRIAGE" /\ arr' = arr
    BY <1>9 DEF FlushTriage
  <2>2. CASE NeedWb
    <3>1. l2'.idx = l2.idx /\ ~l2Done'
      BY <1>2, <1>9, <2>2 DEF FlushTriage, Stays, Keeps
    <3> QED BY <1>4, <2>1, <3>1 DEF Walking
  <2>3. CASE ~NeedWb
    BY <1>7, <1>9, <2>1, <2>3 DEF FlushTriage
  <2> QED BY <2>2, <2>3
<1>10. CASE FlushStore
  <2>1. l2.state = "FLUSH_STORE" /\ arr' = arr
    BY <1>10 DEF FlushStore
  <2>2. CASE memRsp.on
    BY <1>7, <1>10, <2>1, <2>2 DEF FlushStore
  <2>3. CASE ~memRsp.on
    <3>1. l2'.idx = l2.idx /\ ~l2Done'
      BY <1>10, <2>3 DEF FlushStore, Stays, Keeps
    <3> QED BY <1>4, <2>1, <3>1 DEF Walking
  <2> QED BY <2>2, <2>3
<1>11. CASE l2.state \in Walking
  <2>1. FlushWait \/ FlushTriage \/ FlushStore
    BY <1>11 DEF L2Step, Initialize, IdleFlush, IdleNothing, IdleGrant, CheckHit, HitMarks,
                 CheckMiss, DirtyStore, StoreTurnaround, CleanReload, ReloadedInto, Turnaround,
                 Walking
  <2> QED BY <1>8, <1>9, <1>10, <2>1
<1> QED BY <1>5, <1>6, <1>11

(* When the core hands over to the host or halts, both levels have ended. *)
LEMMA HandsOver ==
    ASSUME IInv, CoreStep, core' \in {"HANDLE_MONITOR", "HALT"}
    PROVE  /\ DSettled /\ ~Running /\ ~Flushing /\ ~l2.cur.store
           /\ l2.state \notin Walking \cup {"INITIALIZE"}
           /\ \A s \in Sets : ~arr[s].dirty
           /\ core' = "HANDLE_MONITOR" =>
                 /\ dc.phase = "idle"
                 /\ l2.state \in Busy => Outer(CurLine) \notin HostLines
                 /\ \A s \in Sets : arr[s].valid => LineAt(s) \notin HostLines
<1>1. Handshake /\ Flushed /\ Requests /\ L2Type
  BY DEF IInv, TypeOK
<1>2. CASE core \in {"HANDLE_MONITOR", "HALT"}
  <2>1. Rests
    BY <1>1, <1>2 DEF Handshake, Reset, Asked, FirstLevel, SecondLevel
  <2>2. core' = core
    BY <1>2 DEF CoreStep, AsksFlush, MonitorFlushed, HaltFlushed, GoesOn
  <2>3. DSettled /\ ~Running /\ ~Flushing /\ l2.state \notin Walking \cup {"INITIALIZE"}
    BY <1>2, <2>1 DEF DSettled, Running, Rests, L2Quiet, Idle, Flushing, FlushFires
  <2> QED BY <1>1, <1>2, <2>2, <2>3 DEF Flushed
<1>3. CASE core \notin {"HANDLE_MONITOR", "HALT"}
  <2>1. /\ "d" \in Seen /\ "l2" \in Seen
        /\ core' = "HANDLE_MONITOR" => core = "MONITOR_FLUSH_CACHE"
        /\ core \in {"MONITOR_FLUSH_CACHE", "FLUSH_FOR_HALT"}
    BY <1>3 DEF CoreStep, AsksFlush, MonitorFlushed, HaltFlushed, GoesOn
  <2>2. "l2" \notin got
    BY <1>1 DEF Handshake, Reset, Rests, Asked, FirstLevel, SecondLevel, Who
  <2>3. l2Done /\ DSettled
    BY <2>1, <2>2 DEF Seen, Dones, DSettled
  <2>4. /\ l2.state = "IDLE" /\ ~Flushing
    BY <1>1, <2>1, <2>3
       DEF Handshake, Reset, Rests, Asked, FirstLevel, SecondLevel, L2Quiet, Idle, Flushing,
           FlushFires
  <2>5. \A s \in Sets : arr[s] = NoRow
    BY <1>1, <2>3 DEF Flushed
  <2>6. ~NoRow.dirty /\ ~NoRow.valid
    BY DEF NoRow
  <2>7. ~l2.cur.store
    BY <1>1, <2>4 DEF Requests, Busy
  <2>8. core' = "HANDLE_MONITOR" => dc.phase = "idle"
    BY <1>1, <2>1, <2>3 DEF Flushed
  <2> QED BY <2>1, <2>3, <2>4, <2>5, <2>6, <2>7, <2>8 DEF Running, Walking, Busy
<1> QED BY <1>2, <1>3

(* A data cache that has been flushed stays without dirty lines until the core
   runs on, and empty during a monitor call. *)
LEMMA SettledKept ==
    ASSUME IInv, DStep, CoreStep, DSettled'
    PROVE  /\ \A l \in DLines : dc'.own[l].state # "dirty"
           /\ dc'.phase # "idle" => ~dc'.store
           /\ core' \in {"MONITOR_FLUSH_CACHE", "HANDLE_MONITOR"} =>
                 dc'.phase = "idle" /\ dc'.own = Empty
<1>1. DType /\ Handshake /\ Flushed /\ Requests
  BY DEF IInv, TypeOK
<1>2. dc \in [phase : {"idle", "asks", "waits"}, line : AnyL1Line, store : BOOLEAN,
            own : [DLines -> Owns], flush : BOOLEAN, walks : BOOLEAN, done : BOOLEAN]
  BY <1>1 DEF DType
<1>3. /\ \A l \in DLines : Empty[l].state # "dirty"
      /\ \A v : Owned("clean", v).state # "dirty"
      /\ Absent.state # "dirty"
  BY DEF Empty, Absent, Owned
<1>4. CASE dc'.done
  <2>1. dc.phase = "idle" /\ DFlushes
    BY <1>2, <1>4 DEF DStep, DAnswered, DWaits, DAsks, DStores
  <2>2. Dirty = {}
    BY <1>2, <1>4, <2>1 DEF DFlushes
  <2>3. dc'.own = Empty /\ dc'.phase = "idle"
    BY <1>2, <2>1, <2>2 DEF DFlushes
  <2> QED BY <1>3, <2>3
<1>5. CASE ~dc'.done
  <2>1. DSettled /\ ~Running
    <3>1. CASE core' \in {"HANDLE_MONITOR", "HALT"}
      BY <3>1, HandsOver
    <3>2. CASE "d" \in got'
      <4>1. "d" \in Seen
        BY <3>2 DEF CoreStep, AsksFlush, MonitorFlushed, HaltFlushed, GoesOn
      <4>2. "d" \in got \/ dc.done
        BY <4>1 DEF Seen, Dones
      <4>3. ~Rests
        BY <4>2 DEF Rests
      <4> QED BY <1>1, <4>2, <4>3
              DEF DSettled, Running, Handshake, Reset, Asked, FirstLevel, SecondLevel
    <3> QED BY <1>5, <3>1, <3>2 DEF DSettled
  <2>2. DQuiet
    BY <1>1, <2>1 DEF Handshake, Reset, Rests, Asked, FirstLevel, SecondLevel, DSettled, DProgress
  <2>3. /\ \A l \in DLines : dc.own[l].state # "dirty"
        /\ dc.phase # "idle" => ~dc.store
        /\ core \in {"MONITOR_FLUSH_CACHE", "HANDLE_MONITOR"} =>
              dc.phase = "idle" /\ dc.own = Empty
    BY <1>1, <2>1 DEF Flushed, IsDirty
  <2>4. core' \in {"MONITOR_FLUSH_CACHE", "HANDLE_MONITOR"} =>
           core \in {"MONITOR_FLUSH_CACHE", "HANDLE_MONITOR"}
    BY <2>1 DEF CoreStep, AsksFlush, MonitorFlushed, HaltFlushed, GoesOn, Running
  <2>5. CASE dc.phase # "idle" /\ "d" \in l2.rsp.to
    <3>1. dc'.phase = "idle" /\ dc'.own = [dc.own EXCEPT ![dc.line] = Owned("clean", l2.rsp.val)]
      BY <2>3, <2>5, DRequestSteps
    <3> QED BY <1>2, <1>3, <2>3, <2>4, <2>5, <3>1
  <2>6. CASE dc.phase # "idle" /\ "d" \notin l2.rsp.to
    BY <2>3, <2>4, <2>6, DRequestSteps
  <2>7. CASE dc.phase = "idle"
    <3>1. \/ DWaits
          \/ core = "FLUSH_FOR_HALT" /\ \E l \in DLines : DAsks(l, FALSE)
      BY <2>1, <2>2, <2>7 DEF DStep, DQuiet
    <3>2. CASE DWaits
      <4>1. dc'.phase = "idle" /\ dc'.own = dc.own
        BY <1>2, <2>7, <3>2 DEF DWaits
      <4> QED BY <2>3, <2>4, <4>1
    <3>3. CASE core = "FLUSH_FOR_HALT" /\ \E l \in DLines : DAsks(l, FALSE)
      <4>1. ~dc'.store /\ dc'.own = dc.own
        BY <1>2, <3>3 DEF DAsks
      <4> QED BY <2>3, <2>4, <3>3, <4>1
    <3> QED BY <3>1, <3>2, <3>3
  <2> QED BY <2>5, <2>6, <2>7
<1> QED BY <1>4, <1>5

(* While the host or nobody runs, the second level takes no dirty line, and none
   of the host's lines. *)
LEMMA FlushedKept ==
    ASSUME IInv, L2Step, DStep, IStep, CoreStep
    PROVE  Flushed'
<1>1. L2Type /\ L2Type' /\ Requests /\ RowsHeld /\ Flushed /\ DType'
  BY L2TypeKept, DTypeKept DEF IInv, TypeOK
<1>2. /\ l2 \in [state : L2States, idx : Sets, reload : BOOLEAN, mreq : Reqs,
                 rsp : [to : SUBSET Clients, val : AnyVal], cur : Curs]
      /\ arr \in [Sets -> Rows] /\ l2.idx \in Sets
  BY <1>1 DEF L2Type
<1>3. l2'.state = "INITIALIZE" => \A s \in Sets : s \in 1 .. l2'.idx => arr'[s] = NoRow
  BY Cleared, L2Flushes DEF Walking
<1>4. DSettled' => /\ \A l \in DLines : ~IsDirty(l)'
                   /\ dc'.phase # "idle" => ~dc'.store
  BY SettledKept DEF IsDirty
<1>5. DSettled' /\ core' \in {"MONITOR_FLUSH_CACHE", "HANDLE_MONITOR"} =>
         dc'.phase = "idle" /\ dc'.own = Empty
  BY SettledKept
<1>6. ASSUME core' \in {"HANDLE_MONITOR", "HALT"}
      PROVE  /\ ~l2'.cur.store /\ \A s \in Sets : ~arr'[s].dirty
             /\ core' = "HANDLE_MONITOR" =>
                   /\ l2'.state \in Busy => Outer(CurLine') \notin HostLines
                   /\ \A s \in Sets : arr'[s].valid => LineAt(s)' \notin HostLines
  <2>1. /\ DSettled /\ ~Flushing /\ ~l2.cur.store
        /\ l2.state \notin Walking \cup {"INITIALIZE"}
        /\ \A s \in Sets : ~arr[s].dirty
        /\ core' = "HANDLE_MONITOR" =>
              /\ dc.phase = "idle"
              /\ l2.state \in Busy => Outer(CurLine) \notin HostLines
              /\ \A s \in Sets : arr[s].valid => LineAt(s) \notin HostLines
    BY <1>6, HandsOver
  <2>2. l2'.state \notin Walking
    BY <2>1, L2Flushes
  <2>3. \A s \in Sets : Row(s) = arr[s] /\ Row(s)' = arr'[s]
    BY <2>1, <2>2 DEF Row, Walking
  <2>4. Asking \subseteq Clients
    BY <1>1 DEF Asking, L2Type
  <2>5. "d" \in Asking => dc.phase # "idle" /\ ~dc.store
    <3>1. "d" \in Asking => dc.phase # "idle"
      BY <1>1 DEF Asking, Requests, Clients, Phase
    <3> QED BY <1>1, <2>1, <3>1 DEF Flushed
  <2>6. ~l2'.cur.store
    <3>1. CASE IdleGrant
      BY <2>5, <3>1, GrantTakes
    <3>2. CASE CheckHit
      BY <3>2, HitServes
    <3> QED BY <2>1, <3>1, <3>2, L2Serves
  <2>7. \A s \in Sets : ~arr'[s].dirty
    <3>1. ~NoRow.dirty
      BY DEF NoRow
    <3> QED BY <1>1, <2>1, <2>3, <3>1, RowsMove, ReloadedRow
  <2>8. ASSUME core' = "HANDLE_MONITOR", l2'.state \in Busy
        PROVE  Outer(CurLine') \notin HostLines
    <3>1. CASE IdleGrant
      <4>1. Granted = "i" /\ ic.phase # "idle"
        <5>1. Granted \in Asking
          BY <3>1, GrantTakes
        <5>2. Granted = "i"
          BY <2>1, <2>4, <2>5, <2>8, <5>1 DEF Clients
        <5> QED BY <1>1, <2>4, <5>1, <5>2 DEF Asking, Requests, Clients, Phase
      <4>2. ic.line \in ILines
        BY <1>1, <4>1 DEF Requests
      <4>3. Outer(CurLine') = Outer(ic.line)
        BY <3>1, <4>1, GrantTakes DEF CurLine, Outer, LineOf
      <4> QED BY <4>2, <4>3, HierarchyAssumption
    <3>2. CASE CheckHit
      BY <2>8, <3>2, HitServes DEF Busy
    <3>3. CASE l2'.cur = l2.cur /\ l2.state \in Busy
      BY <2>1, <2>8, <3>3 DEF CurLine
    <3> QED BY <2>8, <3>1, <3>2, <3>3, L2Serves
  <2>9. ASSUME core' = "HANDLE_MONITOR", NEW s \in Sets, arr'[s].valid
        PROVE  LineAt(s)' \notin HostLines
    <3>1. LineAt(s)' = [tag |-> arr'[s].tag, set |-> s]
          /\ LineAt(s) = [tag |-> arr[s].tag, set |-> s]
      BY <2>3 DEF LineAt
    <3>2. CASE arr'[s] = arr[s]
      BY <2>1, <2>9, <3>1, <3>2
    <3>3. CASE CheckHit /\ l2.cur.store
      BY <2>1, <3>3
    <3>4. CASE CleanReload /\ memRsp.on /\ s = l2.idx
      <4>1. l2.state = "CLEAN_RELOAD"
        BY <3>4 DEF CleanReload, ReloadedInto
      <4>2. arr'[s].tag = l2.cur.tag /\ s = l2.cur.set
        BY <1>1, <3>4, <4>1, ReloadedRow DEF Requests, Busy
      <4>3. LineAt(s)' = Outer(CurLine)
        BY <3>1, <4>2 DEF Outer, CurLine
      <4> QED BY <2>1, <2>9, <4>1, <4>3 DEF Busy
    <3>5. CASE arr'[s] = NoRow
      BY <2>9, <3>5 DEF NoRow
    <3> QED BY <2>1, <2>3, <3>2, <3>3, <3>4, <3>5, RowsMove
  <2> QED BY <2>6, <2>7, <2>8, <2>9
<1> QED BY <1>3, <1>4, <1>5, <1>6, WalkClears DEF Flushed

-----------------------------------------------------------------------------
(***************************************************************************)
(* What a line holds.                                                      *)
(***************************************************************************)
(* A line whose store is on its way to the second level is not stored to again
   before it is there. *)
LEMMA StoreSettles ==
    ASSUME IInv, DStep, l2.cur.store
    PROVE  CurLine \in DLines /\ view'[CurLine] = view[CurLine]
<1>1. DType /\ MemType /\ Requests /\ Flushed
  BY DEF IInv, TypeOK
<1>2. CurLine \in DLines /\ (l2.rsp.to = {} => dc.own[CurLine] = Absent)
  BY <1>1 DEF Requests
<1>3. CASE l2.rsp.to # {}
  <2>1. "d" \in l2.rsp.to
    BY <1>1, <1>3 DEF Requests, Busy
  <2>2. dc.phase # "idle"
    BY <1>1, <2>1 DEF Requests, Phase, Clients
  <2> QED BY <1>2, <2>2, ViewSteps
<1>4. CASE l2.rsp.to = {}
  <2>1. core # "HANDLE_MONITOR"
    BY <1>1 DEF Flushed
  <2>2. \/ view' = view
        \/ \E l \in DLines, v \in Vals : dc.own[l] # Absent /\ view' = [view EXCEPT ![l] = v]
    BY <2>1, ViewSteps
  <2>3. view \in [L1Lines -> AnyVal]
    BY <1>1 DEF MemType
  <2>4. CurLine \in L1Lines
    BY <1>2, HierarchyAssumption
  <2>5. ASSUME NEW l \in DLines, NEW v \in Vals, dc.own[l] # Absent,
               view' = [view EXCEPT ![l] = v]
        PROVE  view'[CurLine] = view[CurLine]
    <3>1. l # CurLine
      BY <1>2, <1>4, <2>5
    <3> QED BY <2>3, <2>4, <2>5, <3>1
  <2> QED BY <1>2, <2>2, <2>5
<1> QED BY <1>3, <1>4

(* A line that is not dirty has not been stored to, but by the host; if it was
   dirty its store has been taken. *)
LEMMA CleanLine ==
    ASSUME IInv, DStep, NEW l \in L1Lines, ~IsDirty(l)'
    PROVE  /\ Stored(l) \/ ~IsDirty(l)
           /\ core # "HANDLE_MONITOR" => view'[l] = view[l]
<1>1. DType /\ MemType /\ Requests
  BY DEF IInv, TypeOK
<1>2. dc.own \in [DLines -> Owns] /\ view \in [L1Lines -> AnyVal]
  BY <1>1 DEF DType, MemType
<1>3. ASSUME IsDirty(l) PROVE Stored(l)
  <2>1. l \in DLines /\ dc.own[l].state = "dirty" /\ dc'.own[l].state # "dirty"
    BY <1>3 DEF IsDirty
  <2>2. dc.phase # "idle"
    <3> SUFFICES ASSUME dc.phase = "idle" PROVE FALSE
      OBVIOUS
    <3>1. l \in Dirty
      BY <2>1 DEF Dirty
    <3>2. \E k \in DLines, v \in Vals : dc'.own = [dc.own EXCEPT ![k] = Owned("dirty", v)]
      BY <2>1, <3>1, ViewSteps
    <3> QED BY <1>2, <2>1, <3>2 DEF Owned
  <2>3. "d" \in l2.rsp.to /\ l = dc.line
    BY <1>2, <2>1, <2>2, DRequestSteps
  <2>4. dc.store
    BY <1>1, <2>1, <2>2, <2>3 DEF Requests, Absent
  <2> QED BY <1>1, <2>3, <2>4 DEF Requests, Stored
<1>4. ASSUME core # "HANDLE_MONITOR" PROVE view'[l] = view[l]
  <2>1. CASE view' = view
    BY <2>1
  <2>2. CASE \E k \in DLines, v \in Vals : /\ dc'.own = [dc.own EXCEPT ![k] = Owned("dirty", v)]
                                           /\ view' = [view EXCEPT ![k] = v]
    <3>1. PICK k \in DLines, v \in Vals : /\ dc'.own = [dc.own EXCEPT ![k] = Owned("dirty", v)]
                                         /\ view' = [view EXCEPT ![k] = v]
      BY <2>2
    <3>2. k # l
      BY <1>2, <3>1 DEF IsDirty, Owned
    <3> QED BY <1>2, <3>1, <3>2
  <2> QED BY <1>4, <2>1, <2>2, ViewSteps
<1> QED BY <1>3, <1>4

(* The memory is written at a line only when a row of the second level or a row
   on its way holds it. *)
LEMMA MemOfLine ==
    ASSUME IInv, L2Step, DStep, IStep, Memory, NEW l \in L1Lines, ~Held(l)', ~Leaving(l)'
    PROVE  mem'[Outer(l)] = HostMem[Outer(l)]
<1>1. Outer(l) \in L2Lines /\ l.set \in Sets /\ Outer(l).tag = l.tag /\ Outer(l).set = l.set
  BY DEF L1Lines, L2Lines, Outer
<1>2. ~(memRsp'.on /\ l2'.mreq.store /\ Outer(l) = l2'.mreq.line)
  <2> SUFFICES ASSUME memRsp'.on, l2'.mreq.store, Outer(l) = l2'.mreq.line PROVE FALSE
    OBVIOUS
  <2>1. CASE l2'.state = "FLUSH_STORE"
    BY <2>1 DEF Leaving
  <2>2. CASE /\ l2'.mreq.line = Victim' /\ Row(l2.idx)' = arr'[l2'.idx] /\ arr'[l2'.idx].valid
    <3>1. l.tag = arr'[l2'.idx].tag /\ l.set = l2'.idx
      BY <1>1, <2>2 DEF Victim
    <3>2. Row(l.set)' = Row(l2.idx)'
      BY <3>1 DEF Row
    <3> QED BY <2>2, <3>1, <3>2 DEF Held
  <2> QED BY <2>1, <2>2, StoreOf
<1> QED BY <1>1, <1>2, MemSteps

(* A hit finds what the line holds. *)
LEMMA HitReads ==
    ASSUME IInv, CheckHit, ~l2.cur.store
    PROVE  CurLine \in L1Lines /\ l2'.rsp.val = Below(CurLine)
<1>1. L2Type /\ Requests /\ RowsHeld
  BY DEF IInv, TypeOK
<1>2. /\ l2.state = "CHECK_VALID_AND_TAG" /\ out.valid /\ out.tag = l2.cur.tag
      /\ l2'.rsp.val = out.data[l2.cur.bank]
  BY HitServes DEF Hit
<1>3. out = arr[l2.idx] /\ l2.idx = l2.cur.set /\ CurLine \in L1Lines
  BY <1>1, <1>2 DEF RowsHeld, Requests, Busy
<1>4. /\ CurLine.tag = l2.cur.tag /\ CurLine.set = l2.idx /\ CurLine.bank = l2.cur.bank
  BY <1>3 DEF CurLine
<1>5. Row(l2.idx) = out
  BY <1>2, <1>3 DEF Row
<1>6. Held(CurLine) /\ ~Stored(CurLine)
  BY <1>2, <1>4, <1>5 DEF Held, Stored
<1> QED BY <1>2, <1>3, <1>4, <1>5, <1>6 DEF Below

(* A flushed row leaves for the memory from where it was read. *)
LEMMA FlushStoreComes ==
    ASSUME IInv, L2Step, l2'.state = "FLUSH_STORE", l2.state # "FLUSH_STORE"
    PROVE  FlushTriage /\ NeedWb
<1>1. l2 \in [state : L2States, idx : Sets, reload : BOOLEAN, mreq : Reqs,
              rsp : [to : SUBSET Clients, val : AnyVal], cur : Curs]
  BY DEF IInv, TypeOK, L2Type
<1>2. l2.state \in Walking
  <2>1. l2.state \in Walking \cup {"IDLE"}
    BY L2Flushes, Cleared DEF Walking
  <2>2. CASE l2.state = "IDLE"
    <3>1. IdleFlush \/ IdleNothing \/ IdleGrant
      BY <2>2 DEF L2Step, Initialize, CheckHit, HitMarks, CheckMiss, DirtyStore,
                  StoreTurnaround, CleanReload, ReloadedInto, Turnaround, FlushWait,
                  FlushTriage, FlushStore
    <3>2. l2'.state # "FLUSH_STORE"
      BY <1>1, <2>2, <3>1, GrantTakes DEF IdleFlush, IdleNothing
    <3> QED BY <3>2
  <2> QED BY <2>1, <2>2
<1>3. FlushWait \/ FlushTriage
  BY <1>2 DEF L2Step, Initialize, IdleFlush, IdleNothing, IdleGrant, CheckHit, HitMarks,
              CheckMiss, DirtyStore, StoreTurnaround, CleanReload, ReloadedInto, Turnaround,
              FlushStore, Walking
<1>4. ~FlushWait
  BY <1>1 DEF FlushWait
<1>5. FlushTriage
  BY <1>3, <1>4
<1>6. Advances => l2'.state # "FLUSH_STORE"
  BY <1>1 DEF Advances
<1> QED BY <1>5, <1>6 DEF FlushTriage

(* What the program and the host leave alone stays below the data cache as it
   is, wherever a step moves it: from the store into its row, from the memory
   into the row and back. *)
LEMMA BelowKept ==
    ASSUME IInv, L2Step, DStep, IStep, Memory, l2.state # "INITIALIZE",
           NEW l \in L1Lines, ~Stored(l)', view'[l] = view[l] \/ core # "HANDLE_MONITOR"
    PROVE  Below(l)' = Below(l)
<1>1. L2Type /\ L2Type' /\ Port /\ Requests /\ RowsHeld /\ RowsHeld' /\ RowsExact /\ Handshake
  BY L2TypeKept, RowsHeldKept DEF IInv, TypeOK
<1>2. /\ l2 \in [state : L2States, idx : Sets, reload : BOOLEAN, mreq : Reqs,
                 rsp : [to : SUBSET Clients, val : AnyVal], cur : Curs]
      /\ arr \in [Sets -> Rows] /\ l2.idx \in Sets
  BY <1>1 DEF L2Type
<1>3. /\ Outer(l) \in L2Lines /\ Outer(l).tag = l.tag /\ Outer(l).set = l.set
      /\ l.set \in Sets /\ l.bank \in Banks
      /\ Outer(l) = [tag |-> l.tag, set |-> l.set]
  BY DEF L1Lines, L2Lines, Outer
<1>4. HostMem[Outer(l)][l.bank] = mem[Outer(l)][l.bank]
  BY HostWrites
<1>5. ~Held(l)' /\ ~Leaving(l)' => mem'[Outer(l)][l.bank] = mem[Outer(l)][l.bank]
  BY <1>4, MemOfLine
<1>6. Below(l)' = IF Held(l)' THEN Row(l.set)'.data[l.bank]
                  ELSE IF Leaving(l)' THEN l2'.mreq.data[l.bank]
                  ELSE mem'[Outer(l)][l.bank]
  BY DEF Below
<1>7. Held(l)' <=> Row(l.set)'.valid /\ Row(l.set)'.tag = l.tag
  BY DEF Held
<1>8. Leaving(l)' <=> l2'.state = "FLUSH_STORE" /\ l2'.mreq.line = Outer(l)
  BY DEF Leaving
<1>9. CASE Stored(l)
  <2>1. l2.cur.store /\ l = CurLine /\ Below(l) = l2.cur.val
    BY <1>9 DEF Stored, Below
  <2>2. l2.state \in Busy
    BY <1>1, <2>1 DEF Requests
  <2>3. CheckHit
    <3>1. ~IdleGrant
      BY <2>2 DEF IdleGrant, Busy
    <3>2. l2'.cur # l2.cur
      BY <1>9 DEF Stored, CurLine
    <3> QED BY <3>1, <3>2, L2Serves
  <2>4. /\ l2.state = "CHECK_VALID_AND_TAG" /\ l2'.state = "WAIT_STORE_IDLE"
        /\ out.valid /\ out.tag = l2.cur.tag
    BY <2>1, <2>3, HitServes DEF Hit
  <2>5. out = arr[l2.idx] /\ l2.idx = l2.cur.set
    BY <1>1, <2>4 DEF RowsHeld, Requests, Busy
  <2>6. l.set = l2.idx /\ l.tag = l2.cur.tag /\ l.bank = l2.cur.bank
    BY <2>1, <2>5 DEF CurLine
  <2>7. Row(l.set)' = arr'[l2.idx]
    BY <2>4, <2>6 DEF Row
  <2>8. arr[l2.idx].data \in Datas
    BY <1>2 DEF Rows
  <2>9. Row(l.set)'.data[l.bank] = l2.cur.val
    BY <1>1, <1>3, <2>1, <2>3, <2>6, <2>7, <2>8, StoredRow DEF Datas
  <2>10. Held(l)'
    BY <1>1, <1>7, <2>1, <2>3, <2>4, <2>5, <2>6, <2>7, StoredRow
  <2> QED BY <1>6, <2>1, <2>9, <2>10
<1>10. CASE ~Stored(l)
  <2>1. Below(l) = IF Held(l) THEN Row(l.set).data[l.bank]
                   ELSE IF Leaving(l) THEN l2.mreq.data[l.bank]
                   ELSE mem[Outer(l)][l.bank]
    BY <1>10 DEF Below
  <2>2. Held(l) <=> Row(l.set).valid /\ Row(l.set).tag = l.tag
    BY DEF Held
  <2>3. Leaving(l) <=> l2.state = "FLUSH_STORE" /\ l2.mreq.line = Outer(l)
    BY DEF Leaving
  <2>4. ~NoRow.valid
    BY DEF NoRow
  <2>5. CASE Row(l.set)' = Row(l.set)
    <3>1. Held(l)' <=> Held(l)
      BY <1>7, <2>2, <2>5
    <3>2. CASE Held(l)
      BY <1>6, <2>1, <2>5, <3>1, <3>2
    <3>3. CASE ~Held(l) /\ Leaving(l)
      <4>1. l2.mreq.on /\ l2.state = "FLUSH_STORE" /\ l2.mreq.store
        BY <1>1, <2>3, <3>3 DEF Port, RowsHeld
      <4>2. CASE memRsp.on
        <5>1. mem[Outer(l)] = l2.mreq.data
          BY <1>1, <2>3, <3>3, <4>1, <4>2 DEF RowsExact
        <5>2. ~l2'.mreq.on
          BY <4>1, <4>2, RequestHeld
        <5>3. ~Leaving(l)'
          BY <1>8, <5>2, PortKept DEF Port
        <5> QED BY <1>5, <1>6, <2>1, <3>1, <3>3, <5>1, <5>3
      <4>3. CASE ~memRsp.on
        <5>1. l2' = l2
          BY <4>1, <4>3, RequestHeld
        <5>2. Leaving(l)'
          BY <1>8, <2>3, <3>3, <5>1
        <5> QED BY <1>6, <2>1, <3>1, <3>3, <5>1, <5>2
      <4> QED BY <4>2, <4>3
    <3>4. CASE ~Held(l) /\ ~Leaving(l)
      <4>1. ~Leaving(l)'
        <5> SUFFICES ASSUME Leaving(l)' PROVE FALSE
          OBVIOUS
        <5>1. CASE l2.state = "FLUSH_STORE"
          <6>1. l2.mreq.on
            BY <1>1, <5>1 DEF Port
          <6>2. ~memRsp.on
            BY <1>8, <6>1, RequestHeld, PortKept DEF Port
          <6> QED BY <1>8, <2>3, <3>4, <5>1, <6>1, <6>2, RequestHeld
        <5>2. CASE l2.state # "FLUSH_STORE"
          <6>1. FlushTriage /\ NeedWb
            BY <1>2, <1>8, <5>2, FlushStoreComes
          <6>2. l2.state = "FLUSH_TRIAGE" /\ l2'.mreq = WriteBack /\ out.valid
            BY <1>2, <6>1 DEF FlushTriage, NeedWb
          <6>3. l.tag = out.tag /\ l.set = l2.idx
            BY <1>3, <1>8, <6>2 DEF WriteBack
          <6>4. Row(l.set) = out
            BY <6>2, <6>3 DEF Row
          <6> QED BY <2>2, <3>4, <6>2, <6>3, <6>4
        <5> QED BY <5>1, <5>2
      <4> QED BY <1>5, <1>6, <2>1, <3>1, <3>4, <4>1
    <3> QED BY <3>2, <3>3, <3>4
  <2>6. CASE CheckHit /\ l2.cur.store /\ l.set = l2.idx
    <3>1. /\ l2.state = "CHECK_VALID_AND_TAG" /\ l2'.state = "WAIT_STORE_IDLE"
          /\ out.valid /\ out.tag = l2.cur.tag
      BY <2>6, HitServes DEF Hit
    <3>2. out = arr[l2.idx] /\ l2.idx = l2.cur.set
      BY <1>1, <3>1 DEF RowsHeld, Requests, Busy
    <3>3. Row(l.set) = arr[l2.idx] /\ Row(l.set)' = arr'[l2.idx]
      BY <2>6, <3>1 DEF Row
    <3>4. ~Leaving(l) /\ ~Leaving(l)' /\ (Held(l)' <=> Held(l))
      BY <1>1, <1>7, <1>8, <2>2, <2>3, <2>6, <3>1, <3>3, StoredRow
    <3>5. CASE Held(l)
      <4>1. l.tag = l2.cur.tag /\ l.set = l2.cur.set
        BY <2>2, <2>6, <3>1, <3>2, <3>3, <3>5
      <4>2. l.bank # l2.cur.bank
        BY <1>10, <2>6, <4>1 DEF Stored, CurLine, L1Lines
      <4>3. arr[l2.idx].data \in Datas
        BY <1>2 DEF Rows
      <4>4. Row(l.set)'.data[l.bank] = Row(l.set).data[l.bank]
        BY <1>1, <1>3, <2>6, <3>3, <4>2, <4>3, StoredRow DEF Datas
      <4> QED BY <1>6, <2>1, <3>4, <3>5, <4>4
    <3>6. CASE ~Held(l)
      BY <1>5, <1>6, <2>1, <3>4, <3>6
    <3> QED BY <3>5, <3>6
  <2>7. CASE CleanReload /\ memRsp.on /\ l.set = l2.idx
    <3>1. l2.state = "CLEAN_RELOAD" /\ l2'.state = "WAIT_CLEAN_RELOAD"
      BY <1>2, <2>7 DEF CleanReload, ReloadedInto
    <3>2. Row(l.set) = arr[l2.idx] /\ Row(l.set)' = arr'[l2.idx]
      BY <2>7, <3>1 DEF Row
    <3>3. Row(l.set)'.valid /\ Row(l.set)'.tag = l2.cur.tag /\ Row(l.set)'.data = memRsp.data
      BY <1>1, <2>7, <3>2, ReloadedRow
    <3>4. ~Leaving(l) /\ ~Leaving(l)' /\ (Held(l)' <=> l2.cur.tag = l.tag)
      BY <1>7, <1>8, <2>3, <3>1, <3>3
    <3>5. /\ l2.mreq = Reload /\ l2.idx = l2.cur.set
          /\ arr[l2.idx].valid => arr[l2.idx].tag # l2.cur.tag
          /\ arr[l2.idx].valid => mem[Victim] = arr[l2.idx].data
      BY <1>1, <3>1 DEF RowsHeld, RowsExact, Requests, Busy
    <3>6. CASE l2.cur.tag = l.tag
      <4>1. ~l2.mreq.store /\ l2.mreq.line = Outer(l)
        BY <2>7, <3>5, <3>6 DEF Reload, Outer
      <4>2. memRsp.data = mem[Outer(l)]
        BY <1>1, <2>7, <4>1 DEF RowsExact
      <4>3. ~Held(l)
        BY <2>2, <3>2, <3>5, <3>6
      <4> QED BY <1>6, <2>1, <3>3, <3>4, <3>6, <4>2, <4>3
    <3>7. CASE l2.cur.tag # l.tag
      <4>1. Held(l) => Victim = Outer(l) /\ arr[l2.idx].valid
        BY <1>3, <2>2, <2>7, <3>2 DEF Victim
      <4>2. Held(l) => Row(l.set).data = mem[Outer(l)]
        BY <3>2, <3>5, <4>1
      <4> QED BY <1>5, <1>6, <2>1, <3>4, <3>7, <4>2
    <3> QED BY <3>6, <3>7
  <2>8. CASE FlushTriage /\ l.set = l2.idx /\ Row(l.set)' = NoRow
    <3>1. l2.state = "FLUSH_TRIAGE" /\ ~Held(l)'
      BY <1>7, <2>4, <2>8 DEF FlushTriage
    <3>2. Row(l.set) = out /\ ~Leaving(l)
      BY <2>3, <2>8, <3>1 DEF Row
    <3>3. CASE NeedWb
      <4>1. l2'.state = "FLUSH_STORE" /\ l2'.mreq = WriteBack /\ out.valid
        BY <1>2, <2>8, <3>3 DEF FlushTriage, NeedWb
      <4>2. Leaving(l)' <=> Held(l)
        BY <1>3, <1>8, <2>2, <2>8, <3>2, <4>1 DEF WriteBack
      <4>3. l2'.mreq.data = out.data
        BY <4>1 DEF WriteBack
      <4> QED BY <1>5, <1>6, <2>1, <3>1, <3>2, <4>2, <4>3
    <3>4. CASE ~NeedWb
      <4>1. ~Leaving(l)'
        BY <1>2, <1>8, <2>8, <3>4 DEF FlushTriage, Advances
      <4>2. Held(l) => mem[LineAt(l.set)] = out.data /\ LineAt(l.set) = Outer(l)
        BY <1>1, <1>3, <2>2, <3>1, <3>2, <3>4 DEF RowsExact, NeedWb, LineAt
      <4> QED BY <1>5, <1>6, <2>1, <3>1, <3>2, <4>1, <4>2
    <3> QED BY <3>3, <3>4
  <2> QED BY <1>3, <2>5, <2>6, <2>7, <2>8, RowsMove
<1> QED BY <1>9, <1>10

(* What the host stores is in the memory, and the second level does not have it. *)
LEMMA HostStored ==
    ASSUME IInv, L2Step, DStep, IStep, Memory, core = "HANDLE_MONITOR",
           NEW l \in L1Lines, view'[l] # view[l]
    PROVE  ~Stored(l)' /\ Below(l)' = view'[l]
<1>1. L2Type /\ MemType /\ Requests /\ Flushed /\ Handshake
  BY DEF IInv, TypeOK
<1>2. l.set \in Sets /\ Outer(l) = [tag |-> l.tag, set |-> l.set]
  BY DEF L1Lines, Outer
<1>3. dc.phase = "idle" /\ Outer(l) \in HostLines
  <2>1. view \in [L1Lines -> AnyVal]
    BY <1>1 DEF MemType
  <2> QED BY <2>1, ViewSteps DEF Running
<1>4. l2.state \notin Walking \cup {"INITIALIZE"} /\ ~Flushing
  BY <1>1 DEF Handshake, Reset, Rests, Asked, FirstLevel, SecondLevel, L2Quiet, Idle, Flushing,
              FlushFires
<1>5. l2'.state \notin Walking
  BY <1>4, L2Flushes
<1>6. Row(l.set) = arr[l.set] /\ Row(l.set)' = arr'[l.set]
  BY <1>4, <1>5 DEF Row, Walking
<1>7. /\ ~l2.cur.store
      /\ l2.state \in Busy => Outer(CurLine) \notin HostLines
      /\ \A s \in Sets : arr[s].valid => LineAt(s) \notin HostLines
  BY <1>1 DEF Flushed
<1>8. ~l2'.cur.store
  <2>1. CASE IdleGrant
    <3>1. "d" \notin Asking
      BY <1>1, <1>3 DEF Asking, Requests, Phase, Clients
    <3> QED BY <2>1, <3>1, GrantTakes
  <2>2. CASE CheckHit
    BY <2>2, HitServes
  <2> QED BY <1>7, <2>1, <2>2, L2Serves
<1>9. ~Held(l)'
  <2>1. CASE Row(l.set)' = Row(l.set)
    <3>1. arr[l.set].valid /\ arr[l.set].tag = l.tag => LineAt(l.set) = Outer(l)
      BY <1>2, <1>6 DEF LineAt
    <3> QED BY <1>2, <1>3, <1>6, <1>7, <2>1, <3>1 DEF Held
  <2>2. CASE CleanReload /\ memRsp.on /\ l.set = l2.idx
    <3>1. l2.state = "CLEAN_RELOAD"
      BY <2>2 DEF CleanReload, ReloadedInto
    <3>2. arr'[l.set].tag = l2.cur.tag /\ l.set = l2.cur.set
      BY <1>1, <2>2, <3>1, ReloadedRow DEF Requests, Busy
    <3>3. l.tag = l2.cur.tag => Outer(CurLine) = Outer(l)
      BY <1>2, <3>2 DEF Outer, CurLine
    <3> QED BY <1>3, <1>6, <1>7, <3>1, <3>2, <3>3 DEF Held, Busy
  <2>3. CASE Row(l.set)' = NoRow
    BY <2>3 DEF Held, NoRow
  <2> QED BY <1>2, <1>4, <1>7, <2>1, <2>2, <2>3, RowsMove
<1>10. ~Leaving(l)'
  BY <1>5 DEF Leaving, Walking
<1>11. mem'[Outer(l)][l.bank] = view'[l]
  BY <1>9, <1>10, MemOfLine, HostWrites
<1>12. ~Stored(l)'
  BY <1>8 DEF Stored
<1> QED BY <1>9, <1>10, <1>11, <1>12 DEF Below

(* Every line reads as what was last stored in it, wherever it is. *)
LEMMA ExactKept ==
    ASSUME IInv, L2Step, DStep, IStep, CoreStep, Control, Memory
    PROVE  Exact'
<1>1. /\ L2Type /\ DType /\ MemType /\ Requests /\ Requests' /\ Flushed /\ Handshake /\ Port
      /\ Port' /\ Exact
  BY RequestsKept, PortKept DEF IInv, TypeOK
<1>2. /\ dc.own \in [DLines -> Owns] /\ view \in [L1Lines -> AnyVal]
      /\ DLines \subseteq L1Lines
  BY <1>1, HierarchyAssumption DEF DType, MemType
<1>3. /\ \A l \in DLines : dc.own[l] # Absent => dc.own[l].val = view[l]
      /\ "d" \in l2.rsp.to /\ ~dc.store => l2.rsp.val = view[dc.line]
  BY <1>1 DEF Exact
<1>4. ASSUME NEW l \in DLines, dc'.own[l] # Absent PROVE dc'.own[l].val = view'[l]
  <2>1. CASE /\ view' = view
             /\ dc.phase = "idle" => dc'.own = dc.own \/ (Dirty = {} /\ dc'.own = Empty)
    <3>1. CASE dc.phase = "idle"
      BY <1>3, <1>4, <2>1, <3>1 DEF Empty
    <3>2. CASE dc.phase # "idle" /\ "d" \in l2.rsp.to
      <4>1. dc'.own = [dc.own EXCEPT ![dc.line] = IF dc.store THEN Absent
                                                  ELSE Owned("clean", l2.rsp.val)]
        BY <3>2, DRequestSteps
      <4>2. CASE l = dc.line
        BY <1>2, <1>3, <1>4, <2>1, <3>2, <4>1, <4>2 DEF Owned
      <4>3. CASE l # dc.line
        BY <1>2, <1>3, <1>4, <2>1, <4>1, <4>3
      <4> QED BY <4>2, <4>3
    <3>3. CASE dc.phase # "idle" /\ "d" \notin l2.rsp.to
      BY <1>3, <1>4, <2>1, <3>3, DRequestSteps
    <3> QED BY <3>1, <3>2, <3>3
  <2>2. CASE \E k \in DLines, v \in Vals : /\ dc'.own = [dc.own EXCEPT ![k] = Owned("dirty", v)]
                                           /\ view' = [view EXCEPT ![k] = v]
    <3>1. PICK k \in DLines, v \in Vals : /\ dc'.own = [dc.own EXCEPT ![k] = Owned("dirty", v)]
                                         /\ view' = [view EXCEPT ![k] = v]
      BY <2>2
    <3>2. CASE l = k
      <4>1. dc'.own[l] = Owned("dirty", v) /\ view'[l] = v
        BY <1>2, <3>1, <3>2
      <4> QED BY <4>1 DEF Owned
    <3>3. CASE l # k
      <4>1. dc'.own[l] = dc.own[l] /\ view'[l] = view[l]
        BY <1>2, <3>1, <3>3
      <4> QED BY <1>3, <1>4, <4>1
    <3> QED BY <3>2, <3>3
  <2>3. CASE core = "HANDLE_MONITOR" /\ dc'.own = dc.own
    BY <1>1, <1>4, <2>3 DEF Flushed, DSettled, Empty
  <2> QED BY <2>1, <2>2, <2>3, ViewSteps
<1>5. ASSUME l2.state = "INITIALIZE"
      PROVE  view' = view /\ \A l \in L1Lines : mem'[Outer(l)][l.bank] = view[l]
  <2>1. core = "FLUSH_FOR_HALT"
    BY <1>1, <1>5 DEF Handshake, Reset, Rests, Asked, FirstLevel, SecondLevel, L2Quiet
  <2>2. view' = view
    BY <2>1, ViewSteps DEF Running
  <2>3. ~memRsp'.on
    BY <1>5, Cleared, MemSteps
  <2>4. ASSUME NEW l \in L1Lines PROVE mem'[Outer(l)][l.bank] = view[l]
    <3>1. Outer(l) \in L2Lines
      BY DEF L1Lines, L2Lines, Outer
    <3>2. mem'[Outer(l)] = mem[Outer(l)]
      BY <2>1, <2>3, <3>1, MemSteps, HostWrites
    <3> QED BY <1>1, <1>5, <3>2 DEF Exact
  <2> QED BY <2>2, <2>4
<1>6. l2'.state = "INITIALIZE" => l2.state = "INITIALIZE"
  BY L2Flushes DEF Walking
<1>7. ASSUME l2'.state # "INITIALIZE", NEW l \in L1Lines, Stored(l)' \/ ~IsDirty(l)'
      PROVE  Below(l)' = view'[l]
  <2>1. CASE l2.state = "INITIALIZE"
    <3>1. l.set \in Sets
      BY DEF L1Lines
    <3>2. Row(l.set)' = NoRow /\ l2'.state = "IDLE" /\ l2'.cur = l2.cur
      BY <1>7, <2>1, <3>1, Cleared DEF Row
    <3>3. ~l2.cur.store
      BY <1>1, <2>1 DEF Requests, Busy
    <3>4. ~Stored(l)' /\ ~Held(l)' /\ ~Leaving(l)'
      BY <3>2, <3>3 DEF Stored, Held, Leaving, NoRow
    <3> QED BY <1>5, <2>1, <3>4 DEF Below
  <2>2. CASE l2.state # "INITIALIZE" /\ Stored(l)'
    <3>1. l2'.cur.store /\ l = CurLine' /\ Below(l)' = l2'.cur.val
      BY <2>2 DEF Stored, Below
    <3>2. CASE IdleGrant
      <4>1. Granted = "d" /\ dc.store /\ l2'.cur.val = dc.own[dc.line].val /\ "d" \in Asking
        BY <3>1, <3>2, GrantTakes
      <4>2. dc.phase # "idle"
        BY <1>1, <4>1 DEF Asking, Requests, Phase, Clients
      <4>3. dc.line \in DLines /\ dc.own[dc.line].state = "dirty"
        BY <1>1, <4>1, <4>2 DEF Requests, IsDirty
      <4>4. dc.own[dc.line].val = view[dc.line]
        BY <1>3, <4>3 DEF Absent
      <4>5. CurLine' = dc.line
        BY <1>2, <3>2, <4>1, <4>3, GrantTakes DEF CurLine, LineOf, L1Lines
      <4>6. view' = view
        BY <4>2, ViewSteps
      <4> QED BY <3>1, <4>1, <4>4, <4>5, <4>6
    <3>3. CASE CheckHit
      BY <3>1, <3>3, HitServes
    <3>4. CASE l2'.cur = l2.cur
      <4>1. Stored(l) /\ l = CurLine /\ Below(l) = l2.cur.val
        BY <3>1, <3>4 DEF Stored, Below, CurLine
      <4>2. Below(l) = view[l]
        BY <1>1, <2>2, <4>1 DEF Exact
      <4>3. view'[l] = view[l]
        BY <3>1, <3>4, <4>1, StoreSettles
      <4> QED BY <3>1, <3>4, <4>1, <4>2, <4>3
    <3> QED BY <3>2, <3>3, <3>4, L2Serves
  <2>3. CASE l2.state # "INITIALIZE" /\ ~Stored(l)'
    <3>1. /\ Stored(l) \/ ~IsDirty(l)
          /\ core # "HANDLE_MONITOR" => view'[l] = view[l]
      BY <1>7, <2>3, CleanLine
    <3>2. CASE view'[l] # view[l]
      BY <3>1, <3>2, HostStored
    <3>3. CASE view'[l] = view[l]
      <4>1. Below(l)' = Below(l)
        BY <2>3, <3>3, BelowKept
      <4> QED BY <1>1, <2>3, <3>1, <3>3, <4>1 DEF Exact
    <3> QED BY <3>2, <3>3
  <2> QED BY <2>1, <2>2, <2>3
<1>8. ASSUME NEW c \in Clients, c \in l2'.rsp.to, ~l2'.cur.store
      PROVE  /\ CheckHit /\ ~l2.cur.store /\ l2.cur.client = c /\ l2.rsp.to = {}
             /\ l2.state # "INITIALIZE" /\ Phase(c) # "idle" /\ CurLine = LineOf(c)
             /\ c = "d" => ~dc.store
  <2>1. CheckHit
    <3>1. ~IdleGrant
      BY <1>8, GrantTakes
    <3> QED BY <1>8, <3>1, L2Serves
  <2>2. l2.state = "CHECK_VALID_AND_TAG" /\ ~l2.cur.store /\ l2.cur.client = c
    BY <1>8, <2>1, HitServes
  <2>3. ServesLoad(c)
    BY <2>2 DEF ServesLoad, Busy
  <2> QED BY <1>1, <2>1, <2>2, <2>3 DEF Requests
<1>9. ASSUME "d" \in l2'.rsp.to, ~dc'.store PROVE l2'.rsp.val = view'[dc'.line]
  <2>1. ~l2'.cur.store
    BY <1>1, <1>9 DEF Requests, Busy
  <2>2. /\ CheckHit /\ ~l2.cur.store /\ l2.rsp.to = {} /\ l2.state # "INITIALIZE"
        /\ dc.phase # "idle" /\ CurLine = dc.line /\ ~dc.store
    BY <1>8, <1>9, <2>1 DEF Clients, Phase, LineOf
  <2>3. dc'.line = dc.line /\ view' = view
    BY <2>2, DRequestSteps, ViewSteps
  <2>4. ~IsDirty(CurLine)
    BY <1>1, <2>2 DEF Requests, IsDirty, Absent
  <2>5. CurLine \in L1Lines /\ l2'.rsp.val = Below(CurLine)
    BY <2>2, HitReads
  <2>6. Below(CurLine) = view[CurLine]
    BY <1>1, <2>2, <2>4, <2>5 DEF Exact
  <2> QED BY <2>2, <2>3, <2>5, <2>6
<1>10. ASSUME "i" \in l2'.rsp.to, ~IsDirty(ic.line)' PROVE l2'.rsp.val = view'[ic'.line]
  <2>1. ~l2'.cur.store
    BY <1>1, <1>10 DEF Requests, Busy
  <2>2. /\ CheckHit /\ ~l2.cur.store /\ l2.rsp.to = {} /\ l2.state # "INITIALIZE"
        /\ ic.phase # "idle" /\ CurLine = ic.line
    BY <1>8, <1>10, <2>1 DEF Clients, Phase, LineOf
  <2>3. ic'.line = ic.line /\ ic.line \in ILines
    BY <1>1, <2>2, IRequestSteps DEF Requests
  <2>4. CurLine \in L1Lines /\ l2'.rsp.val = Below(CurLine)
    BY <2>2, HitReads
  <2>5. PICK k \in L1Lines : k = CurLine
    BY <2>4
  <2>6. ~IsDirty(k)'
    BY <1>10, <2>2, <2>3, <2>5 DEF IsDirty
  <2>7. ~Stored(k) /\ ~IsDirty(k)
    BY <2>2, <2>6, CleanLine DEF Stored
  <2>8. Below(k) = view[k]
    BY <1>1, <2>2, <2>7 DEF Exact
  <2>9. view'[k] = view[k]
    <3>1. CASE core # "HANDLE_MONITOR"
      BY <2>6, <3>1, CleanLine
    <3>2. CASE core = "HANDLE_MONITOR"
      <4>1. Outer(k) \notin HostLines
        BY <2>2, <2>3, <2>5, HierarchyAssumption
      <4> QED BY <1>2, <3>2, <4>1, ViewSteps DEF Running
    <3> QED BY <3>1, <3>2
  <2> QED BY <2>2, <2>3, <2>4, <2>5, <2>8, <2>9
<1> QED BY <1>4, <1>5, <1>6, <1>7, <1>9, <1>10 DEF Exact

-----------------------------------------------------------------------------
(***************************************************************************)
(* The theorems.                                                           *)
(***************************************************************************)
(* Out of reset the caches are being cleared and the memory is as it was loaded. *)
LEMMA InitInvariant == Init => IInv
<1> SUFFICES ASSUME Init PROVE IInv
  OBVIOUS
<1>1. /\ l2 = [state |-> "INITIALIZE", idx |-> 0, reload |-> FALSE, mreq |-> NoReq,
               rsp |-> NoRsp, cur |-> Served("i")]
      /\ arr \in [Sets -> {NoRow, [NoRow EXCEPT !.valid = TRUE, !.dirty = TRUE]}]
      /\ out = NoRow /\ pend = {} /\ flushReq = FALSE
      /\ need = {} /\ fstate = "WAIT_FOR_FLUSH" /\ l2Done = FALSE
      /\ dc = [phase |-> "idle", line |-> SomeLine, store |-> FALSE, own |-> Empty,
               flush |-> FALSE, walks |-> TRUE, done |-> FALSE]
      /\ ic = [phase |-> "idle", line |-> SomeLine, mode |-> "walks", flush |-> FALSE,
               done |-> FALSE]
      /\ core = "FLUSH_FOR_HALT" /\ reqs = {} /\ got = {} /\ ctl = "FLUSH_IDLE"
      /\ mem = Image /\ memRsp = NoMemRsp /\ wait = NoWait /\ lat \in Lats
      /\ view = [l \in L1Lines |-> Image[Outer(l)][l.bank]]
  BY DEF Init
<1>2. /\ 0 \in Sets /\ NoRow \in Rows /\ NoReq \in Reqs /\ SomeLine \in AnyL1Line
      /\ Served("i") \in Curs /\ NoRsp \in [to : SUBSET Clients, val : AnyVal]
      /\ NoMemRsp \in [on : BOOLEAN, data : Datas] /\ Empty \in [DLines -> Owns]
  BY ResetValues
<1>3. ~NoReq.on /\ NoRsp.to = {} /\ ~NoMemRsp.on /\ ~Served("i").store
  BY DEF NoReq, NoRsp, NoMemRsp, Served
<1>4. ASSUME NEW m \in L2Lines, NEW b \in Banks PROVE Image[m][b] \in AnyVal
  <2>1. Image[m] \in [Banks -> Vals]
    BY HierarchyAssumption
  <2> QED BY <2>1 DEF AnyVal
<1>5. Image \in [L2Lines -> Datas]
  <2>1. ASSUME NEW m \in L2Lines PROVE Image[m] \in Datas
    <3>1. Image[m] \in [Banks -> Vals]
      BY HierarchyAssumption
    <3> QED BY <3>1 DEF Datas, AnyVal
  <2> QED BY <2>1, HierarchyAssumption
<1>6. ASSUME NEW l \in L1Lines
      PROVE  Outer(l) \in L2Lines /\ l.bank \in Banks
  BY DEF L1Lines, L2Lines, Outer
<1>7. TypeOK
  <2>1. [NoRow EXCEPT !.valid = TRUE, !.dirty = TRUE] \in Rows
    BY <1>2 DEF Rows
  <2>2. arr \in [Sets -> Rows]
    BY <1>1, <1>2, <2>1
  <2>3. L2Type
    BY <1>1, <1>2, <2>2 DEF L2Type, L2States
  <2>4. DType /\ IType /\ CoreType
    BY <1>1, <1>2 DEF DType, IType, CoreType
  <2>5. MemType
    BY <1>1, <1>2, <1>4, <1>5, <1>6 DEF MemType
  <2> QED BY <2>3, <2>4, <2>5 DEF TypeOK
<1>8. Port
  BY <1>1, <1>3 DEF Port
<1>9. Handshake
  BY <1>1 DEF Handshake, Reset, Idle, DProgress, IProgress, DQuiet
<1>10. Requests
  BY <1>1, <1>3 DEF Requests, ServesLoad, Busy, Phase
<1>11. RowsHeld /\ RowsExact
  BY <1>1, <1>3 DEF RowsHeld, RowsExact
<1>12. Flushed
  <2>1. \A l \in DLines : ~IsDirty(l)
    BY <1>1 DEF IsDirty, Empty, Absent
  <2>2. \A s \in Sets : s \notin 1 .. 0
    BY HierarchyAssumption DEF Sets
  <2> QED BY <1>1, <2>1, <2>2 DEF Flushed, DSettled, Walking
<1>13. Exact
  BY <1>1, <1>3, <1>6 DEF Exact, Empty
<1> QED BY <1>7, <1>8, <1>9, <1>10, <1>11, <1>12, <1>13 DEF IInv

(* A step keeps all of it. *)
LEMMA InvariantStep == IInv /\ [Next]_vars => IInv'
<1> SUFFICES ASSUME IInv, [Next]_vars PROVE IInv'
  OBVIOUS
<1>1. CASE Next
  <2>1. L2Step /\ DStep /\ IStep /\ CoreStep /\ Control /\ Memory
    BY <1>1 DEF Next
  <2>2. TypeOK'
    BY <2>1, L2TypeKept, DTypeKept, ITypeKept, CoreTypeKept, MemSteps DEF TypeOK
  <2>3. Port' /\ Handshake' /\ Requests'
    BY <2>1, PortKept, HandshakeKept, RequestsKept
  <2>4. RowsHeld' /\ RowsExact' /\ Flushed' /\ Exact'
    BY <2>1, RowsHeldKept, RowsExactKept, FlushedKept, ExactKept
  <2> QED BY <2>2, <2>3, <2>4 DEF IInv
<1>2. CASE UNCHANGED vars
  <2>1. /\ l2' = l2 /\ arr' = arr /\ out' = out /\ pend' = pend /\ flushReq' = flushReq
        /\ need' = need /\ fstate' = fstate /\ l2Done' = l2Done /\ dc' = dc /\ ic' = ic
        /\ core' = core /\ reqs' = reqs /\ got' = got /\ ctl' = ctl /\ mem' = mem
        /\ memRsp' = memRsp /\ wait' = wait /\ lat' = lat /\ view' = view
    BY <1>2 DEF vars, l2Vars
  <2>2. TypeOK'
    BY <2>1 DEF IInv, TypeOK, L2Type, DType, IType, CoreType, MemType
  <2>3. Port'
    BY <2>1 DEF IInv, Port, Hit
  <2>4. Handshake'
    BY <2>1 DEF IInv, Handshake, Reset, Rests, Asked, FirstLevel, SecondLevel, Idle, L2Quiet,
                DQuiet, IQuiet, DProgress, IProgress, IAway, Who, CtlOf
  <2>5. Requests'
    BY <2>1 DEF IInv, Requests, ServesLoad, CurLine, Phase, LineOf, IsDirty
  <2>6. RowsHeld' /\ RowsExact'
    BY <2>1 DEF IInv, RowsHeld, RowsExact, Row, LineAt, Victim, Reload
  <2>7. Flushed'
    BY <2>1 DEF IInv, Flushed, DSettled, IsDirty, CurLine, LineAt, Row
  <2>8. Exact'
    BY <2>1 DEF IInv, Exact, Stored, IsDirty, Below, Held, Leaving, Row, CurLine
  <2> QED BY <2>2, <2>3, <2>4, <2>5, <2>6, <2>7, <2>8 DEF IInv
<1> QED BY <1>1, <1>2

(* The invariant of the hierarchy: it holds in every state that the caches, the
   flush control and the memory can reach. *)
THEOREM Invariant == Spec => []IInv
<1> QED BY InitInvariant, InvariantStep, PTL DEF Spec

(* The $stop of l2.sv:576 and the assertion of top.cc:955 are never reached: a
   line that was fetched is found, and a request is held until it is answered. *)
THEOREM NeverStops == Spec => []NothingStops
<1>1. IInv => NothingStops
  BY DEF IInv, Port, NothingStops
<1> QED BY <1>1, Invariant, PTL

(* What a line holds and what is fetched is what was last stored there: l2.sv
   mixes up neither the banks, nor a victim with the line in its place, nor the
   requests of the two caches. *)
THEOREM ReadsLastStore == Spec => []LinesExact
<1>1. IInv => LinesExact
  BY DEF IInv, Exact, LinesExact, IsDirty
<1> QED BY <1>1, Invariant, PTL

(* When core.sv hands over to the host, or halts, the flushes of both levels have
   ended in their order and the memory holds all that was stored. *)
THEOREM FlushesEverything == Spec => []HostSeesAll
<1>1. IInv => HostSeesAll
  <2> SUFFICES ASSUME IInv, core \in {"HANDLE_MONITOR", "HALT"}
               PROVE  /\ ctl = "FLUSH_IDLE"
                      /\ \A l \in L1Lines : mem[Outer(l)][l.bank] = view[l]
    BY DEF HostSeesAll
  <2>1. Rests
    BY DEF IInv, Handshake, Reset, Asked, FirstLevel, SecondLevel
  <2>2. ctl = "FLUSH_IDLE" /\ l2.state \notin Walking \cup {"INITIALIZE"}
    BY <2>1 DEF Rests, Idle, L2Quiet
  <2>3. ASSUME NEW l \in L1Lines PROVE mem[Outer(l)][l.bank] = view[l]
    <3>1. l.set \in Sets /\ Outer(l) = [tag |-> l.tag, set |-> l.set]
      BY DEF L1Lines, Outer
    <3>2. ~IsDirty(l)
      BY DEF IInv, Flushed, DSettled, IsDirty
    <3>3. Below(l) = view[l]
      BY <2>2, <3>2 DEF IInv, Exact
    <3>4. ~Stored(l) /\ ~Leaving(l)
      BY <2>2 DEF IInv, Flushed, Stored, Leaving, Walking
    <3>5. Row(l.set) = arr[l.set] /\ ~arr[l.set].dirty
      BY <2>2, <3>1 DEF IInv, Flushed, Row, Walking
    <3>6. Held(l) => mem[Outer(l)] = Row(l.set).data
      BY <2>2, <3>1, <3>5 DEF IInv, RowsExact, Held, LineAt
    <3> QED BY <3>3, <3>4, <3>6 DEF Below
  <2> QED BY <2>2, <2>3
<1> QED BY <1>1, Invariant, PTL
=============================================================================
