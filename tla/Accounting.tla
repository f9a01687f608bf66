------------------------------- MODULE Accounting ------------------------------
(***************************************************************************)
(* What the test bench counts of the core: the counters that its loop      *)
(* keeps from the outputs of a cycle, and the histograms that core.sv and  *)
(* l1i.sv fill through record_alloc, record_fetch, record_retirement,      *)
(* record_faults, record_restart and record_ds_restart in the same cycle;  *)
(* and the log of retired instructions (PipelineLog).                      *)
(*                                                                         *)
(* One step is a turn of the loop.  The outputs of the core are those of   *)
(* the cycle before, the calls are about the present one.  The core is cut *)
(* down to an instruction queue, a reorder buffer and the recovery from a  *)
(* mispredicted branch (DRAIN, RAT); Core has the rest of it.              *)
(*                                                                         *)
(* The program is one that the loader starts.  After the restore of a      *)
(* checkpoint the histograms begin with what the restore loop's cycles     *)
(* called, which the counters of the main loop have not seen, and the      *)
(* balances below do not hold between the two.                             *)
(***************************************************************************)
EXTENDS PipelineLog, BagsExt

CONSTANTS
    MaxCycles,     \* max_cycle
    MaxInsns,      \* bound: instructions fetched
    Pushes,        \* how many instructions the fetch unit may push in a cycle
    RobSize,
    Starts, Ends   \* pipestart, pipeend

ASSUME AccountingAssumption ==
    /\ MaxCycles \in Nat /\ MaxInsns \in Nat /\ RobSize \in Nat \ {0}
    /\ Pushes \subseteq 0 .. 4 /\ Starts \subseteq Nat /\ Ends \subseteq Nat

VARIABLES
    cycle,
    queue,      \* the cycles in which what is queued was fetched
    rob,        \* the instructions in flight
    phase,      \* r_state of the core: ACTIVE, DRAIN or RAT
    recovery,   \* r_restart_cycles
    outputs,    \* alloc_valid(_two), retire_valid(_two), iq_one_valid, iq_none_valid
    n,          \* the counters of the loop
    hist,       \* the histograms
    lastRetire, \* last_retire_cycle
    pending,    \* pending_fault, fault_start_cycle
    retired,    \* record_insns_retired
    log,        \* the records of pl
    window,     \* pipestart, pipeend
    file,       \* the archive, written when pl is deleted
    lost        \* ghost: what recoveries threw away of the queue and of the buffer, and
                \* how long all that has completed had waited for it

vars == <<cycle, queue, rob, phase, recovery, outputs, n, hist, lastRetire,
          pending, retired, log, window, file, lost>>

NotYet == -1
Fetched == {"fetch", "alloc", "uq", "rdy"}
Histograms == Fetched \cup {"retire", "mispred", "restart", "ds", "fault", "toRestart", "inflight"}
Lesser(a, b) == IF a < b THEN a ELSE b

Bump(h, k) == BagAdd(h, k)
Total(h) == BagCardinality(h)
Weighted(h) == MapThenSumSet(LAMBDA k : k * h[k], DOMAIN h)
UpTo(h, k) == MapThenSumSet(LAMBDA j : h[j], {j \in DOMAIN h : j <= k})
-----------------------------------------------------------------------------
(***************************************************************************)
(* The calls.  Each takes the histograms and gives them back.              *)
(***************************************************************************)
\* Which of a row of conditions holds first: the pairs are tested from two down.
AllocBucket_OneFirst(a) == IF a >= 1 THEN 1 ELSE 0
AllocBucket(a) == IF a = 2 THEN 2 ELSE IF a = 1 THEN 1 ELSE 0

\* a allocated, f whether the first and the second uop find the queues full, q
\* in the decode queue.
RecordAlloc(h, a, f, q) ==
    [h EXCEPT !.alloc = Bump(@, AllocBucket(a)), !.uq = Bump(@, f),
              !.rdy = Bump(@, Lesser(q, 2))]

RecordFetch(h, p) == [h EXCEPT !.fetch = Bump(@, p)]

\* The instructions of one cycle retire one after the other; the second has no
\* distance from the first.
RecordRetirement(h, insn, last, now) ==
    [h EXCEPT !.retire = Bump(@, now - last),
              !.mispred = IF insn.faulted THEN Bump(@, insn.complete - insn.alloc) ELSE @]
RecordRetirements(h, insns, last, now) ==
    IF insns = <<>> THEN h
    ELSE LET first == RecordRetirement(h, insns[1], last, now)
         IN  IF Len(insns) = 1 THEN first ELSE RecordRetirement(first, insns[2], now, now)

Logged(k) == window.start <= k /\ k < window.end
\* The number of an instruction counts every retired one, logged or not.
LoggedAfter(insns, now) ==
    FoldLeftDomain(LAMBDA l, k : IF Logged(retired + k - 1)
                                 THEN Appended(l, Entry(retired + k - 1, insns[k], now)) ELSE l,
                   log, insns)

RecordFaults(st, f) ==
    [hist |-> [st.hist EXCEPT !.fault = Bump(@, f)],
     pending |-> IF f > 0 /\ ~st.pending.on THEN [on |-> TRUE, start |-> cycle] ELSE st.pending]
RecordRestart(st, c) ==
    [hist |-> [st.hist EXCEPT !.restart = Bump(@, c),
                              !.toRestart = Bump(@, cycle - st.pending.start)],
     pending |-> [on |-> FALSE, start |-> 0]]
RecordDsRestart(h, c) == [h EXCEPT !.ds = Bump(@, c)]
-----------------------------------------------------------------------------
(***************************************************************************)
(* The loop: what it counts of the outputs of the cycle before, and of the *)
(* state of the core in this one.                                          *)
(***************************************************************************)
Done(insn) == insn.complete # NotYet
\* inflight, which the report calls the instructions in the buffer: those that
\* are not complete.
Inflight == Cardinality({k \in DOMAIN rob : ~Done(rob[k])})

Counted ==
    [n EXCEPT !.allocated = @ + outputs.alloc, !.retired = @ + outputs.retire,
              !.stalls = @ + (2 - Lesser(outputs.queued, 2)),
              !.faulted = @ + (IF phase # "ACTIVE" THEN 1 ELSE 0)]
-----------------------------------------------------------------------------
(***************************************************************************)
(* The core.                                                               *)
(***************************************************************************)
Ready(k) == Len(rob) >= k /\ Done(rob[k]) /\ rob[k].complete < cycle
\* A folded instruction, a jump that writes no register, is complete at once.
InFlight(f, folded) ==
    [fetch |-> f, alloc |-> cycle, complete |-> IF folded THEN cycle ELSE NotYet, faulted |-> FALSE]

\* Two retire only if neither has mispredicted; a branch may keep the second back.
Retirees ==
    CASE phase # "ACTIVE" \/ ~Ready(1) -> {0}
      [] Ready(2) /\ ~rob[1].faulted /\ ~rob[2].faulted -> {1, 2}
      [] OTHER -> {1}
Mispredicted == phase = "ACTIVE" /\ Ready(1) /\ rob[1].faulted

Completions(k) ==
    {rob} \cup (IF k = 0 \/ Done(rob[k]) THEN {}
                ELSE {[rob EXCEPT ![k].complete = cycle, ![k].faulted = b] : b \in BOOLEAN})

\* What could be allocated and is not finds the queues of the schedulers full.
Allocatable ==
    IF phase = "ACTIVE" /\ ~Mispredicted THEN Min({2, Len(queue), RobSize - Len(rob)}) ELSE 0

Drained == \A k \in DOMAIN rob : Done(rob[k])
Faults == Cardinality({k \in DOMAIN rob : Done(rob[k]) /\ rob[k].faulted /\ rob[k].complete < cycle})
Restarts == phase = "RAT" /\ phase' = "ACTIVE"

PhaseStep ==
    phase' \in CASE Mispredicted -> {"DRAIN"}
                 [] phase = "DRAIN" /\ Drained -> {"RAT"}
                 [] phase = "RAT" -> {"RAT", "ACTIVE"}
                 [] OTHER -> {phase}

\* a allocated, r retired, p pushed by the fetch unit, k the completing slot.
CoreStep(a, r, p, k) ==
    /\ PhaseStep
    /\ recovery' = IF Mispredicted THEN 1 ELSE recovery + 1
    /\ IF phase = "RAT"
       THEN rob' = <<>> /\ queue' = <<>>
       ELSE /\ queue' = SubSeq(queue, a + 1, Len(queue)) \o [j \in 1 .. p |-> cycle]
            /\ \E done \in Completions(k), folded \in SUBSET (1 .. a) :
                  rob' = SubSeq(done, r + 1, Len(done))
                           \o [j \in 1 .. a |-> InFlight(queue[j], j \in folded)]
    /\ lost' = IF phase = "RAT"
               THEN [lost EXCEPT !.queue = @ + Len(queue), !.rob = @ + Len(rob)]
               ELSE [lost EXCEPT !.waited = @ + IF k = 0 \/ Done(rob[k]) \/ rob'[k - r].complete # cycle
                                                THEN 0 ELSE cycle - rob[k].alloc]
    /\ outputs' = [alloc |-> a, retire |-> r, queued |-> Len(queue)]

\* record_restart and record_faults are called by different blocks of the core,
\* in an order that the language leaves open.
Recorded(h) ==
    LET st == [hist |-> h, pending |-> pending] IN
    IF Restarts
    THEN {RecordFaults(RecordRestart(st, recovery), Faults),
          RecordRestart(RecordFaults(st, Faults), recovery)}
    ELSE {RecordFaults(st, Faults)}

FetchedSoFar == Weighted(hist.fetch)

Cycle ==
    /\ ~file.written /\ cycle < MaxCycles
    /\ \E r \in Retirees, p \in Pushes, a \in 0 .. Allocatable, k \in 0 .. Len(rob) :
          /\ phase # "ACTIVE" => p = 0
          /\ FetchedSoFar + p <= MaxInsns
          /\ CoreStep(a, r, p, k)
          /\ n' = Counted
          /\ LET insns == SubSeq(rob, 1, r)
                 h1 == RecordFetch(RecordAlloc([hist EXCEPT !.inflight = Bump(@, Inflight)], a, Allocatable - a, Len(queue)), p)
                 h2 == RecordRetirements(h1, insns, lastRetire, cycle)
                 h3 == IF phase = "DRAIN" /\ phase' = "RAT" THEN RecordDsRestart(h2, recovery) ELSE h2
             IN  /\ \E st \in Recorded(h3) : hist' = st.hist /\ pending' = st.pending
                 /\ log' = LoggedAfter(insns, cycle)
                 /\ lastRetire' = IF r > 0 THEN cycle ELSE lastRetire
                 /\ retired' = retired + r
    /\ cycle' = cycle + 1
    /\ UNCHANGED <<window, file>>

\* The run ends at any time: at a break, at a limit.  The log is written then.
Finish ==
    /\ ~file.written
    /\ file' = [written |-> TRUE, records |-> log]
    /\ UNCHANGED <<cycle, queue, rob, phase, recovery, outputs, n, hist, lastRetire,
                   pending, retired, log, window, lost>>

Init ==
    /\ cycle = 1 /\ queue = <<>> /\ rob = <<>> /\ phase = "ACTIVE" /\ recovery = 0
    /\ outputs = [alloc |-> 0, retire |-> 0, queued |-> 2]
    /\ n = [allocated |-> 0, retired |-> 0, stalls |-> 0, faulted |-> 0]
    /\ hist = [h \in Histograms |-> EmptyBag]
    /\ lastRetire = 0 /\ pending = [on |-> FALSE, start |-> 0] /\ retired = 0
    /\ log = <<>> /\ window \in [start : Starts, end : Ends] /\ file = [written |-> FALSE, records |-> <<>>]
    /\ lost = [queue |-> 0, rob |-> 0, waited |-> 0]

Next == Cycle \/ Finish
Spec == Init /\ [][Next]_vars
-----------------------------------------------------------------------------
(***************************************************************************)
(* The report.                                                             *)
(***************************************************************************)
\* badSpecSlots, an unsigned number in the code
BadSpecSlots == n.allocated - n.retired + 2 * n.faulted
TopDown == [total |-> 2 * cycle, retired |-> n.retired, badSpec |-> BadSpecSlots, fetch |-> n.stalls]

\* The median counts half of the samples, rounded down.
Median(h) ==
    IF DOMAIN h = {} THEN 0
    ELSE Min({k \in DOMAIN h : UpTo(h, k) >= Total(h) \div 2})
Mean(h) == [sum |-> Weighted(h), times |-> Total(h)]
\* What is written of the lengths of recoveries, and of those of the drains.
Flushes(h) ==
    IF DOMAIN h = {} THEN <<>>
    ELSE <<[median |-> Median(h), mean |-> Mean(h), min |-> Min(DOMAIN h), max |-> Max(DOMAIN h)]>>

\* The averages are kept as their two parts.
Report ==
    [topDown |-> TopDown, inflight |-> Mean(hist.inflight), fetch |-> Mean(hist.fetch),
     alloc |-> Weighted(hist.alloc), recoveries |-> Flushes(hist.restart),
     drains |-> Flushes(hist.ds), retire |-> Mean(hist.retire),
     mispredicted |-> [mean |-> Mean(hist.mispred), median |-> Median(hist.mispred)]]
-----------------------------------------------------------------------------
\* What was fetched is queued, was thrown away or was allocated, and what was
\* allocated is in flight, was thrown away or has retired.  The loop, which sees
\* the outputs a cycle late, and the calls, which do not, count the same; the
\* slots of wrong speculation in the report are those of this account.
NothingLost ==
    /\ Weighted(hist.fetch) = Weighted(hist.alloc) + Len(queue) + lost.queue
    /\ Weighted(hist.alloc) = retired + Len(rob) + lost.rob
    /\ n.allocated + outputs.alloc = Weighted(hist.alloc)
    /\ n.retired + outputs.retire = retired /\ Total(hist.retire) = retired
    /\ BadSpecSlots - 2 * n.faulted = Len(rob) + lost.rob - outputs.alloc + outputs.retire
    /\ BadSpecSlots >= 0

\* Every cycle is in one bucket, the distances of retirements reach the last of
\* them, and the lengths of the recoveries are the cycles in which the loop has
\* seen the core recover.
TimeAddsUp ==
    /\ \A h \in Fetched \cup {"fault"} : Total(hist[h]) = cycle - 1
    /\ Weighted(hist.retire) = lastRetire
    /\ phase = "ACTIVE" => Weighted(hist.restart) = n.faulted
    /\ Total(hist.ds) = Total(hist.restart) + (IF phase = "RAT" THEN 1 ELSE 0)

\* What the report makes of it: the instructions in flight, added up over the
\* cycles, are the cycles that instructions were in flight; slots that retire and
\* slots lost to speculation do not overlap; a drain is a part of its recovery.
ReportAddsUp ==
    LET report == Report
        waiting == MapThenSumSet(LAMBDA k : IF Done(rob[k]) THEN 0 ELSE cycle - 1 - rob[k].alloc,
                                 DOMAIN rob)
    IN  /\ report.inflight.sum = lost.waited + waiting
        /\ report.topDown.retired + report.topDown.badSpec <= report.topDown.total
        /\ report.alloc <= report.fetch.sum /\ report.retire.times <= report.alloc
        /\ phase = "ACTIVE" => Len(report.drains) = Len(report.recoveries)
        /\ phase = "ACTIVE" /\ report.drains # <<>> =>
             LET drain == report.drains[1]
                 whole == report.recoveries[1]
             IN  /\ drain.mean.times = whole.mean.times /\ drain.mean.sum < whole.mean.sum
                 /\ drain.median < whole.median /\ drain.max < whole.max
                 /\ whole.mean.times <= report.mispredicted.mean.times

\* The statistics, which nothing checks when the simulation runs, balance.
CountsBalance == NothingLost /\ TimeAddsUp /\ ReportAddsUp

\* The archive holds the retirements numbered pipestart to pipeend - 1.  Of any
\* part of it the table of the page tells each instruction's fetch, completion and
\* retirement in their cycles; the file for the viewer has lines of it in the
\* cycles of its events, without telling the events after the fetch apart.
LogDated ==
    file.written =>
        /\ Len(file.records) = Max({0, Lesser(retired, window.end) - window.start})
        /\ \A k \in DOMAIN file.records : file.records[k].uuid = window.start + k - 1
        /\ \A start \in 0 .. 2, len \in 0 .. 2 :
              LET w == Shown(file.records, start, len) IN
              /\ Len(w) <= len + 1
              /\ w # <<>> => Dates(w, Kanata(w))
              /\ \A k \in DOMAIN w : Tells(Table(w)[k], w[k])
================================================================================
