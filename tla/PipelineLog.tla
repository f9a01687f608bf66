------------------------------ MODULE PipelineLog ------------------------------
(***************************************************************************)
(* The log of retired instructions (pipeline_record.hh), and the two views *)
(* of it that gen_html.cc writes: the file for the Kanata viewer and the   *)
(* table of the trace page.  A line of the Kanata file is a pair of its    *)
(* kind and its number; what an instruction is called is left out.         *)
(***************************************************************************)
EXTENDS Integers, Sequences, SequencesExt, FiniteSetsExt

\* pipeline_record
Entry(uuid, insn, retire) ==
    [uuid |-> uuid, fetch |-> insn.fetch, alloc |-> insn.alloc,
     complete |-> insn.complete, retire |-> retire, faulted |-> insn.faulted]

\* pipeline_logger::append.  What the archive keeps of the list is the list.
Appended(log, e) == Append(log, e)

\* Both views count the records from one and stop behind start + len: len + 1
\* records, or len if start is zero.
Shown(log, start, len) ==
    SubSeq(log, Max({start, 1}), Min({start + len, Len(log)}))
-----------------------------------------------------------------------------
(***************************************************************************)
(* generate_kanata: what happened in each cycle, cycle after cycle.        *)
(***************************************************************************)
Events(w, k) ==
    << [t |-> "FETCH", id |-> k - 1, at |-> w[k].fetch],
       [t |-> "ALLOC", id |-> k - 1, at |-> w[k].alloc],
       [t |-> "COMPLETE", id |-> k - 1, at |-> w[k].complete],
       [t |-> "RETIRE", id |-> k - 1, at |-> w[k].retire] >>
CycleMap(w, c) ==
    FlattenSeq([k \in DOMAIN w |-> SelectSeq(Events(w, k), LAMBDA e : e.at = c)])
Times(w) == UNION {{w[k].fetch, w[k].alloc, w[k].complete, w[k].retire} : k \in DOMAIN w}
\* The cycles with an event in ascending order, as the map keeps them.
Cycles(w) ==
    [i \in 1 .. Cardinality(Times(w)) |->
       CHOOSE c \in Times(w) : Cardinality({d \in Times(w) : d < c}) = i - 1]
FirstCycle(w) == Min({w[k].fetch : k \in DOMAIN w})

\* The number of a stage line has a zero appended, where a tab is missing; all
\* events but the fetch are written as the end of the instruction.
EventLines(e) ==
    IF e.t = "FETCH" THEN << <<"I", e.id>>, <<"L", e.id>>, <<"S", 10 * e.id>> >>
    ELSE << <<"R", e.id>> >>

CycleLine_SinceFirst(w, i) ==
    IF i = 1 THEN <<"C=", FirstCycle(w)>> ELSE <<"C", Cycles(w)[i] - FirstCycle(w)>>
\* The first cycle is given as it is, every other as the distance from the last.
CycleLine(w, i) ==
    IF i = 1 THEN <<"C=", FirstCycle(w)>> ELSE <<"C", Cycles(w)[i] - Cycles(w)[i - 1]>>

Kanata(w) ==
    FlattenSeq([i \in DOMAIN Cycles(w) |->
        LET es == CycleMap(w, Cycles(w)[i]) IN
        <<CycleLine(w, i)>> \o FlattenSeq([j \in DOMAIN es |-> EventLines(es[j])])])

(***************************************************************************)
(* The table of the page: an event is found under its cycle, so that of    *)
(* two in one cycle the later one stays.                                   *)
(***************************************************************************)
Row(e) ==
    [uuid |-> e.uuid,
     events |-> [c \in {e.fetch, e.alloc, e.complete, e.retire} |->
                   CASE c = e.retire -> "R" [] c = e.complete -> "C"
                     [] c = e.alloc -> "A" [] OTHER -> "F"]]
Table(w) == [k \in DOMAIN w |-> Row(w[k])]
-----------------------------------------------------------------------------
(***************************************************************************)
(* What the two views tell.  The page tells every event apart.  The file   *)
(* tells only when something happened to an instruction: of its events     *)
(* alone the fetch has lines of its own, and the stage of the fetch goes   *)
(* under the number of another instruction, or of none.                    *)
(***************************************************************************)
IsCycle(line) == line[1] \in {"C=", "C"}
CycleAt(file, j) ==
    FoldLeft(LAMBDA sum, line : IF IsCycle(line) THEN sum + line[2] ELSE sum,
             0, SubSeq(file, 1, j))
LinesAt(file, line, c) == {j \in DOMAIN file : file[j] = line /\ CycleAt(file, j) = c}

\* The file starts every instruction of w in the cycle of its fetch, once and
\* before its other lines, and in each cycle has as many lines of its end as
\* there were later events of it, whichever they were.
Dates(w, file) ==
    /\ \A k \in DOMAIN w : \E j \in LinesAt(file, <<"I", k - 1>>, w[k].fetch) :
          \A x \in DOMAIN file :
             file[x] \in {<<"I", k - 1>>, <<"L", k - 1>>, <<"R", k - 1>>} =>
                x = j \/ (x > j /\ file[x][1] # "I")
    /\ \A k \in DOMAIN w, c \in Times(w) :
          Cardinality(LinesAt(file, <<"R", k - 1>>, c)) =
             Cardinality({f \in {"alloc", "complete", "retire"} : w[k][f] = c})

\* A row names the instruction, and no other event hides when it was fetched, when
\* it was complete and when it retired.  A folded one is complete when allocated.
Tells(row, e) ==
    /\ row.uuid = e.uuid
    /\ row.events[e.fetch] = "F" /\ row.events[e.complete] = "C" /\ row.events[e.retire] = "R"
================================================================================
