----------------------------- MODULE ReplayPlan -----------------------------
(***************************************************************************)
(* How replay.c turns a block trace into one plan per worker thread:       *)
(* getopt, parse_trace_info, build_trace_containers and                    *)
(* assign_params_per_worker, all run by the main thread before it creates  *)
(* the workers (module Replay).                                            *)
(*                                                                         *)
(* Data.  A record is [ts, lba, rw]; its md5 is the record's own index, so *)
(* no two records carry equal data.  A trace_container is the sequence of  *)
(* the indices of its records.  Positions inside a container start at 1    *)
(* where the code's start at 0.  The hashmap is the insertion-ordered map  *)
(* that module Hashmap implements: "order" is its linked list of keys.     *)
(***************************************************************************)
EXTENDS Integers, Sequences, SequencesExt

CONSTANTS
    LBAs,               \* the sector numbers a trace may name
    Timestamps,
    MaxLines,           \* bound: valid lines of a trace
    ModeOptions,        \* the arguments of -o
    ThreadOptions,      \* the arguments of -t
    ContinuousOptions,  \* the arguments of -c
    MAX_THREADS,
    SortLbas(_)         \* what hashmap_sort makes of a list of keys

Modes == {"w", "rw", "a"}
Formats == {"fiu", "hitsz"}
trace_info == [ts : Timestamps, lba : LBAs, rw : {"R", "W"}]
trace_replay_hint == [continuous_blks : Nat, start_trace_line : Nat,
                      rw : {"R", "W"}]
SECTORS_PER_BLK == 8

\* The lists of at most MaxLines keys.
KeyLists == UNION {[1..n -> LBAs] : n \in 0..MaxLines}

IsPermutationOf(t, s) ==
    \E p \in Bijection(DOMAIN s, DOMAIN s) : t = [k \in DOMAIN s |-> s[p[k]]]

ASSUME ConstantsAssumption ==
    /\ LBAs \subseteq Nat
    /\ Timestamps \subseteq Nat
    /\ MaxLines \in Nat
    /\ ModeOptions \subseteq Modes
    /\ ThreadOptions \subseteq Nat
    /\ ContinuousOptions \subseteq Nat
    /\ MAX_THREADS \in Nat \ {0}

\* hashmap_sort only rearranges the list, which names a key once.  (It need not
\* sort: see HashmapSort.)
ASSUME SortAssumption ==
    \A s \in KeyLists : IsInjective(s) => IsPermutationOf(SortLbas(s), s)

VARIABLES
    phase,
    mode, trace_format_type, threads, max_continuous_4K_blks,
    infos,                          \* the valid lines, in file order
    i,                              \* records already in a container
    order, containers,              \* the hashmap
    b, cur_thread, cur_thread_lines,
    tc,                             \* params[w].tc
    worker,                         \* whose plan is being made
    j, consecutive_start,
    hints, hints_start, hints_end,  \* worker w has hints_start+1..hints_end
    buf                             \* blocks allocated for params[w].buf

optVars == <<mode, trace_format_type, threads, max_continuous_4K_blks>>
mapVars == <<order, containers>>
assignVars == <<b, cur_thread, cur_thread_lines>>
hintVars == <<worker, j, consecutive_start, hints, hints_start, hints_end, buf>>
planVars == <<phase, optVars, infos, i, mapVars, assignVars, tc, hintVars>>

valid_lines == Len(infos)
per_thread_lines == valid_lines \div threads
Workers == 0..threads - 1

Init ==
    /\ phase = "options"
    /\ mode = "w" /\ trace_format_type = "fiu" /\ threads = 1
    /\ max_continuous_4K_blks = 1
    /\ infos = <<>> /\ i = 0
    /\ order = <<>> /\ containers = [l \in LBAs |-> <<>>]
    /\ b = 1 /\ cur_thread = 0 /\ cur_thread_lines = 0
    /\ tc = <<>>
    /\ worker = 0 /\ j = 2 /\ consecutive_start = 1
    /\ hints = <<>> /\ hints_start = <<>> /\ hints_end = <<>> /\ buf = <<>>

-----------------------------------------------------------------------------
(* main: the options *)

\* One option of the command line, in any order and any number of times.
getopt ==
    /\ phase = "options"
    /\ \/ /\ mode' \in ModeOptions
          /\ UNCHANGED <<trace_format_type, threads, max_continuous_4K_blks>>
       \/ /\ trace_format_type' \in Formats
          /\ UNCHANGED <<mode, threads, max_continuous_4K_blks>>
       \/ /\ threads' \in ThreadOptions
          /\ UNCHANGED <<mode, trace_format_type, max_continuous_4K_blks>>
       \/ /\ max_continuous_4K_blks' \in ContinuousOptions
          /\ UNCHANGED <<mode, trace_format_type, threads>>
    /\ UNCHANGED <<phase, infos, i, mapVars, assignVars, tc, hintVars>>

\* An unknown option, a missing path, or a trace file that cannot be opened.
BadUsage ==
    /\ phase = "options"
    /\ phase' = "exited"
    /\ UNCHANGED <<optVars, infos, i, mapVars, assignVars, tc, hintVars>>

OptionsDone ==
    /\ phase = "options"
    /\ phase' = IF threads > MAX_THREADS THEN "exited" ELSE "parse"
    /\ UNCHANGED <<optVars, infos, i, mapVars, assignVars, tc, hintVars>>

-----------------------------------------------------------------------------
(* parse_trace_info *)

\* A line that sscanf accepts.  The hitsz format has no direction: all writes.
parse_trace_info(info) ==
    /\ phase = "parse"
    /\ valid_lines < MaxLines
    /\ trace_format_type = "hitsz" => info.rw = "W"
    /\ trace_format_type = "fiu" /\ mode # "rw" => info.rw = "W"
    /\ infos' = Append(infos, info)
    /\ UNCHANGED <<phase, optVars, i, mapVars, assignVars, tc, hintVars>>

\* A line that sscanf rejects, or a read in a replay of the writes only:
\* the slot of infos is used again for the next line.
SkipLine ==
    /\ phase = "parse"
    /\ UNCHANGED planVars

EndOfTrace ==
    /\ phase = "parse"
    /\ phase' = "build"
    /\ UNCHANGED <<optVars, infos, i, mapVars, assignVars, tc, hintVars>>

-----------------------------------------------------------------------------
(* build_trace_containers: gather same lba into the same container *)

\* Mutant: looks only at the entry added last.
InMapLastOnly(lba) == order # <<>> /\ order[Len(order)] = lba

\* hashmap_get finds a container for lba.
InMap(lba) == \E k \in DOMAIN order : order[k] = lba

build_trace_containers ==
    /\ phase = "build"
    /\ i < valid_lines
    /\ LET lba == infos[i + 1].lba
       IN  /\ order' = IF InMap(lba) THEN order ELSE Append(order, lba)
           /\ containers' = [containers EXCEPT ![lba] = Append(@, i + 1)]
    /\ i' = i + 1
    /\ UNCHANGED <<phase, optVars, infos, assignVars, tc, hintVars>>

-----------------------------------------------------------------------------
(* assign_params_per_worker: which worker replays which container *)

\* valid_lines / threads, the empty containers of the workers, hashmap_sort.
AssignStart ==
    /\ phase = "build"
    /\ i = valid_lines
    /\ threads # 0
    /\ phase' = "assign"
    /\ order' = SortLbas(order)
    /\ tc' = [w \in Workers |-> <<>>]
    /\ hints_start' = [w \in Workers |-> 0]
    /\ hints_end' = [w \in Workers |-> 0]
    /\ buf' = [w \in Workers |-> 0]
    /\ UNCHANGED <<optVars, infos, i, containers, assignVars,
                   worker, j, consecutive_start, hints>>

\* -t 0: the integer division traps.
DivideByZero ==
    /\ phase = "build"
    /\ i = valid_lines
    /\ threads = 0
    /\ phase' = "crashed"
    /\ UNCHANGED <<optVars, infos, i, mapVars, assignVars, tc, hintVars>>

\* The outcomes of "rand() % 100 < p".
RandBelow(p) == {r < p : r \in 0..99}

\* Does the loop move on to the next worker before it places _tc?
NextBefore(size, hit) ==
    /\ cur_thread # threads - 1
    /\ size + cur_thread_lines > per_thread_lines
    /\ hit

\* Mutant: moves on past the last worker.
FullAnyWorker(t, lines) == lines >= per_thread_lines

\* Does the loop move on after it has placed _tc?
Full(t, lines) == t # threads - 1 /\ lines >= per_thread_lines

\* One round of foreach_hashmap_bucket: the container goes to one worker.
AssignContainer ==
    /\ phase = "assign"
    /\ b <= Len(order)
    /\ LET _tc == containers[order[b]]
           size == Len(_tc)
           probability_assign_current ==
               ((per_thread_lines - cur_thread_lines) * 100) \div size
       IN  \E hit \in RandBelow(probability_assign_current) :
             LET t == IF NextBefore(size, hit) THEN cur_thread + 1 ELSE cur_thread
                 lines == IF NextBefore(size, hit) THEN size
                                                   ELSE cur_thread_lines + size
             IN  /\ tc' = [tc EXCEPT ![t] = @ \o _tc]
                 /\ cur_thread' = IF Full(t, lines) THEN t + 1 ELSE t
                 /\ cur_thread_lines' = IF Full(t, lines) THEN 0 ELSE lines
    /\ b' = b + 1
    /\ UNCHANGED <<phase, optVars, infos, i, mapVars, hintVars>>

AssignDone ==
    /\ phase = "assign"
    /\ b > Len(order)
    /\ phase' = "sort"
    /\ UNCHANGED <<optVars, infos, i, mapVars, assignVars, tc, hintVars>>

-----------------------------------------------------------------------------
(* assign_params_per_worker: the plan of each worker *)

\* Mutant: "<" for "<=" in the merge, so records of equal time change places.
OrdersUnstably(p, s) ==
    \A x, y \in DOMAIN s : x < y =>
        \/ infos[s[p[x]]].ts < infos[s[p[y]]].ts
        \/ infos[s[p[x]]].ts = infos[s[p[y]]].ts /\ p[x] > p[y]

\* p lists the positions of s by time stamp; equal ones keep their order.
\* Module TraceSort shows that the merge sort of the code computes it.
OrdersByTs(p, s) ==
    \A x, y \in DOMAIN s : x < y =>
        \/ infos[s[p[x]]].ts < infos[s[p[y]]].ts
        \/ infos[s[p[x]]].ts = infos[s[p[y]]].ts /\ p[x] < p[y]

trace_container_sort_infomap_by_ts ==
    /\ phase = "sort"
    /\ tc[worker] # <<>>
    /\ \E p \in Bijection(DOMAIN tc[worker], DOMAIN tc[worker]) :
          /\ OrdersByTs(p, tc[worker])
          /\ tc' = [tc EXCEPT ![worker] = [k \in DOMAIN tc[worker] |->
                                              tc[worker][p[k]]]]
    /\ phase' = "extract"
    /\ hints_start' = [hints_start EXCEPT ![worker] = Len(hints)]
    /\ j' = 2 /\ consecutive_start' = 1
    /\ UNCHANGED <<optVars, infos, i, mapVars, assignVars,
                   worker, hints, hints_end, buf>>

\* size - 1 of an empty container is the largest unsigned long: the sort runs
\* through memory until it faults.
SortEmptyContainer ==
    /\ phase = "sort"
    /\ tc[worker] = <<>>
    /\ phase' = "crashed"
    /\ UNCHANGED <<optVars, infos, i, mapVars, assignVars, tc, hintVars>>

Info(w, k) == infos[tc[w][k]]

\* Mutant: "<=" for "<" in the comparison with -c.
ContinuesTooLong ==
    /\ Info(worker, j).lba - Info(worker, j - 1).lba = SECTORS_PER_BLK
    /\ Info(worker, j).rw = Info(worker, j - 1).rw
    /\ j - consecutive_start <= max_continuous_4K_blks

\* Record j goes on with the run that started at consecutive_start.
Continues ==
    /\ Info(worker, j).lba - Info(worker, j - 1).lba = SECTORS_PER_BLK
    /\ Info(worker, j).rw = Info(worker, j - 1).rw
    /\ j - consecutive_start < max_continuous_4K_blks

\* Mutant: subtracts the other way round.
HintBackwards(end) == [continuous_blks |-> consecutive_start - end,
                       start_trace_line |-> consecutive_start,
                       rw |-> Info(worker, consecutive_start).rw]

Hint(end) == [continuous_blks |-> end - consecutive_start,
              start_trace_line |-> consecutive_start,
              rw |-> Info(worker, consecutive_start).rw]

\* Mutant: the hint of a run is appended in two places.
SaveHintTwice(h) == hints \o <<h, h>>

SaveHint(h) == Append(hints, h)

AtLeast(x, y) == IF x >= y THEN x ELSE y

\* One round of the loop over the records of the worker.
ExtractConsecutive ==
    /\ phase = "extract"
    /\ j <= Len(tc[worker])
    /\ IF Continues
       THEN UNCHANGED <<hints, consecutive_start, buf>>
       ELSE /\ hints' = SaveHint(Hint(j))
            /\ consecutive_start' = j
            /\ buf' = [buf EXCEPT ![worker] = AtLeast(@, Hint(j).continuous_blks)]
    /\ j' = j + 1
    /\ UNCHANGED <<phase, optVars, infos, i, mapVars, assignVars, tc, worker,
                   hints_start, hints_end>>

\* The hint of the last run, then the worker's params.
LastHint ==
    /\ phase = "extract"
    /\ j > Len(tc[worker])
    /\ LET h == Hint(Len(tc[worker]) + 1)
       IN  /\ hints' = SaveHint(h)
           /\ buf' = [buf EXCEPT ![worker] = AtLeast(@, h.continuous_blks)]
    /\ hints_end' = [hints_end EXCEPT ![worker] = Len(hints) + 1]
    /\ worker' = worker + 1
    /\ phase' = IF worker + 1 = threads THEN "start" ELSE "sort"
    /\ UNCHANGED <<optVars, infos, i, mapVars, assignVars, tc, j,
                   consecutive_start, hints_start>>

-----------------------------------------------------------------------------
\* What the command line and the trace hold is not up to the program ...
Input ==
    \/ getopt \/ BadUsage
    \/ \E info \in trace_info : parse_trace_info(info)
    \/ SkipLine

\* ... the rest it does by itself.
Progress ==
    \/ OptionsDone \/ EndOfTrace
    \/ build_trace_containers
    \/ AssignStart \/ DivideByZero \/ AssignContainer \/ AssignDone
    \/ trace_container_sort_infomap_by_ts \/ SortEmptyContainer
    \/ ExtractConsecutive \/ LastHint

PlanNext == Input \/ Progress

\* The program has ended, or hands over to the workers.
PlanOver == phase \in {"start", "exited", "crashed"} /\ UNCHANGED planVars

Spec == Init /\ [][PlanNext \/ PlanOver]_planVars

-----------------------------------------------------------------------------
(* Properties *)

\* Every variable keeps its type: in particular a position in a container is
\* always the index of a parsed record.
TypeOK ==
    /\ phase \in {"options", "parse", "build", "assign", "sort", "extract",
                  "start", "exited", "crashed"}
    /\ mode \in Modes /\ trace_format_type \in Formats
    /\ threads \in Nat /\ max_continuous_4K_blks \in Nat
    /\ infos \in Seq(trace_info) /\ valid_lines <= MaxLines
    /\ i \in 0..valid_lines
    /\ order \in Seq(LBAs)
    /\ containers \in [LBAs -> Seq(1..valid_lines)]
    /\ b \in Nat \ {0} /\ cur_thread \in Nat /\ cur_thread_lines \in Nat
    /\ worker \in Nat /\ j \in Nat \ {0, 1} /\ consecutive_start \in Nat \ {0}
    /\ hints \in Seq(trace_replay_hint)
    /\ phase \in {"assign", "sort", "extract", "start"} =>
          /\ tc \in [Workers -> Seq(1..valid_lines)]
          /\ hints_start \in [Workers -> Nat] /\ hints_end \in [Workers -> Nat]
          /\ buf \in [Workers -> Nat]

Assigned == phase \in {"sort", "extract", "start"}

\* replay.c:603 subtracts unsigned longs: while the current worker is not the
\* last one, it holds no more than its share, so the difference never wraps,
\* and the current worker always exists.
ShareNeverUnderflows ==
    phase = "assign" =>
        /\ cur_thread \in Workers
        /\ cur_thread # threads - 1 => cur_thread_lines <= per_thread_lines

\* What the comment "gather same lba into the same container" is for: all
\* records of one lba are replayed by one worker, so by one thread on one file.
LbaAffinity ==
    phase \in {"assign", "sort", "extract", "start"} =>
        \A w, v \in Workers : \A x \in ToSet(tc[w]), y \in ToSet(tc[v]) :
            infos[x].lba = infos[y].lba => w = v

\* The assignment neither drops nor repeats a record of the trace.
PlannedOnce ==
    Assigned => \A n \in 1..valid_lines :
        \E w \in Workers : \E k \in DOMAIN tc[w] :
            \A v \in Workers : \A m \in DOMAIN tc[v] :
                tc[v][m] = n <=> v = w /\ m = k

\* Once the plan is complete, a worker meets the records of an lba in the order
\* of their time stamps, and in file order where those are equal.
TraceOrderPerLba ==
    phase = "start" =>
        \A w \in Workers : \A k, m \in DOMAIN tc[w] :
            /\ k < m
            /\ Info(w, k).lba = Info(w, m).lba
            => \/ Info(w, k).ts < Info(w, m).ts
               \/ Info(w, k).ts = Info(w, m).ts /\ tc[w][k] < tc[w][m]

\* The hints of a worker cut its container into runs, none empty, and a run is
\* one system call that puts every record at its own offset: the lbas go up by
\* one block, the direction is the same, and the run fits -c and the buffer.
HintsOf(w) == SubSeq(hints, hints_start[w] + 1, hints_end[w])
HintsTileContainers ==
    phase = "start" =>
        \A w \in Workers :
            LET hs == HintsOf(w)
                End(h) == h.start_trace_line + h.continuous_blks
            IN  /\ hs # <<>> /\ hs[1].start_trace_line = 1
                /\ End(hs[Len(hs)]) = Len(tc[w]) + 1
                /\ \A n \in DOMAIN hs :
                    /\ n > 1 => hs[n].start_trace_line = End(hs[n - 1])
                    /\ hs[n].continuous_blks \in 1..buf[w]
                    /\ hs[n].continuous_blks <= AtLeast(1, max_continuous_4K_blks)
                    /\ \A k \in hs[n].start_trace_line..End(hs[n]) - 1 :
                        /\ Info(w, k).rw = hs[n].rw
                        /\ Info(w, k).lba = Info(w, hs[n].start_trace_line).lba
                             + SECTORS_PER_BLK * (k - hs[n].start_trace_line)

\* replay.c:934 turns away only more than MAX_THREADS threads ("Too many
\* threads, max is %d"): any smaller number replays the trace.
AcceptedThreadsReplay == phase # "crashed"

\* The hints array has valid_lines slots (replay.c:951) and is never overrun.
HintsFit == Len(hints) <= valid_lines
=============================================================================
