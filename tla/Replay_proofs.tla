--------------------------- MODULE Replay_proofs ---------------------------
(***************************************************************************)
(* Proofs about the replay as a whole: for every trace, number of workers  *)
(* and interleaving, the work is done when main cleans up, append mode     *)
(* appends in the order of the plan, and otherwise the replay looks like   *)
(* one disk: Replay implements TraceDisk.                                  *)
(***************************************************************************)
EXTENDS Replay, ReplayPlan_proofs

-----------------------------------------------------------------------------
(* Sequences *)

\* What a part of a sequence holds.
LEMMA PartOfSeq ==
    ASSUME NEW S, NEW s \in Seq(S), NEW m \in Nat \ {0}, NEW n \in Nat,
           n <= Len(s), m <= n + 1
    PROVE  /\ SubSeq(s, m, n) \in Seq(S)
           /\ Len(SubSeq(s, m, n)) = n - m + 1
           /\ \A k \in 1..n - m + 1 : SubSeq(s, m, n)[k] = s[m + k - 1]
  OBVIOUS

\* The same, for c elements from position m on.
LEMMA SliceOfSeq ==
    ASSUME NEW S, NEW s \in Seq(S), NEW m \in Nat \ {0}, NEW c \in Nat, NEW e \in Nat,
           e + 1 = m + c, e <= Len(s)
    PROVE  /\ SubSeq(s, m, e) \in Seq(S)
           /\ Len(SubSeq(s, m, e)) = c
           /\ \A k \in 1..c : SubSeq(s, m, e)[k] = s[m + k - 1]
<1>1. e - m + 1 = c
  OBVIOUS
<1> QED BY <1>1, PartOfSeq

\* The same, for the first n elements.
LEMMA PrefixOfSeq ==
    ASSUME NEW S, NEW s \in Seq(S), NEW n \in Nat, n <= Len(s)
    PROVE  /\ SubSeq(s, 1, n) \in Seq(S)
           /\ Len(SubSeq(s, 1, n)) = n
           /\ \A k \in 1..n : SubSeq(s, 1, n)[k] = s[k]
  OBVIOUS

\* A sequence is one over any set that holds its elements.
LEMMA SeqOfElements ==
    ASSUME NEW S, NEW T, NEW s \in Seq(S), \A k \in 1..Len(s) : s[k] \in T
    PROVE  s \in Seq(T)
  OBVIOUS

\* Two sequences with the same length and elements are the same.
LEMMA SameSeq ==
    ASSUME NEW S, NEW s \in Seq(S), NEW t \in Seq(S), Len(s) = Len(t),
           \A k \in 1..Len(s) : s[k] = t[k]
    PROVE  s = t
  OBVIOUS

\* What a buffer or a file holds after blocks were copied over it.
LEMMA OverlaySeq ==
    ASSUME NEW S, NEW p \in Seq(S), NEW q \in Seq(S), NEW at \in Nat, Zero \in S
    PROVE  /\ Overlay(p, at, q) \in Seq(S)
           /\ Len(Overlay(p, at, q)) = AtLeast(Len(p), at + Len(q))
           /\ Len(Overlay(p, at, q)) \in Nat
           /\ Len(Overlay(p, at, q)) >= Len(p)
           /\ Len(Overlay(p, at, q)) >= at + Len(q)
           /\ \A k \in 1..Len(q) : Overlay(p, at, q)[at + k] = q[k]
           /\ \A k \in 1..Len(Overlay(p, at, q)) : k \notin at + 1..at + Len(q) =>
                 Overlay(p, at, q)[k] = IF k <= Len(p) THEN p[k] ELSE Zero
<1> DEFINE n == AtLeast(Len(p), at + Len(q))
           o == Overlay(p, at, q)
<1>1. n \in Nat /\ n >= Len(p) /\ n >= at + Len(q) /\ Len(p) \in Nat /\ Len(q) \in Nat
  BY DEF AtLeast
<1> HIDE DEF n
<1>2. o = [k \in 1..n |-> IF k \in at + 1..at + Len(q) THEN q[k - at]
                          ELSE IF k <= Len(p) THEN p[k] ELSE Zero]
  BY DEF Overlay, n
<1>3. ASSUME NEW k \in 1..n
      PROVE  (IF k \in at + 1..at + Len(q) THEN q[k - at]
              ELSE IF k <= Len(p) THEN p[k] ELSE Zero) \in S
  <2>1. CASE k \in at + 1..at + Len(q)
    <3>1. k - at \in 1..Len(q)
      BY <1>1, <2>1
    <3> QED BY <2>1, <3>1
  <2>2. CASE k \notin at + 1..at + Len(q) /\ k <= Len(p)
    BY <1>1, <2>2
  <2> QED BY <2>1, <2>2
<1>4. o \in [1..n -> S]
  BY <1>2, <1>3
<1>5. o \in Seq(S) /\ Len(o) = n
  BY <1>1, <1>4
<1>6. ASSUME NEW k \in 1..Len(q) PROVE o[at + k] = q[k]
  <2>1. at + k \in 1..n /\ at + k \in at + 1..at + Len(q) /\ at + k - at = k
    BY <1>1
  <2> QED BY <1>2, <2>1
<1>7. \A k \in 1..n : k \notin at + 1..at + Len(q) =>
          o[k] = IF k <= Len(p) THEN p[k] ELSE Zero
  BY <1>2
<1> HIDE DEF o
<1> QED BY <1>1, <1>5, <1>6, <1>7 DEF o, n

-----------------------------------------------------------------------------
(* The plan that the workers replay *)

\* What the options and the parser leave to the workers: no more than
\* MAX_THREADS of them, and only writes unless reads are replayed.
OptInv ==
    /\ phase \notin {"options", "exited"} => threads <= MAX_THREADS
    /\ phase = "options" => infos = <<>>
    /\ mode # "rw" => \A n \in 1..valid_lines : infos[n].rw = "W"

\* All that the workers rely on.  Unlike HintsInv it says so whatever the phase,
\* since the plan outlives the planning.
GoodPlan ==
    /\ threads \in 1..MAX_THREADS
    /\ infos \in Seq(trace_info) /\ valid_lines <= MaxLines
    /\ tc \in [Workers -> Seq(1..valid_lines)]
    /\ hints \in Seq(trace_replay_hint)
    /\ hints_start \in [Workers -> Nat] /\ hints_end \in [Workers -> Nat]
    /\ buf \in [Workers -> Nat]
    /\ \A w \in Workers :
          /\ hints_start[w] < hints_end[w]
          /\ Tiled(w, hints_start[w], hints_end[w], Len(tc[w]) + 1)
          /\ InTraceOrder(w)
          /\ IsInjective(tc[w])
    /\ \A w, v \in Workers : \A x \in ToSet(tc[w]), y \in ToSet(tc[v]) :
          infos[x].lba = infos[y].lba => w = v
    /\ \A n \in 1..valid_lines : \E w \in Workers : n \in ToSet(tc[w])
    /\ mode # "rw" => \A n \in 1..valid_lines : infos[n].rw = "W"

PlanInv ==
    /\ phase \notin {"done", "exited", "crashed"} => HintsInv /\ OptInv
    /\ Started => GoodPlan

\* A finished plan is a good one.
LEMMA FinishedPlan == HintsInv /\ OptInv /\ phase = "start" => GoodPlan
<1> SUFFICES ASSUME HintsInv, OptInv, phase = "start" PROVE GoodPlan
  OBVIOUS
<1>1. OrderInv /\ TiledInv /\ OnceInv /\ AffinityInv /\ TypeInv /\ TypeOK
  BY DEF HintsInv, OrderInv, OnceInv, AffinityInv, TypeInv
<1>2. /\ threads \in Nat \ {0} /\ worker = threads /\ Workers \subseteq Nat
      /\ hints \in Seq(trace_replay_hint)
      /\ hints_start \in [Workers -> Nat] /\ hints_end \in [Workers -> Nat]
      /\ buf \in [Workers -> Nat] /\ tc \in [Workers -> Seq(1..valid_lines)]
  BY <1>1, HintTypes DEF OrderInv
<1>3. infos \in Seq(trace_info) /\ valid_lines <= MaxLines
  BY <1>1 DEF TypeOK
<1>4. threads \in 1..MAX_THREADS
  BY <1>2, ConstantsAssumption DEF OptInv
<1>5. \A w \in Workers : w < worker
  BY <1>2 DEF Workers
<1>6. \A w \in Workers : /\ hints_start[w] < hints_end[w]
                         /\ Tiled(w, hints_start[w], hints_end[w], Len(tc[w]) + 1)
  BY <1>1, <1>5 DEF TiledInv
<1>7. \A w \in Workers : InTraceOrder(w) /\ IsInjective(tc[w])
  BY <1>1, <1>5 DEF OrderInv, Sorted, OnceInv, HeldOnce
<1>8. \A w, v \in Workers : \A x \in ToSet(tc[w]), y \in ToSet(tc[v]) :
          infos[x].lba = infos[y].lba => w = v
  BY <1>1 DEF AffinityInv, LbaAffinity
<1>9. ASSUME NEW n \in 1..valid_lines PROVE \E w \in Workers : n \in ToSet(tc[w])
  BY <1>1, OnceImplies DEF PlannedOnce, Assigned, ToSet
<1> QED BY <1>2, <1>3, <1>4, <1>6, <1>7, <1>8, <1>9 DEF GoodPlan, OptInv

\* It stays good while nothing but the phase changes.
LEMMA PlanStays ==
    ASSUME GoodPlan,
           UNCHANGED <<optVars, infos, tc, hints, hints_start, hints_end, buf>>
    PROVE  GoodPlan'
<1>1. UNCHANGED <<mode, threads, max_continuous_4K_blks, Workers, valid_lines>>
  BY DEF optVars, Workers, valid_lines
<1>2. \A w \in Workers :
        /\ (Tiled(w, hints_start[w], hints_end[w], Len(tc[w]) + 1))' <=>
              Tiled(w, hints_start[w], hints_end[w], Len(tc[w]) + 1)
        /\ InTraceOrder(w)' <=> InTraceOrder(w)
  <2>1. ASSUME NEW w \in Workers, NEW h PROVE GoodHint(w, h)' <=> GoodHint(w, h)
    BY <1>1 DEF GoodHint, Run, Info, End
  <2>2. ASSUME NEW w \in Workers PROVE InTraceOrder(w)' <=> InTraceOrder(w)
    BY DEF Info, InTraceOrder
  <2> QED BY <2>1, <2>2 DEF Tiled, End
<1> QED BY <1>1, <1>2 DEF GoodPlan

\* The planner works only before the workers are created.
LEMMA PlanPhases ==
    ASSUME PlanNext
    PROVE  /\ phase \in {"options", "parse", "build", "assign", "sort", "extract"}
           /\ phase' \in {"options", "parse", "build", "assign", "sort", "extract",
                          "start", "exited", "crashed"}
  BY DEF PlanNext, Input, Progress, getopt, BadUsage, OptionsDone, parse_trace_info,
     SkipLine, EndOfTrace, build_trace_containers, AssignStart, DivideByZero,
     AssignContainer, AssignDone, trace_container_sort_infomap_by_ts,
     SortEmptyContainer, ExtractConsecutive, LastHint, planVars

\* The planner keeps OptInv.
LEMMA OptStep == HintsInv /\ OptInv /\ PlanNext => OptInv'
<1> SUFFICES ASSUME HintsInv, OptInv, PlanNext PROVE OptInv'
  OBVIOUS
<1>1. TypeOK
  BY DEF HintsInv, OrderInv, OnceInv, AffinityInv, TypeInv
<1>2. CASE getopt
  BY <1>2 DEF getopt, OptInv, valid_lines
<1>3. CASE BadUsage
  BY <1>3 DEF BadUsage, OptInv, valid_lines, optVars
<1>4. CASE OptionsDone
  BY <1>1, <1>4, ConstantsAssumption DEF OptionsDone, OptInv, valid_lines, optVars, TypeOK
<1>5. ASSUME NEW info \in trace_info, parse_trace_info(info) PROVE OptInv'
  <2>1. /\ infos' = Append(infos, info) /\ phase = "parse" /\ phase' = "parse"
        /\ mode' = mode /\ threads' = threads
        /\ mode # "rw" => info.rw = "W"
    BY <1>1, <1>5 DEF parse_trace_info, TypeOK, Formats, optVars
  <2>2. infos \in Seq(trace_info)
    BY <1>1 DEF TypeOK
  <2>3. \A n \in 1..Len(infos') : infos'[n] = info \/ (n \in 1..Len(infos) /\ infos'[n] = infos[n])
    BY <2>1, <2>2
  <2> QED BY <2>1, <2>3 DEF OptInv, valid_lines
<1>6. ASSUME UNCHANGED <<optVars, infos>>, phase \notin {"options", "exited"},
             phase' # "options"
      PROVE  OptInv'
  BY <1>6 DEF OptInv, valid_lines, optVars
<1>7. CASE SkipLine \/ EndOfTrace \/ build_trace_containers \/ AssignStart
           \/ DivideByZero \/ AssignContainer \/ AssignDone
  BY <1>6, <1>7 DEF SkipLine, EndOfTrace, build_trace_containers, AssignStart,
     DivideByZero, AssignContainer, AssignDone, planVars
<1>8. CASE trace_container_sort_infomap_by_ts \/ SortEmptyContainer
           \/ ExtractConsecutive \/ LastHint
  BY <1>6, <1>8 DEF trace_container_sort_infomap_by_ts, SortEmptyContainer,
     ExtractConsecutive, LastHint
<1> QED BY <1>2, <1>3, <1>4, <1>5, <1>7, <1>8 DEF PlanNext, Input, Progress

-----------------------------------------------------------------------------
(* The invariant of the replay *)

\* RTypeOK with the domains of the functions, the buffers, and what it needs of
\* the plan.
RType ==
    /\ threads \in Nat /\ infos \in Seq(trace_info)
    /\ created \in Nat /\ joined \in Nat /\ joined <= created /\ created <= threads
    /\ pc \in [AllWorkers -> {"open", "replay", "done"}]
    /\ hint \in [AllWorkers -> Nat] /\ done \in [AllWorkers -> Nat]
    /\ replayed \in [AllWorkers -> Nat]
    /\ file \in [AllWorkers -> Seq(Old..valid_lines)]
    /\ dump \in [AllWorkers -> Seq(Junk..valid_lines)]
    /\ blk \in [AllWorkers -> Seq(Junk..valid_lines)]

\* Which workers exist and which have returned.
ThreadInv ==
    /\ phase \notin {"start", "done", "exited"} => created = 0
    /\ phase = "done" => joined = threads
    /\ \A w \in AllWorkers : w >= created => pc[w] = "open"
    /\ \A w \in AllWorkers : w < joined => pc[w] = "done"

\* A worker that has not opened its files has done nothing.
Fresh(w) ==
    /\ replayed[w] = 0 /\ done[w] = 0 /\ dump[w] = <<>>
    /\ \A k \in 1..Len(file[w]) : file[w][k] = Old

FreshInv ==
    /\ \A w \in AllWorkers : pc[w] = "open" => Fresh(w)
    /\ created = 0 => \A w, v \in AllWorkers : file[w] = file[v]

\* What a worker has read of its current hint is in its buffer.
ReadSoFar(w) ==
    /\ done[w] <= Blks(w)
    /\ done[w] # 0 => mode = "rw" /\ Cur(w).rw # "W"
    /\ \A x \in 1..done[w] :
          Pos(w) + x <= Len(file[w]) /\ blk[w][x] = file[w][Pos(w) + x]

\* The records replayed are those before the current hint.
AtHint(w) ==
    /\ pc[w] = "replay" =>
          /\ hint[w] \in hints_start[w] + 1..hints_end[w] + 1
          /\ Len(blk[w]) >= buf[w]
          /\ IF hint[w] > hints_end[w]
             THEN replayed[w] = Len(tc[w]) /\ done[w] = 0
             ELSE replayed[w] = Cur(w).start_trace_line - 1 /\ ReadSoFar(w)
    /\ pc[w] = "done" => replayed[w] = Len(tc[w])

\* In append mode a file ends with the records replayed.
Appended(w) ==
    LET old == Len(file[w]) - replayed[w]
    IN  /\ old >= 0
        /\ \A k \in 1..old : file[w][k] = Old
        /\ \A k \in 1..replayed[w] : file[w][old + k] = tc[w][k]

\* Each read that was replayed has one block in the dump.
DumpedAll(w) ==
    Len(dump[w]) = IF is_dump_read THEN PlaceInDump(w, replayed[w]) ELSE 0

WorkerInv ==
    Started => \A w \in Workers :
        /\ replayed[w] <= Len(tc[w])
        /\ phase # "exited" => AtHint(w)
        /\ mode = "a" => Appended(w)
        /\ DumpedAll(w)

RInv == RType /\ PlanInv /\ ThreadInv /\ FreshInv /\ WorkerInv

\* A worker of the plan is one of the threads there may be.
LEMMA WorkersExist ==
    ASSUME GoodPlan
    PROVE  /\ Workers \subseteq AllWorkers /\ Workers \subseteq Nat /\ threads \in Nat
           /\ valid_lines \in Nat
           /\ \A w \in Workers : Len(tc[w]) \in Nat /\ tc[w] \in Seq(1..valid_lines)
<1>1. threads \in 1..MAX_THREADS /\ infos \in Seq(trace_info)
      /\ tc \in [Workers -> Seq(1..valid_lines)]
  BY DEF GoodPlan
<1> QED BY <1>1, ConstantsAssumption DEF Workers, AllWorkers, valid_lines

\* The current hint of a worker is a run of its records.
LEMMA CurHint ==
    ASSUME GoodPlan, NEW w \in Workers,
           hint[w] \in hints_start[w] + 1..hints_end[w]
    PROVE  /\ hint[w] \in Nat /\ hints_start[w] \in Nat /\ hints_end[w] \in Nat
           /\ Cur(w).start_trace_line \in 1..Len(tc[w])
           /\ Blks(w) \in 1..buf[w] /\ Blks(w) \in Nat /\ buf[w] \in Nat
           /\ Cur(w).start_trace_line + Blks(w) <= Len(tc[w]) + 1
           /\ \A k \in Cur(w).start_trace_line..Cur(w).start_trace_line + Blks(w) - 1 :
                 /\ Info(w, k).rw = Cur(w).rw
                 /\ Info(w, k).lba = Info(w, Cur(w).start_trace_line).lba
                               + SECTORS_PER_BLK * (k - Cur(w).start_trace_line)
           /\ hint[w] < hints_end[w] =>
                 hints[hint[w] + 1].start_trace_line =
                     Cur(w).start_trace_line + Blks(w)
           /\ hint[w] = hints_end[w] =>
                 Cur(w).start_trace_line + Blks(w) = Len(tc[w]) + 1
<1>1. /\ hints_start[w] \in Nat /\ hints_end[w] \in Nat /\ buf[w] \in Nat
      /\ tc[w] \in Seq(1..valid_lines)
  BY DEF GoodPlan
<1>2. Tiled(w, hints_start[w], hints_end[w], Len(tc[w]) + 1)
  BY DEF GoodPlan
<1>3. hint[w] \in Nat
  BY <1>1
<1>4. GoodHint(w, Cur(w))
  BY <1>2 DEF Tiled, Cur
<1>5. /\ Cur(w).start_trace_line \in 1..Len(tc[w])
      /\ Blks(w) \in 1..buf[w] /\ Blks(w) \in Nat
      /\ Cur(w).start_trace_line + Blks(w) <= Len(tc[w]) + 1
  BY <1>1, <1>4 DEF GoodHint, Blks, End
<1>6. \A k \in Cur(w).start_trace_line..Cur(w).start_trace_line + Blks(w) - 1 :
         /\ Info(w, k).rw = Cur(w).rw
         /\ Info(w, k).lba = Info(w, Cur(w).start_trace_line).lba
                       + SECTORS_PER_BLK * (k - Cur(w).start_trace_line)
  BY <1>4 DEF GoodHint, Run, End, Blks
<1>7. ASSUME hint[w] < hints_end[w]
      PROVE  hints[hint[w] + 1].start_trace_line = Cur(w).start_trace_line + Blks(w)
  <2>1. /\ hint[w] + 1 \in hints_start[w] + 1..hints_end[w]
        /\ hint[w] + 1 > hints_start[w] + 1 /\ hint[w] + 1 - 1 = hint[w]
    BY <1>1, <1>3, <1>7
  <2> QED BY SMTT(30), <1>2, <2>1 DEF Tiled, End, Cur, Blks
<1>8. ASSUME hint[w] = hints_end[w]
      PROVE  Cur(w).start_trace_line + Blks(w) = Len(tc[w]) + 1
  <2>1. hints_start[w] # hints_end[w]
    BY <1>1, <1>8
  <2> QED BY <1>2, <1>8, <2>1 DEF Tiled, End, Cur, Blks
<1> QED BY <1>1, <1>3, <1>5, <1>6, <1>7, <1>8

\* The offset of the current hint is that of its first record.
LEMMA PosType ==
    ASSUME GoodPlan, NEW w \in Workers, NEW k \in 1..Len(tc[w])
    PROVE  /\ tc[w][k] \in 1..valid_lines /\ tc[w][k] \in ToSet(tc[w])
           /\ Info(w, k).lba \in LBAs /\ Info(w, k).lba \in Nat
           /\ Info(w, k).lba \div SECTORS_PER_BLK \in Nat
           /\ Info(w, k).rw \in {"R", "W"}
           /\ Info(w, k).lba % SECTORS_PER_BLK = 0
<1>1. tc[w] \in Seq(1..valid_lines) /\ infos \in Seq(trace_info) /\ k \in DOMAIN tc[w]
  BY WorkersExist DEF GoodPlan
<1>2. tc[w][k] \in 1..valid_lines
  BY <1>1, ElementType
<1>3. Info(w, k) \in trace_info
  <2>1. tc[w][k] \in DOMAIN infos
    BY <1>1, <1>2 DEF valid_lines
  <2> QED BY <1>1, <2>1, ElementType DEF Info
<1>4. Info(w, k).lba \in LBAs /\ Info(w, k).rw \in {"R", "W"}
  BY <1>3 DEF trace_info
<1>5. Info(w, k).lba \in Nat /\ Info(w, k).lba % SECTORS_PER_BLK = 0
  BY <1>4, ConstantsAssumption, AlignedLBAs
<1>6. Info(w, k).lba \div SECTORS_PER_BLK \in Nat
  BY <1>5 DEF SECTORS_PER_BLK
<1>7. tc[w][k] \in ToSet(tc[w])
  BY <1>1 DEF ToSet
<1> QED BY <1>2, <1>4, <1>5, <1>6, <1>7

\* The buffer after fill_blk starts with the records of the hint.
LEMMA FilledSeq ==
    ASSUME GoodPlan, RType, NEW w \in Workers, Len(blk[w]) >= buf[w],
           hint[w] \in hints_start[w] + 1..hints_end[w]
    PROVE  /\ Filled(w) \in Seq(Junk..valid_lines) /\ Len(Filled(w)) = Len(blk[w])
           /\ \A x \in 1..Blks(w) :
                 /\ Filled(w)[x] = tc[w][Cur(w).start_trace_line + x - 1]
                 /\ Cur(w).start_trace_line + x - 1 \in 1..Len(tc[w])
                 /\ Filled(w)[x] \in 1..valid_lines
<1>1. /\ tc[w] \in Seq(1..valid_lines) /\ valid_lines \in Nat /\ w \in AllWorkers
      /\ Len(tc[w]) \in Nat
  BY WorkersExist
<1>2. PICK n, t, p, s, c : /\ n = valid_lines /\ t = tc[w] /\ p = blk[w]
                           /\ s = Cur(w).start_trace_line /\ c = Blks(w)
  OBVIOUS
<1>3. /\ s \in 1..Len(t) /\ c \in 1..buf[w] /\ c \in Nat /\ buf[w] \in Nat
      /\ s + c <= Len(t) + 1
  BY <1>2, CurHint
<1>4. n \in Nat /\ t \in Seq(1..n) /\ p \in Seq(Junk..n)
  BY <1>1, <1>2 DEF RType
<1>5. c <= Len(p) /\ s \in Nat \ {0} /\ Len(t) \in Nat
  <2>1. Len(p) \in Nat /\ Len(t) \in Nat /\ Len(p) >= buf[w]
    BY <1>2, <1>4
  <2> HIDE <1>2
  <2> QED BY <1>3, <2>1
<1>6. PICK S, T : S = Junk..n /\ T = 1..n
  OBVIOUS
<1>7. T \subseteq S /\ Zero \in S
  BY <1>4, <1>6 DEF Junk, Zero
<1>8. t \in Seq(T) /\ p \in Seq(S)
  BY <1>4, <1>6
<1>9. PICK o, q, e, at : /\ o = Overlay(p, at, q) /\ at = 0
                         /\ q = SubSeq(t, s, e) /\ e = s + c - 1
  OBVIOUS
<1>10. /\ o \in Seq(S) /\ Len(o) = Len(p)
       /\ \A x \in 1..c : o[x] = t[s + x - 1]
  <2>1. e \in Nat /\ e + 1 = s + c /\ e <= Len(t) /\ c \in Nat /\ at \in Nat
    BY <1>3, <1>5, <1>9
  <2>2. q = SubSeq(t, s, e) /\ o = Overlay(p, at, q)
    BY <1>9
  <2>3. /\ q \in Seq(T) /\ Len(q) = c /\ \A x \in 1..c : q[x] = t[s + x - 1]
    BY <1>5, <1>8, <2>1, <2>2, SliceOfSeq
  <2>4. q \in Seq(S)
    BY <1>7, <2>3, SeqSubset
  <2>5. /\ o \in Seq(S) /\ Len(o) = AtLeast(Len(p), at + Len(q))
        /\ \A x \in 1..Len(q) : o[at + x] = q[x]
    <3>1. p \in Seq(S) /\ Zero \in S /\ at \in Nat /\ o = Overlay(p, at, q)
      BY <1>7, <1>8, <2>1, <2>2
    <3>2. o \in Seq(S) /\ Len(o) = AtLeast(Len(p), at + Len(q))
      BY <2>4, <3>1, OverlaySeq
    <3>3. \A x \in 1..Len(q) : o[at + x] = q[x]
      BY <2>4, <3>1, OverlaySeq
    <3> QED BY <3>2, <3>3
  <2>6. Len(o) = Len(p)
    BY <1>5, <1>8, <1>9, <2>1, <2>3, <2>5 DEF AtLeast
  <2>7. ASSUME NEW x \in 1..c PROVE o[x] = t[s + x - 1]
    <3>1. at + x = x
      BY <1>9
    <3> QED BY <2>3, <2>5, <3>1
  <2> QED BY <2>5, <2>6, <2>7
<1>11. Filled(w) = o
  BY <1>2, <1>9 DEF Filled
<1>12. ASSUME NEW x \in 1..c
       PROVE  /\ o[x] = t[s + x - 1] /\ s + x - 1 \in 1..Len(t) /\ o[x] \in 1..n
  <2>1. s + x - 1 \in 1..Len(t)
    BY <1>3, <1>5
  <2>2. t[s + x - 1] \in T
    BY <1>8, <2>1
  <2> QED BY <1>6, <1>10, <2>1, <2>2
<1> QED BY <1>2, <1>6, <1>10, <1>11, <1>12

\* What n blocks of the buffer do to the file of the worker.
LEMMA StoreEffect ==
    ASSUME GoodPlan, RType, NEW w \in Workers, Len(blk[w]) >= buf[w],
           hint[w] \in hints_start[w] + 1..hints_end[w],
           NEW n \in 0..Blks(w), Store(w, n)
    PROVE  \E q \in Seq(Old..valid_lines) :
             /\ Len(q) = n
             /\ \A x \in 1..n : q[x] = tc[w][Cur(w).start_trace_line + x - 1]
             /\ WritePos(w) \in Nat
             /\ file'[w] = Overlay(file[w], WritePos(w), q)
             /\ file' \in [AllWorkers -> Seq(Old..valid_lines)]
             /\ replayed'[w] = replayed[w] + n
             /\ replayed' \in [AllWorkers -> Nat]
             /\ \A v \in AllWorkers : v # w => file'[v] = file[v] /\ replayed'[v] = replayed[v]
             /\ dump' = dump
<1> DEFINE q == SubSeq(Filled(w), 1, n)
<1>1. /\ valid_lines \in Nat /\ w \in AllWorkers /\ file[w] \in Seq(Old..valid_lines)
      /\ file \in [AllWorkers -> Seq(Old..valid_lines)]
      /\ replayed \in [AllWorkers -> Nat] /\ blk[w] \in Seq(Junk..valid_lines)
  BY WorkersExist DEF RType
<1>2. /\ Filled(w) \in Seq(Junk..valid_lines) /\ Len(Filled(w)) = Len(blk[w])
      /\ \A x \in 1..Blks(w) :
            /\ Filled(w)[x] = tc[w][Cur(w).start_trace_line + x - 1]
            /\ Filled(w)[x] \in 1..valid_lines
  BY FilledSeq
<1>3. /\ Blks(w) \in 1..buf[w] /\ Blks(w) \in Nat /\ buf[w] \in Nat
      /\ Cur(w).start_trace_line \in 1..Len(tc[w])
  BY CurHint
<1>4. n \in Nat /\ n <= Len(Filled(w)) /\ 1..n \subseteq 1..Blks(w)
  BY <1>1, <1>2, <1>3
<1>5. /\ q \in Seq(Junk..valid_lines) /\ Len(q) = n
      /\ \A x \in 1..n : q[x] = Filled(w)[x]
  BY <1>2, <1>4, PrefixOfSeq
<1> HIDE DEF q
<1>6. \A x \in 1..n : /\ q[x] = tc[w][Cur(w).start_trace_line + x - 1]
                      /\ q[x] \in 1..valid_lines
  BY <1>2, <1>4, <1>5
<1>7. q \in Seq(Old..valid_lines)
  <2>1. \A x \in 1..n : q[x] \in Old..valid_lines
    BY <1>1, <1>6 DEF Old
  <2> QED BY <1>5, <2>1, SeqOfElements
<1>8. WritePos(w) \in Nat
  <2>1. Pos(w) \in Nat
    BY <1>3, PosType DEF Pos
  <2> QED BY <1>1, <2>1 DEF WritePos
<1>9. /\ file' = [file EXCEPT ![w] = Overlay(file[w], WritePos(w), q)]
      /\ replayed' = [replayed EXCEPT ![w] = replayed[w] + n]
      /\ dump' = dump
  BY DEF Store, q
<1>10. Overlay(file[w], WritePos(w), q) \in Seq(Old..valid_lines)
  <2>1. Zero \in Old..valid_lines
    BY <1>1 DEF Zero, Old
  <2> QED BY <1>1, <1>7, <1>8, <2>1, OverlaySeq
<1>11. file' \in [AllWorkers -> Seq(Old..valid_lines)] /\ replayed' \in [AllWorkers -> Nat]
  BY <1>1, <1>4, <1>9, <1>10
<1>12. /\ file'[w] = Overlay(file[w], WritePos(w), q) /\ replayed'[w] = replayed[w] + n
       /\ \A v \in AllWorkers : v # w => file'[v] = file[v] /\ replayed'[v] = replayed[v]
  BY <1>1, <1>9
<1> QED BY <1>5, <1>6, <1>7, <1>8, <1>9, <1>11, <1>12

-----------------------------------------------------------------------------
(* The place of a read in the dump *)

\* Records that are all reads, or all writes, after the first a.
LEMMA PlaceOfRun ==
    ASSUME NEW w, NEW a \in Nat, NEW n \in Nat, NEW e, e = a + n
    PROVE  /\ PlaceInDump(w, a) \in Nat
           /\ (\A k \in a + 1..e : Info(w, k).rw = "R") =>
                 PlaceInDump(w, e) = PlaceInDump(w, a) + n
           /\ (\A k \in a + 1..e : Info(w, k).rw = "W") =>
                 PlaceInDump(w, e) = PlaceInDump(w, a)
<1> DEFINE A == {m \in 1..a : Info(w, m).rw = "R"}
           E == {m \in 1..e : Info(w, m).rw = "R"}
           N == a + 1..e
<1>1. IsFiniteSet(A) /\ Cardinality(A) \in Nat
  BY RecordSet
<1>2. IsFiniteSet(N) /\ Cardinality(N) = n
  <2>1. PICK f : f = a + 1
    OBVIOUS
  <2>2. f \in Int /\ e \in Int /\ (f > e => n = 0) /\ (f <= e => e - f + 1 = n)
    BY <2>1
  <2>3. IsFiniteSet(f..e) /\ Cardinality(f..e) = IF f > e THEN 0 ELSE e - f + 1
    BY <2>2, FS_Interval
  <2>4. Cardinality(f..e) = n
    BY <2>2, <2>3
  <2> QED BY <2>1, <2>3, <2>4
<1>3. 1..e = (1..a) \cup N /\ (1..a) \cap N = {}
  OBVIOUS
<1>4. ASSUME \A k \in N : Info(w, k).rw = "R"
      PROVE  Cardinality(E) = Cardinality(A) + n
  <2>1. E = A \cup N /\ A \cap N = {}
    BY <1>3, <1>4
  <2> HIDE DEF A, E, N
  <2>2. Cardinality(A \cup N) = Cardinality(A) + Cardinality(N)
                                 - Cardinality(A \cap N)
    BY <1>1, <1>2, FS_Union
  <2>3. Cardinality(A \cap N) = 0
    BY <2>1, FS_EmptySet
  <2> QED BY <1>1, <1>2, <2>1, <2>2, <2>3
<1>5. ASSUME \A k \in N : Info(w, k).rw = "W"
      PROVE  E = A
  BY <1>3, <1>5
<1> QED BY <1>1, <1>4, <1>5 DEF PlaceInDump

-----------------------------------------------------------------------------
(* The main thread keeps the invariant *)

\* The invariant holds of the first state.
LEMMA ReplayInit == RInit => RInv
<1> SUFFICES ASSUME RInit PROVE RInv
  OBVIOUS
<1>1. Init /\ phase = "options" /\ threads = 1 /\ infos = <<>> /\ valid_lines = 0
  BY DEF RInit, Init, valid_lines
<1>2. HintsInv
  <2>1. OrderInv
    BY <1>1, OrderInit
  <2>2. Len(hints) = 0 /\ hints = <<>>
    BY <1>1 DEF Init
  <2> QED BY <1>1, <2>1, <2>2 DEF HintsInv, TiledInv, FitInv, HintsFit, Assigned
<1>3. OptInv
  BY <1>1, ConstantsAssumption DEF OptInv
<1>4. PICK n \in 0..MaxOldBlks : file = [w \in AllWorkers |-> [k \in 1..n |-> Old]]
  BY DEF RInit
<1>5. /\ [k \in 1..n |-> Old] \in Seq(Old..valid_lines)
      /\ Len([k \in 1..n |-> Old]) = n
      /\ <<>> \in Seq(Junk..valid_lines)
  BY <1>1, AlignedLBAs DEF Old
<1>6. RType
  BY <1>1, <1>4, <1>5 DEF RInit, RType
<1>7. ~Started
  BY <1>1 DEF RInit, Started
<1>8. ThreadInv
  BY <1>1, ConstantsAssumption DEF RInit, ThreadInv, AllWorkers
<1>9. FreshInv
  BY <1>4, <1>5 DEF RInit, FreshInv, Fresh
<1> QED BY <1>1, <1>2, <1>3, <1>6, <1>7, <1>8, <1>9 DEF RInv, PlanInv, WorkerInv

\* The planner keeps HintsInv, in the replay too.
LEMMA HintsStep == HintsInv /\ [PlanNextOrOver]_planVars => HintsInv'
  BY OrderStep, TiledStep, FitStep DEF HintsInv

\* A worker does not change while the plan and its own state stay.
LEMMA WorkerStays ==
    ASSUME NEW v,
           UNCHANGED <<mode, infos, tc, hints, hints_start, hints_end, buf, is_dump_read>>,
           pc'[v] = pc[v], hint'[v] = hint[v], done'[v] = done[v], blk'[v] = blk[v],
           file'[v] = file[v], dump'[v] = dump[v], replayed'[v] = replayed[v]
    PROVE  /\ Fresh(v)' <=> Fresh(v)
           /\ AtHint(v)' <=> AtHint(v)
           /\ Appended(v)' <=> Appended(v)
           /\ DumpedAll(v)' <=> DumpedAll(v)
<1>1. Fresh(v)' <=> Fresh(v)
  BY DEF Fresh
<1>2. AtHint(v)' <=> AtHint(v)
  <2>1. Cur(v)' = Cur(v) /\ Blks(v)' = Blks(v) /\ Pos(v)' = Pos(v)
    BY DEF Cur, Blks, Pos, Info
  <2>2. ReadSoFar(v)' <=> ReadSoFar(v)
    BY <2>1 DEF ReadSoFar
  <2> QED BY <2>1, <2>2 DEF AtHint
<1>3. Appended(v)' <=> Appended(v)
  BY DEF Appended
<1>4. PlaceInDump(v, replayed[v])' = PlaceInDump(v, replayed[v])
  BY DEF PlaceInDump, Info
<1>5. DumpedAll(v)' <=> DumpedAll(v)
  BY <1>4 DEF DumpedAll
<1> QED BY <1>1, <1>2, <1>3, <1>5

\* A finished plan is a good one in the next state too.
LEMMA FinishedPlanNext == (HintsInv /\ OptInv /\ phase = "start" => GoodPlan)'
  BY FinishedPlan, PTL

\* While the plans are made no worker is there.
LEMMA PlanningKeeps ==
    ASSUME RInv, PlanInput \/ PlanProgress
    PROVE  RInv'
<1>1. /\ PlanNext
      /\ UNCHANGED <<is_dump_read, created, joined, pc, hint, done, blk, file, dump,
                     replayed>>
  BY DEF PlanInput, PlanProgress, PlanNext, workerVars, ioVars
<1>2. /\ phase \in {"options", "parse", "build", "assign", "sort", "extract"}
      /\ phase' \in {"options", "parse", "build", "assign", "sort", "extract",
                     "start", "exited", "crashed"}
  BY <1>1, PlanPhases
<1>3. HintsInv /\ OptInv /\ created = 0 /\ joined = 0
  BY <1>2 DEF RInv, PlanInv, ThreadInv, RType
<1>4. HintsInv' /\ OptInv'
  BY <1>1, <1>3, HintsStep, OptStep DEF PlanNextOrOver
<1>5. /\ threads' \in Nat /\ infos' \in Seq(trace_info)
      /\ infos \in Seq(trace_info)
  BY <1>3, <1>4 DEF HintsInv, OrderInv, OnceInv, AffinityInv, TypeInv, TypeOK
<1>6. valid_lines \in Nat /\ valid_lines' \in Nat /\ valid_lines <= valid_lines'
  <2>1. UNCHANGED infos \/ \E info \in trace_info : infos' = Append(infos, info)
    BY <1>1 DEF PlanNext, Input, Progress, getopt, BadUsage, OptionsDone,
       parse_trace_info, SkipLine, EndOfTrace, build_trace_containers, AssignStart,
       DivideByZero, AssignContainer, AssignDone, trace_container_sort_infomap_by_ts,
       SortEmptyContainer, ExtractConsecutive, LastHint, planVars
  <2>2. Len(infos) \in Nat /\ Len(infos') \in Nat
    BY <1>5
  <2>3. CASE UNCHANGED infos
    BY <2>2, <2>3 DEF valid_lines
  <2>4. CASE \E info \in trace_info : infos' = Append(infos, info)
    <3>1. Len(infos') = Len(infos) + 1
      BY <1>5, <2>4
    <3> QED BY <2>2, <3>1 DEF valid_lines
  <2> QED BY Zenon, <2>1, <2>3, <2>4
<1>7. RType'
  <2>1. PICK S, T : S = Seq(Old..valid_lines') /\ T = Seq(Junk..valid_lines')
    OBVIOUS
  <2>2. Seq(Old..valid_lines) \subseteq S /\ Seq(Junk..valid_lines) \subseteq T
    <3>1. /\ Old..valid_lines \subseteq Old..valid_lines'
          /\ Junk..valid_lines \subseteq Junk..valid_lines'
      BY <1>6 DEF Old, Junk
    <3> QED BY <2>1, <3>1, SeqSubset
  <2>3. /\ file \in [AllWorkers -> Seq(Old..valid_lines)]
        /\ dump \in [AllWorkers -> Seq(Junk..valid_lines)]
        /\ blk \in [AllWorkers -> Seq(Junk..valid_lines)]
    BY DEF RInv, RType
  <2>4. file \in [AllWorkers -> S] /\ dump \in [AllWorkers -> T] /\ blk \in [AllWorkers -> T]
    BY <2>2, <2>3
  <2>5. file' \in [AllWorkers -> S] /\ dump' \in [AllWorkers -> T] /\ blk' \in [AllWorkers -> T]
    BY <1>1, <2>4
  <2> QED BY <1>1, <1>3, <1>5, <2>1, <2>5 DEF RInv, RType
<1>8. PlanInv'
  <2>1. Started' => phase' = "start"
    BY <1>1, <1>2, <1>3 DEF Started
  <2> QED BY <1>4, <2>1, FinishedPlanNext DEF PlanInv
<1>9. ThreadInv' /\ FreshInv'
  BY <1>1, <1>2, <1>3 DEF RInv, ThreadInv, FreshInv, Fresh
<1>10. WorkerInv'
  <2> SUFFICES ASSUME Started', NEW w \in Workers'
               PROVE  (/\ replayed[w] <= Len(tc[w])
                       /\ phase # "exited" => AtHint(w)
                       /\ mode = "a" => Appended(w)
                       /\ DumpedAll(w))'
    BY DEF WorkerInv
  <2>1. GoodPlan'
    BY <1>8 DEF PlanInv
  <2>2. w \in AllWorkers /\ Len(tc'[w]) \in Nat
    <3>1. threads' \in 1..MAX_THREADS /\ tc' \in [Workers' -> Seq(1..valid_lines')]
      BY <2>1 DEF GoodPlan
    <3>2. Len(tc'[w]) \in Nat
      BY <3>1
    <3>3. w \in 0..threads' - 1
      BY DEF Workers
    <3>4. \A t \in 1..MAX_THREADS : \A v \in 0..t - 1 : v \in 0..MAX_THREADS - 1
      BY ConstantsAssumption
    <3>5. w \in 0..MAX_THREADS - 1
      BY <3>1, <3>3, <3>4
    <3> QED BY <3>2, <3>5 DEF AllWorkers
  <2>3. pc'[w] = "open" /\ Fresh(w)' /\ w >= created'
    <3>1. w >= created /\ w >= created'
      BY <1>1, <1>3, <2>2, ConstantsAssumption DEF AllWorkers
    <3>2. pc'[w] = "open"
      BY <1>1, <2>2, <3>1 DEF RInv, ThreadInv
    <3> QED BY <1>9, <2>2, <3>1, <3>2 DEF FreshInv
  <2>4. /\ replayed'[w] = 0 /\ done'[w] = 0 /\ dump'[w] = <<>>
        /\ \A k \in 1..Len(file'[w]) : file'[w][k] = Old
    BY <2>3 DEF Fresh
  <2>5. Len(file'[w]) \in Nat
    BY <1>7, <2>2 DEF RType
  <2>6. Appended(w)'
    BY <2>4, <2>5 DEF Appended
  <2>7. PlaceInDump(w, replayed[w])' = 0
    <3>1. {m \in 1..0 : infos'[tc'[w][m]].rw = "R"} = {}
      OBVIOUS
    <3> QED BY <2>4, <3>1, FS_EmptySet DEF PlaceInDump, Info
  <2>8. DumpedAll(w)'
    BY <2>4, <2>7 DEF DumpedAll
  <2>9. AtHint(w)'
    BY <2>3 DEF AtHint
  <2> QED BY <2>2, <2>4, <2>6, <2>8, <2>9
<1> QED BY <1>7, <1>8, <1>9, <1>10 DEF RInv

\* -r is one more option.
LEMMA DumpOptionKeeps ==
    ASSUME RInv, getopt_r
    PROVE  RInv'
<1>1. /\ phase = "options" /\ UNCHANGED <<planVars, phase, mode, threads, infos>>
      /\ UNCHANGED <<created, joined, pc, hint, done, blk, file, dump, replayed>>
  BY DEF getopt_r, workerVars, ioVars, planVars, optVars
<1>2. HintsInv /\ OptInv /\ created = 0
  BY <1>1 DEF RInv, PlanInv, ThreadInv
<1>3. HintsInv' /\ OptInv'
  BY <1>1, <1>2, HintsStep DEF OptInv, valid_lines
<1>4. RType' /\ ThreadInv' /\ FreshInv'
  BY <1>1 DEF RInv, RType, ThreadInv, FreshInv, Fresh, valid_lines
<1>5. ~Started'
  BY <1>1, <1>2 DEF Started
<1> QED BY <1>3, <1>4, <1>5 DEF RInv, PlanInv, WorkerInv

\* What holds while the workers run.
LEMMA InReplay ==
    ASSUME RInv, phase = "start"
    PROVE  /\ Started /\ GoodPlan /\ HintsInv /\ OptInv /\ RType
           /\ threads \in Nat /\ created \in Nat /\ joined \in Nat
           /\ joined <= created /\ created <= threads
           /\ Workers \subseteq AllWorkers /\ valid_lines \in Nat
           /\ \A w \in AllWorkers : w \in Nat /\ (w < created => w \in Workers)
           /\ \A w \in Workers : /\ w \in Nat /\ replayed[w] <= Len(tc[w]) /\ AtHint(w)
                                 /\ mode = "a" => Appended(w)
                                 /\ DumpedAll(w)
<1>1. Started /\ GoodPlan /\ HintsInv /\ OptInv /\ RType
  BY DEF RInv, PlanInv, Started
<1>2. /\ threads \in Nat /\ created \in Nat /\ joined \in Nat
      /\ joined <= created /\ created <= threads
  BY <1>1 DEF RType
<1>3. Workers \subseteq AllWorkers /\ valid_lines \in Nat
  BY <1>1, WorkersExist
<1>4. \A w \in AllWorkers : w \in Nat /\ (w < created => w \in Workers)
  BY <1>2, ConstantsAssumption DEF AllWorkers, Workers
<1>5. \A w \in Workers : /\ replayed[w] <= Len(tc[w]) /\ AtHint(w)
                         /\ mode = "a" => Appended(w)
                         /\ DumpedAll(w)
  BY <1>1 DEF RInv, WorkerInv
<1> QED BY <1>1, <1>2, <1>3, <1>4, <1>5

\* A step of main that no worker notices.
LEMMA MainKeeps ==
    ASSUME RInv, phase = "start", phase' \in {"start", "done"},
           phase' = "start" => UNCHANGED planVars,
           UNCHANGED <<optVars, infos, tc, hints, hints_start, hints_end, buf, is_dump_read,
                       pc, hint, done, blk, file, dump, replayed>>,
           created' \in Nat, joined' \in Nat, joined' <= created', created' <= threads,
           created' >= created, phase' = "done" => joined' = threads,
           \A w \in AllWorkers : w < joined' => pc[w] = "done",
           created = 0 => created' > 0 \/ created' = created
    PROVE  RInv'
<1>1. /\ Started /\ GoodPlan /\ HintsInv /\ OptInv /\ RType
      /\ threads \in Nat /\ created \in Nat
      /\ Workers \subseteq AllWorkers
      /\ \A w \in Workers : /\ replayed[w] <= Len(tc[w]) /\ AtHint(w)
                            /\ mode = "a" => Appended(w)
                            /\ DumpedAll(w)
  BY InReplay
<1>2. UNCHANGED <<mode, threads, Workers, valid_lines, infos, tc, hints, hints_start,
                  hints_end, buf, is_dump_read>>
  BY DEF optVars, Workers, valid_lines
<1>3. RType'
  BY <1>1, <1>2 DEF RType
<1>4. GoodPlan'
  BY <1>1, PlanStays
<1>5. PlanInv'
  <2>1. CASE phase' = "start"
    <3>1. HintsInv'
      BY <1>1, <2>1, HintsStep
    <3>2. OptInv'
      BY <1>1, <1>2, <2>1 DEF OptInv
    <3> QED BY <1>4, <3>1, <3>2 DEF PlanInv
  <2>2. CASE phase' = "done"
    BY <1>4, <2>2 DEF PlanInv
  <2> QED BY <2>1, <2>2
<1>6. ThreadInv'
  <2>1. \A w \in AllWorkers : w >= created' => pc'[w] = "open"
    <3>1. \A w \in AllWorkers : w \in Nat
      BY ConstantsAssumption DEF AllWorkers
    <3>2. \A w \in AllWorkers : w >= created' => w >= created
      BY <1>1, <3>1
    <3> QED BY <3>2 DEF RInv, ThreadInv
  <2> QED BY <1>2, <2>1 DEF ThreadInv
<1>7. FreshInv'
  <2>1. \A w \in AllWorkers : pc[w] = "open" => Fresh(w)
    BY DEF RInv, FreshInv
  <2>2. \A w \in AllWorkers : Fresh(w)' <=> Fresh(w)
    BY DEF Fresh
  <2>3. created' = 0 => \A w, v \in AllWorkers : file[w] = file[v]
    BY <1>1 DEF RInv, FreshInv
  <2> QED BY <2>1, <2>2, <2>3 DEF FreshInv
<1>8. WorkerInv'
  <2>1. \A v \in Workers : (AtHint(v)' <=> AtHint(v)) /\ (Appended(v)' <=> Appended(v))
                           /\ (DumpedAll(v)' <=> DumpedAll(v))
    BY <1>2, WorkerStays
  <2> QED BY <1>1, <1>2, <2>1 DEF WorkerInv
<1> QED BY <1>3, <1>5, <1>6, <1>7, <1>8 DEF RInv

\* pthread_create, pthread_join and the end of main keep the invariant.
LEMMA MainThreadKeeps ==
    ASSUME RInv, pthread_create \/ pthread_join \/ Cleanup
    PROVE  RInv'
<1>1. phase = "start"
  BY DEF pthread_create, pthread_join, Cleanup
<1>2. /\ threads \in Nat /\ created \in Nat /\ joined \in Nat
      /\ joined <= created /\ created <= threads
      /\ \A w \in AllWorkers : w \in Nat
      /\ \A w \in AllWorkers : w < joined => pc[w] = "done"
  BY <1>1, InReplay DEF RInv, ThreadInv
<1>3. UNCHANGED <<optVars, infos, tc, hints, hints_start, hints_end, buf, is_dump_read,
                  pc, hint, done, blk, file, dump, replayed>>
  BY DEF pthread_create, pthread_join, Cleanup, planVars, hintVars, workerVars, ioVars
<1>4. CASE pthread_create
  <2>1. /\ phase' = "start" /\ UNCHANGED planVars
        /\ created' = created + 1 /\ joined' = joined /\ created < threads
    BY <1>4 DEF pthread_create, MoreThreads, planVars
  <2>2. /\ created' \in Nat /\ joined' \in Nat /\ joined' <= created' /\ created' <= threads
        /\ created' >= created /\ created' > 0
    BY <1>2, <2>1
  <2> QED BY <1>1, <1>2, <1>3, <2>1, <2>2, MainKeeps
<1>5. CASE pthread_join
  <2>1. /\ phase' = "start" /\ UNCHANGED planVars
        /\ joined' = joined + 1 /\ created' = created
        /\ joined < threads /\ created = threads /\ pc[joined] = "done"
    BY <1>5 DEF pthread_join, Returned, planVars
  <2>2. \A w \in AllWorkers : w < joined' => pc[w] = "done"
    BY <1>2, <2>1
  <2>3. /\ created' \in Nat /\ joined' \in Nat /\ joined' <= created' /\ created' <= threads
        /\ created' >= created
    BY <1>2, <2>1
  <2> QED BY <1>1, <1>3, <2>1, <2>2, <2>3, MainKeeps
<1>6. CASE Cleanup
  <2>1. phase' = "done" /\ joined = threads /\ joined' = joined /\ created' = created
    BY <1>6 DEF Cleanup
  <2>2. /\ created' \in Nat /\ joined' \in Nat /\ joined' <= created' /\ created' <= threads
        /\ created' >= created
    BY <1>2, <2>1
  <2> QED BY <1>1, <1>2, <1>3, <2>1, <2>2, MainKeeps
<1> QED BY <1>4, <1>5, <1>6

-----------------------------------------------------------------------------
(* A worker keeps the invariant *)

\* The functions that hold the state of the workers, after a step of w only.
OnlyWorker(w) ==
    \A v \in AllWorkers : v # w =>
        /\ pc'[v] = pc[v] /\ hint'[v] = hint[v] /\ done'[v] = done[v] /\ blk'[v] = blk[v]
        /\ file'[v] = file[v] /\ dump'[v] = dump[v] /\ replayed'[v] = replayed[v]

\* The types of those functions after a step.
NextTypes ==
    /\ pc' \in [AllWorkers -> {"open", "replay", "done"}]
    /\ hint' \in [AllWorkers -> Nat] /\ done' \in [AllWorkers -> Nat]
    /\ replayed' \in [AllWorkers -> Nat]
    /\ file' \in [AllWorkers -> Seq(Old..valid_lines)]
    /\ dump' \in [AllWorkers -> Seq(Junk..valid_lines)]
    /\ blk' \in [AllWorkers -> Seq(Junk..valid_lines)]

\* A step of w keeps the invariant when it keeps what the invariant says of w:
\* no two workers share a file, a buffer or a plan.
LEMMA WorkerKeeps ==
    ASSUME RInv, NEW w \in AllWorkers, phase = "start", w < created, pc[w] # "done",
           phase' \in {"start", "exited"}, phase' = "start" => UNCHANGED planVars,
           UNCHANGED <<optVars, infos, tc, hints, hints_start, hints_end, buf, is_dump_read,
                       created, joined>>,
           OnlyWorker(w), NextTypes,
           pc'[w] = "open" => Fresh(w)',
           replayed'[w] <= Len(tc[w]),
           phase' = "start" => AtHint(w)',
           mode = "a" => Appended(w)',
           DumpedAll(w)'
    PROVE  RInv'
<1>1. /\ Started /\ GoodPlan /\ HintsInv /\ OptInv /\ RType
      /\ threads \in Nat /\ created \in Nat
      /\ Workers \subseteq AllWorkers /\ w \in Nat
      /\ \A v \in Workers : /\ replayed[v] <= Len(tc[v]) /\ AtHint(v)
                            /\ mode = "a" => Appended(v)
                            /\ DumpedAll(v)
  BY InReplay
<1>2. UNCHANGED <<mode, threads, Workers, valid_lines, infos, tc, hints, hints_start,
                  hints_end, buf, is_dump_read>>
  BY DEF optVars, Workers, valid_lines
<1>3. RType'
  BY <1>1, <1>2 DEF RType, NextTypes
<1>4. GoodPlan'
  BY <1>1, PlanStays
<1>5. PlanInv'
  <2>1. CASE phase' = "start"
    <3>1. HintsInv'
      BY <1>1, <2>1, HintsStep
    <3>2. OptInv'
      BY <1>1, <1>2, <2>1 DEF OptInv
    <3> QED BY <1>4, <3>1, <3>2 DEF PlanInv
  <2>2. CASE phase' = "exited"
    BY <1>4, <2>2 DEF PlanInv
  <2> QED BY <2>1, <2>2
<1>6. ThreadInv'
  <2>1. ASSUME NEW v \in AllWorkers, v >= created' PROVE pc'[v] = "open"
    <3>1. v # w
      BY <1>1, <2>1
    <3> QED BY <2>1, <3>1 DEF RInv, ThreadInv, OnlyWorker
  <2>2. ASSUME NEW v \in AllWorkers, v < joined' PROVE pc'[v] = "done"
    <3>1. v # w
      BY <2>2 DEF RInv, ThreadInv
    <3> QED BY <2>2, <3>1 DEF RInv, ThreadInv, OnlyWorker
  <2> QED BY <2>1, <2>2 DEF ThreadInv
<1>s. \A v \in AllWorkers : v # w =>
          /\ Fresh(v)' <=> Fresh(v)
          /\ AtHint(v)' <=> AtHint(v)
          /\ Appended(v)' <=> Appended(v)
          /\ DumpedAll(v)' <=> DumpedAll(v)
  BY <1>2, WorkerStays DEF OnlyWorker
<1>7. FreshInv'
  <2>1. ASSUME NEW v \in AllWorkers, pc'[v] = "open" PROVE Fresh(v)'
    <3>1. CASE v # w
      BY <1>s, <2>1, <3>1 DEF RInv, FreshInv, OnlyWorker
    <3>2. CASE v = w
      BY <2>1, <3>2
    <3> QED BY <3>1, <3>2
  <2>2. created' # 0
    BY <1>1
  <2> QED BY <2>1, <2>2 DEF FreshInv
<1>8. WorkerInv'
  <2> SUFFICES ASSUME NEW v \in Workers
               PROVE  (/\ replayed[v] <= Len(tc[v])
                       /\ phase # "exited" => AtHint(v)
                       /\ mode = "a" => Appended(v)
                       /\ DumpedAll(v))'
    BY <1>2 DEF WorkerInv
  <2>1. CASE v # w
    BY <1>1, <1>2, <1>s, <2>1 DEF OnlyWorker
  <2>2. CASE v = w
    BY <1>2, <2>2
  <2> QED BY <2>1, <2>2
<1> QED BY <1>3, <1>5, <1>6, <1>7, <1>8 DEF RInv

\* Open keeps the invariant: the first hint starts with the first record.
LEMMA OpenKeeps ==
    ASSUME RInv, NEW w \in AllWorkers, Open(w)
    PROVE  RInv'
<1>1. /\ phase = "start" /\ w < created /\ pc[w] = "open"
      /\ UNCHANGED <<planVars, is_dump_read, created, joined, done, file, replayed>>
      /\ dump' = IF is_dump_read THEN [dump EXCEPT ![w] = <<>>] ELSE dump
      /\ pc' = [pc EXCEPT ![w] = "replay"]
      /\ hint' = [hint EXCEPT ![w] = hints_start[w] + 1]
      /\ blk' = [blk EXCEPT ![w] = [k \in 1..buf[w] |-> Junk]]
  BY DEF Open, Running
<1>2. /\ GoodPlan /\ RType /\ w \in Workers /\ valid_lines \in Nat
      /\ replayed[w] <= Len(tc[w]) /\ AtHint(w)
      /\ mode = "a" => Appended(w)
      /\ DumpedAll(w)
  BY <1>1, InReplay
<1>3. /\ replayed[w] = 0 /\ done[w] = 0 /\ dump[w] = <<>>
      /\ dump \in [AllWorkers -> Seq(Junk..valid_lines)]
      /\ Len(file[w]) \in Nat
  BY <1>1, <1>2 DEF RInv, FreshInv, Fresh, RType
<1>4. UNCHANGED <<mode, optVars, infos, tc, hints, hints_start, hints_end, buf, phase>>
  BY <1>1 DEF planVars, optVars, hintVars
<1>5. dump' = dump
  BY <1>1, <1>3
<1>6. buf[w] \in Nat /\ hints_start[w] \in Nat /\ hints_end[w] \in Nat
      /\ hints_start[w] < hints_end[w]
  BY <1>2 DEF GoodPlan
<1>7. /\ [k \in 1..buf[w] |-> Junk] \in Seq(Junk..valid_lines)
      /\ Len([k \in 1..buf[w] |-> Junk]) = buf[w]
  BY <1>2, <1>6 DEF Junk
<1>8. /\ pc'[w] = "replay" /\ hint'[w] = hints_start[w] + 1 /\ Len(blk'[w]) = buf[w]
      /\ OnlyWorker(w)
  <2>1. /\ pc'[w] = "replay" /\ hint'[w] = hints_start[w] + 1
        /\ blk'[w] = [k \in 1..buf[w] |-> Junk]
    BY <1>1, <1>2 DEF RType
  <2>2. OnlyWorker(w)
    BY <1>1, <1>2, <1>5 DEF RType, OnlyWorker
  <2> QED BY <1>7, <2>1, <2>2
<1>9. NextTypes
  <2>1. /\ pc' \in [AllWorkers -> {"open", "replay", "done"}]
        /\ hint' \in [AllWorkers -> Nat]
    <3>1. /\ pc \in [AllWorkers -> {"open", "replay", "done"}] /\ hint \in [AllWorkers -> Nat]
      BY <1>2 DEF RType
    <3> QED BY <1>1, <1>6, <3>1
  <2>2. PICK q : q = [k \in 1..buf[w] |-> Junk]
    OBVIOUS
  <2>3. blk' = [blk EXCEPT ![w] = q] /\ q \in Seq(Junk..valid_lines)
    BY <1>1, <1>7, <2>2
  <2>4. blk' \in [AllWorkers -> Seq(Junk..valid_lines)]
    BY <1>2, <2>3 DEF RType
  <2> QED BY <1>1, <1>2, <1>5, <2>1, <2>4 DEF RType, NextTypes
<1>10. AtHint(w)'
  <2>1. PICK h : h = hints_start[w] + 1
    OBVIOUS
  <2>2. /\ h \in hints_start[w] + 1..hints_end[w] + 1 /\ ~(h > hints_end[w])
        /\ h \in hints_start[w] + 1..hints_end[w]
    BY <1>6, <2>1
  <2>3. hints[h].start_trace_line = 1 /\ GoodHint(w, hints[h])
    BY <1>2, <1>6, <2>1, <2>2 DEF GoodPlan, Tiled
  <2>4. hints[h].continuous_blks \in 1..buf[w]
    BY <2>3 DEF GoodHint
  <2>5. Cur(w)' = hints[h] /\ hint'[w] = h
    BY <1>4, <1>8, <2>1 DEF Cur
  <2>6. ReadSoFar(w)'
    BY <1>1, <1>3, <1>6, <2>4, <2>5 DEF ReadSoFar, Blks
  <2> QED BY <1>1, <1>3, <1>4, <1>6, <1>8, <2>2, <2>3, <2>5, <2>6 DEF AtHint
<1>11. mode = "a" => Appended(w)'
  BY <1>1, <1>2, <1>4 DEF Appended
<1>12. DumpedAll(w)'
  BY <1>1, <1>2, <1>4, <1>5 DEF DumpedAll, PlaceInDump, Info
<1> QED BY <1>1, <1>2, <1>4, <1>8, <1>9, <1>10, <1>11, <1>12, WorkerKeeps

\* A write at the end of a file appends to it.
LEMMA AppendSeq ==
    ASSUME NEW S, NEW f \in Seq(S), NEW q \in Seq(S), Zero \in S,
           NEW at \in Nat, at <= Len(f), at >= Len(f),
           NEW g, g = Overlay(f, at, q)
    PROVE  /\ Len(g) = at + Len(q)
           /\ \A k \in 1..at : g[k] = f[k]
           /\ \A x \in 1..Len(q) : g[at + x] = q[x]
<1>1. /\ Len(g) = AtLeast(Len(f), at + Len(q))
      /\ \A x \in 1..Len(q) : g[at + x] = q[x]
      /\ \A k \in 1..Len(g) : k \notin at + 1..at + Len(q) =>
            g[k] = IF k <= Len(f) THEN f[k] ELSE Zero
  BY SMTT(30), OverlaySeq
<1>2. Len(f) \in Nat /\ Len(q) \in Nat
  OBVIOUS
<1>3. Len(g) = at + Len(q)
  BY <1>1, <1>2 DEF AtLeast
<1>4. ASSUME NEW k \in 1..at PROVE g[k] = f[k]
  <2>1. k \in 1..Len(g) /\ k \notin at + 1..at + Len(q) /\ k <= Len(f)
    BY <1>2, <1>3
  <2> QED BY <1>1, <2>1
<1> QED BY <1>1, <1>3, <1>4

\* The records that a write takes are writes.
LEMMA WritesOnly ==
    ASSUME RInv, NEW w \in AllWorkers, Writing(w)
    PROVE  /\ phase = "start" /\ w < created /\ pc[w] = "replay" /\ w \in Workers
           /\ hint[w] \in hints_start[w] + 1..hints_end[w] /\ Len(blk[w]) >= buf[w]
           /\ replayed[w] + 1 = Cur(w).start_trace_line /\ done[w] = 0
           /\ \A k \in replayed[w] + 1..replayed[w] + Blks(w) :
                 k \in 1..Len(tc[w]) /\ Info(w, k).rw = "W"
<1>1. /\ phase = "start" /\ w < created /\ pc[w] = "replay" /\ hint[w] <= hints_end[w]
      /\ mode = "rw" => Cur(w).rw = "W"
  BY DEF Writing, Running
<1>2. GoodPlan /\ RType /\ w \in Workers /\ AtHint(w)
  BY <1>1, InReplay
<1>3. /\ hints_end[w] \in Nat /\ hints_start[w] \in Nat /\ hint[w] \in Nat
      /\ replayed[w] \in Nat
  BY <1>2 DEF GoodPlan, RType
<1>4. ~(hint[w] > hints_end[w])
  BY <1>1, <1>3
<1>5. /\ hint[w] \in hints_start[w] + 1..hints_end[w] /\ Len(blk[w]) >= buf[w]
      /\ replayed[w] = Cur(w).start_trace_line - 1 /\ ReadSoFar(w)
  BY <1>1, <1>2, <1>3, <1>4 DEF AtHint
<1>6. /\ Cur(w).start_trace_line \in 1..Len(tc[w]) /\ Blks(w) \in Nat
      /\ Cur(w).start_trace_line + Blks(w) <= Len(tc[w]) + 1
      /\ \A k \in Cur(w).start_trace_line..Cur(w).start_trace_line + Blks(w) - 1 :
            Info(w, k).rw = Cur(w).rw
      /\ Len(tc[w]) \in Nat
  BY <1>2, <1>5, CurHint, WorkersExist
<1>7. done[w] = 0
  BY <1>1, <1>5 DEF ReadSoFar
<1>8. replayed[w] + 1 = Cur(w).start_trace_line
  BY <1>3, <1>5, <1>6
<1>9. ASSUME NEW k \in replayed[w] + 1..replayed[w] + Blks(w)
      PROVE  k \in 1..Len(tc[w]) /\ Info(w, k).rw = "W"
  <2>1. /\ k \in Cur(w).start_trace_line..Cur(w).start_trace_line + Blks(w) - 1
        /\ k \in 1..Len(tc[w])
    BY SMTT(30), <1>3, <1>6, <1>8
  <2>2. CASE mode = "rw"
    BY <1>1, <1>6, <2>1, <2>2
  <2>3. CASE mode # "rw"
    <3>1. tc[w][k] \in 1..valid_lines
      BY <1>2, <2>1, PosType
    <3> QED BY <1>2, <2>1, <2>3, <3>1 DEF GoodPlan, Info
  <2> QED BY <2>2, <2>3
<1> QED BY <1>1, <1>2, <1>5, <1>7, <1>8, <1>9

\* A write of n blocks of the hint replays n records.
LEMMA StoreKeeps ==
    ASSUME RInv, NEW w \in AllWorkers, Writing(w), NEW n \in 0..Blks(w), Store(w, n),
           UNCHANGED <<mode, infos, tc, is_dump_read>>
    PROVE  /\ file' \in [AllWorkers -> Seq(Old..valid_lines)]
           /\ replayed' \in [AllWorkers -> Nat]
           /\ dump' = dump
           /\ \A v \in AllWorkers : v # w => file'[v] = file[v] /\ replayed'[v] = replayed[v]
           /\ replayed'[w] = replayed[w] + n
           /\ replayed'[w] <= Len(tc[w])
           /\ mode = "a" => Appended(w)'
           /\ DumpedAll(w)'
<1>1. /\ phase = "start" /\ w \in Workers
      /\ hint[w] \in hints_start[w] + 1..hints_end[w] /\ Len(blk[w]) >= buf[w]
      /\ replayed[w] + 1 = Cur(w).start_trace_line
      /\ \A k \in replayed[w] + 1..replayed[w] + Blks(w) :
            k \in 1..Len(tc[w]) /\ Info(w, k).rw = "W"
  BY WritesOnly
<1>2. /\ GoodPlan /\ RType /\ DumpedAll(w) /\ (mode = "a" => Appended(w))
      /\ valid_lines \in Nat
  BY <1>1, InReplay
<1>3. /\ Cur(w).start_trace_line + Blks(w) <= Len(tc[w]) + 1 /\ Blks(w) \in Nat
      /\ Len(tc[w]) \in Nat
  BY <1>1, <1>2, CurHint, WorkersExist
<1>4. PICK q \in Seq(Old..valid_lines) :
        /\ Len(q) = n
        /\ \A x \in 1..n : q[x] = tc[w][Cur(w).start_trace_line + x - 1]
        /\ WritePos(w) \in Nat
        /\ file'[w] = Overlay(file[w], WritePos(w), q)
        /\ file' \in [AllWorkers -> Seq(Old..valid_lines)]
        /\ replayed'[w] = replayed[w] + n
        /\ replayed' \in [AllWorkers -> Nat]
        /\ \A v \in AllWorkers : v # w => file'[v] = file[v] /\ replayed'[v] = replayed[v]
        /\ dump' = dump
  BY <1>1, <1>2, StoreEffect
<1>5. PICK r, e, s : r = replayed[w] /\ e = r + n /\ s = Cur(w).start_trace_line
  OBVIOUS
<1>6. r \in Nat /\ n \in Nat /\ e \in Nat /\ s = r + 1 /\ replayed'[w] = e
  BY <1>1, <1>2, <1>3, <1>4, <1>5 DEF RType
<1>7. e <= Len(tc[w])
  BY <1>1, <1>3, <1>5, <1>6
<1>8. \A k \in r + 1..e : Info(w, k).rw = "W"
  BY SMTT(30), <1>1, <1>3, <1>5, <1>6
<1>9. PlaceInDump(w, e) = PlaceInDump(w, r)
  BY <1>5, <1>6, <1>8, PlaceOfRun
<1>10. DumpedAll(w)'
  <2>1. PlaceInDump(w, replayed[w])' = PlaceInDump(w, e)
    BY <1>6 DEF PlaceInDump, Info
  <2>2. PlaceInDump(w, replayed[w]) = PlaceInDump(w, e)
    BY <1>5, <1>9
  <2> QED BY <1>2, <1>4, <2>1, <2>2 DEF DumpedAll
<1>11. ASSUME mode = "a" PROVE Appended(w)'
  <2>1. PICK f, g, at, old : f = file[w] /\ g = file'[w] /\ at = Len(f) /\ old = at - r
    OBVIOUS
  <2>2. /\ old >= 0 /\ \A k \in 1..old : f[k] = Old
        /\ \A k \in 1..r : f[old + k] = tc[w][k]
    BY <1>2, <1>5, <1>11, <2>1 DEF Appended
  <2>3. f \in Seq(Old..valid_lines) /\ at \in Nat
    BY <1>2, <2>1 DEF RType
  <2>4. g = Overlay(f, at, q)
    BY <1>4, <1>11, <2>1 DEF WritePos
  <2>5. PICK S : S = Old..valid_lines
    OBVIOUS
  <2>6. /\ f \in Seq(S) /\ q \in Seq(S) /\ Zero \in S
        /\ at \in Nat /\ at <= Len(f) /\ at >= Len(f)
    BY <1>2, <1>4, <2>1, <2>3, <2>5 DEF Old, Zero
  <2>7. /\ Len(g) = at + Len(q)
        /\ \A k \in 1..at : g[k] = f[k]
        /\ \A x \in 1..Len(q) : g[at + x] = q[x]
    <3>1. Len(g) = at + Len(q)
      BY <2>4, <2>6, AppendSeq
    <3>2. \A k \in 1..at : g[k] = f[k]
      BY <2>4, <2>6, AppendSeq
    <3>3. \A x \in 1..Len(q) : g[at + x] = q[x]
      BY SMTT(30), <2>4, <2>6, AppendSeq
    <3> QED BY <3>1, <3>2, <3>3
  <2>8. /\ Len(g) = at + n
        /\ \A k \in 1..at : g[k] = f[k]
        /\ \A x \in 1..n : g[at + x] = q[x]
    BY <1>4, <2>7
  <2>9. e = r + n /\ s = r + 1 /\ old = at - r
    BY <1>5, <1>6, <2>1
  <2>10. old \in Nat /\ Len(g) - e = old
    BY <1>6, <2>2, <2>3, <2>8, <2>9
  <2>11. \A k \in 1..old : g[k] = Old
    <3>1. 1..old \subseteq 1..at
      BY <1>6, <2>3, <2>9, <2>10
    <3> QED BY <2>2, <2>8, <3>1
  <2>12. \A x \in 1..n : q[x] = tc[w][s + x - 1]
    BY <1>4, <1>5
  <2>13. ASSUME NEW k \in 1..e PROVE g[old + k] = tc[w][k]
    <3>1. CASE k <= r
      <4>1. old + k \in 1..at /\ k \in 1..r
        BY <1>6, <2>3, <2>9, <2>10, <3>1
      <4> QED BY <2>2, <2>8, <4>1
    <3>2. CASE k > r
      <4>1. PICK x : x = k - r
        OBVIOUS
      <4>2. x \in 1..n /\ old + k = at + x /\ s + x - 1 = k
        BY <1>6, <2>3, <2>9, <2>10, <3>2, <4>1
      <4> QED BY <2>8, <2>12, <4>2
    <3> QED BY <1>6, <3>1, <3>2
  <2>14. g = file'[w] /\ tc' = tc /\ replayed'[w] = e
    BY <1>6, <2>1
  <2> QED BY <2>10, <2>11, <2>13, <2>14 DEF Appended
<1> QED BY <1>4, <1>6, <1>7, <1>10, <1>11

\* When a worker has replayed its hint it is at the next one, or at the end.
LEMMA NextHint ==
    ASSUME GoodPlan, NEW w \in Workers, hint[w] \in hints_start[w] + 1..hints_end[w],
           UNCHANGED <<mode, infos, tc, hints, hints_start, hints_end, buf>>,
           pc'[w] = "replay", hint'[w] = hint[w] + 1, done'[w] = 0,
           replayed'[w] \in Nat, replayed'[w] + 1 = Cur(w).start_trace_line + Blks(w),
           Len(blk'[w]) >= buf[w]
    PROVE  AtHint(w)' /\ replayed'[w] <= Len(tc[w])
<1>1. /\ hint[w] \in Nat /\ hints_start[w] \in Nat /\ hints_end[w] \in Nat
      /\ Cur(w).start_trace_line \in 1..Len(tc[w]) /\ Blks(w) \in Nat
      /\ Cur(w).start_trace_line + Blks(w) <= Len(tc[w]) + 1
      /\ hint[w] < hints_end[w] =>
            hints[hint[w] + 1].start_trace_line = Cur(w).start_trace_line + Blks(w)
      /\ hint[w] = hints_end[w] => Cur(w).start_trace_line + Blks(w) = Len(tc[w]) + 1
      /\ Len(tc[w]) \in Nat
  BY CurHint, WorkersExist
<1>2. /\ hint'[w] \in hints_start[w] + 1..hints_end[w] + 1
      /\ replayed'[w] <= Len(tc[w])
  BY SMTT(30), <1>1
<1>3. CASE hint[w] = hints_end[w]
  <2>1. hint'[w] > hints_end[w] /\ replayed'[w] = Len(tc[w])
    BY <1>1, <1>3
  <2> QED BY <1>2, <2>1 DEF AtHint
<1>4. CASE hint[w] < hints_end[w]
  <2>1. PICK h : h = hint[w] + 1
    OBVIOUS
  <2>2. ~(h > hints_end[w]) /\ h \in hints_start[w] + 1..hints_end[w]
    <3>1. PICK a, z, y : a = hints_start[w] /\ z = hints_end[w] /\ y = hint[w]
      OBVIOUS
    <3>2. /\ a \in Nat /\ z \in Nat /\ y \in Nat /\ y < z /\ y \in a + 1..z /\ h = y + 1
      BY <1>1, <1>4, <2>1, <3>1
    <3>3. ~(h > z) /\ h \in a + 1..z
      BY <3>2
    <3> QED BY <3>1, <3>3
  <2>3. GoodHint(w, hints[h])
    BY <2>2 DEF GoodPlan, Tiled
  <2>4. hints[h].continuous_blks \in 1..buf[w] /\ buf[w] \in Nat
    BY <2>3 DEF GoodHint, GoodPlan
  <2>5. Cur(w)' = hints[h] /\ hint'[w] = h
    BY <2>1 DEF Cur
  <2>6. replayed'[w] = hints[h].start_trace_line - 1
    <3>1. hints[h].start_trace_line = Cur(w).start_trace_line + Blks(w)
      BY <1>1, <1>4, <2>1
    <3> QED BY <3>1
  <2>7. ReadSoFar(w)'
    BY <2>4, <2>5 DEF ReadSoFar, Blks
  <2> QED BY <1>2, <2>2, <2>5, <2>6, <2>7 DEF AtHint
<1> QED BY <1>1, <1>2, <1>3, <1>4

\* A write of the whole hint.
LEMMA WriteHintKeeps ==
    ASSUME RInv, NEW w \in AllWorkers, WriteHint(w)
    PROVE  RInv'
<1>1. /\ Writing(w) /\ Store(w, Blks(w))
      /\ blk' = [blk EXCEPT ![w] = Filled(w)] /\ hint' = [hint EXCEPT ![w] = hint[w] + 1]
      /\ UNCHANGED <<planVars, is_dump_read, created, joined, pc, done>>
  BY DEF WriteHint
<1>2. /\ phase = "start" /\ w < created /\ pc[w] = "replay" /\ w \in Workers
      /\ hint[w] \in hints_start[w] + 1..hints_end[w] /\ Len(blk[w]) >= buf[w]
      /\ replayed[w] + 1 = Cur(w).start_trace_line /\ done[w] = 0
  BY <1>1, WritesOnly
<1>3. GoodPlan /\ RType /\ valid_lines \in Nat
  BY <1>2, InReplay
<1>4. Blks(w) \in Nat /\ Blks(w) \in 0..Blks(w) /\ buf[w] \in Nat
  BY <1>2, <1>3, CurHint
<1>5. UNCHANGED <<mode, optVars, infos, tc, hints, hints_start, hints_end, buf, phase>>
  BY <1>1 DEF planVars, optVars, hintVars
<1>6. /\ file' \in [AllWorkers -> Seq(Old..valid_lines)]
      /\ replayed' \in [AllWorkers -> Nat]
      /\ dump' = dump
      /\ \A v \in AllWorkers : v # w => file'[v] = file[v] /\ replayed'[v] = replayed[v]
      /\ replayed'[w] = replayed[w] + Blks(w)
      /\ mode = "a" => Appended(w)'
      /\ DumpedAll(w)'
  BY <1>1, <1>4, <1>5, StoreKeeps
<1>7. Filled(w) \in Seq(Junk..valid_lines) /\ Len(Filled(w)) = Len(blk[w])
  BY <1>2, <1>3, FilledSeq
<1>8. NextTypes /\ OnlyWorker(w)
  BY SMTT(30), <1>1, <1>3, <1>6, <1>7 DEF RType, NextTypes, OnlyWorker
<1>9. /\ pc'[w] = "replay" /\ hint'[w] = hint[w] + 1 /\ done'[w] = 0
      /\ blk'[w] = Filled(w)
  BY <1>1, <1>2, <1>3 DEF RType
<1>10. replayed'[w] \in Nat /\ replayed'[w] + 1 = Cur(w).start_trace_line + Blks(w)
  <2>1. replayed[w] \in Nat
    BY <1>3 DEF RType
  <2> QED BY <1>2, <1>4, <1>6, <2>1
<1>11. AtHint(w)' /\ replayed'[w] <= Len(tc[w])
  BY <1>2, <1>3, <1>5, <1>7, <1>9, <1>10, NextHint
<1> QED BY <1>1, <1>2, <1>5, <1>6, <1>8, <1>9, <1>11, WorkerKeeps

\* A failure ends the process; a short write has stored its part before.
LEMMA FailureKeeps ==
    ASSUME RInv, NEW w \in AllWorkers, Failure(w)
    PROVE  RInv'
<1>1. /\ phase' = "exited" /\ UNCHANGED <<is_dump_read, created, joined, pc, hint, done, blk>>
      /\ UNCHANGED <<mode, optVars, infos, tc, hints, hints_start, hints_end, buf>>
  BY DEF Failure, OpenFails, check_ret, preadFails, exit, workerVars, hintVars, optVars
<1>2. phase = "start" /\ w < created /\ pc[w] # "done"
  BY DEF Failure, OpenFails, check_ret, preadFails, Reading, Writing, Running
<1>3. /\ GoodPlan /\ RType /\ w \in Workers /\ DumpedAll(w)
      /\ (mode = "a" => Appended(w)) /\ replayed[w] <= Len(tc[w])
  BY <1>2, InReplay
<1>4. CASE UNCHANGED ioVars
  <2>1. UNCHANGED <<file, dump, replayed>>
    BY <1>4 DEF ioVars
  <2>2. /\ Fresh(w)' <=> Fresh(w)
        /\ Appended(w)' <=> Appended(w)
        /\ DumpedAll(w)' <=> DumpedAll(w)
    BY <1>1, <2>1, WorkerStays
  <2>3. NextTypes /\ OnlyWorker(w)
    BY <1>1, <1>3, <2>1 DEF RType, NextTypes, OnlyWorker
  <2>4. pc'[w] = "open" => Fresh(w)'
    BY <1>1, <2>2 DEF RInv, FreshInv
  <2> QED BY <1>1, <1>2, <1>3, <2>1, <2>2, <2>3, <2>4, WorkerKeeps
<1>5. CASE check_ret(w) /\ \E n \in 1..Blks(w) - 1 : Store(w, n)
  <2>1. PICK n \in 1..Blks(w) - 1 : Store(w, n)
    BY <1>5
  <2>2. Writing(w) /\ pc[w] = "replay" /\ hint[w] \in hints_start[w] + 1..hints_end[w]
    BY <1>5, WritesOnly DEF check_ret
  <2>3. n \in 0..Blks(w)
    <3>1. Blks(w) \in Nat
      BY <1>3, <2>2, CurHint
    <3> QED BY <3>1
  <2>4. /\ file' \in [AllWorkers -> Seq(Old..valid_lines)]
        /\ replayed' \in [AllWorkers -> Nat]
        /\ dump' = dump
        /\ \A v \in AllWorkers : v # w => file'[v] = file[v] /\ replayed'[v] = replayed[v]
        /\ replayed'[w] <= Len(tc[w])
        /\ mode = "a" => Appended(w)'
        /\ DumpedAll(w)'
    BY <1>1, <2>1, <2>2, <2>3, StoreKeeps
  <2>5. NextTypes /\ OnlyWorker(w)
    BY <1>1, <1>3, <2>4 DEF RType, NextTypes, OnlyWorker
  <2>6. pc'[w] # "open"
    BY <1>1, <2>2
  <2> QED BY <1>1, <1>2, <2>4, <2>5, <2>6, WorkerKeeps
<1> QED BY <1>4, <1>5 DEF Failure, OpenFails, preadFails, check_ret

\* The records that a read takes are reads, and what it has got is in the buffer.
LEMMA ReadsOnly ==
    ASSUME RInv, NEW w \in AllWorkers, Reading(w)
    PROVE  /\ phase = "start" /\ w < created /\ pc[w] = "replay" /\ w \in Workers
           /\ mode = "rw" /\ ~(hint[w] > hints_end[w])
           /\ hint[w] \in hints_start[w] + 1..hints_end[w] /\ Len(blk[w]) >= buf[w]
           /\ replayed[w] + 1 = Cur(w).start_trace_line /\ ReadSoFar(w)
           /\ Pos(w) \in Nat /\ Cur(w).rw = "R"
           /\ \A k \in replayed[w] + 1..replayed[w] + Blks(w) :
                 k \in 1..Len(tc[w]) /\ Info(w, k).rw = "R"
<1>1. /\ phase = "start" /\ w < created /\ pc[w] = "replay" /\ hint[w] <= hints_end[w]
      /\ mode = "rw" /\ Cur(w).rw # "W"
  BY DEF Reading, Running
<1>2. GoodPlan /\ RType /\ w \in Workers /\ AtHint(w)
  BY <1>1, InReplay
<1>3. /\ hints_end[w] \in Nat /\ hints_start[w] \in Nat /\ hint[w] \in Nat
      /\ replayed[w] \in Nat
  BY <1>2 DEF GoodPlan, RType
<1>4. ~(hint[w] > hints_end[w])
  BY <1>1, <1>3
<1>5. /\ hint[w] \in hints_start[w] + 1..hints_end[w] /\ Len(blk[w]) >= buf[w]
      /\ replayed[w] = Cur(w).start_trace_line - 1 /\ ReadSoFar(w)
  BY <1>1, <1>2, <1>3, <1>4 DEF AtHint
<1>6. /\ Cur(w).start_trace_line \in 1..Len(tc[w]) /\ Blks(w) \in Nat
      /\ Cur(w).start_trace_line + Blks(w) <= Len(tc[w]) + 1
      /\ \A k \in Cur(w).start_trace_line..Cur(w).start_trace_line + Blks(w) - 1 :
            Info(w, k).rw = Cur(w).rw
      /\ Len(tc[w]) \in Nat
  BY <1>2, <1>5, CurHint, WorkersExist
<1>7. replayed[w] + 1 = Cur(w).start_trace_line
  BY <1>3, <1>5, <1>6
<1>8. Pos(w) \in Nat /\ Cur(w).rw = "R"
  <2>1. /\ Pos(w) \in Nat
        /\ Info(w, Cur(w).start_trace_line).rw \in {"R", "W"}
    BY <1>2, <1>6, PosType DEF Pos
  <2>2. Info(w, Cur(w).start_trace_line).rw = Cur(w).rw
    <3>1. Blks(w) \in 1..buf[w] /\ buf[w] \in Nat
      BY <1>2, <1>5, CurHint
    <3> QED BY <1>6, <3>1
  <2> QED BY <1>1, <2>1, <2>2
<1>9. ASSUME NEW k \in replayed[w] + 1..replayed[w] + Blks(w)
      PROVE  k \in 1..Len(tc[w]) /\ Info(w, k).rw = "R"
  <2>1. /\ k \in Cur(w).start_trace_line..Cur(w).start_trace_line + Blks(w) - 1
        /\ k \in 1..Len(tc[w])
    BY SMTT(30), <1>3, <1>6, <1>7
  <2> QED BY <1>6, <1>8, <2>1
<1> QED BY <1>1, <1>2, <1>4, <1>5, <1>7, <1>8, <1>9

\* A buffer p with q copied over it from position d on starts with its own first
\* d blocks, and goes on with those of q.
LEMMA OverlayParts ==
    ASSUME NEW S, NEW p \in Seq(S), NEW q \in Seq(S), NEW d \in Nat, Zero \in S, d <= Len(p)
    PROVE  /\ \A x \in 1..d : Overlay(p, d, q)[x] = p[x]
           /\ \A k \in 1..Len(q) : Overlay(p, d, q)[d + k] = q[k]
<1>0. PICK o : o = Overlay(p, d, q)
  OBVIOUS
<1>1. Len(o) \in Nat /\ Len(o) >= Len(p)
  BY <1>0, OverlaySeq
<1>2. \A k \in 1..Len(q) : o[d + k] = q[k]
  BY <1>0, OverlaySeq
<1>3. \A k \in 1..Len(o) : k \notin d + 1..d + Len(q) =>
          o[k] = IF k <= Len(p) THEN p[k] ELSE Zero
  BY <1>0, OverlaySeq
<1>4. Len(p) \in Nat /\ Len(q) \in Nat
  OBVIOUS
<1>5. ASSUME NEW x \in 1..d PROVE o[x] = p[x]
  <2>1. x \in 1..Len(o) /\ x \notin d + 1..d + Len(q) /\ x <= Len(p)
    BY <1>1, <1>4
  <2> QED BY <1>3, <2>1
<1> QED BY <1>0, <1>2, <1>5

\* Two parts that agree with v make up a whole that does.
LEMMA JoinParts ==
    ASSUME NEW d \in Nat, NEW n \in Nat, NEW o, NEW v,
           \A x \in 1..d : o[x] = v[x], \A k \in 1..n : o[d + k] = v[d + k]
    PROVE  \A x \in 1..d + n : o[x] = v[x]
<1> SUFFICES ASSUME NEW x \in 1..d + n, x > d PROVE o[x] = v[x]
  OBVIOUS
<1>1. x - d \in 1..n /\ d + (x - d) = x
  OBVIOUS
<1> QED BY <1>1

\* What the read of the current hint must see: the blocks of the file from its
\* offset on, and zeroes behind the end of the file.
Wanted(w) == [x \in Nat |-> IF Pos(w) + x <= Len(file[w]) THEN file[w][Pos(w) + x] ELSE Zero]

\* One pread.
LEMMA PreadKeeps ==
    ASSUME RInv, NEW w \in AllWorkers, pread(w)
    PROVE  RInv'
<1>1. /\ Reading(w)
      /\ UNCHANGED <<planVars, is_dump_read, created, joined, pc, hint, file, dump, replayed>>
  BY DEF pread, ioVars
<1>2. PICK ret \in 1..Blks(w) - done[w] :
        /\ ret <= Available(w)
        /\ blk' = [blk EXCEPT ![w] =
                     Overlay(blk[w], done[w], SubSeq(file[w], Pos(w) + done[w] + 1,
                                                     Pos(w) + done[w] + ret))]
        /\ done' = [done EXCEPT ![w] = done[w] + ret]
  BY DEF pread
<1>3. /\ phase = "start" /\ w < created /\ pc[w] = "replay" /\ w \in Workers
      /\ mode = "rw" /\ ~(hint[w] > hints_end[w])
      /\ hint[w] \in hints_start[w] + 1..hints_end[w] /\ Len(blk[w]) >= buf[w]
      /\ ReadSoFar(w) /\ Pos(w) \in Nat /\ Cur(w).rw = "R"
  BY <1>1, ReadsOnly
<1>4. /\ GoodPlan /\ RType /\ valid_lines \in Nat /\ AtHint(w) /\ DumpedAll(w)
      /\ replayed[w] <= Len(tc[w])
  BY <1>3, InReplay
<1>5. Blks(w) \in Nat /\ Blks(w) \in 1..buf[w] /\ buf[w] \in Nat
  BY <1>3, <1>4, CurHint
<1>6. UNCHANGED <<mode, optVars, infos, tc, hints, hints_start, hints_end, buf, phase>>
  BY <1>1 DEF planVars, optVars, hintVars
<1>7. PICK f, p, u, d, m, n, q, o :
        /\ f = file[w] /\ p = blk[w] /\ u = Pos(w) /\ d = done[w]
        /\ m = u + d + 1 /\ n = u + d + ret /\ q = SubSeq(f, m, n)
        /\ o = Overlay(p, d, q)
  OBVIOUS
<1>a. f = file[w] /\ p = blk[w] /\ u = Pos(w) /\ d = done[w]
  BY <1>7
<1>b. m = u + d + 1 /\ n = u + d + ret
  BY <1>7
<1>8. /\ f \in Seq(Old..valid_lines) /\ p \in Seq(Junk..valid_lines)
      /\ u \in Nat /\ d \in Nat /\ Len(f) \in Nat /\ Len(p) \in Nat
  <2>1. f \in Seq(Old..valid_lines) /\ p \in Seq(Junk..valid_lines) /\ d \in Nat
    BY <1>4, <1>a DEF RType
  <2> QED BY <1>3, <1>a, <2>1
<1>9. /\ ret \in Nat /\ ret >= 1 /\ d + ret <= Blks(w) /\ n <= Len(f)
      /\ m \in Nat \ {0} /\ n \in Nat /\ n + 1 = m + ret /\ d <= Len(p)
  <2>1. ret <= Len(f) - (u + d)
    BY <1>2, <1>7 DEF Available
  <2>2. d <= Blks(w) /\ Len(p) >= buf[w]
    BY <1>3, <1>7 DEF ReadSoFar
  <2>3. ret \in 1..Blks(w) - d
    BY <1>7
  <2>4. m = u + d + 1 /\ n = u + d + ret
    BY <1>7
  <2> QED BY <1>5, <1>8, <2>1, <2>2, <2>3, <2>4
<1>10. q \in Seq(Old..valid_lines) /\ Len(q) = ret /\ \A k \in 1..ret : q[k] = f[m + k - 1]
  <2>1. q = SubSeq(f, m, n)
    BY <1>7
  <2>2. PICK S : S = Old..valid_lines
    OBVIOUS
  <2>3. f \in Seq(S)
    BY <1>8, <2>2
  <2>4. q \in Seq(S) /\ Len(q) = ret /\ \A k \in 1..ret : q[k] = f[m + k - 1]
    <3>1. /\ m \in Nat \ {0} /\ ret \in Nat /\ n \in Nat
          /\ n + 1 = m + ret /\ n <= Len(f)
      BY <1>9
    <3>2. SubSeq(f, m, n) \in Seq(S)
      BY <2>3, <3>1, SliceOfSeq
    <3>3. Len(SubSeq(f, m, n)) = ret
      BY <2>3, <3>1, SliceOfSeq
    <3>4. \A k \in 1..ret : SubSeq(f, m, n)[k] = f[m + k - 1]
      BY <2>3, <3>1, SliceOfSeq
    <3> QED BY <2>1, <3>2, <3>3, <3>4
  <2> QED BY <2>2, <2>4
<1>11. PICK v : v = [x \in Nat |-> f[u + x]]
  OBVIOUS
<1>12. /\ o \in Seq(Junk..valid_lines) /\ Len(o) \in Nat /\ Len(o) >= Len(p)
       /\ \A x \in 1..d + ret : o[x] = v[x]
  <2>1. PICK S : S = Junk..valid_lines
    OBVIOUS
  <2>2. p \in Seq(S) /\ Zero \in S /\ Old..valid_lines \subseteq S
    BY <1>4, <1>8, <2>1 DEF Junk, Zero, Old
  <2>3. q \in Seq(S)
    BY <1>10, <2>2, SeqSubset
  <2>4. \A x \in 1..d : p[x] = v[x]
    <3>1. /\ ReadSoFar(w) /\ u = Pos(w) /\ d = done[w] /\ p = blk[w] /\ f = file[w]
          /\ u \in Nat /\ d \in Nat
      BY <1>3, <1>a, <1>8
    <3>2. \A x \in 1..d : p[x] = f[u + x]
      BY <3>1 DEF ReadSoFar
    <3>3. \A x \in Nat : v[x] = f[u + x]
      BY <1>11
    <3> QED BY <3>1, <3>2, <3>3
  <2>5. ASSUME NEW k \in 1..Len(q) PROVE q[k] = v[d + k]
    <3>0. Len(q) = ret
      BY <1>10
    <3>1. k \in 1..ret /\ m + k - 1 = u + (d + k) /\ d + k \in Nat
      BY <1>8, <1>9, <1>b, <3>0
    <3> QED BY <1>10, <1>11, <3>1
  <2>6. o = Overlay(p, d, q) /\ d <= Len(p)
    BY <1>7, <1>9
  <2>7. /\ o \in Seq(S) /\ Len(o) \in Nat /\ Len(o) >= Len(p)
        /\ \A x \in 1..d + Len(q) : o[x] = v[x]
    <3>1. d \in Nat /\ p \in Seq(S) /\ Zero \in S
      BY <1>8, <2>2
    <3>2. o \in Seq(S) /\ Len(o) \in Nat /\ Len(o) >= Len(p)
      BY <2>3, <2>6, <3>1, OverlaySeq
    <3>3. (\A x \in 1..d : o[x] = p[x]) /\ \A k \in 1..Len(q) : o[d + k] = q[k]
      <4>1. /\ p \in Seq(S) /\ q \in Seq(S) /\ d \in Nat /\ Zero \in S
            /\ o = Overlay(p, d, q) /\ d <= Len(p)
        BY <2>3, <2>6, <3>1
      <4>2. \A x \in 1..d : Overlay(p, d, q)[x] = p[x]
        BY <4>1, OverlayParts
      <4>3. \A k \in 1..Len(q) : Overlay(p, d, q)[d + k] = q[k]
        BY <4>1, OverlayParts
      <4> QED BY <4>1, <4>2, <4>3
    <3>4. (\A x \in 1..d : o[x] = v[x]) /\ \A k \in 1..Len(q) : o[d + k] = v[d + k]
      BY <2>4, <2>5, <3>3
    <3>5. \A x \in 1..d + Len(q) : o[x] = v[x]
      <4>1. PICK y : y = Len(q)
        OBVIOUS
      <4>2. /\ d \in Nat /\ y \in Nat /\ \A x \in 1..d : o[x] = v[x]
            /\ \A k \in 1..y : o[d + k] = v[d + k]
        BY <1>9, <1>10, <3>1, <3>4, <4>1
      <4>3. \A x \in 1..d + y : o[x] = v[x]
        <5> SUFFICES ASSUME NEW x \in 1..d + y, x > d PROVE o[x] = v[x]
          BY <4>2
        <5>1. x - d \in 1..y /\ d + (x - d) = x
          BY <4>2
        <5> QED BY <4>2, <5>1
      <4> QED BY <4>1, <4>3
    <3> QED BY <3>2, <3>5
  <2> QED BY <1>10, <2>1, <2>7
<1>13. blk' = [blk EXCEPT ![w] = o] /\ done' = [done EXCEPT ![w] = d + ret]
  BY <1>2, <1>7
<1>14. NextTypes /\ OnlyWorker(w)
  <2>1. d + ret \in Nat
    BY <1>8, <1>9
  <2> QED BY <1>1, <1>4, <1>12, <1>13, <2>1 DEF RType, NextTypes, OnlyWorker
<1>15. AtHint(w)'
  <2>1. Cur(w)' = Cur(w) /\ Blks(w)' = Blks(w) /\ Pos(w)' = Pos(w)
    BY <1>1, <1>6 DEF Cur, Blks, Pos, Info
  <2>2. blk'[w] = o /\ done'[w] = d + ret
    BY <1>4, <1>13 DEF RType
  <2>3. ASSUME NEW x \in 1..d + ret PROVE u + x <= Len(f) /\ o[x] = f[u + x]
    <3>1. x \in Nat /\ u + x <= n
      BY <1>8, <1>9, <1>b
    <3>2. u + x <= Len(f)
      BY <1>8, <1>9, <3>1
    <3> QED BY <1>11, <1>12, <3>1, <3>2
  <2>4. ReadSoFar(w)'
    BY <1>1, <1>3, <1>6, <1>7, <1>9, <2>1, <2>2, <2>3 DEF ReadSoFar
  <2>5. Len(blk'[w]) >= buf[w]
    <3>1. Len(p) >= buf[w]
      BY <1>3, <1>a
    <3> QED BY <1>5, <1>8, <1>12, <2>2, <3>1
  <2>6. /\ replayed[w] = Cur(w).start_trace_line - 1
        /\ hint[w] \in hints_start[w] + 1..hints_end[w] + 1
    BY <1>3, <1>4 DEF AtHint
  <2> QED BY <1>1, <1>3, <1>6, <2>1, <2>4, <2>5, <2>6 DEF AtHint
<1>16. DumpedAll(w)'
  BY <1>1, <1>4, <1>6 DEF DumpedAll, PlaceInDump, Info
<1>17. pc'[w] # "open" /\ mode # "a" /\ replayed'[w] <= Len(tc[w])
  BY <1>1, <1>3, <1>4
<1> QED BY <1>1, <1>3, <1>6, <1>14, <1>15, <1>16, <1>17, WorkerKeeps

\* When a read is over the buffer is what it must see, however many preads it
\* took and wherever the file ends.
LEMMA ZeroedSeq ==
    ASSUME RInv, NEW w \in AllWorkers, Reading(w), ReadOver(w)
    PROVE  /\ Zeroed(w) \in Seq(Junk..valid_lines)
           /\ Len(Zeroed(w)) \in Nat /\ Len(Zeroed(w)) >= Len(blk[w])
           /\ Len(Zeroed(w)) >= Blks(w)
           /\ \A x \in 1..Blks(w) : Zeroed(w)[x] = Wanted(w)[x]
<1>1. /\ phase = "start" /\ w \in Workers /\ ReadSoFar(w) /\ Pos(w) \in Nat
      /\ hint[w] \in hints_start[w] + 1..hints_end[w] /\ Len(blk[w]) >= buf[w]
  BY ReadsOnly
<1>2. GoodPlan /\ RType /\ valid_lines \in Nat
  BY <1>1, InReplay
<1>3. Blks(w) \in Nat /\ Blks(w) \in 1..buf[w] /\ buf[w] \in Nat
  BY <1>1, <1>2, CurHint
<1>4. PICK f, p, u, d, c, q, o, v :
        /\ f = file[w] /\ p = blk[w] /\ u = Pos(w) /\ d = done[w] /\ c = Blks(w)
        /\ q = [k \in 1..c - d |-> Zero] /\ o = Overlay(p, d, q) /\ v = Wanted(w)
  OBVIOUS
<1>5. f = file[w] /\ p = blk[w] /\ u = Pos(w) /\ d = done[w] /\ c = Blks(w)
  BY <1>4
<1>6. /\ f \in Seq(Old..valid_lines) /\ p \in Seq(Junk..valid_lines) /\ d \in Nat
  BY <1>2, <1>5 DEF RType
<1>7. /\ u \in Nat /\ c \in Nat /\ d <= c /\ c <= Len(p) /\ d <= Len(p)
      /\ Len(f) \in Nat /\ Len(p) \in Nat
  <2>1. Len(p) >= buf[w] /\ d <= c
    BY <1>1, <1>5 DEF ReadSoFar
  <2>2. u \in Nat /\ c \in 1..buf[w] /\ c \in Nat
    BY <1>1, <1>3, <1>5
  <2>3. Len(f) \in Nat /\ Len(p) \in Nat
    BY <1>6
  <2> QED BY <1>3, <1>6, <2>1, <2>2, <2>3
<1>8. v = [x \in Nat |-> IF u + x <= Len(f) THEN f[u + x] ELSE Zero]
  BY <1>4 DEF Wanted
<1>9. PICK S : S = Junk..valid_lines
  OBVIOUS
<1>10. p \in Seq(S) /\ Zero \in S
  BY <1>2, <1>6, <1>9 DEF Junk, Zero
<1>11. q \in Seq(S) /\ Len(q) = c - d /\ \A k \in 1..Len(q) : q[k] = Zero
  <2>1. PICK n : n = c - d
    OBVIOUS
  <2>2. n \in Nat
    BY <1>6, <1>7, <2>1
  <2>3. q = [k \in 1..n |-> Zero]
    BY <1>4, <2>1
  <2>4. q \in Seq(S) /\ Len(q) = n
    BY <1>10, <2>2, <2>3
  <2> QED BY <2>1, <2>2, <2>3, <2>4
<1>12. \A x \in 1..d : p[x] = v[x]
  <2> SUFFICES ASSUME NEW x \in 1..d PROVE p[x] = v[x]
    OBVIOUS
  <2>1. u + x <= Len(f) /\ p[x] = f[u + x]
    BY <1>1, <1>5 DEF ReadSoFar
  <2>2. x \in Nat
    OBVIOUS
  <2> QED BY <1>8, <2>1, <2>2
<1>13. ASSUME NEW k \in 1..Len(q) PROVE q[k] = v[d + k]
  <2>1. d = c \/ Len(f) - (u + d) <= 0
    BY <1>5 DEF ReadOver, Available
  <2>2. d + k \in Nat /\ ~(u + (d + k) <= Len(f))
    BY <1>6, <1>7, <1>11, <2>1
  <2> QED BY <1>8, <1>11, <2>2
<1>14. o = Overlay(p, d, q)
  BY <1>4
<1>15. o \in Seq(S) /\ Len(o) \in Nat /\ Len(o) >= Len(p)
  BY <1>6, <1>10, <1>11, <1>14, OverlaySeq
<1>16. \A x \in 1..d + Len(q) : o[x] = v[x]
  <2>1. d \in Nat /\ d <= Len(p) /\ q \in Seq(S) /\ o = Overlay(p, d, q)
    BY <1>6, <1>7, <1>11, <1>14
  <2>2. p \in Seq(S) /\ Zero \in S
    BY <1>10
  <2>3. (\A x \in 1..d : o[x] = p[x]) /\ \A k \in 1..Len(q) : o[d + k] = q[k]
    BY <2>1, <2>2, OverlayParts
  <2>4. (\A x \in 1..d : o[x] = v[x]) /\ \A k \in 1..Len(q) : o[d + k] = v[d + k]
    BY <1>12, <1>13, <2>3
  <2>5. Len(q) \in Nat
    BY <1>11
  <2>6. PICK n : n = Len(q)
    OBVIOUS
  <2>7. /\ d \in Nat /\ n \in Nat /\ \A x \in 1..d : o[x] = v[x]
        /\ \A k \in 1..n : o[d + k] = v[d + k]
    BY <2>1, <2>4, <2>5, <2>6
  <2>8. \A x \in 1..d + n : o[x] = v[x]
    BY <2>7, JoinParts
  <2> QED BY <2>6, <2>8
<1>17. d + Len(q) = c /\ Len(o) >= c
  BY <1>6, <1>7, <1>11, <1>15
<1>18. Zeroed(w) = o /\ Wanted(w) = v
  BY <1>4 DEF Zeroed
<1> QED BY <1>5, <1>9, <1>15, <1>16, <1>17, <1>18

\* The end of a read: its blocks go to the dump.
LEMMA EndOfReadKeeps ==
    ASSUME RInv, NEW w \in AllWorkers, EndOfRead(w)
    PROVE  RInv'
<1>1. /\ Reading(w) /\ ReadOver(w)
      /\ blk' = [blk EXCEPT ![w] = Zeroed(w)]
      /\ dump' = IF is_dump_read
                 THEN [dump EXCEPT ![w] = dump[w] \o SubSeq(Zeroed(w), 1, Blks(w))]
                 ELSE dump
      /\ replayed' = [replayed EXCEPT ![w] = replayed[w] + Blks(w)]
      /\ hint' = [hint EXCEPT ![w] = hint[w] + 1]
      /\ done' = [done EXCEPT ![w] = 0]
      /\ UNCHANGED <<planVars, is_dump_read, created, joined, pc, file>>
  BY DEF EndOfRead
<1>2. /\ phase = "start" /\ w < created /\ pc[w] = "replay" /\ w \in Workers
      /\ mode = "rw"
      /\ hint[w] \in hints_start[w] + 1..hints_end[w] /\ Len(blk[w]) >= buf[w]
      /\ replayed[w] + 1 = Cur(w).start_trace_line
      /\ \A k \in replayed[w] + 1..replayed[w] + Blks(w) : Info(w, k).rw = "R"
  BY <1>1, ReadsOnly
<1>3. GoodPlan /\ RType /\ valid_lines \in Nat /\ DumpedAll(w)
  BY <1>2, InReplay
<1>4. Blks(w) \in Nat /\ buf[w] \in Nat
  BY <1>2, <1>3, CurHint
<1>5. UNCHANGED <<mode, optVars, infos, tc, hints, hints_start, hints_end, buf, phase>>
  BY <1>1 DEF planVars, optVars, hintVars
<1>6. /\ Zeroed(w) \in Seq(Junk..valid_lines)
      /\ Len(Zeroed(w)) \in Nat /\ Len(Zeroed(w)) >= Len(blk[w]) /\ Len(Zeroed(w)) >= Blks(w)
  BY <1>1, ZeroedSeq
<1>7. PICK r, c, e, z, q, D : /\ r = replayed[w] /\ c = Blks(w) /\ e = r + c
                              /\ z = Zeroed(w) /\ q = SubSeq(z, 1, c)
                              /\ D = Seq(Junk..valid_lines)
  OBVIOUS
<1>8. r = replayed[w] /\ c = Blks(w) /\ z = Zeroed(w) /\ D = Seq(Junk..valid_lines)
  BY <1>7
<1>9. q \in D /\ Len(q) = c
  <2>1. z \in Seq(Junk..valid_lines) /\ c \in Nat /\ c <= Len(z)
    BY <1>4, <1>6, <1>8
  <2> QED BY <1>7, <2>1, PrefixOfSeq
<1>10. dump[w] \in D /\ dump \in [AllWorkers -> D] /\ r \in Nat /\ c \in Nat
  BY <1>3, <1>4, <1>8 DEF RType
<1>11. dump[w] \o q \in D /\ Len(dump[w] \o q) = Len(dump[w]) + c
  BY <1>7, <1>9, <1>10
<1>12. dump' = IF is_dump_read THEN [dump EXCEPT ![w] = dump[w] \o q] ELSE dump
  BY <1>1, <1>7
<1>13. dump' \in [AllWorkers -> D] /\ \A v \in AllWorkers : v # w => dump'[v] = dump[v]
  BY <1>10, <1>11, <1>12
<1>14. NextTypes /\ OnlyWorker(w)
  <2>1. /\ replayed' = [replayed EXCEPT ![w] = e] /\ e \in Nat
        /\ blk' = [blk EXCEPT ![w] = z] /\ z \in D
    <3>1. e = r + c /\ e \in Nat
      BY <1>7, <1>10
    <3> QED BY <1>1, <1>6, <1>8, <3>1
  <2>2. blk' \in [AllWorkers -> D] /\ replayed' \in [AllWorkers -> Nat]
    BY <1>3, <1>8, <2>1 DEF RType
  <2>3. hint' \in [AllWorkers -> Nat] /\ done' \in [AllWorkers -> Nat]
    BY SMTT(30), <1>1, <1>3 DEF RType
  <2>4. NextTypes
    BY <1>1, <1>3, <1>8, <1>13, <2>2, <2>3 DEF RType, NextTypes
  <2>5. OnlyWorker(w)
    BY <1>1, <1>3, <1>13 DEF RType, OnlyWorker
  <2> QED BY <2>4, <2>5
<1>15. /\ pc'[w] = "replay" /\ hint'[w] = hint[w] + 1 /\ done'[w] = 0
       /\ blk'[w] = Zeroed(w) /\ replayed'[w] = e
  BY <1>1, <1>2, <1>3, <1>7 DEF RType
<1>16. /\ replayed'[w] \in Nat /\ replayed'[w] + 1 = Cur(w).start_trace_line + Blks(w)
       /\ Len(blk'[w]) >= buf[w]
  <2>1. e \in Nat /\ e + 1 = Cur(w).start_trace_line + Blks(w)
    <3>1. e = r + c
      BY <1>7
    <3>2. r + 1 = Cur(w).start_trace_line /\ c = Blks(w)
      BY <1>2, <1>8
    <3>3. Cur(w).start_trace_line \in Int
      BY <1>10, <3>2
    <3> QED BY <1>10, <3>1, <3>2, <3>3
  <2>2. Len(blk[w]) \in Nat
    BY <1>3 DEF RType
  <2> QED BY <1>2, <1>4, <1>6, <1>15, <2>1, <2>2
<1>17. AtHint(w)' /\ replayed'[w] <= Len(tc[w])
  BY <1>2, <1>3, <1>5, <1>15, <1>16, NextHint
<1>18. DumpedAll(w)'
  <2>1. PlaceInDump(w, e) = PlaceInDump(w, r) + c
    <3>1. e = r + c /\ \A k \in r + 1..e : Info(w, k).rw = "R"
      BY <1>2, <1>7
    <3> QED BY <1>10, <3>1, PlaceOfRun
  <2>2. PlaceInDump(w, replayed[w])' = PlaceInDump(w, e)
    BY <1>5, <1>15 DEF PlaceInDump, Info
  <2>3. is_dump_read => dump'[w] = dump[w] \o q
    BY <1>10, <1>12
  <2>4. Len(dump[w]) = IF is_dump_read THEN PlaceInDump(w, r) ELSE 0
    BY <1>3, <1>8 DEF DumpedAll
  <2>5. Len(dump'[w]) = IF is_dump_read THEN PlaceInDump(w, e) ELSE 0
    BY <1>11, <1>12, <2>1, <2>3, <2>4
  <2> QED BY <1>1, <2>2, <2>5 DEF DumpedAll
<1> QED BY <1>1, <1>2, <1>5, <1>14, <1>15, <1>17, <1>18, WorkerKeeps

\* A worker that closes its files has replayed all its records.
LEMMA CloseKeeps ==
    ASSUME RInv, NEW w \in AllWorkers, Close(w)
    PROVE  RInv'
<1>1. /\ phase = "start" /\ w < created /\ pc[w] = "replay" /\ hint[w] > hints_end[w]
      /\ pc' = [pc EXCEPT ![w] = "done"]
      /\ UNCHANGED <<planVars, is_dump_read, created, joined, hint, done, blk, file, dump,
                     replayed>>
  BY DEF Close, Running, ioVars
<1>2. /\ RType /\ w \in Workers /\ DumpedAll(w) /\ AtHint(w)
      /\ (mode = "a" => Appended(w)) /\ replayed[w] <= Len(tc[w])
  BY <1>1, InReplay
<1>3. UNCHANGED <<mode, optVars, infos, tc, hints, hints_start, hints_end, buf, phase>>
  BY <1>1 DEF planVars, optVars, hintVars
<1>4. NextTypes /\ OnlyWorker(w) /\ pc'[w] = "done"
  BY <1>1, <1>2 DEF RType, NextTypes, OnlyWorker
<1>5. replayed[w] = Len(tc[w])
  BY <1>1, <1>2 DEF AtHint
<1>6. AtHint(w)'
  BY <1>1, <1>3, <1>4, <1>5 DEF AtHint
<1>7. mode = "a" => Appended(w)'
  BY <1>1, <1>2, <1>3 DEF Appended
<1>8. DumpedAll(w)'
  BY <1>1, <1>2, <1>3 DEF DumpedAll, PlaceInDump, Info
<1> QED BY <1>1, <1>2, <1>3, <1>4, <1>6, <1>7, <1>8, WorkerKeeps

\* Each step of the replay keeps the invariant.
LEMMA ReplayStep == RInv /\ [RNext]_vars => RInv'
<1> SUFFICES ASSUME RInv, [RNext]_vars PROVE RInv'
  OBVIOUS
<1>1. CASE PlanInput \/ PlanProgress
  BY <1>1, PlanningKeeps
<1>2. CASE getopt_r
  BY <1>2, DumpOptionKeeps
<1>3. CASE pthread_create \/ pthread_join \/ Cleanup
  BY <1>3, MainThreadKeeps
<1>4. ASSUME NEW w \in AllWorkers, replay_worker(w) PROVE RInv'
  BY <1>4, OpenKeeps, WriteHintKeeps, PreadKeeps, EndOfReadKeeps, CloseKeeps
  DEF replay_worker
<1>5. ASSUME NEW w \in AllWorkers, Failure(w) PROVE RInv'
  BY <1>5, FailureKeeps
<1>6. CASE UNCHANGED vars
  <2>1. /\ UNCHANGED <<planVars, phase, optVars, mode, threads, infos, tc, hints, hints_start,
                       hints_end, buf>>
        /\ UNCHANGED <<is_dump_read, created, joined, pc, hint, done, blk, file, dump, replayed>>
    BY <1>6 DEF vars, workerVars, planVars, optVars, hintVars
  <2>2. UNCHANGED <<Workers, valid_lines, Started>>
    BY <2>1 DEF Workers, valid_lines, Started
  <2>3. RType' /\ ThreadInv'
    BY <2>1, <2>2 DEF RInv, RType, ThreadInv
  <2>4. PlanInv'
    <3>1. HintsInv => HintsInv'
      BY <2>1, HintsStep
    <3>2. OptInv => OptInv'
      BY <2>1, <2>2 DEF OptInv
    <3>3. GoodPlan => GoodPlan'
      BY <2>1, PlanStays
    <3> QED BY <2>1, <2>2, <3>1, <3>2, <3>3 DEF RInv, PlanInv
  <2>5. FreshInv'
    BY <2>1 DEF RInv, FreshInv, Fresh
  <2>6. WorkerInv'
    <3>1. \A v \in Workers : (AtHint(v)' <=> AtHint(v)) /\ (Appended(v)' <=> Appended(v))
                             /\ (DumpedAll(v)' <=> DumpedAll(v))
      BY <2>1, WorkerStays
    <3> QED BY <2>1, <2>2, <3>1 DEF RInv, WorkerInv
  <2> QED BY <2>3, <2>4, <2>5, <2>6 DEF RInv
<1> QED BY <1>1, <1>2, <1>3, <1>4, <1>5, <1>6 DEF RNext, Terminated

\* The invariant holds throughout; no fairness is needed.
LEMMA ReplayInvariant == RSpec => []RInv
<1>1. RSpec => RInit /\ [][RNext]_vars
  BY DEF RSpec
<1> QED BY <1>1, ReplayInit, ReplayStep, PTL

\* When main cleans up, every worker has returned and every record of the trace
\* has been replayed; all variables keep their types.
THEOREM CleanupIsSafe == RSpec => []CleanupAfterAllWork
<1>1. RInv => CleanupAfterAllWork
  <2> SUFFICES ASSUME RInv PROVE CleanupAfterAllWork
    OBVIOUS
  <2>1. RTypeOK
    <3>1. /\ threads \in Nat /\ created \in Nat /\ joined \in Nat
          /\ joined <= created /\ created <= threads
          /\ pc \in [AllWorkers -> {"open", "replay", "done"}]
      BY DEF RInv, RType
    <3>2. created \in 0..threads /\ joined \in 0..created
      BY <3>1
    <3>3. ASSUME NEW w \in AllWorkers
          PROVE  /\ \A k \in DOMAIN file[w] : file[w][k] \in Old..valid_lines
                 /\ \A k \in DOMAIN dump[w] : dump[w][k] \in Junk..valid_lines
                 /\ done[w] \in Nat /\ hint[w] \in Nat /\ replayed[w] \in Nat
      <4>1. /\ file[w] \in Seq(Old..valid_lines) /\ dump[w] \in Seq(Junk..valid_lines)
            /\ done[w] \in Nat /\ hint[w] \in Nat /\ replayed[w] \in Nat
        BY DEF RInv, RType
      <4> QED BY <4>1, ElementType
    <3> QED BY <3>1, <3>2, <3>3 DEF RTypeOK
  <2>2. ASSUME phase = "done", NEW w \in Workers
        PROVE  pc[w] = "done" /\ replayed[w] = Len(tc[w])
    <3>1. Started /\ joined = threads
      BY <2>2 DEF Started, RInv, ThreadInv
    <3>2. GoodPlan
      BY <3>1 DEF RInv, PlanInv
    <3>3. w \in AllWorkers /\ w < threads
      BY <3>2, WorkersExist DEF Workers
    <3>4. pc[w] = "done" /\ AtHint(w)
      BY <2>2, <3>1, <3>3 DEF RInv, ThreadInv, WorkerInv
    <3> QED BY <3>4 DEF AtHint
  <2> QED BY <2>1, <2>2 DEF CleanupAfterAllWork
<1> QED BY <1>1, ReplayInvariant, PTL

\* In append mode a file is what it was, then the worker's records in the order
\* of its plan, also when a short write has ended the process.
THEOREM AppendsSafe == RSpec => []AppendsInPlanOrder
<1>1. RInv => AppendsInPlanOrder
  <2> SUFFICES ASSUME RInv, mode = "a", Started, NEW w \in Workers
               PROVE  LET old == Len(file[w]) - replayed[w]
                      IN  /\ old >= 0
                          /\ ToSet(SubSeq(file[w], 1, old)) \subseteq {Old}
                          /\ SubSeq(file[w], old + 1, Len(file[w])) =
                                 SubSeq(tc[w], 1, replayed[w])
    BY DEF AppendsInPlanOrder
  <2>1. PICK f, t, r, at, old, m : /\ f = file[w] /\ t = tc[w] /\ r = replayed[w]
                                   /\ at = Len(f) /\ old = at - r /\ m = old + 1
    OBVIOUS
  <2>2. f = file[w] /\ t = tc[w] /\ r = replayed[w] /\ at = Len(f)
    BY <2>1
  <2>3. GoodPlan /\ RType /\ Appended(w) /\ r <= Len(t)
    BY <2>2 DEF RInv, PlanInv, WorkerInv
  <2>4. /\ w \in AllWorkers /\ valid_lines \in Nat /\ t \in Seq(1..valid_lines)
    BY <2>2, <2>3, WorkersExist
  <2>5. f \in Seq(Old..valid_lines) /\ r \in Nat
    BY <2>2, <2>3, <2>4 DEF RType
  <2>6. /\ old >= 0 /\ \A k \in 1..old : f[k] = Old
        /\ \A k \in 1..r : f[old + k] = t[k]
    BY <2>1, <2>3 DEF Appended
  <2>7. PICK S : S = Old..valid_lines
    OBVIOUS
  <2>8. f \in Seq(S) /\ t \in Seq(S) /\ Len(t) \in Nat
    <3>1. 1..valid_lines \subseteq S
      BY <2>4, <2>7 DEF Old
    <3>2. t \in Seq(S)
      BY <2>4, <3>1, SeqSubset
    <3> QED BY <2>5, <2>7, <3>2
  <2>9. at \in Nat /\ old = at - r /\ m = old + 1
    BY <2>1, <2>8
  <2>10. old \in Nat /\ old <= at /\ m \in Nat \ {0} /\ at + 1 = m + r
    BY <2>5, <2>6, <2>9
  <2>11. PICK a, g, h : a = SubSeq(f, 1, old) /\ g = SubSeq(f, m, at) /\ h = SubSeq(t, 1, r)
    OBVIOUS
  <2>12. a \in Seq(S) /\ Len(a) = old /\ \A k \in 1..old : a[k] = f[k]
    BY <2>2, <2>8, <2>10, <2>11, PrefixOfSeq
  <2>13. ToSet(a) \subseteq {Old}
    BY <2>6, <2>12 DEF ToSet
  <2>14. g \in Seq(S) /\ Len(g) = r /\ \A k \in 1..r : g[k] = f[m + k - 1]
    <3>1. at <= Len(f)
      BY <2>2, <2>9
    <3> QED BY <2>5, <2>8, <2>9, <2>10, <2>11, <3>1, SliceOfSeq
  <2>15. h \in Seq(S) /\ Len(h) = r /\ \A k \in 1..r : h[k] = t[k]
    BY <2>3, <2>5, <2>8, <2>11, PrefixOfSeq
  <2>16. \A k \in 1..r : m + k - 1 = old + k
    BY <2>5, <2>9, <2>10
  <2>17. \A k \in 1..Len(g) : g[k] = h[k]
    BY <2>6, <2>14, <2>15, <2>16
  <2>18. g = h
    BY <2>14, <2>15, <2>17, SameSeq
  <2> QED BY <2>1, <2>6, <2>11, <2>13, <2>18
<1> QED BY <1>1, ReplayInvariant, PTL
-----------------------------------------------------------------------------
(* The refinement mapping in terms of records *)

\* The first r elements of a sequence.
LEMMA PrefixSet ==
    ASSUME NEW S, NEW t \in Seq(S), NEW r \in Nat, r <= Len(t)
    PROVE  ToSet(SubSeq(t, 1, r)) = {t[k] : k \in 1..r}
<1>1. PICK p : p = SubSeq(t, 1, r)
  OBVIOUS
<1>2. p \in Seq(S) /\ Len(p) = r /\ \A k \in 1..r : p[k] = t[k]
  BY <1>1, PrefixOfSeq
<1>3. DOMAIN p = 1..r
  BY <1>2
<1>4. ToSet(p) = {p[k] : k \in 1..r}
  BY <1>3 DEF ToSet
<1>5. {p[k] : k \in 1..r} = {t[k] : k \in 1..r}
  BY <1>2
<1> QED BY <1>1, <1>4, <1>5

\* What holds of the workers as soon as there is a plan, and to the end.
LEMMA AfterStart ==
    ASSUME RInv, Started
    PROVE  /\ GoodPlan /\ Workers \subseteq AllWorkers /\ valid_lines \in Nat
           /\ \A w \in Workers :
                 /\ replayed[w] \in Nat /\ replayed[w] <= Len(tc[w]) /\ Len(tc[w]) \in Nat
                 /\ tc[w] \in Seq(1..valid_lines) /\ DOMAIN tc[w] = 1..Len(tc[w])
                 /\ file[w] \in Seq(Old..valid_lines) /\ dump[w] \in Seq(Junk..valid_lines)
                 /\ Len(file[w]) \in Nat /\ Len(dump[w]) \in Nat
                 /\ DumpedAll(w)
<1>1. GoodPlan
  BY DEF RInv, PlanInv
<1>2. /\ Workers \subseteq AllWorkers /\ valid_lines \in Nat
      /\ \A w \in Workers : tc[w] \in Seq(1..valid_lines) /\ Len(tc[w]) \in Nat
  BY <1>1, WorkersExist
<1>3. \A w \in Workers : replayed[w] <= Len(tc[w]) /\ DumpedAll(w)
  BY DEF RInv, WorkerInv
<1>4. ASSUME NEW w \in Workers
      PROVE  /\ replayed[w] \in Nat
             /\ file[w] \in Seq(Old..valid_lines) /\ dump[w] \in Seq(Junk..valid_lines)
  <2>1. w \in AllWorkers
    BY <1>2
  <2> QED BY <2>1 DEF RInv, RType
<1>5. ASSUME NEW w \in Workers
      PROVE  /\ DOMAIN tc[w] = 1..Len(tc[w])
             /\ Len(file[w]) \in Nat /\ Len(dump[w]) \in Nat
  BY <1>2, <1>4
<1> QED BY <1>1, <1>2, <1>3, <1>4, <1>5

\* The records that have taken effect.
LEMMA PerformedIs ==
    RInv /\ Started =>
        \A m : m \in Performed <=>
            \E v \in Workers : \E k \in 1..replayed[v] : m = tc[v][k]
<1> SUFFICES ASSUME RInv, Started
             PROVE  \A m : m \in Performed <=>
                        \E v \in Workers : \E k \in 1..replayed[v] : m = tc[v][k]
  OBVIOUS
<1>1. ASSUME NEW v \in Workers
      PROVE  ToSet(SubSeq(tc[v], 1, replayed[v])) = {tc[v][k] : k \in 1..replayed[v]}
  <2>1. PICK t, r, S : t = tc[v] /\ r = replayed[v] /\ S = 1..valid_lines
    OBVIOUS
  <2>2. t \in Seq(S) /\ r \in Nat /\ r <= Len(t)
    BY <2>1, AfterStart
  <2>3. ToSet(SubSeq(t, 1, r)) = {t[k] : k \in 1..r}
    BY <2>2, PrefixSet
  <2> QED BY <2>1, <2>3
<1>2. Performed = UNION {ToSet(SubSeq(tc[v], 1, replayed[v])) : v \in Workers}
  BY DEF Performed
<1> HIDE DEF Performed
<1> QED BY <1>1, <1>2

\* The same in the next state.
LEMMA PerformedNext ==
    (RInv /\ Started =>
        \A m : m \in Performed <=>
            \E v \in Workers : \E k \in 1..replayed[v] : m = tc[v][k])'
  BY PerformedIs, PTL

\* An lba belongs to the worker that replays its records.
LEMMA OwnerIs ==
    ASSUME GoodPlan, Started, NEW w \in Workers, NEW k \in 1..Len(tc[w])
    PROVE  Owner(Info(w, k).lba) = w
<1>1. PICK l : l = Info(w, k).lba
  OBVIOUS
<1>2. \A v \in Workers : DOMAIN tc[v] = 1..Len(tc[v])
  BY WorkersExist
<1>3. Owns(w, l)
  BY <1>1, <1>2 DEF Owns
<1>4. ASSUME NEW v \in Workers, Owns(v, l) PROVE v = w
  <2>1. PICK y \in DOMAIN tc[v] : Info(v, y).lba = l
    BY <1>4 DEF Owns
  <2>2. tc[v][y] \in ToSet(tc[v]) /\ tc[w][k] \in ToSet(tc[w])
    BY <1>2, PosType
  <2>3. infos[tc[v][y]].lba = infos[tc[w][k]].lba
    BY <1>1, <2>1 DEF Info
  <2> QED BY <2>2, <2>3 DEF GoodPlan
<1>5. Owner(l) = CHOOSE v \in Workers : Owns(v, l)
  BY <1>3 DEF Owner
<1>6. Owner(l) = w
  BY <1>3, <1>4, <1>5
<1> QED BY <1>1, <1>6

\* It belongs to one of the threads there may be, in any case.
LEMMA OwnerType ==
    ASSUME RInv, NEW l
    PROVE  Owner(l) \in AllWorkers
<1>1. 0 \in AllWorkers
  BY ConstantsAssumption DEF AllWorkers
<1>2. CASE Started /\ \E w \in Workers : Owns(w, l)
  <2>1. Owner(l) \in Workers
    BY <1>2 DEF Owner
  <2> QED BY <1>2, <2>1, AfterStart
<1>3. CASE ~(Started /\ \E w \in Workers : Owns(w, l))
  BY <1>1, <1>3 DEF Owner
<1> QED BY <1>2, <1>3

-----------------------------------------------------------------------------
(* A system call is one step of the disk *)

\* The records from a up to z of a worker.
Records(w, a, z) == {tc[w][k] : k \in a..z}

\* The next n records of w are one system call: one direction, one block after
\* the other.
NextRun(w, n, rw) ==
    /\ n \in Nat \ {0} /\ replayed[w] + n <= Len(tc[w])
    /\ \A k \in replayed[w] + 1..replayed[w] + n :
          /\ Info(w, k).rw = rw
          /\ Info(w, k).lba = Info(w, replayed[w] + 1).lba
                               + SECTORS_PER_BLK * (k - (replayed[w] + 1))

\* The records of a run touch different lbas.
LEMMA RunLbas ==
    ASSUME RInv, Started, NEW w \in Workers, NEW n, NEW rw, NextRun(w, n, rw),
           NEW k \in replayed[w] + 1..replayed[w] + n,
           NEW y \in replayed[w] + 1..replayed[w] + n,
           Info(w, k).lba = Info(w, y).lba
    PROVE  k = y
<1>1. PICK r : r = replayed[w]
  OBVIOUS
<1>2. r \in Nat /\ n \in Nat \ {0} /\ r + n <= Len(tc[w]) /\ Len(tc[w]) \in Nat
  BY <1>1, AfterStart DEF NextRun
<1>3. PICK l : l = Info(w, r + 1).lba
  OBVIOUS
<1>4. l \in Nat
  <2>1. r + 1 \in 1..Len(tc[w])
    BY <1>2
  <2> QED BY <1>3, <2>1, AfterStart, PosType
<1>5. /\ Info(w, k).lba = l + SECTORS_PER_BLK * (k - (r + 1))
      /\ Info(w, y).lba = l + SECTORS_PER_BLK * (y - (r + 1))
  BY <1>1, <1>3 DEF NextRun
<1>6. k \in r + 1..r + n /\ y \in r + 1..r + n
  BY <1>1
<1>7. l + 8 * (k - (r + 1)) = l + 8 * (y - (r + 1))
  BY <1>5 DEF SECTORS_PER_BLK
<1> HIDE DEF SECTORS_PER_BLK
<1> QED BY <1>2, <1>4, <1>6, <1>7

\* They have not taken effect yet, and what comes before them on their lbas has:
\* the records of an lba are all in one plan, in the order of the trace.
LEMMA RunIsDue ==
    ASSUME RInv, Started, NEW w \in Workers, NEW n, NEW rw, NextRun(w, n, rw),
           NEW S, S = Records(w, replayed[w] + 1, replayed[w] + n)
    PROVE  S \in SUBSET (DOMAIN infos \ Performed) /\ Disk!Due(S, rw)
<1>1. PICK r, z : r = replayed[w] /\ z = r + n
  OBVIOUS
<1>2. r \in Nat /\ n \in Nat \ {0} /\ z \in Nat /\ z <= Len(tc[w]) /\ Len(tc[w]) \in Nat
  BY <1>1, AfterStart DEF NextRun
<1>3. /\ GoodPlan /\ \A v \in Workers : DOMAIN tc[v] = 1..Len(tc[v])
      /\ \A v \in Workers : /\ replayed[v] \in Nat /\ Len(tc[v]) \in Nat
                            /\ replayed[v] <= Len(tc[v])
      /\ infos \in Seq(trace_info)
  BY AfterStart DEF GoodPlan
<1>4. S = {tc[w][k] : k \in r + 1..z}
  BY <1>1 DEF Records
<1>5. r + 1..z \subseteq 1..Len(tc[w])
  BY <1>2
<1>6. \A m : m \in Performed <=>
          \E v \in Workers : \E k \in 1..replayed[v] : m = tc[v][k]
  BY PerformedIs
<1>7. ASSUME NEW k \in r + 1..z
      PROVE  /\ tc[w][k] \in DOMAIN infos /\ infos[tc[w][k]].rw = rw
             /\ tc[w][k] \notin Performed
  <2>1. k \in 1..Len(tc[w])
    BY <1>5
  <2>2. tc[w][k] \in DOMAIN infos
    <3>1. tc[w][k] \in 1..valid_lines
      BY <1>3, <2>1, PosType
    <3> QED BY <1>3, <3>1 DEF valid_lines
  <2>3. infos[tc[w][k]].rw = rw
    BY <1>1 DEF NextRun, Info
  <2>4. ASSUME NEW v \in Workers, NEW y \in 1..replayed[v], tc[w][k] = tc[v][y]
        PROVE  FALSE
    <3>1. y \in 1..Len(tc[v])
      BY <1>3
    <3>2. tc[v][y] \in ToSet(tc[v]) /\ tc[w][k] \in ToSet(tc[w])
      BY <1>3, <2>1, <3>1, PosType
    <3>3. v = w
      BY <1>3, <2>4, <3>2 DEF GoodPlan
    <3>4. y = k
      BY <1>3, <2>1, <2>4, <3>1, <3>3 DEF GoodPlan, IsInjective
    <3> QED BY <1>1, <1>2, <3>3, <3>4
  <2> QED BY <1>6, <2>2, <2>3, <2>4
<1>8. ASSUME NEW k \in r + 1..z, NEW m \in DOMAIN infos, Disk!Before(m, tc[w][k])
      PROVE  m \in Performed
  <2>1. k \in 1..Len(tc[w])
    BY <1>5
  <2>2. /\ infos[m].lba = Info(w, k).lba
        /\ \/ infos[m].ts < Info(w, k).ts
           \/ infos[m].ts = Info(w, k).ts /\ m < tc[w][k]
    BY <1>8 DEF Disk!Before, Info
  <2>3. PICK v \in Workers : m \in ToSet(tc[v])
    <3>1. m \in 1..valid_lines
      BY <1>3 DEF valid_lines
    <3> QED BY <1>3, <3>1 DEF GoodPlan
  <2>4. v = w
    <3>1. tc[w][k] \in ToSet(tc[w])
      BY <1>3, <2>1, PosType
    <3> QED BY <1>3, <2>2, <2>3, <3>1 DEF GoodPlan, Info
  <2>5. PICK y \in DOMAIN tc[w] : m = tc[w][y]
    BY <2>3, <2>4 DEF ToSet
  <2>6. y \in 1..Len(tc[w]) /\ Info(w, y) = infos[m]
    BY <1>3, <2>5 DEF Info
  <2>7. /\ Info(w, y).ts \in Nat /\ Info(w, k).ts \in Nat
        /\ tc[w][y] \in Nat /\ tc[w][k] \in Nat
    <3>1. tc[w][y] \in DOMAIN infos /\ tc[w][k] \in DOMAIN infos
      BY <1>7, <2>5
    <3>2. Info(w, y) \in trace_info /\ Info(w, k) \in trace_info
      BY <1>3, <3>1, ElementType DEF Info
    <3>3. Info(w, y).ts \in Timestamps /\ Info(w, k).ts \in Timestamps
      BY <3>2 DEF trace_info
    <3>4. tc[w][y] \in Nat /\ tc[w][k] \in Nat
      BY <1>3, <3>1
    <3> QED BY <3>3, <3>4, ConstantsAssumption
  <2>8. y # k
    BY <2>2, <2>5, <2>6, <2>7
  <2>9. ~(k < y)
    <3> SUFFICES ASSUME k < y PROVE FALSE
      OBVIOUS
    <3>1. \/ Info(w, k).ts < Info(w, y).ts
          \/ Info(w, k).ts = Info(w, y).ts /\ tc[w][k] < tc[w][y]
      BY <1>3, <2>1, <2>2, <2>5, <2>6 DEF GoodPlan, InTraceOrder
    <3> QED BY <2>2, <2>5, <2>6, <2>7, <3>1
  <2>10. y <= r
    <3> SUFFICES ASSUME ~(y <= r) PROVE FALSE
      OBVIOUS
    <3>1. y \in r + 1..z /\ k \in r + 1..z
      BY <1>2, <2>1, <2>6, <2>9
    <3>2. y = k
      BY <1>1, <2>2, <2>6, <3>1, RunLbas
    <3> QED BY <2>8, <3>2
  <2>11. y \in 1..replayed[w]
    BY <1>1, <1>2, <2>6, <2>10
  <2> QED BY <1>6, <2>5, <2>11
<1>9. S # {}
  <2>1. r + 1 \in r + 1..z
    BY <1>1, <1>2
  <2> QED BY <1>4, <2>1
<1>10. Disk!Due(S, rw)
  <2>1. ASSUME NEW m \in S
        PROVE  /\ infos[m].rw = rw /\ m \notin Performed
               /\ \A a \in DOMAIN infos : Disk!Before(a, m) => a \in Performed
    BY <1>4, <1>7, <1>8
  <2> QED BY <1>9, <2>1 DEF Disk!Due
<1> QED BY <1>4, <1>7, <1>10

\* After n more records of w.
LEMMA RunPerformed ==
    ASSUME RInv, RInv', Started, Started', UNCHANGED <<threads, tc>>,
           NEW w \in Workers, NEW n \in Nat, replayed'[w] = replayed[w] + n,
           \A v \in Workers : v # w => replayed'[v] = replayed[v],
           NEW S, S = Records(w, replayed[w] + 1, replayed[w] + n)
    PROVE  Performed' = Performed \cup S
<1>1. Workers' = Workers
  BY DEF Workers
<1>2. \A m : m \in Performed <=> \E v \in Workers : \E k \in 1..replayed[v] : m = tc[v][k]
  BY PerformedIs
<1>3. \A m : m \in Performed' <=> \E v \in Workers : \E k \in 1..replayed'[v] : m = tc[v][k]
  BY <1>1, PerformedNext
<1>4. PICK r, z : r = replayed[w] /\ z = r + n
  OBVIOUS
<1>5. r \in Nat
  BY <1>4, AfterStart
<1>6. S = {tc[w][k] : k \in r + 1..z} /\ replayed'[w] = z /\ replayed[w] = r
  BY <1>4 DEF Records
<1>7. 1..z = (1..r) \cup (r + 1..z)
  BY <1>4, <1>5
<1>8. ASSUME NEW m \in Performed' PROVE m \in Performed \cup S
  <2>a. PICK v \in Workers : \E k \in 1..replayed'[v] : m = tc[v][k]
    BY <1>3
  <2>1. PICK k \in 1..replayed'[v] : m = tc[v][k]
    BY <2>a
  <2>2. CASE v # w
    BY <1>2, <2>1, <2>2
  <2>3. CASE v = w
    BY <1>2, <1>6, <1>7, <2>1, <2>3
  <2> QED BY <2>2, <2>3
<1>9. ASSUME NEW m \in Performed PROVE m \in Performed'
  <2>a. PICK v \in Workers : \E k \in 1..replayed[v] : m = tc[v][k]
    BY <1>2
  <2>1. PICK k \in 1..replayed[v] : m = tc[v][k]
    BY <2>a
  <2>2. CASE v # w
    BY <1>3, <2>1, <2>2
  <2>3. CASE v = w
    <3>1. k \in 1..replayed'[v]
      BY <1>6, <1>7, <2>1, <2>3
    <3> QED BY <1>3, <2>1, <3>1
  <2> QED BY <2>2, <2>3
<1>10. ASSUME NEW m \in S PROVE m \in Performed'
  <2>1. PICK k \in r + 1..z : m = tc[w][k]
    BY <1>6
  <2>2. k \in 1..replayed'[w]
    BY <1>6, <1>7
  <2> QED BY <1>3, <2>1, <2>2
<1> QED BY <1>8, <1>9, <1>10

\* Two lbas are the same when their blocks are.
LEMMA BlockNumber ==
    /\ \A l \in LBAs : /\ l \in Nat /\ l \div SECTORS_PER_BLK \in Nat
                       /\ l = 8 * (l \div SECTORS_PER_BLK)
    /\ \A l, m \in LBAs : l \div SECTORS_PER_BLK = m \div SECTORS_PER_BLK => l = m
<1>1. ASSUME NEW l \in LBAs
      PROVE  /\ l \in Nat /\ l \div SECTORS_PER_BLK \in Nat
             /\ l = 8 * (l \div SECTORS_PER_BLK)
  <2>1. l \in Nat /\ l % 8 = 0
    BY ConstantsAssumption, AlignedLBAs DEF SECTORS_PER_BLK
  <2>2. l \div 8 \in Nat /\ l = 8 * (l \div 8)
    BY <2>1
  <2> QED BY <2>1, <2>2 DEF SECTORS_PER_BLK
<1> QED BY <1>1

\* Record k of a run is at block k - 1 of the system call.
LEMMA RunBlocks ==
    ASSUME RInv, Started, NEW w \in Workers, NEW n, NEW rw, NextRun(w, n, rw),
           NEW at, at = Info(w, replayed[w] + 1).lba \div SECTORS_PER_BLK,
           NEW x \in 1..n
    PROVE  /\ at \in Nat /\ replayed[w] + x \in 1..Len(tc[w])
           /\ Info(w, replayed[w] + x).lba \in LBAs
           /\ Info(w, replayed[w] + x).lba \div SECTORS_PER_BLK + 1 = at + x
<1>1. PICK r, k : r = replayed[w] /\ k = r + x
  OBVIOUS
<1>2. r \in Nat /\ n \in Nat \ {0} /\ r + n <= Len(tc[w]) /\ Len(tc[w]) \in Nat
  BY <1>1, AfterStart DEF NextRun
<1>3. r + 1 \in 1..Len(tc[w]) /\ k \in 1..Len(tc[w]) /\ k \in r + 1..r + n
  BY SMTT(30), <1>1, <1>2
<1>4. Info(w, r + 1).lba \in LBAs /\ Info(w, k).lba \in LBAs
  BY <1>3, AfterStart, PosType
<1>5. Info(w, k).lba = Info(w, r + 1).lba + SECTORS_PER_BLK * (k - (r + 1))
  BY <1>1, <1>3 DEF NextRun
<1>6. PICK a, l, d : /\ a = Info(w, r + 1).lba /\ l = Info(w, k).lba
                     /\ d = l \div SECTORS_PER_BLK
  OBVIOUS
<1>7. /\ a \in Nat /\ l \in Nat /\ at \in Nat /\ d \in Nat
      /\ a = 8 * at /\ l = 8 * d
  BY <1>1, <1>4, <1>6, BlockNumber
<1>8. l = a + 8 * (k - (r + 1))
  BY <1>5, <1>6 DEF SECTORS_PER_BLK
<1>9. k = r + x /\ x \in Nat
  BY <1>1, <1>2
<1>10. d + 1 = at + x
  BY SMTT(30), <1>2, <1>7, <1>8, <1>9
<1> QED BY <1>1, <1>3, <1>4, <1>6, <1>7, <1>10

\* Who owns an lba depends on the plan only.
LEMMA OwnerStays ==
    ASSUME UNCHANGED <<threads, infos, tc, Started>>
    PROVE  \A l : Owner(l)' = Owner(l)
<1> SUFFICES ASSUME NEW l PROVE Owner(l)' = Owner(l)
  OBVIOUS
<1>1. Workers' = Workers /\ \A w : Owns(w, l)' <=> Owns(w, l)
  BY DEF Workers, Owns, Info
<1>2. (CHOOSE w \in Workers : Owns(w, l))' = CHOOSE w \in Workers : Owns(w, l)
  BY DEF Workers, Owns, Info
<1>3. (\E w \in Workers : Owns(w, l))' <=> \E w \in Workers : Owns(w, l)
  BY <1>1
<1> QED BY <1>2, <1>3 DEF Owner

\* A write shows on the disk at the lbas of its records, and nowhere else.
LEMMA WriteCells ==
    ASSUME RInv, Started, UNCHANGED <<threads, infos, tc, Started>>,
           NEW w \in Workers, NEW n, NextRun(w, n, "W"),
           NEW at, at = Info(w, replayed[w] + 1).lba \div SECTORS_PER_BLK,
           NEW q \in Seq(Old..valid_lines), Len(q) = n,
           \A x \in 1..n : q[x] = tc[w][replayed[w] + x],
           file'[w] = Overlay(file[w], at, q),
           \A v \in AllWorkers : v # w => file'[v] = file[v],
           NEW S, S = Records(w, replayed[w] + 1, replayed[w] + n)
    PROVE  Cell' = [l \in LBAs |-> IF \E m \in S : infos[m].lba = l
                                   THEN CHOOSE m \in S : infos[m].lba = l
                                   ELSE Cell[l]]
<1> DEFINE Block(l) == l \div SECTORS_PER_BLK + 1
<1>1. PICK r, f, g : r = replayed[w] /\ f = file[w] /\ g = file'[w]
  OBVIOUS
<1>2. /\ r \in Nat /\ n \in Nat \ {0} /\ r + n <= Len(tc[w]) /\ Len(tc[w]) \in Nat
      /\ f \in Seq(Old..valid_lines) /\ Len(f) \in Nat /\ valid_lines \in Nat /\ GoodPlan
  BY <1>1, AfterStart DEF NextRun
<1>3. \A x \in 1..n : /\ at \in Nat /\ r + x \in 1..Len(tc[w]) /\ Info(w, r + x).lba \in LBAs
                      /\ Block(Info(w, r + x).lba) = at + x
  BY <1>1, RunBlocks
<1>4. at \in Nat
  <2>1. 1 \in 1..n
    BY <1>2
  <2> QED BY <1>3, <2>1
<1>5. S = {tc[w][k] : k \in r + 1..r + n}
  BY <1>1 DEF Records
<1>6. /\ Len(g) \in Nat /\ Len(g) >= Len(f) /\ Len(g) >= at + n
      /\ \A x \in 1..n : g[at + x] = q[x]
      /\ \A k \in 1..Len(g) : k \notin at + 1..at + n =>
            g[k] = IF k <= Len(f) THEN f[k] ELSE Zero
  <2>1. PICK T : T = Old..valid_lines
    OBVIOUS
  <2>2. f \in Seq(T) /\ q \in Seq(T) /\ Zero \in T /\ g = Overlay(f, at, q)
    BY <1>1, <1>2, <2>1 DEF Old, Zero
  <2>3. Len(g) \in Nat /\ Len(g) >= Len(f) /\ Len(g) >= at + Len(q)
    BY <1>4, <2>2, OverlaySeq
  <2>4. \A k \in 1..Len(q) : g[at + k] = q[k]
    BY <1>4, <2>2, OverlaySeq
  <2>5. \A k \in 1..Len(g) : k \notin at + 1..at + Len(q) =>
            g[k] = IF k <= Len(f) THEN f[k] ELSE Zero
    BY <1>4, <2>2, OverlaySeq
  <2> QED BY <2>3, <2>4, <2>5
<1>7. \A l \in LBAs : Cell'[l] = BlockAt(file'[Owner(l)], l) /\ Cell[l] = BlockAt(file[Owner(l)], l)
  <2>1. Cell' = [l \in LBAs |-> BlockAt(file'[Owner(l)'], l)]
    BY DEF Cell, BlockAt
  <2>2. Cell = [l \in LBAs |-> BlockAt(file[Owner(l)], l)]
    BY DEF Cell
  <2> QED BY <2>1, <2>2, OwnerStays
<1>8. ASSUME NEW l \in LBAs, NEW m \in S, infos[m].lba = l
      PROVE  Cell'[l] = m
  <2>1. PICK k \in r + 1..r + n : m = tc[w][k]
    BY <1>5
  <2>2. PICK x : x = k - r
    OBVIOUS
  <2>3. x \in 1..n /\ k = r + x
    BY <1>2, <2>2
  <2>a. r + x \in 1..Len(tc[w])
    BY <1>3, <2>1, <2>3
  <2>b. Info(w, r + x).lba = l
    BY <1>8, <2>1, <2>3 DEF Info
  <2>c. Block(Info(w, r + x).lba) = at + x
    BY <1>3, <2>3
  <2>4. Info(w, r + x).lba = l /\ r + x \in 1..Len(tc[w]) /\ Block(l) = at + x
    BY <2>a, <2>b, <2>c
  <2>5. Owner(l) = w
    BY <1>2, <2>4, OwnerIs
  <2>6. g[at + x] = m
    BY <1>1, <1>6, <2>1, <2>3
  <2>7. Block(l) <= Len(g)
    BY <1>2, <1>4, <1>6, <2>3, <2>4
  <2>8. BlockAt(g, l) = g[Block(l)]
    BY <2>7 DEF BlockAt
  <2> QED BY <1>1, <1>7, <2>4, <2>5, <2>6, <2>8
<1>9. ASSUME NEW l \in LBAs, ~ \E m \in S : infos[m].lba = l
      PROVE  Cell'[l] = Cell[l]
  <2>1. CASE Owner(l) # w
    <3>1. file'[Owner(l)] = file[Owner(l)]
      BY <2>1, OwnerType
    <3> QED BY <1>7, <3>1
  <2>2. CASE Owner(l) = w
    <3>1. PICK p : p = Block(l)
      OBVIOUS
    <3>2. p \in Nat \ {0} /\ l \div SECTORS_PER_BLK \in Nat
      BY <3>1, BlockNumber
    <3>3. p \notin at + 1..at + n
      <4> SUFFICES ASSUME p \in at + 1..at + n PROVE FALSE
        OBVIOUS
      <4>1. PICK x : x = p - at
        OBVIOUS
      <4>2. x \in 1..n /\ at + x = p
        BY SMTT(30), <1>2, <1>4, <3>2, <4>1
      <4>3. /\ Info(w, r + x).lba \in LBAs /\ Block(Info(w, r + x).lba) = p
            /\ r + x \in r + 1..r + n
        BY <1>2, <1>3, <4>2
      <4>4. Info(w, r + x).lba \div SECTORS_PER_BLK = l \div SECTORS_PER_BLK
        <5>1. Info(w, r + x).lba \div SECTORS_PER_BLK \in Nat
          BY <4>3, BlockNumber
        <5> QED BY <3>1, <3>2, <4>3, <5>1
      <4>5. Info(w, r + x).lba = l
        BY <4>3, <4>4, BlockNumber
      <4>6. tc[w][r + x] \in S
        BY <1>5, <4>3
      <4> QED BY <1>9, <4>5, <4>6 DEF Info
    <3>4. BlockAt(g, l) = IF p <= Len(g) THEN g[p] ELSE Zero
      BY <3>1 DEF BlockAt
    <3>5. BlockAt(f, l) = IF p <= Len(f) THEN f[p] ELSE Zero
      BY <3>1 DEF BlockAt
    <3>6. BlockAt(g, l) = BlockAt(f, l)
      BY <1>2, <1>6, <3>2, <3>3, <3>4, <3>5
    <3> QED BY <1>1, <1>7, <2>2, <3>6
  <2> QED BY <2>1, <2>2
<1>10. ASSUME NEW l \in LBAs, \E m \in S : infos[m].lba = l
       PROVE  Cell'[l] = CHOOSE m \in S : infos[m].lba = l
  <2>1. PICK c : c = CHOOSE m \in S : infos[m].lba = l
    OBVIOUS
  <2>2. c \in S /\ infos[c].lba = l
    BY <1>10, <2>1
  <2> QED BY <1>8, <2>1, <2>2
<1>11. Cell' = [l \in LBAs |-> Cell'[l]]
  BY DEF Cell
<1> QED BY <1>9, <1>10, <1>11

\* A read that has been dumped, and what it saw.
Answered(v, k, a) ==
    /\ k \in 1..replayed[v]
    /\ Info(v, k).rw = "R" /\ PlaceInDump(v, k) \in DOMAIN dump[v]
    /\ a = <<tc[v][k], dump[v][PlaceInDump(v, k)]>>

\* The answers are those of the reads that have been dumped.
LEMMA AnswersIs ==
    Started => \A a : a \in Answers <=> \E v \in Workers : \E k \in Nat : Answered(v, k, a)
<1> SUFFICES ASSUME Started, NEW a
             PROVE  a \in Answers <=> \E v \in Workers : \E k \in Nat : Answered(v, k, a)
  OBVIOUS
<1>1. a \in Answers <=>
          \E v \in Workers :
              a \in {<<tc[v][k], dump[v][PlaceInDump(v, k)]>> : k \in Dumped(v)}
  BY DEF Answers
<1>2. ASSUME NEW v \in Workers
      PROVE  a \in {<<tc[v][k], dump[v][PlaceInDump(v, k)]>> : k \in Dumped(v)} <=>
                 \E k \in Dumped(v) : a = <<tc[v][k], dump[v][PlaceInDump(v, k)]>>
  OBVIOUS
<1>3. ASSUME NEW v \in Workers
      PROVE  (\E k \in Dumped(v) : a = <<tc[v][k], dump[v][PlaceInDump(v, k)]>>) <=>
                 \E k \in Nat : Answered(v, k, a)
  BY DEF Dumped, Answered
<1> QED BY <1>1, <1>2, <1>3

\* The same in the next state.
LEMMA AnswersNext ==
    (Started => \A a : a \in Answers <=> \E v \in Workers : \E k \in Nat : Answered(v, k, a))'
  BY AnswersIs, PTL

\* A read is dumped in front of those after it.
LEMMA PlaceGrows ==
    ASSUME NEW w, NEW k \in Nat, NEW r \in Nat, k <= r
    PROVE  PlaceInDump(w, k) \in Nat /\ PlaceInDump(w, k) <= PlaceInDump(w, r)
<1> DEFINE A == {m \in 1..k : Info(w, m).rw = "R"}
           B == {m \in 1..r : Info(w, m).rw = "R"}
<1>1. IsFiniteSet(A) /\ Cardinality(A) \in Nat /\ IsFiniteSet(B)
  BY RecordSet
<1>2. A \subseteq B
  OBVIOUS
<1> HIDE DEF A, B
<1>3. Cardinality(A) <= Cardinality(B)
  BY <1>1, <1>2, FS_Subset
<1> QED BY <1>1, <1>3 DEF PlaceInDump, A, B

\* The place of a record depends on the plan only.
LEMMA PlaceStays ==
    ASSUME UNCHANGED <<infos, tc>>
    PROVE  \A v, k : PlaceInDump(v, k)' = PlaceInDump(v, k) /\ Info(v, k)' = Info(v, k)
  BY DEF PlaceInDump, Info

\* A write answers no read.
LEMMA WriteAnswers ==
    ASSUME RInv, Started, UNCHANGED <<threads, infos, tc, Started, dump>>,
           NEW w \in Workers, NEW n, NextRun(w, n, "W"),
           replayed'[w] = replayed[w] + n,
           \A v \in Workers : v # w => replayed'[v] = replayed[v]
    PROVE  Answers' = Answers
<1>1. Workers' = Workers /\ Started'
  BY DEF Workers
<1>2. PICK r : r = replayed[w]
  OBVIOUS
<1>3. r \in Nat /\ n \in Nat \ {0} /\ \A k \in r + 1..r + n : Info(w, k).rw = "W"
  BY <1>2, AfterStart DEF NextRun
<1>4. ASSUME NEW v \in Workers, NEW k \in Nat, Info(v, k).rw = "R"
      PROVE  k \in 1..replayed'[v] <=> k \in 1..replayed[v]
  <2>1. CASE v # w
    BY <2>1
  <2>2. CASE v = w
    <3>1. k \notin r + 1..r + n
      BY <1>3, <1>4, <2>2
    <3> QED BY <1>2, <1>3, <2>2, <3>1
  <2> QED BY <2>1, <2>2
<1>5. ASSUME NEW v \in Workers, NEW k \in Nat, NEW a
      PROVE  Answered(v, k, a)' <=> Answered(v, k, a)
  <2>1. PlaceInDump(v, k)' = PlaceInDump(v, k) /\ Info(v, k)' = Info(v, k)
    BY PlaceStays
  <2> QED BY <1>4, <2>1 DEF Answered
<1>6. \A a : a \in Answers <=> \E v \in Workers : \E k \in Nat : Answered(v, k, a)
  BY AnswersIs
<1>7. \A a : a \in Answers' <=> \E v \in Workers : \E k \in Nat : Answered(v, k, a)'
  BY <1>1, AnswersNext
<1>8. \A a : a \in Answers' <=> a \in Answers
  BY <1>5, <1>6, <1>7
<1> QED BY <1>8

\* A read that is over adds what its records see on the disk.
LEMMA ReadAnswers ==
    ASSUME RInv, Started, UNCHANGED <<threads, infos, tc, Started>>,
           NEW w \in Workers, NEW n, NextRun(w, n, "R"), is_dump_read,
           replayed'[w] = replayed[w] + n,
           \A v \in Workers : v # w => replayed'[v] = replayed[v] /\ dump'[v] = dump[v],
           NEW q \in Seq(Junk..valid_lines), Len(q) = n, dump'[w] = dump[w] \o q,
           NEW S, S = Records(w, replayed[w] + 1, replayed[w] + n),
           \A x \in 1..n : q[x] = Cell[Info(w, replayed[w] + x).lba]
    PROVE  Answers' = Answers \cup {<<m, Cell[infos[m].lba]>> : m \in S}
<1>1. Workers' = Workers /\ Started'
  BY DEF Workers
<1>2. PICK r, d, L : r = replayed[w] /\ d = dump[w] /\ L = Len(d)
  OBVIOUS
<1>3. /\ r \in Nat /\ n \in Nat \ {0} /\ \A k \in r + 1..r + n : Info(w, k).rw = "R"
      /\ d \in Seq(Junk..valid_lines) /\ L \in Nat /\ L = PlaceInDump(w, r)
  BY <1>2, AfterStart DEF NextRun, DumpedAll
<1>4. /\ DOMAIN d = 1..L /\ DOMAIN dump'[w] = 1..L + n
      /\ \A x \in 1..L : dump'[w][x] = d[x]
      /\ \A x \in 1..n : dump'[w][L + x] = q[x]
  <2>1. PICK T, e : T = Junk..valid_lines /\ e = dump'[w]
    OBVIOUS
  <2>2. d \in Seq(T) /\ q \in Seq(T) /\ e = d \o q
    BY <1>2, <1>3, <2>1
  <2>3. DOMAIN e = 1..Len(d) + Len(q) /\ DOMAIN d = 1..Len(d)
    BY <2>2
  <2>4. \A x \in 1..Len(d) : e[x] = d[x]
    BY <2>2
  <2>5. ASSUME NEW x \in 1..Len(q) PROVE e[Len(d) + x] = q[x]
    BY <2>2
  <2> QED BY <1>2, <2>1, <2>3, <2>4, <2>5
<1>5. S = {tc[w][k] : k \in r + 1..r + n} /\ replayed'[w] = r + n /\ replayed[w] = r
  BY <1>2 DEF Records
<1>p. \A v, k : PlaceInDump(v, k)' = PlaceInDump(v, k) /\ Info(v, k)' = Info(v, k)
  BY PlaceStays
<1>6. ASSUME NEW v \in Workers, NEW k \in Nat, v # w \/ k <= r, NEW a
      PROVE  Answered(v, k, a)' <=> Answered(v, k, a)
  <2>1. CASE v # w
    BY <1>p, <2>1 DEF Answered
  <2>2. CASE v = w /\ k <= r
    <3>1. PlaceInDump(w, k) \in Nat /\ PlaceInDump(w, k) <= L
      BY <1>3, <2>2, PlaceGrows
    <3>2. PlaceInDump(w, k) \in DOMAIN dump'[w] <=> PlaceInDump(w, k) \in DOMAIN d
      BY <1>3, <1>4, <3>1
    <3>3. PlaceInDump(w, k) \in DOMAIN d =>
              dump'[w][PlaceInDump(w, k)] = d[PlaceInDump(w, k)]
      BY <1>4
    <3>4. k \in 1..replayed'[w] <=> k \in 1..replayed[w]
      BY <1>3, <1>5, <2>2
    <3> QED BY <1>2, <1>p, <2>2, <3>2, <3>3, <3>4 DEF Answered
  <2> QED BY <1>6, <2>1, <2>2
<1>7. ASSUME NEW x \in 1..n, NEW k, k = r + x, NEW a
      PROVE  Answered(w, k, a)' <=> a = <<tc[w][k], Cell[Info(w, k).lba]>>
  <2>1. k \in r + 1..r + n /\ k \in 1..r + n /\ x \in Nat /\ \A y \in r + 1..k : y \in r + 1..r + n
    BY <1>3, <1>7
  <2>2. PlaceInDump(w, k) = L + x
    <3>1. \A y \in r + 1..k : Info(w, y).rw = "R"
      BY <1>3, <2>1
    <3>2. PlaceInDump(w, k) = PlaceInDump(w, r) + x
      BY <1>3, <1>7, <2>1, <3>1, PlaceOfRun
    <3> QED BY <1>3, <3>2
  <2>3. L + x \in DOMAIN dump'[w] /\ dump'[w][L + x] = Cell[Info(w, k).lba]
    <3>1. L + x \in 1..L + n
      BY <1>3, <2>1
    <3>2. q[x] = Cell[Info(w, k).lba]
      BY <1>2, <1>7
    <3> QED BY <1>4, <3>1, <3>2
  <2> QED BY <1>3, <1>5, <1>p, <2>1, <2>2, <2>3 DEF Answered
<1>8. \A a : a \in Answers <=> \E v \in Workers : \E k \in Nat : Answered(v, k, a)
  BY AnswersIs
<1>9. \A a : a \in Answers' <=> \E v \in Workers : \E k \in Nat : Answered(v, k, a)'
  BY <1>1, AnswersNext
<1>10. \A a : a \in {<<m, Cell[infos[m].lba]>> : m \in S} <=>
              \E k \in r + 1..r + n : a = <<tc[w][k], Cell[Info(w, k).lba]>>
  <2>2. S = {tc[w][k] : k \in r + 1..r + n}
    BY <1>5
  <2>3. \A m : m \in S <=> \E k \in r + 1..r + n : m = tc[w][k]
    BY <2>2
  <2>4. ASSUME NEW a
        PROVE  a \in {<<m, Cell[infos[m].lba]>> : m \in S} <=>
                   \E m \in S : a = <<m, Cell[infos[m].lba]>>
    OBVIOUS
  <2>5. ASSUME NEW a
        PROVE  (\E m \in S : a = <<m, Cell[infos[m].lba]>>) <=>
                   \E k \in r + 1..r + n : a = <<tc[w][k], Cell[infos[tc[w][k]].lba]>>
    <3>1. ASSUME NEW m \in S, a = <<m, Cell[infos[m].lba]>>
          PROVE  \E k \in r + 1..r + n : a = <<tc[w][k], Cell[infos[tc[w][k]].lba]>>
      <4>1. PICK k \in r + 1..r + n : m = tc[w][k]
        BY <2>3
      <4> QED BY <3>1, <4>1
    <3>2. ASSUME NEW k \in r + 1..r + n, a = <<tc[w][k], Cell[infos[tc[w][k]].lba]>>
          PROVE  \E m \in S : a = <<m, Cell[infos[m].lba]>>
      <4>1. tc[w][k] \in S
        BY <2>3
      <4> QED BY <3>2, <4>1
    <3> QED BY <3>1, <3>2
  <2>6. ASSUME NEW a
        PROVE  (\E k \in r + 1..r + n : a = <<tc[w][k], Cell[infos[tc[w][k]].lba]>>) <=>
                   \E k \in r + 1..r + n : a = <<tc[w][k], Cell[Info(w, k).lba]>>
    BY DEF Info
  <2> QED BY <2>4, <2>5, <2>6
<1>11. ASSUME NEW a \in Answers' PROVE a \in Answers \cup {<<m, Cell[infos[m].lba]>> : m \in S}
  <2>a. PICK v \in Workers : \E k \in Nat : Answered(v, k, a)'
    BY <1>9
  <2>1. PICK k \in Nat : Answered(v, k, a)'
    BY <2>a
  <2>2. CASE v # w \/ k <= r
    BY <1>6, <1>8, <2>1, <2>2
  <2>3. CASE v = w /\ k > r
    <3>1. k \in 1..r + n
      BY <1>5, <2>1, <2>3 DEF Answered
    <3>2. PICK x : x = k - r
      OBVIOUS
    <3>3. x \in 1..n /\ k = r + x /\ k \in r + 1..r + n
      BY <1>3, <2>3, <3>1, <3>2
    <3> QED BY <1>7, <1>10, <2>1, <2>3, <3>3
  <2> QED BY <1>3, <2>2, <2>3
<1>12. ASSUME NEW a \in Answers PROVE a \in Answers'
  <2>a. PICK v \in Workers : \E k \in Nat : Answered(v, k, a)
    BY <1>8
  <2>1. PICK k \in Nat : Answered(v, k, a)
    BY <2>a
  <2>2. v # w \/ k <= r
    BY <1>3, <1>5, <2>1 DEF Answered
  <2> QED BY <1>6, <1>9, <2>1, <2>2
<1>13. ASSUME NEW a \in {<<m, Cell[infos[m].lba]>> : m \in S} PROVE a \in Answers'
  <2>1. PICK k \in r + 1..r + n : a = <<tc[w][k], Cell[Info(w, k).lba]>>
    BY <1>10
  <2>2. PICK x : x = k - r
    OBVIOUS
  <2>3. x \in 1..n /\ k = r + x /\ k \in Nat
    BY <1>3, <2>2
  <2> QED BY <1>7, <1>9, <2>1, <2>3
<1> QED BY <1>11, <1>12, <1>13

\* The disk is the same while the plan, the files, the dumps and the records
\* replayed are.
LEMMA DiskStays ==
    ASSUME UNCHANGED <<threads, infos, tc, file, dump, replayed, is_dump_read, Started>>
    PROVE  UNCHANGED Disk!diskVars
<1>1. Cell' = Cell
  <2>1. Cell' = [l \in LBAs |-> BlockAt(file'[Owner(l)'], l)]
    BY DEF Cell, BlockAt
  <2>2. Cell = [l \in LBAs |-> BlockAt(file[Owner(l)], l)]
    BY DEF Cell
  <2> QED BY <2>1, <2>2, OwnerStays
<1>2. Performed' = Performed
  BY DEF Performed, Workers
<1>3. Answers' = Answers
  BY DEF Answers, Dumped, Workers, PlaceInDump, Info
<1> QED BY <1>1, <1>2, <1>3 DEF Disk!diskVars

\* A write of n blocks.
LEMMA WriteStep ==
    ASSUME RInv, RInv', NEW w \in AllWorkers, Writing(w), mode # "a",
           NEW n \in 1..Blks(w), Store(w, n),
           UNCHANGED <<threads, infos, tc, is_dump_read>>, Started'
    PROVE  Disk!Next
<1>1. /\ phase = "start" /\ w \in Workers
      /\ hint[w] \in hints_start[w] + 1..hints_end[w] /\ Len(blk[w]) >= buf[w]
      /\ replayed[w] + 1 = Cur(w).start_trace_line
      /\ \A k \in replayed[w] + 1..replayed[w] + Blks(w) :
            k \in 1..Len(tc[w]) /\ Info(w, k).rw = "W"
  BY WritesOnly
<1>2. Started /\ GoodPlan /\ RType /\ Workers \subseteq AllWorkers
  BY <1>1, InReplay
<1>3. /\ Blks(w) \in Nat /\ Cur(w).start_trace_line + Blks(w) <= Len(tc[w]) + 1
      /\ \A k \in Cur(w).start_trace_line..Cur(w).start_trace_line + Blks(w) - 1 :
            Info(w, k).lba = Info(w, Cur(w).start_trace_line).lba
                              + SECTORS_PER_BLK * (k - Cur(w).start_trace_line)
  BY <1>1, <1>2, CurHint
<1>4. PICK r, s, c, at : /\ r = replayed[w] /\ s = Cur(w).start_trace_line /\ c = Blks(w)
                         /\ at = Info(w, r + 1).lba \div SECTORS_PER_BLK
  OBVIOUS
<1>5. r \in Nat /\ s = r + 1 /\ c \in Nat /\ n \in 1..c /\ Len(tc[w]) \in Nat
  BY <1>1, <1>2, <1>3, <1>4, AfterStart
<1>6. n \in Nat \ {0} /\ n \in 0..Blks(w) /\ r + n <= Len(tc[w])
  BY SMTT(30), <1>3, <1>4, <1>5
<1>7. NextRun(w, n, "W")
  <2>1. ASSUME NEW k \in r + 1..r + n
        PROVE  /\ Info(w, k).rw = "W"
               /\ Info(w, k).lba = Info(w, r + 1).lba + SECTORS_PER_BLK * (k - (r + 1))
    <3>1. k \in r + 1..r + c /\ k \in s..s + c - 1
      BY <1>5
    <3> QED BY <1>1, <1>3, <1>4, <1>5, <3>1
  <2> QED BY <1>4, <1>6, <2>1 DEF NextRun
<1>8. PICK q \in Seq(Old..valid_lines) :
        /\ Len(q) = n
        /\ \A x \in 1..n : q[x] = tc[w][Cur(w).start_trace_line + x - 1]
        /\ file'[w] = Overlay(file[w], WritePos(w), q)
        /\ replayed'[w] = replayed[w] + n
        /\ \A v \in AllWorkers : v # w => file'[v] = file[v] /\ replayed'[v] = replayed[v]
        /\ dump' = dump
  <2>1. PICK q \in Seq(Old..valid_lines) :
          /\ Len(q) = n
          /\ \A x \in 1..n : q[x] = tc[w][Cur(w).start_trace_line + x - 1]
          /\ WritePos(w) \in Nat
          /\ file'[w] = Overlay(file[w], WritePos(w), q)
          /\ file' \in [AllWorkers -> Seq(Old..valid_lines)]
          /\ replayed'[w] = replayed[w] + n
          /\ replayed' \in [AllWorkers -> Nat]
          /\ \A v \in AllWorkers : v # w => file'[v] = file[v] /\ replayed'[v] = replayed[v]
          /\ dump' = dump
    <3>1. /\ GoodPlan /\ RType /\ w \in Workers /\ Len(blk[w]) >= buf[w]
          /\ hint[w] \in hints_start[w] + 1..hints_end[w]
          /\ n \in 0..Blks(w) /\ Store(w, n)
      BY <1>1, <1>2, <1>6
    <3> QED BY <3>1, StoreEffect
  <2> QED BY <2>1
<1>9. WritePos(w) = at
  BY <1>4, <1>5 DEF WritePos, Pos
<1>10. \A x \in 1..n : q[x] = tc[w][replayed[w] + x]
  <2> SUFFICES ASSUME NEW x \in 1..n PROVE q[x] = tc[w][replayed[w] + x]
    OBVIOUS
  <2>1. s + x - 1 = r + x
    BY <1>5
  <2> QED BY <1>4, <1>8, <2>1
<1>11. PICK S : S = Records(w, replayed[w] + 1, replayed[w] + n)
  OBVIOUS
<1>12. S \in SUBSET (DOMAIN infos \ Performed) /\ Disk!Due(S, "W")
  BY <1>2, <1>1, <1>7, <1>11, RunIsDue
<1>13. UNCHANGED Started
  BY <1>2
<1>14. Performed' = Performed \cup S
  BY <1>1, <1>2, <1>6, <1>8, <1>11, RunPerformed
<1>15. Cell' = [l \in LBAs |-> IF \E m \in S : infos[m].lba = l
                               THEN CHOOSE m \in S : infos[m].lba = l
                               ELSE Cell[l]]
  BY <1>1, <1>2, <1>4, <1>7, <1>8, <1>9, <1>10, <1>11, <1>13, WriteCells
<1>16. Answers' = Answers
  BY <1>1, <1>2, <1>7, <1>8, <1>13, WriteAnswers
<1>17. Disk!Write(S)
  BY <1>2, <1>12, <1>13, <1>14, <1>15, <1>16 DEF Disk!Write
<1> QED BY <1>2, <1>12, <1>17 DEF Disk!Next

\* The end of a read.
LEMMA ReadStep ==
    ASSUME RInv, RInv', NEW w \in AllWorkers, EndOfRead(w)
    PROVE  Disk!Next
<1>1. /\ Reading(w) /\ ReadOver(w)
      /\ dump' = IF is_dump_read
                 THEN [dump EXCEPT ![w] = dump[w] \o SubSeq(Zeroed(w), 1, Blks(w))]
                 ELSE dump
      /\ replayed' = [replayed EXCEPT ![w] = replayed[w] + Blks(w)]
      /\ UNCHANGED <<planVars, is_dump_read, created, file>>
  BY DEF EndOfRead
<1>2. UNCHANGED <<phase, threads, infos, tc>>
  BY <1>1 DEF planVars, optVars
<1>3. /\ phase = "start" /\ w \in Workers
      /\ hint[w] \in hints_start[w] + 1..hints_end[w]
      /\ replayed[w] + 1 = Cur(w).start_trace_line
      /\ \A k \in replayed[w] + 1..replayed[w] + Blks(w) :
            k \in 1..Len(tc[w]) /\ Info(w, k).rw = "R"
  BY <1>1, ReadsOnly
<1>4. /\ Started /\ GoodPlan /\ RType /\ Workers \subseteq AllWorkers /\ valid_lines \in Nat
      /\ DumpedAll(w)
  BY <1>3, InReplay
<1>5. Started' /\ UNCHANGED Started
  BY <1>1, <1>2, <1>4 DEF Started
<1>6. /\ Blks(w) \in Nat /\ Blks(w) \in 1..buf[w] /\ buf[w] \in Nat
      /\ Cur(w).start_trace_line + Blks(w) <= Len(tc[w]) + 1
      /\ \A k \in Cur(w).start_trace_line..Cur(w).start_trace_line + Blks(w) - 1 :
            Info(w, k).lba = Info(w, Cur(w).start_trace_line).lba
                              + SECTORS_PER_BLK * (k - Cur(w).start_trace_line)
  BY <1>3, <1>4, CurHint
<1>7. PICK r, s, n, at, z, q :
        /\ r = replayed[w] /\ s = Cur(w).start_trace_line /\ n = Blks(w)
        /\ at = Info(w, r + 1).lba \div SECTORS_PER_BLK
        /\ z = Zeroed(w) /\ q = SubSeq(z, 1, n)
  OBVIOUS
<1>8. /\ r = replayed[w] /\ s = Cur(w).start_trace_line /\ n = Blks(w) /\ z = Zeroed(w)
      /\ at = Info(w, r + 1).lba \div SECTORS_PER_BLK
  BY <1>7
<1>9. r \in Nat /\ s = r + 1 /\ n \in Nat \ {0} /\ Len(tc[w]) \in Nat /\ r + n <= Len(tc[w])
  <2>1. r \in Nat /\ Len(tc[w]) \in Nat
    BY <1>3, <1>4, <1>8, AfterStart
  <2>2. n \in Nat /\ n \in 1..buf[w] /\ s + n <= Len(tc[w]) + 1 /\ r + 1 = s
    BY <1>3, <1>6, <1>8
  <2> QED BY <1>6, <2>1, <2>2
<1>10. NextRun(w, n, "R")
  <2>1. ASSUME NEW k \in r + 1..r + n
        PROVE  /\ Info(w, k).rw = "R"
               /\ Info(w, k).lba = Info(w, r + 1).lba + SECTORS_PER_BLK * (k - (r + 1))
    <3>1. k \in s..s + n - 1
      BY <1>9
    <3> QED BY <1>3, <1>6, <1>8, <1>9, <3>1
  <2> QED BY <1>8, <1>9, <2>1 DEF NextRun
<1>11. Pos(w) = at
  BY <1>8, <1>9 DEF Pos
<1>12. /\ q \in Seq(Junk..valid_lines) /\ Len(q) = n
       /\ \A x \in 1..n : q[x] = Wanted(w)[x]
  <2>1. /\ z \in Seq(Junk..valid_lines) /\ n <= Len(z) /\ n \in Nat
        /\ \A x \in 1..n : z[x] = Wanted(w)[x]
    BY <1>1, <1>8, <1>9, ZeroedSeq
  <2>2. PICK T : T = Junk..valid_lines
    OBVIOUS
  <2>3. z \in Seq(T) /\ q = SubSeq(z, 1, n)
    BY <1>7, <2>1, <2>2
  <2>4. q \in Seq(T) /\ Len(q) = n /\ \A x \in 1..n : q[x] = z[x]
    BY <2>1, <2>3, PrefixOfSeq
  <2> QED BY <2>1, <2>2, <2>4
<1>13. ASSUME NEW x \in 1..n PROVE q[x] = Cell[Info(w, replayed[w] + x).lba]
  <2>1. PICK l : l = Info(w, replayed[w] + x).lba
    OBVIOUS
  <2>2. /\ at \in Nat /\ replayed[w] + x \in 1..Len(tc[w]) /\ l \in LBAs
        /\ l \div SECTORS_PER_BLK + 1 = at + x
    BY <1>3, <1>4, <1>8, <1>10, <2>1, RunBlocks
  <2>3. Owner(l) = w
    BY <1>3, <1>4, <2>1, <2>2, OwnerIs
  <2>4. Cell[l] = BlockAt(file[w], l)
    BY <2>2, <2>3 DEF Cell
  <2>5. BlockAt(file[w], l) = IF at + x <= Len(file[w]) THEN file[w][at + x] ELSE Zero
    BY <2>2 DEF BlockAt
  <2>6. Wanted(w)[x] = IF at + x <= Len(file[w]) THEN file[w][at + x] ELSE Zero
    <3>1. x \in Nat
      BY <1>9
    <3> QED BY <1>11, <3>1 DEF Wanted
  <2> QED BY <1>12, <2>1, <2>4, <2>5, <2>6
<1>14. PICK S : S = Records(w, replayed[w] + 1, replayed[w] + n)
  OBVIOUS
<1>15. S \in SUBSET (DOMAIN infos \ Performed) /\ Disk!Due(S, "R")
  BY <1>3, <1>4, <1>10, <1>14, RunIsDue
<1>16. /\ replayed'[w] = replayed[w] + n
       /\ \A v \in Workers : v # w => replayed'[v] = replayed[v] /\ dump'[v] = dump[v]
  <2>1. /\ replayed \in [AllWorkers -> Nat] /\ w \in AllWorkers
        /\ dump \in [AllWorkers -> Seq(Junk..valid_lines)]
    BY <1>4 DEF RType
  <2> QED BY <1>1, <1>4, <1>8, <2>1
<1>17. Performed' = Performed \cup S
  <2>1. n \in Nat
    BY <1>9
  <2> QED BY <1>2, <1>3, <1>4, <1>5, <1>14, <1>16, <2>1, RunPerformed
<1>18. Cell' = Cell
  <2>1. Cell' = [l \in LBAs |-> BlockAt(file'[Owner(l)'], l)]
    BY DEF Cell, BlockAt
  <2>2. Cell = [l \in LBAs |-> BlockAt(file[Owner(l)], l)]
    BY DEF Cell
  <2> QED BY <1>1, <1>2, <1>5, <2>1, <2>2, OwnerStays
<1>19. Answers' = IF is_dump_read
                  THEN Answers \cup {<<m, Cell[infos[m].lba]>> : m \in S}
                  ELSE Answers
  <2>1. CASE is_dump_read
    <3>1. dump'[w] = dump[w] \o q
      <4>1. dump' = [dump EXCEPT ![w] = dump[w] \o q]
        BY <1>1, <1>7, <2>1
      <4>2. w \in DOMAIN dump
        BY <1>4 DEF RType
      <4> QED BY <4>1, <4>2
    <3>2. /\ Started /\ UNCHANGED <<threads, infos, tc, Started>>
          /\ w \in Workers /\ NextRun(w, n, "R") /\ is_dump_read
          /\ replayed'[w] = replayed[w] + n
          /\ \A v \in Workers : v # w => replayed'[v] = replayed[v] /\ dump'[v] = dump[v]
          /\ q \in Seq(Junk..valid_lines) /\ Len(q) = n /\ dump'[w] = dump[w] \o q
      BY <1>2, <1>3, <1>4, <1>5, <1>10, <1>12, <1>16, <2>1, <3>1
    <3>3. \A x \in 1..n : q[x] = Cell[Info(w, replayed[w] + x).lba]
      BY <1>13
    <3> QED BY <1>14, <3>2, <3>3, ReadAnswers
  <2>2. CASE ~is_dump_read
    <3>1. \A v \in Workers : /\ Len(dump[v]) = 0 /\ dump[v] \in Seq(Junk..valid_lines)
      BY <1>4, <2>2, AfterStart DEF DumpedAll
    <3>2. dump' = dump /\ \A v \in Workers : DOMAIN dump[v] = {}
      BY <1>1, <2>2, <3>1
    <3>3. Workers' = Workers
      BY <1>2 DEF Workers
    <3>4. \A a : a \notin Answers
      BY <1>4, <3>2, AnswersIs DEF Answered
    <3>5. \A a : a \notin Answers'
      BY <1>5, <3>2, <3>3, AnswersNext DEF Answered
    <3> QED BY <2>2, <3>4, <3>5
  <2> QED BY <2>1, <2>2
<1>20. Disk!Read(S)
  BY <1>1, <1>2, <1>4, <1>5, <1>15, <1>17, <1>18, <1>19 DEF Disk!Read
<1> QED BY <1>4, <1>15, <1>20 DEF Disk!Next


-----------------------------------------------------------------------------
(* The steps of the other actions *)

\* A plan is never empty.
LEMMA PlanNotEmpty == GoodPlan => infos # <<>>
<1> SUFFICES ASSUME GoodPlan PROVE infos # <<>>
  OBVIOUS
<1>1. threads \in 1..MAX_THREADS /\ infos \in Seq(trace_info)
  BY DEF GoodPlan
<1>2. 0 \in Workers
  BY <1>1, ConstantsAssumption DEF Workers
<1>3. /\ hints_start[0] \in Nat /\ hints_end[0] \in Nat /\ hints_start[0] < hints_end[0]
      /\ Tiled(0, hints_start[0], hints_end[0], Len(tc[0]) + 1)
      /\ tc[0] \in Seq(1..valid_lines)
  BY <1>2 DEF GoodPlan
<1>4. hints_start[0] + 1 \in hints_start[0] + 1..hints_end[0]
  BY <1>3
<1>5. GoodHint(0, hints[hints_start[0] + 1])
  BY <1>3, <1>4 DEF Tiled
<1>6. Len(tc[0]) \in Nat /\ Len(tc[0]) # 0
  BY <1>3, <1>5 DEF GoodHint
<1>7. tc[0][1] \in 1..Len(infos)
  BY <1>3, <1>6 DEF valid_lines
<1> QED BY <1>7

\* The same in the next state.
LEMMA PlanNotEmptyNext == (GoodPlan => infos # <<>>)'
  BY PlanNotEmpty, PTL

\* The disk before any worker is created: nothing has taken effect, and all
\* files show the same blocks.
LEMMA DiskBefore ==
    RInv /\ created = 0 =>
        /\ Performed = {} /\ Answers = {}
        /\ Cell = [l \in LBAs |-> BlockAt(file[0], l)]
<1> SUFFICES ASSUME RInv, created = 0
             PROVE  /\ Performed = {} /\ Answers = {}
                    /\ Cell = [l \in LBAs |-> BlockAt(file[0], l)]
  OBVIOUS
<1>1. 0 \in AllWorkers /\ \A w \in AllWorkers : w \in Nat
  BY ConstantsAssumption DEF AllWorkers
<1>2. \A w \in AllWorkers : replayed[w] = 0 /\ file[w] = file[0]
  <2>1. \A w \in AllWorkers : pc[w] = "open"
    BY <1>1 DEF RInv, ThreadInv
  <2> QED BY <1>1, <2>1 DEF RInv, FreshInv, Fresh
<1>3. CASE ~Started
  <2>1. Performed = {} /\ Answers = {}
    BY <1>3 DEF Performed, Answers
  <2>2. \A l \in LBAs : Owner(l) = 0
    BY <1>3 DEF Owner
  <2> QED BY <2>1, <2>2 DEF Cell
<1>4. CASE Started
  <2>1. Workers \subseteq AllWorkers /\ GoodPlan
    BY <1>4, AfterStart
  <2>2. \A w \in Workers : 1..replayed[w] = {}
    BY <1>2, <2>1
  <2>3. Performed = {}
    BY <1>4, <2>2, PerformedIs
  <2>4. \A w \in Workers : Dumped(w) = {}
    BY <2>2 DEF Dumped
  <2>5. Answers = {}
    <3>1. \A w \in Workers :
            {<<tc[w][k], dump[w][PlaceInDump(w, k)]>> : k \in Dumped(w)} = {}
      BY <2>4
    <3> QED BY <1>4, <3>1 DEF Answers
  <2>6. \A l \in LBAs : Owner(l) \in AllWorkers
    BY <1>1, <1>4, <2>1 DEF Owner
  <2>7. Cell = [l \in LBAs |-> BlockAt(file[0], l)]
    BY <1>2, <2>6 DEF Cell
  <2> QED BY <2>3, <2>5, <2>7
<1> QED BY <1>3, <1>4

\* The same in the next state.
LEMMA DiskBeforeNext ==
    (RInv /\ created = 0 =>
        /\ Performed = {} /\ Answers = {}
        /\ Cell = [l \in LBAs |-> BlockAt(file[0], l)])'
  BY DiskBefore, PTL

\* The disk does not see the plan being made; the plan becomes its trace when
\* it is complete.
LEMMA PlanningStep ==
    ASSUME RInv, RInv', PlanInput \/ PlanProgress
    PROVE  Disk!Next \/ UNCHANGED Disk!diskVars
<1>1. /\ PlanNext
      /\ UNCHANGED <<is_dump_read, created, file>>
  BY DEF PlanInput, PlanProgress, PlanNext, ioVars
<1>2. phase \in {"options", "parse", "build", "assign", "sort", "extract"}
  BY <1>1, PlanPhases
<1>3. created = 0 /\ created' = 0 /\ ~Started
  BY <1>1, <1>2 DEF RInv, ThreadInv, Started
<1>4. /\ Performed = {} /\ Answers = {} /\ Performed' = {} /\ Answers' = {}
      /\ Cell = [l \in LBAs |-> BlockAt(file[0], l)]
  BY <1>3, DiskBefore, DiskBeforeNext
<1>5. Cell' = Cell
  <2>1. Cell' = [l \in LBAs |-> BlockAt(file'[0], l)]
    BY <1>3, DiskBeforeNext DEF BlockAt
  <2> QED BY <1>1, <1>4, <2>1
<1>6. CASE ~Started'
  BY <1>1, <1>3, <1>4, <1>5, <1>6 DEF Disk!diskVars
<1>7. CASE Started'
  <2>1. infos' # <<>>
    BY <1>7, PlanNotEmptyNext DEF RInv, PlanInv
  <2>2. Disk!Load
    BY <1>1, <1>3, <1>4, <1>5, <1>7, <2>1 DEF Disk!Load
  <2> QED BY <2>2 DEF Disk!Next
<1> QED BY <1>6, <1>7

\* -r is given before there is a trace.
LEMMA ObservingStep ==
    ASSUME RInv, getopt_r
    PROVE  Disk!Next
<1>1. /\ phase = "options" /\ is_dump_read' = TRUE
      /\ UNCHANGED <<phase, threads, infos, tc, created, file, dump, replayed>>
  BY DEF getopt_r, ioVars, planVars, optVars
<1>2. ~Started /\ ~Started'
  BY <1>1 DEF RInv, ThreadInv, Started
<1>3. Performed' = Performed /\ Answers' = Answers
  BY <1>2 DEF Performed, Answers
<1>4. Cell' = Cell
  <2>1. Cell' = [l \in LBAs |-> BlockAt(file'[Owner(l)'], l)]
    BY DEF Cell, BlockAt
  <2>2. Cell = [l \in LBAs |-> BlockAt(file[Owner(l)], l)]
    BY DEF Cell
  <2>3. \A l \in LBAs : Owner(l) = 0 /\ Owner(l)' = 0
    BY <1>2 DEF Owner
  <2> QED BY <1>1, <2>1, <2>2, <2>3
<1>5. Disk!SetObserving
  BY <1>1, <1>2, <1>3, <1>4 DEF Disk!SetObserving
<1> QED BY <1>5 DEF Disk!Next

\* A failure is seen only where some of the blocks were written.
LEMMA FailureStep ==
    ASSUME RInv, RInv', mode # "a", NEW w \in AllWorkers, Failure(w)
    PROVE  Disk!Next \/ UNCHANGED Disk!diskVars
<1>1. /\ phase = "start" /\ w < created /\ exit
      /\ UNCHANGED <<threads, infos, tc, is_dump_read, created>>
  BY DEF Failure, OpenFails, check_ret, preadFails, Writing, Reading, Running, exit, optVars
<1>2. created > 0
  <2>1. w \in Nat /\ created \in Nat
    BY <1>1, InReplay
  <2> QED BY <1>1, <2>1
<1>3. Started /\ Started'
  BY <1>1, <1>2 DEF Started
<1>4. CASE UNCHANGED ioVars
  <2>1. UNCHANGED <<file, dump, replayed, Started>>
    BY <1>3, <1>4 DEF ioVars
  <2> QED BY <1>1, <2>1, DiskStays
<1>5. ASSUME Writing(w), NEW n \in 1..Blks(w) - 1, Store(w, n)
      PROVE  Disk!Next
  <2>1. Blks(w) \in Nat /\ w \in Workers
    <3>1. w \in Workers /\ hint[w] \in hints_start[w] + 1..hints_end[w]
      BY <1>5, WritesOnly
    <3> QED BY <1>1, <3>1, InReplay, CurHint
  <2>2. n \in 1..Blks(w)
    BY <2>1
  <2> QED BY <1>1, <1>3, <1>5, <2>2, WriteStep
<1> QED BY <1>4, <1>5 DEF Failure, OpenFails, check_ret, preadFails

\* A worker's writes and the ends of its reads are steps of the disk; it does
\* not see the others.
LEMMA WorkerStep ==
    ASSUME RInv, RInv', mode # "a", NEW w \in AllWorkers, replay_worker(w)
    PROVE  Disk!Next \/ UNCHANGED Disk!diskVars
<1>1. /\ phase = "start" /\ w < created
      /\ UNCHANGED <<phase, threads, infos, tc, is_dump_read, created>>
  BY DEF replay_worker, Open, WriteHint, pread, EndOfRead, Close, Writing, Reading, Running,
     planVars, optVars
<1>2. Started /\ Started'
  BY <1>1 DEF Started
<1>3. CASE WriteHint(w)
  <2>1. Writing(w) /\ Store(w, Blks(w))
    BY <1>3 DEF WriteHint
  <2>2. w \in Workers /\ hint[w] \in hints_start[w] + 1..hints_end[w]
    BY <2>1, WritesOnly
  <2>3. Blks(w) \in 1..buf[w] /\ buf[w] \in Nat
    BY <1>1, <2>2, InReplay, CurHint
  <2>4. Blks(w) \in 1..Blks(w)
    BY <2>3
  <2>5. Disk!Next
    BY <1>1, <1>2, <2>1, <2>4, WriteStep
  <2> QED BY <2>5
<1>4. CASE EndOfRead(w)
  BY <1>4, ReadStep
<1>5. CASE Open(w)
  <2>1. UNCHANGED <<file, replayed>> /\ pc[w] = "open"
        /\ dump' = IF is_dump_read THEN [dump EXCEPT ![w] = <<>>] ELSE dump
    BY <1>5 DEF Open, Running
  <2>2. dump \in [AllWorkers -> Seq(Junk..valid_lines)] /\ dump[w] = <<>>
    BY <2>1 DEF RInv, RType, FreshInv, Fresh
  <2>3. dump' = dump
    BY <2>1, <2>2
  <2> QED BY <1>1, <1>2, <2>1, <2>3, DiskStays
<1>6. CASE pread(w) \/ Close(w)
  <2>1. UNCHANGED <<file, dump, replayed>>
    BY <1>6 DEF pread, Close, ioVars
  <2> QED BY <1>1, <1>2, <2>1, DiskStays
<1> QED BY <1>3, <1>4, <1>5, <1>6 DEF replay_worker

\* Main's own steps are not seen.
LEMMA MainStep ==
    ASSUME RInv, pthread_create \/ pthread_join \/ Cleanup
    PROVE  UNCHANGED Disk!diskVars
<1>1. /\ phase = "start" /\ phase' \in {"start", "done"}
      /\ UNCHANGED <<threads, infos, tc, is_dump_read, file, dump, replayed>>
  BY DEF pthread_create, pthread_join, Cleanup, planVars, optVars, ioVars
<1>2. Started /\ Started'
  BY <1>1 DEF Started
<1> QED BY <1>1, <1>2, DiskStays

-----------------------------------------------------------------------------
(* The theorem *)

\* Before the replay the disk holds old blocks, or none.
LEMMA DiskInit == RInit => Disk!Init
<1> SUFFICES ASSUME RInit PROVE Disk!Init
  OBVIOUS
<1>1. /\ phase = "options" /\ created = 0 /\ is_dump_read = FALSE /\ infos = <<>>
      /\ ~Started
  BY DEF RInit, Init, Started
<1>2. /\ Performed = {} /\ Answers = {}
      /\ Cell = [l \in LBAs |-> BlockAt(file[0], l)]
  BY <1>1, ReplayInit, DiskBefore
<1>3. PICK m \in 0..MaxOldBlks : file = [w \in AllWorkers |-> [k \in 1..m |-> Old]]
  BY DEF RInit
<1>4. PICK f : f = file[0]
  OBVIOUS
<1>5. m \in Nat /\ f = [k \in 1..m |-> Old]
  <2>1. 0 \in AllWorkers
    BY ConstantsAssumption DEF AllWorkers
  <2> QED BY <1>3, <1>4, <2>1, AlignedLBAs
<1>6. f \in Seq({Old}) /\ Len(f) = m
  BY <1>5
<1>7. \A l \in LBAs : BlockAt(f, l) \in Old..MaxLines
  <2> SUFFICES ASSUME NEW l \in LBAs PROVE BlockAt(f, l) \in Old..MaxLines
    OBVIOUS
  <2>1. PICK p : p = l \div SECTORS_PER_BLK + 1
    OBVIOUS
  <2>2. l \in Nat /\ SECTORS_PER_BLK = 8
    BY ConstantsAssumption DEF SECTORS_PER_BLK
  <2>3. p \in Nat \ {0}
    BY <2>1, <2>2
  <2>4. BlockAt(f, l) = IF p <= Len(f) THEN f[p] ELSE Zero
    BY <2>1 DEF BlockAt
  <2>5. p <= Len(f) => f[p] = Old
    BY <1>5, <1>6, <2>3
  <2>6. Old \in Old..MaxLines /\ Zero \in Old..MaxLines
    BY ConstantsAssumption DEF Old, Zero
  <2> QED BY <2>4, <2>5, <2>6
<1>8. Cell \in [LBAs -> Old..MaxLines]
  BY <1>2, <1>4, <1>7
<1> QED BY <1>1, <1>2, <1>8 DEF Disk!Init

\* Without -o a the mode is never "a".
LEMMA ModeStep ==
    ASSUME "a" \notin ModeOptions, mode # "a", [RNext]_vars
    PROVE  mode' # "a"
<1>1. CASE PlanInput
  <2>1. CASE getopt
    BY <2>1 DEF getopt
  <2>2. CASE BadUsage \/ SkipLine
    BY <2>2 DEF BadUsage, SkipLine, planVars, optVars
  <2>3. ASSUME NEW info \in trace_info, parse_trace_info(info) PROVE mode' # "a"
    <3>1. UNCHANGED optVars
      BY <2>3 DEF parse_trace_info
    <3> QED BY <3>1 DEF optVars
  <2> QED BY <1>1, <2>1, <2>2, <2>3 DEF PlanInput, Input
<1>2. CASE PlanProgress
  BY <1>2 DEF PlanProgress, Progress, OptionsDone, EndOfTrace, build_trace_containers,
     AssignStart, DivideByZero, AssignContainer, AssignDone,
     trace_container_sort_infomap_by_ts, SortEmptyContainer, ExtractConsecutive, LastHint,
     optVars
<1>3. CASE getopt_r \/ pthread_create \/ pthread_join \/ Cleanup
  BY <1>3 DEF getopt_r, pthread_create, pthread_join, Cleanup, planVars, optVars
<1>4. ASSUME NEW w \in AllWorkers, replay_worker(w) \/ Failure(w)
      PROVE  mode' # "a"
  BY <1>4 DEF replay_worker, Open, WriteHint, pread, EndOfRead, Close, Failure, OpenFails,
     check_ret, preadFails, exit, planVars, optVars
<1>5. CASE UNCHANGED vars
  BY <1>5 DEF vars, planVars, optVars
<1> QED BY <1>1, <1>2, <1>3, <1>4, <1>5 DEF RNext, Terminated

\* Every step of the replay is a step of the disk, or not seen.
LEMMA DiskStep ==
    ASSUME RInv, RInv', mode # "a", [RNext]_vars
    PROVE  [Disk!Next]_Disk!diskVars
<1>1. CASE PlanInput \/ PlanProgress
  BY <1>1, PlanningStep
<1>2. CASE getopt_r
  BY <1>2, ObservingStep
<1>3. CASE pthread_create \/ pthread_join \/ Cleanup
  BY <1>3, MainStep
<1>4. ASSUME NEW w \in AllWorkers, replay_worker(w) \/ Failure(w)
      PROVE  [Disk!Next]_Disk!diskVars
  BY <1>4, WorkerStep, FailureStep
<1>5. CASE UNCHANGED vars
  <2>1. UNCHANGED <<threads, infos, tc, file, dump, replayed, is_dump_read, phase, created>>
    BY <1>5 DEF vars, planVars, optVars
  <2>2. UNCHANGED Started
    BY <2>1 DEF Started
  <2> QED BY <2>1, <2>2, DiskStays
<1> QED BY <1>1, <1>2, <1>3, <1>4, <1>5 DEF RNext, Terminated

\* Seen as one disk, the files of the workers together show every record at its
\* place in the trace, and the dumps what the reads must see, however the
\* threads interleave.  A replay that appends (-o a) ignores the places.
THEOREM ReplayIsOneDisk ==
    ASSUME "a" \notin ModeOptions
    PROVE  RSpec => RefinesTraceDisk
<1> DEFINE NoAppend == mode # "a"
<1>1. RSpec => RInit /\ [][RNext]_vars
  BY DEF RSpec
<1>2. RInit => NoAppend
  BY DEF RInit, Init
<1>3. NoAppend /\ [RNext]_vars => NoAppend'
  BY ModeStep
<1>4. RInv /\ RInv' /\ NoAppend /\ [RNext]_vars => [Disk!Next]_Disk!diskVars
  BY DiskStep
<1> HIDE DEF NoAppend
<1> QED BY <1>1, <1>2, <1>3, <1>4, DiskInit, ReplayInvariant, PTL
        DEF RefinesTraceDisk, Disk!Spec
=============================================================================
