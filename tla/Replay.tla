------------------------------- MODULE Replay -------------------------------
(***************************************************************************)
(* replay.c as a whole: the main thread makes the plans (ReplayPlan),      *)
(* creates the workers and joins them; worker w replays its plan on a file *)
(* of its own, trace_w, and dumps what it reads to dump_read_w.            *)
(*                                                                         *)
(* A file is the sequence of its 4 KiB blocks.  The data of a block is the *)
(* index of the record whose md5 filled it, or Zero, Old (in the file      *)
(* before the replay) or Junk (malloc'ed memory).                          *)
(***************************************************************************)
EXTENDS ReplayPlan

CONSTANTS MaxOldBlks    \* bound: blocks of a trace_w left by an earlier replay

\* Block traces name whole 4 KiB blocks, so that two lbas never overlap.
ASSUME AlignedLBAs ==
    /\ \A l \in LBAs : l % SECTORS_PER_BLK = 0
    /\ MaxOldBlks \in Nat

Zero == 0
Old == -1
Junk == -2

VARIABLES
    is_dump_read,
    file, dump,         \* the blocks of trace_w and of dump_read_w
    created, joined,    \* threads main has created, and joined
    pc,                 \* of each worker: "open", "replay" or "done"
    hint,               \* i: the hint being replayed
    done,               \* blocks of it read so far
    blk,                \* the contents of param->buf
    replayed            \* history: records of tc[w] that took effect

workerVars == <<pc, hint, done, blk>>
ioVars == <<file, dump, replayed>>
vars == <<planVars, is_dump_read, file, dump, created, joined, workerVars,
          replayed>>

AllWorkers == 0..MAX_THREADS - 1

RInit ==
    /\ Init
    /\ is_dump_read = FALSE
    /\ \E n \in 0..MaxOldBlks :
          file = [w \in AllWorkers |-> [k \in 1..n |-> Old]]
    /\ dump = [w \in AllWorkers |-> <<>>]
    /\ created = 0 /\ joined = 0
    /\ pc = [w \in AllWorkers |-> "open"]
    /\ hint = [w \in AllWorkers |-> 0]
    /\ done = [w \in AllWorkers |-> 0]
    /\ blk = [w \in AllWorkers |-> <<>>]
    /\ replayed = [w \in AllWorkers |-> 0]

-----------------------------------------------------------------------------
(* The main thread *)

PlanInput ==
    /\ Input
    /\ UNCHANGED <<is_dump_read, created, joined, workerVars, ioVars>>

PlanProgress ==
    /\ Progress
    /\ UNCHANGED <<is_dump_read, created, joined, workerVars, ioVars>>

getopt_r ==
    /\ phase = "options"
    /\ is_dump_read' = TRUE
    /\ UNCHANGED <<planVars, created, joined, workerVars, ioVars>>

MoreThreads == created < threads

pthread_create ==
    /\ phase = "start"
    /\ MoreThreads
    /\ created' = created + 1
    /\ UNCHANGED <<planVars, is_dump_read, joined, workerVars, ioVars>>

\* Mutant: does not wait.
ReturnedOrNot(w) == TRUE

Returned(w) == pc[w] = "done"

pthread_join ==
    /\ phase = "start"
    /\ created = threads /\ joined < threads
    /\ Returned(joined)
    /\ joined' = joined + 1
    /\ UNCHANGED <<planVars, is_dump_read, created, workerVars, ioVars>>

\* main frees infos, hints, params and the containers, and returns 0.
Cleanup ==
    /\ phase = "start"
    /\ joined = threads
    /\ phase' = "done"
    /\ UNCHANGED <<optVars, infos, i, mapVars, assignVars, tc, hintVars,
                   is_dump_read, created, joined, workerVars, ioVars>>

-----------------------------------------------------------------------------
(* replay_worker *)

Running(w, at) == phase = "start" /\ w < created /\ pc[w] = at

\* exit(1) in one worker ends the process, so all of them.
exit ==
    /\ phase' = "exited"
    /\ UNCHANGED <<optVars, infos, i, mapVars, assignVars, tc, hintVars,
                   is_dump_read, created, joined, workerVars>>

\* The dump file is truncated; an existing trace_w keeps its blocks.
Open(w) ==
    /\ Running(w, "open")
    /\ dump' = IF is_dump_read THEN [dump EXCEPT ![w] = <<>>] ELSE dump
    /\ pc' = [pc EXCEPT ![w] = "replay"]
    /\ hint' = [hint EXCEPT ![w] = hints_start[w] + 1]
    /\ blk' = [blk EXCEPT ![w] = [k \in 1..buf[w] |-> Junk]]
    /\ UNCHANGED <<planVars, is_dump_read, created, joined, done, file, replayed>>

OpenFails(w) == Running(w, "open") /\ exit /\ UNCHANGED ioVars

Cur(w) == hints[hint[w]]
Blks(w) == Cur(w).continuous_blks
\* ofs >> BLK_SHIFT of the first record of the hint
Pos(w) == Info(w, Cur(w).start_trace_line).lba \div SECTORS_PER_BLK

\* p with the blocks q over it from position "at" on: memcpy into a buffer, or
\* pwrite to a file, where a gap reads as zeroes.
Overlay(p, at, q) ==
    [k \in 1..AtLeast(Len(p), at + Len(q)) |->
        IF k \in at + 1..at + Len(q) THEN q[k - at]
        ELSE IF k <= Len(p) THEN p[k] ELSE Zero]

\* fill_blk for each record of the hint
Filled(w) ==
    Overlay(blk[w], 0, SubSeq(tc[w], Cur(w).start_trace_line,
                              Cur(w).start_trace_line + Blks(w) - 1))

\* Mutant: O_APPEND forgotten.
WritePosNoAppend(w) == Pos(w)

\* Where the write of a hint goes: its offset, or the end of the file.
WritePos(w) == IF mode = "a" THEN Len(file[w]) ELSE Pos(w)

Writing(w) ==
    /\ Running(w, "replay")
    /\ hint[w] <= hints_end[w]
    /\ mode = "rw" => Cur(w).rw = "W"

\* The first n blocks of the buffer reach the file.
Store(w, n) ==
    /\ file' = [file EXCEPT ![w] = Overlay(@, WritePos(w), SubSeq(Filled(w), 1, n))]
    /\ replayed' = [replayed EXCEPT ![w] = @ + n]
    /\ UNCHANGED dump

WriteHint(w) ==
    /\ Writing(w)
    /\ Store(w, Blks(w))
    /\ blk' = [blk EXCEPT ![w] = Filled(w)]
    /\ hint' = [hint EXCEPT ![w] = @ + 1]
    /\ UNCHANGED <<planVars, is_dump_read, created, joined, pc, done>>

\* An error or a short write: check_ret ends the process.
check_ret(w) ==
    /\ Writing(w)
    /\ UNCHANGED ioVars \/ \E n \in 1..Blks(w) - 1 : Store(w, n)
    /\ exit

Reading(w) ==
    /\ Running(w, "replay")
    /\ hint[w] <= hints_end[w]
    /\ mode = "rw" /\ Cur(w).rw # "W"

\* Blocks of the file from where the next pread starts.
Available(w) == Len(file[w]) - (Pos(w) + done[w])

\* One pread that returns some of the bytes that are left.
pread(w) ==
    /\ Reading(w)
    /\ done[w] # Blks(w)
    /\ \E ret \in 1..Blks(w) - done[w] :
          /\ ret <= Available(w)
          /\ blk' = [blk EXCEPT ![w] =
                       Overlay(@, done[w],
                               SubSeq(file[w], Pos(w) + done[w] + 1,
                                               Pos(w) + done[w] + ret))]
          /\ done' = [done EXCEPT ![w] = @ + ret]
    /\ UNCHANGED <<planVars, is_dump_read, created, joined, pc, hint, ioVars>>

preadFails(w) ==
    /\ Reading(w) /\ done[w] # Blks(w)
    /\ exit /\ UNCHANGED ioVars

\* Mutant: pread that returns 0 is tried again.
ReadAll(w) == done[w] = Blks(w)

\* Everything is read, or pread returned 0 at the end of the file.
ReadOver(w) == done[w] = Blks(w) \/ Available(w) <= 0

\* Mutant: what was not read keeps the bytes of the previous hint.
Stale(w) == blk[w]

\* The buffer with what was not read set to zero.
Zeroed(w) == Overlay(blk[w], done[w], [k \in 1..Blks(w) - done[w] |-> Zero])

EndOfRead(w) ==
    /\ Reading(w)
    /\ ReadOver(w)
    /\ blk' = [blk EXCEPT ![w] = Zeroed(w)]
    /\ dump' = IF is_dump_read
               THEN [dump EXCEPT ![w] = @ \o SubSeq(Zeroed(w), 1, Blks(w))]
               ELSE dump
    /\ replayed' = [replayed EXCEPT ![w] = @ + Blks(w)]
    /\ hint' = [hint EXCEPT ![w] = @ + 1]
    /\ done' = [done EXCEPT ![w] = 0]
    /\ UNCHANGED <<planVars, is_dump_read, created, joined, pc, file>>

\* fclose, close, return
Close(w) ==
    /\ Running(w, "replay")
    /\ hint[w] > hints_end[w]
    /\ pc' = [pc EXCEPT ![w] = "done"]
    /\ UNCHANGED <<planVars, is_dump_read, created, joined, hint, done, blk, ioVars>>

replay_worker(w) ==
    \/ Open(w) \/ WriteHint(w) \/ pread(w) \/ EndOfRead(w) \/ Close(w)

Failure(w) == OpenFails(w) \/ check_ret(w) \/ preadFails(w)

-----------------------------------------------------------------------------
Terminated == phase \in {"done", "exited", "crashed"} /\ UNCHANGED vars

RNext ==
    \/ PlanInput \/ getopt_r
    \/ PlanProgress \/ pthread_create \/ pthread_join \/ Cleanup
    \/ \E w \in AllWorkers : replay_worker(w) \/ Failure(w)
    \/ Terminated

\* Main goes on whenever it can, and the command line and the trace end; a
\* worker is scheduled and its system calls return.  No failure is forced.
Fairness ==
    /\ WF_vars(PlanProgress \/ pthread_create \/ pthread_join \/ Cleanup)
    /\ \A w \in AllWorkers : WF_vars(replay_worker(w))

RSpec == RInit /\ [][RNext]_vars /\ Fairness

-----------------------------------------------------------------------------
(* Properties *)

RTypeOK ==
    /\ created \in 0..threads /\ joined \in 0..created
    /\ pc \in [AllWorkers -> {"open", "replay", "done"}]
    /\ \A w \in AllWorkers :
          /\ \A k \in DOMAIN file[w] : file[w][k] \in Old..valid_lines
          /\ \A k \in DOMAIN dump[w] : dump[w][k] \in Junk..valid_lines
          /\ done[w] \in Nat /\ hint[w] \in Nat /\ replayed[w] \in Nat

Started == phase \in {"start", "done"} \/ created > 0

\* When main prints its result and frees the plans, every worker has returned
\* and every record of the trace has been replayed: none is left to touch
\* freed memory, and the bandwidth is about work that was done.  (All variables
\* keep their types.)
CleanupAfterAllWork ==
    /\ RTypeOK
    /\ phase = "done" =>
          \A w \in Workers : pc[w] = "done" /\ replayed[w] = Len(tc[w])

\* In append mode a file is what it was, then the worker's records in the order
\* of its plan.
AppendsInPlanOrder ==
    mode = "a" /\ Started =>
        \A w \in Workers :
            LET old == Len(file[w]) - replayed[w]
            IN  /\ old >= 0
                /\ ToSet(SubSeq(file[w], 1, old)) \subseteq {Old}
                /\ SubSeq(file[w], old + 1, Len(file[w])) =
                       SubSeq(tc[w], 1, replayed[w])

\* A replay ends: no worker waits for ever, the pread loop stops at the end of
\* the file, and main's joins return.
ReplayEnds == <>(phase \in {"done", "exited", "crashed"})

\* Seen as one disk, the files of the workers together show every record at its
\* place in the trace, and the dumps show what the reads must see: neither
\* depends on how the threads interleave.
Owns(w, l) == \E k \in DOMAIN tc[w] : Info(w, k).lba = l
BlockAt(f, l) == LET p == l \div SECTORS_PER_BLK + 1
                 IN  IF p <= Len(f) THEN f[p] ELSE Zero
\* An lba without a record is one that worker 0 never writes, say.
Owner(l) == IF Started /\ \E w \in Workers : Owns(w, l)
            THEN CHOOSE w \in Workers : Owns(w, l) ELSE 0
Cell == [l \in LBAs |-> BlockAt(file[Owner(l)], l)]
Performed == IF Started
             THEN UNION {ToSet(SubSeq(tc[w], 1, replayed[w])) : w \in Workers}
             ELSE {}
\* A read is dumped behind the reads before it.
PlaceInDump(w, k) == Cardinality({m \in 1..k : Info(w, m).rw = "R"})
Dumped(w) == {k \in 1..replayed[w] :
                 Info(w, k).rw = "R" /\ PlaceInDump(w, k) \in DOMAIN dump[w]}
Answers == IF Started
           THEN UNION {{<<tc[w][k], dump[w][PlaceInDump(w, k)]>> : k \in Dumped(w)} :
                       w \in Workers}
           ELSE {}
Disk == INSTANCE TraceDisk
          WITH infos <- IF Started THEN infos ELSE <<>>,
               Contents <- Old..MaxLines,
               cell <- Cell, performed <- Performed,
               observing <- is_dump_read, answer <- Answers
RefinesTraceDisk == Disk!Spec
=============================================================================
