--------------------------- MODULE RwInterference ---------------------------
(***************************************************************************)
(* rw_interference.cpp: "reader" threads write blocks that were stored     *)
(* before (duplicates, for a deduplicating file system), "writer" threads  *)
(* write new blocks; the program times one kind, the target, while the     *)
(* other keeps the device busy.                                            *)
(*                                                                         *)
(* Data.  A block is filled with one number, its magic, so a file is the   *)
(* sequence of the magics of its blocks.  Torn stands for a block that a   *)
(* short write cut, and for those behind it, which are out of step.  Tasks *)
(* are numbered from 1 where the code's are from 0.                        *)
(***************************************************************************)
EXTENDS Integers, Sequences, FiniteSetsExt, SequencesExt

CONSTANTS
    Readers,            \* the arguments of -r
    Writers,            \* the arguments of -w
    Totals,             \* what -a and -g may make of total_num_blocks
    MaxInvocations      \* bound: runs of the program in one directory

ASSUME ConstantsAssumption ==
    /\ Readers \subseteq Nat /\ Writers \subseteq Nat /\ Totals \subseteq Nat
    /\ MaxInvocations \in Nat

MO_READ_LAT == 1
MO_WRITE_LAT == 2
Torn == -1
Blocks == Nat \cup {Torn}

rw_interf_task_t == [start_magic : Nat, num_blocks : Nat, dup : BOOLEAN]

VARIABLES
    pc,                 \* where the main thread is
    reader_num, writer_num, total_num_blocks, measurement_object, stage,
    task_list, progress,
    i,                  \* the loop counter of the main thread
    tpc, cancel,        \* where thread t is; has it been cancelled?
    params,             \* the array that run() shares with the threads
    total_processed_blocks,
    pre, out,           \* the files pre-<id> and <id>
    pre_failed, prepared,   \* history: has a stage 1 stored all its blocks?
    invocations, late   \* history: a thread has read params after the free

optVars == <<reader_num, writer_num, total_num_blocks, measurement_object, stage>>
taskVars == <<task_list, progress>>
threadVars == <<tpc, cancel>>
fileVars == <<pre, out, pre_failed, prepared>>
vars == <<pc, optVars, taskVars, i, threadVars, params, total_processed_blocks,
          fileVars, invocations, late>>

num_tasks == Len(task_list)
Tasks == 1..num_tasks
num_readers == Cardinality({t \in Tasks : task_list[t].dup})

\* The threads that the measurement is about; the others only interfere.
Targets ==
    IF measurement_object = MO_READ_LAT THEN 1..num_readers
    ELSE IF measurement_object = MO_WRITE_LAT THEN num_readers + 1..num_tasks
    ELSE {}
Background ==
    IF measurement_object \in {MO_READ_LAT, MO_WRITE_LAT} THEN Tasks \ Targets
    ELSE {}

Over == {"done", "failed", "cancelled"}

Init ==
    /\ pc = "options"
    /\ reader_num = 0 /\ writer_num = 0 /\ total_num_blocks = 0
    /\ measurement_object = MO_READ_LAT /\ stage = 0
    /\ task_list = <<>> /\ progress = <<>>
    /\ i = 1 /\ tpc = <<>> /\ cancel = <<>>
    /\ params = "none" /\ total_processed_blocks = 0
    /\ pre = <<>> /\ out = <<>> /\ pre_failed = FALSE /\ prepared = FALSE
    /\ invocations = 1 /\ late = FALSE

-----------------------------------------------------------------------------
(* The main thread *)

getopt ==
    /\ pc = "options"
    /\ reader_num' \in Readers /\ writer_num' \in Writers
    /\ total_num_blocks' \in Totals
    /\ measurement_object' \in {0, MO_READ_LAT, MO_WRITE_LAT}
    /\ stage' \in 0..3
    /\ pc' = "tasks"
    /\ UNCHANGED <<taskVars, i, threadVars, params, total_processed_blocks,
                   fileVars, invocations, late>>

BadUsage ==
    /\ pc = "options"
    /\ pc' = "exited"
    /\ UNCHANGED <<optVars, taskVars, i, threadVars, params,
                   total_processed_blocks, fileVars, invocations, late>>

\* total_num_blocks * PREDEFINED_RATIO
Quarter(n) == n \div 4

total_reader_num_blocks ==
    IF reader_num = 0 THEN 0
    ELSE IF writer_num = 0 THEN total_num_blocks
    ELSE IF measurement_object = MO_READ_LAT THEN Quarter(total_num_blocks)
    ELSE total_num_blocks - Quarter(total_num_blocks)
reader_num_blocks ==
    IF reader_num = 0 THEN 0 ELSE total_reader_num_blocks \div reader_num
writer_num_blocks ==
    IF writer_num = 0 THEN 0
    ELSE (total_num_blocks - total_reader_num_blocks) \div writer_num

\* Mutant: start_magic is not set to total_num_blocks between the two loops.
AfterReaders == reader_num * reader_num_blocks

\* Where the magics of the writers begin.
writer_start_magic == total_num_blocks

Task(t) ==
    IF t <= reader_num
    THEN [start_magic |-> (t - 1) * reader_num_blocks,
          num_blocks |-> reader_num_blocks, dup |-> TRUE]
    ELSE [start_magic |-> writer_start_magic
                            + (t - 1 - reader_num) * writer_num_blocks,
          num_blocks |-> writer_num_blocks, dup |-> FALSE]

\* main ignores the -1 for no tasks at all and goes on with an empty list.
make_tasks ==
    /\ pc = "tasks"
    /\ LET n == reader_num + writer_num
       IN  /\ task_list' = [t \in 1..n |-> Task(t)]
           /\ progress' = [t \in 1..n |-> 0]
           /\ tpc' = [t \in 1..n |-> "none"]
           /\ cancel' = [t \in 1..n |-> "no"]
           /\ IF invocations = 1
              THEN /\ pre' = [t \in 1..n |-> <<>>]
                   /\ out' = [t \in 1..n |-> <<>>]
              ELSE UNCHANGED <<pre, out>>
    /\ i' = 1
    /\ pre_failed' = FALSE
    /\ pc' = CASE stage \in {0, 1} -> "prepare" [] stage = 2 -> "create"
               [] OTHER -> "return"
    /\ params' = IF stage = 2 THEN "allocated" ELSE "none"
    /\ UNCHANGED <<optVars, total_processed_blocks, prepared, invocations, late>>

\* The file f after a write of v at block k: it is opened without O_TRUNC.
Put(f, k, v) == IF k <= Len(f) THEN [f EXCEPT ![k] = v] ELSE Append(f, v)

\* Mutant: start_magic does not move on from file to file.
PrepareMagicStill(t) == 0

\* The magic that prepare_workload starts file t with.
PrepareMagic(t) ==
    FoldFunctionOnSet(+, 0, [u \in Tasks |-> task_list[u].num_blocks], 1..t - 1)

\* make_file of file t, nobody else running: it stores the first k blocks and
\* returns; k < num_blocks when open or write has failed, which nobody notices.
prepare_workload ==
    /\ pc = "prepare"
    /\ i <= num_tasks
    /\ \E k \in 0..task_list[i].num_blocks :
          /\ pre' = [pre EXCEPT ![i] =
                [m \in 1..(IF k > Len(@) THEN k ELSE Len(@)) |->
                    IF m <= k THEN PrepareMagic(i) + m - 1 ELSE @[m]]]
          /\ pre_failed' = (pre_failed \/ k < task_list[i].num_blocks)
    /\ i' = i + 1
    /\ UNCHANGED <<pc, optVars, taskVars, threadVars, params,
                   total_processed_blocks, out, prepared, invocations, late>>

PrepareDone ==
    /\ pc = "prepare"
    /\ i > num_tasks
    /\ prepared' = (prepared \/ ~pre_failed)
    /\ i' = 1
    /\ pc' = IF stage = 0 THEN "create" ELSE "return"
    /\ params' = IF stage = 0 THEN "allocated" ELSE "none"
    /\ UNCHANGED <<optVars, taskVars, threadVars, total_processed_blocks,
                   pre, out, pre_failed, invocations, late>>

pthread_create ==
    /\ pc = "create"
    /\ i <= num_tasks
    /\ tpc' = [tpc EXCEPT ![i] = "created"]
    /\ i' = i + 1
    /\ UNCHANGED <<pc, optVars, taskVars, cancel, params,
                   total_processed_blocks, fileVars, invocations, late>>

CreateDone ==
    /\ pc = "create"
    /\ i > num_tasks
    /\ pc' = "join"
    /\ i' = 1
    /\ UNCHANGED <<optVars, taskVars, threadVars, params,
                   total_processed_blocks, fileVars, invocations, late>>

\* Mutant: the loop ends one thread early.
JoinedButLast(t) == t \in Targets /\ t + 1 \in Targets => tpc[t] \in Over

Joined(t) == t \in Targets => tpc[t] \in Over

\* Waits for thread i if it is a target, else passes over it.
pthread_join ==
    /\ pc = "join"
    /\ i <= num_tasks
    /\ Joined(i)
    /\ i' = i + 1
    /\ UNCHANGED <<pc, optVars, taskVars, threadVars, params,
                   total_processed_blocks, fileVars, invocations, late>>

JoinDone ==
    /\ pc = "join"
    /\ i > num_tasks
    /\ pc' = "cancel"
    /\ i' = 1
    /\ UNCHANGED <<optVars, taskVars, threadVars, params,
                   total_processed_blocks, fileVars, invocations, late>>

\* Asks thread i to stop, and does not wait until it has.
pthread_cancel ==
    /\ pc = "cancel"
    /\ i <= num_tasks
    /\ cancel' = [cancel EXCEPT ![i] = IF i \in Background THEN "requested" ELSE @]
    /\ i' = i + 1
    /\ UNCHANGED <<pc, optVars, taskVars, tpc, params,
                   total_processed_blocks, fileVars, invocations, late>>

\* The sum over the targets, the report, and free(params).
Report ==
    /\ pc = "cancel"
    /\ i > num_tasks
    /\ total_processed_blocks' = FoldFunctionOnSet(+, 0, progress, Targets)
    /\ params' = "freed"
    /\ pc' = "return"
    /\ UNCHANGED <<optVars, taskVars, i, threadVars, fileVars, invocations, late>>

\* The process ends, with the threads that still run and all of its memory.
ProcessEnds ==
    /\ pc' = "exited"
    /\ i' = 1
    /\ progress' = [t \in Tasks |-> 0]
    /\ tpc' = [t \in Tasks |-> "none"]
    /\ cancel' = [t \in Tasks |-> "no"]
    /\ params' = "none" /\ total_processed_blocks' = 0

return ==
    /\ pc = "return"
    /\ ProcessEnds
    /\ pre_failed' = FALSE
    /\ UNCHANGED <<optVars, task_list, pre, out, prepared, invocations, late>>

\* The stages run one by one: a run of one is followed by a run of the same or
\* of the other one, with the same options otherwise.
Again ==
    /\ pc = "exited" /\ stage \in 1..2 /\ task_list # <<>>
    /\ invocations < MaxInvocations
    /\ invocations' = invocations + 1
    /\ stage' \in 1..2
    /\ pc' = "tasks"
    /\ UNCHANGED <<reader_num, writer_num, total_num_blocks, measurement_object,
                   taskVars, i, threadVars, params, total_processed_blocks,
                   fileVars, late>>

-----------------------------------------------------------------------------
(* dedup_or_write_task: the threads *)

Goto(t, to) == tpc' = [tpc EXCEPT ![t] = to]

ThreadUnchanged == UNCHANGED <<optVars, task_list, i, total_processed_blocks, pre,
                               pre_failed, prepared, invocations>>

\* A cancellation takes effect at the next open or write; a call under way when
\* it comes may still be carried out.
Due(t) == cancel' = [cancel EXCEPT ![t] = IF @ = "requested" THEN "due" ELSE @]

\* The thread reads its params.  If they are freed it may find anything: the
\* process dies, or the bytes are still there.
Begin(t) ==
    /\ tpc[t] = "created"
    /\ late' = (late \/ params = "freed")
    /\ \/ /\ Goto(t, "open")
          /\ Due(t)
          /\ UNCHANGED <<pc, i, progress, params, total_processed_blocks>>
       \/ /\ params = "freed"
          /\ ProcessEnds
    /\ UNCHANGED <<optVars, task_list, fileVars, invocations>>

open(t) ==
    /\ tpc[t] = "open"
    /\ cancel[t] # "due"
    /\ Goto(t, "write") \/ Goto(t, "failed")
    /\ Due(t)
    /\ UNCHANGED <<pc, progress, params, out, late>>
    /\ ThreadUnchanged

MoreBlocks(t) == progress[t] < task_list[t].num_blocks

\* One round of make_file: the buffer is filled with the magic of the block,
\* and a write of less than all of it counts as a block too.
write(t) ==
    /\ tpc[t] = "write"
    /\ MoreBlocks(t)
    /\ cancel[t] # "due"
    /\ \E whole \in BOOLEAN :
          LET block == progress[t]
              v == IF whole /\ (\A k \in 1..block : out[t][k] # Torn)
                   THEN task_list[t].start_magic + block ELSE Torn
          IN  out' = [out EXCEPT ![t] = Put(@, block + 1, v)]
    /\ progress' = [progress EXCEPT ![t] = @ + 1]
    /\ Due(t)
    /\ UNCHANGED <<pc, tpc, params, late>>
    /\ ThreadUnchanged

\* Mutant: opens the file again.
ReopensFile == "open"

AfterWriteError == "failed"

writeFails(t) ==
    /\ tpc[t] = "write"
    /\ MoreBlocks(t)
    /\ cancel[t] # "due"
    /\ Goto(t, AfterWriteError)
    /\ UNCHANGED <<pc, progress, cancel, params, out, late>>
    /\ ThreadUnchanged

close(t) ==
    /\ tpc[t] = "write"
    /\ ~MoreBlocks(t)
    /\ Goto(t, "done")
    /\ UNCHANGED <<pc, progress, cancel, params, out, late>>
    /\ ThreadUnchanged

\* The thread acts on the cancellation, in open, in write, or in close.
Cancelled(t) ==
    /\ tpc[t] \in {"open", "write"}
    /\ cancel[t] # "no"
    /\ Goto(t, "cancelled")
    /\ UNCHANGED <<pc, progress, cancel, params, out, late>>
    /\ ThreadUnchanged

-----------------------------------------------------------------------------
Main ==
    \/ make_tasks
    \/ prepare_workload \/ PrepareDone
    \/ pthread_create \/ CreateDone \/ pthread_join \/ JoinDone
    \/ pthread_cancel \/ Report \/ return

dedup_or_write_task(t) ==
    \/ Begin(t) \/ open(t) \/ write(t) \/ writeFails(t) \/ close(t) \/ Cancelled(t)

Ended == pc = "exited" /\ UNCHANGED vars

Next ==
    \/ getopt \/ BadUsage \/ Main \/ Again
    \/ \E t \in Tasks : dedup_or_write_task(t)
    \/ Ended

\* The kernel lets every thread run; who calls the program is not its concern.
Spec ==
    /\ Init /\ [][Next]_vars
    /\ WF_vars(Main)
    /\ \A t \in 1..Max(Readers) + Max(Writers) :
          WF_vars(t \in Tasks /\ dedup_or_write_task(t))

-----------------------------------------------------------------------------
(* Properties *)

\* Every variable keeps its type: in particular progress, which the report adds
\* up, never passes the number of blocks of its task.
TypeOK ==
    /\ pc \in {"options", "tasks", "prepare", "create", "join", "cancel", "return",
               "exited"}
    /\ reader_num \in Nat /\ writer_num \in Nat /\ total_num_blocks \in Nat
    /\ measurement_object \in 0..2 /\ stage \in 0..3
    /\ task_list \in Seq(rw_interf_task_t)
    /\ DOMAIN progress = Tasks
    /\ \A t \in Tasks : progress[t] \in 0..task_list[t].num_blocks
    /\ tpc \in [Tasks -> Over \cup {"none", "created", "open", "write"}]
    /\ cancel \in [Tasks -> {"no", "requested", "due"}]
    /\ params \in {"none", "allocated", "freed"}
    /\ total_processed_blocks \in Nat
    /\ pre \in Seq(Seq(Nat)) /\ out \in Seq(Seq(Blocks))

Magics(files, ts) == (UNION {ToSet(files[t]) : t \in ts \cap DOMAIN files}) \ {Torn}

\* What the dup flag promises: once stage 1 has stored its files, every block
\* that a reader thread stores is one of theirs, for any split of the blocks.
ReadersDuplicate ==
    prepared => Magics(out, 1..reader_num) \subseteq Magics(pre, DOMAIN pre)

\* And a block that a writer thread stores is new: no prepared file and no
\* other thread has one like it.
WritersUnique ==
    \A t \in DOMAIN out : t > reader_num =>
        Magics(out, {t}) \cap (Magics(pre, DOMAIN pre)
                                 \cup Magics(out, DOMAIN out \ {t})) = {}

\* The number of blocks in the report is final: every target has ended, so the
\* sum that run() took while other threads still wrote does not change.  (All
\* variables keep their types.)
ReportIsFinal ==
    /\ TypeOK
    /\ params = "freed" => total_processed_blocks =
          FoldFunctionOnSet(+, 0, progress, Targets)

\* Under fair scheduling each run of the program ends: the join waits only for
\* threads that end by themselves.
RunEnds == pc = "tasks" ~> pc = "exited"

\* rw_interference.cpp:264, "cancel remains": after it nobody uses the params,
\* which run() goes on to free.
CancelledBeforeFree == ~late
=============================================================================
