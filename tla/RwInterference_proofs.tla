------------------------ MODULE RwInterference_proofs ------------------------
(***************************************************************************)
(* Proofs about rw_interference, for any number of readers, writers and    *)
(* blocks, any interleaving, errors, short writes and cancellations.       *)
(***************************************************************************)
EXTENDS RwInterference, SumLemmas

-----------------------------------------------------------------------------
(* The invariant *)

\* TypeOK, and the types it leaves open.
TypeInv ==
    /\ TypeOK
    /\ progress \in [Tasks -> Nat]
    /\ i \in Nat \ {0} /\ invocations \in Nat \ {0}
    /\ DOMAIN pre = Tasks /\ DOMAIN out = Tasks

\* There is no task list before the first make_tasks, and later ones make the
\* same list again: -s is not among its inputs.
MadeList == [t \in 1..reader_num + writer_num |-> Task(t)]
ListInv ==
    /\ task_list \in {<<>>, MadeList}
    /\ pc = "options" => invocations = 1
    /\ invocations = 1 /\ pc \in {"options", "tasks"} =>
          task_list = <<>> /\ ~prepared
    /\ invocations > 1 => task_list = MadeList

\* Block k of a file of stage 1 or 2 holds the magic of its place, if it is not
\* torn, whatever processes wrote the file.  A thread's next block is at or
\* before the end of its file.
FilesInv ==
    \A t \in Tasks :
        /\ Len(pre[t]) <= task_list[t].num_blocks
        /\ \A k \in 1..Len(pre[t]) : pre[t][k] = PrepareMagic(t) + k - 1
        /\ progress[t] <= Len(out[t])
        /\ Len(out[t]) <= task_list[t].num_blocks
        /\ \A k \in 1..Len(out[t]) :
              out[t][k] \in {Torn, task_list[t].start_magic + k - 1}

\* The files of stage 1 that are complete.
Complete(t) == Len(pre[t]) = task_list[t].num_blocks
PreparedInv ==
    /\ prepared => \A t \in Tasks : Complete(t)
    /\ pc = "prepare" /\ ~pre_failed => \A t \in Tasks : t < i => Complete(t)

\* The targets that main has joined are over, and stay so.
JoinInv ==
    /\ pc = "join" => \A t \in Targets : t < i => tpc[t] \in Over
    /\ pc = "cancel" \/ params = "freed" => \A t \in Targets : tpc[t] \in Over
    /\ params = "freed" => pc = "return"
    /\ params = "freed" => total_processed_blocks = SumOf(progress, Targets)

RwInv == TypeInv /\ ListInv /\ FilesInv /\ PreparedInv /\ JoinInv

-----------------------------------------------------------------------------
(* The tasks *)

\* The shares that an integer division gives are no more than the whole.
LEMMA Shares ==
    ASSUME NEW x \in Nat, NEW n \in Nat, n # 0
    PROVE  x \div n \in Nat /\ n * (x \div n) <= x
  OBVIOUS

\* All tasks together get no more blocks than there are.
LEMMA BlockNumbers ==
    ASSUME reader_num \in Nat, writer_num \in Nat, total_num_blocks \in Nat
    PROVE  /\ reader_num_blocks \in Nat /\ writer_num_blocks \in Nat
           /\ reader_num * reader_num_blocks + writer_num * writer_num_blocks
                 <= total_num_blocks
           /\ reader_num * reader_num_blocks \in Nat
           /\ writer_num * writer_num_blocks \in Nat
<1>1. Quarter(total_num_blocks) \in 0..total_num_blocks
  BY DEF Quarter
<1>2. /\ total_reader_num_blocks \in 0..total_num_blocks
      /\ total_num_blocks - total_reader_num_blocks \in Nat
      /\ reader_num = 0 => total_reader_num_blocks = 0
  BY <1>1 DEF total_reader_num_blocks
<1>3. /\ reader_num_blocks \in Nat
      /\ reader_num * reader_num_blocks <= total_reader_num_blocks
      /\ reader_num * reader_num_blocks \in Nat
  <2>1. CASE reader_num = 0
    BY <1>2, <2>1 DEF reader_num_blocks
  <2>2. CASE reader_num # 0
    <3>1. reader_num_blocks = total_reader_num_blocks \div reader_num
      BY <2>2 DEF reader_num_blocks
    <3>2. /\ reader_num_blocks \in Nat
          /\ reader_num * reader_num_blocks <= total_reader_num_blocks
      BY <1>2, <2>2, <3>1, Shares
    <3> QED BY <3>2
  <2> QED BY <2>1, <2>2
<1>4. /\ writer_num_blocks \in Nat
      /\ writer_num * writer_num_blocks <= total_num_blocks - total_reader_num_blocks
      /\ writer_num * writer_num_blocks \in Nat
  <2>1. CASE writer_num = 0
    BY <1>2, <2>1 DEF writer_num_blocks
  <2>2. CASE writer_num # 0
    <3>1. writer_num_blocks =
            (total_num_blocks - total_reader_num_blocks) \div writer_num
      BY <2>2 DEF writer_num_blocks
    <3>2. /\ writer_num_blocks \in Nat
          /\ writer_num * writer_num_blocks <=
                total_num_blocks - total_reader_num_blocks
      BY <1>2, <2>2, <3>1, Shares
    <3> QED BY <3>2
  <2> QED BY <2>1, <2>2
<1> QED BY <1>2, <1>3, <1>4

\* make_tasks makes well-formed tasks.
LEMMA MadeTasks ==
    ASSUME reader_num \in Nat, writer_num \in Nat, total_num_blocks \in Nat
    PROVE  /\ MadeList \in Seq(rw_interf_task_t)
           /\ Len(MadeList) = reader_num + writer_num
           /\ \A t \in 1..reader_num + writer_num :
                 MadeList[t] = Task(t) /\ Task(t) \in rw_interf_task_t
<1>1. reader_num_blocks \in Nat /\ writer_num_blocks \in Nat
  BY BlockNumbers
<1>2. ASSUME NEW t \in 1..reader_num + writer_num
      PROVE  Task(t) \in rw_interf_task_t
  <2>1. CASE t <= reader_num
    <3>1. (t - 1) * reader_num_blocks \in Nat
      BY <1>1
    <3> QED BY <1>1, <2>1, <3>1 DEF Task, rw_interf_task_t
  <2>2. CASE ~(t <= reader_num)
    <3>1. t - 1 - reader_num \in Nat
      BY <2>2
    <3>2. (t - 1 - reader_num) * writer_num_blocks \in Nat
      BY <1>1, <3>1
    <3>3. writer_start_magic + (t - 1 - reader_num) * writer_num_blocks \in Nat
      BY <3>2 DEF writer_start_magic
    <3> QED BY <1>1, <2>2, <3>3 DEF Task, rw_interf_task_t
  <2> QED BY <2>1, <2>2
<1>3. reader_num + writer_num \in Nat
  OBVIOUS
<1> QED BY <1>2, <1>3 DEF MadeList

\* What the other lemmas use of the tasks.
LEMMA TaskTypes ==
    ASSUME TypeInv
    PROVE  /\ num_tasks \in Nat /\ Tasks \subseteq Nat \ {0} /\ IsFiniteSet(Tasks)
           /\ \A t \in Tasks : /\ t \in 1..num_tasks
                               /\ task_list[t] \in rw_interf_task_t
                               /\ task_list[t].num_blocks \in Nat
                               /\ task_list[t].start_magic \in Nat
<1>1. task_list \in Seq(rw_interf_task_t)
  BY DEF TypeInv, TypeOK
<1>2. num_tasks \in Nat /\ Tasks = 1..num_tasks
  BY <1>1 DEF num_tasks, Tasks
<1>3. IsFiniteSet(Tasks)
  BY <1>2, FS_Interval
<1>4. \A t \in Tasks : task_list[t] \in rw_interf_task_t
  BY <1>1 DEF num_tasks, Tasks
<1> QED BY <1>2, <1>3, <1>4 DEF rw_interf_task_t

\* The threads measured are threads.
LEMMA TargetsAreTasks ==
    ASSUME TypeInv
    PROVE  Targets \subseteq Tasks /\ IsFiniteSet(Targets)
<1>1. num_tasks \in Nat /\ Tasks = 1..num_tasks /\ IsFiniteSet(Tasks)
  BY TaskTypes DEF Tasks
<1>2. Cardinality(Tasks) = num_tasks
  BY <1>1, FS_Interval
<1>3. num_readers \in Nat /\ num_readers <= num_tasks
  <2> DEFINE dups == {t \in Tasks : task_list[t].dup}
  <2>1. dups \in SUBSET Tasks
    OBVIOUS
  <2>2. Cardinality(dups) <= Cardinality(Tasks) /\ IsFiniteSet(dups)
    BY <1>1, <2>1, FS_Subset
  <2>3. Cardinality(dups) \in Nat
    BY <2>2, FS_CardinalityType
  <2> QED BY <1>2, <2>2, <2>3 DEF num_readers
<1>4. Targets \subseteq Tasks
  BY <1>1, <1>3 DEF Targets
<1> QED BY <1>1, <1>4, FS_Subset

\* prepare_workload starts a file where the one before it ended.
LEMMA MagicMoves ==
    ASSUME TypeInv
    PROVE  /\ PrepareMagic(1) = 0
           /\ \A t \in Tasks :
                 /\ PrepareMagic(t) \in Nat
                 /\ PrepareMagic(t + 1) = PrepareMagic(t) + task_list[t].num_blocks
<1> DEFINE f == [u \in Tasks |-> task_list[u].num_blocks]
<1>1. PrepareMagic(1) = 0
  <2>1. 1..1 - 1 = {}
    OBVIOUS
  <2>2. SumOf(f, {}) = 0
    BY FS_EmptySet, SumFirst
  <2> QED BY <2>1, <2>2 DEF PrepareMagic, SumOf
<1>2. ASSUME NEW t \in Tasks
      PROVE  /\ PrepareMagic(t) \in Nat
             /\ PrepareMagic(t + 1) = PrepareMagic(t) + task_list[t].num_blocks
  <2>1. t \in Nat \ {0} /\ t \in 1..num_tasks /\ num_tasks \in Nat
    BY TaskTypes
  <2>2. /\ 1..t - 1 \subseteq Tasks /\ 1..t \subseteq Tasks
        /\ (1..t) \ {t} = 1..t - 1 /\ t \in 1..t
    BY <2>1 DEF Tasks
  <2>3. \A u \in Tasks : f[u] \in Nat
    BY TaskTypes
  <2>4. f[t] = task_list[t].num_blocks
    OBVIOUS
  <2>5. IsFiniteSet(1..t) /\ IsFiniteSet(1..t - 1)
    BY <2>2, TaskTypes, FS_Subset
  <2> HIDE DEF f
  <2>6. SumOf(f, 1..t - 1) \in Nat
    BY <2>2, <2>3, <2>5, SumType
  <2>7. SumOf(f, 1..t) = f[t] + SumOf(f, 1..t - 1)
    BY <2>2, <2>3, <2>5, SumAny
  <2>8. \A u : PrepareMagic(u) = SumOf(f, 1..u - 1)
    BY DEF PrepareMagic, SumOf, f
  <2>9. PrepareMagic(t + 1) = SumOf(f, 1..t)
    <3>1. PICK u : u = t + 1
      OBVIOUS
    <3>2. u - 1 = t
      BY <2>1, <3>1
    <3>3. PrepareMagic(u) = SumOf(f, 1..t)
      BY <2>8, <3>2
    <3> QED BY <3>1, <3>3
  <2> QED BY <2>3, <2>4, <2>6, <2>7, <2>8, <2>9
<1> QED BY <1>1, <1>2

\* One more share.
LEMMA OneMore ==
    ASSUME NEW n \in Int, NEW x \in Int
    PROVE  n * x + x = (n + 1) * x /\ n * x \in Int
  OBVIOUS

\* Where the files of stage 1 begin: those of the readers where make_tasks lets
\* the readers begin, those of the writers behind them.
LEMMA MagicPlaces ==
    ASSUME TypeInv, task_list = MadeList
    PROVE  \A t \in Tasks :
              PrepareMagic(t) = IF t <= reader_num THEN (t - 1) * reader_num_blocks
                                ELSE reader_num * reader_num_blocks
                                       + (t - 1 - reader_num) * writer_num_blocks
<1> DEFINE r == reader_num_blocks
           w == writer_num_blocks
           Place(t) == IF t <= reader_num THEN (t - 1) * r
                       ELSE reader_num * r + (t - 1 - reader_num) * w
           Placed == {n \in Nat : n + 1 \in Tasks => PrepareMagic(n + 1) = Place(n + 1)}
<1>1. reader_num \in Nat /\ writer_num \in Nat /\ total_num_blocks \in Nat
  BY DEF TypeInv, TypeOK
<1>2. r \in Nat /\ w \in Nat /\ reader_num * r \in Nat
  BY <1>1, BlockNumbers
<1>3. /\ Tasks = 1..reader_num + writer_num
      /\ \A t \in Tasks : task_list[t] = Task(t)
  <2>1. /\ Len(MadeList) = reader_num + writer_num
        /\ \A t \in 1..reader_num + writer_num : MadeList[t] = Task(t)
    BY <1>1, MadeTasks
  <2> QED BY <2>1 DEF Tasks, num_tasks
<1> HIDE DEF r, w
<1>4. ASSUME NEW t \in Tasks
      PROVE  task_list[t].num_blocks = IF t <= reader_num THEN r ELSE w
  <2>1. task_list[t] = Task(t)
    BY <1>3
  <2>2. Task(t).num_blocks = IF t <= reader_num THEN r ELSE w
    BY DEF Task, r, w
  <2> QED BY <2>1, <2>2
<1>5. 0 \in Placed
  <2>1. CASE 1 <= reader_num
    BY <1>1, <1>2, <2>1, MagicMoves
  <2>2. CASE reader_num = 0
    BY <1>1, <1>2, <2>2, MagicMoves
  <2> QED BY <1>1, <2>1, <2>2
<1>6. ASSUME NEW n \in Nat, n \in Placed PROVE n + 1 \in Placed
  <2> SUFFICES ASSUME n + 1 + 1 \in Tasks
               PROVE  PrepareMagic(n + 1 + 1) = Place(n + 1 + 1)
    OBVIOUS
  <2>1. n + 1 \in Tasks
    BY <1>1, <1>3
  <2>2. PrepareMagic(n + 1) = Place(n + 1)
    BY <1>6, <2>1
  <2>3. PrepareMagic(n + 1 + 1) =
          Place(n + 1) + IF n + 1 <= reader_num THEN r ELSE w
    BY <1>4, <2>1, <2>2, MagicMoves
  <2>4. CASE n + 1 + 1 <= reader_num
    <3>1. Place(n + 1) = n * r /\ Place(n + 1 + 1) = (n + 1) * r
      BY <1>1, <2>4
    <3>2. n * r + r = (n + 1) * r
      BY <1>2, OneMore
    <3> HIDE DEF Place
    <3> QED BY <1>1, <2>3, <2>4, <3>1, <3>2
  <2>5. CASE n + 1 = reader_num
    <3>1. Place(n + 1) = n * r /\ Place(n + 1 + 1) = (n + 1) * r + 0 * w
      BY <1>1, <2>5
    <3>2. n * r + r = (n + 1) * r /\ (n + 1) * r \in Int /\ 0 * w = 0
      BY <1>2, OneMore
    <3> HIDE DEF Place
    <3> QED BY <1>1, <2>3, <2>5, <3>1, <3>2
  <2>6. CASE n + 1 > reader_num
    <3> DEFINE d == n - reader_num
    <3>1. /\ d \in Nat
          /\ Place(n + 1) = reader_num * r + d * w
          /\ Place(n + 1 + 1) = reader_num * r + (d + 1) * w
      BY <1>1, <2>6
    <3> HIDE DEF Place, d
    <3>2. d * w + w = (d + 1) * w /\ d * w \in Int
      BY <1>2, <3>1, OneMore
    <3>3. PrepareMagic(n + 1 + 1) = Place(n + 1) + w
      BY <1>1, <2>3, <2>6
    <3> QED BY <1>2, <3>1, <3>2, <3>3
  <2> QED BY <1>1, <2>4, <2>5, <2>6
<1>7. \A n \in Nat : n \in Placed
  <2> HIDE DEF Placed
  <2> QED BY <1>5, <1>6, SetInduction
<1>8. ASSUME NEW t \in Tasks PROVE PrepareMagic(t) = Place(t)
  <2>1. t - 1 \in Nat /\ t - 1 + 1 = t
    BY TaskTypes
  <2>2. t - 1 \in Placed
    BY <1>7, <2>1
  <2> HIDE DEF Place
  <2> QED BY <2>1, <2>2
<1> QED BY <1>8 DEF r, w

\* No magic of stage 1 is total_num_blocks or more, and those of the readers'
\* files are the ones that the readers are to store.
LEMMA MagicBelow ==
    ASSUME TypeInv, task_list = MadeList, NEW t \in Tasks
    PROVE  /\ PrepareMagic(t) + task_list[t].num_blocks <= total_num_blocks
           /\ PrepareMagic(t) \in Nat
           /\ t <= reader_num => task_list[t].start_magic = PrepareMagic(t)
<1> DEFINE r == reader_num_blocks
           w == writer_num_blocks
<1>1. reader_num \in Nat /\ writer_num \in Nat /\ total_num_blocks \in Nat
  BY DEF TypeInv, TypeOK
<1>2. /\ r \in Nat /\ w \in Nat
      /\ reader_num * r + writer_num * w <= total_num_blocks
      /\ reader_num * r \in Nat /\ writer_num * w \in Nat
  BY <1>1, BlockNumbers
<1>3. t \in 1..reader_num + writer_num /\ task_list[t] = Task(t)
  BY <1>1, MadeTasks DEF Tasks, num_tasks
<1>4. PrepareMagic(t) \in Nat
  BY MagicMoves
<1>5. PrepareMagic(t) = IF t <= reader_num THEN (t - 1) * r
                        ELSE reader_num * r + (t - 1 - reader_num) * w
  BY MagicPlaces
<1> HIDE DEF r, w
<1>6. CASE t <= reader_num
  <2>1. task_list[t].num_blocks = r /\ task_list[t].start_magic = (t - 1) * r
    BY <1>3, <1>6 DEF Task, r
  <2>2. (t - 1) * r + r = t * r
    <3>1. t - 1 \in Int /\ t - 1 + 1 = t
      BY <1>3
    <3> QED BY <1>2, <3>1, OneMore
  <2>3. t * r <= reader_num * r
    BY <1>1, <1>2, <1>3, <1>6
  <2>4. PrepareMagic(t) = (t - 1) * r
    BY <1>5, <1>6
  <2> QED BY <1>1, <1>2, <1>4, <2>1, <2>2, <2>3, <2>4
<1>7. CASE ~(t <= reader_num)
  <2> DEFINE d == t - 1 - reader_num
  <2>1. d \in Nat /\ d + 1 <= writer_num
    BY <1>1, <1>3, <1>7
  <2>2. PrepareMagic(t) = reader_num * r + d * w
    BY <1>5, <1>7
  <2>3. task_list[t].num_blocks = w
    BY <1>3, <1>7 DEF Task, w
  <2> HIDE DEF d
  <2>4. d * w + w = (d + 1) * w /\ d * w \in Int
    BY <1>2, <2>1, OneMore
  <2>5. (d + 1) * w <= writer_num * w
    BY <1>1, <1>2, <2>1
  <2> QED BY <1>1, <1>2, <1>4, <1>7, <2>2, <2>3, <2>4, <2>5
<1> QED BY <1>6, <1>7

-----------------------------------------------------------------------------
(* The types *)

\* PrepareMagic as a function of the task list.
MagicOf(list, t) == SumOf([u \in 1..Len(list) |-> list[u].num_blocks], 1..t - 1)

MagicsAre == \A t : PrepareMagic(t) = MagicOf(task_list, t)

\* And it is that function.
LEMMA MagicIs == MagicsAre
  BY DEF MagicsAre, PrepareMagic, MagicOf, SumOf, Tasks, num_tasks

\* The tasks stay while the list does.
LEMMA SameTasks ==
    ASSUME UNCHANGED task_list
    PROVE  /\ num_tasks' = num_tasks /\ Tasks' = Tasks /\ num_readers' = num_readers
           /\ \A t : PrepareMagic(t)' = PrepareMagic(t)
           /\ UNCHANGED measurement_object => Targets' = Targets
<1>1. num_tasks' = num_tasks /\ Tasks' = Tasks
  BY DEF num_tasks, Tasks
<1>2. num_readers' = num_readers
  BY <1>1 DEF num_readers
<1>3. ASSUME NEW t PROVE PrepareMagic(t)' = PrepareMagic(t)
  <2>1. MagicsAre'
    BY MagicIs, PTL
  <2>2. PrepareMagic(t)' = MagicOf(task_list', t)
    BY <2>1 DEF MagicsAre
  <2> QED BY <2>2, MagicIs DEF MagicsAre
<1> QED BY <1>1, <1>2, <1>3 DEF Targets

\* Most steps of the main thread leave the options, the tasks and the files alone.
LEMMA TypeKept ==
    ASSUME TypeInv, UNCHANGED <<optVars, taskVars, pre, out, invocations>>,
           pc' \in {"options", "tasks", "prepare", "create", "join", "cancel", "return",
                    "exited"},
           i' \in Nat \ {0},
           tpc' \in [Tasks -> Over \cup {"none", "created", "open", "write"}],
           cancel' \in [Tasks -> {"no", "requested", "due"}],
           params' \in {"none", "allocated", "freed"},
           total_processed_blocks' \in Nat
    PROVE  TypeInv'
<1>1. num_tasks' = num_tasks /\ Tasks' = Tasks
  BY SameTasks DEF taskVars
<1> QED BY <1>1 DEF TypeInv, TypeOK, optVars, taskVars

\* The end of a process leaves well-typed variables.
LEMMA EndType ==
    ASSUME TypeInv, ProcessEnds,
           UNCHANGED <<optVars, task_list, pre, out, prepared, invocations>>
    PROVE  TypeInv'
<1>1. num_tasks' = num_tasks /\ Tasks' = Tasks
  BY SameTasks
<1>2. \A t \in Tasks : task_list[t].num_blocks \in Nat
  BY TaskTypes
<1> QED BY <1>1, <1>2 DEF TypeInv, TypeOK, ProcessEnds, optVars

\* The main thread keeps the types.
LEMMA MainType ==
    ASSUME TypeInv, ListInv, Main
    PROVE  TypeInv'
<1>1. CASE make_tasks
  <2> DEFINE n == reader_num + writer_num
  <2>1. reader_num \in Nat /\ writer_num \in Nat /\ total_num_blocks \in Nat
    BY DEF TypeInv, TypeOK
  <2>2. /\ n \in Nat /\ MadeList \in Seq(rw_interf_task_t) /\ Len(MadeList) = n
        /\ \A t \in 1..n : MadeList[t] \in rw_interf_task_t
    BY <2>1, MadeTasks
  <2>3. /\ task_list' = MadeList
        /\ progress' = [t \in 1..n |-> 0]
        /\ tpc' = [t \in 1..n |-> "none"] /\ cancel' = [t \in 1..n |-> "no"]
        /\ IF invocations = 1
           THEN pre' = [t \in 1..n |-> <<>>] /\ out' = [t \in 1..n |-> <<>>]
           ELSE UNCHANGED <<pre, out>>
        /\ i' = 1 /\ pc' \in {"prepare", "create", "return"}
        /\ params' \in {"allocated", "none"}
        /\ UNCHANGED <<optVars, total_processed_blocks, invocations>>
    BY <1>1 DEF make_tasks, MadeList
  <2> HIDE DEF n
  <2>4. Tasks' = 1..n /\ num_tasks' = n
    BY <2>2, <2>3 DEF Tasks, num_tasks
  <2>5. \A t \in 1..n : task_list'[t].num_blocks \in Nat
    BY <2>2, <2>3 DEF rw_interf_task_t
  <2>6. DOMAIN pre' = 1..n /\ DOMAIN out' = 1..n
    <3>1. CASE invocations = 1
      BY <2>3, <3>1
    <3>2. CASE invocations # 1
      <4>1. task_list = MadeList
        BY <3>2 DEF ListInv, TypeInv
      <4>2. Tasks = 1..n
        BY <2>2, <4>1 DEF Tasks, num_tasks
      <4> QED BY <2>3, <3>2, <4>2 DEF TypeInv
    <3> QED BY <3>1, <3>2
  <2>7. pre' \in Seq(Seq(Nat)) /\ out' \in Seq(Seq(Blocks))
    <3>1. CASE invocations = 1
      <4>1. <<>> \in Seq(Nat) /\ <<>> \in Seq(Blocks)
        OBVIOUS
      <4>2. pre' \in [1..n -> Seq(Nat)]
        BY <2>3, <3>1, <4>1
      <4>3. out' \in [1..n -> Seq(Blocks)]
        BY <2>3, <3>1, <4>1
      <4>4. pre' \in Seq(Seq(Nat))
        BY <2>2, <4>2
      <4>5. out' \in Seq(Seq(Blocks))
        BY <2>2, <4>3
      <4> QED BY <4>4, <4>5
    <3>2. CASE invocations # 1
      BY <2>3, <3>2 DEF TypeInv, TypeOK
    <3> QED BY <3>1, <3>2
  <2>8. progress' \in [1..n -> Nat] /\ \A t \in 1..n : progress'[t] = 0
    BY <2>3
  <2>9. /\ tpc' \in [1..n -> Over \cup {"none", "created", "open", "write"}]
        /\ cancel' \in [1..n -> {"no", "requested", "due"}]
    BY <2>3
  <2> QED BY <2>2, <2>3, <2>4, <2>5, <2>6, <2>7, <2>8, <2>9
          DEF TypeInv, TypeOK, optVars
<1>2. CASE prepare_workload
  <2>1. /\ i \in Nat \ {0} /\ i <= num_tasks /\ i' = i + 1
        /\ UNCHANGED <<pc, optVars, taskVars, threadVars, params,
                       total_processed_blocks, out, invocations>>
    BY <1>2 DEF prepare_workload, TypeInv
  <2>2. i \in Tasks /\ pre \in Seq(Seq(Nat)) /\ DOMAIN pre = Tasks
    BY <2>1, TaskTypes DEF Tasks, TypeInv, TypeOK
  <2>3. PICK k \in 0..task_list[i].num_blocks :
          pre' = [pre EXCEPT ![i] =
                     [m \in 1..(IF k > Len(@) THEN k ELSE Len(@)) |->
                         IF m <= k THEN PrepareMagic(i) + m - 1 ELSE @[m]]]
    BY <1>2 DEF prepare_workload
  <2>4. pre' \in Seq(Seq(Nat)) /\ DOMAIN pre' = Tasks
    <3> DEFINE f == [m \in 1..(IF k > Len(pre[i]) THEN k ELSE Len(pre[i])) |->
                        IF m <= k THEN PrepareMagic(i) + m - 1 ELSE pre[i][m]]
    <3>1. k \in Nat /\ PrepareMagic(i) \in Nat /\ pre[i] \in Seq(Nat)
      BY <2>2, <2>3, TaskTypes, MagicMoves
    <3>2. f \in Seq(Nat)
      BY <3>1
    <3>3. pre' = [pre EXCEPT ![i] = f]
      BY <2>3
    <3> HIDE DEF f
    <3> QED BY <2>2, <3>2, <3>3
  <2>5. Tasks' = Tasks /\ num_tasks' = num_tasks
    BY <2>1, SameTasks DEF taskVars
  <2> QED BY <2>1, <2>4, <2>5 DEF TypeInv, TypeOK, optVars, taskVars, threadVars
<1>3. CASE PrepareDone \/ CreateDone \/ pthread_join \/ JoinDone
  <2>1. /\ i' \in Nat \ {0} /\ params' \in {"none", "allocated", "freed"}
        /\ pc' \in {"create", "join", "cancel", "return"}
        /\ UNCHANGED <<optVars, taskVars, threadVars, total_processed_blocks, pre, out,
                       invocations>>
    BY <1>3 DEF PrepareDone, CreateDone, pthread_join, JoinDone, TypeInv, TypeOK,
                fileVars
  <2> QED BY <2>1, TypeKept DEF TypeInv, TypeOK, threadVars
<1>4. CASE pthread_create \/ pthread_cancel
  <2>1. /\ i' \in Nat \ {0} /\ pc' = pc
        /\ UNCHANGED <<optVars, taskVars, total_processed_blocks, pre, out, invocations,
                       params>>
    BY <1>4 DEF pthread_create, pthread_cancel, TypeInv, fileVars
  <2>2. /\ tpc' \in [Tasks -> Over \cup {"none", "created", "open", "write"}]
        /\ cancel' \in [Tasks -> {"no", "requested", "due"}]
    BY <1>4 DEF pthread_create, pthread_cancel, TypeInv, TypeOK
  <2> QED BY <2>1, <2>2, TypeKept DEF TypeInv, TypeOK
<1>5. CASE Report
  <2>1. total_processed_blocks' \in Nat
    <3>1. IsFiniteSet(Targets) /\ \A t \in Targets : progress[t] \in Nat
      BY TargetsAreTasks DEF TypeInv
    <3>2. SumOf(progress, Targets) \in Nat
      BY <3>1, SumType
    <3> QED BY <1>5, <3>2 DEF Report, SumOf
  <2>2. /\ i' = i /\ pc' = "return" /\ params' = "freed"
        /\ UNCHANGED <<optVars, taskVars, threadVars, pre, out, invocations>>
    BY <1>5 DEF Report, fileVars
  <2> QED BY <2>1, <2>2, TypeKept DEF TypeInv, TypeOK, threadVars
<1>6. CASE return
  BY <1>6, EndType DEF return
<1> QED BY <1>1, <1>2, <1>3, <1>4, <1>5, <1>6 DEF Main

\* A thread keeps the types.
LEMMA ThreadType ==
    ASSUME TypeInv, NEW t \in Tasks, dedup_or_write_task(t)
    PROVE  TypeInv'
<1>1. ASSUME Due(t) \/ UNCHANGED cancel
      PROVE  cancel' \in [Tasks -> {"no", "requested", "due"}]
  BY <1>1 DEF Due, TypeInv, TypeOK
<1>2. ASSUME NEW to \in Over \cup {"none", "created", "open", "write"}, Goto(t, to)
      PROVE  tpc' \in [Tasks -> Over \cup {"none", "created", "open", "write"}]
  BY <1>2 DEF Goto, TypeInv, TypeOK
<1>3. CASE Begin(t)
  <2>1. UNCHANGED <<optVars, task_list, pre, out, prepared, invocations>>
    BY <1>3 DEF Begin, fileVars
  <2>2. CASE Goto(t, "open") /\ Due(t)
             /\ UNCHANGED <<pc, i, progress, params, total_processed_blocks>>
    BY <1>1, <1>2, <2>1, <2>2, TypeKept DEF TypeInv, TypeOK, taskVars
  <2>3. CASE ProcessEnds
    BY <2>1, <2>3, EndType
  <2> QED BY <1>3, <2>2, <2>3 DEF Begin
<1>4. CASE open(t) \/ writeFails(t) \/ close(t) \/ Cancelled(t)
  <2>1. /\ UNCHANGED <<optVars, taskVars, pre, out, invocations, pc, i, params,
                       total_processed_blocks>>
        /\ Due(t) \/ UNCHANGED cancel
    BY <1>4 DEF open, writeFails, close, Cancelled, ThreadUnchanged, taskVars
  <2>2. \E to \in {"write", "failed", "done", "cancelled"} : Goto(t, to)
    BY <1>4 DEF open, writeFails, close, Cancelled, AfterWriteError
  <2>3. tpc' \in [Tasks -> Over \cup {"none", "created", "open", "write"}]
    BY <1>2, <2>2 DEF Over
  <2> QED BY <1>1, <2>1, <2>3, TypeKept DEF TypeInv, TypeOK
<1>5. CASE write(t)
  <2>1. /\ UNCHANGED <<optVars, task_list, pre, invocations, pc, tpc, i, params,
                       total_processed_blocks>>
        /\ progress' = [progress EXCEPT ![t] = @ + 1]
        /\ progress[t] < task_list[t].num_blocks
        /\ Due(t)
    BY <1>5 DEF write, ThreadUnchanged, MoreBlocks
  <2>2. PICK v : v \in Blocks /\ out' = [out EXCEPT ![t] = Put(@, progress[t] + 1, v)]
    <3>1. PICK whole \in BOOLEAN :
            out' = [out EXCEPT ![t] = Put(@, progress[t] + 1,
                       IF whole /\ (\A k \in 1..progress[t] : out[t][k] # Torn)
                       THEN task_list[t].start_magic + progress[t] ELSE Torn)]
      BY <1>5 DEF write
    <3>2. task_list[t].start_magic + progress[t] \in Blocks /\ Torn \in Blocks
      BY TaskTypes DEF Blocks, TypeInv
    <3> QED BY <3>1, <3>2
  <2>3. out' \in Seq(Seq(Blocks)) /\ DOMAIN out' = Tasks
    <3>1. out \in Seq(Seq(Blocks)) /\ DOMAIN out = Tasks /\ progress[t] \in Nat
      BY DEF TypeInv, TypeOK
    <3>2. out[t] \in Seq(Blocks)
      BY <3>1
    <3>3. Put(out[t], progress[t] + 1, v) \in Seq(Blocks)
      BY <2>2, <3>1, <3>2 DEF Put
    <3> QED BY <2>2, <3>1, <3>3
  <2>4. num_tasks' = num_tasks /\ Tasks' = Tasks
    BY <2>1, SameTasks
  <2>5. /\ progress' \in [Tasks -> Nat]
        /\ \A u \in Tasks : progress'[u] \in 0..task_list[u].num_blocks
    <3>1. /\ progress \in [Tasks -> Nat]
          /\ \A u \in Tasks : progress[u] \in 0..task_list[u].num_blocks
      BY DEF TypeInv, TypeOK
    <3>2. progress[t] + 1 \in 0..task_list[t].num_blocks
      BY <2>1, <3>1, TaskTypes
    <3>3. progress' \in [Tasks -> Nat]
      BY <2>1, <3>1
    <3>4. \A u \in Tasks : progress'[u] = IF u = t THEN progress[t] + 1 ELSE progress[u]
      BY <2>1, <3>1
    <3> QED BY <3>1, <3>2, <3>3, <3>4
  <2>6. cancel' \in [Tasks -> {"no", "requested", "due"}]
    BY <1>1, <2>1
  <2> QED BY <2>1, <2>3, <2>4, <2>5, <2>6 DEF TypeInv, TypeOK, optVars
<1> QED BY <1>3, <1>4, <1>5 DEF dedup_or_write_task

\* Every step keeps the types.
LEMMA StepType == ASSUME TypeInv, ListInv, [Next]_vars PROVE TypeInv'
<1>1. CASE getopt
  <2>1. /\ UNCHANGED <<taskVars, i, threadVars, params, total_processed_blocks, fileVars,
                       invocations>>
        /\ pc' = "tasks" /\ reader_num' \in Nat /\ writer_num' \in Nat
        /\ total_num_blocks' \in Nat /\ measurement_object' \in 0..2
        /\ stage' \in 0..3
    BY <1>1, ConstantsAssumption
       DEF getopt, ConstantsAssumption, MO_READ_LAT, MO_WRITE_LAT
  <2>2. num_tasks' = num_tasks /\ Tasks' = Tasks
    BY <2>1, SameTasks DEF taskVars
  <2> QED BY <2>1, <2>2 DEF TypeInv, TypeOK, taskVars, threadVars, fileVars
<1>2. CASE BadUsage
  <2>1. /\ UNCHANGED <<optVars, taskVars, i, threadVars, params,
                       total_processed_blocks, fileVars, invocations>>
        /\ pc' = "exited"
    BY <1>2 DEF BadUsage
  <2> QED BY <2>1, TypeKept DEF TypeInv, TypeOK, threadVars, fileVars
<1>3. CASE Again
  <2>1. /\ UNCHANGED <<reader_num, writer_num, total_num_blocks, measurement_object,
                       taskVars, i, threadVars, params, total_processed_blocks,
                       fileVars>>
        /\ pc' = "tasks" /\ stage' \in 1..2 /\ invocations' \in Nat \ {0}
    BY <1>3 DEF Again, TypeInv
  <2>2. num_tasks' = num_tasks /\ Tasks' = Tasks
    BY <2>1, SameTasks DEF taskVars
  <2> QED BY <2>1, <2>2 DEF TypeInv, TypeOK, taskVars, threadVars, fileVars
<1>4. CASE UNCHANGED vars
  <2>1. UNCHANGED <<pc, optVars, taskVars, i, threadVars, params,
                    total_processed_blocks, fileVars, invocations>>
    BY <1>4 DEF vars
  <2> QED BY <2>1, TypeKept DEF TypeInv, TypeOK, threadVars, fileVars
<1> QED BY <1>1, <1>2, <1>3, <1>4, MainType, ThreadType DEF Next, Ended

-----------------------------------------------------------------------------
(* The list of tasks *)

\* The list depends on these options only.
LEMMA SameList ==
    ASSUME UNCHANGED <<reader_num, writer_num, total_num_blocks, measurement_object>>
    PROVE  MadeList' = MadeList
<1>1. reader_num_blocks' = reader_num_blocks /\ writer_num_blocks' = writer_num_blocks
  BY DEF reader_num_blocks, writer_num_blocks, total_reader_num_blocks, Quarter
<1>2. \A t : Task(t)' = Task(t)
  BY <1>1 DEF Task, writer_start_magic
<1> QED BY <1>2 DEF MadeList

\* Every step makes the list once, or leaves it.
LEMMA StepList == ASSUME TypeInv, ListInv, [Next]_vars PROVE ListInv'
<1>1. CASE getopt
  <2>1. invocations = 1 /\ task_list = <<>> /\ ~prepared
    BY <1>1 DEF ListInv, getopt
  <2>2. UNCHANGED <<invocations, task_list, prepared>>
    BY <1>1 DEF getopt, taskVars, fileVars
  <2>3. pc' = "tasks"
    BY <1>1 DEF getopt
  <2> QED BY <2>1, <2>2, <2>3 DEF ListInv
<1>2. CASE make_tasks
  <2>1. task_list' = MadeList /\ MadeList' = MadeList
    BY <1>2, SameList DEF make_tasks, MadeList, optVars
  <2>2. pc' \in {"prepare", "create", "return"}
    BY <1>2 DEF make_tasks
  <2> QED BY <2>1, <2>2 DEF ListInv
<1>3. CASE Again
  <2>1. UNCHANGED task_list /\ task_list # <<>> /\ MadeList' = MadeList
    BY <1>3, SameList DEF Again, taskVars
  <2>2. invocations' > 1 /\ pc' = "tasks" /\ invocations' # 1
    BY <1>3 DEF Again, TypeInv
  <2> QED BY <2>1, <2>2 DEF ListInv
<1>4. ASSUME UNCHANGED <<optVars, task_list, invocations>>,
             pc' \in {"options", "tasks"} => pc' = pc /\ UNCHANGED prepared
      PROVE  ListInv'
  <2>1. MadeList' = MadeList
    BY <1>4, SameList DEF optVars
  <2> QED BY <1>4, <2>1 DEF ListInv
<1>5. CASE BadUsage
  BY <1>4, <1>5 DEF BadUsage, taskVars, fileVars
<1>6. CASE \/ prepare_workload \/ PrepareDone \/ pthread_create \/ CreateDone
           \/ pthread_join \/ JoinDone \/ pthread_cancel \/ Report \/ return
  BY <1>4, <1>6 DEF prepare_workload, PrepareDone, pthread_create, CreateDone,
                    pthread_join, JoinDone, pthread_cancel, Report, return,
                    ProcessEnds, taskVars, fileVars
<1>7. ASSUME NEW t \in Tasks, dedup_or_write_task(t) PROVE ListInv'
  BY <1>4, <1>7 DEF dedup_or_write_task, Begin, open, write, writeFails, close,
                    Cancelled, ThreadUnchanged, ProcessEnds, fileVars
<1>8. CASE UNCHANGED vars
  BY <1>4, <1>8 DEF vars, taskVars, fileVars
<1> QED BY <1>1, <1>2, <1>3, <1>5, <1>6, <1>7, <1>8 DEF Next, Main, Ended

-----------------------------------------------------------------------------
(* The files *)

\* Steps that write no file keep what is known of the files.
LEMMA FilesKept ==
    ASSUME TypeInv, FilesInv, UNCHANGED <<task_list, pre, out>>,
           \A t \in Tasks : progress'[t] \in 0..progress[t]
    PROVE  FilesInv'
<1>1. Tasks' = Tasks /\ \A t : PrepareMagic(t)' = PrepareMagic(t)
  BY SameTasks
<1>2. ASSUME NEW t \in Tasks PROVE progress'[t] <= Len(out[t])
  <2>1. progress[t] \in Nat /\ Len(out[t]) \in Nat /\ progress[t] <= Len(out[t])
    BY DEF TypeInv, TypeOK, FilesInv
  <2> QED BY <2>1
<1> QED BY <1>1, <1>2 DEF FilesInv

\* With no tasks there is nothing to know.
LEMMA NoFiles == ASSUME Tasks' = {} PROVE FilesInv'
  BY DEF FilesInv

\* A file of stage 1 that is written over begins with the same magics.
LEMMA PrepareFiles ==
    ASSUME TypeInv, FilesInv, prepare_workload
    PROVE  /\ i \in Tasks /\ DOMAIN pre' = DOMAIN pre
           /\ \A t \in Tasks \ {i} : pre'[t] = pre[t]
           /\ \E k \in 0..task_list[i].num_blocks :
                 /\ Len(pre'[i]) = IF k > Len(pre[i]) THEN k ELSE Len(pre[i])
                 /\ \A m \in 1..Len(pre'[i]) : pre'[i][m] = PrepareMagic(i) + m - 1
                 /\ pre_failed' = (pre_failed \/ k < task_list[i].num_blocks)
<1>1. PICK k \in 0..task_list[i].num_blocks :
        /\ pre' = [pre EXCEPT ![i] =
                     [m \in 1..(IF k > Len(@) THEN k ELSE Len(@)) |->
                         IF m <= k THEN PrepareMagic(i) + m - 1 ELSE @[m]]]
        /\ pre_failed' = (pre_failed \/ k < task_list[i].num_blocks)
  BY DEF prepare_workload
<1>2. i \in Tasks
  BY TaskTypes DEF prepare_workload, TypeInv, Tasks
<1>3. pre[i] \in Seq(Nat) /\ DOMAIN pre = Tasks /\ k \in Nat
  BY <1>2, TaskTypes DEF TypeInv, TypeOK
<1>4. PICK n : n = IF k > Len(pre[i]) THEN k ELSE Len(pre[i])
  OBVIOUS
<1>5. PICK g : g = [m \in 1..n |-> IF m <= k THEN PrepareMagic(i) + m - 1 ELSE pre[i][m]]
  OBVIOUS
<1>6. pre' = [pre EXCEPT ![i] = g]
  BY <1>1, <1>4, <1>5
<1>7. pre'[i] = g /\ DOMAIN pre' = DOMAIN pre /\ \A t \in Tasks \ {i} : pre'[t] = pre[t]
  BY <1>2, <1>3, <1>6
<1>8. n \in Nat
  BY <1>3, <1>4
<1>9. Len(g) = n
  BY <1>5, <1>8
<1>10. ASSUME NEW m \in 1..n PROVE g[m] = PrepareMagic(i) + m - 1
  <2>1. CASE m <= k
    BY <1>5, <2>1
  <2>2. CASE ~(m <= k)
    <3>1. m \in 1..Len(pre[i])
      BY <1>3, <1>4, <2>2
    <3>2. pre[i][m] = PrepareMagic(i) + m - 1
      BY <1>2, <3>1 DEF FilesInv
    <3> QED BY <1>5, <2>2, <3>2
  <2> QED BY <2>1, <2>2
<1> QED BY <1>1, <1>2, <1>4, <1>7, <1>9, <1>10

\* A thread writes the next block of its file, which has none behind its end.
LEMMA WriteFiles ==
    ASSUME TypeInv, FilesInv, NEW t \in Tasks, write(t)
    PROVE  FilesInv'
<1>1. /\ UNCHANGED <<task_list, pre>>
      /\ progress' = [progress EXCEPT ![t] = @ + 1]
      /\ progress[t] < task_list[t].num_blocks
  BY DEF write, ThreadUnchanged, MoreBlocks
<1>2. PICK v : /\ v \in {Torn, task_list[t].start_magic + progress[t]}
               /\ out' = [out EXCEPT ![t] = Put(@, progress[t] + 1, v)]
  BY DEF write
<1>3. Tasks' = Tasks /\ \A u : PrepareMagic(u)' = PrepareMagic(u)
  BY <1>1, SameTasks
<1>4. /\ progress[t] \in Nat /\ out[t] \in Seq(Blocks) /\ DOMAIN out = Tasks
      /\ progress \in [Tasks -> Nat] /\ task_list[t].start_magic \in Nat
      /\ task_list[t].num_blocks \in Nat
  <2>1. /\ progress \in [Tasks -> Nat] /\ out \in Seq(Seq(Blocks)) /\ DOMAIN out = Tasks
    BY DEF TypeInv, TypeOK
  <2> QED BY <2>1, TaskTypes
<1>5. /\ progress[t] <= Len(out[t]) /\ Len(out[t]) <= task_list[t].num_blocks
      /\ \A k \in 1..Len(out[t]) :
            out[t][k] \in {Torn, task_list[t].start_magic + k - 1}
  BY DEF FilesInv
<1>6. PICK n : n = progress[t] + 1
  OBVIOUS
<1>7. PICK h : h = Put(out[t], n, v)
  OBVIOUS
<1>8. out'[t] = h /\ \A u \in Tasks \ {t} : out'[u] = out[u]
  <2>1. out' = [out EXCEPT ![t] = Put(out[t], n, v)]
    BY <1>2, <1>6
  <2> QED BY <1>4, <1>7, <2>1
<1>9. v \in {Torn, task_list[t].start_magic + n - 1} /\ v \in Blocks
  BY <1>2, <1>4, <1>6 DEF Blocks
<1>10. /\ n <= Len(h) /\ Len(h) <= task_list[t].num_blocks
       /\ \A k \in 1..Len(h) : h[k] \in {Torn, task_list[t].start_magic + k - 1}
  <2>1. CASE n <= Len(out[t])
    <3>1. h = [out[t] EXCEPT ![n] = v]
      BY <1>7, <2>1 DEF Put
    <3>2. Len(h) = Len(out[t])
      BY <1>4, <3>1
    <3> QED BY <1>4, <1>5, <1>9, <2>1, <3>1, <3>2
  <2>2. CASE ~(n <= Len(out[t]))
    <3>1. h = Append(out[t], v) /\ Len(out[t]) = progress[t]
      BY <1>4, <1>5, <1>6, <1>7, <2>2 DEF Put
    <3>2. Len(h) = n
      BY <1>4, <1>6, <1>9, <3>1
    <3>3. \A k \in 1..Len(h) : h[k] = IF k = n THEN v ELSE out[t][k]
      BY <1>4, <1>6, <1>9, <3>1, <3>2
    <3>4. n <= task_list[t].num_blocks
      BY <1>1, <1>4, <1>6
    <3>5. ASSUME NEW k \in 1..Len(h)
          PROVE  h[k] \in {Torn, task_list[t].start_magic + k - 1}
      <4>1. CASE k = n
        BY <1>9, <3>3, <4>1
      <4>2. CASE k # n
        <5>1. k \in 1..Len(out[t])
          BY <1>4, <1>6, <3>1, <3>2, <4>2
        <5> QED BY <1>5, <3>3, <4>2, <5>1
      <4> QED BY <4>1, <4>2
    <3> QED BY <1>4, <1>6, <3>2, <3>4, <3>5
  <2> QED BY <2>1, <2>2
<1>11. progress'[t] = n /\ \A u \in Tasks \ {t} : progress'[u] = progress[u]
  BY <1>1, <1>4, <1>6
<1>12. ASSUME NEW u \in Tasks
       PROVE  /\ progress'[u] <= Len(out'[u])
              /\ Len(out'[u]) <= task_list[u].num_blocks
              /\ \A k \in 1..Len(out'[u]) :
                    out'[u][k] \in {Torn, task_list[u].start_magic + k - 1}
  <2>1. CASE u = t
    BY <1>8, <1>10, <1>11, <2>1
  <2>2. CASE u # t
    BY <1>8, <1>11, <2>2 DEF FilesInv
  <2> QED BY <2>1, <2>2
<1> QED BY <1>1, <1>3, <1>12 DEF FilesInv

\* No process has files before the first one has made the tasks.
LEMMA NoTasksYet ==
    ASSUME TypeInv, ListInv, getopt
    PROVE  Tasks = {} /\ Tasks' = {}
<1>1. task_list = <<>> /\ UNCHANGED task_list
  BY DEF getopt, ListInv, taskVars
<1>2. Tasks = {}
  BY <1>1 DEF Tasks, num_tasks
<1> QED BY <1>1, <1>2, SameTasks

\* The tasks of a directory with files are made again as they were.
LEMMA TasksAgain ==
    ASSUME TypeInv, ListInv, make_tasks
    PROVE  /\ DOMAIN progress' = Tasks' /\ \A t \in Tasks' : progress'[t] = 0
           /\ CASE invocations = 1 -> /\ pre' = [t \in Tasks' |-> <<>>]
                                      /\ out' = [t \in Tasks' |-> <<>>]
                                      /\ ~prepared
                [] OTHER -> UNCHANGED <<task_list, pre, out>>
<1>1. pc = "tasks" /\ task_list' = MadeList
  BY DEF make_tasks, MadeList
<1>2. Tasks' = 1..reader_num + writer_num
  <2>1. Len(MadeList) = reader_num + writer_num
    BY MadeTasks DEF TypeInv, TypeOK
  <2> QED BY <1>1, <2>1 DEF Tasks, num_tasks
<1>3. progress' = [t \in Tasks' |-> 0]
  BY <1>2 DEF make_tasks
<1>4. CASE invocations = 1
  BY <1>1, <1>2, <1>3, <1>4 DEF make_tasks, ListInv
<1>5. CASE invocations # 1
  <2>1. invocations > 1
    BY <1>5 DEF TypeInv
  <2>2. UNCHANGED <<task_list, pre, out>>
    BY <1>1, <1>5, <2>1 DEF make_tasks, ListInv
  <2> QED BY <1>3, <1>5, <2>2
<1> QED BY <1>4, <1>5

\* Every step keeps what is known of the files.
LEMMA StepFiles == ASSUME TypeInv, ListInv, FilesInv, [Next]_vars PROVE FilesInv'
<1>1. CASE getopt
  BY <1>1, NoTasksYet, NoFiles
<1>2. CASE make_tasks
  <2>1. TypeInv'
    BY <1>2, StepType DEF Next, Main
  <2>2. \A t \in Tasks' : /\ task_list'[t].num_blocks \in Nat
                           /\ progress'[t] = 0 /\ out'[t] \in Seq(Blocks)
    <3>2. task_list' \in Seq(rw_interf_task_t) /\ out' \in Seq(Seq(Blocks))
          /\ DOMAIN out' = Tasks'
      BY <2>1 DEF TypeInv, TypeOK
    <3>3. \A t \in Tasks' : task_list'[t] \in rw_interf_task_t
      BY <3>2 DEF Tasks, num_tasks
    <3>4. \A t \in Tasks' : progress'[t] = 0
      BY <1>2, TasksAgain
    <3> QED BY <3>2, <3>3, <3>4 DEF rw_interf_task_t
  <2>3. CASE invocations = 1
    <3>1. pre' = [t \in Tasks' |-> <<>>] /\ out' = [t \in Tasks' |-> <<>>]
      BY <1>2, <2>3, TasksAgain
    <3>2. \A t \in Tasks' : Len(pre'[t]) = 0 /\ Len(out'[t]) = 0
      BY <3>1
    <3> QED BY <2>2, <3>2 DEF FilesInv
  <2>4. CASE invocations # 1
    <3>1. UNCHANGED <<task_list, pre, out>>
      BY <1>2, <2>4, TasksAgain
    <3>2. Tasks' = Tasks
      BY <3>1, SameTasks
    <3>3. \A t \in Tasks : progress'[t] \in 0..progress[t]
      BY <2>2, <3>2 DEF TypeInv
    <3> QED BY <3>1, <3>3, FilesKept
  <2> QED BY <2>3, <2>4
<1>3. CASE prepare_workload
  <2>1. UNCHANGED <<task_list, progress, out>>
    BY <1>3 DEF prepare_workload, taskVars
  <2>2. Tasks' = Tasks /\ \A u : PrepareMagic(u)' = PrepareMagic(u)
    BY <2>1, SameTasks
  <2>3. i \in Tasks /\ \A t \in Tasks \ {i} : pre'[t] = pre[t]
    BY <1>3, PrepareFiles
  <2>4. PICK k \in 0..task_list[i].num_blocks :
          /\ Len(pre'[i]) = IF k > Len(pre[i]) THEN k ELSE Len(pre[i])
          /\ \A m \in 1..Len(pre'[i]) : pre'[i][m] = PrepareMagic(i) + m - 1
    BY <1>3, PrepareFiles
  <2>5. Len(pre'[i]) <= task_list[i].num_blocks
    BY <2>3, <2>4, TaskTypes DEF FilesInv
  <2>6. ASSUME NEW t \in Tasks
        PROVE  /\ Len(pre'[t]) <= task_list[t].num_blocks
               /\ \A m \in 1..Len(pre'[t]) : pre'[t][m] = PrepareMagic(t) + m - 1
    <3>1. CASE t = i
      BY <2>4, <2>5, <3>1
    <3>2. CASE t # i
      BY <2>3, <3>2 DEF FilesInv
    <3> QED BY <3>1, <3>2
  <2> QED BY <2>1, <2>2, <2>6 DEF FilesInv
<1>4. ASSUME UNCHANGED <<task_list, pre, out, progress>> PROVE FilesInv'
  BY <1>4, FilesKept DEF TypeInv
<1>5. ASSUME ProcessEnds, UNCHANGED <<task_list, pre, out>> PROVE FilesInv'
  <2>1. \A t \in Tasks : progress'[t] \in 0..progress[t]
    BY <1>5 DEF ProcessEnds, TypeInv
  <2> QED BY <1>5, <2>1, FilesKept
<1>6. CASE \/ BadUsage \/ Again \/ PrepareDone \/ pthread_create \/ CreateDone
           \/ pthread_join \/ JoinDone \/ pthread_cancel \/ Report
  BY <1>4, <1>6 DEF BadUsage, Again, PrepareDone, pthread_create, CreateDone,
                    pthread_join, JoinDone, pthread_cancel, Report, taskVars, fileVars
<1>7. CASE return
  BY <1>5, <1>7 DEF return
<1>8. ASSUME NEW t \in Tasks, dedup_or_write_task(t) PROVE FilesInv'
  <2>1. CASE Begin(t)
    BY <1>4, <1>5, <2>1 DEF Begin, fileVars
  <2>2. CASE open(t) \/ writeFails(t) \/ close(t) \/ Cancelled(t)
    BY <1>4, <2>2 DEF open, writeFails, close, Cancelled, ThreadUnchanged
  <2> QED BY <1>8, <2>1, <2>2, WriteFiles DEF dedup_or_write_task
<1>9. CASE UNCHANGED vars
  BY <1>4, <1>9 DEF vars, taskVars, fileVars
<1> QED BY <1>1, <1>2, <1>3, <1>6, <1>7, <1>8, <1>9 DEF Next, Main, Ended

\* Every step keeps the complete files of stage 1 complete.
LEMMA StepPrepared ==
    ASSUME TypeInv, ListInv, FilesInv, PreparedInv, [Next]_vars
    PROVE  PreparedInv'
<1>1. CASE getopt
  BY <1>1, NoTasksYet DEF PreparedInv
<1>2. CASE make_tasks
  <2>1. i' = 1 /\ UNCHANGED prepared
    BY <1>2 DEF make_tasks
  <2>2. \A t \in Tasks' : t \in Nat \ {0}
    <3>1. TypeInv'
      BY <1>2, StepType DEF Next, Main
    <3>2. Tasks' \subseteq Nat \ {0}
      BY <3>1 DEF TypeInv, TypeOK, Tasks
    <3> QED BY <3>2
  <2>3. ASSUME prepared' PROVE \A t \in Tasks' : Complete(t)'
    <3>1. UNCHANGED <<task_list, pre>>
      BY <1>2, <2>1, <2>3, TasksAgain
    <3>2. Tasks' = Tasks
      BY <3>1, SameTasks
    <3> QED BY <2>1, <2>3, <3>1, <3>2 DEF PreparedInv, Complete
  <2> QED BY <2>1, <2>2, <2>3 DEF PreparedInv
<1>3. CASE prepare_workload
  <2>1. UNCHANGED <<task_list, prepared, pc>> /\ pc = "prepare" /\ i' = i + 1
    BY <1>3 DEF prepare_workload, taskVars
  <2>2. Tasks' = Tasks
    BY <2>1, SameTasks
  <2>3. i \in Tasks /\ \A t \in Tasks \ {i} : pre'[t] = pre[t]
    BY <1>3, PrepareFiles
  <2>4. PICK k \in 0..task_list[i].num_blocks :
          /\ Len(pre'[i]) = IF k > Len(pre[i]) THEN k ELSE Len(pre[i])
          /\ pre_failed' = (pre_failed \/ k < task_list[i].num_blocks)
    BY <1>3, PrepareFiles
  <2>5. task_list[i].num_blocks \in Nat /\ Len(pre[i]) <= task_list[i].num_blocks
    BY <2>3, TaskTypes DEF FilesInv
  <2>6. Len(pre[i]) \in Nat
    BY <2>3 DEF TypeInv, TypeOK
  <2>7. ASSUME NEW t \in Tasks, Complete(t) PROVE Complete(t)'
    <3>1. CASE t = i
      BY <2>1, <2>4, <2>5, <2>6, <2>7, <3>1 DEF Complete
    <3>2. CASE t # i
      BY <2>1, <2>3, <2>7, <3>2 DEF Complete
    <3> QED BY <3>1, <3>2
  <2>8. ASSUME ~pre_failed', NEW t \in Tasks, t < i' PROVE Complete(t)'
    <3>1. ~pre_failed /\ ~(k < task_list[i].num_blocks)
      BY <2>4, <2>8
    <3>2. CASE t = i
      BY <2>1, <2>4, <2>5, <2>6, <3>1, <3>2 DEF Complete
    <3>3. CASE t # i
      <4>1. t < i
        BY <2>1, <2>8, <3>3, TaskTypes DEF TypeInv
      <4>2. Complete(t)
        BY <2>1, <3>1, <4>1 DEF PreparedInv
      <4> QED BY <2>7, <4>2
    <3> QED BY <3>2, <3>3
  <2> QED BY <2>1, <2>2, <2>7, <2>8 DEF PreparedInv
<1>4. CASE PrepareDone
  <2>1. /\ UNCHANGED <<task_list, pre>> /\ pc' # "prepare" /\ pc = "prepare"
        /\ prepared' = (prepared \/ ~pre_failed)
    BY <1>4 DEF PrepareDone, taskVars
  <2>2. \A t \in Tasks : t < i
    BY <1>4, TaskTypes DEF PrepareDone, TypeInv
  <2>3. Tasks' = Tasks
    BY <2>1, SameTasks
  <2> QED BY <2>1, <2>2, <2>3 DEF PreparedInv, Complete
<1>5. ASSUME UNCHANGED <<task_list, pre, prepared>>,
             pc' = "prepare" => UNCHANGED <<pc, i, pre_failed>>
      PROVE  PreparedInv'
  <2>1. Tasks' = Tasks
    BY <1>5, SameTasks
  <2> QED BY <1>5, <2>1 DEF PreparedInv, Complete
<1>6. CASE \/ BadUsage \/ Again \/ CreateDone \/ pthread_create \/ pthread_join
           \/ JoinDone \/ pthread_cancel \/ Report \/ return
  BY <1>5, <1>6 DEF BadUsage, Again, pthread_create, CreateDone, pthread_join, JoinDone,
                    pthread_cancel, Report, return, ProcessEnds, taskVars, fileVars
<1>7. ASSUME NEW t \in Tasks, dedup_or_write_task(t) PROVE PreparedInv'
  BY <1>5, <1>7 DEF dedup_or_write_task, Begin, open, write, writeFails, close,
                    Cancelled, ThreadUnchanged, ProcessEnds, fileVars
<1>8. CASE UNCHANGED vars
  BY <1>5, <1>8 DEF vars, taskVars, fileVars
<1> QED BY <1>1, <1>2, <1>3, <1>4, <1>6, <1>7, <1>8 DEF Next, Main, Ended

-----------------------------------------------------------------------------
(* The report *)

\* A step of a thread that is not over ends it or leaves it running, and ends or
\* starts no other; only a write counts a block.
LEMMA ThreadSteps ==
    ASSUME TypeInv, NEW t \in Tasks, dedup_or_write_task(t)
    PROVE  \/ ProcessEnds
           \/ /\ tpc[t] \notin Over /\ UNCHANGED <<pc, i, params, total_processed_blocks>>
              /\ \A u \in Tasks \ {t} : tpc'[u] = tpc[u] /\ progress'[u] = progress[u]
<1>1. DOMAIN tpc = Tasks /\ DOMAIN progress = Tasks
  BY DEF TypeInv, TypeOK
<1>2. ASSUME NEW to, Goto(t, to) PROVE \A u \in Tasks \ {t} : tpc'[u] = tpc[u]
  BY <1>1, <1>2 DEF Goto
<1>3. CASE Begin(t)
  BY <1>2, <1>3 DEF Begin, Over
<1>4. CASE open(t) \/ writeFails(t) \/ close(t) \/ Cancelled(t)
  BY <1>2, <1>4 DEF open, writeFails, close, Cancelled, ThreadUnchanged, Over
<1>5. CASE write(t)
  BY <1>1, <1>5 DEF write, ThreadUnchanged, Over
<1> QED BY <1>3, <1>4, <1>5 DEF dedup_or_write_task

\* Every step keeps the joined targets over, and with them the reported sum.
LEMMA StepJoin ==
    ASSUME TypeInv, JoinInv, [Next]_vars
    PROVE  JoinInv'
<1>1. Targets \subseteq Tasks
  BY TargetsAreTasks
<1>2. CASE getopt \/ BadUsage \/ Again
  <2>1. pc # "return" /\ UNCHANGED params /\ pc' \notin {"join", "cancel"}
    BY <1>2 DEF getopt, BadUsage, Again
  <2> QED BY <2>1 DEF JoinInv
<1>3. CASE make_tasks \/ PrepareDone
  <2>1. params' # "freed" /\ pc' \notin {"join", "cancel"}
    BY <1>3 DEF make_tasks, PrepareDone
  <2> QED BY <2>1 DEF JoinInv
<1>4. CASE prepare_workload \/ pthread_create
  <2>1. params' # "freed" /\ pc' \notin {"join", "cancel"}
    BY <1>4 DEF prepare_workload, pthread_create, JoinInv
  <2> QED BY <2>1 DEF JoinInv
<1>5. CASE return
  <2>1. params' # "freed" /\ pc' \notin {"join", "cancel"}
    BY <1>5 DEF return, ProcessEnds
  <2> QED BY <2>1 DEF JoinInv
<1>6. ASSUME UNCHANGED <<task_list, measurement_object>> PROVE Targets' = Targets
  BY <1>6, SameTasks
<1>7. CASE CreateDone
  <2>1. /\ pc' = "join" /\ i' = 1 /\ params' = params /\ params # "freed"
        /\ Targets' = Targets
    BY <1>6, <1>7 DEF CreateDone, JoinInv, optVars, taskVars
  <2>2. \A t \in Targets : ~(t < 1)
    BY <1>1, TaskTypes
  <2> QED BY <2>1, <2>2 DEF JoinInv
<1>8. CASE pthread_join
  <2>1. /\ pc = "join" /\ pc' = "join" /\ i' = i + 1 /\ params' = params
        /\ params # "freed" /\ Targets' = Targets /\ tpc' = tpc /\ Joined(i)
    BY <1>6, <1>8 DEF pthread_join, JoinInv, optVars, taskVars, threadVars
  <2>2. ASSUME NEW t \in Targets, t < i + 1 PROVE tpc[t] \in Over
    <3>1. t < i \/ t = i
      BY <1>1, <2>2, TaskTypes DEF TypeInv
    <3> QED BY <2>1, <3>1 DEF JoinInv, Joined
  <2> QED BY <2>1, <2>2 DEF JoinInv, Over
<1>9. CASE JoinDone
  <2>1. /\ pc = "join" /\ pc' = "cancel" /\ params' = params
        /\ params # "freed" /\ Targets' = Targets /\ tpc' = tpc /\ i > num_tasks
    BY <1>6, <1>9 DEF JoinDone, JoinInv, optVars, taskVars, threadVars
  <2>2. \A t \in Targets : t < i
    BY <1>1, <2>1, TaskTypes DEF TypeInv
  <2> QED BY <2>1, <2>2 DEF JoinInv, Over
<1>10. CASE pthread_cancel
  <2>1. /\ pc = "cancel" /\ pc' = "cancel" /\ params' = params
        /\ params # "freed" /\ Targets' = Targets /\ tpc' = tpc
    BY <1>6, <1>10 DEF pthread_cancel, JoinInv, optVars, taskVars
  <2> QED BY <2>1 DEF JoinInv, Over
<1>11. CASE Report
  <2>1. /\ pc = "cancel" /\ pc' = "return" /\ Targets' = Targets /\ tpc' = tpc
        /\ progress' = progress /\ total_processed_blocks' = SumOf(progress, Targets)
    BY <1>6, <1>11 DEF Report, optVars, taskVars, threadVars, SumOf
  <2>2. \A t \in Targets : tpc[t] \in Over
    BY <2>1 DEF JoinInv
  <2>3. SumOf(progress, Targets)' = SumOf(progress, Targets)
    BY <2>1
  <2> QED BY <2>1, <2>2, <2>3 DEF JoinInv, Over
<1>12. ASSUME NEW t \in Tasks, dedup_or_write_task(t) PROVE JoinInv'
  <2>1. CASE ProcessEnds
    BY <2>1 DEF ProcessEnds, JoinInv
  <2>2. CASE ~ProcessEnds
    <3>1. /\ tpc[t] \notin Over /\ UNCHANGED <<pc, i, params, total_processed_blocks>>
          /\ \A u \in Tasks \ {t} : tpc'[u] = tpc[u] /\ progress'[u] = progress[u]
      BY <1>12, <2>2, ThreadSteps
    <3>2. Targets' = Targets
      BY <1>6, <1>12 DEF dedup_or_write_task, Begin, open, write, writeFails, close,
                         Cancelled, ThreadUnchanged, optVars
    <3>3. \A u \in Targets : tpc[u] \in Over => u \in Tasks \ {t} /\ tpc'[u] = tpc[u]
      BY <1>1, <3>1
    <3>4. ASSUME params = "freed"
          PROVE  total_processed_blocks' = SumOf(progress, Targets)'
      <4>1. \A u \in Targets : progress'[u] = progress[u]
        BY <3>1, <3>3, <3>4 DEF JoinInv
      <4>2. SumOf(progress', Targets) = SumOf(progress, Targets)
        BY <4>1, SumSame
      <4>3. SumOf(progress, Targets)' = SumOf(progress', Targets)
        BY <3>2
      <4> QED BY <3>1, <3>4, <4>2, <4>3 DEF JoinInv
    <3> QED BY <3>1, <3>2, <3>3, <3>4 DEF JoinInv, Over
  <2> QED BY <2>1, <2>2
<1>13. CASE UNCHANGED vars
  <2>1. UNCHANGED <<pc, i, tpc, progress, params, total_processed_blocks>>
        /\ Targets' = Targets
    BY <1>6, <1>13 DEF vars, optVars, taskVars, threadVars
  <2>2. SumOf(progress, Targets)' = SumOf(progress, Targets)
    BY <2>1
  <2> QED BY <2>1, <2>2 DEF JoinInv, Over
<1> QED BY <1>2, <1>3, <1>4, <1>5, <1>7, <1>8, <1>9, <1>10, <1>11, <1>12, <1>13
        DEF Next, Main, Ended

-----------------------------------------------------------------------------
(* The theorems *)

\* The invariant holds at first.
LEMMA InitInv == ASSUME Init PROVE RwInv
<1>1. Tasks = {} /\ num_tasks = 0
  BY DEF Init, Tasks, num_tasks
<1>2. TypeInv
  BY <1>1 DEF Init, TypeInv, TypeOK, Over, MO_READ_LAT
<1> QED BY <1>1, <1>2
        DEF RwInv, Init, ListInv, FilesInv, PreparedInv, JoinInv

\* And always.
THEOREM Invariant == Spec => []RwInv
<1>1. Init => RwInv
  BY InitInv
<1>2. RwInv /\ [Next]_vars => RwInv'
  BY StepType, StepList, StepFiles, StepPrepared, StepJoin DEF RwInv
<1> QED BY <1>1, <1>2, PTL DEF Spec

\* The number of blocks in the report does not change after run() took the sum:
\* its loop over pthread_join left no target that still writes.
THEOREM AlwaysReportIsFinal == Spec => []ReportIsFinal
<1>1. RwInv => ReportIsFinal
  BY DEF RwInv, TypeInv, JoinInv, SumOf, ReportIsFinal
<1> QED BY <1>1, Invariant, PTL

\* A magic in a set of files is that of a block of one of them.
LEMMA MagicOfBlock ==
    ASSUME NEW files, NEW ts, NEW m
    PROVE  m \in Magics(files, ts) <=>
              /\ m # Torn
              /\ \E t \in ts \cap DOMAIN files : \E k \in DOMAIN files[t] : m = files[t][k]
  BY DEF Magics, ToSet

\* Where a block of stage 2 and one of stage 1 lie among the magics.
LEMMA PlacesOfBlocks ==
    ASSUME RwInv, NEW t \in Tasks
    PROVE  /\ \A k \in DOMAIN out[t] :
                 /\ k \in 1..task_list[t].num_blocks /\ k \in 1..Len(out[t])
                 /\ out[t][k] # Torn => out[t][k] = task_list[t].start_magic + k - 1
           /\ \A k \in DOMAIN pre[t] :
                 /\ k \in 1..task_list[t].num_blocks
                 /\ pre[t][k] = PrepareMagic(t) + k - 1
           /\ DOMAIN pre[t] = 1..Len(pre[t])
<1>1. out[t] \in Seq(Blocks) /\ pre[t] \in Seq(Nat) /\ task_list[t].num_blocks \in Nat
  <2>1. /\ out \in Seq(Seq(Blocks)) /\ pre \in Seq(Seq(Nat))
        /\ DOMAIN out = Tasks /\ DOMAIN pre = Tasks
    BY DEF RwInv, TypeInv, TypeOK
  <2> QED BY <2>1, TaskTypes DEF RwInv
<1>2. /\ Len(pre[t]) <= task_list[t].num_blocks /\ Len(out[t]) <= task_list[t].num_blocks
      /\ \A k \in 1..Len(pre[t]) : pre[t][k] = PrepareMagic(t) + k - 1
      /\ \A k \in 1..Len(out[t]) : out[t][k] \in {Torn, task_list[t].start_magic + k - 1}
  BY DEF RwInv, FilesInv
<1>3. DOMAIN out[t] = 1..Len(out[t]) /\ DOMAIN pre[t] = 1..Len(pre[t])
  BY <1>1
<1>4. \A k \in 1..Len(out[t]) \cup 1..Len(pre[t]) : k \in 1..task_list[t].num_blocks
  BY <1>1, <1>2
<1> QED BY <1>2, <1>3, <1>4

\* There are no threads without the list that make_tasks makes.
LEMMA ListIsMade == ASSUME RwInv, NEW t \in Tasks PROVE task_list = MadeList
  BY DEF RwInv, ListInv, Tasks, num_tasks

\* Once stage 1 has stored all its blocks, what a reader thread stores is a
\* duplicate of one of them.
THEOREM AlwaysReadersDuplicate == Spec => []ReadersDuplicate
<1>1. ASSUME RwInv PROVE ReadersDuplicate
  <2> SUFFICES ASSUME prepared, NEW m \in Magics(out, 1..reader_num)
               PROVE  m \in Magics(pre, DOMAIN pre)
    BY DEF ReadersDuplicate
  <2>1. DOMAIN out = Tasks /\ DOMAIN pre = Tasks
    BY <1>1 DEF RwInv, TypeInv
  <2> DEFINE R == 1..reader_num
  <2>2. m # Torn /\ \E t \in R \cap DOMAIN out : \E k \in DOMAIN out[t] : m = out[t][k]
    <3>1. m \in Magics(out, R)
      OBVIOUS
    <3> HIDE DEF R
    <3> QED BY <3>1, MagicOfBlock
  <2>3. PICK t \in R \cap Tasks : \E k \in DOMAIN out[t] : m = out[t][k]
    BY <2>2, <2>1
  <2>4. PICK k \in DOMAIN out[t] : m = out[t][k] /\ m # Torn
    BY <2>2, <2>3
  <2>5. t \in Tasks /\ t <= reader_num
    BY <1>1 DEF RwInv, TypeInv, TypeOK
  <2>6. m = task_list[t].start_magic + k - 1 /\ k \in 1..task_list[t].num_blocks
    BY <1>1, <2>4, <2>5, PlacesOfBlocks
  <2>7. task_list[t].start_magic = PrepareMagic(t)
    BY <1>1, <2>5, ListIsMade, MagicBelow DEF RwInv
  <2>8. k \in DOMAIN pre[t]
    <3>1. Len(pre[t]) = task_list[t].num_blocks
      BY <1>1, <2>5 DEF RwInv, PreparedInv, Complete
    <3> QED BY <1>1, <2>5, <2>6, <3>1, PlacesOfBlocks
  <2>9. pre[t][k] = m
    BY <1>1, <2>5, <2>6, <2>7, <2>8, PlacesOfBlocks
  <2> QED BY <2>1, <2>4, <2>5, <2>8, <2>9, MagicOfBlock
<1> QED BY <1>1, Invariant, PTL

\* Different shares of the writers have different blocks.
LEMMA SharesApart ==
    ASSUME NEW d \in Nat, NEW e \in Nat, NEW w \in Nat, d < e,
           NEW k \in 1..w, NEW j \in 1..w
    PROVE  d * w + k # e * w + j
<1>1. d * w + w = (d + 1) * w /\ d * w \in Int /\ e * w \in Int
  BY OneMore
<1>2. (d + 1) * w <= e * w
  OBVIOUS
<1> QED BY <1>1, <1>2

\* A block that a writer thread stores is in no file of stage 1 and in no file of
\* another thread, so a deduplicating file system must store it.
THEOREM AlwaysWritersUnique == Spec => []WritersUnique
<1>1. ASSUME RwInv PROVE WritersUnique
  <2> SUFFICES ASSUME NEW t \in DOMAIN out, t > reader_num, NEW m \in Magics(out, {t})
               PROVE  /\ m \notin Magics(pre, DOMAIN pre)
                      /\ m \notin Magics(out, DOMAIN out \ {t})
    BY DEF WritersUnique
  <2>1. DOMAIN out = Tasks /\ DOMAIN pre = Tasks
    BY <1>1 DEF RwInv, TypeInv
  <2>2. /\ reader_num \in Nat /\ writer_num \in Nat /\ total_num_blocks \in Nat
        /\ TypeInv
    BY <1>1 DEF RwInv, TypeInv, TypeOK
  <2>3. task_list = MadeList
    BY <1>1, <2>1, ListIsMade
  <2>4. writer_num_blocks \in Nat
    BY <2>2, BlockNumbers
  <2> DEFINE w == writer_num_blocks
  <2>5. ASSUME NEW u \in Tasks, u > reader_num
        PROVE  /\ u - 1 - reader_num \in Nat
               /\ task_list[u].num_blocks = w
               /\ task_list[u].start_magic = total_num_blocks + (u - 1 - reader_num) * w
    <3>1. u \in 1..reader_num + writer_num /\ task_list[u] = Task(u)
      BY <2>2, <2>3, MadeTasks DEF Tasks, num_tasks
    <3>2. ~(u <= reader_num)
      BY <2>2, <2>5, <3>1
    <3>3. Task(u) = [start_magic |-> total_num_blocks + (u - 1 - reader_num) * w,
                     num_blocks |-> w, dup |-> FALSE]
      BY <3>2 DEF Task, writer_start_magic
    <3> QED BY <2>2, <2>5, <3>1, <3>3
  <2> HIDE DEF w
  <2>6. PICK k \in DOMAIN out[t] : m = out[t][k] /\ m # Torn
    BY MagicOfBlock
  <2>7. m = task_list[t].start_magic + k - 1 /\ k \in 1..task_list[t].num_blocks
    BY <1>1, <2>1, <2>6, PlacesOfBlocks
  <2> DEFINE d == t - 1 - reader_num
  <2>8. /\ d \in Nat /\ k \in 1..w /\ w \in Nat
        /\ m = total_num_blocks + d * w + k - 1
    BY <2>1, <2>4, <2>5, <2>7 DEF w
  <2>9. t \in Nat
    BY <2>1, <2>2, TaskTypes
  <2> HIDE DEF d
  <2>10. d * w \in Nat /\ m >= total_num_blocks
    <3>1. d * w \in Nat
      BY <2>8
    <3> QED BY <2>2, <2>8, <3>1
  <2>11. ASSUME NEW u \in Tasks
         PROVE  /\ PrepareMagic(u) + task_list[u].num_blocks <= total_num_blocks
                /\ PrepareMagic(u) \in Nat
                /\ u <= reader_num => task_list[u].start_magic = PrepareMagic(u)
                /\ task_list[u].num_blocks \in Nat
    BY <2>2, <2>3, MagicBelow, TaskTypes
  <2>12. m \notin Magics(pre, DOMAIN pre)
    <3> SUFFICES ASSUME NEW u \in Tasks, NEW j \in DOMAIN pre[u], m = pre[u][j]
                 PROVE  FALSE
      BY <2>1, MagicOfBlock
    <3>1. pre[u][j] = PrepareMagic(u) + j - 1 /\ j \in 1..task_list[u].num_blocks
      BY <1>1, PlacesOfBlocks
    <3> QED BY <2>2, <2>10, <2>11, <3>1
  <2>13. m \notin Magics(out, DOMAIN out \ {t})
    <3> SUFFICES ASSUME NEW u \in Tasks, u # t, NEW j \in DOMAIN out[u], m = out[u][j]
                 PROVE  FALSE
      BY <2>1, MagicOfBlock
    <3>1. m = task_list[u].start_magic + j - 1 /\ j \in 1..task_list[u].num_blocks
      BY <1>1, <2>6, PlacesOfBlocks
    <3>2. CASE u <= reader_num
      BY <2>2, <2>10, <2>11, <3>1, <3>2
    <3>3. CASE u > reader_num
      <4> DEFINE e == u - 1 - reader_num
      <4>1. /\ e \in Nat /\ j \in 1..w
            /\ m = total_num_blocks + e * w + j - 1
        BY <2>5, <3>1, <3>3
      <4>2. d # e
        BY <2>2, <2>9, TaskTypes DEF d
      <4> HIDE DEF e
      <4>3. e * w \in Nat
        BY <2>8, <4>1
      <4>4. d * w + k = e * w + j
        BY <2>2, <2>8, <2>10, <4>1, <4>3
      <4>5. d < e \/ e < d
        BY <2>8, <4>1, <4>2
      <4> QED BY <2>8, <4>1, <4>4, <4>5, SharesApart
    <3> QED BY <2>2, <3>2, <3>3, TaskTypes
  <2> QED BY <2>12, <2>13
<1> QED BY <1>1, Invariant, PTL
=============================================================================
