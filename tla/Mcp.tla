-------------------------------- MODULE Mcp --------------------------------
(***************************************************************************)
(* mcp/src/main.cpp, the multi-threaded copy of a directory tree: a walk   *)
(* that creates the destination tree and opens every file, an assignment   *)
(* of the files to the threads, largest first, and threads that copy.      *)
(*                                                                         *)
(* Data.  A path of the destination is named by the node of the source     *)
(* tree at the same place.  Byte k of file n is <<n, k>>.  A system call   *)
(* may fail; EXIT_ON then ends the process.  A file descriptor is the node *)
(* it is open on, None if the open failed and nobody looked.               *)
(***************************************************************************)
EXTENDS Integers, Sequences, SequencesExt, FiniteSetsExt

CONSTANTS
    Nodes, Root, None,
    Parent, Name, Kind,     \* functions on Nodes: the source tree
    Sizes, LinkSizes,       \* of files, of symbolic links
    ThreadNums, BufLens

Children(d) == {n \in Nodes \ {Root} : Parent[n] = d}

ASSUME ConstantsAssumption ==
    /\ Root \in Nodes /\ None \notin Nodes
    /\ Parent \in [Nodes \ {Root} -> Nodes]
    /\ Kind \in [Nodes -> {"dir", "reg", "lnk", "other"}]
    /\ Kind[Root] = "dir"
    /\ \A m, n \in Nodes \ {Root} :
          Parent[m] = Parent[n] /\ Name[m] = Name[n] => m = n
    /\ Sizes \subseteq Nat /\ LinkSizes \subseteq Nat \ {0}
    /\ ThreadNums \subseteq Nat /\ BufLens \subseteq Nat

\* The source is a tree: only directories hold anything, and Root holds all.
ASSUME TreeAssumption ==
    /\ \A n \in Nodes \ {Root} : Kind[Parent[n]] = "dir"
    /\ \A S \in SUBSET Nodes :
          Root \in S /\ (\A d \in S : Children(d) \subseteq S) => S = Nodes

Files == {n \in Nodes : Kind[n] = "reg"}
Links == {n \in Nodes : Kind[n] = "lnk"}

\* What a relative path means in directory d.
Lookup(d, name) ==
    IF \E n \in Children(d) : Name[n] = name
    THEN CHOOSE n \in Children(d) : Name[n] = name ELSE None

VARIABLES
    pc, status,         \* the main thread; how the process has ended
    size,               \* of the source files and links
    thread_num, buf_len,
    stack,              \* of cp_dir: [dir, left, dst], the last is the current
    cwd,
    files,              \* of FileWork: [size, src, dst]
    dirs, links,        \* what the walk has created in the destination
    pq, jobs,           \* load and jobs of each thread
    i,
    tpc, job, off, buf, \* of each thread
    data                \* contents of the destination files, None if not there

mainVars == <<size, thread_num, buf_len>>
walkVars == <<stack, cwd, files, dirs, links>>
jobVars == <<pq, jobs>>
threadVars == <<tpc, job, off, buf>>
vars == <<pc, status, mainVars, walkVars, jobVars, i, threadVars, data>>

Threads == 0..thread_num - 1
Content(n) == [k \in 1..size[n] |-> <<n, k>>]
Running == status = "running"

Init ==
    /\ pc = "args" /\ status = "running"
    /\ size \in [Files \cup Links -> Sizes \cup LinkSizes]
    /\ \A n \in Files : size[n] \in Sizes
    /\ \A n \in Links : size[n] \in LinkSizes
    /\ thread_num = 0 /\ buf_len = 4096
    /\ stack = <<>> /\ cwd = None /\ files = <<>> /\ dirs = {}
    /\ links = [n \in Links |-> "missing"]
    /\ pq = <<>> /\ jobs = <<>> /\ i = 0
    /\ tpc = <<>> /\ job = <<>> /\ off = <<>> /\ buf = <<>>
    /\ data = [n \in Files |-> None]

-----------------------------------------------------------------------------
(* main: the arguments and the two roots *)

\* main changes into the source directory and starts the walk in it.
OpenRoots ==
    /\ Running /\ pc = "args"
    /\ thread_num' \in ThreadNums /\ buf_len' \in BufLens
    /\ cwd' = Root
    /\ stack' = <<[dir |-> Root, left |-> Children(Root), dst |-> Root]>>
    /\ dirs' = {Root}
    /\ pc' = "walk"
    /\ UNCHANGED <<status, size, files, links, jobVars, i, threadVars, data>>

\* EXIT_ON after a call of the main thread that has failed.
MainFails ==
    /\ Running /\ pc \in {"args", "walk"}
    /\ status' = "failed"
    /\ UNCHANGED <<pc, mainVars, walkVars, jobVars, i, threadVars, data>>

-----------------------------------------------------------------------------
(* cp_dir *)

top == stack[Len(stack)]

\* The rest of the directory after readdir has returned e.
Read(e) == [stack EXCEPT ![Len(stack)].left = @ \ {e}]

\* openat of the destination is not checked.
handle_regular_file(e) ==
    /\ Kind[e] = "reg"
    /\ LET src == Lookup(cwd, Name[e])
       IN  IF src = None
           THEN /\ status' = "failed"
                /\ UNCHANGED <<stack, files, data>>
           ELSE /\ \E dst \in {None} \cup
                      (IF top.dst = None THEN {} ELSE {Lookup(top.dst, Name[e])}) :
                     /\ files' = Append(files, [size |-> size[src],
                                                src |-> src, dst |-> dst])
                     /\ data' = IF dst = None THEN data
                                ELSE [data EXCEPT ![dst] = <<>>]
                /\ stack' = Read(e)
                /\ UNCHANGED status
    /\ UNCHANGED <<cwd, dirs, links>>

\* readlink does not end the string: what follows in target is part of the
\* link.  A link of 256 bytes or more is read again and again from its start,
\* until the memory is used up.
handle_symbolic_link(e) ==
    /\ Kind[e] = "lnk"
    /\ \/ /\ size[e] >= 256
          /\ status' = "aborted"
          /\ UNCHANGED <<links, stack>>
       \/ /\ size[e] < 256 /\ top.dst = None
          /\ status' = "failed"
          /\ UNCHANGED <<links, stack>>
       \/ /\ size[e] < 256 /\ top.dst # None
          /\ links' \in {[links EXCEPT ![e] = to] : to \in {"same", "garbled"}}
          /\ stack' = Read(e)
          /\ UNCHANGED status
    /\ UNCHANGED <<cwd, files, dirs, data>>

\* The test after openat looks at dst_fd, the parent, and not at dst_fd2.
EnterDirectory(e) ==
    /\ Kind[e] = "dir"
    /\ LET src_fd2 == Lookup(cwd, Name[e])
       IN  IF src_fd2 = None \/ top.dst = None
           THEN status' = "failed" /\ UNCHANGED <<stack, cwd, dirs>>
           ELSE /\ \E dst_fd2 \in {None, Lookup(top.dst, Name[e])} :
                     stack' = Append(Read(e), [dir |-> src_fd2, dst |-> dst_fd2,
                                               left |-> Children(src_fd2)])
                /\ dirs' = dirs \cup {Lookup(top.dst, Name[e])}
                /\ cwd' = src_fd2
                /\ UNCHANGED status
    /\ UNCHANGED <<files, links, data>>

IgnoreOther(e) ==
    /\ Kind[e] = "other"
    /\ stack' = Read(e)
    /\ UNCHANGED <<status, cwd, files, dirs, links, data>>

\* One round of the loop of cp_dir.
cp_dir ==
    /\ Running /\ pc = "walk"
    /\ \E e \in top.left : \/ handle_regular_file(e) \/ handle_symbolic_link(e)
                           \/ EnterDirectory(e) \/ IgnoreOther(e)
    /\ UNCHANGED <<pc, mainVars, jobVars, i, threadVars>>

\* The end of a recursive call: chdir(".."), and close(dst_fd2), which fails
\* where openat had.
LeaveDirectory ==
    /\ Running /\ pc = "walk"
    /\ top.left = {} /\ Len(stack) > 1
    /\ cwd' = Parent[cwd]
    /\ IF top.dst = None
       THEN status' = "failed" /\ UNCHANGED stack
       ELSE stack' = Front(stack) /\ UNCHANGED status
    /\ UNCHANGED <<pc, mainVars, files, dirs, links, jobVars, i, threadVars, data>>

-----------------------------------------------------------------------------
(* main: the assignment, and the threads *)

\* Mutant: sorts the smallest first.
InOrderAscending(x, y) == x.size <= y.size

\* FileWork::operator<
InOrder(x, y) == x.size >= y.size

\* The walk is over; sort() leaves files of equal size in any order.
WalkDone ==
    /\ Running /\ pc = "walk"
    /\ top.left = {} /\ Len(stack) = 1
    /\ \E p \in Bijection(DOMAIN files, DOMAIN files) :
          /\ \A x, y \in DOMAIN files : x < y => InOrder(files[p[x]], files[p[y]])
          /\ files' = [k \in DOMAIN files |-> files[p[k]]]
    /\ pq' = [t \in Threads |-> 0]
    /\ jobs' = [t \in Threads |-> <<>>]
    /\ i' = 1
    /\ pc' = "assign"
    /\ UNCHANGED <<status, mainVars, stack, cwd, dirs, links, threadVars, data>>

\* The thread with the least load, the first one if there are several.
PqTop(t) == \A u \in Threads : pq[t] < pq[u] \/ (pq[t] = pq[u] /\ t <= u)

\* The top of an empty queue is whatever is in memory: without threads the
\* process dies as soon as there is a file.
AssignWork ==
    /\ Running /\ pc = "assign"
    /\ i <= Len(files)
    /\ IF thread_num = 0
       THEN status' = "aborted" /\ UNCHANGED <<jobVars, i>>
       ELSE /\ \E t \in Threads :
                  /\ PqTop(t)
                  /\ pq' = [pq EXCEPT ![t] = @ + files[i].size]
                  /\ jobs' = [jobs EXCEPT ![t] = Append(@, files[i])]
            /\ i' = i + 1
            /\ UNCHANGED status
    /\ UNCHANGED <<pc, mainVars, walkVars, threadVars, data>>

AssignDone ==
    /\ Running /\ pc = "assign"
    /\ i > Len(files)
    /\ tpc' = [t \in Threads |-> "none"]
    /\ job' = [t \in Threads |-> 1]
    /\ off' = [t \in Threads |-> 0]
    /\ buf' = [t \in Threads |-> <<>>]
    /\ i' = 0
    /\ pc' = "spawn"
    /\ UNCHANGED <<status, mainVars, walkVars, jobVars, data>>

Spawn ==
    /\ Running /\ pc = "spawn"
    /\ IF i < thread_num
       THEN /\ tpc' = [tpc EXCEPT ![i] = "next"]
            /\ i' = i + 1
            /\ UNCHANGED pc
       ELSE i' = 0 /\ pc' = "join" /\ UNCHANGED tpc
    /\ UNCHANGED <<status, mainVars, walkVars, jobVars, job, off, buf, data>>

\* Mutant: main does not wait.
ReturnedOrNot(t) == TRUE

Returned(t) == tpc[t] = "done"

\* join, then return 0.
Join ==
    /\ Running /\ pc = "join"
    /\ IF i < thread_num
       THEN Returned(i) /\ i' = i + 1 /\ UNCHANGED status
       ELSE status' = "ok" /\ UNCHANGED i
    /\ UNCHANGED <<pc, mainVars, walkVars, jobVars, threadVars, data>>

-----------------------------------------------------------------------------
(* cp_func, writen *)

Job(t) == jobs[t][job[t]]
ThreadOnly == UNCHANGED <<pc, mainVars, walkVars, jobVars, i>>

NextJob(t) ==
    /\ tpc[t] = "next"
    /\ tpc' = [tpc EXCEPT ![t] = IF job[t] <= Len(jobs[t]) THEN "read" ELSE "done"]
    /\ UNCHANGED <<status, job, off, buf, data>>

\* A read of between one byte and buf_len bytes.
read(t) ==
    /\ tpc[t] = "read"
    /\ LET src == Content(Job(t).src)
       IN  \E ret \in 1..buf_len :
              /\ off[t] + ret <= Len(src)
              /\ buf' = [buf EXCEPT ![t] = SubSeq(src, off[t] + 1, off[t] + ret)]
              /\ off' = [off EXCEPT ![t] = @ + ret]
    /\ tpc' = [tpc EXCEPT ![t] = "write"]
    /\ UNCHANGED <<status, job, data>>

\* Mutant: buf is not advanced past what has been written.
WrittenStill(b, ret) == SubSeq(b, 1, Len(b) - ret)

\* What writen has left to write.
Written(b, ret) == SubSeq(b, ret + 1, Len(b))

\* One write of writen: any part of the rest; it fails without a descriptor.
writen(t) ==
    /\ tpc[t] = "write"
    /\ LET dst == Job(t).dst
       IN  IF dst = None
           THEN status' = "failed" /\ UNCHANGED <<tpc, buf, data>>
           ELSE \E ret \in 1..Len(buf[t]) :
                  /\ data' = [data EXCEPT ![dst] = @ \o SubSeq(buf[t], 1, ret)]
                  /\ buf' = [buf EXCEPT ![t] = Written(@, ret)]
                  /\ tpc' = [tpc EXCEPT ![t] = IF ret = Len(buf[t]) THEN "read"
                                                                   ELSE "write"]
                  /\ UNCHANGED status
    /\ UNCHANGED <<job, off>>

\* Mutant: reads until it has all the bytes of the file.
ReadAll(t) == off[t] = size[Job(t).src]

\* read returns 0, at the end of the file or with a buffer of no bytes.
ReadOver(t) == off[t] = size[Job(t).src] \/ buf_len = 0

JobAfter(n) == n + 1

\* Closing a descriptor that openat did not return fails.
Close(t) ==
    /\ tpc[t] = "read"
    /\ ReadOver(t)
    /\ IF Job(t).dst = None
       THEN status' = "failed" /\ UNCHANGED <<tpc, job, off>>
       ELSE /\ tpc' = [tpc EXCEPT ![t] = "next"]
            /\ job' = [job EXCEPT ![t] = JobAfter(@)]
            /\ off' = [off EXCEPT ![t] = 0]
            /\ UNCHANGED status
    /\ UNCHANGED <<buf, data>>

\* exit(1) in a thread ends the process and all the others with it.
ThreadFails(t) ==
    /\ Running /\ pc \in {"spawn", "join"}
    /\ tpc[t] \in {"read", "write"}
    /\ status' = "failed"
    /\ UNCHANGED <<threadVars, data>>
    /\ ThreadOnly

cp_func(t) ==
    /\ Running /\ pc \in {"spawn", "join"}
    /\ NextJob(t) \/ read(t) \/ writen(t) \/ Close(t)
    /\ ThreadOnly

-----------------------------------------------------------------------------
Main == OpenRoots \/ cp_dir \/ LeaveDirectory \/ WalkDone \/ AssignWork
        \/ AssignDone \/ Spawn \/ Join

Ended == ~Running /\ UNCHANGED vars

Next ==
    \/ Main \/ MainFails
    \/ \E t \in Threads : cp_func(t) \/ ThreadFails(t)
    \/ Ended

\* Every thread gets the processor again and again; no call has to fail.
Spec ==
    /\ Init /\ [][Next]_vars
    /\ WF_vars(Main)
    /\ \A t \in 0..Max(ThreadNums) - 1 : WF_vars(t \in Threads /\ cp_func(t))

-----------------------------------------------------------------------------
(* Properties *)

\* Every variable keeps its type.
TypeOK ==
    /\ pc \in {"args", "walk", "assign", "spawn", "join"}
    /\ status \in {"running", "ok", "failed", "aborted"}
    /\ thread_num \in Nat /\ buf_len \in Nat
    /\ cwd \in Nodes \cup {None} /\ dirs \subseteq Nodes
    /\ files \in Seq([size : Nat, src : Files, dst : Files \cup {None}])
    /\ pc \in {"spawn", "join"} =>
          /\ tpc \in [Threads -> {"none", "next", "read", "write", "done"}]
          /\ \A t \in Threads : job[t] \in 1..Len(jobs[t]) + 1 /\ off[t] \in Nat

\* Exit status 0 means that the copy is complete: every directory and link is
\* there and every file has the contents of the file at the same place of the
\* source, whatever failed on the way and was not looked at.  (A buffer of 0
\* bytes is the exception: mcp then copies no bytes and reports success.)
SuccessMeansCopied ==
    status = "ok" /\ buf_len > 0 =>
        /\ \A n \in Files : data[n] = Content(n)
        /\ \A n \in Nodes : Kind[n] = "dir" => n \in dirs
        /\ \A n \in Links : links[n] # "missing"

\* At any time, also when an error or a late thread cuts the copy short, a file
\* of the destination holds a beginning of its source: short reads and short
\* writes of several threads neither repeat, skip nor mix bytes.  (All variables
\* keep their types.)
DestinationIsPrefix ==
    /\ TypeOK
    /\ \A n \in Files : data[n] # None => IsPrefix(data[n], Content(n))

\* The assignment balances the load: by Graham's bound for "largest first", no
\* thread gets more than 4/3 - 1/(3*thread_num) of what the most loaded thread
\* gets in the best assignment there is.
Load(a, t) == FoldFunctionOnSet(+, 0, [k \in DOMAIN files |-> files[k].size],
                                {k \in DOMAIN files : a[k] = t})
Largest(loads) == Max({loads[t] : t \in Threads})
LoadIsBalanced ==
    pc = "spawn" /\ i = 0 /\ thread_num > 0 =>
        \A a \in [DOMAIN files -> Threads] :
            3 * thread_num * Largest(pq)
              <= (4 * thread_num - 1) * Largest([t \in Threads |-> Load(a, t)])

\* A run of mcp comes to an end: threads and main thread never wait for ever.
CopyEnds == pc = "walk" ~> ~Running
=============================================================================
