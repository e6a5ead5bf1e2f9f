----------------------------- MODULE Mcp_proofs -----------------------------
(***************************************************************************)
(* Proofs about mcp: for every source tree, number of threads, buffer and  *)
(* interleaving, and whichever calls fail or are short, a file of the      *)
(* destination is a beginning of its source, and exit status 0 means that  *)
(* the copy is complete.                                                   *)
(***************************************************************************)
EXTENDS Mcp, SumLemmas

-----------------------------------------------------------------------------
(* The invariant *)

FileWork == [size : Nat, src : Files, dst : Files \cup {None}]
Frame == [dir : Nodes, left : SUBSET Nodes, dst : Nodes \cup {None}]

\* TypeOK without the threads, and the types it leaves out.
BaseInv ==
    /\ pc \in {"args", "walk", "assign", "spawn", "join"}
    /\ status \in {"running", "ok", "failed", "aborted"}
    /\ size \in [Files \cup Links -> Nat]
    /\ thread_num \in Nat /\ buf_len \in Nat
    /\ cwd \in Nodes \cup {None} /\ dirs \subseteq Nodes
    /\ links \in [Links -> {"missing", "same", "garbled"}]
    /\ files \in Seq(FileWork)

\* A file is opened once, and its destination is at the same place.
FileInv ==
    /\ \A k \in 1..Len(files) : files[k].dst \in {None, files[k].src}
    /\ \A k, m \in 1..Len(files) : files[k].src = files[m].src => k = m

\* What the walk has done with a node, or not.
Seen(n) ==
    /\ Kind[n] = "dir" => n \in dirs
    /\ Kind[n] = "reg" => \E k \in 1..Len(files) : files[k].src = n
    /\ Kind[n] = "lnk" => links[n] # "missing"

Unseen(n) == n \notin dirs /\ \A k \in 1..Len(files) : files[k].src # n

\* The stack is the path from Root to the current directory; what is left to
\* read in its directories has not been seen.
FrameInv(k) ==
    /\ stack[k].dir \in dirs
    /\ stack[k].dst \in {None, stack[k].dir}
    /\ stack[k].left \subseteq Children(stack[k].dir)
    /\ \A n \in stack[k].left : Unseen(n)

StackInv ==
    /\ stack \in Seq(Frame) /\ Len(stack) >= 1
    /\ stack[1].dir = Root
    /\ Running => cwd = stack[Len(stack)].dir
    /\ \A k \in 1..Len(stack) : FrameInv(k)
    /\ \A k \in 2..Len(stack) :
          stack[k].dir # Root /\ Parent[stack[k].dir] = stack[k - 1].dir
    /\ \A k, m \in 1..Len(stack) : stack[k].dir = stack[m].dir => k = m

\* A node is seen after the directory it is in, and once a directory is seen
\* its nodes are, except for those left to read.
Left(d, n) == \E k \in 1..Len(stack) : stack[k].dir = d /\ n \in stack[k].left
SeenInv ==
    /\ Root \in dirs
    /\ \A n \in dirs : n = Root \/ Parent[n] \in dirs
    /\ \A k \in 1..Len(files) : Parent[files[k].src] \in dirs
    /\ \A d \in dirs : \A n \in Children(d) : Seen(n) \/ Left(d, n)

WalkInv ==
    /\ pc = "args" => files = <<>>
    /\ pc = "walk" => StackInv /\ SeenInv
    /\ pc \in {"assign", "spawn", "join"} => \A n \in Nodes : Seen(n)

\* Bytes o + 1..o + r of file n.
Slice(n, o, r) == [x \in 1..r |-> <<n, o + x>>]

Holds(n, l) == data[n] = Slice(n, 0, l)

DataInv ==
    /\ data = [n \in Files |-> data[n]]
    /\ \A n \in Files : data[n] = None \/ \E l \in 0..size[n] : Holds(n, l)
    /\ \A k \in 1..Len(files) : files[k].dst # None =>
          \E l \in 0..size[files[k].dst] : Holds(files[k].dst, l)
    /\ pc \in {"args", "walk", "assign"} =>
          \A k \in 1..Len(files) : files[k].dst # None => Holds(files[k].dst, 0)

\* The first files, or all of them, are the jobs of the threads, each once.
Shared == IF pc = "assign" THEN i - 1 ELSE Len(files)
JobsInv ==
    /\ pc = "assign" => i \in 1..Len(files) + 1
    /\ jobs \in [Threads -> Seq(FileWork)]
    /\ \A t \in Threads : \A m \in 1..Len(jobs[t]) :
          \E k \in 1..Shared : jobs[t][m] = files[k]
    /\ \A k \in 1..Shared : \E t \in Threads :
          \E m \in 1..Len(jobs[t]) : jobs[t][m] = files[k]
    /\ \A t, u \in Threads : \A m \in 1..Len(jobs[t]), n \in 1..Len(jobs[u]) :
          jobs[t][m].src = jobs[u][n].src => t = u /\ m = n

\* A thread has copied what it has read, but for what is in its buffer.
Copying(t) ==
    LET src == Job(t).src
        dst == Job(t).dst
    IN  /\ off[t] <= size[src]
        /\ tpc[t] = "read" => (dst # None => Holds(dst, off[t]))
        /\ tpc[t] = "write" => \E r \in 1..off[t] :
              /\ buf[t] = Slice(src, off[t] - r, r)
              /\ dst # None => Holds(dst, off[t] - r)

\* The jobs before the current one are done, those behind it not begun.
JobDone(t, m) ==
    LET dst == jobs[t][m].dst
    IN  dst # None /\ (buf_len > 0 => Holds(dst, size[dst]))
JobToDo(t, m) ==
    LET dst == jobs[t][m].dst
    IN  dst # None => Holds(dst, 0)
ThreadInv(t) ==
    /\ job[t] \in 1..Len(jobs[t]) + 1
    /\ tpc[t] \in {"none", "next"} => off[t] = 0
    /\ tpc[t] \in {"read", "write"} => job[t] <= Len(jobs[t]) /\ Copying(t)
    /\ tpc[t] = "done" => job[t] = Len(jobs[t]) + 1
    /\ \A m \in 1..Len(jobs[t]) :
          /\ m < job[t] => JobDone(t, m)
          /\ m > job[t] => JobToDo(t, m)
          /\ m = job[t] /\ tpc[t] \in {"none", "next"} => JobToDo(t, m)

ThreadsInv ==
    /\ tpc \in [Threads -> {"none", "next", "read", "write", "done"}]
    /\ job \in [Threads -> Nat] /\ off \in [Threads -> Nat]
    /\ buf = [t \in Threads |-> buf[t]]
    /\ \A t \in Threads : ThreadInv(t)

MainInv ==
    /\ pc \in {"spawn", "join"} => i \in 0..thread_num
    /\ pc = "spawn" => \A t \in Threads : t >= i => tpc[t] = "none"
    /\ pc = "join" => \A t \in Threads : t < i => tpc[t] = "done"
    /\ status = "ok" => pc = "join" /\ i = thread_num

CopyInv ==
    /\ DataInv
    /\ pc \in {"assign", "spawn", "join"} => JobsInv
    /\ pc \in {"spawn", "join"} => ThreadsInv
    /\ MainInv

McpInv == BaseInv /\ FileInv /\ WalkInv /\ CopyInv


-----------------------------------------------------------------------------
(* Lemmas *)

\* A path leads from a directory to the node of that name in it.
LEMMA LookupChild ==
    ASSUME NEW d, NEW e \in Children(d)
    PROVE  Lookup(d, Name[e]) = e
<1>1. \A n \in Children(d) : Name[n] = Name[e] => n = e
  BY ConstantsAssumption DEF Children
<1> QED BY <1>1 DEF Lookup

\* The nodes have one kind each.
LEMMA Kinds ==
    /\ Files \subseteq Nodes /\ Links \subseteq Nodes
    /\ Root \in Nodes /\ Root \notin Files /\ None \notin Nodes /\ None \notin Files
    /\ \A n \in Nodes : Kind[n] = "reg" <=> n \in Files
    /\ \A n \in Nodes : Kind[n] = "lnk" <=> n \in Links
  BY ConstantsAssumption DEF Files, Links

\* A child is in its parent, and is not Root.
LEMMA ChildOf ==
    ASSUME NEW d, NEW e \in Children(d)
    PROVE  e \in Nodes /\ e # Root /\ Parent[e] = d /\ d \in Nodes
  BY ConstantsAssumption DEF Children

\* A slice has its length.
LEMMA SliceLen ==
    ASSUME NEW n, NEW o \in Nat, NEW s \in Nat
    PROVE  Len(Slice(n, o, s)) = s
  BY DEF Slice

\* The first bytes of a slice are a slice.
LEMMA SliceFront ==
    ASSUME NEW n, NEW o \in Nat, NEW r \in Nat, NEW s \in Nat, r <= s
    PROVE  SubSeq(Slice(n, o, s), 1, r) = Slice(n, o, r)
  BY DEF Slice

\* The bytes behind them are one, too.
LEMMA SliceBack ==
    ASSUME NEW n, NEW o \in Nat, NEW r \in Nat, NEW s \in Nat, r <= s
    PROVE  SubSeq(Slice(n, o, s), r + 1, s) = Slice(n, o + r, s - r)
  BY DEF Slice

\* What is read from a file is a slice of it.
LEMMA SliceMiddle ==
    ASSUME NEW n, NEW o \in Nat, NEW r \in Nat, NEW z \in Nat, o + r <= z
    PROVE  SubSeq(Slice(n, 0, z), o + 1, o + r) = Slice(n, o, r)
  BY DEF Slice

\* A slice and the slice after it make one.
LEMMA SliceJoin ==
    ASSUME NEW n, NEW o \in Nat, NEW r \in Nat
    PROVE  Slice(n, 0, o) \o Slice(n, o, r) = Slice(n, 0, o + r)
  BY DEF Slice


\* The jobs stay shared out.
LEMMA JobsStay ==
    ASSUME JobsInv, UNCHANGED <<files, jobs, Threads, Shared>>,
           pc' = "assign" => pc = "assign" /\ i' = i
    PROVE  JobsInv'
<1>1. PICK T, n, fs, js : T = Threads /\ n = Shared /\ fs = files /\ js = jobs
  OBVIOUS
<1>2. T = Threads' /\ n = Shared' /\ fs = files' /\ js = jobs'
  BY <1>1
<1>3. /\ js \in [T -> Seq(FileWork)]
      /\ \A t \in T : \A m \in 1..Len(js[t]) : \E k \in 1..n : js[t][m] = fs[k]
      /\ \A k \in 1..n : \E t \in T : \E m \in 1..Len(js[t]) : js[t][m] = fs[k]
      /\ \A t, u \in T : \A m \in 1..Len(js[t]), x \in 1..Len(js[u]) :
            js[t][m].src = js[u][x].src => t = u /\ m = x
  <2>1. js \in [T -> Seq(FileWork)]
    BY <1>1 DEF JobsInv
  <2>2. \A t \in T : \A m \in 1..Len(js[t]) : \E k \in 1..n : js[t][m] = fs[k]
    BY <1>1 DEF JobsInv
  <2>3. \A k \in 1..n : \E t \in T : \E m \in 1..Len(js[t]) : js[t][m] = fs[k]
    BY <1>1 DEF JobsInv
  <2>4. \A t, u \in T : \A m \in 1..Len(js[t]), x \in 1..Len(js[u]) :
            js[t][m].src = js[u][x].src => t = u /\ m = x
    BY <1>1 DEF JobsInv
  <2> QED BY <2>1, <2>2, <2>3, <2>4
<1>4. pc' = "assign" => i' \in 1..Len(fs) + 1
  BY <1>1 DEF JobsInv
<1> QED BY <1>2, <1>3, <1>4 DEF JobsInv

\* A thread is as it was while its own files are not touched.
LEMMA ThreadStays ==
    ASSUME NEW u, ThreadInv(u), Len(jobs[u]) \in Nat,
           tpc'[u] = tpc[u], job'[u] = job[u], off'[u] = off[u], buf'[u] = buf[u],
           UNCHANGED <<jobs, size, buf_len>>,
           \A m \in 1..Len(jobs[u]) : jobs[u][m].dst # None =>
               data'[jobs[u][m].dst] = data[jobs[u][m].dst]
    PROVE  ThreadInv(u)'
<1>1. PICK a, j, o, b, q, z : /\ a = tpc[u] /\ j = job[u] /\ o = off[u] /\ b = buf[u]
                              /\ q = jobs[u] /\ z = buf_len
  OBVIOUS
<1>2. /\ a = tpc'[u] /\ j = job'[u] /\ o = off'[u] /\ b = buf'[u]
      /\ q = jobs'[u] /\ z = buf_len'
  BY <1>1
<1>3. /\ j \in 1..Len(q) + 1
      /\ a \in {"none", "next"} => o = 0
      /\ a = "done" => j = Len(q) + 1
  BY <1>1 DEF ThreadInv
<1>5. ASSUME a \in {"read", "write"}
      PROVE  j \in 1..Len(q) /\ Copying(u)'
  <2>1. j \in 1..Len(q) /\ Copying(u)
    <3>1. Len(q) \in Nat
      BY <1>1
    <3> QED BY <1>1, <1>3, <1>5, <3>1 DEF ThreadInv
  <2>2. PICK n, s : n = q[j].dst /\ s = q[j].src
    OBVIOUS
  <2>3. Job(u).dst = n /\ Job(u)'.dst = n /\ Job(u).src = s /\ Job(u)'.src = s
    BY <1>1, <1>2, <2>2 DEF Job
  <2>4. n # None => data'[n] = data[n]
    BY <1>1, <2>1, <2>2
  <2>5. /\ o <= size[s]
        /\ a = "read" => (n # None => data[n] = Slice(n, 0, o))
        /\ a = "write" => \E r \in 1..o : /\ b = Slice(s, o - r, r)
                                          /\ n # None => data[n] = Slice(n, 0, o - r)
    BY <1>1, <2>1, <2>3 DEF Copying, Holds
  <2>6. /\ o <= size'[s]
        /\ a = "read" => (n # None => data'[n] = Slice(n, 0, o))
        /\ a = "write" => \E r \in 1..o : /\ b = Slice(s, o - r, r)
                                          /\ n # None => data'[n] = Slice(n, 0, o - r)
    BY <2>4, <2>5
  <2> QED BY <1>2, <2>1, <2>3, <2>6 DEF Copying, Holds
<1>6. ASSUME NEW m \in 1..Len(q)
      PROVE  /\ JobDone(u, m) => JobDone(u, m)'
             /\ JobToDo(u, m) => JobToDo(u, m)'
  <2>1. PICK n : n = q[m].dst
    OBVIOUS
  <2>2. jobs[u][m].dst = n /\ jobs'[u][m].dst = n /\ (n # None => data'[n] = data[n])
    BY <1>1, <1>2, <2>1
  <2> QED BY <2>2 DEF JobDone, JobToDo, Holds
<1>7. \A m \in 1..Len(q) :
          /\ m < j => JobDone(u, m)
          /\ m > j => JobToDo(u, m)
          /\ m = j /\ a \in {"none", "next"} => JobToDo(u, m)
  BY <1>1 DEF ThreadInv
<1>8. a \in {"read", "write"} => j <= Len(q) /\ Copying(u)'
  BY <1>1, <1>5 DEF ThreadInv
<1>9. \A m \in 1..Len(q) :
          /\ m < j => JobDone(u, m)'
          /\ m > j => JobToDo(u, m)'
          /\ m = j /\ a \in {"none", "next"} => JobToDo(u, m)'
  BY <1>6, <1>7
<1> QED BY <1>2, <1>3, <1>8, <1>9 DEF ThreadInv


\* What a step that ends the process leaves.
LEMMA StopKeeps ==
    ASSUME McpInv, status' \in {"failed", "aborted"}, cwd' \in Nodes \cup {None},
           UNCHANGED <<pc, mainVars, stack, files, dirs, links, jobVars, i, threadVars, data>>
    PROVE  McpInv'
<1>1. UNCHANGED <<pc, size, thread_num, buf_len, stack, files, dirs, links, jobs, i,
                  tpc, job, off, buf, data, Threads, Shared>>
  BY DEF mainVars, jobVars, threadVars, Threads, Shared
<1>2. BaseInv' /\ FileInv'
  BY <1>1 DEF McpInv, BaseInv, FileInv
<1>3. WalkInv'
  <2>1. ~Running'
    BY DEF Running
  <2> QED BY <1>1, <2>1 DEF McpInv, WalkInv, StackInv, FrameInv, Unseen, SeenInv, Seen, Left
<1>4. CopyInv'
  <2>1. DataInv' /\ MainInv'
    BY <1>1 DEF McpInv, CopyInv, DataInv, MainInv, Holds
  <2>2. JobsInv => JobsInv'
    BY <1>1, JobsStay
  <2>3. JobsInv /\ ThreadsInv => ThreadsInv'
    <3> SUFFICES ASSUME JobsInv, ThreadsInv PROVE ThreadsInv'
      OBVIOUS
    <3>1. ASSUME NEW u \in Threads PROVE ThreadInv(u)'
      <4>1. ThreadInv(u) /\ Len(jobs[u]) \in Nat
        BY DEF ThreadsInv, JobsInv
      <4> QED BY <1>1, <4>1, ThreadStays
    <3> QED BY <1>1, <3>1 DEF ThreadsInv
  <2> QED BY <1>1, <2>1, <2>2, <2>3 DEF McpInv, CopyInv
<1> QED BY <1>2, <1>3, <1>4 DEF McpInv

\* Nothing changes.
LEMMA StutterKeeps ==
    ASSUME McpInv, UNCHANGED vars
    PROVE  McpInv'
<1>1. UNCHANGED <<pc, status, size, thread_num, buf_len, stack, cwd, files, dirs, links, jobs,
                  i, tpc, job, off, buf, data, Threads, Shared, Running>>
  BY DEF vars, mainVars, walkVars, jobVars, threadVars, Threads, Shared, Running
<1>2. BaseInv' /\ FileInv'
  BY <1>1 DEF McpInv, BaseInv, FileInv
<1>3. WalkInv'
  BY <1>1 DEF McpInv, WalkInv, StackInv, FrameInv, Unseen, SeenInv, Seen, Left
<1>4. CopyInv'
  <2>1. DataInv' /\ MainInv'
    BY <1>1 DEF McpInv, CopyInv, DataInv, MainInv, Holds
  <2>2. JobsInv => JobsInv'
    BY <1>1, JobsStay
  <2>3. JobsInv /\ ThreadsInv => ThreadsInv'
    <3> SUFFICES ASSUME JobsInv, ThreadsInv PROVE ThreadsInv'
      OBVIOUS
    <3>1. ASSUME NEW u \in Threads PROVE ThreadInv(u)'
      <4>1. ThreadInv(u) /\ Len(jobs[u]) \in Nat
        BY DEF ThreadsInv, JobsInv
      <4> QED BY <1>1, <4>1, ThreadStays
    <3> QED BY <1>1, <3>1 DEF ThreadsInv
  <2> QED BY <1>1, <2>1, <2>2, <2>3 DEF McpInv, CopyInv
<1> QED BY <1>2, <1>3, <1>4 DEF McpInv

-----------------------------------------------------------------------------
(* The walk *)

\* Nothing has been seen, and nothing copied.
LEMMA McpInit == Init => McpInv
<1> SUFFICES ASSUME Init PROVE McpInv
  OBVIOUS
<1>1. BaseInv
  <2>1. size \in [Files \cup Links -> Nat]
    BY ConstantsAssumption DEF Init
  <2> QED BY <2>1 DEF Init, BaseInv
<1>2. Len(files) = 0 /\ pc = "args" /\ status = "running"
  BY DEF Init
<1>3. FileInv /\ WalkInv
  BY <1>2 DEF Init, FileInv, WalkInv
<1>4. DataInv
  BY <1>2 DEF Init, DataInv
<1>5. MainInv
  BY <1>2 DEF MainInv
<1> QED BY <1>1, <1>2, <1>3, <1>4, <1>5 DEF McpInv, CopyInv

\* The walk starts in the root.
LEMMA OpenRootsKeeps ==
    ASSUME McpInv, OpenRoots
    PROVE  McpInv'
<1>1. /\ pc = "args" /\ pc' = "walk" /\ Running /\ thread_num' \in ThreadNums
      /\ buf_len' \in BufLens /\ cwd' = Root /\ dirs' = {Root}
      /\ stack' = <<[dir |-> Root, left |-> Children(Root), dst |-> Root]>>
      /\ UNCHANGED <<status, size, files, links, data>>
      /\ files = <<>>
  BY DEF OpenRoots, McpInv, WalkInv
<1>2. Len(files') = 0 /\ Root \in Nodes
  BY <1>1, ConstantsAssumption
<1>3. BaseInv'
  BY <1>1, <1>2, ConstantsAssumption DEF McpInv, BaseInv
<1>4. FileInv'
  BY <1>2 DEF FileInv
<1>5. /\ Len(stack') = 1 /\ stack'[1].dir = Root /\ stack'[1].dst = Root
      /\ stack'[1].left = Children(Root) /\ stack' \in Seq(Frame)
  BY <1>1, <1>2 DEF Frame, Children
<1>6. StackInv'
  <2>1. \A n \in Children(Root) : n \notin {Root}
    BY DEF Children
  <2>2. FrameInv(1)'
    BY <1>1, <1>2, <1>5, <2>1 DEF FrameInv, Unseen
  <2> QED BY <1>1, <1>5, <2>2 DEF StackInv
<1>7. SeenInv'
  BY <1>1, <1>2, <1>5 DEF SeenInv, Left
<1>8. WalkInv'
  BY <1>1, <1>6, <1>7 DEF WalkInv
<1>9. DataInv'
  BY <1>1, <1>2 DEF McpInv, CopyInv, DataInv, Holds
<1>10. MainInv'
  BY <1>1 DEF McpInv, CopyInv, MainInv, Running
<1> QED BY <1>1, <1>3, <1>4, <1>8, <1>9, <1>10 DEF McpInv, CopyInv

\* What the walk knows of the current directory.
LEMMA InWalk ==
    ASSUME McpInv, Running, pc = "walk"
    PROVE  /\ stack \in Seq(Frame) /\ Len(stack) \in Nat \ {0} /\ stack[Len(stack)] = top
           /\ cwd = top.dir /\ top.dir \in dirs /\ dirs \subseteq Nodes
           /\ top.dst \in {None, top.dir} /\ top.left \subseteq Children(top.dir)
           /\ \A n \in top.left : Unseen(n) /\ n \in Nodes /\ n # Root /\ Parent[n] = top.dir
<1>1. StackInv
  BY DEF McpInv, WalkInv
<1>2. stack \in Seq(Frame) /\ Len(stack) \in Nat \ {0} /\ stack[Len(stack)] = top
  BY <1>1 DEF StackInv, top
<1>3. FrameInv(Len(stack))
  BY <1>1, <1>2 DEF StackInv
<1>4. cwd = top.dir
  BY <1>1, <1>2 DEF StackInv
<1>5. /\ top.dir \in dirs /\ top.dst \in {None, top.dir}
      /\ top.left \subseteq Children(top.dir)
      /\ \A n \in top.left : Unseen(n)
  BY <1>2, <1>3 DEF FrameInv
<1>6. dirs \subseteq Nodes
  BY DEF McpInv, BaseInv
<1> QED BY <1>2, <1>4, <1>5, <1>6, ChildOf

\* The stack after a node was read.
LEMMA ReadStack ==
    ASSUME stack \in Seq(Frame), Len(stack) \in Nat \ {0}, NEW e
    PROVE  /\ Read(e) \in Seq(Frame) /\ Len(Read(e)) = Len(stack)
           /\ \A k \in 1..Len(stack) :
                 /\ Read(e)[k].dir = stack[k].dir /\ Read(e)[k].dst = stack[k].dst
                 /\ Read(e)[k].left \subseteq stack[k].left
           /\ \A k \in 1..Len(stack) : k # Len(stack) => Read(e)[k].left = stack[k].left
           /\ Read(e)[Len(stack)].left = stack[Len(stack)].left \ {e}
<1>1. PICK n, s : n = Len(stack) /\ s = stack
  OBVIOUS
<1>2. s \in Seq(Frame) /\ n = Len(s) /\ n \in Nat \ {0} /\ n \in 1..n /\ DOMAIN s = 1..n
  BY <1>1
<1>3. PICK f : f = [s[n] EXCEPT !.left = s[n].left \ {e}]
  OBVIOUS
<1>4. s[n] \in Frame
  BY <1>2
<1>5. f \in Frame /\ f.dir = s[n].dir /\ f.dst = s[n].dst /\ f.left = s[n].left \ {e}
  BY <1>3, <1>4 DEF Frame
<1>6. Read(e) = [s EXCEPT ![n] = f]
  BY <1>1, <1>3 DEF Read
<1>7. PICK q : q = [s EXCEPT ![n] = f]
  OBVIOUS
<1>8. q \in Seq(Frame) /\ Len(q) = n /\ q[n] = f /\ \A k \in 1..n : k # n => q[k] = s[k]
  BY <1>2, <1>5, <1>7
<1> QED BY <1>1, <1>5, <1>6, <1>7, <1>8


\* Reading a node that is not a directory: it is seen now, and not left any more.
LEMMA ReadKeeps ==
    ASSUME McpInv, Running, pc = "walk", NEW e \in top.left,
           stack' = Read(e), UNCHANGED <<pc, status, cwd, dirs>>, Seen(e)',
           \A n \in Nodes : Seen(n) => Seen(n)',
           \A n \in Nodes : Unseen(n) /\ n # e => Unseen(n)',
           \A k \in 1..Len(files') : Parent[files'[k].src] \in dirs
    PROVE  WalkInv'
<1>1. StackInv /\ SeenInv
  BY DEF McpInv, WalkInv
<1>2. /\ stack \in Seq(Frame) /\ Len(stack) \in Nat \ {0} /\ stack[Len(stack)] = top
      /\ e \in Nodes /\ Parent[e] = top.dir
  BY InWalk
<1>3. PICK N : N = Len(stack)
  OBVIOUS
<1>4. /\ stack' \in Seq(Frame) /\ Len(stack') = N
      /\ \A k \in 1..N :
            /\ stack'[k].dir = stack[k].dir /\ stack'[k].dst = stack[k].dst
            /\ stack'[k].left \subseteq stack[k].left
      /\ \A k \in 1..N : k # N => stack'[k].left = stack[k].left
      /\ stack'[N].left = stack[N].left \ {e}
      /\ N \in Nat \ {0}
  BY <1>2, <1>3, ReadStack
<1>5. ASSUME NEW k \in 1..N PROVE FrameInv(k)'
  <2>1. FrameInv(k)
    BY <1>1, <1>3 DEF StackInv
  <2>2. /\ stack[k].dir \in dirs /\ stack[k].dst \in {None, stack[k].dir}
        /\ stack[k].left \subseteq Children(stack[k].dir)
        /\ \A n \in stack[k].left : Unseen(n)
    BY <2>1 DEF FrameInv
  <2>3. \A n \in stack'[k].left : n # e
    <3> SUFFICES ASSUME e \in stack'[k].left PROVE FALSE
      OBVIOUS
    <3>1. e \in stack[k].left /\ k # N
      BY <1>4
    <3>2. Parent[e] = stack[k].dir
      BY <2>2, <3>1, ChildOf
    <3>3. stack[k].dir = stack[N].dir
      BY <1>2, <1>3, <3>2
    <3>4. \A x, y \in 1..N : stack[x].dir = stack[y].dir => x = y
      BY <1>1, <1>3 DEF StackInv
    <3>5. k = N
      BY <1>4, <3>3, <3>4
    <3> QED BY <3>1, <3>5
  <2>4. \A n \in stack'[k].left : Unseen(n)'
    BY <1>4, <2>2, <2>3, ChildOf
  <2> QED BY <1>4, <2>2, <2>4 DEF FrameInv
<1>6. StackInv'
  <2>1. Running' => cwd' = stack'[N].dir
    BY <1>2, <1>3, <1>4, InWalk
  <2>2. stack'[1].dir = Root
    BY <1>1, <1>3, <1>4 DEF StackInv
  <2>3. \A k \in 2..N : stack'[k].dir # Root /\ Parent[stack'[k].dir] = stack'[k - 1].dir
    <3> SUFFICES ASSUME NEW k \in 2..N
                 PROVE  stack'[k].dir # Root /\ Parent[stack'[k].dir] = stack'[k - 1].dir
      OBVIOUS
    <3>1. k \in 1..N /\ k - 1 \in 1..N
      BY <1>4
    <3>2. stack[k].dir # Root /\ Parent[stack[k].dir] = stack[k - 1].dir
      BY <1>1, <1>3 DEF StackInv
    <3> QED BY <1>4, <3>1, <3>2
  <2>4. \A k, m \in 1..N : stack'[k].dir = stack'[m].dir => k = m
    BY <1>1, <1>3, <1>4 DEF StackInv
  <2> QED BY <1>4, <1>5, <2>1, <2>2, <2>3, <2>4 DEF StackInv
<1>7. SeenInv'
  <2>1. ASSUME NEW d \in dirs, NEW n \in Children(d)
        PROVE  Seen(n)' \/ Left(d, n)'
    <3>1. Seen(n) \/ Left(d, n)
      BY <1>1 DEF SeenInv
    <3>2. n \in Nodes
      BY ChildOf
    <3>3. CASE Seen(n)
      BY <3>2, <3>3
    <3>4. CASE n = e
      BY <3>4
    <3>5. CASE Left(d, n) /\ n # e
      <4>1. PICK k \in 1..N : stack[k].dir = d /\ n \in stack[k].left
        BY <1>3, <3>5 DEF Left
      <4>2. stack'[k].dir = d /\ n \in stack'[k].left
        BY <1>4, <3>5, <4>1
      <4> QED BY <1>4, <4>2 DEF Left
    <3> QED BY <3>1, <3>3, <3>4, <3>5
  <2> QED BY <1>1, <2>1 DEF SeenInv
<1> QED BY <1>6, <1>7 DEF WalkInv

\* A regular file.
LEMMA RegularKeeps ==
    ASSUME McpInv, Running, pc = "walk", NEW e \in top.left, handle_regular_file(e),
           UNCHANGED <<pc, mainVars, jobVars, i, threadVars>>
    PROVE  McpInv'
<1>1. /\ top.left \subseteq Children(top.dir) /\ cwd = top.dir
      /\ top.dst \in {None, top.dir} /\ Unseen(e) /\ e \in Nodes /\ Parent[e] = top.dir
      /\ top.dir \in dirs
  BY InWalk
<1>2. Lookup(cwd, Name[e]) = e /\ Lookup(top.dir, Name[e]) = e /\ e # None
  BY <1>1, LookupChild, Kinds
<1>3. Kind[e] = "reg" /\ e \in Files
  BY <1>1, Kinds DEF handle_regular_file
<1>4. UNCHANGED <<cwd, dirs, links, size, thread_num, buf_len, pc>>
  BY DEF handle_regular_file, mainVars
<1>5. PICK dst \in {None, e} :
        /\ files' = Append(files, [size |-> size[e], src |-> e, dst |-> dst])
        /\ data' = IF dst = None THEN data ELSE [data EXCEPT ![dst] = <<>>]
        /\ stack' = Read(e)
        /\ status' = status
  BY <1>1, <1>2 DEF handle_regular_file
<1>6. PICK N, w : N = Len(files) /\ w = [size |-> size[e], src |-> e, dst |-> dst]
  OBVIOUS
<1>7. /\ w.src = e /\ w.dst = dst /\ w \in FileWork
      /\ files \in Seq(FileWork) /\ N \in Nat
  <2>1. size \in [Files \cup Links -> Nat] /\ files \in Seq(FileWork)
    BY DEF McpInv, BaseInv
  <2>2. size[e] \in Nat
    BY <1>3, <2>1
  <2> QED BY <1>3, <1>6, <2>1, <2>2 DEF FileWork
<1>8. /\ files' \in Seq(FileWork) /\ Len(files') = N + 1 /\ files'[N + 1] = w
      /\ \A k \in 1..N : files'[k] = files[k] /\ k \in 1..N + 1
      /\ \A k \in 1..N + 1 : k # N + 1 => k \in 1..N
  BY <1>5, <1>6, <1>7
<1>9. BaseInv'
  BY <1>4, <1>5, <1>8 DEF McpInv, BaseInv
<1>10. \A k \in 1..N : files[k].src # e
  BY <1>1, <1>6 DEF Unseen
<1>11. FileInv'
  <2>1. \A k \in 1..N + 1 : files'[k].dst \in {None, files'[k].src}
    BY <1>6, <1>7, <1>8 DEF McpInv, FileInv
  <2>2. \A k, m \in 1..N + 1 : files'[k].src = files'[m].src => k = m
    BY <1>6, <1>7, <1>8, <1>10 DEF McpInv, FileInv
  <2> QED BY <1>8, <2>1, <2>2 DEF FileInv
<1>12. WalkInv'
  <2>1. Seen(e)'
    BY <1>3, <1>7, <1>8 DEF Seen
  <2>2. \A n \in Nodes : Seen(n) => Seen(n)'
    BY <1>4, <1>6, <1>8 DEF Seen
  <2>3. \A n \in Nodes : Unseen(n) /\ n # e => Unseen(n)'
    BY <1>4, <1>6, <1>7, <1>8 DEF Unseen
  <2>4. \A k \in 1..Len(files') : Parent[files'[k].src] \in dirs
    <3>1. \A k \in 1..N : Parent[files[k].src] \in dirs
      BY <1>6 DEF McpInv, WalkInv, SeenInv
    <3> QED BY <1>1, <1>7, <1>8, <3>1
  <2> QED BY <1>4, <1>5, <2>1, <2>2, <2>3, <2>4, ReadKeeps
<1>13. DataInv'
  <2>1. /\ data = [n \in Files |-> data[n]]
        /\ \A n \in Files : data[n] = None \/ \E l \in 0..size[n] : Holds(n, l)
        /\ \A k \in 1..N : files[k].dst # None => Holds(files[k].dst, 0)
    BY <1>6 DEF McpInv, CopyInv, DataInv
  <2>2. Slice(e, 0, 0) = <<>>
    BY DEF Slice
  <2>3. dst # None => data'[e] = <<>>
    BY <1>3, <1>5, <2>1
  <2>4. /\ data' = [n \in Files |-> data'[n]]
        /\ \A n \in Files : n # e => data'[n] = data[n]
        /\ data'[e] = data[e] \/ data'[e] = <<>>
    BY <1>3, <1>5, <2>1
  <2>5. \A n \in Files : size'[n] \in Nat /\ size'[n] = size[n]
    BY <1>4 DEF McpInv, BaseInv
  <2>6. ASSUME NEW n \in Files
        PROVE  data'[n] = None \/ \E l \in 0..size'[n] : Holds(n, l)'
    <3>1. CASE data'[n] = data[n]
      BY <2>1, <2>5, <3>1 DEF Holds
    <3>2. CASE n = e /\ data'[e] = <<>>
      BY <2>2, <2>5, <3>2 DEF Holds
    <3> QED BY <2>4, <3>1, <3>2
  <2>7. ASSUME NEW k \in 1..N + 1, files'[k].dst # None
        PROVE  files'[k].dst \in Files /\ data'[files'[k].dst] = Slice(files'[k].dst, 0, 0)
    <3>1. CASE k = N + 1
      <4>1. files'[k].dst = e /\ dst # None
        BY <1>5, <1>7, <1>8, <2>7, <3>1
      <4> QED BY <1>3, <2>2, <2>3, <4>1
    <3>2. CASE k # N + 1
      <4>1. k \in 1..N /\ files'[k] = files[k]
        BY <1>8, <3>2
      <4>2. files[k].dst = files[k].src
        BY <1>6, <2>7, <4>1 DEF McpInv, FileInv
      <4>3. files[k] \in FileWork
        BY <1>6, <1>7, <4>1
      <4>4. files[k].dst # e /\ files[k].dst \in Files
        BY <1>10, <4>1, <4>2, <4>3 DEF FileWork
      <4>5. PICK x : x = files[k].dst
        OBVIOUS
      <4>6. x \in Files /\ x # e /\ x # None /\ files'[k].dst = x
        BY <2>7, <4>1, <4>4, <4>5
      <4>7. data[x] = Slice(x, 0, 0)
        BY <2>1, <4>1, <4>5, <4>6 DEF Holds
      <4>8. data'[x] = data[x]
        BY <2>4, <4>6
      <4> QED BY <4>6, <4>7, <4>8
    <3> QED BY <3>1, <3>2
  <2>8. ASSUME NEW k \in 1..N + 1, files'[k].dst # None
        PROVE  0 \in 0..size'[files'[k].dst]
    BY <2>5, <2>7, <2>8
  <2>9. \A k \in 1..N + 1 : files'[k].dst # None =>
          /\ data'[files'[k].dst] = Slice(files'[k].dst, 0, 0)
          /\ \E l \in 0..size'[files'[k].dst] : data'[files'[k].dst] = Slice(files'[k].dst, 0, l)
    BY <2>7, <2>8
  <2>10. \A n \in Files : data'[n] = None
                          \/ \E l \in 0..size'[n] : data'[n] = Slice(n, 0, l)
    BY <2>6 DEF Holds
  <2> QED BY <1>8, <2>4, <2>9, <2>10 DEF DataInv, Holds
<1>14. MainInv'
  BY <1>4, <1>5 DEF McpInv, CopyInv, MainInv
<1> QED BY <1>4, <1>9, <1>11, <1>12, <1>13, <1>14 DEF McpInv, CopyInv


\* While the walk lists no file, there is nothing new to copy.
LEMMA NothingToCopy ==
    ASSUME McpInv, pc = "walk", UNCHANGED <<pc, status, size, files, data>>
    PROVE  CopyInv'
<1>1. DataInv'
  BY DEF McpInv, CopyInv, DataInv, Holds
<1>2. MainInv'
  BY DEF McpInv, CopyInv, MainInv
<1> QED BY <1>1, <1>2 DEF CopyInv

\* A symbolic link, or a node that is neither file nor link nor directory.
LEMMA LinkKeeps ==
    ASSUME McpInv, Running, pc = "walk", NEW e \in top.left,
           handle_symbolic_link(e) \/ IgnoreOther(e),
           UNCHANGED <<pc, mainVars, jobVars, i, threadVars>>
    PROVE  McpInv'
<1>1. e \in Nodes /\ cwd \in Nodes
  BY InWalk
<1>2. CASE handle_symbolic_link(e) /\ status' \in {"aborted", "failed"}
  <2>1. UNCHANGED <<stack, cwd, files, dirs, links, data>>
    BY <1>2 DEF handle_symbolic_link, Running
  <2> QED BY <1>1, <1>2, <2>1, StopKeeps
<1>3. CASE \/ handle_symbolic_link(e) /\ status' \notin {"aborted", "failed"}
           \/ IgnoreOther(e)
  <2>1. /\ UNCHANGED <<pc, size, thread_num, buf_len, status, cwd, dirs, files, data>>
        /\ stack' = Read(e)
        /\ \/ /\ Kind[e] = "lnk"
              /\ \E to \in {"same", "garbled"} : links' = [links EXCEPT ![e] = to]
           \/ Kind[e] = "other" /\ links' = links
    BY <1>3 DEF handle_symbolic_link, IgnoreOther, mainVars
  <2>2. /\ links' \in [Links -> {"missing", "same", "garbled"}]
        /\ Kind[e] = "lnk" => links'[e] # "missing"
        /\ \A n \in Links : links[n] # "missing" => links'[n] # "missing"
    <3>1. links \in [Links -> {"missing", "same", "garbled"}]
      BY DEF McpInv, BaseInv
    <3>2. Kind[e] = "lnk" => e \in Links
      BY <1>1, Kinds
    <3> QED BY <2>1, <3>1, <3>2
  <2>3. BaseInv' /\ FileInv'
    BY <2>1, <2>2 DEF McpInv, BaseInv, FileInv
  <2>4. WalkInv'
    <3>1. Seen(e)'
      BY <2>1, <2>2 DEF Seen
    <3>2. \A n \in Nodes : Seen(n) => Seen(n)'
      BY <2>1, <2>2, Kinds DEF Seen
    <3>3. \A n \in Nodes : Unseen(n) /\ n # e => Unseen(n)'
      BY <2>1 DEF Unseen
    <3>4. \A k \in 1..Len(files') : Parent[files'[k].src] \in dirs
      BY <2>1 DEF McpInv, WalkInv, SeenInv
    <3> QED BY <2>1, <3>1, <3>2, <3>3, <3>4, ReadKeeps
  <2> QED BY <2>1, <2>3, <2>4, NothingToCopy DEF McpInv
<1> QED BY <1>2, <1>3

\* A directory: its nodes are left to read.
LEMMA EnterKeeps ==
    ASSUME McpInv, Running, pc = "walk", NEW e \in top.left, EnterDirectory(e),
           UNCHANGED <<pc, mainVars, jobVars, i, threadVars>>
    PROVE  McpInv'
<1>1. /\ stack \in Seq(Frame) /\ Len(stack) \in Nat \ {0} /\ stack[Len(stack)] = top
      /\ cwd = top.dir /\ top.dir \in dirs /\ dirs \subseteq Nodes /\ cwd \in Nodes
      /\ top.dst \in {None, top.dir} /\ top.left \subseteq Children(top.dir)
      /\ Unseen(e) /\ e \in Nodes /\ e # Root /\ Parent[e] = top.dir
  BY InWalk
<1>2. Lookup(cwd, Name[e]) = e /\ Lookup(top.dir, Name[e]) = e /\ e # None
  BY <1>1, LookupChild, Kinds
<1>3. UNCHANGED <<pc, size, thread_num, buf_len, files, links, data>> /\ Kind[e] = "dir"
  BY DEF EnterDirectory, mainVars
<1>4. CASE top.dst = None
  <2>1. status' = "failed" /\ UNCHANGED <<stack, cwd, dirs>>
    BY <1>4 DEF EnterDirectory
  <2> QED BY <1>1, <1>3, <2>1, StopKeeps
<1>5. CASE top.dst # None
  <2>1. PICK dst \in {None, e} :
          stack' = Append(Read(e), [dir |-> e, dst |-> dst, left |-> Children(e)])
    BY <1>1, <1>2, <1>5 DEF EnterDirectory
  <2>2. dirs' = dirs \cup {e} /\ cwd' = e /\ status' = status
    BY <1>1, <1>2, <1>5 DEF EnterDirectory
  <2>3. PICK N, q, f : /\ N = Len(stack) /\ q = Read(e)
                       /\ f = [dir |-> e, dst |-> dst, left |-> Children(e)]
    OBVIOUS
  <2>4. /\ q \in Seq(Frame) /\ Len(q) = N /\ N \in Nat \ {0}
        /\ \A k \in 1..N :
              /\ q[k].dir = stack[k].dir /\ q[k].dst = stack[k].dst
              /\ q[k].left \subseteq stack[k].left
        /\ \A k \in 1..N : k # N => q[k].left = stack[k].left
        /\ q[N].left = stack[N].left \ {e}
    BY <1>1, <2>3, ReadStack
  <2>5. f \in Frame /\ f.dir = e /\ f.dst = dst /\ f.left = Children(e)
    BY <1>1, <2>3 DEF Frame, Children
  <2>6. /\ stack' \in Seq(Frame) /\ Len(stack') = N + 1 /\ stack'[N + 1] = f
        /\ \A k \in 1..N : stack'[k] = q[k]
    BY <2>1, <2>3, <2>4, <2>5
  <2>7. N + 1 \in 1..N + 1 /\ \A k \in 1..N + 1 : k # N + 1 => k \in 1..N
    BY <2>4
  <2>8. StackInv /\ SeenInv
    BY DEF McpInv, WalkInv
  <2>9. \A n : Unseen(n) /\ n # e => Unseen(n)'
    BY <1>3, <2>2 DEF Unseen
  <2>10. \A k, m \in 1..N : stack[k].dir = stack[m].dir => k = m
    BY <2>3, <2>8 DEF StackInv
  <2>11. ASSUME NEW k \in 1..N PROVE FrameInv(k)' /\ stack[k].dir # e
    <3>1. FrameInv(k)
      BY <2>3, <2>8 DEF StackInv
    <3>2. /\ stack[k].dir \in dirs /\ stack[k].dst \in {None, stack[k].dir}
          /\ stack[k].left \subseteq Children(stack[k].dir)
          /\ \A n \in stack[k].left : Unseen(n)
      BY <3>1 DEF FrameInv
    <3>3. \A n \in q[k].left : n # e
      <4> SUFFICES ASSUME e \in q[k].left PROVE FALSE
        OBVIOUS
      <4>1. e \in stack[k].left /\ k # N
        BY <2>4
      <4>2. stack[k].dir = stack[N].dir
        BY <1>1, <2>3, <3>2, <4>1, ChildOf
      <4>3. k = N
        BY <2>4, <2>10, <4>2
      <4> QED BY <4>1, <4>3
    <3>4. \A n \in q[k].left : Unseen(n)'
      BY <2>4, <2>9, <3>2, <3>3
    <3>5. stack[k].dir # e
      BY <1>1, <3>2 DEF Unseen
    <3> QED BY <2>2, <2>4, <2>6, <3>2, <3>4, <3>5 DEF FrameInv
  <2>12. FrameInv(N + 1)'
    <3>1. ASSUME NEW n \in Children(e) PROVE Unseen(n)'
      <4>1. n \in Nodes /\ n # Root /\ Parent[n] = e
        BY ChildOf
      <4>2. e \notin dirs
        BY <1>1 DEF Unseen
      <4>3. n \notin dirs /\ \A k \in 1..Len(files) : files[k].src # n
        BY <2>8, <4>1, <4>2 DEF SeenInv
      <4>4. n # e
        <5> SUFFICES ASSUME n = e PROVE FALSE
          OBVIOUS
        <5>1. e = top.dir
          BY <1>1, <4>1
        <5> QED BY <1>1, <4>2, <5>1
      <4> QED BY <1>3, <2>2, <4>3, <4>4 DEF Unseen
    <3> QED BY <2>2, <2>5, <2>6, <3>1 DEF FrameInv
  <2>13. StackInv'
    <3>1. \A k \in 1..N + 1 : FrameInv(k)'
      BY <2>7, <2>11, <2>12
    <3>2. stack'[1].dir = Root
      BY <2>3, <2>4, <2>6, <2>8 DEF StackInv
    <3>3. \A k \in 2..N + 1 :
            stack'[k].dir # Root /\ Parent[stack'[k].dir] = stack'[k - 1].dir
      <4> SUFFICES ASSUME NEW k \in 2..N + 1
                   PROVE  stack'[k].dir # Root /\ Parent[stack'[k].dir] = stack'[k - 1].dir
        OBVIOUS
      <4>1. CASE k = N + 1
        <5>1. k - 1 = N /\ N \in 1..N
          BY <2>4, <4>1
        <5>2. stack'[k].dir = e /\ stack'[N].dir = stack[N].dir
          BY <2>4, <2>5, <2>6, <4>1, <5>1
        <5> QED BY <1>1, <2>3, <5>1, <5>2
      <4>2. CASE k # N + 1
        <5>1. k \in 2..N /\ k \in 1..N /\ k - 1 \in 1..N
          BY <2>4, <4>2
        <5>2. stack[k].dir # Root /\ Parent[stack[k].dir] = stack[k - 1].dir
          BY <2>3, <2>8, <5>1 DEF StackInv
        <5> QED BY <2>4, <2>6, <5>1, <5>2
      <4> QED BY <4>1, <4>2
    <3>4. \A k, m \in 1..N + 1 : stack'[k].dir = stack'[m].dir => k = m
      <4>1. \A k \in 1..N : stack'[k].dir = stack[k].dir /\ stack'[k].dir # e
        BY <2>4, <2>6, <2>11
      <4>2. stack'[N + 1].dir = e
        BY <2>5, <2>6
      <4> QED BY <2>7, <2>10, <4>1, <4>2
    <3>5. cwd' = stack'[N + 1].dir
      BY <2>2, <2>5, <2>6
    <3> QED BY <2>4, <2>6, <3>1, <3>2, <3>3, <3>4, <3>5 DEF StackInv
  <2>14. SeenInv'
    <3>1. \A n \in Nodes : Seen(n) => Seen(n)'
      BY <1>3, <2>2 DEF Seen
    <3>2. Seen(e)'
      BY <1>3, <2>2 DEF Seen
    <3>3. ASSUME NEW d \in dirs, NEW n \in Children(d)
          PROVE  Seen(n)' \/ Left(d, n)'
      <4>1. Seen(n) \/ Left(d, n)
        BY <2>8 DEF SeenInv
      <4>2. CASE Seen(n) \/ n = e
        BY <3>1, <3>2, <4>2, ChildOf
      <4>3. CASE Left(d, n) /\ n # e
        <5>1. PICK k \in 1..N : stack[k].dir = d /\ n \in stack[k].left
          BY <2>3, <4>3 DEF Left
        <5>2. stack'[k].dir = d /\ n \in stack'[k].left
          BY <2>4, <2>6, <4>3, <5>1
        <5>3. k \in 1..N + 1
          BY <2>4
        <5> QED BY <2>6, <5>2, <5>3 DEF Left
      <4> QED BY <4>1, <4>2, <4>3
    <3>4. ASSUME NEW n \in Children(e) PROVE Left(e, n)'
      BY <2>5, <2>6, <2>7 DEF Left
    <3>5. \A n \in dirs' : n = Root \/ Parent[n] \in dirs'
      BY <1>1, <2>2, <2>8 DEF SeenInv
    <3>6. \A k \in 1..Len(files') : Parent[files'[k].src] \in dirs'
      BY <1>3, <2>2, <2>8 DEF SeenInv
    <3>7. Root \in dirs'
      BY <2>2, <2>8 DEF SeenInv
    <3>8. \A d \in dirs' : \A n \in Children(d) : Seen(n)' \/ Left(d, n)'
      BY <2>2, <3>3, <3>4
    <3> QED BY <3>5, <3>6, <3>7, <3>8 DEF SeenInv
  <2>15. WalkInv'
    BY <1>3, <2>13, <2>14 DEF WalkInv
  <2>16. BaseInv' /\ FileInv'
    BY <1>1, <1>3, <2>2 DEF McpInv, BaseInv, FileInv
  <2> QED BY <1>3, <2>2, <2>15, <2>16, NothingToCopy DEF McpInv
<1> QED BY <1>4, <1>5

\* All of a directory has been read.
LEMMA LeaveKeeps ==
    ASSUME McpInv, LeaveDirectory
    PROVE  McpInv'
<1>1. /\ Running /\ pc = "walk" /\ top.left = {} /\ Len(stack) > 1
      /\ cwd' = Parent[cwd]
      /\ UNCHANGED <<pc, size, thread_num, buf_len, files, dirs, links, data>>
  BY DEF LeaveDirectory, mainVars
<1>2. /\ stack \in Seq(Frame) /\ Len(stack) \in Nat \ {0} /\ stack[Len(stack)] = top
      /\ cwd = top.dir
  BY <1>1, InWalk
<1>3. StackInv /\ SeenInv
  BY <1>1 DEF McpInv, WalkInv
<1>4. PICK N : N = Len(stack) - 1
  OBVIOUS
<1>5. /\ N \in Nat \ {0} /\ Len(stack) = N + 1 /\ N + 1 \in 2..N + 1
      /\ \A k \in 1..N : k \in 1..N + 1
      /\ \A k \in 1..N + 1 : k # N + 1 => k \in 1..N
  BY <1>1, <1>2, <1>4
<1>6. cwd' = stack[N].dir /\ cwd' \in Nodes
  <2>1. Parent[stack[N + 1].dir] = stack[N + 1 - 1].dir
    BY <1>3, <1>5 DEF StackInv
  <2>2. N + 1 - 1 = N /\ N \in 1..N + 1
    BY <1>5
  <2>3. stack[N] \in Frame
    BY <1>2, <1>5, <2>2
  <2> QED BY <1>1, <1>2, <1>5, <2>1, <2>2, <2>3 DEF Frame
<1>7. CASE top.dst = None
  <2>1. status' = "failed" /\ UNCHANGED stack
    BY <1>7 DEF LeaveDirectory
  <2> QED BY <1>1, <1>6, <2>1, StopKeeps DEF LeaveDirectory
<1>8. CASE top.dst # None
  <2>1. stack' = SubSeq(stack, 1, N) /\ status' = status
    BY <1>4, <1>8 DEF LeaveDirectory, Front
  <2>2. stack' \in Seq(Frame) /\ Len(stack') = N /\ \A k \in 1..N : stack'[k] = stack[k]
    BY <1>2, <1>5, <2>1
  <2>3. StackInv'
    <3>1. ASSUME NEW k \in 1..N PROVE FrameInv(k)'
      <4>1. FrameInv(k)
        BY <1>3, <1>5 DEF StackInv
      <4> QED BY <1>1, <2>2, <4>1 DEF FrameInv, Unseen
    <3>2. stack'[1].dir = Root /\ cwd' = stack'[N].dir
      BY <1>3, <1>5, <1>6, <2>2 DEF StackInv
    <3>3. \A k \in 2..N : stack'[k].dir # Root /\ Parent[stack'[k].dir] = stack'[k - 1].dir
      <4> SUFFICES ASSUME NEW k \in 2..N
                   PROVE  stack'[k].dir # Root /\ Parent[stack'[k].dir] = stack'[k - 1].dir
        OBVIOUS
      <4>1. k \in 1..N /\ k - 1 \in 1..N /\ k \in 2..N + 1
        BY <1>5
      <4> QED BY <1>3, <1>5, <2>2, <4>1 DEF StackInv
    <3>4. \A k, m \in 1..N : stack'[k].dir = stack'[m].dir => k = m
      BY <1>3, <1>5, <2>2 DEF StackInv
    <3> QED BY <1>5, <2>2, <3>1, <3>2, <3>3, <3>4 DEF StackInv
  <2>4. SeenInv'
    <3>1. ASSUME NEW d \in dirs, NEW n \in Children(d)
          PROVE  Seen(n)' \/ Left(d, n)'
      <4>1. Seen(n) \/ Left(d, n)
        BY <1>3 DEF SeenInv
      <4>2. CASE Seen(n)
        BY <1>1, <4>2 DEF Seen
      <4>3. CASE Left(d, n)
        <5>1. PICK k \in 1..N + 1 : stack[k].dir = d /\ n \in stack[k].left
          BY <1>5, <4>3 DEF Left
        <5>2. k \in 1..N
          BY <1>1, <1>2, <1>5, <5>1
        <5> QED BY <2>2, <5>1, <5>2 DEF Left
      <4> QED BY <4>1, <4>2, <4>3
    <3> QED BY <1>1, <1>3, <3>1 DEF SeenInv
  <2>5. BaseInv' /\ FileInv' /\ WalkInv'
    BY <1>1, <1>6, <2>1, <2>3, <2>4 DEF McpInv, BaseInv, FileInv, WalkInv
  <2> QED BY <1>1, <2>1, <2>5, NothingToCopy DEF McpInv
<1> QED BY <1>7, <1>8


\* The walk is over: everything has been seen.
LEMMA WalkOver ==
    ASSUME McpInv, Running, pc = "walk", top.left = {}, Len(stack) = 1
    PROVE  \A n \in Nodes : Seen(n)
<1> DEFINE S == {n \in Nodes : Seen(n)}
<1>1. StackInv /\ SeenInv
  BY DEF McpInv, WalkInv
<1>2. stack[1] = top
  BY InWalk
<1>3. ASSUME NEW d \in S PROVE Children(d) \subseteq S
  <2> SUFFICES ASSUME NEW n \in Children(d) PROVE n \in S
    OBVIOUS
  <2>1. n \in Nodes /\ n # Root /\ Parent[n] = d
    BY ChildOf
  <2>2. Kind[d] = "dir"
    BY <2>1, TreeAssumption
  <2>3. d \in dirs
    BY <2>2 DEF Seen
  <2>4. Seen(n) \/ Left(d, n)
    BY <1>1, <2>3 DEF SeenInv
  <2>5. ~Left(d, n)
    BY <1>2 DEF Left
  <2> QED BY <2>1, <2>4, <2>5
<1>4. Root \in S
  BY <1>1, ConstantsAssumption DEF SeenInv, Seen
<1>5. S = Nodes
  BY <1>3, <1>4, TreeAssumption
<1> QED BY <1>5

\* sort() rearranges the files.
LEMMA WalkDoneKeeps ==
    ASSUME McpInv, WalkDone
    PROVE  McpInv'
<1>1. /\ Running /\ pc = "walk" /\ top.left = {} /\ Len(stack) = 1
      /\ jobs' = [t \in Threads |-> <<>>] /\ i' = 1 /\ pc' = "assign"
      /\ UNCHANGED <<status, size, thread_num, buf_len, stack, cwd, dirs, links, data>>
  BY DEF WalkDone, mainVars
<1>2. PICK p \in Bijection(DOMAIN files, DOMAIN files) :
        files' = [k \in DOMAIN files |-> files[p[k]]]
  BY DEF WalkDone
<1>3. PICK N : N = Len(files)
  OBVIOUS
<1>4. files \in Seq(FileWork) /\ N \in Nat /\ DOMAIN files = 1..N
  BY <1>3 DEF McpInv, BaseInv
<1>5. /\ \A x \in 1..N : p[x] \in 1..N
      /\ \A y \in 1..N : \E x \in 1..N : p[x] = y
      /\ \A x, y \in 1..N : p[x] = p[y] => x = y
  BY <1>4 DEF Bijection, Surjection, Injection, IsInjective
<1>6. /\ files' \in Seq(FileWork) /\ Len(files') = N
      /\ \A k \in 1..N : files'[k] = files[p[k]]
  <2>1. files' \in [1..N -> FileWork]
    BY <1>2, <1>3, <1>4, <1>5
  <2> QED BY <1>2, <1>4, <2>1
<1>7. BaseInv'
  BY <1>1, <1>6 DEF McpInv, BaseInv
<1>8. FileInv'
  <2>1. /\ \A k \in 1..N : files[k].dst \in {None, files[k].src}
        /\ \A k, m \in 1..N : files[k].src = files[m].src => k = m
    BY <1>3 DEF McpInv, FileInv
  <2>2. ASSUME NEW k \in 1..N PROVE files'[k].dst \in {None, files'[k].src}
    <3>1. PICK y : y = p[k]
      OBVIOUS
    <3>2. y \in 1..N /\ files'[k] = files[y]
      BY <1>5, <1>6, <3>1
    <3> QED BY <2>1, <3>2
  <2>3. ASSUME NEW k \in 1..N, NEW m \in 1..N, files'[k].src = files'[m].src PROVE k = m
    <3>1. PICK x, y : x = p[k] /\ y = p[m]
      OBVIOUS
    <3>2. x \in 1..N /\ y \in 1..N /\ files[x].src = files[y].src
      BY <1>5, <1>6, <2>3, <3>1
    <3>3. x = y
      BY <2>1, <3>2
    <3> QED BY <1>5, <3>1, <3>3
  <2> QED BY <1>6, <2>2, <2>3 DEF FileInv
<1>9. WalkInv'
  <2>1. \A n \in Nodes : Seen(n)
    BY <1>1, WalkOver
  <2>2. ASSUME NEW n \in Nodes PROVE Seen(n)'
    <3>1. ASSUME Kind[n] = "reg" PROVE \E k \in 1..N : files'[k].src = n
      <4>1. PICK y \in 1..N : files[y].src = n
        BY <1>3, <2>1, <3>1 DEF Seen
      <4>2. PICK k \in 1..N : p[k] = y
        BY <1>5
      <4> QED BY <1>6, <4>1, <4>2
    <3> QED BY <1>1, <1>6, <2>1, <3>1 DEF Seen
  <2> QED BY <1>1, <2>2 DEF WalkInv
<1>10. DataInv'
  <2>1. /\ data = [n \in Files |-> data[n]]
        /\ \A n \in Files : data[n] = None \/ \E l \in 0..size[n] : data[n] = Slice(n, 0, l)
        /\ \A k \in 1..N : files[k].dst # None =>
              /\ \E l \in 0..size[files[k].dst] : data[files[k].dst] = Slice(files[k].dst, 0, l)
              /\ data[files[k].dst] = Slice(files[k].dst, 0, 0)
    BY <1>1, <1>3 DEF McpInv, CopyInv, DataInv, Holds
  <2>2. \A k \in 1..N : files'[k].dst # None =>
              /\ \E l \in 0..size[files'[k].dst] : data[files'[k].dst] = Slice(files'[k].dst, 0, l)
              /\ data[files'[k].dst] = Slice(files'[k].dst, 0, 0)
    <3> SUFFICES ASSUME NEW k \in 1..N, files'[k].dst # None
                 PROVE  /\ \E l \in 0..size[files'[k].dst] :
                              data[files'[k].dst] = Slice(files'[k].dst, 0, l)
                        /\ data[files'[k].dst] = Slice(files'[k].dst, 0, 0)
      OBVIOUS
    <3>1. PICK y : y = p[k]
      OBVIOUS
    <3>2. y \in 1..N /\ files'[k] = files[y]
      BY <1>5, <1>6, <3>1
    <3>3. PICK n : n = files[y].dst
      OBVIOUS
    <3>4. n # None /\ n = files'[k].dst
      BY <3>2, <3>3
    <3>5. \E l \in 0..size[n] : data[n] = Slice(n, 0, l)
      BY <2>1, <3>2, <3>3, <3>4
    <3>6. data[n] = Slice(n, 0, 0)
      BY <2>1, <3>2, <3>3, <3>4
    <3> QED BY <3>4, <3>5, <3>6
  <2> QED BY <1>1, <1>6, <2>1, <2>2 DEF DataInv, Holds
<1>11. JobsInv'
  <2>1. Threads' = Threads /\ Shared' = 0
    BY <1>1 DEF Threads, Shared
  <2>2. jobs' \in [Threads -> Seq(FileWork)] /\ \A t \in Threads : Len(jobs'[t]) = 0
    BY <1>1
  <2>3. i' \in 1..Len(files') + 1
    BY <1>1, <1>4, <1>6
  <2> QED BY <2>1, <2>2, <2>3 DEF JobsInv
<1>12. MainInv'
  BY <1>1 DEF McpInv, CopyInv, MainInv, Running
<1> QED BY <1>1, <1>7, <1>8, <1>9, <1>10, <1>11, <1>12 DEF McpInv, CopyInv

-----------------------------------------------------------------------------
(* The assignment *)

\* What stays while neither tree nor files change.
LEMMA FilesStay ==
    ASSUME McpInv, pc \in {"assign", "spawn", "join"}, pc' \in {"assign", "spawn", "join"},
           status' \in {"running", "ok", "failed", "aborted"},
           UNCHANGED <<mainVars, walkVars>>
    PROVE  BaseInv' /\ FileInv' /\ WalkInv'
<1>1. UNCHANGED <<size, thread_num, buf_len, stack, cwd, files, dirs, links>>
  BY DEF mainVars, walkVars
<1>2. BaseInv' /\ FileInv'
  BY <1>1 DEF McpInv, BaseInv, FileInv
<1>3. WalkInv'
  BY <1>1 DEF McpInv, WalkInv, Seen
<1> QED BY <1>2, <1>3

\* The next file goes to one thread.
LEMMA AssignKeeps ==
    ASSUME McpInv, AssignWork
    PROVE  McpInv'
<1>1. /\ Running /\ pc = "assign" /\ i <= Len(files)
      /\ UNCHANGED <<pc, size, thread_num, buf_len, cwd, files, data, mainVars, walkVars, stack,
                     dirs, links>>
  BY DEF AssignWork, mainVars, walkVars
<1>2. JobsInv
  BY <1>1 DEF McpInv, CopyInv
<1>3. CASE thread_num = 0
  <2>1. status' = "aborted" /\ UNCHANGED <<jobVars, i, threadVars>> /\ cwd' \in Nodes \cup {None}
    BY <1>1, <1>3 DEF AssignWork, McpInv, BaseInv
  <2> QED BY <1>1, <2>1, StopKeeps
<1>4. CASE thread_num # 0
  <2>1. PICK t \in Threads : jobs' = [jobs EXCEPT ![t] = Append(jobs[t], files[i])]
    BY <1>4 DEF AssignWork
  <2>2. i' = i + 1 /\ status' = status
    BY <1>4 DEF AssignWork
  <2>3. BaseInv' /\ FileInv' /\ WalkInv'
    BY <1>1, <2>2, FilesStay DEF McpInv, BaseInv
  <2>4. DataInv' /\ MainInv'
    BY <1>1, <2>2 DEF McpInv, CopyInv, DataInv, MainInv, Holds
  <2>5. PICK n, fs, js, T, L : /\ n = i - 1 /\ fs = files /\ js = jobs /\ T = Threads
                               /\ L = Len(js[t])
    OBVIOUS
  <2>6. /\ fs \in Seq(FileWork) /\ i \in 1..Len(fs) /\ n \in Nat /\ i = n + 1 /\ n + 1 \in 1..Len(fs)
        /\ i \in Nat /\ Len(fs) \in Nat
    <3>1. fs \in Seq(FileWork)
      BY <2>5 DEF McpInv, BaseInv
    <3>2. Len(fs) \in Nat /\ i \in 1..Len(fs) + 1 /\ i <= Len(fs)
      BY <1>1, <1>2, <2>5, <3>1 DEF JobsInv
    <3> QED BY <2>5, <3>1, <3>2
  <2>7. /\ js \in [T -> Seq(FileWork)]
        /\ \A u \in T : \A m \in 1..Len(js[u]) : \E k \in 1..n : js[u][m] = fs[k]
        /\ \A k \in 1..n : \E u \in T : \E m \in 1..Len(js[u]) : js[u][m] = fs[k]
        /\ \A u, v \in T : \A m \in 1..Len(js[u]), x \in 1..Len(js[v]) :
              js[u][m].src = js[v][x].src => u = v /\ m = x
    <3>1. n = Shared
      BY <1>1, <2>5 DEF Shared
    <3>2. js \in [T -> Seq(FileWork)]
      BY <1>2, <2>5 DEF JobsInv
    <3>3. \A u \in T : \A m \in 1..Len(js[u]) : \E k \in 1..n : js[u][m] = fs[k]
      BY <1>2, <2>5, <3>1 DEF JobsInv
    <3>4. \A k \in 1..n : \E u \in T : \E m \in 1..Len(js[u]) : js[u][m] = fs[k]
      BY <1>2, <2>5, <3>1 DEF JobsInv
    <3>5. \A u, v \in T : \A m \in 1..Len(js[u]), x \in 1..Len(js[v]) :
              js[u][m].src = js[v][x].src => u = v /\ m = x
      BY <1>2, <2>5 DEF JobsInv
    <3> QED BY <3>2, <3>3, <3>4, <3>5
  <2>8. fs[i] \in FileWork /\ js[t] \in Seq(FileWork) /\ L \in Nat /\ t \in T
    BY <2>5, <2>6, <2>7
  <2>9. /\ jobs' \in [T -> Seq(FileWork)]
        /\ \A u \in T : u # t => jobs'[u] = js[u]
        /\ Len(jobs'[t]) = L + 1 /\ jobs'[t][L + 1] = fs[i]
        /\ \A m \in 1..L : jobs'[t][m] = js[t][m]
    <3>1. PICK q : q = Append(js[t], fs[i])
      OBVIOUS
    <3>2. /\ q \in Seq(FileWork) /\ Len(q) = L + 1 /\ q[L + 1] = fs[i]
          /\ \A m \in 1..L : q[m] = js[t][m]
      BY <2>5, <2>8, <3>1
    <3>3. jobs' = [js EXCEPT ![t] = q]
      BY <2>1, <2>5, <3>1
    <3>4. jobs' \in [T -> Seq(FileWork)] /\ jobs'[t] = q /\ \A u \in T : u # t => jobs'[u] = js[u]
      BY <2>7, <2>8, <3>2, <3>3
    <3> QED BY <3>2, <3>4
  <2>10. \A m \in 1..L + 1 : m # L + 1 => m \in 1..L
    BY <2>8
  <2>11. \A k \in 1..n : k \in 1..n + 1 /\ k \in 1..Len(fs) /\ k # i
    BY <2>6
  <2>12. \A k, m \in 1..Len(fs) : fs[k].src = fs[m].src => k = m
    BY <2>5 DEF McpInv, FileInv
  <2>13. ASSUME NEW u \in T, NEW m \in 1..Len(jobs'[u])
         PROVE  \E k \in 1..n + 1 : jobs'[u][m] = fs[k]
    <3>1. CASE u = t /\ m = L + 1
      BY <2>6, <2>9, <3>1
    <3>2. CASE ~(u = t /\ m = L + 1)
      <4>1. m \in 1..Len(js[u]) /\ jobs'[u][m] = js[u][m]
        BY <2>5, <2>9, <2>10, <3>2
      <4>2. PICK k \in 1..n : js[u][m] = fs[k]
        BY <2>7, <4>1
      <4> QED BY <2>11, <4>1, <4>2
    <3> QED BY <3>1, <3>2
  <2>14. ASSUME NEW k \in 1..n + 1
         PROVE  \E u \in T : \E m \in 1..Len(jobs'[u]) : jobs'[u][m] = fs[k]
    <3>1. CASE k = n + 1
      <4>1. L + 1 \in 1..Len(jobs'[t]) /\ jobs'[t][L + 1] = fs[k]
        BY <2>6, <2>8, <2>9, <3>1
      <4> QED BY <2>8, <4>1
    <3>2. CASE k # n + 1
      <4>1. k \in 1..n
        BY <2>6, <3>2
      <4>2. PICK u \in T : \E m \in 1..Len(js[u]) : js[u][m] = fs[k]
        BY <2>7, <4>1
      <4>3. PICK m \in 1..Len(js[u]) : js[u][m] = fs[k]
        BY <4>2
      <4>4. m \in 1..Len(jobs'[u]) /\ jobs'[u][m] = fs[k]
        <5>1. CASE u # t
          BY <2>9, <4>3, <5>1
        <5>2. CASE u = t
          <6>1. m \in 1..L /\ m \in 1..L + 1
            BY <2>5, <2>8, <4>3, <5>2
          <6> QED BY <2>9, <4>3, <5>2, <6>1
        <5> QED BY <5>1, <5>2
      <4> QED BY <4>4
    <3> QED BY <3>1, <3>2
  <2>15. ASSUME NEW u \in T, NEW m \in 1..Len(js[u]) PROVE js[u][m].src # fs[i].src
    <3>1. PICK k \in 1..n : js[u][m] = fs[k]
      BY <2>7
    <3> QED BY <2>6, <2>11, <2>12, <3>1
  <2>16. ASSUME NEW u \in T, NEW v \in T, NEW m \in 1..Len(jobs'[u]), NEW x \in 1..Len(jobs'[v]),
                jobs'[u][m].src = jobs'[v][x].src
         PROVE  u = v /\ m = x
    <3>1. \/ u = t /\ m = L + 1 /\ jobs'[u][m] = fs[i]
          \/ m \in 1..Len(js[u]) /\ jobs'[u][m] = js[u][m]
      BY <2>5, <2>9, <2>10
    <3>2. \/ v = t /\ x = L + 1 /\ jobs'[v][x] = fs[i]
          \/ x \in 1..Len(js[v]) /\ jobs'[v][x] = js[v][x]
      BY <2>5, <2>9, <2>10
    <3>3. CASE /\ m \in 1..Len(js[u]) /\ jobs'[u][m] = js[u][m]
               /\ x \in 1..Len(js[v]) /\ jobs'[v][x] = js[v][x]
      BY <2>7, <2>16, <3>3
    <3> QED BY <2>15, <2>16, <3>1, <3>2, <3>3
  <2>17. Threads' = T /\ Shared' = n + 1 /\ files' = fs
    BY <1>1, <2>2, <2>5, <2>6 DEF Threads, Shared
  <2>18. i' \in 1..Len(fs) + 1
    BY <2>2, <2>6
  <2>19. JobsInv'
    BY <2>9, <2>13, <2>14, <2>16, <2>17, <2>18 DEF JobsInv
  <2> QED BY <1>1, <2>3, <2>4, <2>19 DEF McpInv, CopyInv
<1> QED BY <1>3, <1>4


-----------------------------------------------------------------------------
(* The threads *)

\* The jobs are shared out, and none is begun.
LEMMA AssignDoneKeeps ==
    ASSUME McpInv, AssignDone
    PROVE  McpInv'
<1>1. /\ Running /\ pc = "assign" /\ i > Len(files) /\ i' = 0 /\ pc' = "spawn"
      /\ tpc' = [t \in Threads |-> "none"] /\ job' = [t \in Threads |-> 1]
      /\ off' = [t \in Threads |-> 0] /\ buf' = [t \in Threads |-> <<>>]
      /\ UNCHANGED <<status, size, thread_num, buf_len, files, jobs, data, mainVars, walkVars>>
  BY DEF AssignDone, mainVars, walkVars, jobVars
<1>2. JobsInv /\ DataInv /\ MainInv
  BY <1>1 DEF McpInv, CopyInv
<1>3. Threads' = Threads /\ Shared = Len(files) /\ Shared' = Len(files)
  <2>1. Len(files) \in Nat
    BY DEF McpInv, BaseInv
  <2>2. i \in 1..Len(files) + 1
    BY <1>1, <1>2 DEF JobsInv
  <2> QED BY <1>1, <2>1, <2>2 DEF Threads, Shared
<1>4. BaseInv' /\ FileInv' /\ WalkInv'
  BY <1>1, FilesStay DEF McpInv, BaseInv
<1>5. DataInv'
  BY <1>1, <1>2 DEF DataInv, Holds
<1>6. JobsInv'
  BY <1>1, <1>2, <1>3, JobsStay
<1>7. MainInv'
  <2>1. thread_num' \in Nat
    BY <1>4 DEF BaseInv
  <2>2. i' \in 0..thread_num'
    BY <1>1, <2>1
  <2> QED BY <1>1, <1>3, <2>2 DEF MainInv, Running
<1>8. ASSUME NEW t \in Threads PROVE ThreadInv(t)'
  <2>1. jobs[t] \in Seq(FileWork) /\ Len(jobs[t]) \in Nat
    BY <1>2 DEF JobsInv
  <2>2. ASSUME NEW m \in 1..Len(jobs[t]) PROVE JobToDo(t, m)'
    <3>1. PICK k \in 1..Len(files) : jobs[t][m] = files[k]
      BY <1>2, <1>3 DEF JobsInv
    <3>2. PICK n : n = files[k].dst
      OBVIOUS
    <3>3. n # None => data[n] = Slice(n, 0, 0)
      BY <1>1, <1>2, <3>2 DEF DataInv, Holds
    <3>4. jobs'[t][m].dst = n
      BY <1>1, <3>1, <3>2
    <3> QED BY <1>1, <3>3, <3>4 DEF JobToDo, Holds
  <2>3. tpc'[t] = "none" /\ job'[t] = 1 /\ off'[t] = 0 /\ jobs'[t] = jobs[t]
    BY <1>1
  <2>4. 1 \in 1..Len(jobs[t]) + 1 /\ \A m \in 1..Len(jobs[t]) : ~(m < 1)
    BY <2>1
  <2> QED BY <2>2, <2>3, <2>4 DEF ThreadInv
<1>9. ThreadsInv'
  BY <1>1, <1>3, <1>8 DEF ThreadsInv
<1> QED BY <1>1, <1>4, <1>5, <1>6, <1>7, <1>9 DEF McpInv, CopyInv

\* What holds once the jobs are shared out.
LEMMA InCopy ==
    ASSUME McpInv, pc \in {"spawn", "join"}
    PROVE  /\ DataInv /\ JobsInv /\ ThreadsInv /\ MainInv /\ BaseInv
           /\ \A u \in Threads : /\ jobs[u] \in Seq(FileWork) /\ Len(jobs[u]) \in Nat
                                 /\ ThreadInv(u)
           /\ \A u \in Threads : \A m \in 1..Len(jobs[u]) :
                 /\ jobs[u][m].dst \in {None, jobs[u][m].src}
                 /\ jobs[u][m].src \in Files /\ size[jobs[u][m].src] \in Nat
<1>1. DataInv /\ JobsInv /\ ThreadsInv /\ MainInv /\ BaseInv /\ FileInv
  BY DEF McpInv, CopyInv
<1>2. ASSUME NEW u \in Threads PROVE jobs[u] \in Seq(FileWork) /\ Len(jobs[u]) \in Nat /\ ThreadInv(u)
  BY <1>1 DEF JobsInv, ThreadsInv
<1>3. ASSUME NEW u \in Threads, NEW m \in 1..Len(jobs[u])
      PROVE  /\ jobs[u][m].dst \in {None, jobs[u][m].src}
             /\ jobs[u][m].src \in Files /\ size[jobs[u][m].src] \in Nat
  <2>1. Shared = Len(files)
    BY DEF Shared
  <2>2. PICK k \in 1..Len(files) : jobs[u][m] = files[k]
    BY <1>1, <2>1 DEF JobsInv
  <2>3. jobs[u][m].dst \in {None, jobs[u][m].src}
    BY <1>1, <2>2 DEF FileInv
  <2>4. jobs[u][m] \in FileWork
    BY <1>2
  <2>5. jobs[u][m].src \in Files
    BY <2>4 DEF FileWork
  <2> QED BY <1>1, <2>3, <2>5 DEF BaseInv
<1> QED BY <1>1, <1>2, <1>3

\* One thread steps; of the destination only the file it copies may change.
LEMMA ThreadStep ==
    ASSUME McpInv, Running, pc \in {"spawn", "join"}, NEW t \in Threads, ThreadOnly,
           status' = status, tpc[t] \notin {"none", "done"},
           tpc' \in [Threads -> {"none", "next", "read", "write", "done"}],
           job' \in [Threads -> Nat], off' \in [Threads -> Nat],
           buf' = [u \in Threads |-> buf'[u]],
           \A u \in Threads : u # t => /\ tpc'[u] = tpc[u] /\ job'[u] = job[u]
                                       /\ off'[u] = off[u] /\ buf'[u] = buf[u],
           data' = data \/ (job[t] \in 1..Len(jobs[t])
                            /\ \A n \in Files : n # Job(t).src => data'[n] = data[n]),
           DataInv', ThreadInv(t)'
    PROVE  McpInv'
<1>1. /\ DataInv /\ JobsInv /\ ThreadsInv /\ MainInv /\ BaseInv
      /\ \A u \in Threads : Len(jobs[u]) \in Nat /\ ThreadInv(u)
      /\ \A u \in Threads : \A m \in 1..Len(jobs[u]) :
            /\ jobs[u][m].dst \in {None, jobs[u][m].src}
            /\ jobs[u][m].src \in Files
  BY InCopy
<1>2. UNCHANGED <<pc, i, size, thread_num, buf_len, files, jobs, mainVars, walkVars, Threads, Shared>>
  BY DEF ThreadOnly, mainVars, walkVars, jobVars, Threads, Shared
<1>3. BaseInv' /\ FileInv' /\ WalkInv'
  BY <1>1, <1>2, FilesStay DEF BaseInv
<1>4. JobsInv'
  BY <1>1, <1>2, JobsStay
<1>5. ASSUME NEW u \in Threads, u # t PROVE ThreadInv(u)'
  <2>1. ASSUME NEW m \in 1..Len(jobs[u]), jobs[u][m].dst # None
        PROVE  data'[jobs[u][m].dst] = data[jobs[u][m].dst]
    <3>1. PICK n : n = jobs[u][m].dst
      OBVIOUS
    <3>2. n = jobs[u][m].src /\ n \in Files
      BY <1>1, <2>1, <3>1
    <3>3. CASE data' = data
      BY <3>3
    <3>4. CASE job[t] \in 1..Len(jobs[t]) /\ \A x \in Files : x # Job(t).src => data'[x] = data[x]
      <4>1. PICK x : x = job[t] /\ x \in 1..Len(jobs[t])
        BY <3>4
      <4>2. \A a, b \in Threads : \A y \in 1..Len(jobs[a]), z \in 1..Len(jobs[b]) :
              jobs[a][y].src = jobs[b][z].src => a = b /\ y = z
        BY <1>1 DEF JobsInv
      <4>3. jobs[t][x].src # jobs[u][m].src
        BY <1>5, <2>1, <4>1, <4>2
      <4>4. Job(t).src # n
        BY <3>2, <3>1, <4>1, <4>3 DEF Job
      <4> QED BY <3>1, <3>2, <3>4, <4>4
    <3> QED BY <3>3, <3>4
  <2>2. ThreadInv(u) /\ Len(jobs[u]) \in Nat
    BY <1>1
  <2>3. UNCHANGED <<jobs, size, buf_len>>
    BY <1>2
  <2>4. tpc'[u] = tpc[u] /\ job'[u] = job[u] /\ off'[u] = off[u] /\ buf'[u] = buf[u]
    BY <1>5
  <2> QED BY <2>1, <2>2, <2>3, <2>4, ThreadStays
<1>6. ThreadsInv'
  <2>1. \A u \in Threads : ThreadInv(u)'
    BY <1>5
  <2> QED BY <1>2, <2>1 DEF ThreadsInv
<1>7. MainInv'
  <2>1. pc' = "spawn" => \A u \in Threads : u >= i' => tpc'[u] = "none"
    BY <1>1, <1>2 DEF MainInv
  <2>2. pc' = "join" => \A u \in Threads : u < i' => tpc'[u] = "done"
    BY <1>1, <1>2 DEF MainInv
  <2>3. i' \in 0..thread_num' /\ status' # "ok"
    BY <1>1, <1>2 DEF MainInv, Running
  <2> QED BY <1>2, <2>1, <2>2, <2>3 DEF MainInv
<1> QED BY <1>2, <1>3, <1>4, <1>6, <1>7 DEF McpInv, CopyInv


\* A thread takes its next job, or returns.
LEMMA NextJobKeeps ==
    ASSUME McpInv, Running, pc \in {"spawn", "join"}, NEW t \in Threads, ThreadOnly, NextJob(t)
    PROVE  McpInv'
<1>1. /\ DataInv /\ ThreadsInv /\ BaseInv /\ ThreadInv(t) /\ Len(jobs[t]) \in Nat
      /\ \A m \in 1..Len(jobs[t]) : /\ jobs[t][m].dst \in {None, jobs[t][m].src}
                                    /\ size[jobs[t][m].src] \in Nat
  BY InCopy
<1>2. /\ UNCHANGED <<status, job, off, buf, data, jobs, size, buf_len, pc, files>>
      /\ tpc[t] = "next"
      /\ tpc' = [tpc EXCEPT ![t] = IF job[t] <= Len(jobs[t]) THEN "read" ELSE "done"]
  BY DEF NextJob, ThreadOnly, mainVars, walkVars, jobVars
<1>3. /\ tpc' \in [Threads -> {"none", "next", "read", "write", "done"}]
      /\ tpc'[t] = IF job[t] <= Len(jobs[t]) THEN "read" ELSE "done"
      /\ \A u \in Threads : u # t => tpc'[u] = tpc[u]
      /\ job' \in [Threads -> Nat] /\ off' \in [Threads -> Nat]
      /\ buf' = [u \in Threads |-> buf'[u]]
  BY <1>1, <1>2 DEF ThreadsInv
<1>4. DataInv'
  BY <1>1, <1>2 DEF DataInv, Holds
<1>5. PICK j, q : j = job[t] /\ q = jobs[t]
  OBVIOUS
<1>6. /\ j \in 1..Len(q) + 1 /\ off[t] = 0 /\ Len(q) \in Nat
      /\ \A m \in 1..Len(q) : /\ m < j => JobDone(t, m)
                              /\ m >= j => JobToDo(t, m)
  BY <1>1, <1>2, <1>5 DEF ThreadInv
<1>7. \A m \in 1..Len(q) : (JobDone(t, m) => JobDone(t, m)') /\ (JobToDo(t, m) => JobToDo(t, m)')
  BY <1>2 DEF JobDone, JobToDo, Holds
<1>8. \A m \in 1..Len(q) : /\ m < j => JobDone(t, m)'
                           /\ m >= j => JobToDo(t, m)'
  BY <1>6, <1>7
<1>9. ASSUME j <= Len(q) PROVE Copying(t)'
  <2>1. j \in 1..Len(q)
    BY <1>6, <1>9
  <2>2. PICK w : w = q[j]
    OBVIOUS
  <2>3. Job(t)' = w /\ w.dst \in {None, w.src} /\ size[w.src] \in Nat
    BY <1>1, <1>2, <1>5, <2>1, <2>2 DEF Job
  <2>4. w.dst # None => data[w.dst] = Slice(w.dst, 0, 0)
    BY <1>5, <1>6, <2>1, <2>2 DEF JobToDo, Holds
  <2>5. tpc'[t] = "read" /\ off'[t] = 0
    BY <1>2, <1>3, <1>5, <1>6, <1>9
  <2> QED BY <1>2, <2>3, <2>4, <2>5 DEF Copying, Holds
<1>10. ThreadInv(t)'
  <2>1. job'[t] = j /\ jobs'[t] = q /\ off'[t] = 0
    BY <1>2, <1>5, <1>6
  <2>2. /\ j <= Len(q) => tpc'[t] = "read"
        /\ ~(j <= Len(q)) => tpc'[t] = "done" /\ j = Len(q) + 1
    BY <1>3, <1>5, <1>6
  <2> QED BY <1>6, <1>8, <1>9, <2>1, <2>2 DEF ThreadInv
<1> QED BY <1>2, <1>3, <1>4, <1>10, ThreadStep

\* A thread reads the next bytes.
LEMMA ReadStepKeeps ==
    ASSUME McpInv, Running, pc \in {"spawn", "join"}, NEW t \in Threads, ThreadOnly, read(t)
    PROVE  McpInv'
<1>1. /\ DataInv /\ ThreadsInv /\ BaseInv /\ ThreadInv(t) /\ Len(jobs[t]) \in Nat
      /\ \A m \in 1..Len(jobs[t]) : /\ jobs[t][m].dst \in {None, jobs[t][m].src}
                                    /\ size[jobs[t][m].src] \in Nat
  BY InCopy
<1>2. /\ UNCHANGED <<status, job, data, jobs, size, buf_len, pc, files>>
      /\ tpc[t] = "read" /\ tpc' = [tpc EXCEPT ![t] = "write"]
  BY DEF read, ThreadOnly, mainVars, walkVars, jobVars
<1>3. PICK ret \in 1..buf_len :
        /\ off[t] + ret <= Len(Content(Job(t).src))
        /\ buf' = [buf EXCEPT ![t] = SubSeq(Content(Job(t).src), off[t] + 1, off[t] + ret)]
        /\ off' = [off EXCEPT ![t] = off[t] + ret]
  BY DEF read
<1>4. PICK j, q, w, n, o, z : /\ j = job[t] /\ q = jobs[t] /\ w = q[j] /\ n = w.src
                              /\ o = off[t] /\ z = size[n]
  OBVIOUS
<1>5. /\ j \in 1..Len(q) /\ Len(q) \in Nat /\ Copying(t)
  BY <1>1, <1>2, <1>4 DEF ThreadInv
<1>6. /\ Job(t) = w /\ Job(t)' = w /\ w.dst \in {None, n} /\ z \in Nat
      /\ w.dst # None => data[w.dst] = Slice(w.dst, 0, o)
      /\ o \in Nat /\ ret \in Nat \ {0}
  <2>1. Job(t) = w /\ Job(t)' = w /\ w.dst \in {None, n} /\ z \in Nat
    BY <1>1, <1>2, <1>4, <1>5 DEF Job
  <2>2. off \in [Threads -> Nat] /\ buf_len \in Nat
    BY <1>1 DEF ThreadsInv, BaseInv
  <2> QED BY <1>2, <1>4, <1>5, <2>1, <2>2 DEF Copying, Holds
<1>7. Content(n) = Slice(n, 0, z) /\ Len(Content(n)) = z
  BY <1>4, <1>6 DEF Content, Slice
<1>8. o + ret <= z /\ SubSeq(Content(n), o + 1, o + ret) = Slice(n, o, ret)
  <2>1. o + ret <= z
    BY <1>3, <1>4, <1>6, <1>7
  <2>2. SubSeq(Slice(n, 0, z), o + 1, o + ret) = Slice(n, o, ret)
    <3>1. o \in Nat /\ ret \in Nat /\ z \in Nat
      BY <1>6
    <3> QED BY <2>1, <3>1, SliceMiddle
  <2> QED BY <1>7, <2>1, <2>2
<1>9. /\ tpc' \in [Threads -> {"none", "next", "read", "write", "done"}] /\ tpc'[t] = "write"
      /\ job' \in [Threads -> Nat]
      /\ \A u \in Threads : u # t => tpc'[u] = tpc[u]
  BY <1>1, <1>2 DEF ThreadsInv
<1>10. /\ off' \in [Threads -> Nat] /\ off'[t] = o + ret
       /\ buf' = [u \in Threads |-> buf'[u]] /\ buf'[t] = Slice(n, o, ret)
       /\ \A u \in Threads : u # t => off'[u] = off[u] /\ buf'[u] = buf[u]
  <2>1. /\ off \in [Threads -> Nat] /\ buf = [u \in Threads |-> buf[u]]
    BY <1>1 DEF ThreadsInv
  <2>2. PICK b : b = Slice(n, o, ret)
    OBVIOUS
  <2>3. buf' = [buf EXCEPT ![t] = b]
    BY <1>3, <1>4, <1>6, <1>8, <2>2
  <2>4. off' = [off EXCEPT ![t] = o + ret] /\ o + ret \in Nat
    BY <1>3, <1>4, <1>6
  <2> QED BY <2>1, <2>2, <2>3, <2>4
<1>11. DataInv'
  BY <1>1, <1>2 DEF DataInv, Holds
<1>12. Copying(t)'
  <2>1. (o + ret) - ret = o /\ ret \in 1..o + ret
    BY <1>6
  <2>2. \E r \in 1..o + ret : /\ buf'[t] = Slice(n, (o + ret) - r, r)
                              /\ w.dst # None => data[w.dst] = Slice(w.dst, 0, (o + ret) - r)
    BY <1>6, <1>10, <2>1
  <2>3. tpc'[t] = "write" /\ off'[t] = o + ret /\ off'[t] <= size'[n] /\ data' = data
    BY <1>2, <1>4, <1>8, <1>9, <1>10
  <2>4. Job(t)' = w /\ w.src = n
    BY <1>4, <1>6
  <2> QED BY <2>2, <2>3, <2>4 DEF Copying, Holds
<1>13. ThreadInv(t)'
  <2>1. job'[t] = j /\ jobs'[t] = q /\ tpc'[t] = "write"
    BY <1>2, <1>4, <1>9
  <2>a. \A m \in 1..Len(q) : /\ m < j => JobDone(t, m)
                             /\ m > j => JobToDo(t, m)
    BY <1>1, <1>4 DEF ThreadInv
  <2>b. \A m \in 1..Len(q) : (JobDone(t, m) => JobDone(t, m)') /\ (JobToDo(t, m) => JobToDo(t, m)')
    BY <1>2 DEF JobDone, JobToDo, Holds
  <2>2. \A m \in 1..Len(q) : /\ m < j => JobDone(t, m)'
                             /\ m > j => JobToDo(t, m)'
    BY <2>a, <2>b
  <2> QED BY <1>5, <1>12, <2>1, <2>2 DEF ThreadInv
<1> QED BY <1>2, <1>9, <1>10, <1>11, <1>13, ThreadStep


\* A thread has copied a file, and closes it.
LEMMA CloseKeeps ==
    ASSUME McpInv, Running, pc \in {"spawn", "join"}, NEW t \in Threads, ThreadOnly, Close(t)
    PROVE  McpInv'
<1>1. /\ DataInv /\ ThreadsInv /\ BaseInv /\ ThreadInv(t) /\ Len(jobs[t]) \in Nat
      /\ \A m \in 1..Len(jobs[t]) : /\ jobs[t][m].dst \in {None, jobs[t][m].src}
                                    /\ size[jobs[t][m].src] \in Nat
  BY InCopy
<1>2. /\ UNCHANGED <<buf, data, jobs, size, buf_len, pc, files>>
      /\ tpc[t] = "read" /\ ReadOver(t)
  BY DEF Close, ThreadOnly, mainVars, walkVars, jobVars
<1>3. CASE Job(t).dst = None
  <2>1. /\ status' = "failed" /\ UNCHANGED threadVars /\ cwd' \in Nodes \cup {None}
        /\ UNCHANGED <<pc, mainVars, stack, files, dirs, links, jobVars, i, data>>
    BY <1>1, <1>3 DEF Close, ThreadOnly, walkVars, threadVars, BaseInv
  <2> QED BY <2>1, StopKeeps
<1>4. CASE Job(t).dst # None
  <2>1. /\ tpc' = [tpc EXCEPT ![t] = "next"] /\ job' = [job EXCEPT ![t] = job[t] + 1]
        /\ off' = [off EXCEPT ![t] = 0] /\ status' = status
    BY <1>4 DEF Close, JobAfter
  <2>2. PICK j, q, w, n, o, z : /\ j = job[t] /\ q = jobs[t] /\ w = q[j] /\ n = w.src
                                /\ o = off[t] /\ z = size[n]
    OBVIOUS
  <2>3. /\ j \in 1..Len(q) /\ Len(q) \in Nat /\ Copying(t)
    BY <1>1, <1>2, <2>2 DEF ThreadInv
  <2>4. Job(t) = w /\ w.dst = n /\ n # None
    BY <1>1, <1>4, <2>2, <2>3 DEF Job
  <2>5. data[n] = Slice(n, 0, o)
    BY <1>2, <2>2, <2>3, <2>4 DEF Copying, Holds
  <2>6. buf_len > 0 => o = z
    BY <1>1, <1>2, <2>2, <2>4 DEF ReadOver, BaseInv
  <2>7. JobDone(t, j)'
    <3>1. jobs'[t][j].dst = n
      BY <1>2, <2>2, <2>4
    <3> QED BY <1>2, <2>2, <2>4, <2>5, <2>6, <3>1 DEF JobDone, Holds
  <2>8. /\ tpc' \in [Threads -> {"none", "next", "read", "write", "done"}] /\ tpc'[t] = "next"
        /\ job' \in [Threads -> Nat] /\ job'[t] = j + 1
        /\ off' \in [Threads -> Nat] /\ off'[t] = 0
        /\ buf' = [u \in Threads |-> buf'[u]]
        /\ \A u \in Threads : u # t => /\ tpc'[u] = tpc[u] /\ job'[u] = job[u]
                                       /\ off'[u] = off[u] /\ buf'[u] = buf[u]
    BY <1>1, <1>2, <2>1, <2>2, <2>3 DEF ThreadsInv
  <2>9. DataInv'
    BY <1>1, <1>2 DEF DataInv, Holds
  <2>10. ThreadInv(t)'
    <3>1. \A m \in 1..Len(q) : /\ m < j => JobDone(t, m)
                               /\ m > j => JobToDo(t, m)
      BY <1>1, <2>2 DEF ThreadInv
    <3>2. \A m \in 1..Len(q) : (JobDone(t, m) => JobDone(t, m)') /\ (JobToDo(t, m) => JobToDo(t, m)')
      BY <1>2 DEF JobDone, JobToDo, Holds
    <3>3. \A m \in 1..Len(q) : /\ m < j + 1 => m = j \/ m < j
                               /\ m >= j + 1 => m > j
      BY <2>3
    <3>4. \A m \in 1..Len(q) : /\ m < j + 1 => JobDone(t, m)'
                               /\ m > j + 1 => JobToDo(t, m)'
                               /\ m = j + 1 => JobToDo(t, m)'
      BY <2>3, <2>7, <3>1, <3>2, <3>3
    <3>5. jobs'[t] = q /\ j + 1 \in 1..Len(q) + 1
      BY <1>2, <2>2, <2>3
    <3> QED BY <2>8, <3>4, <3>5 DEF ThreadInv
  <2> QED BY <1>2, <2>1, <2>8, <2>9, <2>10, ThreadStep
<1> QED BY <1>3, <1>4

\* A write of writen: the bytes go behind those that are there.
LEMMA WritenKeeps ==
    ASSUME McpInv, Running, pc \in {"spawn", "join"}, NEW t \in Threads, ThreadOnly, writen(t)
    PROVE  McpInv'
<1>1. /\ DataInv /\ ThreadsInv /\ BaseInv /\ ThreadInv(t) /\ Len(jobs[t]) \in Nat
      /\ \A m \in 1..Len(jobs[t]) : /\ jobs[t][m].dst \in {None, jobs[t][m].src}
                                    /\ jobs[t][m].src \in Files /\ size[jobs[t][m].src] \in Nat
      /\ \A u, v \in Threads : \A m \in 1..Len(jobs[u]), x \in 1..Len(jobs[v]) :
            jobs[u][m].src = jobs[v][x].src => u = v /\ m = x
  BY InCopy DEF JobsInv
<1>2. /\ UNCHANGED <<job, off, jobs, size, buf_len, pc, files>>
      /\ tpc[t] = "write"
  BY DEF writen, ThreadOnly, mainVars, walkVars, jobVars
<1>3. CASE Job(t).dst = None
  <2>1. /\ status' = "failed" /\ UNCHANGED threadVars /\ cwd' \in Nodes \cup {None}
        /\ UNCHANGED <<pc, mainVars, stack, files, dirs, links, jobVars, i, data>>
    BY <1>1, <1>3 DEF writen, ThreadOnly, walkVars, threadVars, BaseInv
  <2> QED BY <2>1, StopKeeps
<1>4. CASE Job(t).dst # None
  <2>1. PICK ret \in 1..Len(buf[t]) :
          /\ data' = [data EXCEPT ![Job(t).dst] = data[Job(t).dst] \o SubSeq(buf[t], 1, ret)]
          /\ buf' = [buf EXCEPT ![t] = SubSeq(buf[t], ret + 1, Len(buf[t]))]
          /\ tpc' = [tpc EXCEPT ![t] = IF ret = Len(buf[t]) THEN "read" ELSE "write"]
          /\ status' = status
    BY <1>4 DEF writen, Written
  <2>2. PICK j, q, w, n, o, z : /\ j = job[t] /\ q = jobs[t] /\ w = q[j] /\ n = w.src
                                /\ o = off[t] /\ z = size[n]
    OBVIOUS
  <2>3. /\ j \in 1..Len(q) /\ Len(q) \in Nat /\ Copying(t)
    BY <1>1, <1>2, <2>2 DEF ThreadInv
  <2>4. /\ Job(t) = w /\ Job(t)' = w /\ w.dst = n /\ n # None /\ n \in Files /\ z \in Nat
        /\ o \in Nat /\ o <= z
    <3>1. Job(t) = w /\ Job(t)' = w /\ w.dst = n /\ n # None /\ n \in Files /\ z \in Nat
      BY <1>1, <1>2, <1>4, <2>2, <2>3 DEF Job
    <3>2. off \in [Threads -> Nat]
      BY <1>1 DEF ThreadsInv
    <3> QED BY <2>2, <2>3, <3>1, <3>2 DEF Copying
  <2>5. PICK r \in 1..o : buf[t] = Slice(n, o - r, r) /\ data[n] = Slice(n, 0, o - r)
    BY <1>2, <2>2, <2>3, <2>4 DEF Copying, Holds
  <2>6. PICK p : p = o - r
    OBVIOUS
  <2>7. p \in Nat /\ r \in Nat /\ o = p + r /\ buf[t] = Slice(n, p, r) /\ data[n] = Slice(n, 0, p)
    BY <2>4, <2>5, <2>6
  <2>8. Len(buf[t]) = r /\ ret \in 1..r /\ ret \in Nat
    <3>1. Len(Slice(n, p, r)) = r
      BY <2>7, SliceLen
    <3> QED BY <2>1, <2>7, <3>1
  <2>9. /\ SubSeq(buf[t], 1, ret) = Slice(n, p, ret)
        /\ SubSeq(buf[t], ret + 1, Len(buf[t])) = Slice(n, p + ret, r - ret)
    <3>1. p \in Nat /\ ret \in Nat /\ r \in Nat /\ ret <= r
      BY <2>7, <2>8
    <3>2. SubSeq(Slice(n, p, r), 1, ret) = Slice(n, p, ret)
      BY <3>1, SliceFront
    <3>3. SubSeq(Slice(n, p, r), ret + 1, r) = Slice(n, p + ret, r - ret)
      BY <3>1, SliceBack
    <3> QED BY <2>7, <2>8, <3>2, <3>3
  <2>10. PICK c : c = Slice(n, 0, p + ret)
    OBVIOUS
  <2>11. data[n] \o SubSeq(buf[t], 1, ret) = c
    <3>1. p \in Nat /\ ret \in Nat
      BY <2>7, <2>8
    <3>2. Slice(n, 0, p) \o Slice(n, p, ret) = Slice(n, 0, p + ret)
      BY <3>1, SliceJoin
    <3> QED BY <2>7, <2>9, <2>10, <3>2
  <2>12. /\ data' = [x \in Files |-> data'[x]] /\ data'[n] = c
         /\ \A x \in Files : x # n => data'[x] = data[x]
    <3>1. data' = [data EXCEPT ![n] = c]
      BY <2>1, <2>4, <2>11
    <3>2. data = [x \in Files |-> data[x]]
      BY <1>1 DEF DataInv
    <3> QED BY <2>4, <3>1, <3>2
  <2>13. p + ret \in 0..z
    BY <2>4, <2>7, <2>8
  <2>14. DataInv'
    <3>0. DataInv
      BY <1>1
    <3>a. \A x \in Files : data[x] = None \/ \E l \in 0..size[x] : data[x] = Slice(x, 0, l)
      BY <3>0 DEF DataInv, Holds
    <3>1. \A k \in 1..Len(files) : files[k].dst # None =>
              \E l \in 0..size[files[k].dst] : data[files[k].dst] = Slice(files[k].dst, 0, l)
      BY <3>0 DEF DataInv, Holds
    <3>2. \E l \in 0..size'[n] : data'[n] = Slice(n, 0, l)
      BY <1>2, <2>2, <2>10, <2>12, <2>13
    <3>3. \A x \in Files : data'[x] = None \/ \E l \in 0..size'[x] : data'[x] = Slice(x, 0, l)
      <4> SUFFICES ASSUME NEW x \in Files
                   PROVE  data'[x] = None \/ \E l \in 0..size'[x] : data'[x] = Slice(x, 0, l)
        OBVIOUS
      <4>1. CASE x = n
        BY <3>2, <4>1
      <4>2. CASE x # n
        BY <1>2, <2>12, <3>a, <4>2
      <4> QED BY <4>1, <4>2
    <3>4. ASSUME NEW k \in 1..Len(files'), files'[k].dst # None
          PROVE  \E l \in 0..size'[files'[k].dst] : data'[files'[k].dst] = Slice(files'[k].dst, 0, l)
      <4>1. PICK x : x = files[k].dst
        OBVIOUS
      <4>2. x = files'[k].dst /\ x # None /\ \E l \in 0..size[x] : data[x] = Slice(x, 0, l)
        BY <1>2, <3>1, <3>4, <4>1
      <4>3. x \in Files
        <5>1. files \in Seq(FileWork) /\ k \in 1..Len(files)
          BY <1>1, <1>2 DEF BaseInv
        <5>2. files[k] \in FileWork
          BY <5>1
        <5> QED BY <4>1, <4>2, <5>2 DEF FileWork
      <4>4. \E l \in 0..size'[x] : data'[x] = Slice(x, 0, l)
        BY <1>2, <2>12, <3>2, <4>2, <4>3
      <4> QED BY <4>2, <4>4
    <3> QED BY <1>2, <2>12, <3>3, <3>4 DEF DataInv, Holds
  <2>15. /\ tpc' \in [Threads -> {"none", "next", "read", "write", "done"}]
         /\ tpc'[t] = IF ret = r THEN "read" ELSE "write"
         /\ job' \in [Threads -> Nat] /\ off' \in [Threads -> Nat]
         /\ \A u \in Threads : u # t => tpc'[u] = tpc[u] /\ job'[u] = job[u] /\ off'[u] = off[u]
    BY <1>1, <1>2, <2>1, <2>8 DEF ThreadsInv
  <2>16. /\ buf' = [u \in Threads |-> buf'[u]] /\ buf'[t] = Slice(n, p + ret, r - ret)
         /\ \A u \in Threads : u # t => buf'[u] = buf[u]
    <3>1. buf = [u \in Threads |-> buf[u]]
      BY <1>1 DEF ThreadsInv
    <3>2. PICK b : b = Slice(n, p + ret, r - ret)
      OBVIOUS
    <3>3. buf' = [buf EXCEPT ![t] = b]
      BY <2>1, <2>9, <3>2
    <3> QED BY <3>1, <3>2, <3>3
  <2>17. Copying(t)'
    <3>1. ASSUME ret = r PROVE data'[n] = Slice(n, 0, o)
      BY <2>7, <2>10, <2>12, <3>1
    <3>2. ASSUME ret # r
          PROVE  \E s \in 1..o : buf'[t] = Slice(n, o - s, s) /\ data'[n] = Slice(n, 0, o - s)
      <4>1. r - ret \in 1..o /\ o - (r - ret) = p + ret
        BY <2>7, <2>8, <3>2
      <4> QED BY <2>10, <2>12, <2>16, <4>1
    <3>3. off'[t] = o /\ size'[n] = z
      BY <1>2, <2>2
    <3>4. CASE ret = r
      <4>1. tpc'[t] = "read"
        BY <2>15, <3>4
      <4> QED BY <2>2, <2>4, <3>1, <3>3, <3>4, <4>1 DEF Copying, Holds
    <3>5. CASE ret # r
      <4>1. tpc'[t] = "write"
        BY <2>15, <3>5
      <4> QED BY <2>2, <2>4, <3>2, <3>3, <3>5, <4>1 DEF Copying, Holds
    <3> QED BY <3>4, <3>5
  <2>18. ThreadInv(t)'
    <3>1. \A m \in 1..Len(q) : /\ m < j => JobDone(t, m)
                               /\ m > j => JobToDo(t, m)
      BY <1>1, <2>2 DEF ThreadInv
    <3>2. ASSUME NEW m \in 1..Len(q), m # j
          PROVE  (JobDone(t, m) => JobDone(t, m)') /\ (JobToDo(t, m) => JobToDo(t, m)')
      <4>1. PICK x : x = q[m].dst
        OBVIOUS
      <4>2. jobs[t][m].dst = x /\ jobs'[t][m].dst = x
        BY <1>2, <2>2, <4>1
      <4>3. x # None => x = q[m].src /\ x \in Files
        BY <1>1, <2>2, <4>1
      <4>4. q[m].src # n
        <5>1. \A x1, x2 \in 1..Len(q) : q[x1].src = q[x2].src => x1 = x2
          BY <1>1, <2>2
        <5> QED BY <2>2, <2>3, <3>2, <5>1
      <4>5. x # None => data'[x] = data[x]
        BY <2>12, <4>3, <4>4
      <4> QED BY <1>2, <4>2, <4>5 DEF JobDone, JobToDo, Holds
    <3>3. \A m \in 1..Len(q) : /\ m < j => JobDone(t, m)'
                               /\ m > j => JobToDo(t, m)'
      BY <2>3, <3>1, <3>2
    <3>4. jobs'[t] = q /\ job'[t] = j /\ tpc'[t] \in {"read", "write"}
      BY <1>2, <2>2, <2>15
    <3> QED BY <2>3, <2>17, <3>3, <3>4 DEF ThreadInv
  <2>19. job[t] \in 1..Len(jobs[t]) /\ \A x \in Files : x # Job(t).src => data'[x] = data[x]
    BY <2>2, <2>3, <2>4, <2>12
  <2> QED BY <1>2, <2>1, <2>14, <2>15, <2>16, <2>18, <2>19, ThreadStep
<1> QED BY <1>3, <1>4


\* main starts the threads one after the other.
LEMMA SpawnKeeps ==
    ASSUME McpInv, Spawn
    PROVE  McpInv'
<1>1. /\ Running /\ pc = "spawn" /\ pc' \in {"spawn", "join"}
      /\ UNCHANGED <<status, size, thread_num, buf_len, files, jobs, job, off, buf, data,
                     mainVars, walkVars, Threads>>
  BY DEF Spawn, mainVars, walkVars, jobVars, Threads
<1>2. /\ DataInv /\ JobsInv /\ ThreadsInv /\ MainInv /\ BaseInv
      /\ \A u \in Threads : Len(jobs[u]) \in Nat /\ ThreadInv(u)
  BY <1>1, InCopy
<1>3. BaseInv' /\ FileInv' /\ WalkInv'
  BY <1>1, <1>2, FilesStay DEF BaseInv
<1>4. DataInv'
  BY <1>1, <1>2 DEF DataInv, Holds
<1>5. JobsInv'
  <2>1. UNCHANGED Shared
    BY <1>1 DEF Shared
  <2> QED BY <1>1, <1>2, <2>1, JobsStay
<1>6. i \in 0..thread_num /\ thread_num \in Nat /\ \A u \in Threads : u >= i => tpc[u] = "none"
  BY <1>1, <1>2 DEF MainInv, BaseInv
<1>7. \A u \in Threads : tpc'[u] = tpc[u] => ThreadInv(u)'
  BY <1>1, <1>2, ThreadStays
<1>8. CASE i < thread_num
  <2>1. tpc' = [tpc EXCEPT ![i] = "next"] /\ i' = i + 1 /\ pc' = "spawn"
    BY <1>1, <1>8 DEF Spawn
  <2>2. i \in Threads /\ tpc[i] = "none" /\ tpc \in [Threads -> {"none", "next", "read", "write", "done"}]
    BY <1>2, <1>6, <1>8 DEF Threads, ThreadsInv
  <2>3. /\ tpc' \in [Threads -> {"none", "next", "read", "write", "done"}]
        /\ tpc'[i] = "next" /\ \A u \in Threads : u # i => tpc'[u] = tpc[u]
    BY <2>1, <2>2
  <2>4. PICK t \in Threads : t = i
    BY <2>2
  <2>5. ThreadInv(t)'
    <3>1. PICK j, q : j = job[t] /\ q = jobs[t]
      OBVIOUS
    <3>2. /\ j \in 1..Len(q) + 1 /\ off[t] = 0 /\ Len(q) \in Nat
          /\ \A m \in 1..Len(q) : /\ m < j => JobDone(t, m)
                                  /\ m >= j => JobToDo(t, m)
      BY <1>2, <2>2, <2>4, <3>1 DEF ThreadInv
    <3>3. \A m \in 1..Len(q) : (JobDone(t, m) => JobDone(t, m)') /\ (JobToDo(t, m) => JobToDo(t, m)')
      BY <1>1 DEF JobDone, JobToDo, Holds
    <3>4. \A m \in 1..Len(q) : /\ m < j => JobDone(t, m)'
                               /\ m >= j => JobToDo(t, m)'
      BY <3>2, <3>3
    <3>5. job'[t] = j /\ jobs'[t] = q /\ off'[t] = 0 /\ tpc'[t] = "next"
      BY <1>1, <2>3, <2>4, <3>1, <3>2
    <3> QED BY <3>2, <3>4, <3>5 DEF ThreadInv
  <2>6. \A u \in Threads : ThreadInv(u)'
    BY <1>7, <2>3, <2>4, <2>5
  <2>7. ThreadsInv'
    BY <1>1, <1>2, <2>3, <2>6 DEF ThreadsInv
  <2>8. MainInv'
    <3>1. \A u \in Threads : u >= i + 1 => u # i /\ u >= i
      BY <1>6 DEF Threads
    <3>2. \A u \in Threads : u >= i + 1 => tpc'[u] = "none"
      BY <1>6, <2>3, <3>1
    <3>3. i + 1 \in 0..thread_num
      BY <1>6, <1>8
    <3> QED BY <1>1, <2>1, <3>2, <3>3 DEF MainInv, Running
  <2> QED BY <1>1, <1>3, <1>4, <1>5, <2>7, <2>8 DEF McpInv, CopyInv
<1>9. CASE ~(i < thread_num)
  <2>1. i' = 0 /\ pc' = "join" /\ tpc' = tpc
    BY <1>9 DEF Spawn
  <2>2. ThreadsInv'
    BY <1>1, <1>2, <1>7, <2>1 DEF ThreadsInv
  <2>3. MainInv'
    <3>1. \A u \in Threads : ~(u < 0)
      BY DEF Threads
    <3>2. 0 \in 0..thread_num
      BY <1>6
    <3> QED BY <1>1, <2>1, <3>1, <3>2 DEF MainInv, Running
  <2> QED BY <1>1, <1>3, <1>4, <1>5, <2>2, <2>3 DEF McpInv, CopyInv
<1> QED BY <1>8, <1>9

\* main waits for the threads one after the other, and returns.
LEMMA JoinKeeps ==
    ASSUME McpInv, Join
    PROVE  McpInv'
<1>1. /\ Running /\ pc = "join" /\ pc' = "join"
      /\ UNCHANGED <<size, thread_num, buf_len, files, jobs, tpc, job, off, buf, data,
                     mainVars, walkVars, Threads>>
  BY DEF Join, mainVars, walkVars, jobVars, threadVars, Threads
<1>2. /\ DataInv /\ JobsInv /\ ThreadsInv /\ MainInv /\ BaseInv
      /\ \A u \in Threads : Len(jobs[u]) \in Nat /\ ThreadInv(u)
  BY <1>1, InCopy
<1>3. /\ \/ i < thread_num /\ tpc[i] = "done" /\ i' = i + 1 /\ status' = status
         \/ ~(i < thread_num) /\ i' = i /\ status' = "ok"
  BY DEF Join, Returned
<1>4. BaseInv' /\ FileInv' /\ WalkInv'
  BY <1>1, <1>2, <1>3, FilesStay DEF BaseInv
<1>5. DataInv'
  BY <1>1, <1>2 DEF DataInv, Holds
<1>6. JobsInv'
  <2>1. UNCHANGED Shared
    BY <1>1 DEF Shared
  <2> QED BY <1>1, <1>2, <2>1, JobsStay
<1>7. ThreadsInv'
  <2>1. \A u \in Threads : ThreadInv(u)'
    BY <1>1, <1>2, ThreadStays
  <2> QED BY <1>1, <1>2, <2>1 DEF ThreadsInv
<1>8. MainInv'
  <2>1. i \in 0..thread_num /\ thread_num \in Nat /\ \A u \in Threads : u < i => tpc[u] = "done"
    BY <1>1, <1>2 DEF MainInv, BaseInv
  <2>2. CASE i < thread_num /\ tpc[i] = "done" /\ i' = i + 1 /\ status' = status
    <3>1. \A u \in Threads : u < i + 1 => u = i \/ u < i
      BY <2>1 DEF Threads
    <3>2. \A u \in Threads : u < i + 1 => tpc[u] = "done"
      BY <2>1, <2>2, <3>1
    <3>3. i + 1 \in 0..thread_num
      BY <2>1, <2>2
    <3> QED BY <1>1, <2>2, <3>2, <3>3 DEF MainInv, Running
  <2>3. CASE ~(i < thread_num) /\ i' = i /\ status' = "ok"
    <3>1. i = thread_num
      BY <2>1, <2>3
    <3> QED BY <1>1, <2>1, <2>3, <3>1 DEF MainInv
  <2> QED BY <1>3, <2>2, <2>3
<1> QED BY <1>1, <1>4, <1>5, <1>6, <1>7, <1>8 DEF McpInv, CopyInv

-----------------------------------------------------------------------------
(* The theorems *)

\* Every step keeps the invariant.
LEMMA McpStep == McpInv /\ [Next]_vars => McpInv'
<1> SUFFICES ASSUME McpInv, [Next]_vars PROVE McpInv'
  OBVIOUS
<1>a. cwd \in Nodes \cup {None}
  BY DEF McpInv, BaseInv
<1>1. CASE cp_dir
  <2>1. Running /\ pc = "walk" /\ UNCHANGED <<pc, mainVars, jobVars, i, threadVars>>
    BY <1>1 DEF cp_dir
  <2>2. PICK e \in top.left : \/ handle_regular_file(e) \/ handle_symbolic_link(e)
                              \/ EnterDirectory(e) \/ IgnoreOther(e)
    BY <1>1 DEF cp_dir
  <2>3. CASE handle_regular_file(e)
    BY <2>1, <2>3, RegularKeeps
  <2>4. CASE handle_symbolic_link(e) \/ IgnoreOther(e)
    BY <2>1, <2>4, LinkKeeps
  <2>5. CASE EnterDirectory(e)
    BY <2>1, <2>5, EnterKeeps
  <2> QED BY <2>2, <2>3, <2>4, <2>5
<1>2. CASE OpenRoots
  BY <1>2, OpenRootsKeeps
<1>3. CASE LeaveDirectory
  BY <1>3, LeaveKeeps
<1>4. CASE WalkDone
  BY <1>4, WalkDoneKeeps
<1>5. CASE AssignWork
  BY <1>5, AssignKeeps
<1>6. CASE AssignDone
  BY <1>6, AssignDoneKeeps
<1>7. CASE Spawn
  BY <1>7, SpawnKeeps
<1>8. CASE Join
  BY <1>8, JoinKeeps
<1>9. CASE MainFails
  <2>1. /\ status' = "failed" /\ cwd' \in Nodes \cup {None}
        /\ UNCHANGED <<pc, mainVars, stack, files, dirs, links, jobVars, i, threadVars, data>>
    BY <1>9, <1>a DEF MainFails, walkVars
  <2> QED BY <2>1, StopKeeps
<1>10. ASSUME NEW t \in Threads, cp_func(t) PROVE McpInv'
  <2>1. Running /\ pc \in {"spawn", "join"} /\ ThreadOnly
    BY <1>10 DEF cp_func
  <2>2. CASE NextJob(t)
    BY <2>1, <2>2, NextJobKeeps
  <2>3. CASE read(t)
    BY <2>1, <2>3, ReadStepKeeps
  <2>4. CASE writen(t)
    BY <2>1, <2>4, WritenKeeps
  <2>5. CASE Close(t)
    BY <2>1, <2>5, CloseKeeps
  <2> QED BY <1>10, <2>2, <2>3, <2>4, <2>5 DEF cp_func
<1>11. ASSUME NEW t \in Threads, ThreadFails(t) PROVE McpInv'
  <2>1. /\ status' = "failed" /\ cwd' \in Nodes \cup {None}
        /\ UNCHANGED <<pc, mainVars, stack, files, dirs, links, jobVars, i, threadVars, data>>
    BY <1>11, <1>a DEF ThreadFails, ThreadOnly, walkVars
  <2> QED BY <2>1, StopKeeps
<1>12. CASE Ended \/ UNCHANGED vars
  BY <1>12, StutterKeeps DEF Ended
<1> QED BY <1>1, <1>2, <1>3, <1>4, <1>5, <1>6, <1>7, <1>8, <1>9, <1>10, <1>11, <1>12
        DEF Next, Main

\* The invariant holds at any time.
LEMMA McpAlways == Spec => []McpInv
  BY McpInit, McpStep, PTL DEF Spec

\* A file of the destination is a beginning of its source, whatever the threads
\* have read and written so far and whichever call has failed or was short.
THEOREM CopyIsPrefix == Spec => []DestinationIsPrefix
<1>1. McpInv => DestinationIsPrefix
  <2> SUFFICES ASSUME McpInv PROVE DestinationIsPrefix
    OBVIOUS
  <2>1. BaseInv /\ DataInv /\ (pc \in {"spawn", "join"} => ThreadsInv)
    BY DEF McpInv, CopyInv
  <2>2. ASSUME pc \in {"spawn", "join"}
        PROVE  /\ tpc \in [Threads -> {"none", "next", "read", "write", "done"}]
               /\ \A t \in Threads : job[t] \in 1..Len(jobs[t]) + 1 /\ off[t] \in Nat
    BY <2>1, <2>2 DEF ThreadsInv, ThreadInv
  <2>3. TypeOK
    BY <2>1, <2>2 DEF BaseInv, TypeOK, FileWork
  <2>4. ASSUME NEW n \in Files, data[n] # None
        PROVE  IsPrefix(data[n], Content(n))
    <3>1. PICK l \in 0..size[n] : data[n] = Slice(n, 0, l)
      BY <2>1, <2>4 DEF DataInv, Holds
    <3>2. size[n] \in Nat
      BY <2>1 DEF BaseInv
    <3>3. IsPrefix(Slice(n, 0, l), Content(n))
      BY <3>2 DEF IsPrefix, Slice, Content
    <3> QED BY <3>1, <3>3
  <2> QED BY <2>3, <2>4 DEF DestinationIsPrefix
<1> QED BY <1>1, McpAlways, PTL

\* Exit status 0 means that the whole tree has been copied.
THEOREM SuccessIsComplete == Spec => []SuccessMeansCopied
<1>1. McpInv => SuccessMeansCopied
  <2> SUFFICES ASSUME McpInv, status = "ok", buf_len > 0
               PROVE  /\ \A n \in Files : data[n] = Content(n)
                      /\ \A n \in Nodes : Kind[n] = "dir" => n \in dirs
                      /\ \A n \in Links : links[n] # "missing"
    BY DEF SuccessMeansCopied
  <2>1. pc = "join" /\ i = thread_num /\ thread_num \in Nat
    BY DEF McpInv, CopyInv, MainInv, BaseInv
  <2>2. \A n \in Nodes : Seen(n)
    BY <2>1 DEF McpInv, WalkInv
  <2>3. \A t \in Threads : tpc[t] = "done"
    BY <2>1 DEF McpInv, CopyInv, MainInv, Threads
  <2>4. /\ JobsInv /\ BaseInv
        /\ \A u \in Threads : Len(jobs[u]) \in Nat /\ ThreadInv(u)
        /\ \A u \in Threads : \A m \in 1..Len(jobs[u]) :
              jobs[u][m].dst \in {None, jobs[u][m].src}
    BY <2>1, InCopy
  <2>5. ASSUME NEW n \in Files PROVE data[n] = Content(n)
    <3>1. PICK k \in 1..Len(files) : files[k].src = n
      BY <2>2, Kinds DEF Seen
    <3>2. PICK t \in Threads : \E m \in 1..Len(jobs[t]) : jobs[t][m] = files[k]
      <4>1. Shared = Len(files)
        BY <2>1 DEF Shared
      <4> QED BY <2>4, <4>1 DEF JobsInv
    <3>3. PICK m \in 1..Len(jobs[t]) : jobs[t][m] = files[k]
      BY <3>2
    <3>4. JobDone(t, m)
      <4>1. job[t] = Len(jobs[t]) + 1 /\ m < job[t]
        BY <2>3, <2>4 DEF ThreadInv
      <4> QED BY <2>4, <4>1 DEF ThreadInv
    <3>5. jobs[t][m].dst = n
      BY <2>4, <3>1, <3>3, <3>4 DEF JobDone
    <3>6. data[n] = Slice(n, 0, size[n])
      BY <3>4, <3>5 DEF JobDone, Holds
    <3>7. size[n] \in Nat
      BY <2>4 DEF BaseInv
    <3> QED BY <3>6, <3>7 DEF Slice, Content
  <2>6. \A n \in Links : links[n] # "missing"
    BY <2>2, Kinds DEF Seen
  <2> QED BY <2>2, <2>5, <2>6 DEF Seen
<1> QED BY <1>1, McpAlways, PTL
-----------------------------------------------------------------------------
(* The balance of the load: Graham's bound for "largest first" *)

\* What thread t of the assignment c gets of the first n files.
Share(s, c, t, n) == SumOf(s, Given(c, t, n))

\* The thread that gets file k had the least load.
Greedy(s, c, n, m) ==
    \A k \in 1..n : \A u \in 0..m - 1 :
        Share(s, c, c[k], k - 1) <= Share(s, c, u, k - 1)

Descending(s, n) == \A j, k \in 1..n : j < k => s[j] >= s[k]

\* Sizes in descending order, m threads and an assignment.
Work(s, c, n, m) ==
    /\ n \in Nat /\ m \in Nat \ {0}
    /\ s \in [1..n -> Nat] /\ c \in [1..n -> 0..m - 1]

\* Shares are naturals, and no part of one is more.
LEMMA ShareType ==
    ASSUME NEW s, NEW c, NEW n, NEW m, Work(s, c, n, m), NEW t, NEW k \in 0..n
    PROVE  /\ IsFiniteSet(Given(c, t, k)) /\ Given(c, t, k) \subseteq 1..n
           /\ Share(s, c, t, k) \in Nat
           /\ \A G \in SUBSET Given(c, t, k) :
                 /\ IsFiniteSet(G) /\ SumOf(s, G) \in Nat
                 /\ SumOf(s, G) <= Share(s, c, t, k)
<1>1. n \in Nat /\ k \in Nat /\ \A x \in 1..n : s[x] \in Nat
  BY DEF Work
<1>2. PICK S : S = Given(c, t, k)
  OBVIOUS
<1>3. S \subseteq 1..n
  BY <1>1, <1>2 DEF Given
<1>4. IsFiniteSet(S)
  <2>1. 1 \in Int /\ n \in Int
    BY <1>1
  <2>2. IsFiniteSet(1..n)
    BY <2>1, FS_Interval
  <2> QED BY <1>3, <2>2, FS_Subset
<1>5. \A x \in S : s[x] \in Nat
  BY <1>1, <1>3
<1>6. ASSUME NEW G \in SUBSET S
      PROVE  IsFiniteSet(G) /\ SumOf(s, G) \in Nat /\ SumOf(s, G) <= SumOf(s, S)
  BY <1>4, <1>5, FS_Subset, SumPart
<1>7. SumOf(s, S) \in Nat
  BY <1>4, <1>5, SumType
<1> QED BY <1>2, <1>3, <1>4, <1>6, <1>7 DEF Share

\* Sums over sets of one element and of several.
LEMMA SumFew ==
    ASSUME NEW f, NEW S, IsFiniteSet(S), \A x \in S : f[x] \in Nat
    PROVE  /\ S = {} => SumOf(f, S) = 0
           /\ \A x : S = {x} => SumOf(f, S) = f[x]
           /\ \A x, y \in S : x # y =>
                 /\ SumOf(f, S) >= f[x] + f[y]
                 /\ S = {x, y} => SumOf(f, S) = f[x] + f[y]
           /\ \A x, y, z \in S : x # y /\ x # z /\ y # z =>
                 SumOf(f, S) >= f[x] + f[y] + f[z]
<1>1. ASSUME NEW U \in SUBSET S
      PROVE  /\ SumOf(f, U) \in Nat
             /\ \A x \in U : SumOf(f, U) = f[x] + SumOf(f, U \ {x})
             /\ U = {} => SumOf(f, U) = 0
  <2>1. IsFiniteSet(U) /\ \A x \in U : f[x] \in Nat
    BY FS_Subset
  <2>2. SumOf(f, U) \in Nat
    BY <2>1, SumType
  <2>3. \A x \in U : SumOf(f, U) = f[x] + SumOf(f, U \ {x})
    BY <2>1, SumAny
  <2>4. U = {} => SumOf(f, U) = 0
    BY <2>1, SumFirst
  <2> QED BY <2>2, <2>3, <2>4
<1>2. ASSUME NEW x, S = {x} PROVE SumOf(f, S) = f[x]
  <2>1. SumOf(f, S) = f[x] + SumOf(f, S \ {x}) /\ S \ {x} \in SUBSET S /\ x \in S
    BY <1>1, <1>2
  <2>2. SumOf(f, S \ {x}) = 0
    BY <1>1, <1>2, <2>1
  <2> QED BY <2>1, <2>2
<1>3. ASSUME NEW x \in S, NEW y \in S, x # y
      PROVE  SumOf(f, S) = f[x] + f[y] + SumOf(f, (S \ {x}) \ {y})
  <2>1. SumOf(f, S) = f[x] + SumOf(f, S \ {x})
    BY <1>1
  <2>2. SumOf(f, S \ {x}) = f[y] + SumOf(f, (S \ {x}) \ {y})
    <3>1. S \ {x} \in SUBSET S /\ y \in S \ {x}
      BY <1>3
    <3> QED BY <1>1, <3>1
  <2>3. SumOf(f, (S \ {x}) \ {y}) \in Nat
    BY <1>1
  <2> QED BY <2>1, <2>2, <2>3
<1>4. ASSUME NEW x \in S, NEW y \in S, x # y
      PROVE  /\ SumOf(f, S) >= f[x] + f[y]
             /\ S = {x, y} => SumOf(f, S) = f[x] + f[y]
  <2>1. PICK U : U = (S \ {x}) \ {y}
    OBVIOUS
  <2>2. SumOf(f, S) = f[x] + f[y] + SumOf(f, U) /\ SumOf(f, U) \in Nat
    BY <1>1, <1>3, <1>4, <2>1
  <2>3. S = {x, y} => SumOf(f, U) = 0
    BY <1>1, <2>1
  <2> QED BY <2>2, <2>3
<1>5. ASSUME NEW x \in S, NEW y \in S, NEW z \in S, x # y, x # z, y # z
      PROVE  SumOf(f, S) >= f[x] + f[y] + f[z]
  <2>1. PICK U : U = (S \ {x}) \ {y}
    OBVIOUS
  <2>2. SumOf(f, S) = f[x] + f[y] + SumOf(f, U)
    BY <1>3, <1>5, <2>1
  <2>3. U \in SUBSET S /\ z \in U /\ U \ {z} \in SUBSET S
    BY <1>5, <2>1
  <2>4. SumOf(f, U) = f[z] + SumOf(f, U \ {z}) /\ SumOf(f, U \ {z}) \in Nat
    BY <1>1, <2>3
  <2> QED BY <2>2, <2>4
<1>6. S = {} => SumOf(f, S) = 0
  BY <1>1
<1> QED BY <1>2, <1>4, <1>5, <1>6

\* If the last file k a thread t has got is more than a third of what the most
\* loaded thread of any assignment a gets, t has no more than that.  Otherwise
\* give weight 2 to the files that do not fit on top of file k and 1 to the
\* others: in a the threads have weight 2 at most, in the greedy assignment 2 at
\* least even without file k.
LEMMA LargeLast ==
    ASSUME NEW s, NEW c, NEW a, NEW n, NEW m, Work(s, c, n, m), Work(s, a, n, m),
           Descending(s, n), Greedy(s, c, n, m),
           NEW k \in 1..n, NEW best \in Nat,
           \A u \in 0..m - 1 : Share(s, a, u, k) <= best,
           3 * s[k] > best
    PROVE  Share(s, c, c[k], k - 1) + s[k] <= best
<1>1. /\ n \in Nat /\ m \in Nat \ {0} /\ s \in [1..n -> Nat]
      /\ c \in [1..n -> 0..m - 1] /\ a \in [1..n -> 0..m - 1]
  BY DEF Work
<1>2. PICK l, x : l = Share(s, c, c[k], k - 1) /\ x = s[k]
  OBVIOUS
<1>3. x \in Nat /\ l \in Nat /\ 3 * x > best /\ k \in Nat \ {0} /\ k - 1 \in 0..n /\ k \in 0..n
  <2>1. k \in Nat \ {0} /\ k - 1 \in 0..n /\ k \in 0..n
    BY <1>1
  <2>2. l \in Nat
    BY <1>2, <2>1, ShareType
  <2> QED BY <1>1, <1>2, <2>1, <2>2
<1>4. SUFFICES ASSUME l + x > best PROVE FALSE
  BY <1>2, <1>3
<1>5. \A j \in 1..k : j \in 1..n /\ s[j] \in Nat /\ s[j] >= x
  <2> SUFFICES ASSUME NEW j \in 1..k PROVE j \in 1..n /\ s[j] \in Nat /\ s[j] >= x
    OBVIOUS
  <2>1. j \in 1..n /\ s[j] \in Nat /\ (j = k \/ j < k)
    BY <1>1, <1>3
  <2>2. j < k => s[j] >= s[k]
    BY <2>1 DEF Descending
  <2> QED BY <1>2, <1>3, <2>1, <2>2
<1>6. ASSUME NEW u \in 0..m - 1
      PROVE  LET G == Given(a, u, k)
             IN  /\ IsFiniteSet(G) /\ G \subseteq 1..k /\ SumOf(s, G) <= best
                 /\ SumOf(s, G) \in Nat
  BY <1>3, ShareType DEF Given, Share
<1>7. ASSUME NEW u \in 0..m - 1
      PROVE  LET G == Given(c, u, k - 1)
             IN  /\ IsFiniteSet(G) /\ G \subseteq 1..k - 1 /\ SumOf(s, G) >= l
                 /\ SumOf(s, G) \in Nat
  <2>1. Share(s, c, u, k - 1) >= l
    BY <1>2 DEF Greedy
  <2> QED BY <1>3, <2>1, ShareType DEF Given, Share
<1>8. x <= best
  <2>1. PICK G : G = Given(a, a[k], k)
    OBVIOUS
  <2>2. a[k] \in 0..m - 1 /\ k \in G
    BY <1>1, <1>3, <2>1 DEF Given
  <2>3. IsFiniteSet(G) /\ G \subseteq 1..k /\ SumOf(s, G) <= best /\ SumOf(s, G) \in Nat
    BY <1>6, <2>1, <2>2
  <2>4. SumOf(s, G) = s[k] + SumOf(s, G \ {k}) /\ SumOf(s, G \ {k}) \in Nat
    <3>1. \A j \in G : s[j] \in Nat
      BY <1>5, <2>3
    <3>2. k \in G /\ IsFiniteSet(G)
      BY <2>2, <2>3
    <3> QED BY <3>1, <3>2, SumTake
  <2> QED BY <1>2, <1>3, <2>3, <2>4
<1>9. l > 0
  BY <1>3, <1>4, <1>8
<1>10. PICK w : w = [j \in 1..k |-> IF s[j] + x > best THEN 2 ELSE 1]
  OBVIOUS
<1>11. w \in [1..k -> Nat] /\ \A j \in 1..k : /\ w[j] \in {1, 2}
                                              /\ w[j] = 1 <=> s[j] + x <= best
  BY <1>3, <1>5, <1>10
<1>12. ASSUME NEW u \in 0..m - 1 PROVE SumOf(w, Given(a, u, k)) <= 2
  <2>1. PICK G : G = Given(a, u, k)
    OBVIOUS
  <2>2. IsFiniteSet(G) /\ G \subseteq 1..k /\ SumOf(s, G) <= best /\ SumOf(s, G) \in Nat
    BY <1>6, <2>1
  <2>3. \A j \in G : s[j] \in Nat /\ s[j] >= x /\ w[j] \in {1, 2} /\ w[j] \in Nat
    BY <1>5, <1>11, <2>2
  <2>4. CASE G = {}
    BY <2>1, <2>2, <2>4, SumFew
  <2>5. CASE \E j : G = {j}
    <3>1. PICK j : G = {j}
      BY <2>5
    <3>2. SumOf(w, G) = w[j]
      BY <2>2, <2>3, <3>1, SumFew
    <3> QED BY <2>1, <2>3, <3>1, <3>2
  <2>6. CASE G # {} /\ ~ \E j : G = {j}
    <3>1. PICK g \in G, j \in G : g # j
      BY <2>6
    <3>2. SumOf(s, G) >= s[g] + s[j]
      BY <2>2, <2>3, <3>1, SumFew
    <3>3. w[g] = 1 /\ w[j] = 1
      <4>1. s[g] + x <= best /\ s[j] + x <= best
        BY <1>3, <2>2, <2>3, <3>2
      <4> QED BY <1>11, <2>2, <4>1
    <3>4. ASSUME NEW h \in G, h # g, h # j PROVE FALSE
      <4>1. SumOf(s, G) >= s[g] + s[j] + s[h]
        BY <2>2, <2>3, <3>1, <3>4, SumFew
      <4> QED BY <1>3, <2>2, <2>3, <4>1
    <3>5. G = {g, j}
      BY <3>4
    <3>6. SumOf(w, G) = w[g] + w[j]
      BY <2>2, <2>3, <3>1, <3>5, SumFew
    <3> QED BY <2>1, <3>3, <3>6
  <2> QED BY <2>4, <2>5, <2>6
<1>13. PICK v : v = [j \in 1..k - 1 |-> w[j]]
  OBVIOUS
<1>14. v \in [1..k - 1 -> Nat] /\ \A j \in 1..k - 1 : v[j] = w[j] /\ j \in 1..k
  BY <1>3, <1>11, <1>13
<1>15. ASSUME NEW u \in 0..m - 1 PROVE SumOf(v, Given(c, u, k - 1)) >= 2
  <2>1. PICK G : G = Given(c, u, k - 1)
    OBVIOUS
  <2>2. IsFiniteSet(G) /\ G \subseteq 1..k - 1 /\ SumOf(s, G) >= l /\ SumOf(s, G) \in Nat
    BY <1>7, <2>1
  <2>3. \A j \in G : /\ s[j] \in Nat /\ v[j] \in {1, 2} /\ v[j] \in Nat
                     /\ v[j] = 1 <=> s[j] + x <= best
    BY <1>5, <1>11, <1>14, <2>2
  <2>4. G # {}
    <3>1. G = {} => SumOf(s, G) = 0
      BY <2>2, <2>3, SumFew
    <3> QED BY <1>3, <1>9, <2>2, <3>1
  <2>5. CASE \E j : G = {j}
    <3>1. PICK j : G = {j}
      BY <2>5
    <3>2. SumOf(v, G) = v[j] /\ SumOf(s, G) = s[j]
      BY <2>2, <2>3, <3>1, SumFew
    <3>3. s[j] + x > best
      BY <1>3, <1>4, <2>2, <3>2
    <3>4. v[j] = 2
      BY <1>3, <2>3, <3>1, <3>3
    <3> QED BY <2>1, <3>2, <3>4
  <2>6. CASE ~ \E j : G = {j}
    <3>1. PICK g \in G, j \in G : g # j
      BY <2>4, <2>6
    <3>2. SumOf(v, G) >= v[g] + v[j]
      BY <2>2, <2>3, <3>1, SumFew
    <3>3. SumOf(v, G) \in Nat
      BY <2>2, <2>3, SumType
    <3> QED BY <2>1, <2>3, <3>2, <3>3
  <2> QED BY <2>5, <2>6
<1>16. SumOf(w, 1..k) <= m * 2
  <2>1. PICK b : b = [j \in 1..k |-> a[j]]
    OBVIOUS
  <2>2. b \in [1..k -> 0..m - 1] /\ \A u : Given(b, u, k) = Given(a, u, k)
    BY <1>1, <1>5, <2>1 DEF Given
  <2>3. \A u \in 0..m - 1 : SumOf(w, Given(b, u, k)) <= 2
    BY <1>12, <2>2
  <2>4. m \in Nat /\ k \in Nat
    BY <1>1, <1>3
  <2> QED BY <1>11, <2>2, <2>3, <2>4, SharesBound
<1>17. SumOf(v, 1..k - 1) >= m * 2
  <2>1. PICK b : b = [j \in 1..k - 1 |-> c[j]]
    OBVIOUS
  <2>2. b \in [1..k - 1 -> 0..m - 1] /\ \A u : Given(b, u, k - 1) = Given(c, u, k - 1)
    BY <1>1, <1>5, <1>14, <2>1 DEF Given
  <2>3. \A u \in 0..m - 1 : SumOf(v, Given(b, u, k - 1)) >= 2
    BY <1>15, <2>2
  <2>4. PICK r : r = k - 1 /\ r \in Nat
    BY <1>3
  <2>5. m \in Nat
    BY <1>1
  <2>6. SumOf(v, 1..r) >= m * 2
    BY <1>14, <2>2, <2>3, <2>4, <2>5, SharesBound
  <2> QED BY <2>4, <2>6
<1>18. SumOf(w, 1..k) = w[k] + SumOf(v, 1..k - 1) /\ SumOf(v, 1..k - 1) \in Nat
  <2>1. IsFiniteSet(1..k) /\ IsFiniteSet(1..k - 1) /\ k \in 1..k
    BY <1>3, FS_Interval
  <2>2. SumOf(w, 1..k) = w[k] + SumOf(w, (1..k) \ {k})
    BY <1>11, <2>1, SumAny
  <2>3. (1..k) \ {k} = 1..k - 1
    BY <1>3
  <2>4. SumOf(w, 1..k - 1) = SumOf(v, 1..k - 1)
    <3>1. PICK S : S = 1..k - 1
      OBVIOUS
    <3>2. \A j \in S : w[j] = v[j]
      BY <1>14, <3>1
    <3>3. SumOf(w, S) = SumOf(v, S)
      BY <3>2, SumSame
    <3> QED BY <3>1, <3>3
  <2>5. SumOf(v, 1..k - 1) \in Nat
    <3>1. \A j \in 1..k - 1 : v[j] \in Nat
      BY <1>14
    <3> QED BY <2>1, <3>1, SumType
  <2> QED BY <2>2, <2>3, <2>4, <2>5
<1>19. w[k] >= 1 /\ w[k] \in Nat /\ m * 2 \in Nat
  <2>1. k \in 1..k
    BY <1>3
  <2>2. w[k] \in {1, 2}
    BY <1>11, <2>1
  <2> QED BY <1>1, <2>2
<1> QED BY <1>16, <1>17, <1>18, <1>19

\* Graham's bound: the share of any thread against the largest share of any
\* other assignment, which is not more than best.
LEMMA GrahamsBound ==
    ASSUME NEW s, NEW c, NEW a, NEW n, NEW m, Work(s, c, n, m), Work(s, a, n, m),
           Descending(s, n), Greedy(s, c, n, m), NEW best \in Nat,
           \A u \in 0..m - 1 : Share(s, a, u, n) <= best,
           NEW t \in 0..m - 1
    PROVE  3 * m * Share(s, c, t, n) <= (4 * m - 1) * best
<1>1. /\ n \in Nat /\ m \in Nat \ {0} /\ s \in [1..n -> Nat]
      /\ c \in [1..n -> 0..m - 1] /\ a \in [1..n -> 0..m - 1] /\ n \in 0..n
  <2>1. /\ n \in Nat /\ m \in Nat \ {0} /\ s \in [1..n -> Nat]
        /\ c \in [1..n -> 0..m - 1] /\ a \in [1..n -> 0..m - 1]
    BY DEF Work
  <2>2. n \in 0..n
    BY <2>1
  <2> QED BY <2>1, <2>2
<1>2. PICK L : L = Share(s, c, t, n)
  OBVIOUS
<1>3. L \in Nat
  BY <1>1, <1>2, ShareType
<1>4. PICK p, q : p = m * L /\ q = m * best
  OBVIOUS
<1>5. p \in Nat /\ q \in Nat /\ 3 * m * L = 3 * p /\ (4 * m - 1) * best = 4 * q - best
  BY <1>1, <1>3, <1>4
<1>6. best <= q
  BY <1>1, <1>4
<1>7. SUFFICES 3 * p <= 4 * q - best
  BY <1>2, <1>5
<1>8. CASE L <= best
  <2>1. p <= q
    BY <1>1, <1>3, <1>4, <1>8
  <2> QED BY <1>5, <1>6, <2>1
<1>9. CASE L > best
  <2>1. Given(c, t, n) # {}
    <3>1. Given(c, t, n) = {} => L = 0
      BY <1>2, SumFirst, FS_EmptySet DEF Share
    <3> QED BY <1>3, <1>9, <3>1
  <2>2. PICK k \in 1..n : c[k] = t /\ \A j \in 1..n : j > k => c[j] # t
    <3> DEFINE S == {d \in Nat : d <= n /\ n - d \in Given(c, t, n)}
    <3>1. S # {}
      <4>1. PICK j : j \in Given(c, t, n)
        BY <2>1
      <4>2. j \in 1..n
        BY <4>1 DEF Given
      <4>3. n - j \in Nat /\ n - j <= n /\ n - (n - j) = j
        BY <1>1, <4>2
      <4> QED BY <4>1, <4>3
    <3>2. PICK d \in S : \A e \in S : d <= e
      <4>1. S \in SUBSET Nat
        OBVIOUS
      <4> HIDE DEF S
      <4> QED BY <3>1, <4>1, Least
    <3>3. d \in Nat /\ d <= n /\ n - d \in 1..n /\ c[n - d] = t
      BY DEF Given
    <3>4. ASSUME NEW j \in 1..n, j > n - d PROVE c[j] # t
      <4>1. n - j \in Nat /\ n - j <= n /\ n - (n - j) = j /\ ~(d <= n - j)
        BY <1>1, <3>3, <3>4
      <4>2. n - j \notin S
        BY <3>2, <4>1
      <4> QED BY <4>1, <4>2 DEF Given
    <3> QED BY <3>3, <3>4
  <2>3. PICK x, l : x = s[k] /\ l = Share(s, c, c[k], k - 1)
    OBVIOUS
  <2>4. k - 1 \in 0..n /\ k \in 0..n /\ k \in Nat \ {0}
    BY <1>1
  <2>5. x \in Nat /\ l \in Nat
    BY <1>1, <2>3, <2>4, ShareType
  <2>6. L = l + x
    <3>1. PICK G : G = Given(c, t, n)
      OBVIOUS
    <3>2. k \in G /\ G \ {k} = Given(c, c[k], k - 1)
      <4>1. k \in G
        BY <2>2, <3>1 DEF Given
      <4>2. \A j \in 1..n : j \in G /\ j # k => j \in 1..k - 1 /\ c[j] = c[k]
        BY <1>1, <2>2, <2>4, <3>1 DEF Given
      <4>3. \A j \in 1..k - 1 : j \in 1..n /\ j # k
        BY <1>1, <2>4
      <4>4. G \subseteq 1..n /\ \A j \in 1..n : j \in G <=> c[j] = c[k]
        BY <2>2, <3>1 DEF Given
      <4> QED BY <4>1, <4>2, <4>3, <4>4 DEF Given
    <3>3. IsFiniteSet(G) /\ \A j \in G : s[j] \in Nat
      <4>1. IsFiniteSet(G) /\ G \subseteq 1..n
        BY <1>1, <3>1, ShareType
      <4> QED BY <1>1, <4>1
    <3>4. SumOf(s, G) = s[k] + SumOf(s, G \ {k})
      <4>1. PICK S, z : S = G /\ z = k
        OBVIOUS
      <4>2. z \in S /\ IsFiniteSet(S) /\ \A y \in S : s[y] \in Nat
        BY <3>2, <3>3, <4>1
      <4>3. SumOf(s, S) = s[z] + SumOf(s, S \ {z})
        BY <4>2, SumTake
      <4> QED BY <4>1, <4>3
    <3>5. SumOf(s, G) = L /\ SumOf(s, G \ {k}) = l
      BY <1>2, <2>3, <3>1, <3>2 DEF Share
    <3> QED BY <2>3, <2>5, <3>4, <3>5
  <2>7. \A u \in 0..m - 1 : Share(s, a, u, k) <= best
    <3> SUFFICES ASSUME NEW u \in 0..m - 1 PROVE Share(s, a, u, k) <= best
      OBVIOUS
    <3>1. PICK G : G = Given(a, u, k)
      OBVIOUS
    <3>2. G \in SUBSET Given(a, u, n)
      BY <1>1, <2>4, <3>1 DEF Given
    <3>3. /\ SumOf(s, G) \in Nat /\ Share(s, a, u, n) \in Nat
          /\ SumOf(s, G) <= Share(s, a, u, n)
      BY <1>1, <3>2, ShareType
    <3>4. Share(s, a, u, n) <= best
      OBVIOUS
    <3> QED BY <3>1, <3>3, <3>4 DEF Share
  <2>8. 3 * x <= best
    <3>1. 3 * x > best => l + x <= best
      BY <2>3, <2>7, LargeLast
    <3> QED BY <1>9, <2>5, <2>6, <3>1
  <2>9. PICK f, h, b : /\ f = [j \in 1..k |-> s[j]] /\ h = [j \in 1..k |-> a[j]]
                       /\ b = [j \in 1..k - 1 |-> c[j]]
    OBVIOUS
  <2>10. PICK g, r : r = k - 1 /\ g = [j \in 1..r |-> s[j]]
    OBVIOUS
  <2>11. /\ f \in [1..k -> Nat] /\ g \in [1..r -> Nat] /\ r \in Nat /\ k \in Nat
         /\ h \in [1..k -> 0..m - 1] /\ b \in [1..r -> 0..m - 1] /\ m \in Nat
    <3>1. r \in Nat /\ k \in Nat /\ m \in Nat
      BY <1>1, <2>4, <2>10
    <3>2. (\A j \in 1..k : j \in 1..n) /\ \A j \in 1..r : j \in 1..n
      BY <1>1, <2>10
    <3>3. f \in [1..k -> Nat] /\ g \in [1..r -> Nat]
      BY <1>1, <2>9, <2>10, <3>2
    <3>4. h \in [1..k -> 0..m - 1]
      BY <1>1, <2>9, <3>2
    <3>5. b \in [1..r -> 0..m - 1]
      BY <1>1, <2>9, <2>10, <3>2
    <3> QED BY <3>1, <3>3, <3>4, <3>5
  <2>12. SumOf(f, 1..k) <= q
    <3>1. ASSUME NEW u \in 0..m - 1 PROVE SumOf(f, Given(h, u, k)) <= best
      <4>1. Given(h, u, k) = Given(a, u, k)
        BY <2>9 DEF Given
      <4>2. \A j \in Given(a, u, k) : f[j] = s[j]
        BY <2>9 DEF Given
      <4>3. SumOf(f, Given(a, u, k)) = SumOf(s, Given(a, u, k))
        BY <4>2, SumSame
      <4> QED BY <2>7, <4>1, <4>3 DEF Share
    <3> QED BY <1>4, <2>11, <3>1, SharesBound
  <2>13. SumOf(g, 1..r) >= m * l
    <3>1. ASSUME NEW u \in 0..m - 1 PROVE SumOf(g, Given(b, u, r)) >= l
      <4>1. Given(b, u, r) = Given(c, u, k - 1)
        BY <2>9, <2>10 DEF Given
      <4>2. \A j \in Given(c, u, k - 1) : g[j] = s[j]
        BY <2>10 DEF Given
      <4>3. SumOf(g, Given(c, u, k - 1)) = SumOf(s, Given(c, u, k - 1))
        BY <4>2, SumSame
      <4>4. Share(s, c, u, k - 1) >= l
        BY <2>3 DEF Greedy
      <4> QED BY <4>1, <4>3, <4>4 DEF Share
    <3> QED BY <2>5, <2>11, <3>1, SharesBound
  <2>14. SumOf(f, 1..k) = x + SumOf(g, 1..r)
    <3>1. IsFiniteSet(1..k) /\ k \in 1..k
      BY <2>4, FS_Interval
    <3>2. SumOf(f, 1..k) = f[k] + SumOf(f, (1..k) \ {k})
      <4>1. \A j \in 1..k : f[j] \in Nat
        BY <2>11
      <4> QED BY <3>1, <4>1, SumTake
    <3>3. (1..k) \ {k} = 1..r /\ \A j \in 1..r : f[j] = g[j]
      BY <2>4, <2>9, <2>10
    <3>4. SumOf(f, 1..r) = SumOf(g, 1..r)
      BY <3>3, SumSame
    <3> QED BY <2>3, <2>9, <3>1, <3>2, <3>3, <3>4
  <2>15. SumOf(g, 1..r) \in Nat
    <3>1. IsFiniteSet(1..r)
      BY <2>11, FS_Interval
    <3> QED BY <2>11, <3>1, SumType
  <2>16. PICK y, z : y = m * l /\ z = m * x
    OBVIOUS
  <2>17. y \in Nat /\ z \in Nat /\ p = y + z
    BY <1>1, <1>4, <2>5, <2>6, <2>16
  <2>18. y + x <= q
    <3>1. PICK e : e = SumOf(g, 1..r)
      OBVIOUS
    <3>2. e \in Nat /\ e >= y /\ x + e <= q
      BY <2>12, <2>13, <2>14, <2>15, <2>16, <3>1
    <3> QED BY <1>5, <2>5, <2>17, <3>2
  <2>19. 3 * z - 3 * x <= q - best
    <3>1. m - 1 \in Nat /\ 3 * x \in Nat
      BY <1>1, <2>5
    <3>2. (m - 1) * (3 * x) <= (m - 1) * best
      BY <2>8, <3>1
    <3>3. (m - 1) * (3 * x) = 3 * z - 3 * x /\ (m - 1) * best = q - best
      BY <1>1, <1>4, <2>5, <2>16
    <3> QED BY <3>2, <3>3
  <2> QED BY <1>5, <2>5, <2>17, <2>18, <2>19
<1> QED BY <1>3, <1>8, <1>9

-----------------------------------------------------------------------------
(* The balance of mcp *)

\* The files are in descending order of size, the loads are those of some
\* assignment of the files shared so far, and that is greedy.
SizesOf(fs) == [k \in 1..Len(fs) |-> fs[k].size]
FileSizes == SizesOf(files)
Balanced(c, n) ==
    /\ c \in [1..n -> Threads]
    /\ pq = [t \in Threads |-> Share(FileSizes, c, t, n)]
    /\ Greedy(FileSizes, c, n, thread_num)
BalanceInv ==
    (pc = "assign" \/ (pc = "spawn" /\ i = 0)) /\ thread_num > 0 =>
        /\ Descending(FileSizes, Len(files))
        /\ \E c : Balanced(c, Shared)

\* The sizes are naturals.
LEMMA SizesType ==
    ASSUME NEW fs \in Seq(FileWork)
    PROVE  /\ Len(fs) \in Nat /\ SizesOf(fs) \in [1..Len(fs) -> Nat]
           /\ DOMAIN fs = 1..Len(fs)
<1>1. ASSUME NEW k \in 1..Len(fs) PROVE fs[k].size \in Nat
  <2>1. fs[k] \in FileWork
    OBVIOUS
  <2> QED BY <2>1 DEF FileWork
<1>2. SizesOf(fs) \in [1..Len(fs) -> Nat]
  BY <1>1 DEF SizesOf
<1> QED BY <1>2

\* The invariant reads these variables only.
LEMMA BalanceStays ==
    ASSUME BalanceInv, UNCHANGED <<pc, thread_num, files, pq, i>>
    PROVE  BalanceInv'
  BY DEF BalanceInv, Balanced, FileSizes, Shared, Threads

\* sort() puts the largest first, and no file has been given to a thread.
LEMMA WalkDoneBalances ==
    ASSUME McpInv, McpInv', WalkDone
    PROVE  BalanceInv'
<1>1. /\ i' = 1 /\ pc' = "assign" /\ pq' = [t \in Threads |-> 0]
      /\ UNCHANGED <<thread_num>>
  BY DEF WalkDone, mainVars
<1>2. PICK p :
        /\ \A x, y \in DOMAIN files : x < y => InOrder(files[p[x]], files[p[y]])
        /\ files' = [k \in DOMAIN files |-> files[p[k]]]
  BY DEF WalkDone
<1>3. PICK n, s : n = Len(files') /\ s = FileSizes'
  OBVIOUS
<1>4. n \in Nat /\ s \in [1..n -> Nat] /\ DOMAIN files' = 1..n
  <2>1. files' \in Seq(FileWork)'
    BY DEF McpInv, BaseInv
  <2>2. PICK fs : fs = files'
    OBVIOUS
  <2>3. fs \in Seq(FileWork)
    BY <2>1, <2>2 DEF FileWork, Files
  <2>4. n = Len(fs) /\ s = SizesOf(fs)
    BY <1>3, <2>2 DEF FileSizes
  <2> QED BY <2>2, <2>3, <2>4, SizesType
<1>5. DOMAIN files = 1..n /\ \A k \in 1..n : s[k] = files[p[k]].size
  BY <1>2, <1>3, <1>4 DEF FileSizes, SizesOf
<1>6. Descending(s, n)
  BY <1>2, <1>5 DEF Descending, InOrder
<1>7. PICK c : c = [j \in 1..0 |-> 0]
  OBVIOUS
<1>8. c \in [1..0 -> Threads]
  BY <1>7
<1>9. \A t : Share(s, c, t, 0) = 0
  <2>1. \A t : Given(c, t, 0) = {}
    BY DEF Given
  <2> QED BY <2>1, SumFirst, FS_EmptySet DEF Share
<1>10. Greedy(s, c, 0, thread_num')
  BY DEF Greedy
<1>11. Balanced(c, 0)'
  <2>1. Threads' = Threads
    BY <1>1 DEF Threads
  <2>2. pq' = [t \in Threads' |-> Share(s, c, t, 0)]
    BY <1>1, <1>9, <2>1
  <2> QED BY <1>3, <1>8, <1>10, <2>1, <2>2 DEF Balanced
<1>12. Shared' = 0
  BY <1>1 DEF Shared
<1> QED BY <1>3, <1>6, <1>11, <1>12 DEF BalanceInv

\* The next file goes to the thread with the least load.
LEMMA AssignBalances ==
    ASSUME McpInv, BalanceInv, AssignWork
    PROVE  BalanceInv'
<1>1. /\ pc = "assign" /\ i <= Len(files) /\ BaseInv /\ i \in Nat \ {0}
      /\ UNCHANGED <<pc, thread_num, files>> /\ thread_num \in Nat
  <2>1. /\ pc = "assign" /\ i <= Len(files)
        /\ UNCHANGED <<pc, thread_num, files>>
    BY DEF AssignWork, mainVars, walkVars
  <2>2. BaseInv /\ JobsInv
    BY <2>1 DEF McpInv, CopyInv
  <2>3. files \in Seq(FileWork) /\ thread_num \in Nat
    BY <2>2 DEF BaseInv
  <2> QED BY <2>1, <2>2, <2>3 DEF JobsInv
<1>2. SUFFICES ASSUME thread_num > 0 PROVE BalanceInv'
  BY <1>1 DEF BalanceInv
<1>3. PICK t \in Threads : /\ PqTop(t)
                           /\ pq' = [pq EXCEPT ![t] = @ + files[i].size]
                           /\ i' = i + 1
  BY <1>2 DEF AssignWork
<1>4. PICK n, m, s, c : /\ n = i - 1 /\ m = thread_num /\ s = FileSizes /\ Balanced(c, n)
  <2>1. Shared = i - 1
    BY <1>1 DEF Shared
  <2> QED BY <1>1, <1>2, <2>1 DEF BalanceInv
<1>5. /\ n \in Nat /\ m \in Nat \ {0} /\ i = n + 1 /\ Threads = 0..m - 1
      /\ s \in [1..Len(files) -> Nat] /\ n + 1 \in 1..Len(files)
      /\ s[n + 1] = files[i].size /\ s[n + 1] \in Nat
  <2>1. Len(files) \in Nat /\ s \in [1..Len(files) -> Nat]
    BY <1>1, <1>4, SizesType DEF BaseInv, FileSizes
  <2>2. n \in Nat /\ m \in Nat \ {0} /\ i = n + 1 /\ n + 1 \in 1..Len(files)
    BY <1>1, <1>2, <1>4, <2>1
  <2> QED BY <1>4, <2>1, <2>2 DEF FileSizes, SizesOf, Threads
<1>6. /\ c \in [1..n -> 0..m - 1]
      /\ pq = [u \in 0..m - 1 |-> Share(s, c, u, n)]
      /\ Greedy(s, c, n, m)
  BY <1>4, <1>5 DEF Balanced
<1>7. PICK e : e = [j \in 1..n + 1 |-> IF j = n + 1 THEN t ELSE c[j]]
  OBVIOUS
<1>8. /\ e \in [1..n + 1 -> 0..m - 1] /\ e[n + 1] = t
      /\ \A j \in 1..n : e[j] = c[j]
  BY <1>5, <1>6, <1>7
<1>9. ASSUME NEW u, NEW k \in 0..n PROVE Share(s, e, u, k) = Share(s, c, u, k)
  <2>1. Given(e, u, k) = Given(c, u, k)
    BY <1>5, <1>8 DEF Given
  <2> QED BY <2>1 DEF Share
<1>10. ASSUME NEW u \in 0..m - 1
       PROVE  /\ Share(s, c, u, n) \in Nat
              /\ u # t => Share(s, e, u, n + 1) = Share(s, c, u, n)
              /\ u = t => Share(s, e, u, n + 1) = Share(s, c, u, n) + s[n + 1]
  <2>1. PICK G, H : G = Given(c, u, n) /\ H = Given(e, u, n + 1)
    OBVIOUS
  <2>2. /\ G \subseteq 1..n /\ H \subseteq 1..n + 1
        /\ \A j \in 1..n : j \in H <=> j \in G
        /\ (n + 1 \in H) <=> (u = t)
    <3>1. G \subseteq 1..n /\ H \subseteq 1..n + 1
      BY <2>1 DEF Given
    <3>2. \A j \in 1..n : j \in 1..n + 1
      BY <1>5
    <3>3. \A j \in 1..n : j \in H <=> j \in G
      BY <1>8, <2>1, <3>2 DEF Given
    <3>4. n + 1 \in 1..n + 1
      BY <1>5
    <3>5. (n + 1 \in H) <=> (u = t)
      BY <1>8, <2>1, <3>4 DEF Given
    <3> QED BY <3>1, <3>3, <3>5
  <2>3. \A j \in 1..n + 1 : s[j] \in Nat
    BY <1>5
  <2>4. IsFiniteSet(G) /\ IsFiniteSet(H)
    <3>1. IsFiniteSet(1..n) /\ IsFiniteSet(1..n + 1)
      BY <1>5, FS_Interval
    <3> QED BY <2>2, <3>1, FS_Subset
  <2>5. \A j \in G : s[j] \in Nat
    BY <1>5, <2>2, <2>3
  <2>6. SumOf(s, G) \in Nat
    BY <2>4, <2>5, SumType
  <2>7. CASE u # t
    <3>1. H = G
      <4>1. \A j \in 1..n + 1 : j \in 1..n \/ j = n + 1
        BY <1>5
      <4> QED BY <2>2, <2>7, <4>1
    <3> QED BY <2>1, <2>6, <2>7, <3>1 DEF Share
  <2>8. CASE u = t
    <3>1. n + 1 \in H /\ H \ {n + 1} = G
      <4>1. \A j \in 1..n + 1 : j \in 1..n \/ j = n + 1
        BY <1>5
      <4>2. n + 1 \notin 1..n
        BY <1>5
      <4> QED BY <2>2, <2>8, <4>1, <4>2
    <3>2. PICK z : z = n + 1
      OBVIOUS
    <3>3. z \in H /\ \A j \in H : s[j] \in Nat
      BY <2>2, <2>3, <3>1, <3>2
    <3>4. SumOf(s, H) = s[z] + SumOf(s, H \ {z})
      BY <2>4, <3>3, SumTake
    <3>5. SumOf(s, H) = s[n + 1] + SumOf(s, G)
      BY <3>1, <3>2, <3>4
    <3> QED BY <1>5, <2>1, <2>6, <2>8, <3>5 DEF Share
  <2> QED BY <2>7, <2>8
<1>11. pq' = [u \in 0..m - 1 |-> Share(s, e, u, n + 1)]
  <2>1. pq' = [u \in 0..m - 1 |-> IF u = t THEN pq[t] + s[n + 1] ELSE pq[u]]
    BY <1>3, <1>5, <1>6
  <2>2. \A u \in 0..m - 1 : (IF u = t THEN pq[t] + s[n + 1] ELSE pq[u])
                             = Share(s, e, u, n + 1)
    BY <1>3, <1>5, <1>6, <1>10
  <2> QED BY <2>1, <2>2
<1>12. Greedy(s, e, n + 1, m)
  <2> SUFFICES ASSUME NEW k \in 1..n + 1, NEW u \in 0..m - 1
               PROVE  Share(s, e, e[k], k - 1) <= Share(s, e, u, k - 1)
    BY DEF Greedy
  <2>1. k - 1 \in 0..n
    BY <1>5
  <2>2. SUFFICES Share(s, c, e[k], k - 1) <= Share(s, c, u, k - 1)
    BY <1>9, <2>1
  <2>3. CASE k \in 1..n
    <3>1. Share(s, c, c[k], k - 1) <= Share(s, c, u, k - 1)
      BY <1>6, <2>3 DEF Greedy
    <3> QED BY <1>8, <2>3, <3>1
  <2>4. CASE k = n + 1
    <3>1. k - 1 = n /\ e[k] = t
      BY <1>5, <1>8, <2>4
    <3>2. pq[t] <= pq[u]
      <4>1. pq[t] < pq[u] \/ pq[t] = pq[u]
        BY <1>3, <1>5 DEF PqTop
      <4>2. pq[t] \in Nat /\ pq[u] \in Nat
        BY <1>3, <1>5, <1>6, <1>10
      <4> QED BY <4>1, <4>2
    <3>3. pq[t] = Share(s, c, t, n) /\ pq[u] = Share(s, c, u, n)
      BY <1>3, <1>5, <1>6
    <3> QED BY <3>1, <3>2, <3>3
  <2> QED BY <1>5, <2>3, <2>4
<1>13. Balanced(e, n + 1)'
  <2>1. FileSizes' = s /\ Threads' = 0..m - 1 /\ thread_num' = m
    BY <1>1, <1>4, <1>5 DEF FileSizes, Threads
  <2> QED BY <1>8, <1>11, <1>12, <2>1 DEF Balanced
<1>14. Shared' = n + 1 /\ Descending(FileSizes, Len(files))'
  <2>1. Descending(FileSizes, Len(files))
    BY <1>1, <1>2 DEF BalanceInv
  <2>2. Descending(FileSizes, Len(files))'
    BY <1>1, <2>1 DEF FileSizes
  <2>3. pc' = "assign" /\ i' = n + 2 /\ (n + 2) - 1 = n + 1
    BY <1>1, <1>3, <1>5
  <2> QED BY <2>2, <2>3 DEF Shared
<1> QED BY <1>13, <1>14 DEF BalanceInv

\* Any step keeps the invariant.
LEMMA BalanceStep == McpInv /\ McpInv' /\ BalanceInv /\ [Next]_vars => BalanceInv'
<1> SUFFICES ASSUME McpInv, McpInv', BalanceInv, [Next]_vars PROVE BalanceInv'
  OBVIOUS
<1>1. CASE OpenRoots \/ cp_dir \/ LeaveDirectory
  <2>1. pc' \in {"args", "walk"}
    BY <1>1 DEF OpenRoots, cp_dir, LeaveDirectory
  <2> QED BY <2>1 DEF BalanceInv
<1>2. CASE WalkDone
  BY <1>2, WalkDoneBalances
<1>3. CASE AssignWork
  BY <1>3, AssignBalances
<1>4. CASE AssignDone
  <2>1. /\ pc = "assign" /\ i > Len(files) /\ pc' = "spawn" /\ i' = 0
        /\ UNCHANGED <<thread_num, files, pq>>
    BY <1>4 DEF AssignDone, mainVars, walkVars, jobVars
  <2>2. Shared = Len(files) /\ Shared' = Len(files)
    <3>1. i \in 1..Len(files) + 1 /\ Len(files) \in Nat
      BY <2>1, SizesType DEF McpInv, BaseInv, CopyInv, JobsInv
    <3>2. i - 1 = Len(files)
      BY <2>1, <3>1
    <3> QED BY <2>1, <3>2 DEF Shared
  <2> QED BY <2>1, <2>2 DEF BalanceInv, Balanced, FileSizes, Threads
<1>5. CASE Spawn
  <2>1. i \in Nat /\ thread_num \in Nat /\ thread_num' = thread_num
    BY <1>5 DEF Spawn, McpInv, BaseInv, CopyInv, MainInv, mainVars
  <2>2. CASE i < thread_num
    <3>1. i' # 0 /\ pc' = "spawn"
      BY <1>5, <2>1, <2>2 DEF Spawn
    <3> QED BY <3>1 DEF BalanceInv
  <2>3. CASE ~(i < thread_num)
    <3>1. pc' = "join"
      BY <1>5, <2>3 DEF Spawn
    <3> QED BY <3>1 DEF BalanceInv
  <2> QED BY <2>2, <2>3
<1>6. CASE Join
  <2>1. pc' = "join"
    BY <1>6 DEF Join
  <2> QED BY <2>1 DEF BalanceInv
<1>7. CASE MainFails \/ (\E t \in Threads : cp_func(t) \/ ThreadFails(t))
           \/ Ended \/ UNCHANGED vars
  <2>1. UNCHANGED <<pc, thread_num, files, pq, i>>
    BY <1>7 DEF MainFails, cp_func, ThreadFails, ThreadOnly, Ended, vars, mainVars,
                walkVars, jobVars
  <2> QED BY <2>1, BalanceStays
<1> QED BY <1>1, <1>2, <1>3, <1>4, <1>5, <1>6, <1>7 DEF Next, Main

\* Some thread has the largest load.
LEMMA LargestLoad ==
    ASSUME NEW m \in Nat \ {0}, m = thread_num, NEW loads \in [0..m - 1 -> Nat]
    PROVE  /\ \E t \in 0..m - 1 : Largest(loads) = loads[t]
           /\ \A u \in 0..m - 1 : loads[u] <= Largest(loads)
<1>1. PICK B : B = SumOf(loads, 0..m - 1)
  OBVIOUS
<1>2. B \in Nat /\ \A u \in 0..m - 1 : loads[u] <= B
  <2>1. IsFiniteSet(0..m - 1) /\ \A u \in 0..m - 1 : loads[u] \in Nat
    <3>1. 0 \in Int /\ m - 1 \in Int
      OBVIOUS
    <3> QED BY <3>1, FS_Interval
  <2>2. B \in Nat
    BY <1>1, <2>1, SumType
  <2>3. ASSUME NEW u \in 0..m - 1 PROVE loads[u] <= B
    <3>1. PICK r : r = SumOf(loads, (0..m - 1) \ {u})
      OBVIOUS
    <3>2. B = loads[u] + r /\ r \in Nat
      BY <1>1, <2>1, <3>1, SumTake
    <3> QED BY <3>2
  <2> QED BY <2>2, <2>3
<1> DEFINE S == {d \in Nat : \E u \in 0..m - 1 : d = B - loads[u]}
<1>3. S # {} /\ S \in SUBSET Nat
  <2>1. 0 \in 0..m - 1
    OBVIOUS
  <2>2. B - loads[0] \in S
    BY <1>2, <2>1
  <2> QED BY <2>2
<1>4. PICK d \in S : \A e \in S : d <= e
  <2> HIDE DEF S
  <2> QED BY <1>3, Least
<1>5. PICK t \in 0..m - 1 : d = B - loads[t]
  OBVIOUS
<1>6. ASSUME NEW u \in 0..m - 1 PROVE loads[u] <= loads[t]
  <2>1. B - loads[u] \in S
    BY <1>2
  <2>2. d <= B - loads[u]
    BY <1>4, <2>1
  <2> QED BY <1>2, <1>5, <2>2
<1>7. PICK V : V = {loads[u] : u \in 0..m - 1}
  OBVIOUS
<1>8. loads[t] \in V /\ \A y \in V : loads[t] >= y
  BY <1>6, <1>7
<1>9. Max(V) \in V /\ \A y \in V : Max(V) >= y
  BY <1>8 DEF Max
<1>10. Largest(loads) = Max(V)
  BY <1>7 DEF Largest, Threads
<1> QED BY <1>7, <1>9, <1>10

\* By Graham's bound for "largest first", no thread gets more than
\* 4/3 - 1/(3*thread_num) of what the most loaded thread gets in the best
\* assignment there is.
THEOREM AlwaysLoadIsBalanced == Spec => []LoadIsBalanced
<1>1. McpInv /\ BalanceInv => LoadIsBalanced
  <2> SUFFICES ASSUME McpInv, BalanceInv, pc = "spawn", i = 0, thread_num > 0,
                      NEW a \in [DOMAIN files -> Threads]
               PROVE  3 * thread_num * Largest(pq)
                        <= (4 * thread_num - 1) * Largest([t \in Threads |-> Load(a, t)])
    BY DEF LoadIsBalanced
  <2>1. PICK n, m, s, c : /\ n = Len(files) /\ m = thread_num /\ s = FileSizes
                          /\ Balanced(c, n)
    <3>1. Shared = Len(files)
      BY DEF Shared
    <3> QED BY <3>1 DEF BalanceInv
  <2>2. /\ n \in Nat /\ s \in [1..n -> Nat] /\ DOMAIN files = 1..n
        /\ m \in Nat \ {0} /\ Threads = 0..m - 1
    <3>1. BaseInv
      BY DEF McpInv
    <3>2. thread_num \in Nat
      BY <3>1 DEF BaseInv
    <3> QED BY <2>1, <3>1, <3>2, SizesType DEF BaseInv, FileSizes, Threads
  <2>3. Work(s, c, n, m) /\ Work(s, a, n, m)
    BY <2>1, <2>2 DEF Work, Balanced
  <2>4. Descending(s, n) /\ Greedy(s, c, n, m)
    BY <2>1 DEF BalanceInv, Balanced
  <2>5. PICK loads : loads = [t \in Threads |-> Load(a, t)]
    OBVIOUS
  <2>6. \A t \in 0..m - 1 : loads[t] = Share(s, a, t, n)
    <3> SUFFICES ASSUME NEW t \in 0..m - 1 PROVE loads[t] = Share(s, a, t, n)
      OBVIOUS
    <3>1. loads[t] = Load(a, t)
      BY <2>2, <2>5
    <3>2. [k \in DOMAIN files |-> files[k].size] = s
      BY <2>1, <2>2 DEF FileSizes, SizesOf
    <3>3. {k \in DOMAIN files : a[k] = t} = Given(a, t, n)
      BY <2>2 DEF Given
    <3>4. Load(a, t) = SumOf(s, Given(a, t, n))
      BY <3>2, <3>3 DEF Load, SumOf
    <3> QED BY <3>1, <3>4 DEF Share
  <2>7. n \in 0..n
    BY <2>2
  <2>8. loads \in [0..m - 1 -> Nat] /\ pq \in [0..m - 1 -> Nat]
        /\ \A t \in 0..m - 1 : pq[t] = Share(s, c, t, n)
    <3>1. \A t \in 0..m - 1 : Share(s, a, t, n) \in Nat /\ Share(s, c, t, n) \in Nat
      BY <2>3, <2>7, ShareType
    <3>2. pq = [t \in 0..m - 1 |-> Share(s, c, t, n)]
      BY <2>1, <2>2 DEF Balanced
    <3>3. loads = [t \in 0..m - 1 |-> Share(s, a, t, n)]
      BY <2>2, <2>5, <2>6
    <3> QED BY <3>1, <3>2, <3>3
  <2>9. PICK best : best = Largest(loads)
    OBVIOUS
  <2>10. best \in Nat /\ \A u \in 0..m - 1 : Share(s, a, u, n) <= best
    <3>1. /\ \E t \in 0..m - 1 : Largest(loads) = loads[t]
          /\ \A u \in 0..m - 1 : loads[u] <= Largest(loads)
      BY <2>1, <2>2, <2>8, LargestLoad
    <3> QED BY <2>6, <2>8, <2>9, <3>1
  <2>11. PICK t \in 0..m - 1 : Largest(pq) = pq[t]
    BY <2>1, <2>2, <2>8, LargestLoad
  <2>12. 3 * m * Share(s, c, t, n) <= (4 * m - 1) * best
    BY <2>3, <2>4, <2>10, GrahamsBound
  <2> QED BY <2>1, <2>5, <2>8, <2>9, <2>11, <2>12
<1>2. Init => BalanceInv
  BY DEF Init, BalanceInv
<1>3. McpInv /\ McpInv' /\ BalanceInv /\ [Next]_vars => BalanceInv'
  BY BalanceStep
<1> QED BY <1>1, <1>2, <1>3, McpAlways, PTL DEF Spec
=============================================================================
