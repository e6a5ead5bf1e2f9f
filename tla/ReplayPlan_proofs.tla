-------------------------- MODULE ReplayPlan_proofs --------------------------
(***************************************************************************)
(* Proofs about the planner of replay.c, for traces of any length, any     *)
(* number of threads and any set of lbas.                                  *)
(***************************************************************************)
EXTENDS ReplayPlan, FiniteSetTheorems, TLAPS

-----------------------------------------------------------------------------
(* Sequences *)

\* The elements of a sequence are of the type of the sequence.
LEMMA ElementType ==
    ASSUME NEW S, NEW s \in Seq(S), NEW k \in DOMAIN s
    PROVE  s[k] \in S
  OBVIOUS

\* The set of elements of a sequence is of the type of the sequence.
LEMMA ToSetType ==
    ASSUME NEW S, NEW s \in Seq(S)
    PROVE  ToSet(s) \subseteq S
  BY ElementType DEF ToSet

\* Appending an element adds it to the set of elements.
LEMMA ToSetAppend ==
    ASSUME NEW S, NEW s \in Seq(S), NEW x \in S
    PROVE  ToSet(Append(s, x)) = ToSet(s) \cup {x}
<1>1. ToSet(Append(s, x)) \subseteq ToSet(s) \cup {x}
  BY DEF ToSet
<1>2. ToSet(s) \subseteq ToSet(Append(s, x))
  <2> SUFFICES ASSUME NEW k \in DOMAIN s PROVE s[k] \in ToSet(Append(s, x))
    BY DEF ToSet
  <2>1. k \in DOMAIN Append(s, x) /\ Append(s, x)[k] = s[k]
    OBVIOUS
  <2> QED BY <2>1 DEF ToSet
<1>3. x \in ToSet(Append(s, x))
  <2>1. Len(s) + 1 \in DOMAIN Append(s, x) /\ Append(s, x)[Len(s) + 1] = x
    OBVIOUS
  <2> QED BY <2>1 DEF ToSet
<1> QED BY <1>1, <1>2, <1>3

\* Concatenation joins the sets of elements.
LEMMA ToSetConcat ==
    ASSUME NEW S, NEW s \in Seq(S), NEW t \in Seq(S)
    PROVE  ToSet(s \o t) = ToSet(s) \cup ToSet(t)
<1>1. ToSet(s \o t) \subseteq ToSet(s) \cup ToSet(t)
  <2> SUFFICES ASSUME NEW k \in DOMAIN (s \o t)
               PROVE  (s \o t)[k] \in ToSet(s) \cup ToSet(t)
    BY DEF ToSet
  <2>1. CASE k <= Len(s)
    <3>1. k \in DOMAIN s /\ (s \o t)[k] = s[k]
      BY <2>1
    <3> QED BY <3>1 DEF ToSet
  <2>2. CASE k > Len(s)
    <3>1. k - Len(s) \in DOMAIN t /\ (s \o t)[k] = t[k - Len(s)]
      BY <2>2
    <3> QED BY <3>1 DEF ToSet
  <2> QED BY <2>1, <2>2
<1>2. ToSet(s) \subseteq ToSet(s \o t)
  <2> SUFFICES ASSUME NEW k \in DOMAIN s PROVE s[k] \in ToSet(s \o t)
    BY DEF ToSet
  <2>1. k \in DOMAIN (s \o t) /\ (s \o t)[k] = s[k]
    OBVIOUS
  <2> QED BY <2>1 DEF ToSet
<1>3. ToSet(t) \subseteq ToSet(s \o t)
  <2> SUFFICES ASSUME NEW k \in DOMAIN t PROVE t[k] \in ToSet(s \o t)
    BY DEF ToSet
  <2>1. k + Len(s) \in DOMAIN (s \o t) /\ (s \o t)[k + Len(s)] = t[k]
    OBVIOUS
  <2> QED BY <2>1 DEF ToSet
<1> QED BY <1>1, <1>2, <1>3

\* A sequence over a set is one over any larger set.
LEMMA SeqSubset ==
    ASSUME NEW S, NEW T, S \subseteq T, NEW s \in Seq(S)
    PROVE  s \in Seq(T)
  OBVIOUS

\* Rearranging a sequence keeps its length and its elements.
LEMMA PermutedSeq ==
    ASSUME NEW S, NEW s \in Seq(S), NEW p \in Bijection(DOMAIN s, DOMAIN s)
    PROVE  LET t == [k \in DOMAIN s |-> s[p[k]]]
           IN  t \in Seq(S) /\ Len(t) = Len(s) /\ ToSet(t) = ToSet(s)
<1> DEFINE t == [k \in DOMAIN s |-> s[p[k]]]
<1>1. /\ p \in [DOMAIN s -> DOMAIN s]
      /\ \A y \in DOMAIN s : \E x \in DOMAIN s : p[x] = y
      /\ \A x, y \in DOMAIN s : p[x] = p[y] => x = y
  BY DEF Bijection, Surjection, Injection, IsInjective
<1>2. t \in [1..Len(s) -> S]
  BY <1>1
<1>3. t \in Seq(S) /\ Len(t) = Len(s)
  BY <1>2
<1>4. ToSet(t) \subseteq ToSet(s)
  BY <1>1 DEF ToSet
<1>5. ToSet(s) \subseteq ToSet(t)
  <2> SUFFICES ASSUME NEW y \in DOMAIN s PROVE s[y] \in ToSet(t)
    BY DEF ToSet
  <2>1. PICK x \in DOMAIN s : p[x] = y
    BY <1>1
  <2>2. x \in DOMAIN t /\ t[x] = s[y]
    BY <2>1
  <2> QED BY <2>2 DEF ToSet
<1> QED BY <1>3, <1>4, <1>5

\* Appending a new element keeps the elements distinct.
LEMMA InjectiveAppend ==
    ASSUME NEW S, NEW s \in Seq(S), NEW x \in S, IsInjective(s), x \notin ToSet(s)
    PROVE  IsInjective(Append(s, x))
<1>1. \A k \in DOMAIN s : s[k] # x
  BY DEF ToSet
<1> QED BY <1>1 DEF IsInjective

\* So does concatenation with a sequence that has no element in common.
LEMMA InjectiveConcat ==
    ASSUME NEW S, NEW s \in Seq(S), NEW t \in Seq(S),
           IsInjective(s), IsInjective(t), ToSet(s) \cap ToSet(t) = {}
    PROVE  IsInjective(s \o t)
<1>1. \A k \in DOMAIN s, m \in DOMAIN t : s[k] # t[m]
  BY DEF ToSet
<1> SUFFICES ASSUME NEW k \in DOMAIN (s \o t), NEW m \in DOMAIN (s \o t),
                    (s \o t)[k] = (s \o t)[m]
             PROVE  k = m
  BY DEF IsInjective
<1>2. \A n \in DOMAIN (s \o t) :
        \/ n \in DOMAIN s /\ (s \o t)[n] = s[n]
        \/ n - Len(s) \in DOMAIN t /\ (s \o t)[n] = t[n - Len(s)] /\ n \in Nat
  OBVIOUS
<1>3. CASE k \in DOMAIN s /\ (s \o t)[k] = s[k]
  BY <1>1, <1>2, <1>3 DEF IsInjective
<1>4. CASE k - Len(s) \in DOMAIN t /\ (s \o t)[k] = t[k - Len(s)] /\ k \in Nat
  <2>1. m - Len(s) \in DOMAIN t /\ (s \o t)[m] = t[m - Len(s)] /\ m \in Nat
    BY <1>1, <1>2, <1>4
  <2>2. k - Len(s) = m - Len(s)
    BY <1>4, <2>1 DEF IsInjective
  <2> QED BY <1>4, <2>1, <2>2
<1> QED BY <1>2, <1>3, <1>4

\* And so does rearranging.
LEMMA InjectivePermuted ==
    ASSUME NEW S, NEW s \in Seq(S), NEW p \in Bijection(DOMAIN s, DOMAIN s),
           IsInjective(s)
    PROVE  IsInjective([k \in DOMAIN s |-> s[p[k]]])
<1>1. /\ p \in [DOMAIN s -> DOMAIN s]
      /\ \A x, y \in DOMAIN s : p[x] = p[y] => x = y
  BY DEF Bijection, Surjection, Injection, IsInjective
<1> QED BY <1>1 DEF IsInjective

-----------------------------------------------------------------------------
(* Type correctness *)

PlanNextOrOver == PlanNext \/ PlanOver

\* TypeOK is not inductive by itself: a hint is well-formed only because the
\* worker exists and the run it ends is inside the worker's container.
TypeInv ==
    /\ TypeOK
    /\ Len(order) <= i /\ IsInjective(order)
    /\ phase \in {"options", "parse", "build", "assign"} => worker = 0
    /\ phase \in {"assign", "sort", "extract", "start"} => threads # 0
    /\ phase \in {"sort", "extract"} => worker \in Workers
    /\ phase = "extract" =>
          consecutive_start < j /\ j <= Len(tc[worker]) + 1

\* The initial state is well-typed.
LEMMA TypeInit == Init => TypeInv
  BY ConstantsAssumption
  DEF Init, TypeInv, TypeOK, Modes, Formats, valid_lines, Workers, IsInjective

\* A list of keys that the planner sorts is one SortAssumption speaks of.
LEMMA SortedKeys ==
    ASSUME NEW s \in Seq(LBAs), Len(s) <= MaxLines, IsInjective(s)
    PROVE  /\ SortLbas(s) \in Seq(LBAs)
           /\ Len(SortLbas(s)) = Len(s)
           /\ ToSet(SortLbas(s)) = ToSet(s)
           /\ IsInjective(SortLbas(s))
<1>1. s \in KeyLists
  <2>1. Len(s) \in 0..MaxLines /\ s \in [1..Len(s) -> LBAs]
    BY ConstantsAssumption
  <2> QED BY <2>1 DEF KeyLists
<1>2. PICK p \in Bijection(DOMAIN s, DOMAIN s) :
          SortLbas(s) = [k \in DOMAIN s |-> s[p[k]]]
  BY <1>1, SortAssumption DEF IsPermutationOf
<1>3. /\ p \in [DOMAIN s -> DOMAIN s]
      /\ \A x, y \in DOMAIN s : p[x] = p[y] => x = y
  BY DEF Bijection, Surjection, Injection, IsInjective
<1>4. IsInjective(SortLbas(s))
  <2>1. ASSUME NEW x \in DOMAIN SortLbas(s), NEW y \in DOMAIN SortLbas(s),
               SortLbas(s)[x] = SortLbas(s)[y]
        PROVE  x = y
    <3>1. x \in DOMAIN s /\ y \in DOMAIN s /\ s[p[x]] = s[p[y]]
      BY <1>2, <2>1
    <3>2. p[x] = p[y]
      BY <1>3, <3>1 DEF IsInjective
    <3> QED BY <1>3, <3>1, <3>2
  <2> QED BY <2>1 DEF IsInjective
<1> QED BY <1>2, <1>4, PermutedSeq

\* Each action of the planner keeps TypeInv.
LEMMA TypeStep == TypeInv /\ [PlanNextOrOver]_planVars => TypeInv'
<1> SUFFICES ASSUME TypeInv, [PlanNextOrOver]_planVars PROVE TypeInv'
  OBVIOUS
<1> USE ConstantsAssumption
<1>1. CASE getopt
  BY <1>1 DEF getopt, TypeInv, TypeOK, optVars, mapVars, assignVars, hintVars,
              valid_lines, Workers
<1>2. CASE BadUsage
  BY <1>2 DEF BadUsage, TypeInv, TypeOK, optVars, mapVars, assignVars, hintVars,
              valid_lines, Workers
<1>3. CASE OptionsDone
  BY <1>3 DEF OptionsDone, TypeInv, TypeOK, optVars, mapVars, assignVars,
              hintVars, valid_lines, Workers
<1>4. ASSUME NEW info \in trace_info, parse_trace_info(info) PROVE TypeInv'
  <2>1. /\ infos' \in Seq(trace_info) /\ Len(infos') = Len(infos) + 1
        /\ Len(infos') <= MaxLines
    BY <1>4 DEF parse_trace_info, TypeInv, TypeOK, valid_lines
  <2>2. containers' \in [LBAs -> Seq(1..Len(infos'))]
    <3>1. containers' = containers
      BY <1>4 DEF parse_trace_info, mapVars
    <3>2. 1..Len(infos) \subseteq 1..Len(infos')
      BY <2>1 DEF TypeInv, TypeOK
    <3>3. containers \in [LBAs -> Seq(1..Len(infos))]
      BY DEF TypeInv, TypeOK, valid_lines
    <3>4. ASSUME NEW l \in LBAs PROVE containers[l] \in Seq(1..Len(infos'))
      <4>1. containers[l] \in Seq(1..Len(infos))
        BY <3>3
      <4> QED BY <3>2, <4>1, SeqSubset
    <3> QED BY <3>1, <3>3, <3>4
  <2> QED BY <1>4, <2>1, <2>2
      DEF parse_trace_info, TypeInv, TypeOK, optVars, mapVars, assignVars,
          hintVars, valid_lines, Workers
<1>5. CASE SkipLine
  BY <1>5 DEF SkipLine, TypeInv, TypeOK, planVars, optVars, mapVars, assignVars,
              hintVars, valid_lines, Workers
<1>6. CASE EndOfTrace
  BY <1>6 DEF EndOfTrace, TypeInv, TypeOK, optVars, mapVars, assignVars,
              hintVars, valid_lines, Workers
<1>7. CASE build_trace_containers
  <2> DEFINE lba == infos[i + 1].lba
  <2>1. i \in 0..Len(infos) /\ i < Len(infos) /\ infos \in Seq(trace_info)
    BY <1>7 DEF build_trace_containers, TypeInv, TypeOK, valid_lines
  <2>2. i + 1 \in 1..Len(infos) /\ lba \in LBAs
    <3>1. i + 1 \in DOMAIN infos
      BY <2>1
    <3>2. infos[i + 1] \in trace_info
      BY <2>1, <3>1, ElementType
    <3> QED BY <2>1, <3>1, <3>2 DEF trace_info
  <2>3. /\ order' \in Seq(LBAs) /\ Len(order') <= Len(order) + 1
        /\ IsInjective(order')
    <3>1. /\ order \in Seq(LBAs) /\ IsInjective(order)
          /\ order' = IF InMap(lba) THEN order ELSE Append(order, lba)
      BY <1>7 DEF build_trace_containers, TypeInv, TypeOK
    <3> HIDE DEF lba
    <3>2. CASE InMap(lba)
      BY <3>1, <3>2
    <3>3. CASE ~InMap(lba)
      <4>1. PICK f, n : f = Append(order, lba) /\ n = Len(order)
        OBVIOUS
      <4>2. /\ f \in Seq(LBAs) /\ Len(f) = n + 1 /\ f[n + 1] = lba /\ n \in Nat
            /\ DOMAIN f = 1..n + 1 /\ DOMAIN order = 1..n
            /\ \A k \in 1..n : f[k] = order[k]
        BY <2>2, <3>1, <4>1
      <4>3. \A k \in 1..n : order[k] # lba
        BY <3>3, <4>2 DEF InMap
      <4>4. ASSUME NEW x \in 1..n + 1, NEW y \in 1..n + 1, f[x] = f[y] PROVE x = y
        <5>1. /\ x \in 1..n \/ x = n + 1
              /\ y \in 1..n \/ y = n + 1
          BY <4>2
        <5>2. x \in 1..n /\ y \in 1..n => order[x] = order[y]
          BY <4>2, <4>4
        <5>3. x \in 1..n /\ y \in 1..n => x = y
          BY <3>1, <4>2, <5>2 DEF IsInjective
        <5> QED BY <4>2, <4>3, <4>4, <5>1, <5>3
      <4>5. IsInjective(f)
        BY <4>2, <4>4 DEF IsInjective
      <4> QED BY <3>1, <3>3, <4>1, <4>2, <4>5
    <3> QED BY <3>2, <3>3
  <2>4. containers' \in [LBAs -> Seq(1..Len(infos))]
    <3>1. /\ containers \in [LBAs -> Seq(1..Len(infos))]
          /\ containers' = [containers EXCEPT ![lba] = Append(@, i + 1)]
      BY <1>7 DEF build_trace_containers, TypeInv, TypeOK, valid_lines
    <3> HIDE DEF lba
    <3>2. containers[lba] \in Seq(1..Len(infos))
      BY <2>2, <3>1
    <3>3. Append(containers[lba], i + 1) \in Seq(1..Len(infos))
      BY <2>2, <3>2
    <3> QED BY <2>2, <3>1, <3>3
  <2>5. i' = i + 1 /\ infos' = infos /\ phase' = "build" /\ phase = "build"
    BY <1>7 DEF build_trace_containers
  <2>6. Len(order') <= i'
    BY <2>1, <2>3, <2>5 DEF TypeInv, TypeOK
  <2> QED BY <1>7, <2>1, <2>3, <2>4, <2>5, <2>6
      DEF build_trace_containers, TypeInv, TypeOK, optVars, assignVars,
          hintVars, valid_lines, Workers
<1>8. CASE AssignStart
  <2>1. order \in Seq(LBAs) /\ Len(order) <= MaxLines /\ IsInjective(order)
    BY <1>8 DEF AssignStart, TypeInv, TypeOK, valid_lines
  <2>2. order' \in Seq(LBAs) /\ Len(order') = Len(order) /\ IsInjective(order')
    BY <1>8, <2>1, SortedKeys DEF AssignStart
  <2>3. threads \in Nat /\ threads # 0 /\ threads' = threads
    BY <1>8 DEF AssignStart, TypeInv, TypeOK, optVars
  <2>4. /\ tc' \in [Workers -> Seq(1..Len(infos))]
        /\ hints_start' \in [Workers -> Nat] /\ hints_end' \in [Workers -> Nat]
        /\ buf' \in [Workers -> Nat]
    BY <1>8 DEF AssignStart
  <2> QED BY <1>8, <2>2, <2>3, <2>4
      DEF AssignStart, TypeInv, TypeOK, optVars, assignVars, valid_lines, Workers
<1>9. CASE DivideByZero
  BY <1>9 DEF DivideByZero, TypeInv, TypeOK, optVars, mapVars, assignVars,
              hintVars, valid_lines, Workers
<1>10. CASE AssignContainer
  <2> DEFINE size == Len(containers[order[b]])
             Lines(hit) == IF NextBefore(size, hit) THEN size
                           ELSE cur_thread_lines + size
             T(hit) == IF NextBefore(size, hit) THEN cur_thread + 1 ELSE cur_thread
  <2>1. order[b] \in LBAs /\ containers[order[b]] \in Seq(1..Len(infos))
    <3>1. order \in Seq(LBAs) /\ b \in DOMAIN order
      BY <1>10 DEF AssignContainer, TypeInv, TypeOK
    <3>2. order[b] \in LBAs
      BY <3>1, ElementType
    <3> QED BY <3>2 DEF TypeInv, TypeOK, valid_lines
  <2>2. PICK hit :
          /\ tc' = [tc EXCEPT ![T(hit)] = @ \o containers[order[b]]]
          /\ cur_thread' = IF Full(T(hit), Lines(hit)) THEN T(hit) + 1 ELSE T(hit)
          /\ cur_thread_lines' = IF Full(T(hit), Lines(hit)) THEN 0 ELSE Lines(hit)
    BY <1>10 DEF AssignContainer
  <2>3. tc' \in [Workers -> Seq(1..Len(infos))]
    <3>1. tc \in [Workers -> Seq(1..Len(infos))]
      BY <1>10 DEF AssignContainer, TypeInv, TypeOK, valid_lines
    <3>2. \A w \in Workers : tc[w] \o containers[order[b]] \in Seq(1..Len(infos))
      BY <2>1, <3>1
    <3> HIDE DEF T
    <3> QED BY <2>2, <3>1, <3>2
  <2>4. cur_thread' \in Nat /\ cur_thread_lines' \in Nat
    <3>1. size \in Nat /\ cur_thread \in Nat /\ cur_thread_lines \in Nat
      BY <2>1 DEF TypeInv, TypeOK
    <3> HIDE DEF size
    <3>2. T(hit) \in Nat /\ Lines(hit) \in Nat
      BY <3>1
    <3> HIDE DEF T, Lines
    <3> QED BY <2>2, <3>2
  <2>5. b' \in Nat \ {0}
    BY <1>10 DEF AssignContainer, TypeInv, TypeOK
  <2> QED BY <1>10, <2>3, <2>4, <2>5
      DEF AssignContainer, TypeInv, TypeOK, optVars, mapVars, hintVars,
          valid_lines, Workers
<1>11. CASE AssignDone
  <2>1. worker = 0 /\ 0 \in Workers
    BY <1>11 DEF AssignDone, TypeInv, TypeOK, Workers
  <2> QED
    BY <1>11, <2>1 DEF AssignDone, TypeInv, TypeOK, optVars, mapVars,
                       assignVars, hintVars, valid_lines, Workers
<1>12. CASE trace_container_sort_infomap_by_ts
  <2>1. /\ phase = "sort" /\ worker \in Workers /\ tc[worker] # <<>>
        /\ tc \in [Workers -> Seq(1..Len(infos))]
    BY <1>12 DEF trace_container_sort_infomap_by_ts, TypeInv, TypeOK, valid_lines
  <2>2. PICK p \in Bijection(DOMAIN tc[worker], DOMAIN tc[worker]) :
          tc' = [tc EXCEPT ![worker] = [k \in DOMAIN tc[worker] |-> tc[worker][p[k]]]]
    BY <1>12 DEF trace_container_sort_infomap_by_ts
  <2>3. tc[worker] \in Seq(1..Len(infos))
    BY <2>1
  <2>4. [k \in DOMAIN tc[worker] |-> tc[worker][p[k]]] \in Seq(1..Len(infos))
        /\ Len([k \in DOMAIN tc[worker] |-> tc[worker][p[k]]]) = Len(tc[worker])
    <3>1. PICK s, S : s = tc[worker] /\ S = 1..Len(infos)
      OBVIOUS
    <3>2. s \in Seq(S) /\ p \in Bijection(DOMAIN s, DOMAIN s)
      BY <2>3, <3>1
    <3>3. [k \in DOMAIN s |-> s[p[k]]] \in Seq(S) /\ Len([k \in DOMAIN s |-> s[p[k]]]) = Len(s)
      BY <3>2, PermutedSeq
    <3> QED BY <3>1, <3>3
  <2>5. /\ tc' \in [Workers -> Seq(1..Len(infos))]
        /\ Len(tc'[worker]) = Len(tc[worker]) /\ Len(tc[worker]) >= 1
    BY <2>1, <2>2, <2>3, <2>4
  <2>6. hints_start' \in [Workers -> Nat]
    BY SMTT(30), <1>12, <2>1 DEF trace_container_sort_infomap_by_ts, TypeInv, TypeOK
  <2>7. /\ phase' = "extract" /\ j' = 2 /\ consecutive_start' = 1
        /\ worker' = worker /\ threads' = threads /\ infos' = infos
        /\ j' <= Len(tc'[worker]) + 1
        /\ UNCHANGED <<mode, trace_format_type, max_continuous_4K_blks, i, order,
                       containers, b, cur_thread, cur_thread_lines, hints,
                       hints_end, buf>>
    BY <1>12, <2>5
    DEF trace_container_sort_infomap_by_ts, optVars, mapVars, assignVars
  <2>8. Workers' = Workers /\ valid_lines' = Len(infos)
    BY <2>7 DEF Workers, valid_lines
  <2>9. TypeOK'
    <3>1. tc' \in [Workers -> Seq(1..valid_lines)] /\ valid_lines' = valid_lines
      BY <2>5, <2>8 DEF valid_lines
    <3>2. j' \in Nat \ {0, 1} /\ consecutive_start' \in Nat \ {0}
      BY <2>7
    <3> QED BY <2>1, <2>6, <2>7, <2>8, <3>1, <3>2 DEF TypeInv, TypeOK
  <2>10. Len(order') <= i' /\ threads' # 0
    BY <2>1, <2>7 DEF TypeInv
  <2> QED BY <2>1, <2>5, <2>7, <2>8, <2>9, <2>10 DEF TypeInv
<1>13. CASE SortEmptyContainer
  BY <1>13 DEF SortEmptyContainer, TypeInv, TypeOK, optVars, mapVars,
               assignVars, hintVars, valid_lines, Workers
<1>14. ASSUME phase = "extract", NEW end \in Nat, consecutive_start < end,
              end <= Len(tc[worker]) + 1
       PROVE  Hint(end) \in trace_replay_hint /\ Hint(end).continuous_blks \in Nat
  <2>1. /\ tc[worker] \in Seq(1..Len(infos)) /\ infos \in Seq(trace_info)
        /\ consecutive_start \in Nat \ {0}
    BY <1>14 DEF TypeInv, TypeOK, valid_lines
  <2>2. consecutive_start \in DOMAIN tc[worker]
    BY <1>14, <2>1
  <2>3. tc[worker][consecutive_start] \in 1..Len(infos)
    BY <2>1, <2>2
  <2>4. Info(worker, consecutive_start) \in trace_info
    BY <2>1, <2>3 DEF Info
  <2>5. end - consecutive_start \in Nat
    BY <1>14, <2>1
  <2> QED BY <2>1, <2>4, <2>5 DEF Hint, trace_replay_hint, trace_info
<1>15. CASE ExtractConsecutive
  <2>1. /\ phase = "extract" /\ j <= Len(tc[worker]) /\ consecutive_start < j
        /\ j \in Nat /\ worker \in Workers /\ Len(tc[worker]) \in Nat
    BY <1>15 DEF ExtractConsecutive, TypeInv, TypeOK
  <2>2. Hint(j) \in trace_replay_hint /\ Hint(j).continuous_blks \in Nat
    BY <1>14, <2>1
  <2>3. /\ hints' \in Seq(trace_replay_hint)
        /\ buf' \in [Workers -> Nat]
        /\ consecutive_start' \in Nat \ {0} /\ consecutive_start' < j + 1
    <3>1. buf[worker] \in Nat /\ buf \in [Workers -> Nat]
      BY <2>1 DEF TypeInv, TypeOK
    <3>2. AtLeast(buf[worker], Hint(j).continuous_blks) \in Nat
      BY <2>2, <3>1 DEF AtLeast
    <3>3. CASE Continues
      BY <1>15, <2>1, <3>1, <3>3 DEF ExtractConsecutive, SaveHint, TypeInv, TypeOK
    <3>4. CASE ~Continues
      <4>1. /\ hints' = Append(hints, Hint(j)) /\ consecutive_start' = j
            /\ buf' = [buf EXCEPT ![worker] =
                                AtLeast(buf[worker], Hint(j).continuous_blks)]
        BY <1>15, <3>4 DEF ExtractConsecutive, SaveHint
      <4> QED BY <2>1, <2>2, <3>1, <3>2, <4>1 DEF TypeInv, TypeOK
    <3> QED BY <3>3, <3>4
  <2>4. /\ phase' = "extract" /\ j' = j + 1 /\ worker' = worker /\ tc' = tc
        /\ threads' = threads /\ infos' = infos /\ i' = i /\ order' = order
        /\ UNCHANGED <<mode, trace_format_type, max_continuous_4K_blks,
                       containers, b, cur_thread, cur_thread_lines,
                       hints_start, hints_end>>
    BY <1>15, <2>1 DEF ExtractConsecutive, optVars, mapVars, assignVars
  <2>5. Workers' = Workers /\ valid_lines' = valid_lines
    BY <2>4 DEF Workers, valid_lines
  <2>6. TypeOK'
    <3>1. j' \in Nat \ {0, 1}
      BY <2>4 DEF TypeInv, TypeOK
    <3> QED BY <2>1, <2>3, <2>4, <2>5, <3>1 DEF TypeInv, TypeOK
  <2> QED BY <2>1, <2>3, <2>4, <2>5, <2>6 DEF TypeInv
<1>16. CASE LastHint
  <2> DEFINE h == Hint(Len(tc[worker]) + 1)
  <2>1. /\ phase = "extract" /\ consecutive_start < j /\ worker \in Workers
        /\ j <= Len(tc[worker]) + 1 /\ j > Len(tc[worker]) /\ j \in Nat
        /\ Len(tc[worker]) \in Nat
    BY <1>16 DEF LastHint, TypeInv, TypeOK
  <2>2. h \in trace_replay_hint /\ h.continuous_blks \in Nat
    BY <1>14, <2>1 DEF TypeInv, TypeOK
  <2>3. /\ hints' \in Seq(trace_replay_hint)
        /\ hints_end' \in [Workers -> Nat]
        /\ buf' \in [Workers -> Nat]
    <3>1. /\ buf[worker] \in Nat /\ buf \in [Workers -> Nat]
          /\ hints_end \in [Workers -> Nat] /\ hints \in Seq(trace_replay_hint)
      BY <2>1 DEF TypeInv, TypeOK
    <3>2. AtLeast(buf[worker], h.continuous_blks) \in Nat
      BY <2>2, <3>1 DEF AtLeast
    <3>3. /\ hints' = Append(hints, h)
          /\ buf' = [buf EXCEPT ![worker] = AtLeast(buf[worker], h.continuous_blks)]
          /\ hints_end' = [hints_end EXCEPT ![worker] = Len(hints) + 1]
      BY <1>16 DEF LastHint, SaveHint
    <3> HIDE DEF h
    <3> QED BY <2>1, <2>2, <3>1, <3>2, <3>3
  <2>4. /\ worker' \in Nat
        /\ phase' \in {"sort", "start"}
        /\ phase' = "sort" => worker' \in 0..threads - 1
    BY <1>16, <2>1 DEF LastHint, TypeInv, TypeOK, Workers
  <2> QED BY <1>16, <2>1, <2>3, <2>4
      DEF LastHint, TypeInv, TypeOK, optVars, mapVars, assignVars, valid_lines,
          Workers
<1>17. CASE PlanOver
  BY <1>17 DEF PlanOver, TypeInv, TypeOK, planVars, optVars, mapVars,
               assignVars, hintVars, valid_lines, Workers
<1>18. CASE UNCHANGED planVars
  BY <1>18 DEF TypeInv, TypeOK, planVars, optVars, mapVars, assignVars, hintVars,
               valid_lines, Workers
<1> QED
  BY <1>1, <1>2, <1>3, <1>4, <1>5, <1>6, <1>7, <1>8, <1>9, <1>10, <1>11, <1>12,
     <1>13, <1>15, <1>16, <1>17, <1>18
  DEF PlanNextOrOver, PlanNext, Input, Progress

\* Every variable of the planner keeps its type, whatever the trace, the number
\* of threads and the lbas are: no index is ever outside its array.
THEOREM TypeCorrect == Spec => []TypeOK
<1>1. TypeInv => TypeOK
  BY DEF TypeInv
<1> QED BY <1>1, TypeInit, TypeStep, PTL DEF Spec, PlanNextOrOver

-----------------------------------------------------------------------------
(* Which worker gets which record *)

\* A container of the hashmap holds the records of its own lba, and the list
\* names every lba once.
ContainersByLba ==
    /\ \A l \in LBAs : \A x \in ToSet(containers[l]) : infos[x].lba = l
    /\ \A k, m \in DOMAIN order : order[k] = order[m] => k = m

\* Until the assignment starts its counters have their initial values.
AssignFresh ==
    phase \in {"options", "parse", "build"} =>
        b = 1 /\ cur_thread = 0 /\ cur_thread_lines = 0

\* A record that a worker holds came from a container already visited.
FromVisited ==
    phase \in {"assign", "sort", "extract", "start"} =>
        \A w \in Workers : \A x \in ToSet(tc[w]) :
            \E k \in DOMAIN order : k < b /\ order[k] = infos[x].lba

\* LbaAffinity needs to know that the container placed next has an lba that no
\* worker holds yet.
AffinityInv ==
    /\ TypeInv
    /\ ContainersByLba
    /\ AssignFresh
    /\ ShareNeverUnderflows
    /\ FromVisited
    /\ LbaAffinity

\* The share of a worker is a number.
LEMMA ShareType ==
    ASSUME TypeInv, threads # 0
    PROVE  per_thread_lines \in Nat
<1>1. valid_lines \in Nat /\ threads \in Nat \ {0}
  BY DEF TypeInv, TypeOK, valid_lines
<1> QED BY <1>1 DEF per_thread_lines

\* Nothing is assigned in the initial state.
LEMMA AffinityInit == Init => AffinityInv
<1> SUFFICES ASSUME Init PROVE AffinityInv
  OBVIOUS
<1>1. TypeInv
  BY TypeInit
<1>2. ContainersByLba
  BY DEF Init, ContainersByLba, ToSet
<1> QED BY <1>1, <1>2
    DEF Init, AffinityInv, AssignFresh, ShareNeverUnderflows, FromVisited, LbaAffinity

\* Each action of the planner keeps AffinityInv.
LEMMA AffinityStep == AffinityInv /\ [PlanNextOrOver]_planVars => AffinityInv'
<1> SUFFICES ASSUME AffinityInv, [PlanNextOrOver]_planVars PROVE AffinityInv'
  OBVIOUS
<1> USE ConstantsAssumption
<1>t. TypeInv /\ TypeInv'
  BY TypeStep DEF AffinityInv
<1>u. ASSUME UNCHANGED <<threads, infos, mapVars, assignVars, tc>>,
             \/ phase' = phase
             \/ phase' \in {"exited", "crashed"}
             \/ phase = "options" /\ phase' = "parse"
             \/ phase = "parse" /\ phase' = "build"
             \/ phase = "assign" /\ phase' = "sort"
             \/ phase \in {"sort", "extract"} /\ phase' \in {"sort", "extract", "start"}
      PROVE  AffinityInv'
  <2>1. UNCHANGED <<order, containers, b, cur_thread, cur_thread_lines,
                    Workers, per_thread_lines>>
    BY <1>u DEF mapVars, assignVars, Workers, per_thread_lines, valid_lines
  <2>2. ContainersByLba' /\ AssignFresh'
    BY <1>u, <2>1 DEF AffinityInv, ContainersByLba, AssignFresh
  <2>3. ShareNeverUnderflows'
    BY <1>u, <2>1 DEF AffinityInv, ShareNeverUnderflows
  <2>4. FromVisited' /\ LbaAffinity'
    BY <1>u, <2>1 DEF AffinityInv, FromVisited, LbaAffinity
  <2> QED BY <1>t, <2>2, <2>3, <2>4 DEF AffinityInv
<1>1. CASE getopt
  <2>1. /\ phase = "options" /\ phase' = phase
        /\ UNCHANGED <<infos, order, containers, b, cur_thread, cur_thread_lines>>
    BY <1>1 DEF getopt, mapVars, assignVars
  <2> QED BY <1>t, <2>1 DEF AffinityInv, ContainersByLba, AssignFresh,
                            ShareNeverUnderflows, FromVisited, LbaAffinity
<1>2. CASE BadUsage
  BY <1>2, <1>u DEF BadUsage, optVars
<1>3. CASE OptionsDone
  BY <1>3, <1>u DEF OptionsDone, optVars
<1>4. ASSUME NEW info \in trace_info, parse_trace_info(info) PROVE AffinityInv'
  <2>1. /\ phase = "parse" /\ phase' = phase /\ infos' = Append(infos, info)
        /\ UNCHANGED <<order, containers, b, cur_thread, cur_thread_lines>>
    BY <1>4 DEF parse_trace_info, mapVars, assignVars
  <2>2. \A x \in 1..Len(infos) : infos'[x] = infos[x]
    BY <2>1 DEF AffinityInv, TypeInv, TypeOK
  <2>3. \A l \in LBAs : ToSet(containers[l]) \subseteq 1..Len(infos)
    BY ToSetType DEF AffinityInv, TypeInv, TypeOK, valid_lines
  <2>4. ContainersByLba'
    BY <2>1, <2>2, <2>3 DEF AffinityInv, ContainersByLba
  <2> QED BY <1>t, <2>1, <2>4 DEF AffinityInv, AssignFresh,
                                  ShareNeverUnderflows, FromVisited, LbaAffinity
<1>5. CASE SkipLine
  BY <1>5, <1>u DEF SkipLine, planVars, optVars
<1>6. CASE EndOfTrace
  BY <1>6, <1>u DEF EndOfTrace, optVars
<1>7. CASE build_trace_containers
  <2> DEFINE lba == infos[i + 1].lba
  <2>1. /\ phase = "build" /\ phase' = phase /\ infos' = infos
        /\ UNCHANGED <<b, cur_thread, cur_thread_lines>>
        /\ order' = IF InMap(lba) THEN order ELSE Append(order, lba)
        /\ containers' = [containers EXCEPT ![lba] = Append(@, i + 1)]
    BY <1>7 DEF build_trace_containers, assignVars
  <2>2. i + 1 \in 1..Len(infos) /\ lba \in LBAs
    <3>1. i \in 0..Len(infos) /\ i < Len(infos) /\ infos \in Seq(trace_info)
      BY <1>7 DEF build_trace_containers, AffinityInv, TypeInv, TypeOK, valid_lines
    <3>2. infos[i + 1] \in trace_info
      BY <3>1, ElementType
    <3> QED BY <3>1, <3>2 DEF trace_info
  <2>3. \A l \in LBAs : \A x \in ToSet(containers'[l]) : infos[x].lba = l
    <3> SUFFICES ASSUME NEW l \in LBAs, NEW x \in ToSet(containers'[l])
                 PROVE  infos[x].lba = l
      OBVIOUS
    <3>1. containers \in [LBAs -> Seq(1..Len(infos))]
      BY DEF AffinityInv, TypeInv, TypeOK, valid_lines
    <3>2. CASE l # lba
      BY <2>1, <3>1, <3>2 DEF AffinityInv, ContainersByLba
    <3>3. CASE l = lba
      <4> HIDE DEF lba
      <4>1. containers'[l] = Append(containers[l], i + 1)
        BY <2>1, <3>1, <3>3
      <4>2. ToSet(containers'[l]) = ToSet(containers[l]) \cup {i + 1}
        BY <2>2, <3>1, <4>1, ToSetAppend
      <4>3. CASE x \in ToSet(containers[l])
        BY <4>3 DEF AffinityInv, ContainersByLba
      <4>4. CASE x = i + 1
        BY <3>3, <4>4 DEF lba
      <4> QED BY <4>2, <4>3, <4>4
    <3> QED BY <3>2, <3>3
  <2>4. \A k, m \in DOMAIN order' : order'[k] = order'[m] => k = m
    <3>1. order \in Seq(LBAs)
      BY DEF AffinityInv, TypeInv, TypeOK
    <3>2. \A k, m \in DOMAIN order : order[k] = order[m] => k = m
      BY DEF AffinityInv, ContainersByLba
    <3>3. CASE InMap(lba)
      BY <2>1, <3>2, <3>3
    <3>4. CASE ~InMap(lba)
      <4>1. order' = Append(order, lba)
        BY <2>1, <3>4
      <4>2. \A k \in DOMAIN order : order[k] # lba
        BY <3>4 DEF InMap
      <4> HIDE DEF lba
      <4> QED BY <2>2, <3>1, <3>2, <4>1, <4>2
    <3> QED BY <3>3, <3>4
  <2> QED BY <1>t, <2>1, <2>3, <2>4
      DEF AffinityInv, ContainersByLba, AssignFresh, ShareNeverUnderflows,
          FromVisited, LbaAffinity
<1>8. CASE AssignStart
  <2>1. /\ phase' = "assign" /\ threads # 0 /\ order' = SortLbas(order)
        /\ b = 1 /\ cur_thread = 0 /\ cur_thread_lines = 0
        /\ tc' = [w \in Workers |-> <<>>]
        /\ UNCHANGED <<threads, infos, containers, b, cur_thread, cur_thread_lines>>
    BY <1>8 DEF AssignStart, optVars, assignVars, AffinityInv, AssignFresh
  <2>2. order \in Seq(LBAs) /\ Len(order) <= MaxLines /\ IsInjective(order)
    BY <1>8 DEF AssignStart, AffinityInv, TypeInv, TypeOK, valid_lines
  <2>3. UNCHANGED <<Workers, per_thread_lines>>
    BY <2>1 DEF Workers, per_thread_lines, valid_lines
  <2>4. ContainersByLba'
    <3>1. \A k, m \in DOMAIN order' : order'[k] = order'[m] => k = m
      <4>1. IsInjective(order')
        BY <2>1, <2>2, SortedKeys
      <4> QED BY <4>1 DEF IsInjective
    <3> QED BY <2>1, <3>1 DEF AffinityInv, ContainersByLba
  <2>5. ShareNeverUnderflows'
    <3>1. per_thread_lines \in Nat /\ threads \in Nat \ {0}
      BY <1>t, <2>1, ShareType DEF TypeInv, TypeOK
    <3>2. 0 \in Workers
      BY <3>1 DEF Workers
    <3> QED BY <2>1, <2>3, <3>1, <3>2 DEF ShareNeverUnderflows
  <2>6. \A w \in Workers : ToSet(tc'[w]) = {}
    BY <2>1 DEF ToSet
  <2> QED BY <1>t, <2>1, <2>3, <2>4, <2>5, <2>6
      DEF AffinityInv, AssignFresh, FromVisited, LbaAffinity
<1>9. CASE DivideByZero
  BY <1>9, <1>u DEF DivideByZero, optVars
<1>10. CASE AssignContainer
  <2> DEFINE _tc == containers[order[b]]
             size == Len(_tc)
             Lines(hit) == IF NextBefore(size, hit) THEN size
                           ELSE cur_thread_lines + size
             T(hit) == IF NextBefore(size, hit) THEN cur_thread + 1 ELSE cur_thread
  <2>1. PICK hit :
          /\ tc' = [tc EXCEPT ![T(hit)] = @ \o _tc]
          /\ cur_thread' = IF Full(T(hit), Lines(hit)) THEN T(hit) + 1 ELSE T(hit)
          /\ cur_thread_lines' = IF Full(T(hit), Lines(hit)) THEN 0 ELSE Lines(hit)
    BY <1>10 DEF AssignContainer
  <2>2. /\ phase = "assign" /\ phase' = "assign" /\ b' = b + 1
        /\ UNCHANGED <<threads, infos, order, containers>>
    BY <1>10 DEF AssignContainer, optVars, mapVars
  <2>3. UNCHANGED <<Workers, per_thread_lines>>
    BY <2>2 DEF Workers, per_thread_lines, valid_lines
  <2>4. /\ b \in DOMAIN order /\ order \in Seq(LBAs) /\ b \in Nat \ {0}
        /\ order[b] \in LBAs /\ _tc \in Seq(1..Len(infos))
    <3>1. order \in Seq(LBAs) /\ b \in DOMAIN order /\ b \in Nat \ {0}
      BY <1>10 DEF AssignContainer, AffinityInv, TypeInv, TypeOK
    <3>2. order[b] \in LBAs
      BY <3>1, ElementType
    <3> QED BY <3>1, <3>2 DEF AffinityInv, TypeInv, TypeOK, valid_lines
  <2>5. threads \in Nat \ {0} /\ per_thread_lines \in Nat
    BY <1>t, <2>2, ShareType DEF TypeInv, TypeOK
  <2>6. cur_thread \in Workers /\ size \in Nat /\ cur_thread_lines \in Nat
    BY <2>2, <2>4 DEF AffinityInv, ShareNeverUnderflows, TypeInv, TypeOK
  <2>7. T(hit) \in Workers /\ Lines(hit) \in Nat
    <3> HIDE DEF size
    <3> QED BY <2>5, <2>6 DEF NextBefore, Workers
  <2> HIDE DEF T, Lines
  <2>8. ShareNeverUnderflows'
    <3>1. CASE Full(T(hit), Lines(hit))
      <4>1. /\ cur_thread' = T(hit) + 1 /\ cur_thread_lines' = 0
            /\ T(hit) # threads - 1
        BY <2>1, <3>1 DEF Full
      <4>2. cur_thread' \in Workers
        BY <2>5, <2>7, <4>1 DEF Workers
      <4> QED BY <2>2, <2>3, <2>5, <4>1, <4>2 DEF ShareNeverUnderflows
    <3>2. CASE ~Full(T(hit), Lines(hit))
      <4>1. cur_thread' = T(hit) /\ cur_thread_lines' = Lines(hit)
        BY <2>1, <3>2
      <4>2. T(hit) # threads - 1 => Lines(hit) <= per_thread_lines
        BY <2>5, <2>7, <3>2 DEF Full
      <4> QED BY <2>2, <2>3, <2>7, <4>1, <4>2 DEF ShareNeverUnderflows
    <3> QED BY <3>1, <3>2
  <2>9. tc \in [Workers -> Seq(1..Len(infos))]
    BY <2>2 DEF AffinityInv, TypeInv, TypeOK, valid_lines
  <2>10. ASSUME NEW w \in Workers, NEW x \in ToSet(tc'[w])
         PROVE  \/ x \in ToSet(tc[w])
                \/ w = T(hit) /\ x \in ToSet(_tc)
    <3>1. CASE w = T(hit)
      <4>1. tc'[w] = tc[w] \o _tc
        BY <2>1, <2>9, <3>1
      <4>2. tc[w] \in Seq(1..Len(infos))
        BY <2>9
      <4> HIDE DEF _tc
      <4>3. ToSet(tc'[w]) = ToSet(tc[w]) \cup ToSet(_tc)
        BY <2>4, <4>1, <4>2, ToSetConcat
      <4> QED BY <3>1, <4>3
    <3>2. CASE w # T(hit)
      BY <2>1, <2>9, <3>2
    <3> QED BY <3>1, <3>2
  <2>11. ASSUME NEW w \in Workers, NEW x \in ToSet(tc[w])
         PROVE  /\ \E k \in DOMAIN order : k < b /\ order[k] = infos[x].lba
                /\ infos[x].lba # order[b]
    <3>1. PICK k \in DOMAIN order : k < b /\ order[k] = infos[x].lba
      BY <2>2 DEF AffinityInv, FromVisited
    <3>2. order[k] # order[b]
      BY <2>4, <3>1 DEF AffinityInv, ContainersByLba
    <3> QED BY <3>1, <3>2
  <2>12. \A x \in ToSet(_tc) : infos[x].lba = order[b]
    BY <2>4 DEF AffinityInv, ContainersByLba
  <2> HIDE DEF _tc
  <2>13. FromVisited'
    <3> SUFFICES ASSUME NEW w \in Workers, NEW x \in ToSet(tc'[w])
                 PROVE  \E k \in DOMAIN order : k < b + 1 /\ order[k] = infos[x].lba
      BY <2>2, <2>3 DEF FromVisited
    <3>1. CASE x \in ToSet(tc[w])
      BY <2>4, <2>11, <3>1
    <3>2. CASE x \in ToSet(_tc)
      BY <2>4, <2>12, <3>2
    <3> QED BY <2>10, <3>1, <3>2
  <2>14. LbaAffinity'
    <3> SUFFICES ASSUME NEW w \in Workers, NEW v \in Workers,
                        NEW x \in ToSet(tc'[w]), NEW y \in ToSet(tc'[v]),
                        infos[x].lba = infos[y].lba
                 PROVE  w = v
      BY <2>2, <2>3 DEF LbaAffinity
    <3>1. CASE x \in ToSet(tc[w]) /\ y \in ToSet(tc[v])
      BY <2>2, <3>1 DEF AffinityInv, LbaAffinity
    <3>2. CASE x \notin ToSet(tc[w]) \/ y \notin ToSet(tc[v])
      BY <2>10, <2>11, <2>12, <3>2
    <3> QED BY <3>1, <3>2
  <2>15. ContainersByLba'
    BY <2>2 DEF AffinityInv, ContainersByLba
  <2> QED BY <1>t, <2>2, <2>8, <2>13, <2>14, <2>15 DEF AffinityInv, AssignFresh
<1>11. CASE AssignDone
  BY <1>11, <1>u DEF AssignDone, optVars
<1>12. CASE trace_container_sort_infomap_by_ts
  <2>1. /\ phase = "sort" /\ worker \in Workers /\ phase' = "extract"
        /\ tc \in [Workers -> Seq(1..Len(infos))]
        /\ UNCHANGED <<threads, infos, order, containers, b>>
    BY <1>12 DEF trace_container_sort_infomap_by_ts, AffinityInv, TypeInv, TypeOK,
                 valid_lines, optVars, mapVars, assignVars
  <2>2. PICK p \in Bijection(DOMAIN tc[worker], DOMAIN tc[worker]) :
          tc' = [tc EXCEPT ![worker] = [k \in DOMAIN tc[worker] |-> tc[worker][p[k]]]]
    BY <1>12 DEF trace_container_sort_infomap_by_ts
  <2>3. \A w \in Workers : ToSet(tc'[w]) = ToSet(tc[w])
    <3>1. tc[worker] \in Seq(1..Len(infos))
      BY <2>1
    <3>2. ToSet([k \in DOMAIN tc[worker] |-> tc[worker][p[k]]]) = ToSet(tc[worker])
      <4>1. PICK s, S : s = tc[worker] /\ S = 1..Len(infos)
        OBVIOUS
      <4>2. s \in Seq(S) /\ p \in Bijection(DOMAIN s, DOMAIN s)
        BY <3>1, <4>1
      <4>3. ToSet([k \in DOMAIN s |-> s[p[k]]]) = ToSet(s)
        BY <4>2, PermutedSeq
      <4> QED BY <4>1, <4>3
    <3> QED BY <2>1, <2>2, <3>2
  <2>4. Workers' = Workers
    BY <2>1 DEF Workers
  <2> QED BY <1>t, <2>1, <2>3, <2>4
      DEF AffinityInv, ContainersByLba, AssignFresh, ShareNeverUnderflows,
          FromVisited, LbaAffinity
<1>13. CASE SortEmptyContainer
  BY <1>13, <1>u DEF SortEmptyContainer, optVars
<1>15. CASE ExtractConsecutive
  BY <1>15, <1>u DEF ExtractConsecutive, optVars
<1>16. CASE LastHint
  BY <1>16, <1>u DEF LastHint, optVars
<1>17. CASE PlanOver
  BY <1>17, <1>u DEF PlanOver, planVars, optVars
<1>18. CASE UNCHANGED planVars
  BY <1>18, <1>u DEF planVars, optVars
<1> QED
  BY <1>1, <1>2, <1>3, <1>4, <1>5, <1>6, <1>7, <1>8, <1>9, <1>10, <1>11, <1>12,
     <1>13, <1>15, <1>16, <1>17, <1>18
  DEF PlanNextOrOver, PlanNext, Input, Progress

\* The unsigned subtraction of the assignment loop never wraps and the loop
\* never runs past the last worker, whatever the random numbers are.
THEOREM ShareSafe == Spec => []ShareNeverUnderflows
<1>1. AffinityInv => ShareNeverUnderflows
  BY DEF AffinityInv
<1> QED BY <1>1, AffinityInit, AffinityStep, PTL DEF Spec, PlanNextOrOver

\* Two records of one lba are always replayed by the same worker.
THEOREM AffinityHolds == Spec => []LbaAffinity
<1>1. AffinityInv => LbaAffinity
  BY DEF AffinityInv
<1> QED BY <1>1, AffinityInit, AffinityStep, PTL DEF Spec, PlanNextOrOver

-----------------------------------------------------------------------------
(* Every record is planned exactly once *)

\* The records read so far are in the container of their lba, each once, and
\* their lbas are in the list.
BuiltOnce ==
    /\ \A n \in 1..i : /\ n \in ToSet(containers[infos[n].lba])
                       /\ infos[n].lba \in ToSet(order)
    /\ \A l \in LBAs : /\ ToSet(containers[l]) \subseteq 1..i
                       /\ IsInjective(containers[l])

\* The workers hold the records of the lbas visited so far; none holds a record
\* twice.  (That no two workers share a record is LbaAffinity.)
HeldOnce ==
    phase \in {"assign", "sort", "extract", "start"} =>
        /\ i = valid_lines
        /\ \A w \in Workers : IsInjective(tc[w])
        /\ \A n \in 1..valid_lines : \A k \in DOMAIN order :
              k < b /\ order[k] = infos[n].lba =>
                  \E w \in Workers : n \in ToSet(tc[w])
        /\ phase # "assign" => b > Len(order)

OnceInv == AffinityInv /\ BuiltOnce /\ HeldOnce

\* No record is held in the initial state.
LEMMA OnceInit == Init => OnceInv
<1> SUFFICES ASSUME Init PROVE OnceInv
  OBVIOUS
<1>1. AffinityInv /\ i = 0 /\ phase = "options"
  BY AffinityInit DEF Init
<1>2. \A l \in LBAs : ToSet(containers[l]) = {} /\ IsInjective(containers[l])
  BY DEF Init, ToSet, IsInjective
<1> QED BY <1>1, <1>2 DEF OnceInv, BuiltOnce, HeldOnce

\* Each action of the planner keeps OnceInv.
LEMMA OnceStep == OnceInv /\ [PlanNextOrOver]_planVars => OnceInv'
<1> SUFFICES ASSUME OnceInv, [PlanNextOrOver]_planVars PROVE OnceInv'
  OBVIOUS
<1> USE ConstantsAssumption
<1>t. AffinityInv /\ AffinityInv' /\ TypeInv /\ TypeOK
  BY AffinityStep DEF OnceInv, AffinityInv, TypeInv
<1>u. ASSUME UNCHANGED <<threads, infos, i, order, containers, b, tc>>,
             \/ phase' = phase
             \/ phase' \in {"options", "parse", "build", "exited", "crashed"}
             \/ phase = "assign" /\ phase' = "sort" /\ b > Len(order)
             \/ phase \in {"sort", "extract"} /\ phase' \in {"sort", "extract", "start"}
      PROVE  OnceInv'
  <2>1. UNCHANGED <<Workers, valid_lines>>
    BY <1>u DEF Workers, valid_lines
  <2>2. BuiltOnce'
    BY <1>u DEF OnceInv, BuiltOnce
  <2>3. HeldOnce'
    BY <1>u, <2>1 DEF OnceInv, HeldOnce
  <2> QED BY <1>t, <2>2, <2>3 DEF OnceInv
<1>1. CASE getopt
  <2>1. /\ phase = "options" /\ phase' = phase
        /\ UNCHANGED <<infos, i, order, containers>>
    BY <1>1 DEF getopt, mapVars
  <2> QED BY <1>t, <2>1 DEF OnceInv, BuiltOnce, HeldOnce
<1>2. CASE BadUsage
  BY <1>2, <1>u DEF BadUsage, optVars, mapVars, assignVars
<1>3. CASE OptionsDone
  BY <1>3, <1>u DEF OptionsDone, optVars, mapVars, assignVars
<1>4. ASSUME NEW info \in trace_info, parse_trace_info(info) PROVE OnceInv'
  <2>1. /\ phase = "parse" /\ phase' = phase /\ infos' = Append(infos, info)
        /\ UNCHANGED <<i, order, containers>>
    BY <1>4 DEF parse_trace_info, mapVars
  <2>2. \A n \in 1..i : infos'[n] = infos[n]
    BY <1>t, <2>1 DEF TypeOK, valid_lines
  <2>3. BuiltOnce'
    BY <2>1, <2>2 DEF OnceInv, BuiltOnce
  <2> QED BY <1>t, <2>1, <2>3 DEF OnceInv, HeldOnce
<1>5. CASE SkipLine
  BY <1>5, <1>u DEF SkipLine, planVars, optVars, mapVars, assignVars
<1>6. CASE EndOfTrace
  BY <1>6, <1>u DEF EndOfTrace, optVars, mapVars, assignVars
<1>7. CASE build_trace_containers
  <2> DEFINE lba == infos[i + 1].lba
  <2>1. /\ phase = "build" /\ phase' = phase /\ infos' = infos /\ i' = i + 1
        /\ order' = IF InMap(lba) THEN order ELSE Append(order, lba)
        /\ containers' = [containers EXCEPT ![lba] = Append(@, i + 1)]
    BY <1>7 DEF build_trace_containers
  <2>2. i \in Nat /\ i + 1 \in 1..Len(infos) /\ lba \in LBAs
    <3>1. i \in 0..Len(infos) /\ i < Len(infos) /\ infos \in Seq(trace_info)
      BY <1>7, <1>t DEF build_trace_containers, TypeOK, valid_lines
    <3>2. infos[i + 1] \in trace_info
      BY <3>1, ElementType
    <3> QED BY <3>1, <3>2 DEF trace_info
  <2>3. \A n \in 1..i : infos[n].lba \in LBAs
    <3> SUFFICES ASSUME NEW n \in 1..i PROVE infos[n].lba \in LBAs
      OBVIOUS
    <3>1. infos \in Seq(trace_info) /\ n \in DOMAIN infos
      BY <1>t, <2>2 DEF TypeOK
    <3>2. infos[n] \in trace_info
      BY <3>1, ElementType
    <3> QED BY <3>2 DEF trace_info
  <2>4. containers \in [LBAs -> Seq(1..Len(infos))] /\ order \in Seq(LBAs)
    BY <1>t DEF TypeOK, valid_lines
  <2>5. ToSet(order) \cup {lba} \subseteq ToSet(order')
    <3>1. CASE InMap(lba)
      BY <2>1, <3>1 DEF InMap, ToSet
    <3>2. CASE ~InMap(lba)
      <4>1. order' = Append(order, lba)
        BY <2>1, <3>2
      <4> HIDE DEF lba
      <4> QED BY <2>2, <2>4, <4>1, ToSetAppend
    <3> QED BY <3>1, <3>2
  <2>6. \A l \in LBAs : l # lba => containers'[l] = containers[l]
    BY <2>1, <2>4
  <2>7. /\ containers'[lba] = Append(containers[lba], i + 1)
        /\ ToSet(containers'[lba]) = ToSet(containers[lba]) \cup {i + 1}
        /\ IsInjective(containers'[lba])
    <3>1. ToSet(containers[lba]) \subseteq 1..i /\ IsInjective(containers[lba])
      BY <2>2 DEF OnceInv, BuiltOnce
    <3> HIDE DEF lba
    <3>2. containers[lba] \in Seq(1..Len(infos))
      BY <2>2, <2>4
    <3>3. containers'[lba] = Append(containers[lba], i + 1)
      BY <2>1, <2>2, <2>4
    <3>4. i + 1 \notin ToSet(containers[lba])
      BY <2>2, <3>1
    <3>5. ToSet(containers'[lba]) = ToSet(containers[lba]) \cup {i + 1}
      BY <2>2, <3>2, <3>3, ToSetAppend
    <3>6. IsInjective(containers'[lba])
      BY <2>2, <3>1, <3>2, <3>3, <3>4, InjectiveAppend
    <3> QED BY <3>3, <3>5, <3>6
  <2>8. ASSUME NEW n \in 1..i + 1
        PROVE  /\ n \in ToSet(containers'[infos[n].lba])
               /\ infos[n].lba \in ToSet(order')
    <3>1. CASE n = i + 1
      BY <2>5, <2>7, <3>1
    <3>2. CASE n # i + 1
      <4>1. n \in 1..i
        BY <2>2, <3>2
      <4>2. n \in ToSet(containers[infos[n].lba]) /\ infos[n].lba \in ToSet(order)
        BY <4>1 DEF OnceInv, BuiltOnce
      <4>3. CASE infos[n].lba = lba
        BY <2>5, <2>7, <4>2, <4>3
      <4>4. CASE infos[n].lba # lba
        BY <2>3, <2>5, <2>6, <4>1, <4>2, <4>4
      <4> QED BY <4>3, <4>4
    <3> QED BY <3>1, <3>2
  <2>9. ASSUME NEW l \in LBAs
        PROVE  ToSet(containers'[l]) \subseteq 1..i + 1 /\ IsInjective(containers'[l])
    <3>1. /\ ToSet(containers[l]) \subseteq 1..i /\ IsInjective(containers[l])
          /\ 1..i \subseteq 1..i + 1 /\ i + 1 \in 1..i + 1
      BY <2>2 DEF OnceInv, BuiltOnce
    <3>2. CASE l = lba
      BY <2>7, <3>1, <3>2
    <3>3. CASE l # lba
      BY <2>6, <3>1, <3>3
    <3> QED BY <3>2, <3>3
  <2>10. BuiltOnce'
    BY <2>1, <2>8, <2>9 DEF BuiltOnce
  <2> QED BY <1>t, <2>1, <2>10 DEF OnceInv, HeldOnce
<1>8. CASE AssignStart
  <2>1. /\ phase' = "assign" /\ i = valid_lines /\ order' = SortLbas(order)
        /\ b' = b /\ b = 1 /\ tc' = [w \in Workers |-> <<>>]
        /\ UNCHANGED <<threads, infos, i, containers>>
    BY <1>8, <1>t DEF AssignStart, optVars, assignVars, AffinityInv, AssignFresh
  <2>2. order \in Seq(LBAs) /\ Len(order) <= MaxLines /\ IsInjective(order)
    BY <1>t, <2>1 DEF TypeInv, TypeOK
  <2>3. ToSet(order') = ToSet(order) /\ order' \in Seq(LBAs)
    BY <2>1, <2>2, SortedKeys
  <2>4. UNCHANGED <<Workers, valid_lines>>
    BY <2>1 DEF Workers, valid_lines
  <2>5. BuiltOnce'
    BY <2>1, <2>3 DEF OnceInv, BuiltOnce
  <2>6. \A w \in Workers : IsInjective(tc'[w])
    BY <2>1 DEF IsInjective
  <2>7. \A k \in DOMAIN order' : ~(k < b')
    BY <2>1, <2>3
  <2>8. HeldOnce'
    BY <2>1, <2>4, <2>6, <2>7 DEF HeldOnce
  <2> QED BY <1>t, <2>5, <2>8 DEF OnceInv
<1>9. CASE DivideByZero
  BY <1>9, <1>u DEF DivideByZero, optVars, mapVars, assignVars
<1>10. CASE AssignContainer
  <2> DEFINE _tc == containers[order[b]]
  <2>1. PICK t :
          /\ tc' = [tc EXCEPT ![t] = @ \o _tc]
          /\ t \in {cur_thread, cur_thread + 1}
          /\ t = cur_thread + 1 => cur_thread # threads - 1
    <3> DEFINE T(hit) == IF NextBefore(Len(_tc), hit) THEN cur_thread + 1
                                                      ELSE cur_thread
    <3>1. PICK hit : tc' = [tc EXCEPT ![T(hit)] = @ \o _tc]
      BY <1>10 DEF AssignContainer
    <3>2. cur_thread \in Nat
      BY <1>t DEF TypeOK
    <3>3. T(hit) = cur_thread + 1 => cur_thread # threads - 1
      BY <3>2 DEF NextBefore
    <3>4. T(hit) \in {cur_thread, cur_thread + 1}
      OBVIOUS
    <3> HIDE DEF T
    <3> QED BY <3>1, <3>3, <3>4
  <2>2. /\ phase = "assign" /\ phase' = "assign" /\ b' = b + 1
        /\ UNCHANGED <<threads, infos, i, order, containers>>
    BY <1>10 DEF AssignContainer, optVars, mapVars
  <2>3. UNCHANGED <<Workers, valid_lines>>
    BY <2>2 DEF Workers, valid_lines
  <2>4. t \in Workers
    <3>1. cur_thread \in Workers /\ threads \in Nat
      BY <1>t, <2>2 DEF AffinityInv, ShareNeverUnderflows, TypeOK
    <3> QED BY <2>1, <3>1 DEF Workers
  <2>5. /\ b \in DOMAIN order /\ order \in Seq(LBAs) /\ b \in Nat \ {0}
        /\ order[b] \in LBAs /\ _tc \in Seq(1..Len(infos))
    <3>1. order \in Seq(LBAs) /\ b \in DOMAIN order /\ b \in Nat \ {0}
      BY <1>10, <1>t DEF AssignContainer, TypeOK
    <3>2. order[b] \in LBAs
      BY <3>1, ElementType
    <3> QED BY <1>t, <3>1, <3>2 DEF TypeOK, valid_lines
  <2>6. tc \in [Workers -> Seq(1..Len(infos))]
    BY <1>t, <2>2 DEF TypeOK, valid_lines
  <2>7. ToSet(tc[t]) \cap ToSet(_tc) = {}
    <3>1. \A x \in ToSet(_tc) : infos[x].lba = order[b]
      BY <1>t, <2>5 DEF AffinityInv, ContainersByLba
    <3>2. ASSUME NEW x \in ToSet(tc[t]) PROVE infos[x].lba # order[b]
      <4>1. PICK k \in DOMAIN order : k < b /\ order[k] = infos[x].lba
        BY <1>t, <2>2, <2>4 DEF AffinityInv, FromVisited
      <4> QED BY <1>t, <2>5, <4>1 DEF AffinityInv, ContainersByLba
    <3> QED BY <3>1, <3>2
  <2>8. IsInjective(_tc) /\ \A n \in 1..valid_lines :
            infos[n].lba = order[b] => n \in ToSet(_tc)
    BY <2>2, <2>5 DEF OnceInv, BuiltOnce, HeldOnce
  <2> HIDE DEF _tc
  <2>9. /\ tc'[t] = tc[t] \o _tc
        /\ \A w \in Workers : w # t => tc'[w] = tc[w]
    BY <2>1, <2>4, <2>6
  <2>10. ToSet(tc'[t]) = ToSet(tc[t]) \cup ToSet(_tc)
    <3>1. tc[t] \in Seq(1..Len(infos))
      BY <2>4, <2>6
    <3> QED BY <2>5, <2>9, <3>1, ToSetConcat
  <2>11. \A w \in Workers : IsInjective(tc'[w])
    <3>1. tc[t] \in Seq(1..Len(infos)) /\ \A w \in Workers : IsInjective(tc[w])
      BY <2>2, <2>4, <2>6 DEF OnceInv, HeldOnce
    <3>2. IsInjective(tc[t] \o _tc)
      BY <2>4, <2>5, <2>7, <2>8, <3>1, InjectiveConcat
    <3> QED BY <2>9, <3>1, <3>2
  <2>12. ASSUME NEW n \in 1..valid_lines, NEW k \in DOMAIN order, k < b + 1,
                order[k] = infos[n].lba
         PROVE  \E w \in Workers : n \in ToSet(tc'[w])
    <3>1. CASE k = b
      BY <2>4, <2>8, <2>10, <2>12, <3>1
    <3>2. CASE k # b
      <4>1. k < b
        BY <2>5, <2>12, <3>2
      <4>2. PICK w \in Workers : n \in ToSet(tc[w])
        BY <2>2, <2>12, <4>1 DEF OnceInv, HeldOnce
      <4> QED BY <2>9, <2>10, <4>2
    <3> QED BY <3>1, <3>2
  <2>13. HeldOnce'
    BY <2>2, <2>3, <2>11, <2>12 DEF OnceInv, HeldOnce
  <2>14. BuiltOnce'
    BY <2>2 DEF OnceInv, BuiltOnce
  <2> QED BY <1>t, <2>13, <2>14 DEF OnceInv
<1>11. CASE AssignDone
  BY <1>11, <1>u DEF AssignDone, optVars, mapVars, assignVars
<1>12. CASE trace_container_sort_infomap_by_ts
  <2>1. /\ phase = "sort" /\ worker \in Workers /\ phase' = "extract"
        /\ tc \in [Workers -> Seq(1..Len(infos))]
        /\ UNCHANGED <<threads, infos, i, order, containers, b>>
    BY <1>12, <1>t DEF trace_container_sort_infomap_by_ts, TypeInv, TypeOK,
                       valid_lines, optVars, mapVars, assignVars
  <2>2. PICK p \in Bijection(DOMAIN tc[worker], DOMAIN tc[worker]) :
          tc' = [tc EXCEPT ![worker] = [k \in DOMAIN tc[worker] |-> tc[worker][p[k]]]]
    BY <1>12 DEF trace_container_sort_infomap_by_ts
  <2>3. /\ tc[worker] \in Seq(1..Len(infos)) /\ IsInjective(tc[worker])
    BY <2>1 DEF OnceInv, HeldOnce
  <2>4. /\ ToSet([k \in DOMAIN tc[worker] |-> tc[worker][p[k]]]) = ToSet(tc[worker])
        /\ IsInjective([k \in DOMAIN tc[worker] |-> tc[worker][p[k]]])
    BY <2>3, PermutedSeq, InjectivePermuted
  <2>5. \A w \in Workers : ToSet(tc'[w]) = ToSet(tc[w])
    BY <2>1, <2>2, <2>4
  <2>6. \A w \in Workers : IsInjective(tc'[w])
    <3>1. \A w \in Workers : IsInjective(tc[w])
      BY <2>1 DEF OnceInv, HeldOnce
    <3> QED BY <2>1, <2>2, <2>4, <3>1
  <2>7. UNCHANGED <<Workers, valid_lines>>
    BY <2>1 DEF Workers, valid_lines
  <2>8. BuiltOnce'
    BY <2>1 DEF OnceInv, BuiltOnce
  <2>9. HeldOnce'
    BY <2>1, <2>5, <2>6, <2>7 DEF OnceInv, HeldOnce
  <2> QED BY <1>t, <2>8, <2>9 DEF OnceInv
<1>13. CASE SortEmptyContainer
  BY <1>13, <1>u DEF SortEmptyContainer, optVars, mapVars, assignVars
<1>15. CASE ExtractConsecutive
  BY <1>15, <1>u DEF ExtractConsecutive, optVars, mapVars, assignVars
<1>16. CASE LastHint
  BY <1>16, <1>u DEF LastHint, optVars, mapVars, assignVars
<1>17. CASE PlanOver
  BY <1>17, <1>u DEF PlanOver, planVars, optVars, mapVars, assignVars
<1>18. CASE UNCHANGED planVars
  BY <1>18, <1>u DEF planVars, optVars, mapVars, assignVars
<1> QED
  BY <1>1, <1>2, <1>3, <1>4, <1>5, <1>6, <1>7, <1>8, <1>9, <1>10, <1>11, <1>12,
     <1>13, <1>15, <1>16, <1>17, <1>18
  DEF PlanNextOrOver, PlanNext, Input, Progress

\* The invariant says that every record has one place in the plan.
LEMMA OnceImplies == OnceInv => PlannedOnce
<1> SUFFICES ASSUME OnceInv, Assigned, NEW n \in 1..valid_lines
             PROVE  \E w \in Workers : \E k \in DOMAIN tc[w] :
                        \A v \in Workers : \A m \in DOMAIN tc[v] :
                            tc[v][m] = n <=> v = w /\ m = k
  BY DEF PlannedOnce
<1>1. phase \in {"sort", "extract", "start"}
  BY DEF Assigned
<1>2. i = valid_lines /\ b > Len(order) /\ order \in Seq(LBAs) /\ b \in Nat
  BY <1>1 DEF OnceInv, HeldOnce, AffinityInv, TypeInv, TypeOK
<1>3. PICK o \in DOMAIN order : order[o] = infos[n].lba
  <2>1. infos[n].lba \in ToSet(order)
    BY <1>2 DEF OnceInv, BuiltOnce
  <2> QED BY <2>1 DEF ToSet
<1>4. PICK w \in Workers : n \in ToSet(tc[w])
  <2>1. o < b
    BY <1>2, <1>3
  <2> QED BY <1>1, <1>3, <2>1 DEF OnceInv, HeldOnce
<1>5. PICK k \in DOMAIN tc[w] : tc[w][k] = n
  BY <1>4 DEF ToSet
<1>6. ASSUME NEW v \in Workers, NEW m \in DOMAIN tc[v], tc[v][m] = n
      PROVE  v = w /\ m = k
  <2>1. n \in ToSet(tc[v])
    BY <1>6 DEF ToSet
  <2>2. v = w
    BY <1>1, <1>4, <2>1 DEF OnceInv, AffinityInv, LbaAffinity
  <2>3. IsInjective(tc[w])
    BY <1>1 DEF OnceInv, HeldOnce
  <2> QED BY <1>5, <1>6, <2>2, <2>3 DEF IsInjective
<1> QED BY <1>5, <1>6

\* Once the containers are assigned, every record of the trace is in the plan of
\* one worker, at one place, and stays there while the plans are sorted and cut
\* into hints: nothing is dropped and nothing is replayed twice.
THEOREM PlannedOnceHolds == Spec => []PlannedOnce
<1> QED BY OnceImplies, OnceInit, OnceStep, PTL DEF Spec, PlanNextOrOver

-----------------------------------------------------------------------------
(* The order of the records of one lba *)

\* build_trace_containers meets the records in file order.
ContainersAscend ==
    \A l \in LBAs : \A k, m \in DOMAIN containers[l] :
        k < m => containers[l][k] < containers[l][m]

\* Two records of one lba in file order, and in the order of the replay.
InFileOrder(w) ==
    \A k, m \in DOMAIN tc[w] :
        k < m /\ Info(w, k).lba = Info(w, m).lba => tc[w][k] < tc[w][m]

InTraceOrder(w) ==
    \A k, m \in DOMAIN tc[w] :
        k < m /\ Info(w, k).lba = Info(w, m).lba =>
            \/ Info(w, k).ts < Info(w, m).ts
            \/ Info(w, k).ts = Info(w, m).ts /\ tc[w][k] < tc[w][m]

\* The workers whose records are sorted.
Sorted(w) == w < worker \/ (phase = "extract" /\ w = worker)

\* The sort is stable, so it gives the order of the trace only because the
\* assignment leaves the records of one lba in file order.
OrderInv ==
    /\ OnceInv
    /\ ContainersAscend
    /\ phase \in {"assign", "sort", "extract", "start"} =>
          \A w \in Workers : IF Sorted(w) THEN InTraceOrder(w) ELSE InFileOrder(w)
    /\ phase = "start" => worker = threads

\* No record is held in the initial state.
LEMMA OrderInit == Init => OrderInv
<1> SUFFICES ASSUME Init PROVE OrderInv
  OBVIOUS
<1>1. OnceInv
  BY OnceInit
<1> QED BY <1>1 DEF Init, OrderInv, ContainersAscend

\* A record in the container of a worker has an lba.
LEMMA RecordType ==
    ASSUME OnceInv, phase \in {"assign", "sort", "extract", "start"},
           NEW w \in Workers, NEW k \in DOMAIN tc[w]
    PROVE  /\ tc[w] \in Seq(1..valid_lines) /\ tc[w][k] \in 1..valid_lines
           /\ tc[w][k] \in ToSet(tc[w])
           /\ Info(w, k) \in trace_info
           /\ Info(w, k).lba \in Nat /\ Info(w, k).ts \in Nat
           /\ Info(w, k).rw \in {"R", "W"}
<1>1. tc[w] \in Seq(1..valid_lines) /\ infos \in Seq(trace_info)
  BY DEF OnceInv, AffinityInv, TypeInv, TypeOK
<1>2. tc[w][k] \in 1..valid_lines
  BY <1>1, ElementType
<1>3. Info(w, k) \in trace_info
  <2>1. tc[w][k] \in DOMAIN infos
    BY <1>1, <1>2 DEF valid_lines
  <2> QED BY <1>1, <2>1, ElementType DEF Info
<1>4. tc[w][k] \in ToSet(tc[w])
  BY DEF ToSet
<1> QED BY <1>1, <1>2, <1>3, <1>4, ConstantsAssumption DEF trace_info

\* What one round of the assignment does: the container placed goes behind the
\* records of one worker, and none of those has its lba.
LEMMA AssignEffect ==
    ASSUME OnceInv, AssignContainer
    PROVE  \E t \in Workers :
             /\ tc'[t] = tc[t] \o containers[order[b]]
             /\ \A w \in Workers : w # t => tc'[w] = tc[w]
             /\ order[b] \in LBAs /\ containers[order[b]] \in Seq(1..valid_lines)
             /\ \A x \in ToSet(containers[order[b]]) : infos[x].lba = order[b]
             /\ \A x \in ToSet(tc[t]) : infos[x].lba # order[b]
<1>t. AffinityInv /\ TypeInv /\ TypeOK
  BY DEF OnceInv, AffinityInv, TypeInv
<1> DEFINE _tc == containers[order[b]]
<1>1. PICK t :
        /\ tc' = [tc EXCEPT ![t] = @ \o _tc]
        /\ t \in {cur_thread, cur_thread + 1}
        /\ t = cur_thread + 1 => cur_thread # threads - 1
  <2> DEFINE T(hit) == IF NextBefore(Len(_tc), hit) THEN cur_thread + 1
                                                    ELSE cur_thread
  <2>1. PICK hit : tc' = [tc EXCEPT ![T(hit)] = @ \o _tc]
    BY DEF AssignContainer
  <2>2. cur_thread \in Nat
    BY <1>t DEF TypeOK
  <2>3. T(hit) = cur_thread + 1 => cur_thread # threads - 1
    BY <2>2 DEF NextBefore
  <2>4. T(hit) \in {cur_thread, cur_thread + 1}
    OBVIOUS
  <2> HIDE DEF T
  <2> QED BY <2>1, <2>3, <2>4
<1>2. phase = "assign"
  BY DEF AssignContainer
<1>3. t \in Workers
  <2>1. cur_thread \in Workers /\ threads \in Nat
    BY <1>t, <1>2 DEF AffinityInv, ShareNeverUnderflows, TypeOK
  <2> QED BY <1>1, <2>1 DEF Workers
<1>4. /\ b \in DOMAIN order /\ order \in Seq(LBAs) /\ b \in Nat \ {0}
      /\ order[b] \in LBAs /\ _tc \in Seq(1..valid_lines)
  <2>1. order \in Seq(LBAs) /\ b \in DOMAIN order /\ b \in Nat \ {0}
    BY <1>t DEF AssignContainer, TypeOK
  <2>2. order[b] \in LBAs
    BY <2>1, ElementType
  <2> QED BY <1>t, <2>1, <2>2 DEF TypeOK
<1>5. tc \in [Workers -> Seq(1..valid_lines)]
  BY <1>t, <1>2 DEF TypeOK
<1>6. \A x \in ToSet(_tc) : infos[x].lba = order[b]
  BY <1>t, <1>4 DEF AffinityInv, ContainersByLba
<1>7. ASSUME NEW x \in ToSet(tc[t]) PROVE infos[x].lba # order[b]
  <2>1. PICK k \in DOMAIN order : k < b /\ order[k] = infos[x].lba
    BY <1>t, <1>2, <1>3 DEF AffinityInv, FromVisited
  <2> QED BY <1>t, <1>4, <2>1 DEF AffinityInv, ContainersByLba
<1> HIDE DEF _tc
<1>8. /\ tc'[t] = tc[t] \o _tc
      /\ \A w \in Workers : w # t => tc'[w] = tc[w]
  BY <1>1, <1>3, <1>5
<1> QED BY <1>3, <1>4, <1>6, <1>7, <1>8 DEF _tc

\* What the sort of one worker does: its records change places, in the order of
\* OrdersByTs.
LEMMA SortEffect ==
    ASSUME OnceInv, trace_container_sort_infomap_by_ts
    PROVE  \E p \in Bijection(DOMAIN tc[worker], DOMAIN tc[worker]) :
             /\ p \in [DOMAIN tc[worker] -> DOMAIN tc[worker]]
             /\ OrdersByTs(p, tc[worker])
             /\ tc'[worker] = [k \in DOMAIN tc[worker] |-> tc[worker][p[k]]]
             /\ DOMAIN tc'[worker] = DOMAIN tc[worker]
             /\ Len(tc'[worker]) = Len(tc[worker])
             /\ ToSet(tc'[worker]) = ToSet(tc[worker])
             /\ \A w \in Workers : w # worker => tc'[w] = tc[w]
<1>1. /\ phase = "sort" /\ worker \in Workers
      /\ tc \in [Workers -> Seq(1..valid_lines)]
  BY DEF trace_container_sort_infomap_by_ts, OnceInv, AffinityInv, TypeInv, TypeOK
<1>2. PICK p \in Bijection(DOMAIN tc[worker], DOMAIN tc[worker]) :
        /\ OrdersByTs(p, tc[worker])
        /\ tc' = [tc EXCEPT ![worker] = [k \in DOMAIN tc[worker] |-> tc[worker][p[k]]]]
  BY DEF trace_container_sort_infomap_by_ts
<1>3. p \in [DOMAIN tc[worker] -> DOMAIN tc[worker]]
  BY DEF Bijection, Surjection, Injection
<1>4. /\ tc'[worker] = [k \in DOMAIN tc[worker] |-> tc[worker][p[k]]]
      /\ \A w \in Workers : w # worker => tc'[w] = tc[w]
  BY <1>1, <1>2
<1>5. tc[worker] \in Seq(1..valid_lines)
  BY <1>1
<1>6. Len(tc'[worker]) = Len(tc[worker]) /\ ToSet(tc'[worker]) = ToSet(tc[worker])
  BY <1>4, <1>5, PermutedSeq
<1> QED BY <1>2, <1>3, <1>4, <1>6

\* Each action of the planner keeps OrderInv.
LEMMA OrderStep == OrderInv /\ [PlanNextOrOver]_planVars => OrderInv'
<1> SUFFICES ASSUME OrderInv, [PlanNextOrOver]_planVars PROVE OrderInv'
  OBVIOUS
<1>t. OnceInv /\ OnceInv' /\ AffinityInv /\ TypeInv /\ TypeOK
  BY OnceStep DEF OrderInv, OnceInv, AffinityInv, TypeInv
\* Steps before the assignment, or that end the program.
<1>e. ASSUME UNCHANGED containers,
             phase' \in {"options", "parse", "build", "exited", "crashed"}
      PROVE  OrderInv'
  BY <1>t, <1>e DEF OrderInv, ContainersAscend
\* Steps that leave the containers and the worker alone.
<1>u. ASSUME UNCHANGED <<threads, infos, containers, tc, worker>>,
             \/ phase' = phase
             \/ phase = "assign" /\ phase' = "sort"
      PROVE  OrderInv'
  <2>1. Workers' = Workers
    BY <1>u DEF Workers
  <2>2. \A w \in Workers : /\ InTraceOrder(w)' <=> InTraceOrder(w)
                           /\ InFileOrder(w)' <=> InFileOrder(w)
                           /\ Sorted(w)' <=> Sorted(w)
    BY <1>u DEF InTraceOrder, InFileOrder, Info, Sorted
  <2>3. ContainersAscend'
    BY <1>u DEF OrderInv, ContainersAscend
  <2> QED BY <1>t, <1>u, <2>1, <2>2, <2>3 DEF OrderInv
<1>1. CASE getopt
  BY <1>1, <1>e DEF getopt, mapVars
<1>2. CASE BadUsage
  BY <1>2, <1>e DEF BadUsage, mapVars
<1>3. CASE OptionsDone
  BY <1>3, <1>e DEF OptionsDone, mapVars
<1>4. ASSUME NEW info \in trace_info, parse_trace_info(info) PROVE OrderInv'
  BY <1>4, <1>e DEF parse_trace_info, mapVars
<1>5. CASE SkipLine
  BY <1>5, <1>e DEF SkipLine, planVars, mapVars
<1>6. CASE EndOfTrace
  BY <1>6, <1>e DEF EndOfTrace, mapVars
<1>7. CASE build_trace_containers
  <2> DEFINE lba == infos[i + 1].lba
  <2>1. /\ phase' = "build"
        /\ containers' = [containers EXCEPT ![lba] = Append(@, i + 1)]
    BY <1>7 DEF build_trace_containers
  <2>2. containers \in [LBAs -> Seq(1..valid_lines)] /\ i \in Nat
    BY <1>t DEF TypeOK
  <2>3. \A l \in LBAs : ToSet(containers[l]) \subseteq 1..i
    BY <1>t DEF OnceInv, BuiltOnce
  <2> HIDE DEF lba
  <2>4. ASSUME NEW l \in LBAs, NEW k \in DOMAIN containers'[l],
               NEW m \in DOMAIN containers'[l], k < m
        PROVE  containers'[l][k] < containers'[l][m]
    <3>1. CASE l # lba
      <4>1. containers'[l] = containers[l]
        BY <2>1, <2>2, <3>1
      <4> QED BY <2>4, <4>1 DEF OrderInv, ContainersAscend
    <3>2. CASE l = lba
      <4>1. containers'[l] = Append(containers[l], i + 1)
        BY <2>1, <2>2, <3>2
      <4>2. containers[l] \in Seq(1..valid_lines)
        BY <2>2
      <4>3. k \in DOMAIN containers[l] /\ containers'[l][k] = containers[l][k]
        BY <2>4, <4>1, <4>2
      <4>4. containers[l][k] \in 1..i
        BY <2>3, <4>3 DEF ToSet
      <4>5. CASE m \in DOMAIN containers[l]
        <5>1. containers'[l][m] = containers[l][m]
          BY <4>1, <4>2, <4>5
        <5> QED BY <2>4, <4>3, <4>5, <5>1 DEF OrderInv, ContainersAscend
      <4>6. CASE m \notin DOMAIN containers[l]
        <5>1. containers'[l][m] = i + 1
          BY <4>1, <4>2, <4>6
        <5> QED BY <2>2, <4>3, <4>4, <5>1
      <4> QED BY <4>5, <4>6
    <3> QED BY <3>1, <3>2
  <2> QED BY <1>t, <2>1, <2>4 DEF OrderInv, ContainersAscend
<1>8. CASE AssignStart
  <2>1. phase' = "assign" /\ UNCHANGED <<threads, containers>>
        /\ tc' = [w \in Workers |-> <<>>] /\ worker' = 0
    BY <1>8, <1>t DEF AssignStart, optVars, TypeInv
  <2>2. Workers' = Workers
    BY <2>1 DEF Workers
  <2>3. \A w \in Workers : InTraceOrder(w)' /\ InFileOrder(w)'
    BY <2>1 DEF InTraceOrder, InFileOrder
  <2> QED BY <1>t, <2>1, <2>2, <2>3 DEF OrderInv, ContainersAscend
<1>9. CASE DivideByZero
  BY <1>9, <1>e DEF DivideByZero, mapVars
<1>10. CASE AssignContainer
  <2>1. /\ phase = "assign" /\ phase' = "assign" /\ worker' = 0 /\ worker = 0
        /\ UNCHANGED <<threads, infos, containers>>
    BY <1>10, <1>t DEF AssignContainer, optVars, mapVars, hintVars, TypeInv
  <2>2. Workers' = Workers
    BY <2>1 DEF Workers
  <2>3. \A w \in Workers : ~Sorted(w) /\ ~Sorted(w)'
    BY <2>1, <2>2, <1>t DEF Sorted, Workers
  <2>4. PICK t \in Workers :
          /\ tc'[t] = tc[t] \o containers[order[b]]
          /\ \A w \in Workers : w # t => tc'[w] = tc[w]
          /\ order[b] \in LBAs /\ containers[order[b]] \in Seq(1..valid_lines)
          /\ \A x \in ToSet(containers[order[b]]) : infos[x].lba = order[b]
          /\ \A x \in ToSet(tc[t]) : infos[x].lba # order[b]
    BY <1>10, <1>t, AssignEffect
  <2> DEFINE _tc == containers[order[b]]
  <2>5. \A k, m \in DOMAIN _tc : k < m => _tc[k] < _tc[m]
    BY <2>4 DEF OrderInv, ContainersAscend
  <2> HIDE DEF _tc
  <2>6. tc[t] \in Seq(1..valid_lines) /\ _tc \in Seq(1..valid_lines)
    BY <1>t, <2>1, <2>4 DEF TypeOK, _tc
  <2>7. InFileOrder(t)'
    <3> SUFFICES ASSUME NEW k \in DOMAIN tc'[t], NEW m \in DOMAIN tc'[t], k < m,
                        infos[tc'[t][k]].lba = infos[tc'[t][m]].lba
                 PROVE  tc'[t][k] < tc'[t][m]
      BY <2>1 DEF InFileOrder, Info
    <3>1. tc'[t] = tc[t] \o _tc
      BY <2>4 DEF _tc
    <3>2. \A n \in DOMAIN tc'[t] :
            \/ n \in DOMAIN tc[t] /\ tc'[t][n] = tc[t][n]
            \/ n - Len(tc[t]) \in DOMAIN _tc /\ tc'[t][n] = _tc[n - Len(tc[t])]
               /\ n > Len(tc[t])
      BY <2>6, <3>1
    <3>3. CASE k \in DOMAIN tc[t] /\ m \in DOMAIN tc[t]
      <4>1. tc'[t][k] = tc[t][k] /\ tc'[t][m] = tc[t][m]
        BY <2>6, <3>1, <3>3
      <4> QED BY <2>1, <2>3, <3>3, <4>1 DEF OrderInv, InFileOrder, Info
    <3>4. CASE k \in DOMAIN tc[t] /\ m \notin DOMAIN tc[t]
      <4>1. tc'[t][k] \in ToSet(tc[t])
        <5>1. tc'[t][k] = tc[t][k]
          BY <2>6, <3>1, <3>4
        <5> QED BY <3>4, <5>1 DEF ToSet
      <4>2. tc'[t][m] \in ToSet(_tc)
        BY <3>2, <3>4 DEF ToSet
      <4> QED BY <2>4, <4>1, <4>2 DEF _tc
    <3>5. CASE k \notin DOMAIN tc[t]
      <4>1. /\ k - Len(tc[t]) \in DOMAIN _tc /\ tc'[t][k] = _tc[k - Len(tc[t])]
            /\ k > Len(tc[t])
        BY <3>2, <3>5
      <4>2. m \notin DOMAIN tc[t]
        BY <2>6, <3>1, <4>1
      <4>4. m - Len(tc[t]) \in DOMAIN _tc /\ tc'[t][m] = _tc[m - Len(tc[t])]
        BY <3>2, <4>2
      <4>3. k - Len(tc[t]) < m - Len(tc[t])
        BY <4>1, <4>4, <2>6, <3>1
      <4> QED BY <2>5, <4>1, <4>3, <4>4
    <3> QED BY <3>3, <3>4, <3>5
  <2>8. ASSUME NEW w \in Workers, w # t PROVE InFileOrder(w)'
    <3>1. InFileOrder(w) /\ tc'[w] = tc[w]
      BY <2>1, <2>3, <2>4, <2>8 DEF OrderInv
    <3> QED BY <2>1, <3>1 DEF InFileOrder, Info
  <2> QED BY <1>t, <2>1, <2>2, <2>3, <2>7, <2>8 DEF OrderInv, ContainersAscend
<1>11. CASE AssignDone
  BY <1>11, <1>u DEF AssignDone, optVars, mapVars, hintVars
<1>12. CASE trace_container_sort_infomap_by_ts
  <2>1. /\ phase = "sort" /\ phase' = "extract" /\ worker \in Workers
        /\ UNCHANGED <<threads, infos, containers, worker>>
    BY <1>12, <1>t DEF trace_container_sort_infomap_by_ts, optVars, mapVars, TypeInv
  <2>2. PICK p \in Bijection(DOMAIN tc[worker], DOMAIN tc[worker]) :
          /\ p \in [DOMAIN tc[worker] -> DOMAIN tc[worker]]
          /\ OrdersByTs(p, tc[worker])
          /\ tc'[worker] = [k \in DOMAIN tc[worker] |-> tc[worker][p[k]]]
          /\ DOMAIN tc'[worker] = DOMAIN tc[worker]
          /\ \A w \in Workers : w # worker => tc'[w] = tc[w]
    BY <1>12, <1>t, SortEffect
  <2>3. Workers' = Workers /\ worker \in Nat
    BY <2>1, <1>t DEF Workers, TypeOK
  <2>4. InFileOrder(worker)
    <3>1. ~Sorted(worker)
      BY <2>1, <2>3 DEF Sorted
    <3> QED BY <2>1, <3>1 DEF OrderInv
  <2>5. InTraceOrder(worker)'
    <3> DEFINE s == tc[worker]
               r == tc'[worker]
    <3> SUFFICES ASSUME NEW k \in DOMAIN r, NEW m \in DOMAIN r, k < m,
                        infos[r[k]].lba = infos[r[m]].lba
                 PROVE  \/ infos[r[k]].ts < infos[r[m]].ts
                        \/ infos[r[k]].ts = infos[r[m]].ts /\ r[k] < r[m]
      BY <2>1 DEF InTraceOrder, Info
    <3>0. /\ k \in DOMAIN s /\ m \in DOMAIN s
          /\ r[k] = s[p[k]] /\ r[m] = s[p[m]]
      BY <2>2
    <3>1. PICK x, y : x = p[k] /\ y = p[m]
      OBVIOUS
    <3>2. x \in DOMAIN s /\ y \in DOMAIN s /\ r[k] = s[x] /\ r[m] = s[y]
      <4>1. p \in [DOMAIN s -> DOMAIN s]
        BY <2>2
      <4> HIDE DEF s, r
      <4> QED BY <3>0, <3>1, <4>1
    <3>3. \/ infos[s[x]].ts < infos[s[y]].ts
          \/ infos[s[x]].ts = infos[s[y]].ts /\ x < y
      BY ZenonT(30), <2>2, <3>0, <3>1 DEF OrdersByTs
    <3>4. infos[s[x]].lba = infos[s[y]].lba
      BY <3>2
    <3>5. x < y => s[x] < s[y]
      BY <2>4, <3>2, <3>4 DEF InFileOrder, Info
    <3> QED BY <3>2, <3>3, <3>5
  <2>6. ASSUME NEW w \in Workers, w # worker
        PROVE  IF Sorted(w)' THEN InTraceOrder(w)' ELSE InFileOrder(w)'
    <3>1. /\ tc'[w] = tc[w] /\ (Sorted(w)' <=> Sorted(w))
      BY <2>1, <2>2, <2>6 DEF Sorted
    <3>2. IF Sorted(w) THEN InTraceOrder(w) ELSE InFileOrder(w)
      BY <2>1 DEF OrderInv
    <3> QED BY <2>1, <3>1, <3>2 DEF InTraceOrder, InFileOrder, Info
  <2>7. Sorted(worker)'
    BY <2>1 DEF Sorted
  <2> QED BY <1>t, <2>1, <2>3, <2>5, <2>6, <2>7 DEF OrderInv, ContainersAscend
<1>13. CASE SortEmptyContainer
  BY <1>13, <1>e DEF SortEmptyContainer, mapVars
<1>15. CASE ExtractConsecutive
  BY <1>15, <1>u DEF ExtractConsecutive, optVars, mapVars
<1>16. CASE LastHint
  <2>1. /\ phase = "extract" /\ worker \in Workers /\ worker' = worker + 1
        /\ phase' = IF worker + 1 = threads THEN "start" ELSE "sort"
        /\ UNCHANGED <<threads, infos, containers, tc>>
    BY <1>16, <1>t DEF LastHint, optVars, mapVars, TypeInv
  <2>2. Workers' = Workers /\ worker \in Nat /\ Workers \subseteq Nat
    BY <2>1, <1>t DEF Workers, TypeOK
  <2>3. \A w \in Workers : /\ InTraceOrder(w)' <=> InTraceOrder(w)
                           /\ InFileOrder(w)' <=> InFileOrder(w)
    BY <2>1 DEF InTraceOrder, InFileOrder, Info
  <2>4. \A w \in Workers : Sorted(w)' <=> Sorted(w)
    BY <2>1, <2>2 DEF Sorted
  <2> QED BY <1>t, <2>1, <2>2, <2>3, <2>4 DEF OrderInv, ContainersAscend
<1>17. CASE PlanOver
  BY <1>17, <1>u DEF PlanOver, planVars, optVars, mapVars, hintVars
<1>18. CASE UNCHANGED planVars
  BY <1>18, <1>u DEF planVars, optVars, mapVars, hintVars
<1> QED
  BY <1>1, <1>2, <1>3, <1>4, <1>5, <1>6, <1>7, <1>8, <1>9, <1>10, <1>11, <1>12,
     <1>13, <1>15, <1>16, <1>17, <1>18
  DEF PlanNextOrOver, PlanNext, Input, Progress

\* A worker replays the records of an lba in the order of their time stamps, and
\* in file order where those are equal: build_trace_containers keeps the file
\* order and trace_container_sort_infomap_by_ts is stable.
THEOREM TraceOrderHolds == Spec => []TraceOrderPerLba
<1>1. OrderInv => TraceOrderPerLba
  <2> SUFFICES ASSUME OrderInv, phase = "start" PROVE TraceOrderPerLba
    BY DEF TraceOrderPerLba
  <2>1. worker = threads /\ threads \in Nat
    BY DEF OrderInv, OnceInv, AffinityInv, TypeInv, TypeOK
  <2>2. \A w \in Workers : Sorted(w)
    BY <2>1 DEF Sorted, Workers
  <2> QED BY <2>2 DEF OrderInv, InTraceOrder, TraceOrderPerLba
<1> QED BY <1>1, OrderInit, OrderStep, PTL DEF Spec, PlanNextOrOver

-----------------------------------------------------------------------------
(* The hints cut the containers into runs *)

End(h) == h.start_trace_line + h.continuous_blks

\* The records from s up to before e are one system call: one direction, and
\* one block after the other.
Run(w, s, e) ==
    \A k \in s..e - 1 :
        /\ Info(w, k).rw = Info(w, s).rw
        /\ Info(w, k).lba = Info(w, s).lba + SECTORS_PER_BLK * (k - s)

GoodHint(w, h) ==
    /\ h.start_trace_line \in 1..Len(tc[w])
    /\ h.continuous_blks \in 1..buf[w]
    /\ h.continuous_blks <= AtLeast(1, max_continuous_4K_blks)
    /\ End(h) <= Len(tc[w]) + 1
    /\ h.rw = Info(w, h.start_trace_line).rw
    /\ Run(w, h.start_trace_line, End(h))

\* The hints from + 1..to cut the first records of worker w, up to before end,
\* into runs.
Tiled(w, from, to, end) ==
    /\ from <= to /\ to <= Len(hints)
    /\ IF from = to THEN end = 1
       ELSE hints[from + 1].start_trace_line = 1 /\ End(hints[to]) = end
    /\ \A n \in from + 1..to :
          /\ GoodHint(w, hints[n])
          /\ n > from + 1 => hints[n].start_trace_line = End(hints[n - 1])

\* The workers before the current one are done, and the hints of the current
\* one end where its current run starts.
TiledInv ==
    /\ phase \in {"sort", "extract", "start"} =>
          \A w \in Workers : w < worker =>
              /\ hints_start[w] < hints_end[w]
              /\ Tiled(w, hints_start[w], hints_end[w], Len(tc[w]) + 1)
    /\ phase = "extract" =>
          /\ Tiled(worker, hints_start[worker], Len(hints), consecutive_start)
          /\ Run(worker, consecutive_start, j)
          /\ j - consecutive_start <= AtLeast(1, max_continuous_4K_blks)

\* The records that the hints stand for.  There is at least one for each hint,
\* which is why the array of valid_lines hints is large enough.
Used == {x \in 1..valid_lines :
            \/ \E w \in Workers : w < worker /\ x \in ToSet(tc[w])
            \/ /\ phase = "extract"
               /\ \E k \in 1..consecutive_start - 1 : x = tc[worker][k]}

FitInv ==
    /\ HintsFit
    /\ phase \in {"options", "parse", "build", "assign"} => hints = <<>>
    /\ Assigned => Len(hints) <= Cardinality(Used)

HintsInv == OrderInv /\ TiledInv /\ FitInv

\* A hint that is good stays good while its worker's records do not change and
\* its buffer does not shrink.
LEMMA TiledSame ==
    ASSUME NEW w, NEW from \in Nat, NEW to \in Nat, NEW end,
           Tiled(w, from, to, end), Len(hints) \in Nat, Len(hints') \in Nat,
           Len(hints') >= Len(hints), \A n \in 1..Len(hints) : hints'[n] = hints[n],
           buf[w] \in Nat, buf'[w] \in Nat, buf'[w] >= buf[w], tc'[w] = tc[w],
           UNCHANGED <<infos, max_continuous_4K_blks>>,
           \A n \in from + 1..to : hints[n] \in trace_replay_hint
    PROVE  Tiled(w, from, to, end)'
<1>1. from + 1..to \subseteq 1..Len(hints) /\ to <= Len(hints) /\ from <= to
  BY DEF Tiled
<1>2. \A n \in from + 1..to : hints'[n] = hints[n]
  BY <1>1
<1>3. ASSUME NEW n \in from + 1..to PROVE GoodHint(w, hints[n])'
  <2>1. GoodHint(w, hints[n]) /\ hints'[n] = hints[n]
    BY <1>2 DEF Tiled
  <2>2. hints[n].continuous_blks \in 1..buf'[w]
    BY <2>1 DEF GoodHint
  <2> QED BY <2>1, <2>2 DEF GoodHint, Run, Info, End
<1>4. ASSUME NEW n \in from + 1..to, n > from + 1
      PROVE  hints'[n].start_trace_line = End(hints'[n - 1])
  <2>1. n - 1 \in from + 1..to
    BY <1>4
  <2> QED BY <1>2, <1>4, <2>1 DEF Tiled
<1>5. IF from = to THEN end = 1
      ELSE hints'[from + 1].start_trace_line = 1 /\ End(hints'[to]) = end
  <2>1. CASE from = to
    BY <2>1 DEF Tiled
  <2>2. CASE from # to
    <3>1. from + 1 \in from + 1..to /\ to \in from + 1..to
      BY <1>1, <2>2
    <3> QED BY <1>2, <2>2, <3>1 DEF Tiled
  <2> QED BY <2>1, <2>2
<1>6. from <= to /\ to <= Len(hints')
  BY <1>1
<1>7. \A n \in from + 1..to :
        /\ GoodHint(w, hints[n])'
        /\ n > from + 1 => hints'[n].start_trace_line = End(hints'[n - 1])
  BY <1>3, <1>4
<1> QED BY <1>5, <1>6, <1>7 DEF Tiled, End

\* The types of the hint variables while the plans are made.
LEMMA HintTypes ==
    ASSUME OnceInv, phase \in {"sort", "extract", "start"}
    PROVE  /\ hints \in Seq(trace_replay_hint) /\ Len(hints) \in Nat
           /\ \A n \in 1..Len(hints) :
                 /\ hints[n] \in trace_replay_hint
                 /\ hints[n].start_trace_line \in Nat
                 /\ hints[n].continuous_blks \in Nat
           /\ hints_start \in [Workers -> Nat] /\ hints_end \in [Workers -> Nat]
           /\ buf \in [Workers -> Nat] /\ tc \in [Workers -> Seq(1..valid_lines)]
           /\ max_continuous_4K_blks \in Nat /\ threads \in Nat \ {0}
           /\ worker \in Nat /\ Workers \subseteq Nat
           /\ phase # "start" => worker \in Workers
           /\ phase = "extract" =>
                 /\ j \in Nat \ {0, 1} /\ consecutive_start \in Nat \ {0}
                 /\ consecutive_start < j /\ j <= Len(tc[worker]) + 1
                 /\ Len(tc[worker]) \in Nat
<1>1. TypeInv /\ TypeOK
  BY DEF OnceInv, AffinityInv, TypeInv
<1>2. hints \in Seq(trace_replay_hint)
  BY <1>1 DEF TypeOK
<1>3. \A n \in 1..Len(hints) : hints[n] \in trace_replay_hint
  BY <1>2, ElementType
<1>4. /\ hints_start \in [Workers -> Nat] /\ hints_end \in [Workers -> Nat]
      /\ buf \in [Workers -> Nat] /\ tc \in [Workers -> Seq(1..valid_lines)]
      /\ max_continuous_4K_blks \in Nat /\ threads \in Nat \ {0}
      /\ worker \in Nat
      /\ phase # "start" => worker \in Workers
      /\ j \in Nat \ {0, 1} /\ consecutive_start \in Nat \ {0}
      /\ phase = "extract" => consecutive_start < j /\ j <= Len(tc[worker]) + 1
  BY <1>1 DEF TypeInv, TypeOK
<1>5. Workers \subseteq Nat
  BY <1>4 DEF Workers
<1>6. phase = "extract" => Len(tc[worker]) \in Nat
  BY <1>4
<1> QED BY SMTT(30), <1>2, <1>3, <1>4, <1>5, <1>6 DEF trace_replay_hint

\* A hint that starts where the last one ends goes on with the cut.
LEMMA TiledAppend ==
    ASSUME NEW w, NEW from \in Nat, NEW to \in Nat, NEW cs, NEW e,
           NEW h \in trace_replay_hint,
           hints \in Seq(trace_replay_hint), to = Len(hints), Tiled(w, from, to, cs),
           hints' = Append(hints, h), GoodHint(w, h)', h.start_trace_line = cs,
           End(h) = e,
           buf[w] \in Nat, buf'[w] \in Nat, buf'[w] >= buf[w], tc'[w] = tc[w],
           UNCHANGED <<infos, max_continuous_4K_blks>>
    PROVE  Tiled(w, from, to + 1, e)'
<1>1. /\ Len(hints') = to + 1 /\ hints'[to + 1] = h
      /\ \A n \in 1..to : hints'[n] = hints[n]
      /\ \A n \in 1..to : hints[n] \in trace_replay_hint
  BY ElementType
<1>2. from <= to
  BY DEF Tiled
<1>3. Tiled(w, from, to, cs)'
  <2>1. \A n \in from + 1..to : hints[n] \in trace_replay_hint
    BY <1>1
  <2>2. Len(hints) \in Nat /\ Len(hints') \in Nat /\ Len(hints') >= Len(hints)
    BY <1>1
  <2> QED BY <1>1, <2>1, <2>2, TiledSame
<1>4. ASSUME NEW n \in from + 1..to + 1
      PROVE  /\ GoodHint(w, hints[n])'
             /\ n > from + 1 => hints'[n].start_trace_line = End(hints'[n - 1])
  <2>1. CASE n \in from + 1..to
    BY <1>3, <2>1 DEF Tiled, End
  <2>2. CASE n = to + 1
    <3>1. GoodHint(w, hints[n])'
      BY <1>1, <2>2
    <3>2. n > from + 1 => End(hints'[to]) = cs
      BY <1>3, <2>2 DEF Tiled, End
    <3> QED BY <1>1, <2>2, <3>1, <3>2
  <2> QED BY <2>1, <2>2
<1>5. hints'[from + 1].start_trace_line = 1
  <2>1. CASE from = to
    BY <1>1, <2>1 DEF Tiled
  <2>2. CASE from # to
    BY <1>3, <2>2 DEF Tiled
  <2> QED BY <2>1, <2>2
<1> QED BY <1>1, <1>2, <1>4, <1>5 DEF Tiled, End

\* The hint of a run, as the loop saves it, is good.
LEMMA RunGivesHint ==
    ASSUME OnceInv, phase = "extract", TiledInv, NEW w, w = worker,
           NEW h, h = Hint(j), UNCHANGED <<infos, max_continuous_4K_blks>>,
           tc'[w] = tc[w], buf'[w] = AtLeast(buf[w], h.continuous_blks)
    PROVE  /\ h \in trace_replay_hint
           /\ h.start_trace_line = consecutive_start
           /\ End(h) = j
           /\ buf'[w] \in Nat /\ buf'[w] >= buf[w]
           /\ GoodHint(w, h)'
<1> DEFINE cs == consecutive_start
<1>1. /\ w \in Workers /\ cs \in Nat /\ 1 <= cs /\ cs < j /\ j <= Len(tc[w]) + 1
      /\ Len(tc[w]) \in Nat /\ tc[w] \in Seq(1..valid_lines) /\ buf[w] \in Nat
      /\ max_continuous_4K_blks \in Nat /\ j \in Nat
  BY HintTypes
<1>2. cs \in DOMAIN tc[w] /\ cs \in 1..Len(tc[w])
  BY <1>1
<1>3. Info(w, cs).rw \in {"R", "W"}
  BY <1>1, <1>2, RecordType
<1>4. /\ h \in trace_replay_hint /\ h.start_trace_line = cs
      /\ h.continuous_blks = j - cs /\ h.rw = Info(w, cs).rw
      /\ j - cs \in Nat
  BY <1>1, <1>3 DEF Hint, trace_replay_hint
<1>5. End(h) = j
  BY <1>1, <1>4 DEF End
<1>6. /\ buf'[w] \in Nat /\ buf'[w] >= buf[w] /\ buf'[w] >= j - cs
  BY <1>1, <1>4 DEF AtLeast
<1>7. j - cs <= AtLeast(1, max_continuous_4K_blks) /\ Run(w, cs, j)
  BY DEF TiledInv
<1>8. GoodHint(w, h)'
  <2>1. Run(w, h.start_trace_line, End(h))'
    BY <1>4, <1>5, <1>7 DEF Run, Info, End
  <2>2. h.continuous_blks \in 1..buf'[w]
    BY <1>1, <1>4, <1>6
  <2>3. h.rw = Info(w, h.start_trace_line)'.rw
    BY <1>4 DEF Info
  <2>4. h.continuous_blks <= AtLeast(1, max_continuous_4K_blks')
    BY <1>4, <1>7
  <2>5. h.start_trace_line \in 1..Len(tc'[w]) /\ End(h) <= Len(tc'[w]) + 1
    BY <1>1, <1>2, <1>4, <1>5
  <2> QED BY <2>1, <2>2, <2>3, <2>4, <2>5 DEF GoodHint, End
<1> QED BY <1>4, <1>5, <1>6, <1>8

\* The cut of a worker whose plan is made stays as it is.
LEMMA FinishedStays ==
    ASSUME OnceInv, TiledInv, phase \in {"sort", "extract"},
           NEW w \in Workers, w < worker,
           hints_start'[w] = hints_start[w], hints_end'[w] = hints_end[w],
           tc'[w] = tc[w], buf'[w] = buf[w],
           UNCHANGED <<infos, max_continuous_4K_blks>>,
           Len(hints') \in Nat, Len(hints') >= Len(hints),
           \A n \in 1..Len(hints) : hints'[n] = hints[n]
    PROVE  /\ hints_start'[w] < hints_end'[w]
           /\ Tiled(w, hints_start[w], hints_end[w], Len(tc[w]) + 1)'
<1>1. PICK from, to, end : from = hints_start[w] /\ to = hints_end[w]
                           /\ end = Len(tc[w]) + 1
  OBVIOUS
<1>2. /\ from \in Nat /\ to \in Nat /\ buf[w] \in Nat /\ Len(hints) \in Nat
      /\ \A n \in 1..Len(hints) : hints[n] \in trace_replay_hint
  BY <1>1, HintTypes
<1>3. from < to /\ Tiled(w, from, to, end)
  BY <1>1 DEF TiledInv
<1>4. from + 1..to \subseteq 1..Len(hints)
  BY <1>2, <1>3 DEF Tiled
<1>5. Tiled(w, from, to, end)'
  <2>1. \A n \in from + 1..to : hints[n] \in trace_replay_hint
    BY <1>2, <1>4
  <2>2. buf'[w] \in Nat /\ buf'[w] >= buf[w]
    BY <1>2
  <2> QED BY <1>2, <1>3, <2>1, <2>2, TiledSame
<1>6. Tiled(w, hints_start[w], hints_end[w], Len(tc[w]) + 1)' <=>
          Tiled(w, from, to, end)'
  BY <1>1 DEF Tiled, GoodHint, Run, Info, End
<1> QED BY <1>1, <1>3, <1>5, <1>6

\* Each action of the planner keeps TiledInv.
LEMMA TiledStep == OrderInv /\ TiledInv /\ [PlanNextOrOver]_planVars => TiledInv'
<1> SUFFICES ASSUME OrderInv, TiledInv, [PlanNextOrOver]_planVars PROVE TiledInv'
  OBVIOUS
<1>t. OnceInv /\ OnceInv' /\ TypeInv
  BY OnceStep DEF OrderInv, OnceInv, AffinityInv
<1>e. ASSUME phase' \in {"options", "parse", "build", "assign", "exited", "crashed"}
      PROVE  TiledInv'
  BY <1>e DEF TiledInv
<1>u. ASSUME UNCHANGED planVars PROVE TiledInv'
  BY SMTT(30), <1>u DEF TiledInv, planVars, optVars, mapVars, hintVars, Tiled, GoodHint, Run,
              Info, End, Workers
<1>1. CASE getopt \/ BadUsage \/ OptionsDone \/ SkipLine \/ EndOfTrace
  BY <1>1, <1>e DEF getopt, BadUsage, OptionsDone, SkipLine, EndOfTrace, planVars
<1>2. ASSUME NEW info \in trace_info, parse_trace_info(info) PROVE TiledInv'
  BY <1>2, <1>e DEF parse_trace_info
<1>3. CASE build_trace_containers \/ AssignStart \/ DivideByZero \/ AssignContainer
  BY <1>3, <1>e DEF build_trace_containers, AssignStart, DivideByZero, AssignContainer
<1>4. CASE AssignDone
  <2>1. phase' = "sort" /\ worker' = 0
    BY <1>4, <1>t DEF AssignDone, hintVars, TypeInv
  <2>2. \A w \in Workers' : ~(w < worker')
    BY <2>1 DEF Workers
  <2> QED BY <2>1, <2>2 DEF TiledInv
<1>5. CASE trace_container_sort_infomap_by_ts
  <2>1. /\ phase = "sort" /\ phase' = "extract" /\ tc[worker] # <<>>
        /\ hints_start' = [hints_start EXCEPT ![worker] = Len(hints)]
        /\ j' = 2 /\ consecutive_start' = 1
        /\ UNCHANGED <<threads, infos, max_continuous_4K_blks, worker, hints,
                       hints_end, buf>>
    BY <1>5 DEF trace_container_sort_infomap_by_ts, optVars
  <2>2. /\ hints \in Seq(trace_replay_hint) /\ Len(hints) \in Nat
        /\ \A n \in 1..Len(hints) : hints[n] \in trace_replay_hint
        /\ hints_start \in [Workers -> Nat] /\ hints_end \in [Workers -> Nat]
        /\ buf \in [Workers -> Nat] /\ tc \in [Workers -> Seq(1..valid_lines)]
        /\ max_continuous_4K_blks \in Nat
        /\ worker \in Nat /\ worker \in Workers /\ Workers' = Workers
    BY <1>t, <2>1, HintTypes DEF Workers
  <2>3. \A w \in Workers : w # worker => tc'[w] = tc[w]
    BY <1>5, <1>t, SortEffect
  <2>4. ASSUME NEW w \in Workers, w < worker
        PROVE  /\ hints_start'[w] < hints_end'[w]
               /\ Tiled(w, hints_start[w], hints_end[w], Len(tc[w]) + 1)'
    <3>1. /\ hints_start'[w] = hints_start[w] /\ hints_end'[w] = hints_end[w]
          /\ tc'[w] = tc[w] /\ buf'[w] = buf[w] /\ Len(hints') >= Len(hints)
      <4>1. w # worker
        BY <2>2, <2>4 DEF Workers
      <4>2. tc'[w] = tc[w]
        BY <2>3, <4>1
      <4>3. hints_start'[w] = hints_start[w]
        BY <2>1, <2>2, <4>1
      <4>4. hints_end'[w] = hints_end[w] /\ buf'[w] = buf[w] /\ hints' = hints
        BY <2>1
      <4> QED BY <2>2, <4>2, <4>3, <4>4
    <3> QED BY <1>t, <2>1, <2>2, <2>4, <3>1, FinishedStays
  <2>5. Tiled(worker, hints_start[worker], Len(hints), consecutive_start)'
    BY <2>1, <2>2 DEF Tiled
  <2>6. Run(worker, consecutive_start, j)'
    <3>1. PICK p \in [DOMAIN tc[worker] -> DOMAIN tc[worker]] :
            tc'[worker] = [k \in DOMAIN tc[worker] |-> tc[worker][p[k]]]
      BY <1>5, <1>t, SortEffect
    <3>2. 1 \in DOMAIN tc[worker]
      BY <2>1, <2>2
    <3>3. p[1] \in DOMAIN tc[worker] /\ tc'[worker][1] = tc[worker][p[1]]
      BY <3>1, <3>2
    <3>4. Info(worker, p[1]).lba \in Nat
      BY <1>t, <2>1, <2>2, <3>3, RecordType
    <3>5. Info(worker, 1)'.lba \in Nat
      BY <2>1, <3>3, <3>4 DEF Info
    <3> QED BY <2>1, <3>5 DEF Run, SECTORS_PER_BLK
  <2>7. j' - consecutive_start' <= AtLeast(1, max_continuous_4K_blks')
    BY <2>1, <2>2 DEF AtLeast
  <2> QED BY <2>1, <2>2, <2>4, <2>5, <2>6, <2>7 DEF TiledInv
<1>6. CASE SortEmptyContainer
  BY <1>6, <1>e DEF SortEmptyContainer
<1>7. CASE ExtractConsecutive
  <2>1. /\ phase = "extract" /\ phase' = "extract" /\ j <= Len(tc[worker])
        /\ j' = j + 1
        /\ UNCHANGED <<threads, infos, max_continuous_4K_blks, worker, tc,
                       hints_start, hints_end>>
    BY <1>7 DEF ExtractConsecutive, optVars
  <2>2. /\ hints \in Seq(trace_replay_hint) /\ Len(hints) \in Nat
        /\ hints_start \in [Workers -> Nat]
        /\ buf \in [Workers -> Nat] /\ tc \in [Workers -> Seq(1..valid_lines)]
        /\ max_continuous_4K_blks \in Nat
        /\ worker \in Nat /\ worker \in Workers /\ Workers' = Workers
        /\ j \in Nat \ {0, 1} /\ consecutive_start \in Nat \ {0}
        /\ consecutive_start < j /\ Len(tc[worker]) \in Nat
    BY <1>t, <2>1, HintTypes DEF Workers
  <2>3. CASE Continues
    <3>1. UNCHANGED <<hints, consecutive_start, buf>>
      BY <1>7, <2>3 DEF ExtractConsecutive
    <3>2. ASSUME NEW w \in Workers, w < worker
          PROVE  /\ hints_start'[w] < hints_end'[w]
                 /\ Tiled(w, hints_start[w], hints_end[w], Len(tc[w]) + 1)'
      BY <1>t, <2>1, <2>2, <3>1, <3>2, FinishedStays
    <3>3. Tiled(worker, hints_start[worker], Len(hints), consecutive_start)'
      BY SMTT(30), <2>1, <3>1 DEF TiledInv, Tiled, GoodHint, Run, Info, End
    <3>4. Run(worker, consecutive_start, j)'
      <4> DEFINE w == worker
                 s == consecutive_start
      <4>1. /\ j \in DOMAIN tc[w] /\ j - 1 \in DOMAIN tc[w] /\ s \in DOMAIN tc[w]
            /\ j - 1 \in s..j - 1
        BY <2>1, <2>2
      <4>2. /\ Info(w, j).lba \in Nat /\ Info(w, j - 1).lba \in Nat
            /\ Info(w, s).lba \in Nat
        BY <1>t, <2>1, <2>2, <4>1, RecordType
      <4>3. /\ Info(w, j).lba - Info(w, j - 1).lba = SECTORS_PER_BLK
            /\ Info(w, j).rw = Info(w, j - 1).rw
        BY <2>3 DEF Continues
      <4>4. Run(w, s, j)
        BY <2>1 DEF TiledInv
      <4>5. /\ Info(w, j - 1).rw = Info(w, s).rw
            /\ Info(w, j - 1).lba = Info(w, s).lba + SECTORS_PER_BLK * (j - 1 - s)
        BY <4>1, <4>4 DEF Run
      <4>6. /\ Info(w, j).rw = Info(w, s).rw
            /\ Info(w, j).lba = Info(w, s).lba + SECTORS_PER_BLK * (j - s)
        BY SMTT(30), <2>2, <4>2, <4>3, <4>5 DEF SECTORS_PER_BLK
      <4>7. \A k \in s..j : k \in s..j - 1 \/ k = j
        BY <2>2
      <4>8. Run(w, s, j + 1)
        BY <2>2, <4>4, <4>6, <4>7 DEF Run
      <4> QED BY <2>1, <3>1, <4>8 DEF Run, Info
    <3>5. j' - consecutive_start' <= AtLeast(1, max_continuous_4K_blks')
      BY <2>1, <2>2, <2>3, <3>1 DEF Continues, AtLeast
    <3> QED BY <2>1, <2>2, <3>2, <3>3, <3>4, <3>5 DEF TiledInv
  <2>4. CASE ~Continues
    <3>1. PICK w, h, from, to, cs :
              w = worker /\ h = Hint(j) /\ from = hints_start[worker]
              /\ to = Len(hints) /\ cs = consecutive_start
      OBVIOUS
    <3>2. /\ hints' = Append(hints, h) /\ consecutive_start' = j
          /\ buf' = [buf EXCEPT ![w] = AtLeast(@, h.continuous_blks)]
      BY <1>7, <2>4, <3>1 DEF ExtractConsecutive, SaveHint
    <3>3. /\ buf'[w] = AtLeast(buf[w], h.continuous_blks)
          /\ \A v \in Workers : v # w => buf'[v] = buf[v]
      BY <2>2, <3>1, <3>2
    <3>4. /\ h \in trace_replay_hint /\ h.start_trace_line = cs /\ End(h) = j
          /\ buf'[w] \in Nat /\ buf'[w] >= buf[w] /\ GoodHint(w, h)'
      BY <1>t, <2>1, <3>1, <3>3, RunGivesHint
    <3>5. /\ Len(hints') = to + 1 /\ Len(hints') \in Nat /\ Len(hints') >= Len(hints)
          /\ \A n \in 1..Len(hints) : hints'[n] = hints[n]
      BY <2>2, <3>1, <3>2, <3>4
    <3>6. ASSUME NEW v \in Workers, v < worker
          PROVE  /\ hints_start'[v] < hints_end'[v]
                 /\ Tiled(v, hints_start[v], hints_end[v], Len(tc[v]) + 1)'
      BY <1>t, <2>1, <2>2, <3>1, <3>3, <3>5, <3>6, FinishedStays
    <3>7. Tiled(worker, hints_start[worker], Len(hints), consecutive_start)'
      <4>1. PICK e : e = j
        OBVIOUS
      <4>2. Tiled(w, from, to, cs) /\ from \in Nat /\ to \in Nat /\ buf[w] \in Nat
        BY <2>1, <2>2, <3>1 DEF TiledInv
      <4>3. Tiled(w, from, to + 1, e)'
        BY <2>1, <2>2, <3>1, <3>2, <3>4, <4>1, <4>2, TiledAppend
      <4>4. /\ worker' = w /\ hints_start'[w] = from /\ Len(hints') = to + 1
            /\ consecutive_start' = e
        BY <2>1, <3>1, <3>2, <3>5, <4>1
      <4> QED BY <4>3, <4>4 DEF Tiled, GoodHint, Run, Info, End
    <3>8. Run(worker, consecutive_start, j)'
      <4>1. j \in DOMAIN tc[worker]
        BY <2>1, <2>2
      <4>2. Info(worker, j).lba \in Nat
        BY <1>t, <2>1, <2>2, <4>1, RecordType
      <4>3. Info(worker, consecutive_start)' = Info(worker, j)
        BY <2>1, <3>2 DEF Info
      <4> QED BY <2>1, <2>2, <3>2, <4>2, <4>3 DEF Run, SECTORS_PER_BLK
    <3>9. j' - consecutive_start' <= AtLeast(1, max_continuous_4K_blks')
      BY <2>1, <2>2, <3>2 DEF AtLeast
    <3> QED BY <2>1, <2>2, <3>6, <3>7, <3>8, <3>9 DEF TiledInv
  <2> QED BY <2>3, <2>4
<1>8. CASE LastHint
  <2>1. PICK w, h, from, to, cs :
            w = worker /\ h = Hint(j) /\ from = hints_start[worker]
            /\ to = Len(hints) /\ cs = consecutive_start
    OBVIOUS
  <2>2. /\ hints \in Seq(trace_replay_hint) /\ Len(hints) \in Nat
        /\ hints_start \in [Workers -> Nat] /\ hints_end \in [Workers -> Nat]
        /\ buf \in [Workers -> Nat] /\ tc \in [Workers -> Seq(1..valid_lines)]
        /\ w \in Nat /\ w \in Workers /\ Workers' = Workers /\ Workers \subseteq Nat
        /\ j = Len(tc[w]) + 1
    BY SMTT(30), <1>8, <1>t, <2>1, HintTypes DEF LastHint, Workers, optVars
  <2>3. /\ phase = "extract" /\ phase' \in {"start", "sort"} /\ worker' = w + 1
        /\ hints' = Append(hints, h)
        /\ buf' = [buf EXCEPT ![w] = AtLeast(@, h.continuous_blks)]
        /\ hints_end' = [hints_end EXCEPT ![w] = to + 1]
        /\ UNCHANGED <<threads, infos, max_continuous_4K_blks, tc, hints_start>>
    BY <1>8, <2>1, <2>2 DEF LastHint, SaveHint, optVars
  <2>4. /\ buf'[w] = AtLeast(buf[w], h.continuous_blks) /\ hints_end'[w] = to + 1
        /\ \A v \in Workers : v # w => buf'[v] = buf[v] /\ hints_end'[v] = hints_end[v]
    BY <2>2, <2>3
  <2>5. /\ h \in trace_replay_hint /\ h.start_trace_line = cs /\ End(h) = j
        /\ buf'[w] \in Nat /\ buf'[w] >= buf[w] /\ GoodHint(w, h)'
    BY <1>t, <2>1, <2>3, <2>4, RunGivesHint
  <2>6. /\ Len(hints') = to + 1 /\ Len(hints') \in Nat /\ Len(hints') >= Len(hints)
        /\ \A n \in 1..Len(hints) : hints'[n] = hints[n]
    BY <2>1, <2>2, <2>3, <2>5
  <2>7. ASSUME NEW v \in Workers, v < worker
        PROVE  /\ hints_start'[v] < hints_end'[v]
               /\ Tiled(v, hints_start[v], hints_end[v], Len(tc[v]) + 1)'
    BY SMTT(30), <1>t, <2>1, <2>2, <2>3, <2>4, <2>6, <2>7, FinishedStays
  <2>8. /\ hints_start'[w] < hints_end'[w]
        /\ Tiled(w, hints_start[w], hints_end[w], Len(tc[w]) + 1)'
    <3>1. PICK e : e = j
      OBVIOUS
    <3>2. Tiled(w, from, to, cs) /\ from \in Nat /\ to \in Nat /\ buf[w] \in Nat
      BY <2>1, <2>2, <2>3 DEF TiledInv
    <3>3. Tiled(w, from, to + 1, e)'
      BY <2>1, <2>2, <2>3, <2>5, <3>1, <3>2, TiledAppend
    <3>4. from <= to /\ hints_start'[w] = from
      BY <2>1, <2>3, <3>2 DEF Tiled
    <3>5. e = Len(tc'[w]) + 1
      BY <2>2, <2>3, <3>1
    <3>6. Tiled(w, hints_start[w], hints_end[w], Len(tc[w]) + 1)'
      BY <2>4, <3>3, <3>4, <3>5 DEF Tiled, GoodHint, Run, Info, End
    <3> QED BY <2>4, <3>2, <3>4, <3>6
  <2>9. \A v \in Workers : v < worker' => v < worker \/ v = w
    BY <2>1, <2>2, <2>3
  <2> QED BY <2>2, <2>3, <2>7, <2>8, <2>9 DEF TiledInv
<1>9. CASE PlanOver \/ UNCHANGED planVars
  BY <1>9, <1>u DEF PlanOver
<1> QED
  BY <1>1, <1>2, <1>3, <1>4, <1>5, <1>6, <1>7, <1>8, <1>9
  DEF PlanNextOrOver, PlanNext, Input, Progress

\* A set of records has at most as many elements as there are records.
LEMMA RecordSet ==
    ASSUME NEW n \in Nat, NEW U \in SUBSET (1..n)
    PROVE  IsFiniteSet(U) /\ Cardinality(U) \in Nat /\ Cardinality(U) <= n
<1>1. IsFiniteSet(1..n) /\ Cardinality(1..n) = n
  BY FS_Interval
<1>2. IsFiniteSet(U) /\ Cardinality(U) <= n
  BY <1>1, FS_Subset
<1> QED BY <1>2, FS_CardinalityType

\* The first record of the current run belongs to no hint saved so far.
LEMMA RunStartsFresh ==
    ASSUME OnceInv, phase = "extract"
    PROVE  /\ tc[worker][consecutive_start] \in 1..valid_lines
           /\ tc[worker][consecutive_start] \in ToSet(tc[worker])
           /\ tc[worker][consecutive_start] \notin Used
<1> DEFINE x == tc[worker][consecutive_start]
<1>1. /\ worker \in Workers /\ worker \in Nat /\ Workers \subseteq Nat
      /\ consecutive_start \in Nat \ {0} /\ Len(tc[worker]) \in Nat
      /\ consecutive_start < j /\ j <= Len(tc[worker]) + 1 /\ j \in Nat
      /\ tc \in [Workers -> Seq(1..valid_lines)]
  BY HintTypes
<1>2. consecutive_start \in DOMAIN tc[worker]
  BY <1>1
<1>3. x \in 1..valid_lines /\ x \in ToSet(tc[worker])
  BY <1>1, <1>2, RecordType
<1>4. ASSUME NEW w \in Workers, w < worker, x \in ToSet(tc[w]) PROVE FALSE
  BY <1>1, <1>3, <1>4 DEF OnceInv, AffinityInv, LbaAffinity
<1>5. ASSUME NEW k \in 1..consecutive_start - 1, x = tc[worker][k] PROVE FALSE
  <2>1. k \in DOMAIN tc[worker] /\ k # consecutive_start
    BY <1>1
  <2>2. IsInjective(tc[worker])
    BY <1>1 DEF OnceInv, HeldOnce
  <2> QED BY <1>2, <1>5, <2>1, <2>2 DEF IsInjective
<1>6. x \notin Used
  BY <1>4, <1>5 DEF Used
<1> QED BY <1>3, <1>6

\* Each action of the planner keeps FitInv.
LEMMA FitStep == OrderInv /\ FitInv /\ [PlanNextOrOver]_planVars => FitInv'
<1> SUFFICES ASSUME OrderInv, FitInv, [PlanNextOrOver]_planVars PROVE FitInv'
  OBVIOUS
<1>t. OnceInv /\ OnceInv' /\ TypeInv /\ TypeOK
  BY OnceStep DEF OrderInv, OnceInv, AffinityInv, TypeInv
<1>v. valid_lines \in Nat /\ valid_lines' \in Nat
  <2>1. infos \in Seq(trace_info) /\ infos' \in Seq(trace_info)
    BY <1>t DEF OnceInv, AffinityInv, TypeInv, TypeOK
  <2> QED BY <2>1 DEF valid_lines
<1>w. /\ Used \in SUBSET (1..valid_lines) /\ Used' \in SUBSET (1..valid_lines')
      /\ IsFiniteSet(Used) /\ Cardinality(Used) \in Nat
      /\ IsFiniteSet(Used') /\ Cardinality(Used') \in Nat
      /\ Cardinality(Used') <= valid_lines'
  <2>1. Used \in SUBSET (1..valid_lines) /\ Used' \in SUBSET (1..valid_lines')
    BY DEF Used
  <2> QED BY <1>v, <2>1, RecordSet
\* Steps before the assignment, or that end the program.
<1>e. ASSUME UNCHANGED hints, infos' = infos \/ hints = <<>>,
             phase' \in {"options", "parse", "build", "assign", "exited", "crashed"},
             phase' \in {"options", "parse", "build", "assign"} => hints = <<>>
      PROVE  FitInv'
  <2>1. HintsFit'
    BY <1>e, <1>v DEF FitInv, HintsFit, valid_lines
  <2> QED BY <1>e, <2>1 DEF FitInv, Assigned
<1>u. ASSUME UNCHANGED planVars PROVE FitInv'
  <2>1. Used' = Used /\ (Assigned' <=> Assigned) /\ (HintsFit' <=> HintsFit)
        /\ hints' = hints /\ phase' = phase
    BY <1>u DEF planVars, optVars, hintVars, Used, Assigned, HintsFit, Workers,
                valid_lines, ToSet
  <2> QED BY <2>1 DEF FitInv
\* While the plans are made, the records used bound the hints.
<1>c. ASSUME phase' \in {"sort", "extract", "start"}, Len(hints') \in Nat,
             Len(hints') <= Cardinality(Used')
      PROVE  FitInv'
  BY <1>c, <1>v, <1>w DEF FitInv, HintsFit
<1>1. CASE getopt \/ BadUsage \/ OptionsDone \/ SkipLine \/ EndOfTrace
  BY <1>1, <1>e DEF getopt, BadUsage, OptionsDone, SkipLine, EndOfTrace, planVars,
                    hintVars, FitInv
<1>2. ASSUME NEW info \in trace_info, parse_trace_info(info) PROVE FitInv'
  BY <1>2, <1>e DEF parse_trace_info, hintVars, FitInv
<1>3. CASE build_trace_containers \/ AssignStart \/ DivideByZero \/ AssignContainer
  BY <1>3, <1>e DEF build_trace_containers, AssignStart, DivideByZero, AssignContainer,
                    hintVars, FitInv
<1>4. CASE AssignDone
  <2>1. phase' = "sort" /\ hints' = <<>>
    BY <1>4 DEF AssignDone, hintVars, FitInv
  <2> QED BY <1>c, <1>w, <2>1
<1>5. CASE trace_container_sort_infomap_by_ts
  <2>1. /\ phase = "sort" /\ phase' = "extract" /\ consecutive_start' = 1
        /\ UNCHANGED <<threads, infos, worker, hints>>
    BY <1>5 DEF trace_container_sort_infomap_by_ts, optVars
  <2>2. \A w \in Workers : w # worker => tc'[w] = tc[w]
    BY <1>5, <1>t, SortEffect
  <2>3. /\ worker \in Nat /\ Workers \subseteq Nat /\ Workers' = Workers
        /\ valid_lines' = valid_lines /\ Len(hints) \in Nat
    BY <1>t, <2>1, HintTypes DEF Workers, valid_lines
  <2>4. \A w \in Workers : w < worker => tc'[w] = tc[w]
    BY <2>2, <2>3
  <2>5. Used' = Used
    <3>1. Used \subseteq Used'
      BY <2>1, <2>3, <2>4 DEF Used
    <3>2. 1..consecutive_start' - 1 = {}
      BY <2>1
    <3>3. Used' \subseteq Used
      BY <2>1, <2>3, <2>4, <3>2 DEF Used
    <3> QED BY <3>1, <3>3
  <2>6. Len(hints') <= Cardinality(Used')
    BY <2>1, <2>5 DEF FitInv, Assigned
  <2> QED BY <1>c, <2>1, <2>3, <2>6
<1>6. CASE SortEmptyContainer
  BY <1>6, <1>e DEF SortEmptyContainer, hintVars
\* A hint more, and its first record is one more record used.
<1>f. ASSUME phase = "extract", phase' \in {"sort", "extract", "start"},
             UNCHANGED infos, Len(hints') = Len(hints) + 1,
             Used \cup {tc[worker][consecutive_start]} \subseteq Used'
      PROVE  FitInv'
  <2> DEFINE U == Used \cup {tc[worker][consecutive_start]}
  <2>1. Cardinality(U) = Cardinality(Used) + 1 /\ IsFiniteSet(U)
    BY <1>f, <1>t, <1>w, RunStartsFresh, FS_AddElement
  <2>2. Cardinality(U) <= Cardinality(Used')
    BY <1>f, <1>w, FS_Subset
  <2>3. Len(hints) <= Cardinality(Used) /\ Len(hints) \in Nat
    BY <1>f, <1>t, HintTypes DEF FitInv, Assigned
  <2> QED BY <1>c, <1>f, <1>w, <2>1, <2>2, <2>3
<1>7. CASE ExtractConsecutive
  <2>1. /\ phase = "extract" /\ phase' = "extract"
        /\ UNCHANGED <<threads, infos, worker, tc>>
    BY <1>7 DEF ExtractConsecutive, optVars
  <2>2. /\ Workers' = Workers /\ valid_lines' = valid_lines
        /\ hints \in Seq(trace_replay_hint) /\ Len(hints) \in Nat
        /\ consecutive_start \in Nat \ {0} /\ consecutive_start < j /\ j \in Nat
        /\ worker \in Workers
    BY <1>t, <2>1, HintTypes DEF Workers, valid_lines
  <2>3. CASE Continues
    <3>1. UNCHANGED <<hints, consecutive_start>>
      BY <1>7, <2>3 DEF ExtractConsecutive
    <3>2. Used' = Used
      BY <2>1, <2>2, <3>1 DEF Used
    <3>3. Len(hints') <= Cardinality(Used')
      BY <2>1, <3>1, <3>2 DEF FitInv, Assigned
    <3> QED BY <1>c, <2>1, <2>2, <3>1, <3>3
  <2>4. CASE ~Continues
    <3>1. hints' = Append(hints, Hint(j)) /\ consecutive_start' = j
      BY <1>7, <2>4 DEF ExtractConsecutive, SaveHint
    <3>2. Len(hints') = Len(hints) + 1
      BY <2>2, <3>1
    <3>3. Used \subseteq Used'
      BY <2>1, <2>2, <3>1 DEF Used
    <3>4. tc[worker][consecutive_start] \in Used'
      <4>1. consecutive_start \in 1..consecutive_start' - 1
        BY <2>2, <3>1
      <4>2. tc[worker][consecutive_start] \in 1..valid_lines'
        BY <1>t, <2>1, <2>2, RunStartsFresh
      <4> QED BY <2>1, <4>1, <4>2 DEF Used
    <3> QED BY <1>f, <2>1, <3>2, <3>3, <3>4
  <2> QED BY <2>3, <2>4
<1>8. CASE LastHint
  <2>1. /\ phase = "extract" /\ phase' \in {"start", "sort"} /\ worker' = worker + 1
        /\ \E h : hints' = Append(hints, h)
        /\ UNCHANGED <<threads, infos, tc>>
    BY <1>8 DEF LastHint, SaveHint, optVars
  <2>2. /\ Workers' = Workers /\ valid_lines' = valid_lines /\ Workers \subseteq Nat
        /\ hints \in Seq(trace_replay_hint) /\ Len(hints) \in Nat
        /\ consecutive_start \in Nat \ {0} /\ consecutive_start < j
        /\ j <= Len(tc[worker]) + 1 /\ worker \in Workers /\ worker \in Nat
        /\ Len(tc[worker]) \in Nat /\ j \in Nat /\ tc[worker] \in Seq(1..valid_lines)
    BY <1>t, <2>1, HintTypes DEF Workers, valid_lines
  <2>3. Len(hints') = Len(hints) + 1
    BY <2>1, <2>2
  <2>4. \A k \in 1..consecutive_start - 1 : tc[worker][k] \in ToSet(tc[worker])
    BY <2>2 DEF ToSet
  <2>5. \A w \in Workers : w < worker => w < worker'
    BY <2>1, <2>2
  <2>6. worker < worker'
    BY <2>1, <2>2
  <2>7. Used \subseteq Used'
    BY <2>1, <2>2, <2>4, <2>5, <2>6 DEF Used
  <2>8. tc[worker][consecutive_start] \in Used'
    BY <1>t, <2>1, <2>2, <2>6, RunStartsFresh DEF Used
  <2> QED BY <1>f, <2>1, <2>3, <2>7, <2>8
<1>9. CASE PlanOver \/ UNCHANGED planVars
  BY <1>9, <1>u DEF PlanOver
<1> QED
  BY <1>1, <1>2, <1>3, <1>4, <1>5, <1>6, <1>7, <1>8, <1>9
  DEF PlanNextOrOver, PlanNext, Input, Progress

\* The inductive invariant of the hints.
LEMMA HintsInvariant == Spec => []HintsInv
<1>1. Init => HintsInv
  <2> SUFFICES ASSUME Init PROVE HintsInv
    OBVIOUS
  <2>1. OrderInv
    BY OrderInit
  <2>2. valid_lines \in Nat /\ Len(hints) = 0
    BY DEF Init, valid_lines
  <2> QED BY <2>1, <2>2 DEF Init, HintsInv, TiledInv, FitInv, HintsFit, Assigned
<1>2. HintsInv /\ [PlanNextOrOver]_planVars => HintsInv'
  BY OrderStep, TiledStep, FitStep DEF HintsInv
<1> QED BY <1>1, <1>2, PTL DEF Spec, PlanNextOrOver

\* The hints of every worker cut its records into runs that one system call can
\* replay and that fit the buffer the planner allocates.
THEOREM HintsTile == Spec => []HintsTileContainers
<1>1. HintsInv => HintsTileContainers
  <2> SUFFICES ASSUME HintsInv, phase = "start", NEW w \in Workers
               PROVE  LET hs == HintsOf(w)
                          E(h) == h.start_trace_line + h.continuous_blks
                      IN  /\ hs # <<>> /\ hs[1].start_trace_line = 1
                          /\ E(hs[Len(hs)]) = Len(tc[w]) + 1
                          /\ \A n \in DOMAIN hs :
                              /\ n > 1 => hs[n].start_trace_line = E(hs[n - 1])
                              /\ hs[n].continuous_blks \in 1..buf[w]
                              /\ hs[n].continuous_blks <=
                                    AtLeast(1, max_continuous_4K_blks)
                              /\ \A k \in hs[n].start_trace_line..E(hs[n]) - 1 :
                                  /\ Info(w, k).rw = hs[n].rw
                                  /\ Info(w, k).lba =
                                        Info(w, hs[n].start_trace_line).lba
                                        + SECTORS_PER_BLK * (k - hs[n].start_trace_line)
    BY DEF HintsTileContainers
  <2> DEFINE hs == HintsOf(w)
             from == hints_start[w]
             to == hints_end[w]
  <2>1. /\ from \in Nat /\ to \in Nat /\ Len(hints) \in Nat
        /\ hints \in Seq(trace_replay_hint) /\ w < worker
    <3>1. OnceInv /\ worker = threads
      BY DEF HintsInv, OrderInv
    <3> QED BY <3>1, HintTypes DEF Workers
  <2>2. from < to /\ Tiled(w, from, to, Len(tc[w]) + 1)
    BY <2>1 DEF HintsInv, TiledInv
  <2>3. to <= Len(hints)
    BY <2>2 DEF Tiled
  <2> HIDE DEF from, to
  <2>4. /\ hs \in Seq(trace_replay_hint) /\ Len(hs) = to - from
        /\ \A n \in 1..to - from : hs[n] = hints[from + n]
    BY SMTT(30), <2>1, <2>2, <2>3 DEF HintsOf, from, to
  <2> HIDE DEF hs
  <2>5. hs # <<>> /\ hs[1].start_trace_line = 1 /\ End(hs[Len(hs)]) = Len(tc[w]) + 1
    BY <2>1, <2>2, <2>4 DEF Tiled
  <2>6. ASSUME NEW n \in DOMAIN hs
        PROVE  /\ n > 1 => hs[n].start_trace_line = End(hs[n - 1])
               /\ GoodHint(w, hs[n])
    <3>1. n \in 1..to - from /\ from + n \in from + 1..to
      BY <2>1, <2>2, <2>4
    <3>2. hs[n] = hints[from + n] /\ (n > 1 => hs[n - 1] = hints[from + n - 1])
      BY SMTT(30), <2>1, <2>2, <2>4, <3>1
    <3> QED BY SMTT(30), <2>1, <2>2, <3>1, <3>2 DEF Tiled
  <2>7. ASSUME NEW n \in DOMAIN hs, NEW k \in hs[n].start_trace_line..End(hs[n]) - 1
        PROVE  /\ Info(w, k).rw = hs[n].rw
               /\ Info(w, k).lba = Info(w, hs[n].start_trace_line).lba
                                   + SECTORS_PER_BLK * (k - hs[n].start_trace_line)
    BY <2>6 DEF GoodHint, Run
  <2> QED BY <2>5, <2>6, <2>7 DEF hs, GoodHint, End
<1> QED BY <1>1, HintsInvariant, PTL

\* The array of valid_lines hints is never overrun: every hint saved stands for
\* a record that no other hint stands for.
THEOREM HintsFitArray == Spec => []HintsFit
<1>1. HintsInv => HintsFit
  BY DEF HintsInv, FitInv
<1> QED BY <1>1, HintsInvariant, PTL
=============================================================================
