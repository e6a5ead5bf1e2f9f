---------------------------- MODULE AgingSystem ----------------------------
(***************************************************************************)
(* aging_system.c: phase 1 fills file1, phase 2 punches holes of one page  *)
(* at random places of it, phase 3 writes file2 into the room they leave,  *)
(* and phase 4 is all of them.  aging_amount.sh runs 1, 2 and 3 as three   *)
(* processes on one file system; here any phase may follow any other, and  *)
(* a process may be interrupted.                                           *)
(*                                                                         *)
(* Data.  A page is filled with one number v, so a file is the sequence of *)
(* its pages; Hole is a page that takes no room.  block_size is counted in *)
(* pages.                                                                  *)
(***************************************************************************)
EXTENDS Integers, Sequences, SequencesExt, FiniteSetsExt

CONSTANTS
    TotalPages,         \* what -s may make of total_4K_blks
    BlockPages,         \* the arguments of -b
    HolePercents,       \* the arguments of -o
    Capacity,           \* pages of the file system
    MaxInvocations      \* bound: processes one after another

ASSUME AgingAssumption ==
    /\ TotalPages \subseteq 0..Capacity /\ BlockPages \subseteq Nat \ {0}
    /\ HolePercents \subseteq Nat /\ Capacity \in Nat /\ MaxInvocations \in Nat

Hole == 0
Missing == <<-1>>

VARIABLES
    total_4K_blks, block_size, hole_percent,
    phase, stage, pc,       \* the process: -p, its current part, where in it
    i, hole_num, records,   \* blocks written; holes left; where holes were made
    file1, file2,
    drawn,              \* what the generator gives for the seed of -p 2 and 4
    punchers,           \* history: seeds that punched file1 since it was filled
    punched,            \* history: all holes made? "no", "so_far" or "yes"
    invocations

optVars == <<total_4K_blks, block_size, hole_percent>>
procVars == <<phase, stage, pc, i, hole_num, records>>
histVars == <<punchers, punched, invocations>>
vars == <<optVars, procVars, file1, file2, drawn, histVars>>

\* Mutant: room for the holes of the last block is counted too.
fill_num_rounds_up ==
    ((total_4K_blks \div block_size) * hole_percent + 99) \div 100

fill_num == ((total_4K_blks \div block_size) * hole_percent) \div 100
Blocks == IF stage = 1 THEN total_4K_blks \div block_size ELSE fill_num

Init ==
    /\ total_4K_blks \in TotalPages /\ block_size \in BlockPages
    /\ hole_percent \in HolePercents
    /\ phase = 1 /\ stage = 1 /\ pc = "exited"
    /\ i = 0 /\ hole_num = 0 /\ records = {}
    /\ file1 = Missing /\ file2 = Missing
    /\ drawn = [seed \in {2, 4} |-> <<>>]
    /\ punchers = {} /\ punched = "no" /\ invocations = 0

Invoke ==
    /\ pc = "exited"
    /\ invocations < MaxInvocations
    /\ invocations' = invocations + 1
    /\ phase' \in 1..4
    /\ stage' = IF phase' = 4 THEN 1 ELSE phase'
    /\ pc' = "open"
    /\ UNCHANGED <<optVars, i, hole_num, records, file1, file2, drawn, punchers,
                   punched>>

\* O_CREAT without O_TRUNC, except in phase 2, which needs the file.
Opened(f) == IF f = Missing THEN <<>> ELSE f

\* The number of pages that phase 2 punches.
Holes == (total_4K_blks * hole_percent) \div 100

open ==
    /\ pc = "open"
    /\ stage = 2 => file1 # Missing
    /\ file1' = IF stage = 1 THEN Opened(file1) ELSE file1
    /\ file2' = IF stage = 3 THEN Opened(file2) ELSE file2
    /\ i' = 0
    /\ hole_num' = IF stage = 2 THEN Holes ELSE 0
    /\ records' = {}
    /\ punched' = CASE stage = 1 -> "no" [] stage = 2 -> "so_far"
                    [] stage = 3 -> punched
    /\ pc' = "run"
    /\ UNCHANGED <<optVars, phase, stage, drawn, punchers, invocations>>

\* exit(1), or the process is interrupted.
Exit ==
    /\ pc' = "exited"
    /\ UNCHANGED <<optVars, phase, stage, i, hole_num, records, drawn, histVars>>

openFails == pc = "open" /\ Exit /\ UNCHANGED <<file1, file2>>
Interrupted == pc = "run" /\ Exit /\ UNCHANGED <<file1, file2>>

\* Phase 4 goes on with the next part.
PartDone ==
    /\ pc' = IF phase = 4 /\ stage < 3 THEN "open" ELSE "exited"
    /\ stage' = IF phase = 4 /\ stage < 3 THEN stage + 1 ELSE stage
    /\ UNCHANGED <<optVars, phase, i, hole_num, records, file1, file2, drawn,
                   invocations>>

-----------------------------------------------------------------------------
(* Phases 1 and 3 *)

\* Mutant: both files start at the same number.
first_v_same == total_4K_blks

\* v at the start of the phase.
first_v == IF stage = 1 THEN 1 * total_4K_blks ELSE 3 * total_4K_blks

Filling == pc = "run" /\ stage \in {1, 3} /\ i < Blocks

\* f after n pages of block i: v goes on from block to block, so page k of a
\* file holds the start of the phase plus k.
Written(f, n) ==
    LET at == i * block_size
        len == IF at + n > Len(f) THEN at + n ELSE Len(f)
    IN  [k \in 1..len |-> IF k \in at + 1..at + n THEN first_v + k - 1 ELSE f[k]]

Used(f) == IF f = Missing THEN 0 ELSE Cardinality({k \in DOMAIN f : f[k] # Hole})

\* The file system has room for n pages of the block.
HasRoom(n) ==
    IF stage = 1 THEN Used(Written(file1, n)) + Used(file2) <= Capacity
    ELSE Used(file1) + Used(Written(file2, n)) <= Capacity

Store(n) ==
    /\ HasRoom(n)
    /\ file1' = IF stage = 1 THEN Written(file1, n) ELSE file1
    /\ file2' = IF stage = 3 THEN Written(file2, n) ELSE file2

write ==
    /\ Filling
    /\ Store(block_size)
    /\ i' = i + 1
    /\ UNCHANGED <<optVars, phase, stage, pc, hole_num, records, drawn, histVars>>

\* An error or a short write of n pages, which there must be without room.
writeFails == Filling /\ (\E n \in 0..block_size - 1 : Store(n)) /\ Exit

FillDone ==
    /\ pc = "run" /\ stage \in {1, 3} /\ i >= Blocks
    /\ PartDone
    /\ punchers' = IF stage = 1 THEN {} ELSE punchers
    /\ UNCHANGED punched

-----------------------------------------------------------------------------
(* Phase 2 *)

MoreHoles == hole_num > 0

\* Mutant: only a hole that was made counts.
hole_num_if_made(made) == IF made THEN hole_num - 1 ELSE hole_num

hole_num_after(made) == hole_num - 1

\* Mutant: a place is not looked up in records.
AnyPlace(pos) == TRUE

Fresh(pos) == pos \notin records

\* init_genrand(MAGIC_RAND + phase): the same phase gets the same numbers.
\* drawn keeps the ones that passed the test, as far as they were needed.
Draw(pos) ==
    LET n == Len(drawn[phase])
        k == Holes - hole_num + 1
    IN  /\ k <= n => pos = drawn[phase][k]
        /\ drawn' = IF k > n THEN [drawn EXCEPT ![phase] = Append(@, pos)] ELSE drawn

\* A hole behind the end of the file changes nothing.  An error of fallocate is
\* printed and forgotten.
Punch(pos) ==
    /\ pc = "run" /\ stage = 2 /\ MoreHoles
    /\ Fresh(pos)
    /\ Draw(pos)
    /\ records' = records \cup {pos}
    /\ \E made \in BOOLEAN :
          /\ file1' = IF made /\ pos < Len(file1) THEN [file1 EXCEPT ![pos + 1] = Hole]
                                                 ELSE file1
          /\ punched' = IF made THEN punched ELSE "no"
          /\ hole_num' = hole_num_after(made)
    /\ punchers' = punchers \cup {phase}
    /\ UNCHANGED <<optVars, phase, stage, pc, i, file2, invocations>>

\* The generator gives a place that has been punched already.
DrawAgain == pc = "run" /\ stage = 2 /\ MoreHoles /\ records # {} /\ UNCHANGED vars

PunchDone ==
    /\ pc = "run" /\ stage = 2 /\ ~MoreHoles
    /\ PartDone
    /\ punched' = IF punched = "so_far" THEN "yes" ELSE punched
    /\ UNCHANGED punchers

-----------------------------------------------------------------------------
Progress ==
    \/ open \/ write \/ FillDone \/ PunchDone
    \/ \E pos \in 0..total_4K_blks - 1 : Punch(pos)

Ended == pc = "exited" /\ UNCHANGED vars

Next == Invoke \/ Progress \/ openFails \/ Interrupted \/ writeFails \/ DrawAgain
        \/ Ended

\* The process goes on: calls return, and a generator that runs for ever gives
\* every number below total_4K_blks some time.
Spec == Init /\ [][Next]_vars /\ WF_vars(Progress)
        /\ WF_vars(openFails /\ stage = 2) /\ WF_vars(writeFails)

-----------------------------------------------------------------------------
(* Properties *)

\* Every variable keeps its type; a file never outgrows the file system.
TypeOK ==
    /\ phase \in 1..4 /\ stage \in 1..3 /\ pc \in {"exited", "open", "run"}
    /\ i \in Nat /\ hole_num \in Nat
    /\ records \subseteq 0..total_4K_blks - 1
    /\ \A f \in {file1, file2} : f = Missing \/ f \in Seq(Nat)
    /\ Used(file1) + Used(file2) <= Capacity

HolesOf(f) == {k \in DOMAIN f : f[k] = Hole}

\* The holes are as many as asked for and no two in one place, also when phase 2
\* was interrupted or met errors and is run again: with one seed it comes back
\* to the same places.  (Holes behind the end of file1 do not count: the file
\* ends with the last whole block.)
HolesExact ==
    \A seed \in {2, 4} : punched = "yes" /\ punchers = {seed} =>
        /\ Len(drawn[seed]) = Holes /\ IsInjective(drawn[seed])
        /\ HolesOf(file1) = {pos + 1 : pos \in ToSet(drawn[seed])} \cap DOMAIN file1

\* aging_system.c:25, "write another file to fill the holes": after a fill and
\* a clean punching, phase 3 never runs out of room even on a file system that
\* file1 had filled up, whatever the rounding to whole blocks.
FitsInHoles ==
    Filling /\ stage = 3 /\ punched = "yes" => HasRoom(block_size)

\* The file system under test finds no two equal pages in the two files, after
\* any sequence of phases, complete or not: what is measured is no deduplication.
\* (All variables keep their types.)
NoDuplicates ==
    /\ TypeOK
    /\ LET pages == Opened(file1) \o Opened(file2)
       IN  \A j, k \in DOMAIN pages :
              pages[j] = pages[k] /\ pages[j] # Hole => j = k

\* A run ends if no more holes than pages are asked for.  (With -o above 100 the
\* loop of phase 2 looks for a place that is left for ever.)
AgingEnds == hole_percent <= 100 => (pc = "open" ~> pc = "exited")
=============================================================================
