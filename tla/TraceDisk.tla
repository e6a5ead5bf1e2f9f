----------------------------- MODULE TraceDisk -----------------------------
(***************************************************************************)
(* What a replay of a trace must look like, whatever the number of workers *)
(* and their interleaving: one disk, on which the records that touch the   *)
(* same lba take effect in the order of their time stamps (in file order   *)
(* where those are equal), each once, and every read that is dumped shows  *)
(* the data of the write before it.  nvm_tools-J/overwrite_correction.sh   *)
(* relies on this when it compares the dumps of two replays.               *)
(***************************************************************************)
EXTENDS Integers, Sequences

CONSTANTS LBAs, Contents

VARIABLES infos,        \* the trace being replayed
          cell,         \* the data at each lba
          performed,    \* the records that have taken effect
          observing,    \* are the reads dumped?
          answer        \* the <<record, data>> pairs of the dumped reads

diskVars == <<infos, cell, performed, observing, answer>>

Init ==
    /\ infos = <<>>
    /\ cell \in [LBAs -> Contents]
    /\ performed = {} /\ answer = {}
    /\ observing \in BOOLEAN

Load ==
    /\ infos = <<>>
    /\ infos' # <<>>
    /\ UNCHANGED <<cell, performed, answer, observing>>

SetObserving ==
    /\ infos = <<>>
    /\ observing' = TRUE
    /\ UNCHANGED <<infos, cell, performed, answer>>

Before(m, n) ==
    /\ infos[m].lba = infos[n].lba
    /\ \/ infos[m].ts < infos[n].ts
       \/ infos[m].ts = infos[n].ts /\ m < n

\* The records S have not taken effect; all that come before them have.
Due(S, rw) ==
    /\ S # {}
    /\ \A n \in S :
          /\ infos[n].rw = rw
          /\ n \notin performed
          /\ \A m \in DOMAIN infos : Before(m, n) => m \in performed

Write(S) ==
    /\ Due(S, "W")
    /\ performed' = performed \cup S
    /\ cell' = [l \in LBAs |-> IF \E n \in S : infos[n].lba = l
                               THEN CHOOSE n \in S : infos[n].lba = l
                               ELSE cell[l]]
    /\ UNCHANGED <<infos, answer, observing>>

Read(S) ==
    /\ Due(S, "R")
    /\ performed' = performed \cup S
    /\ answer' = IF observing
                 THEN answer \cup {<<n, cell[infos[n].lba]>> : n \in S}
                 ELSE answer
    /\ UNCHANGED <<infos, cell, observing>>

Next ==
    \/ Load \/ SetObserving
    \/ \E S \in SUBSET (DOMAIN infos \ performed) : Write(S) \/ Read(S)

Spec == Init /\ [][Next]_diskVars
=============================================================================
