----------------------------- MODULE Aggregate -----------------------------
(***************************************************************************)
(* agg_table of tests/aggregate.py: a table with the rows of grp rounds    *)
(* one after another becomes the averages of the rounds.  Columns are      *)
(* independent, so a table is one column: a sequence of cells.  A cell is  *)
(* [kind, value]: "int" if it consists of digits, "float" for other        *)
(* numbers, "text" for the rest, an empty cell of a failed test included.  *)
(* Values count fractions, ONE of them to a unit, so an int is a multiple  *)
(* of ONE; ONE is chosen such that grp divides every float.  A cell is a   *)
(* string until something is added to it.                                  *)
(***************************************************************************)
EXTENDS Integers, Sequences

CONSTANT ONE

ASSUME OneAssumption == ONE \in Nat \ {0}

\* Mutant: every row is added, the first round to itself.
FirstRoundToo(row, rows_per_grp) == row >= 1

\* row >= rows_per_grp, counting from one.
LaterRound(row, rows_per_grp) == row > rows_per_grp

\* int("1.5") and int("abc") raise ValueError, int(1.5) is 1.
ToIntRaises(acc) == acc.kind = "text" \/ (acc.kind = "float" /\ ~acc.added)
ToFloatRaises(acc) == acc.kind = "text"

Added(acc, cell) ==
    CASE cell.kind = "text" -> acc
      [] cell.kind = "int" ->
            IF ToIntRaises(acc) THEN [acc EXCEPT !.raised = TRUE]
            ELSE [acc EXCEPT !.kind = "int", !.added = TRUE,
                             !.value = (@ \div ONE) * ONE + cell.value]
      [] cell.kind = "float" ->
            IF ToFloatRaises(acc) THEN [acc EXCEPT !.raised = TRUE]
            ELSE [acc EXCEPT !.kind = "float", !.added = TRUE, !.value = @ + cell.value]

\* The mean by the kind of the sum: // for an int, / for a float; text stays.
Divided(acc, grp) ==
    CASE acc.kind = "int" -> [acc EXCEPT !.value = (@ \div (ONE * grp)) * ONE]
      [] acc.kind = "float" -> [acc EXCEPT !.value = @ \div grp]
      [] acc.kind = "text" -> acc

\* What the rows of each place come to.  A place that raised stops the program
\* before it writes any.
agg_table(cells, grp) ==
    LET rows_per_grp == Len(cells) \div grp
        first(p) == [kind |-> cells[p].kind, value |-> cells[p].value,
                     added |-> FALSE, raised |-> FALSE]
        total(p) ==
            LET upto[row \in 0..Len(cells)] ==
                    IF row = 0 THEN first(p)
                    ELSE LET acc == upto[row - 1]
                         IN  IF /\ LaterRound(row, rows_per_grp) /\ ~acc.raised
                                /\ (row - 1) % rows_per_grp = p - 1
                               THEN Added(acc, cells[row]) ELSE acc
            IN  upto[Len(cells)]
    IN  [p \in 1..rows_per_grp |-> Divided(total(p), grp)]
=============================================================================
