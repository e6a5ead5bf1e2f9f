------------------------------ MODULE Write1G ------------------------------
(***************************************************************************)
(* write_1G.c, which percore_amount.sh starts with ids 0, 1, 2, ...: each  *)
(* writes a file of pages and no two pages of a first round are alike.  A  *)
(* page is the number it is filled with.                                   *)
(***************************************************************************)
EXTENDS Integers, Sequences

CONSTANTS SIZE, STEP, PAGE_SIZE,    \* 1 GiB, 2 MiB, 4 KiB in the code
          WIDTH                     \* bits of an int

ASSUME Write1GAssumption ==
    /\ PAGE_SIZE \in Nat \ {0} /\ STEP \in Nat \ {0} /\ SIZE \in Nat
    /\ STEP % PAGE_SIZE = 0 /\ SIZE % STEP = 0
    /\ WIDTH \in Nat \ {0}

\* Mutant: ids one step apart.
first_page_of_steps(id) == id * (SIZE \div STEP)

\* atoi(argv[1]) * (SIZE / PAGE_SIZE), an int.
first_page(id) ==
    LET v == (id * (SIZE \div PAGE_SIZE)) % 2 ^ WIDTH
    IN  IF v >= 2 ^ (WIDTH - 1) THEN v - 2 ^ WIDTH ELSE v

\* buf at round i, filled page by page.
fill_pages(id, i) ==
    [j \in 1..(STEP \div PAGE_SIZE) |-> first_page(id) + (i - 1) * (STEP \div PAGE_SIZE) + j - 1]

\* The pages of the file: nothing if it exists already, and full rounds up to
\* the first write that falls short, after which the program gives up with
\* part of that round written.
write_1G(id, exists, rounds, part) ==
    LET full(n) == [k \in 1..(n * (STEP \div PAGE_SIZE)) |-> first_page(id) + k - 1]
    IN  IF exists THEN <<>>
        ELSE IF rounds >= SIZE \div STEP THEN full(SIZE \div STEP)
        ELSE full(rounds) \o SubSeq(fill_pages(id, rounds + 1), 1, part)
=============================================================================
