----------------------------- MODULE Algorithms -----------------------------
(***************************************************************************)
(* The sequential functions of the tools, each called once with any of a   *)
(* set of inputs and compared with what it is meant to compute.            *)
(***************************************************************************)
EXTENDS TraceSort, TraceLines, FillBlk, ShuffleAndWrite, Write1G,
        Aggregate, FiniteSets

CONSTANTS
    Timestamps, MaxRecords,     \* containers to sort
    MaxFile,                    \* characters of a trace file
    Md5s,                       \* md5s of records
    Contexts,                   \* what malloc leaves in a generator's context
    Draws,                      \* numbers drawn from the twister
    MaxSize, Granularities,     \* bytes of a file to shuffle, and of a block
    Ids,                        \* arguments of write_1G
    Cells, MaxRows              \* of a table to aggregate

VARIABLES input, result
vars == <<input, result>>

Pending == [done |-> FALSE]
Done(r) == [done |-> TRUE, value |-> r]

SortInputs ==
    {[f |-> "sort", a |-> [k \in 1..n |-> [ts |-> t[k], line |-> k]]] :
        <<n, t>> \in UNION {{n} \X [1..n -> Timestamps] : n \in 1..MaxRecords}}

FileInputs == [f : {"parse"}, file : UNION {[1..n -> {0, NL}] : n \in 0..MaxFile}]

FillInputs == [f : {"fill"}, md5 : Md5s, other : Md5s,
               gener : {"null", "mt19937ar", "rand", "lcg"}, ctx : Contexts]

MtInputs == [f : {"mt"}, state : Contexts, seed : Words, fed : BOOLEAN]

\* Every block may be read or written short.
ShuffleInputs ==
    UNION {LET n == IF g = 0 THEN 1 ELSE num_blocks(s, g)
           IN  [f : {"shuffle"}, size : {s}, granularity : {g}, shuffle : random_shuffle(n),
                reads : [0..(n - 1) -> 0..g], writes : [0..(n - 1) -> 0..g], memory : BOOLEAN] :
           s \in 0..MaxSize, g \in Granularities}

WriteInputs == [f : {"write"}, one : Ids, two : Ids,
                rounds : 0..(SIZE \div STEP), part : 0..(STEP \div PAGE_SIZE - 1)]

\* Tables of grp rounds, or with rows too many or too few.
TableInputs ==
    UNION {[f : {"agg"}, cells : [1..n -> Cells], grp : 1..n] : n \in 1..MaxRows}

Init ==
    /\ \/ input \in SortInputs
       \/ input \in FileInputs
       \/ input \in FillInputs
       \/ input \in MtInputs
       \/ input \in ShuffleInputs
       \/ input \in WriteInputs
       \/ input \in TableInputs
    /\ result = Pending

Returns(f, r) ==
    /\ input.f = f
    /\ ~result.done
    /\ result' = Done(r)
    /\ UNCHANGED input

Sort == Returns("sort", trace_container_sort_infomap_by_ts(input.a))

Parse == Returns("parse", parse_trace_info(input.file))

\* The context is a word for the small generators.
CtxFor(in) == IF in.gener = "mt19937ar" THEN in.ctx ELSE in.ctx.mt[0]
Fill == Returns("fill", <<fill_blk(input.md5, input.gener, CtxFor(input)),
                          fill_blk(input.other, input.gener, CtxFor(input))>>)

\* Draws numbers of the static generator, from its first use or after a seed.
Mt ==
    LET start == IF input.fed THEN init_genrand(input.state, input.seed) ELSE Static
        after[k \in 0..Draws] ==
            IF k = 0 THEN [state |-> start, ys |-> <<>>]
            ELSE LET prev == after[k - 1]
                     r == genrand_int32(prev.state)
                 IN  [state |-> r.state, ys |-> Append(prev.ys, r.y)]
    IN  Returns("mt", after[Draws].ys)

Shuffle == Returns("shuffle",
    shuffle_and_write(input.size, input.granularity, input.shuffle,
                      input.reads, input.writes, input.memory))

\* Two files of one directory, the second after the first.
Write == Returns("write",
    <<write_1G(input.one, FALSE, input.rounds, input.part),
      write_1G(input.two, input.two = input.one, SIZE \div STEP, 0)>>)

Agg == Returns("agg", agg_table(input.cells, input.grp))

Finished == result.done /\ UNCHANGED vars

Next == Sort \/ Parse \/ Fill \/ Mt \/ Shuffle \/ Write \/ Agg \/ Finished

Spec == Init /\ [][Next]_vars
-----------------------------------------------------------------------------
Has(f) == input.f = f /\ result.done
out == result.value

\* The merge sort of replay.c is the stable sort that ReplayPlan takes it for:
\* a rearrangement, ascending in time, with records of equal time in the order
\* they came in.
SortsStably ==
    Has("sort") =>
        /\ Len(out) = Len(input.a)
        /\ ToSet(out) = ToSet(input.a)
        /\ \A x, y \in DOMAIN out : x < y =>
              \/ out[x].ts < out[y].ts
              \/ out[x].ts = out[y].ts /\ out[x].line < out[y].line

\* Positions of the newlines of the file, the k-th of them, and the text
\* between the position and the newline before it.
Newlines == {p \in DOMAIN input.file : input.file[p] = NL}
Newline(k) == CHOOSE p \in Newlines : Cardinality({x \in Newlines : x <= p}) = k
Line(p) == SubSeq(input.file, Max({x \in Newlines : x < p} \cup {0}) + 1, p - 1)

\* parse_trace_info takes the last byte of every string it gets from fgets for
\* the newline.  Where every line fits the buffer that harms at most the last
\* one: lines that end in a newline are read whole and in their order, and a
\* last line without one loses exactly its last character.
OnlyLastLineSuffers ==
    (Has("parse") /\ \A p \in Newlines \cup {Len(input.file) + 1} : Len(Line(p)) <= LINE_SIZE - 2) =>
        LET lines == [k \in 1..Cardinality(Newlines) |-> Line(Newline(k))]
            rest == Line(Len(input.file) + 1)
            cut == IF rest = <<>> THEN <<>> ELSE <<Front(rest)>>
        IN  out = SelectSeq(lines \o cut, LAMBDA l : l # <<>>)

\* The numbers the twister is meant to give: x(k+N) from x(k), x(k+1), x(k+M),
\* all of them kept, nothing overwritten.
Recurrence(seed) ==
    LET x[k \in Nat] ==
            IF k < N THEN init_genrand(Static, seed).mt[k]
            ELSE Twisted(x[k - N + M], x[k - N], x[k - N + 1])
    IN  [k \in 1..Draws |-> Tempered(x[N + k - 1])]

\* genrand_int32 overwrites its N words in place, in three pieces of code with
\* different offsets; its numbers are those of the recurrence all the same, over
\* several refills, and depend on the seed alone, not on what the state held
\* before init_genrand.  Without a seed they are those of the default seed.
TwisterIsRecurrence ==
    Has("mt") => out = Recurrence(IF input.fed THEN input.seed ELSE DEFAULT_SEED)

\* The md5s traces hold: whole chunks that divide the block evenly.
Regular(md5) ==
    /\ Len(md5) > 0 /\ Len(md5) % MD5_SIZE = 0
    /\ (BLK_SIZE \div MD5_SIZE) % (Len(md5) \div MD5_SIZE) = 0

\* Byte p of a block by its md5, for the null generator.
MeantByte(md5, p) ==
    LET part == BLK_SIZE \div (Len(md5) \div MD5_SIZE)
    IN  md5[(p \div part) * MD5_SIZE + ((p % part) % MD5_SIZE) + 1]

\* fill_blk divides by the number of chunks, so a record whose md5 is shorter
\* than one kills the process, and no other record does.  Every chunk fills its
\* own part of the block, whatever the generator and whatever its context held.
\* The parts of a regular md5 are the whole block and not a byte past it; an
\* irregular one overruns the block by less than a chunk.
BlockIsFilled ==
    Has("fill") =>
        /\ out[1].killed <=> Len(input.md5) < MD5_SIZE
        /\ ~out[1].killed =>
              LET steps == Len(input.md5) \div MD5_SIZE
                  parts == steps * (BLK_SIZE \div steps)
                  written == {p \in DOMAIN out[1].buf : out[1].buf[p] # Unwritten}
              IN  /\ 0..(parts - 1) \subseteq written
                  /\ BLK_SIZE + MD5_SIZE - 1 \notin written
                  /\ Regular(input.md5) => written = 0..(BLK_SIZE - 1)
                  /\ input.gener = "null" =>
                        \A p \in 0..(parts - 1) : out[1].buf[p] = MeantByte(input.md5, p)

\* First words of the chunks: all that a generator is seeded with.
Seeds(md5) == [i \in 1..(Len(md5) \div MD5_SIZE) |->
                  SubSeq(md5, (i - 1) * MD5_SIZE + 1, (i - 1) * MD5_SIZE + WORD_SIZE)]

\* The deduplication a replay measures is that of the trace only without a
\* generator: then records share a block exactly if they share the md5.  A
\* generator is seeded with the first word of each chunk, so records that agree
\* on those words share a block too; with lcg, whose step is one to one on
\* seeds below the mask, no others do.
DuplicatesAreKept ==
    (Has("fill") /\ Regular(input.md5) /\ Len(input.other) = Len(input.md5)) =>
        LET same == out[1].buf = out[2].buf
            low(md5) == \A i \in DOMAIN Seeds(md5) : Seeds(md5)[i][WORD_SIZE] < Chars \div 2
        IN  /\ input.gener = "null" => (same <=> input.md5 = input.other)
            /\ Seeds(input.md5) = Seeds(input.other) => input.gener = "null" \/ same
            /\ (input.gener = "lcg" /\ low(input.md5) /\ low(input.other) /\ same) =>
                  Seeds(input.md5) = Seeds(input.other)

\* Every read got all it could and every write took its block.
Complete ==
    /\ input.memory /\ input.granularity > 0
    /\ \A i \in DOMAIN input.reads :
          input.reads[i] = input.granularity /\ input.writes[i] = input.granularity

\* With complete calls the shuffled file is an arrangement of the whole blocks
\* of the file: it has their length, each block is there unbroken, and only the
\* tail behind the last whole block is missing.  A file smaller than a block
\* comes out as one block padded with uninitialised memory.  However short the
\* calls fall, no byte of the file is written twice: the shuffled file never
\* has duplicates that the file did not have.
ShuffleKeepsBlocks ==
    Has("shuffle") =>
        LET g == input.granularity
            n == input.size \div g
            blocks == {SubSeq(out.out, (i - 1) * g + 1, i * g) : i \in 1..n}
        IN  /\ (Complete /\ input.size >= g) =>
                  /\ Len(out.out) = n * g
                  /\ blocks = {[k \in 1..g |-> i * g + k - 1] : i \in 0..(n - 1)}
            /\ (Complete /\ input.size < g) =>
                  out.out = [k \in 1..g |-> IF k <= input.size THEN k - 1 ELSE Garbage]
            /\ \A x, y \in DOMAIN out.out :
                  x # y => out.out[x] # out.out[y] \/ out.out[x] = Garbage

\* percore_amount.sh wants the first round of write_1G free of duplicates: no
\* page comes twice in a file, and files of different ids, as long as their
\* first pages fit an int, have no page in common, however much of the first
\* was written before it failed.
FilesShareNoPage ==
    LET fits(id) == (id + 1) * (SIZE \div PAGE_SIZE) <= 2 ^ (WIDTH - 1)
    IN  (Has("write") /\ fits(input.one) /\ fits(input.two)) =>
            /\ \A f \in 1..2 : Cardinality(ToSet(out[f])) = Len(out[f])
            /\ ToSet(out[1]) \cap ToSet(out[2]) = {}

\* The rows of place p, round by round, those of a table whose rows do not
\* divide evenly included.
Column(p) ==
    LET rows == Len(input.cells) \div input.grp
        n == (Len(input.cells) - p) \div rows + 1
    IN  [i \in 1..n |-> input.cells[p + (i - 1) * rows]]
SumOf(cells) == FoldLeft(LAMBDA acc, c : acc + c.value, 0, cells)
Kinds(cells) == {c.kind : c \in ToSet(cells)}

\* Where all rounds print numbers of the same form, aggregate.py gives their
\* mean, cut to an int for ints.  Where ints and floats mix, as to_MiB_s prints
\* them, it either gives up or loses less than one for every int that follows
\* a float, before it divides; a cell that a failed test left empty counts as
\* zero.  It never adds a value twice or to another row.
AggregatesRounds ==
    Has("agg") =>
        \A p \in DOMAIN out :
            LET cells == Column(p)
                numbers == SelectSeq(cells, LAMBDA c : c.kind # "text")
                ints == Len(SelectSeq(cells, LAMBDA c : c.kind = "int"))
                lost == SumOf(numbers) - out[p].value * input.grp
            IN  /\ Kinds(cells) = {"float"} => ~out[p].raised /\ lost = 0
                /\ Kinds(cells) = {"int"} => ~out[p].raised /\ lost \in 0..(ONE * input.grp - 1)
                /\ ~out[p].raised => lost >= 0 /\ lost < ONE * (ints + input.grp)
=============================================================================
