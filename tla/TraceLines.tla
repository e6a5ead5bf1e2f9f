----------------------------- MODULE TraceLines -----------------------------
(***************************************************************************)
(* How parse_trace_info of replay.c cuts a trace file into records: fgets  *)
(* into a buffer of LINE_SIZE bytes, removal of the last byte, sscanf.  A  *)
(* file is a sequence of characters; the fields before the md5 are left    *)
(* out, so the text of a line stands for its md5 and a record is accepted  *)
(* when its text is not empty.                                             *)
(***************************************************************************)
EXTENDS Integers, Sequences, FiniteSetsExt

CONSTANTS LINE_SIZE,    \* 4096 in the code
          NL            \* '\n'

ASSUME LineSizeAssumption == LINE_SIZE \in Nat \ {0, 1}

RECURSIVE Pieces(_)

\* What one fgets takes: up to a newline, a full buffer or the end of the file.
fgets(file) ==
    LET fits == IF Len(file) < LINE_SIZE - 1 THEN Len(file) ELSE LINE_SIZE - 1
        ends == {k \in 1..fits : file[k] = NL} \cup {fits}
    IN  SubSeq(file, 1, Min(ends))

\* The strings of the while loop, in order.
Pieces(file) ==
    IF file = <<>> THEN <<>>
    ELSE <<fgets(file)>> \o Pieces(SubSeq(file, Len(fgets(file)) + 1, Len(file)))

\* Mutant: the last two bytes, as if every line ended in "\r\n".
StripTwo(line) == SubSeq(line, 1, Len(line) - 2)

\* line[strlen(line) - 1] = '\0', whatever that byte is.
Strip(line) == SubSeq(line, 1, Len(line) - 1)

\* The md5 of every record: a line without one fails sscanf.
parse_trace_info(file) ==
    LET pieces == Pieces(file)
    IN  SelectSeq([k \in DOMAIN pieces |-> Strip(pieces[k])], LAMBDA md5 : md5 # <<>>)
=============================================================================
