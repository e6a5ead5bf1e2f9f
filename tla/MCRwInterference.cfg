SPECIFICATION Spec
CONSTANTS
    Readers = {0, 1, 2}
    Writers = {0, 1}
    Totals = {4}
    MaxInvocations = 2
INVARIANTS  WritersUnique ReportIsFinal
PROPERTY RunEnds
