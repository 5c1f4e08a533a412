--------------------------- MODULE LineNumberTable ---------------------------
(***************************************************************************)
(* The line number table of a function (evm/runtime.h, evm/runtime.cpp):   *)
(* how the loader builds it from the entries of the package, and the       *)
(* search the processor makes in it before every instruction.              *)
(***************************************************************************)
EXTENDS Integers, Sequences

NoLine == -1   \* no line found yet

VARIABLES
  numbers,   \* the table: line, begin and end of each range
  offset,    \* of the instruction whose line is wanted
  beg, end,  \* the part of the table still searched, from 0, end excluded
  line       \* the line found, or NoLine

lineVars == <<numbers, offset, beg, end, line>>

-----------------------------------------------------------------------------
\* Mutant: the last range ends where it begins.
GenerateLineTable_LastEmpty(entries, size) ==
  [n \in DOMAIN entries |->
     [line  |-> entries[n].line,
      begin |-> IF n = 1 THEN 0 ELSE entries[n].offset,
      end   |-> IF n = Len(entries) THEN entries[n].offset
                ELSE entries[n + 1].offset]]

\* A range reaches to the offset of the next entry, the last one to the end of
\* the bytecode, and the first one starts at 0 whatever its offset.
GenerateLineTable(entries, size) ==
  [n \in DOMAIN entries |->
     [line  |-> entries[n].line,
      begin |-> IF n = 1 THEN 0 ELSE entries[n].offset,
      end   |-> IF n = Len(entries) THEN size ELSE entries[n + 1].offset]]

\* What generateLineTable makes of entries with ascending offsets: ranges from 0
\* on that follow each other without a gap.
IsLineTable(table) ==
  /\ table \in Seq([line : Nat, begin : Nat, end : Nat])
  /\ table # <<>> => table[1].begin = 0
  /\ \A n \in DOMAIN table : table[n].begin <= table[n].end
  /\ \A n \in 1 .. Len(table) - 1 : table[n].end = table[n + 1].begin

Covers(table, at) == table # <<>> => at <= table[Len(table)].end

-----------------------------------------------------------------------------
(***************************************************************************)
(* determineLine.                                                          *)
(***************************************************************************)
Searching == line = NoLine

StartSearch(at) ==
  /\ offset' = at
  /\ beg' = 0
  /\ end' = Len(numbers)
  /\ line' = IF numbers = <<>> THEN 0 ELSE NoLine
  /\ UNCHANGED numbers

Mid == (beg + end) \div 2
Target == numbers[Mid + 1]

Lower ==
  /\ Searching
  /\ offset < Target.begin
  /\ end' = Mid
  /\ UNCHANGED <<numbers, offset, beg, line>>

Upper ==
  /\ Searching
  /\ offset > Target.end
  /\ beg' = Mid
  /\ UNCHANGED <<numbers, offset, end, line>>

\* The end of a range belongs to it as well, though the next one begins there.
Found ==
  /\ Searching
  /\ Target.begin <= offset /\ offset <= Target.end
  /\ line' = Target.line
  /\ UNCHANGED <<numbers, offset, beg, end>>

Search == Lower \/ Upper \/ Found

-----------------------------------------------------------------------------
\* The search alone, in any table and for any instruction of the function.
LineInit ==
  /\ IsLineTable(numbers)
  /\ offset = 0 /\ beg = 0 /\ end = 0 /\ line = 0

\* A search begins when the one before has ended.
BeginSearch ==
  /\ ~Searching
  /\ offset' \in Nat /\ Covers(numbers, offset')
  /\ StartSearch(offset')

LineNext == BeginSearch \/ Search

\* While it goes on, a search looks at a part of the table that holds the offset:
\* no step leaves the vector, and the range wanted is never cut off
\* (determineLineR in evm/runtime.h).
Bracketed ==
  Searching =>
    /\ numbers # <<>> /\ Covers(numbers, offset)
    /\ beg < end /\ end <= Len(numbers)
    /\ numbers[beg + 1].begin <= offset /\ offset <= numbers[end].end

LineSpec == LineInit /\ [][LineNext]_lineVars
=============================================================================
