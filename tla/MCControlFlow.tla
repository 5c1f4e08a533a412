--------------------------- MODULE MCControlFlow ---------------------------
(***************************************************************************)
(* Every function of Depth statements: all nestings of assignments, output,*)
(* If with and without Else, While and For loops, Exit and Return, and     *)
(* Continue in While loops. Of the nestings of one statement more, those   *)
(* without output and Return.  Continue in a For loop and a Step other     *)
(* than 1 have a run of their own (ForPrograms): the code does not do      *)
(* there what the source says.                                             *)
(***************************************************************************)
EXTENDS ControlFlow

CONSTANT Depth   \* how many statements a function has

\* A variable is known by the line of its declaration and its name.
C == <<1, "c">>
I == <<2, "i">>

Lit(n)   == [k |-> "lit", val |-> n]
Local(x) == [k |-> "local", x |-> x]
AskYes   == [k |-> "ask"]
AskNot   == [k |-> "not", e |-> AskYes]

Set(x, e) == [k |-> "set", line |-> 0, x |-> x, e |-> e]
Show(x)  == [k |-> "out", line |-> 0, e |-> Local(x)]
Bump     == Set(C, [k |-> "plus", lhs |-> Local(C), rhs |-> Lit(1)])
Exit(flag) == [k |-> "exit", line |-> 0, flag |-> flag]
If(cond, then, else) ==
  [k |-> "if", line |-> 0, cases |-> <<[cond |-> cond, block |-> then]>>, else |-> else]
While(block) == [k |-> "loop", line |-> 0, cond |-> AskNot, block |-> block]
For(hasDim, block) ==
  [k |-> "for", line |-> 0, x |-> C, iteratorHasDim |-> hasDim, begin |-> Lit(1), end |-> Lit(2),
   step |-> Lit(1), block |-> block]

\* Statements of n nodes within the loops "inside", the innermost last. The outermost
\* For counts with c, those in it with variables of their own.
Leaves(inside) ==
  {Show(C), Bump, [k |-> "return", line |-> 0, e |-> Lit(0)]}
  \cup {Exit(flag) : flag \in ToSet(inside)}
  \cup (IF inside # <<>> /\ Last(inside) = "while" THEN {[k |-> "continue", line |-> 0]} ELSE {})

RECURSIVE Blocks(_, _), Nodes(_, _)
Nodes(n, inside) ==
  IF n = 1 THEN Leaves(inside)
  ELSE {While(b) : b \in Blocks(n - 1, Append(inside, "while"))}
       \cup {For("for" \in ToSet(inside), b) : b \in Blocks(n - 1, Append(inside, "for"))}
       \cup UNION {{If(AskYes, then, else) : then \in Blocks(m, inside), else \in Blocks(n - 1 - m, inside)}
                     : m \in 1 .. n - 1}

Blocks(n, inside) ==
  IF n = 0 THEN {<<>>}
  ELSE UNION {{<<s>> \o rest : s \in Nodes(m, inside), rest \in Blocks(n - m, inside)} : m \in 1 .. n}

\* Numbers the statements of a block in the order of the text, from the line given.
RECURSIVE Number(_, _), Lines(_)
Lines(stmts) ==
  IF stmts = <<>> THEN 0
  ELSE LET s == Head(stmts)
       IN 1 + Lines(Tail(stmts))
          + (IF s.k \in {"loop", "for"} THEN Lines(s.block)
             ELSE IF s.k = "if" THEN Lines(s.cases[1].block) + Lines(s.else) ELSE 0)

Number(stmts, at) ==
  IF stmts = <<>> THEN <<>>
  ELSE LET s == [Head(stmts) EXCEPT !.line = at]
           t == IF s.k = "loop" THEN [s EXCEPT !.block = Number(@, at + 1)]
                ELSE IF s.k = "for"
                THEN [s EXCEPT !.block = Number(@, at + 1), !.x = IF s.iteratorHasDim THEN <<at, "i">> ELSE @]
                ELSE IF s.k = "if"
                THEN [s EXCEPT !.cases[1].block = Number(@, at + 1),
                               !.else = Number(@, at + 1 + Lines(s.cases[1].block))]
                ELSE s
       IN <<t>> \o Number(Tail(stmts), at + Lines(<<Head(stmts)>>))

DimC == [k |-> "dim", line |-> 0, x |-> C, e |-> Lit(0)]

RECURSIVE Silent(_)
Silent(stmts) ==
  \A n \in DOMAIN stmts :
    LET s == stmts[n]
    IN /\ s.k \notin {"out", "return"}
       /\ s.k \in {"loop", "for"} => Silent(s.block)
       /\ s.k = "if" => Silent(s.cases[1].block) /\ Silent(s.else)

MCBlocks == Blocks(Depth, <<>>) \cup {<<s>> : s \in {r \in Nodes(Depth + 1, <<>>) : Silent(<<r>>)}}
MCPrograms == {Number(<<DimC>> \o b \o <<Show(C)>>, 1) : b \in MCBlocks}

\* The loop of testsuite/material/7_loop.eb, to 4 and with its sum: 0 + 2 + 4 = 6.
StepTwo ==
  <<[DimC EXCEPT !.line = 1],
    [k |-> "for", line |-> 2, x |-> I, iteratorHasDim |-> TRUE, begin |-> Lit(0), end |-> Lit(4),
     step |-> Lit(2),
     block |-> <<[k |-> "set", line |-> 3, x |-> C,
                  e |-> [k |-> "plus", lhs |-> Local(C), rhs |-> Local(I)]]>>],
    [k |-> "out", line |-> 4, e |-> Local(C)]>>

\* A For loop from 1 to 2 that asks in each iteration and, if the answer is yes, skips the rest.
ContinueInFor ==
  <<[DimC EXCEPT !.line = 1],
    [k |-> "for", line |-> 2, x |-> I, iteratorHasDim |-> TRUE, begin |-> Lit(1), end |-> Lit(2),
     step |-> Lit(1),
     block |-> <<[k |-> "if", line |-> 3, else |-> <<>>,
                  cases |-> <<[cond |-> AskYes, block |-> <<[k |-> "continue", line |-> 4]>>]>>],
                 [Bump EXCEPT !.line = 5]>>],
    [k |-> "out", line |-> 6, e |-> Local(C)]>>
ForPrograms == {StepTwo, ContinueInFor}

\* A For loop counts by its step, and Continue skips one iteration and goes on with the
\* next one: the function shows what it says, and asks no more often than its loop has
\* iterations (VisitForStmt and VisitContinueStmt of ILGen.cs).
ForLoopsAsWritten == FollowsSource
=============================================================================
