---------------------------- MODULE ControlFlow ----------------------------
(***************************************************************************)
(* The processor (evm/processor.cpp, evm/processor.h) running the bytecode *)
(* that the code generator makes of one function: before each instruction  *)
(* it looks up the line, then it consumes the fields of the instruction    *)
(* and executes it.  The function it calls, "ask", is the environment: it  *)
(* answers with any Boolean.                                               *)
(***************************************************************************)
EXTENDS CodeGen, LineNumberTable

CONSTANTS
  Programs,     \* the functions that may run: sequences of statements
  MaxAnswers    \* bound: how often a function may ask

VARIABLES
  program,   \* the statements of the function that runs
  fn,        \* what the code generator made of them
  phase,     \* "fetch", "search", "execute" or "returned"
  ip,        \* offset of the next field consumed
  operand,   \* the operand stack, its top last: width and value of each entry
  locals,    \* the value at each local index
  out,       \* what the function has shown
  answers    \* what it has been answered

machineVars == <<program, fn, phase, ip, operand, locals, out, answers>>
vars == <<machineVars, lineVars>>

Init ==
  /\ program \in Programs
  /\ fn = Generate(program)
  /\ phase = "fetch"
  /\ ip = 0
  /\ operand = <<>>
  /\ locals = [n \in 1 .. fn.locals |-> 0]
  /\ out = <<>>
  /\ answers = <<>>
  /\ numbers = GenerateLineTable(fn.lines, fn.size)
  /\ offset = 0 /\ beg = 0 /\ end = 0 /\ line = 0

-----------------------------------------------------------------------------
(***************************************************************************)
(* The line of the instruction.                                            *)
(***************************************************************************)
Fetch ==
  /\ phase = "fetch"
  /\ StartSearch(ip)
  /\ phase' = IF numbers = <<>> THEN "execute" ELSE "search"
  /\ UNCHANGED <<program, fn, ip, operand, locals, out, answers>>

\* Mutant: goes on with whatever the first comparison leaves.
DetermineLine_Once ==
  /\ phase = "search"
  /\ Search
  /\ phase' = "execute"
  /\ UNCHANGED <<program, fn, ip, operand, locals, out, answers>>

DetermineLine ==
  /\ phase = "search"
  /\ Search
  /\ phase' = IF line' = NoLine THEN "search" ELSE "execute"
  /\ UNCHANGED <<program, fn, ip, operand, locals, out, answers>>

-----------------------------------------------------------------------------
(***************************************************************************)
(* Instructions.                                                           *)
(***************************************************************************)
Consume(at) == fn.code[ip + at].val   \* the field so many bytes behind ip

Entry(typ, val) == [width |-> Size(typ), val |-> val]
Top == Last(operand).val
Below(n) == operand[Len(operand) - n].val
Popped(n) == SubSeq(operand, 1, Len(operand) - n)

Execute(op, length) ==
  /\ phase = "execute"
  /\ Consume(0) = op
  /\ phase' = "fetch"
  /\ ip' = ip + length
  /\ UNCHANGED <<program, fn, lineVars>>

\* Jumps go to an offset from the start of the function.
Branch(op, taken) ==
  /\ phase = "execute"
  /\ Consume(0) = op
  /\ phase' = "fetch"
  /\ ip' = IF taken THEN Consume(1) ELSE ip + 5
  /\ UNCHANGED <<program, fn, locals, out, answers, lineVars>>

Br == Branch("br", TRUE) /\ UNCHANGED operand

Jif ==
  /\ Branch("jif", Top)
  /\ operand' = Popped(1)

OpPush ==
  /\ Execute("push", 2 + Size(Consume(1)))
  /\ operand' = Append(operand, Entry(Consume(1), Consume(2)))
  /\ UNCHANGED <<locals, out, answers>>

OpPop ==
  /\ Execute("pop", 2)
  /\ operand' = Popped(1)
  /\ UNCHANGED <<locals, out, answers>>

OpStloc ==
  /\ Execute("stloc", 2)
  /\ locals' = [locals EXCEPT ![Top] = Below(1)]
  /\ operand' = Popped(2)
  /\ UNCHANGED <<out, answers>>

OpLdloc ==
  /\ Execute("ldloc", 2)
  /\ operand' = Append(Popped(1), Entry(Consume(1), locals[Top]))
  /\ UNCHANGED <<locals, out, answers>>

\* The address of a local stands for its index.
Ldloca ==
  /\ Execute("ldloca", 1)
  /\ operand' = Append(Popped(1), Entry("hdl", Top))
  /\ UNCHANGED <<locals, out, answers>>

OpStore ==
  /\ Execute("store", 2)
  /\ locals' = [locals EXCEPT ![Top] = Below(1)]
  /\ operand' = Popped(2)
  /\ UNCHANGED <<out, answers>>

OpAdd ==
  /\ Execute("add", 2)
  /\ operand' = Append(Popped(2), Entry(Consume(1), Below(1) + Top))
  /\ UNCHANGED <<locals, out, answers>>

Not ==
  /\ Execute("not", 1)
  /\ operand' = Append(Popped(1), Entry("boolean", ~Top))
  /\ UNCHANGED <<locals, out, answers>>

\* Symbols are pointers, eight bytes wide.
Ldsftn ==
  /\ Execute("ldsftn", 5)
  /\ operand' = Append(operand, Entry("ref", Consume(1)))
  /\ UNCHANGED <<locals, out, answers>>

Callstatic ==
  /\ Execute("callstatic", 1)
  /\ Len(answers) < MaxAnswers
  /\ \E answer \in BOOLEAN :
       /\ operand' = Append(Popped(1), Entry("boolean", answer))
       /\ answers' = Append(answers, answer)
  /\ UNCHANGED <<locals, out>>

IsIteratorNotInRange(sep, last, first, iter) ==
  CASE sep = 0 -> FALSE
    [] sep > 0 -> first > last \/ iter > last
    [] sep < 0 -> first < last \/ iter < last

CallIntrinsic ==
  /\ Execute("callintrinsic", 5)
  /\ \/ /\ Consume(1) = "DebugInt"
        /\ operand' = Popped(1)
        /\ out' = Append(out, Top)
     \/ /\ Consume(1) = "IsIteratorNotInRange"
        /\ operand' = Append(Popped(4), Entry("boolean",
                        IsIteratorNotInRange(Top, Below(1), Below(2), Below(3))))
        /\ UNCHANGED out
  /\ UNCHANGED <<locals, answers>>

Ret ==
  /\ phase = "execute"
  /\ Consume(0) = "ret"
  /\ phase' = "returned"
  /\ UNCHANGED <<program, fn, ip, operand, locals, out, answers, lineVars>>

Steps ==
  \/ Fetch \/ DetermineLine
  \/ Br \/ Jif \/ OpPush \/ OpPop \/ OpStloc \/ OpLdloc \/ Ldloca \/ OpStore
  \/ OpAdd \/ Not \/ Ldsftn \/ CallIntrinsic \/ Ret

\* The processor stops when the function has returned, or waits for an answer
\* beyond the bound.
Returned == phase = "returned"
Asking == phase = "execute" /\ Consume(0) = "callstatic"

Stop ==
  /\ Returned \/ (Asking /\ Len(answers) = MaxAnswers)
  /\ UNCHANGED vars

Next == Steps \/ Callstatic \/ Stop

\* Only the processor's own steps are fair, the function it calls need not answer.
Spec == Init /\ [][Next]_vars /\ WF_vars(Steps)

-----------------------------------------------------------------------------
(***************************************************************************)
(* What the bytecode of a function promises, stated against the meaning of *)
(* its statements.                                                         *)
(***************************************************************************)

(***************************************************************************)
(* The meaning of statements: what a function shows, given its answers.    *)
(* A run s has shown out, the variables have the values env, used answers  *)
(* were consumed, and status says how it goes on: "normal", "waiting" for  *)
(* an answer, "return", "continue", or leaving a "while" or "for" loop.    *)
(***************************************************************************)
Value(e, env) == LET value[f \in {e, IF e.k = "plus" THEN e.lhs ELSE e, IF e.k = "plus" THEN e.rhs ELSE e}] ==
                       CASE f.k = "lit"   -> f.val
                         [] f.k = "local" -> env[f.x]
                         [] f.k = "plus"  -> value[f.lhs] + value[f.rhs]
                 IN value[e]

\* A condition is an answer, or the opposite of one.
Ask(cond, s) ==
  IF s.used = Len(answers) THEN [s EXCEPT !.status = "waiting"]
  ELSE [s EXCEPT !.used = @ + 1,
                 !.truth = IF cond.k = "not" THEN ~answers[s.used + 1] ELSE answers[s.used + 1]]

Bind(s, x, val) == [s EXCEPT !.env = [y \in DOMAIN @ \cup {x} |-> IF y = x THEN val ELSE @[y]]]

\* What is left of the status behind a loop of the given kind.
Leave(s, kind) == IF s.status = kind THEN [s EXCEPT !.status = "normal"] ELSE s

RECURSIVE Run(_, _), RunCases(_, _, _), RunWhile(_, _), RunFor(_, _, _)

RunStatement(stmt, s) ==
  CASE stmt.k \in {"dim", "set"} -> Bind(s, stmt.x, Value(stmt.e, s.env))
    [] stmt.k = "out"      -> [s EXCEPT !.out = Append(@, Value(stmt.e, s.env))]
    [] stmt.k = "if"       -> RunCases(stmt.cases, stmt.else, s)
    [] stmt.k = "loop"     -> Leave(RunWhile(stmt, s), "while")
    [] stmt.k = "for"      -> Leave(RunFor(stmt, Value(stmt.end, s.env),
                                           Bind(s, stmt.x, Value(stmt.begin, s.env))), "for")
    [] stmt.k = "exit"     -> [s EXCEPT !.status = IF stmt.flag = "sub" THEN "return" ELSE stmt.flag]
    [] stmt.k = "continue" -> [s EXCEPT !.status = "continue"]
    [] stmt.k = "return"   -> [s EXCEPT !.status = "return"]

Run(stmts, s) ==
  IF stmts = <<>> \/ s.status # "normal" THEN s ELSE Run(Tail(stmts), RunStatement(Head(stmts), s))

RunCases(cases, else, s) ==
  IF cases = <<>> THEN Run(else, s)
  ELSE LET t == Ask(Head(cases).cond, s)
       IN IF t.status # "normal" THEN t
          ELSE IF t.truth THEN Run(Head(cases).block, t)
          ELSE RunCases(Tail(cases), else, t)

RunWhile(stmt, s) ==
  LET t == Ask(stmt.cond, s)
  IN IF t.status # "normal" \/ ~t.truth THEN t
     ELSE LET u == Leave(Run(stmt.block, t), "continue")
          IN IF u.status # "normal" THEN u ELSE RunWhile(stmt, u)

RunFor(stmt, last, s) ==
  IF s.env[stmt.x] > last THEN s
  ELSE LET t == Leave(Run(stmt.block, s), "continue")
           next == t.env[stmt.x] + Value(stmt.step, t.env)
       IN IF t.status # "normal" THEN t ELSE RunFor(stmt, last, Bind(t, stmt.x, next))

Meaning ==
  LET s == Run(program, [out |-> <<>>, env |-> <<>>, used |-> 0, truth |-> FALSE, status |-> "normal"])
  IN [out |-> s.out, waiting |-> s.status = "waiting"]

-----------------------------------------------------------------------------
\* Types; locals of other types than 32-bit integers do not occur.
TypeOK ==
  /\ phase \in {"fetch", "search", "execute", "returned"}
  /\ ip \in 0 .. fn.size - 1
  /\ operand \in Seq([width : {1, 2, 4, 8, 12}, val : {operand[n].val : n \in DOMAIN operand}])
  /\ \A n \in DOMAIN operand : CASE operand[n].width = 1 -> operand[n].val \in BOOLEAN
                                [] operand[n].width = 8 -> operand[n].val = "ask"
                                [] OTHER -> operand[n].val \in Int
  /\ locals \in [1 .. fn.locals -> Int]
  /\ answers \in Seq(BOOLEAN) /\ Len(answers) <= MaxAnswers

\* The function shows what its statements mean: when it returns, all of it and
\* no call is open, and when it asks, all of it up to that call. The code of every
\* nesting of If, loops, Exit, Return and Continue in While loops behaves as written
\* (ILGen.cs, Bytecode.cs and the jumps of processor.cpp together).  It does not hold
\* of Continue in a For loop, where the code tests the same iterator value again, nor of
\* a Step other than 1, which the code takes for 1 (ForLoopsAsWritten of MCControlFlow).
FollowsSource ==
  /\ Returned => out = Meaning.out /\ ~Meaning.waiting
  /\ Asking => out = Meaning.out /\ Meaning.waiting

\* What an instruction takes from the operand stack, from its top down.
Pops(op, typ) ==
  CASE op = "jif" -> <<1>>
    [] op = "not" -> <<1>>
    [] op = "pop" -> <<Size(typ)>>
    [] op \in {"stloc", "store"} -> <<IF op = "store" THEN 12 ELSE 2, Size(typ)>>
    [] op \in {"ldloc", "ldloca"} -> <<2>>
    [] op = "add" -> <<Size(typ), Size(typ)>>
    [] op = "callstatic" -> <<8>>
    [] op = "callintrinsic" -> IF typ = "DebugInt" THEN <<4>> ELSE <<4, 4, 4, 4>>
    [] OTHER -> <<>>

\* How many bytes of operands an instruction consumes behind its opcode, field by field.
Operands(op, typ) ==
  CASE op \in {"jif", "br", "ldsftn", "callintrinsic"} -> <<4>>
    [] op = "push" -> <<1, Size(typ)>>
    [] op \in {"pop", "stloc", "ldloc", "store", "add"} -> <<1>>
    [] OTHER -> <<>>

HasField(at, width) == ip + at \in DOMAIN fn.code /\ fn.code[ip + at].width = width

\* The bytes are read as they were written and the operand stack holds what they
\* take: no instruction is read across a field (getLength against writeToStream,
\* ip += sizeof(T)), none pops bytes of another width than were pushed, which the
\* untyped MemoryStack would not notice.  Between statements nothing is left on the
\* stack: whatever path leads to a statement, through the end of a loop, an Exit or a
\* Continue, the values of the statements before it are gone, else a loop would fill
\* the 2048 bytes.  (And every variable keeps its type.)
InStep ==
  TypeOK /\ (phase = "execute" =>
    /\ (\E n \in DOMAIN fn.lines : fn.lines[n].offset = ip) => operand = <<>>
    /\ HasField(0, 1)
    /\ LET op == Consume(0)
           widths == Operands(op, IF HasField(1, 1) THEN Consume(1) ELSE "u8")
       IN /\ widths # <<>> => HasField(1, widths[1])
          /\ Len(widths) > 1 => HasField(2, widths[2])
          /\ LET pops == Pops(op, IF widths = <<>> THEN "u8" ELSE Consume(1))
             IN /\ Len(pops) <= Len(operand)
                /\ \A n \in DOMAIN pops : operand[Len(operand) - n + 1].width = pops[n])

\* The line looked up for an instruction is that of a range its offset lies in,
\* in a table that covers the bytecode without a gap, blocks laid out twice
\* included (LineNumberTable::determineLine, generateLineTable).
LineIsNear ==
  phase = "execute" =>
    /\ IsLineTable(numbers) /\ Covers(numbers, fn.size)
    /\ \E n \in DOMAIN numbers : /\ numbers[n].line = line
                                 /\ numbers[n].begin <= ip /\ ip <= numbers[n].end

\* The search of ControlFlow is the search of LineNumberTable, of which its
\* theorems speak: no step disturbs it half way.
SearchesLines == LineSpec

\* A function without Continue in a For loop goes on until it returns or waits for an
\* answer: no search, no For loop and no jump turns in circles by itself.  With it the
\* code need not: VisitContinueStmt jumps past the increment and the loop repeats the
\* iteration (ForLoopsAsWritten of MCControlFlow).
Progress == []<>(Returned \/ Asking)
=============================================================================
