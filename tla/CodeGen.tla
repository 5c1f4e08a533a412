------------------------------ MODULE CodeGen ------------------------------
(***************************************************************************)
(* The code generator for statements (ebc/codegen/ILGen.cs) and the layout *)
(* of its basic blocks (ebc/codegen/Bytecode.cs): from the syntax tree of  *)
(* a function to the bytecode and the line numbers of the package.         *)
(*                                                                         *)
(* A statement is a record [k, line, ...], a block a sequence of them.     *)
(* Bytecode is a function from offsets to the fields written there, a      *)
(* field being its width in bytes and its value.                           *)
(***************************************************************************)
EXTENDS Integers, Sequences, FiniteSetsExt, SequencesExt

\* The widths of the types that the statements modelled here work with.
Size(typ) == CASE typ \in {"boolean", "u8"} -> 1
               [] typ = "u16" -> 2
               [] typ = "i32" -> 4
               [] typ = "ref" -> 8
               [] typ = "hdl" -> 12

-----------------------------------------------------------------------------
(***************************************************************************)
(* Instructions and their two descriptions: the length they announce, by   *)
(* which blocks are laid out, and the fields they write.                   *)
(***************************************************************************)
Plain(op)      == [op |-> op, form |-> "nop"]
Typed(op, typ) == [op |-> op, form |-> "typ", typ |-> typ]
Named(op, tok) == [op |-> op, form |-> "tok", tok |-> tok]
Jump(op, to)   == [op |-> op, form |-> "jump", to |-> to]
Push(typ, val) == [op |-> "push", form |-> "push", typ |-> typ, val |-> val]
Line(number)   == [op |-> "line", form |-> "line", number |-> number]

\* Mutant: a pushed value is taken to be four bytes long.
GetLength_PushesInts(inst) ==
  CASE inst.form = "line" -> 0
    [] inst.form = "nop"  -> 1
    [] inst.form = "typ"  -> 1 + 1
    [] inst.form = "tok"  -> 1 + 4
    [] inst.form = "jump" -> 1 + 4
    [] inst.form = "push" -> 1 + 1 + 4

GetLength(inst) ==
  CASE inst.form = "line" -> 0
    [] inst.form = "nop"  -> 1
    [] inst.form = "typ"  -> 1 + 1
    [] inst.form = "tok"  -> 1 + 4
    [] inst.form = "jump" -> 1 + 4
    [] inst.form = "push" -> 1 + 1 + Size(inst.typ)

Field(width, val) == [width |-> width, val |-> val]

WriteToStream(inst, offsetOf) ==
  IF inst.form = "line" THEN <<>>
  ELSE <<Field(1, inst.op)>> \o
       CASE inst.form = "nop"  -> <<>>
         [] inst.form = "typ"  -> <<Field(1, inst.typ)>>
         [] inst.form = "tok"  -> <<Field(4, inst.tok)>>
         [] inst.form = "jump" -> <<Field(4, offsetOf[inst.to])>>
         [] inst.form = "push" -> <<Field(1, inst.typ), Field(Size(inst.typ), inst.val)>>

-----------------------------------------------------------------------------
(***************************************************************************)
(* Generation. The state g of the generator: the basic blocks, the current *)
(* one, the index of each variable, the number of locals and the stacks of *)
(* enclosing loops. A variable x is known by its line and name; its index  *)
(* is set when its declaration is visited.                                 *)
(***************************************************************************)
NewBlock(g)     == [g EXCEPT !.blocks = Append(@, <<>>)]
Newest(g)       == Len(g.blocks)
Emit(g, insts)  == [g EXCEPT !.blocks[g.current] = @ \o insts]
Continue(g, b)  == [g EXCEPT !.current = b]
AddLocal(g, x)  == [g EXCEPT !.locals = @ + 1,
                             !.index = [y \in DOMAIN @ \cup {x} |->
                                          IF y = x THEN g.locals + 1 ELSE @[y]]]

\* Expressions leave their value on the operand stack, but VisitExpression leaves
\* only the index of a variable. "ask" stands for a call of a function that
\* answers with a Boolean.
RECURSIVE VisitExpression(_, _), LoadValueOfExpression(_, _)
VisitExpression(e, index) ==
  CASE e.k = "lit"   -> <<Push("i32", e.val)>>
    [] e.k = "local" -> <<Push("u16", index[e.x])>>
    [] e.k = "ask"   -> <<Named("ldsftn", "ask"), Plain("callstatic")>>
    [] e.k = "not"   -> Append(LoadValueOfExpression(e.e, index), Plain("not"))
    [] e.k = "plus"  -> LoadValueOfExpression(e.lhs, index)
                        \o LoadValueOfExpression(e.rhs, index) \o <<Typed("add", "i32")>>

LoadValueOfExpression(e, index) ==
  VisitExpression(e, index) \o (IF e.k = "local" THEN <<Typed("ldloc", "i32")>> ELSE <<>>)

StoreLocal(index, x) == <<Push("u16", index[x]), Typed("stloc", "i32")>>
LoadLocal(index, x)  == <<Push("u16", index[x]), Typed("ldloc", "i32")>>

VisitDimStmt(s, g) ==
  LET h == AddLocal(g, s.x)
  IN Emit(h, LoadValueOfExpression(s.e, h.index) \o StoreLocal(h.index, s.x))

\* A call of an intrinsic that returns nothing, or an assignment, whose value is
\* the variable read back.
VisitExprStmt(s, g) ==
  Emit(g,
    IF s.k = "out" THEN LoadValueOfExpression(s.e, g.index) \o <<Named("callintrinsic", "DebugInt")>>
    ELSE LoadValueOfExpression(s.e, g.index) \o StoreLocal(g.index, s.x)
         \o LoadLocal(g.index, s.x) \o <<Typed("pop", "i32")>>)

VisitReturnStmt(s, g) == Emit(g, LoadValueOfExpression(s.e, g.index) \o <<Plain("ret")>>)

VisitExitStmt(s, g) ==
  Emit(g, CASE s.flag = "while" -> <<Jump("br", Last(g.whileBlkStack).afterBlk)>>
            [] s.flag = "for"   -> <<Jump("br", Last(g.forBlkStack).afterBlk)>>
            [] s.flag = "sub"   -> <<Plain("ret")>>)

VisitContinueStmt(s, g) == Emit(g, <<Jump("br", Last(g.loopBlkStack).loopBlk)>>)

\* The body of a loop, with the loop on the stacks that Exit and Continue use.
LoopPair(loopBlk, afterBlk) == [loopBlk |-> loopBlk, afterBlk |-> afterBlk]

RECURSIVE VisitStatements(_, _)

VisitLoopStmt(s, g) ==
  LET loopBlk == Newest(g) + 1
      afterBlk == Newest(g) + 2
      pair == LoopPair(loopBlk, afterBlk)
      h == Continue(NewBlock(NewBlock(Emit(g, <<Jump("br", loopBlk)>>))), loopBlk)
      test == Emit(h, VisitExpression(s.cond, h.index)
                      \o <<Plain("not"), Jump("jif", afterBlk)>>)
      body == VisitStatements(s.block,
                [test EXCEPT !.whileBlkStack = Append(@, pair), !.loopBlkStack = Append(@, pair)])
  IN Continue([Emit(body, <<Jump("br", loopBlk)>>) EXCEPT
                 !.whileBlkStack = g.whileBlkStack, !.loopBlkStack = g.loopBlkStack], afterBlk)

\* The cases with a condition, each a block of its own, in their order.
RECURSIVE VisitCases(_, _, _)
VisitCases(cases, afterBlk, g) ==
  IF cases = <<>> THEN g
  ELSE LET caseBlk == Newest(g) + 1
           test == NewBlock(Emit(g, LoadValueOfExpression(Head(cases).cond, g.index)
                                    \o <<Jump("jif", caseBlk)>>))
           body == VisitStatements(Head(cases).block, Continue(test, caseBlk))
       IN VisitCases(Tail(cases), afterBlk,
                     Continue(Emit(body, <<Jump("br", afterBlk)>>), g.current))

\* Mutant: the Else block runs on into the block laid out behind it.
VisitIfStmt_FallsThrough(s, g) ==
  LET afterBlk == Newest(g) + 1
      h == VisitCases(s.cases, afterBlk, NewBlock(g))
  IN Continue(VisitStatements(s.else, h), afterBlk)

\* The Else block, if any, follows the last condition.
VisitIfStmt(s, g) ==
  LET afterBlk == Newest(g) + 1
      h == VisitCases(s.cases, afterBlk, NewBlock(g))
  IN Continue(Emit(VisitStatements(s.else, h), <<Jump("br", afterBlk)>>), afterBlk)

\* The four variables of a loop; an iterator without Dim is one declared before.
ForLocals(s, g) ==
  LET h == AddLocal(AddLocal(AddLocal(g, <<s.line, "beg">>), <<s.line, "end">>), <<s.line, "sep">>)
  IN IF s.iteratorHasDim THEN AddLocal(h, s.x) ELSE h

StoreIterator(index, x) == <<Push("u16", index[x]), Plain("ldloca"), Typed("store", "i32")>>

ForHead(s, index) ==
  LoadValueOfExpression(s.begin, index) \o StoreLocal(index, <<s.line, "beg">>)
  \o LoadValueOfExpression(s.end, index) \o StoreLocal(index, <<s.line, "end">>)
  \o LoadValueOfExpression(s.step, index) \o StoreLocal(index, <<s.line, "sep">>)
  \o LoadLocal(index, <<s.line, "beg">>) \o StoreIterator(index, s.x)

ForTest(s, index, afterBlk) ==
  LoadLocal(index, s.x) \o LoadLocal(index, <<s.line, "beg">>)
  \o LoadLocal(index, <<s.line, "end">>) \o LoadLocal(index, <<s.line, "sep">>)
  \o <<Named("callintrinsic", "IsIteratorNotInRange"), Jump("jif", afterBlk)>>

\* Mutant: the iterator is loaded but never advanced.
ForAdvance_Stays(s, index) == LoadLocal(index, s.x) \o StoreIterator(index, s.x)

\* The iterator grows by one, whatever the step.
ForAdvance(s, index) ==
  LoadLocal(index, s.x) \o <<Push("i32", 1), Typed("add", "i32")>> \o StoreIterator(index, s.x)

VisitForStmt(s, g) ==
  LET f == ForLocals(s, g)
      loopBlk == Newest(g) + 1
      afterBlk == Newest(g) + 2
      pair == LoopPair(loopBlk, afterBlk)
      h == Continue(NewBlock(NewBlock(Emit(f, ForHead(s, f.index) \o <<Jump("br", loopBlk)>>))), loopBlk)
      test == Emit(h, ForTest(s, h.index, afterBlk))
      body == VisitStatements(s.block,
                [test EXCEPT !.forBlkStack = Append(@, pair), !.loopBlkStack = Append(@, pair)])
  IN Continue([Emit(body, ForAdvance(s, body.index) \o <<Jump("br", loopBlk)>>) EXCEPT
                 !.forBlkStack = g.forBlkStack, !.loopBlkStack = g.loopBlkStack], afterBlk)

VisitStatement(s, g) ==
  CASE s.k = "dim"           -> VisitDimStmt(s, g)
    [] s.k \in {"out", "set"} -> VisitExprStmt(s, g)
    [] s.k = "loop"          -> VisitLoopStmt(s, g)
    [] s.k = "if"            -> VisitIfStmt(s, g)
    [] s.k = "for"           -> VisitForStmt(s, g)
    [] s.k = "exit"          -> VisitExitStmt(s, g)
    [] s.k = "continue"      -> VisitContinueStmt(s, g)
    [] s.k = "return"        -> VisitReturnStmt(s, g)

VisitStatements(stmts, g) ==
  FoldLeft(LAMBDA h, s : VisitStatement(s, Emit(h, <<Line(s.line)>>)), g, stmts)

\* FromASTBlock: the blocks of a function without parameters, from its entry.
FromASTBlock(stmts) ==
  LET begin == [blocks |-> <<<<>>>>, current |-> 1, locals |-> 0, index |-> <<>>,
                whileBlkStack |-> <<>>, forBlkStack |-> <<>>, loopBlkStack |-> <<>>]
  IN Emit(VisitStatements(stmts, begin), <<Plain("ret")>>)

-----------------------------------------------------------------------------
(***************************************************************************)
(* Layout. Blocks are taken from a queue; one that is queued twice before  *)
(* it is taken is laid out twice, and jumps go to the later copy.          *)
(***************************************************************************)
OutBlocks(block) ==
  LET jumps == SelectSeq(block, LAMBDA inst : inst.form = "jump")
  IN [n \in DOMAIN jumps |-> jumps[n].to]

RECURSIVE BlockOrder(_, _, _)
BlockOrder(blocks, queue, visited) ==
  IF queue = <<>> THEN <<>>
  ELSE LET seen == visited \cup {Head(queue)}
           new == SelectSeq(OutBlocks(blocks[Head(queue)]), LAMBDA b : b \notin seen)
       IN <<Head(queue)>> \o BlockOrder(blocks, Tail(queue) \o new, seen)

\* Where each of a sequence of items begins, and where the last one ends.
Offsets(items, length(_)) ==
  LET upTo[n \in 0 .. Len(items)] ==
        IF n = 0 THEN <<0>>
        ELSE LET before == upTo[n - 1] IN Append(before, Last(before) + length(items[n]))
  IN upTo[Len(items)]

\* The Blocks constructor and writeBytecodeToStream: offsets, line numbers and
\* bytecode of the blocks from the entry on.
Assemble(blocks) ==
  LET order == BlockOrder(blocks, <<1>>, {})
      within == [b \in ToSet(order) |-> Offsets(blocks[b], GetLength)]
      begin == Offsets(order, LAMBDA b : Last(within[b]))
      offsetOf == [b \in ToSet(order) |-> begin[Max({n \in DOMAIN order : order[n] = b})]]
      InstsOf(n) == blocks[order[n]]
      OffsetIn(n, i) == begin[n] + within[order[n]][i]
      Marks(n) == SelectSeq([i \in DOMAIN InstsOf(n) |-> i], LAMBDA i : InstsOf(n)[i].form = "line")
      Cells(n, i) ==
        LET fields == WriteToStream(InstsOf(n)[i], offsetOf)
            place == Offsets(fields, LAMBDA field : field.width)
        IN {<<OffsetIn(n, i) + place[f], fields[f]>> : f \in DOMAIN fields}
      cells == UNION {Cells(n, i) : <<n, i>> \in
                        UNION {{m} \X DOMAIN InstsOf(m) : m \in DOMAIN order}}
  IN [code  |-> [a \in {c[1] : c \in cells} |-> (CHOOSE c \in cells : c[1] = a)[2]],
      size  |-> Last(begin),
      lines |-> FlattenSeq([n \in DOMAIN order |->
                  [m \in DOMAIN Marks(n) |-> [line   |-> InstsOf(n)[Marks(n)[m]].number,
                                              offset |-> OffsetIn(n, Marks(n)[m])]]])]

\* The bytecode of a function, its line numbers and the number of its locals.
Generate(stmts) ==
  LET g == FromASTBlock(stmts)
      f == Assemble(g.blocks)
  IN [code |-> f.code, size |-> f.size, lines |-> f.lines, locals |-> g.locals]
=============================================================================
