------------------------------- MODULE Calls -------------------------------
(***************************************************************************)
(* Calls between hosted functions: the layout of a frame (Function::       *)
(* complete in evm/runtime.cpp), the arguments pushed by the code generator*)
(* (ebc/codegen/ILGen.cs) and the invocations, argument instructions and   *)
(* return of the processor (evm/processor.cpp, evm/processor.h).           *)
(*                                                                         *)
(* Both stacks are made of bytes.  A byte is <<v, i>>, the i-th byte of the*)
(* value v, or Zero; a value is a pair of a kind and a number, where "at"  *)
(* is the address of a byte of the frame stack.                            *)
(***************************************************************************)
EXTENDS Integers, Sequences, SequencesExt

CONSTANTS
  Hosted,        \* the functions by their names, "main" excepted: see Function
  MainLocals,    \* how many 4-byte locals main has
  MainBodies,    \* the bodies main may have: sequences of statements
  ZeroLow        \* the addresses whose lowest byte is 0

\* sizeof on the machine.
RefSize == 8
PointerSize == 12

Symbol == <<"symbol", 0>>      \* the function called, pushed by ldftn and the like
Nothing == <<"zero", 0>>
Own == <<"self", 0>>           \* stands for the object of the caller
Lit(n) == <<"lit", n>>
Zero == <<Nothing, 0>>
Bytes(v, n) == [i \in 1 .. n |-> IF v = Nothing THEN Zero ELSE <<v, i>>]
ValueOf(bytes) == bytes[1][1]

\* Whether the byte, read as a number, differs from 0: pointers are stored with
\* their lowest byte first.
NonZero(byte) ==
  /\ byte # Zero /\ byte[1] # Lit(0)
  /\ ~(byte[1][1] = "at" /\ byte[2] = 1 /\ byte[1][2] \in ZeroLow)

-----------------------------------------------------------------------------
(***************************************************************************)
(* Functions. A function has a kind ("static", "method", "virtual", "ctor"),*)
(* normal and optional parameters, each with its size and whether it is    *)
(* passed by reference, array: whether there is a ParamArray, the sizes of *)
(* its locals, the body, the result, and impl: what a virtual call reaches.*)
(***************************************************************************)
Main == [kind |-> "static", normal |-> <<>>, optional |-> <<>>, array |-> FALSE,
         locals |-> [n \in 1 .. MainLocals |-> 4], impl |-> "main", result |-> Nothing]
Function(f) == IF f = "main" THEN Main ELSE Hosted[f]

Param(p, kind) == [ref |-> p.ref, size |-> p.size, kind |-> kind]

\* FillParameterDecl: the parameters in the order of the package.
Params(f) ==
  [n \in DOMAIN Function(f).normal |-> Param(Function(f).normal[n], "normal")]
  \o [n \in DOMAIN Function(f).optional |-> Param(Function(f).optional[n], "optional")]
  \o (IF Function(f).array THEN <<Param([ref |-> FALSE, size |-> RefSize], "array")>> ELSE <<>>)

HasSelf(f) == Function(f).kind # "static"
Width(p) == IF p.ref THEN PointerSize ELSE p.size

\* The flag of an optional parameter comes before its value, but is the first byte
\* of the pointer when it is passed by reference.
FlagSize(p) == IF p.kind = "optional" /\ ~p.ref THEN 1 ELSE 0

\* Where the n-th parameter begins; the parameters end where one more would begin.
Begin(f, n) ==
  (IF HasSelf(f) THEN RefSize ELSE 0)
  + FoldFunction(LAMBDA p, sum : sum + FlagSize(p) + Width(p), 0, SubSeq(Params(f), 1, n - 1))

\* Function::complete.
Layout(f) ==
  [n \in DOMAIN Params(f) |->
     [flag   |-> Begin(f, n),
      begin  |-> Begin(f, n) + FlagSize(Params(f)[n]),
      length |-> Width(Params(f)[n]),
      ref    |-> Params(f)[n].ref,
      kind   |-> Params(f)[n].kind]]
ParamMemorySize(f) == Begin(f, Len(Params(f)) + 1)

\* HostedFunction::complete: the locals follow the parameters.
LocalOffset(f, index) ==
  ParamMemorySize(f) + FoldFunction(+, 0, SubSeq(Function(f).locals, 1, index - 1))
LocalMemorySize(f) == FoldFunction(+, 0, Function(f).locals)

-----------------------------------------------------------------------------
(***************************************************************************)
(* Code generation. An expression is a literal, a local, a parameter n of  *)
(* the function f it stands in, or a call: the function called, the object *)
(* it is called on, the arguments, the optional ones as pairs of parameter *)
(* and argument in the order of the text, and what becomes the ParamArray. *)
(***************************************************************************)
Push(size, v)   == [op |-> "push", size |-> size, val |-> v]
Op(op, size)    == [op |-> op, size |-> size]
Info(f, n)      == [op |-> "ldoptinfo", f |-> f, n |-> n]
Index(n)        == Push(2, <<"index", n>>)
Count(n)        == Push(1, <<"count", n>>)

LoadAddressOfExpression(e, f) ==
  CASE e.k = "local" -> <<Index(e.n), Op("ldloca", PointerSize)>>
    [] e.k = "param" -> IF Params(f)[e.n].ref THEN <<Index(e.n), Op("ldarg", PointerSize)>>
                        ELSE <<Index(e.n), Op("ldarga", PointerSize)>>

\* The expressions among the arguments of a call.
Arguments(call) ==
  {call.args[n] : n \in DOMAIN call.args} \cup {call.opts[n].e : n \in DOMAIN call.opts}
  \cup (CASE call.rest.k = "none"     -> {}
          [] call.rest.k = "forward"  -> {call.rest.e}
          [] call.rest.k = "elements" -> {call.rest.es[n] : n \in DOMAIN call.rest.es})

PassArgument(p, e, f, value) == IF p.ref THEN LoadAddressOfExpression(e, f) ELSE value[e]

\* The last argument is pushed first; the optional ones, each with its parameter,
\* and their count; then the ParamArray, or nothing when no argument is left for it.
\* "value" is the code that loads the value of each argument.
VisitArgumentPass(call, f, value) ==
  LET callee == Function(call.f)
      first == Len(callee.normal)
  IN FlattenSeq(Reverse([n \in DOMAIN call.args |->
                           PassArgument(callee.normal[n], call.args[n], f, value)]))
     \o FlattenSeq([n \in DOMAIN call.opts |->
          PassArgument(callee.optional[call.opts[n].n], call.opts[n].e, f, value)
          \o <<Info(call.f, first + call.opts[n].n)>>])
     \o (IF callee.optional # <<>> THEN <<Count(Len(call.opts))>> ELSE <<>>)
     \o (CASE call.rest.k = "none" -> <<>>
           [] call.rest.k = "forward" -> value[call.rest.e]
           [] call.rest.k = "elements" ->
                <<Push(4, Lit(Len(call.rest.es))), [op |-> "newarray", val |-> <<"array", call.v>>]>>
                \o FlattenSeq([n \in DOMAIN call.rest.es |->
                     <<Op("dup", RefSize), Push(4, Lit(n))>>
                     \o value[call.rest.es[n]] \o <<Op("stelemr", RefSize)>>]))

\* The object is loaded before the arguments; a constructor call creates it and
\* keeps it as its value.
VisitFtnCall(call, f, value) ==
  (CASE Function(call.f).kind = "static" -> <<>>
     [] Function(call.f).kind = "ctor"   -> <<Push(RefSize, call.self), Op("dup", RefSize)>>
     [] OTHER                            -> <<Push(RefSize, call.self)>>)
  \o VisitArgumentPass(call, f, value)
  \o <<Push(RefSize, Symbol), [op |-> "call", call |-> call]>>

VisitExpression(e, f, value) ==
  CASE e.k = "lit"   -> <<Push(e.size, e.val)>>
    [] e.k = "local" -> <<Index(e.n), Op("ldloc", 4)>>
    [] e.k = "param" -> IF Params(f)[e.n].ref
                        THEN <<Index(e.n), Op("ldarg", PointerSize), Op("load", Params(f)[e.n].size)>>
                        ELSE <<Index(e.n), Op("ldarg", Params(f)[e.n].size)>>
    [] e.k = "call"  -> VisitFtnCall(e, f, value)

RECURSIVE LoadValueOfExpression(_, _)
LoadValueOfExpression(e, f) ==
  VisitExpression(e, f, [x \in IF e.k = "call" THEN Arguments(e) ELSE {} |->
                           LoadValueOfExpression(x, f)])

\* A constructor begins with that of its base class, on its own object.
VisitBaseCtorCall(call, f) ==
  <<Index(0), Op("ldarg", RefSize)>>
  \o VisitArgumentPass(call, f, [e \in Arguments(call) |-> LoadValueOfExpression(e, f)])
  \o <<Push(RefSize, Symbol), [op |-> "call", call |-> call]>>

ResultSize(f) == IF Function(f).kind = "ctor" THEN RefSize ELSE 4

\* Statements: a call; an assignment to a parameter, which is read back; showing
\* its value; and testing whether an optional one was passed.
VisitStatement(s, f) ==
  LET p == [k |-> "param", n |-> s.n]
      size == Params(f)[s.n].size
  IN CASE s.k = "call" -> Append(LoadValueOfExpression(s.call, f), Op("pop", ResultSize(s.call.f)))
       [] s.k = "base" -> VisitBaseCtorCall(s.call, f)
       [] s.k = "set"  -> <<Push(size, s.val), Index(s.n)>>
                          \o (IF Params(f)[s.n].ref
                              THEN <<Op("ldarg", PointerSize), [op |-> "store", size |-> size, s |-> s]>>
                              ELSE <<[op |-> "starg", size |-> size, s |-> s]>>)
                          \o LoadValueOfExpression(p, f) \o <<Op("pop", size)>>
       [] s.k = "show" -> Append(LoadValueOfExpression(p, f), [op |-> "show", size |-> size, n |-> s.n])
       [] s.k = "test" -> <<Index(s.n), Count(1), Op("testopt", 1),
                           [op |-> "show", size |-> 1, test |-> s.n]>>

\* A function returns its result; main and constructors return nothing.
Returns(f) == f # "main" /\ Function(f).kind # "ctor"
FromAST(body, f) ==
  FlattenSeq([n \in DOMAIN body |-> VisitStatement(body[n], f)])
  \o (IF Returns(f) THEN <<Push(4, Function(f).result)>> ELSE <<>>) \o <<Op("ret", 0)>>

\* A function that is complete: its code, its parameters of each kind with their
\* places, those of its locals, and the sizes of the two parts of its frame.
Completed(f, body) ==
  LET OfKind(kind) == SelectSeq(Layout(f), LAMBDA p : p.kind = kind)
  IN [code      |-> FromAST(body, f),
      params    |-> Params(f),
      layout    |-> Layout(f),
      normals   |-> OfKind("normal"),
      optionals |-> OfKind("optional"),
      arrays    |-> OfKind("array"),
      offsets   |-> [n \in DOMAIN Function(f).locals |-> LocalOffset(f, n)],
      parameterSize |-> ParamMemorySize(f),
      localSize     |-> LocalMemorySize(f)]

-----------------------------------------------------------------------------
(***************************************************************************)
(* The processor.                                                          *)
(***************************************************************************)
VARIABLES
  function,  \* the functions, complete
  operand,   \* the operand stack, top last
  memory,    \* the frame stack, top last; address 0 is its first byte
  frames,    \* the call stack: function, address of the memory, next instruction
  status,    \* "running", "returned", or "fatal" after an exception nobody handles
  source     \* what the source says of each frame: see Bind

vars == <<function, operand, memory, frames, status, source>>

Depth == Len(frames)
Here == frames[Depth]
Inst == function[Here.f].code[Here.ip]
Running(op) == status = "running" /\ Inst.op = op

Top(n) == SubSeq(operand, Len(operand) - n + 1, Len(operand))
Pop(n) == SubSeq(operand, 1, Len(operand) - n)
TopValue(n) == ValueOf(Top(n))
TopNumber(n) == TopValue(n)[2]

Write(mem, at, bytes) ==
  SubSeq(mem, 1, at) \o bytes \o SubSeq(mem, at + Len(bytes) + 1, Len(mem))
Read(at, n) == SubSeq(memory, at + 1, at + n)
Advanced == [frames EXCEPT ![Depth].ip = @ + 1]

-----------------------------------------------------------------------------
(***************************************************************************)
(* What the source says. Each frame has variables <<"param", n>> and       *)
(* <<"local", n>>: vals are their values, Nothing for an optional parameter*)
(* that was not passed, and alias says which variable of which frame a     *)
(* parameter passed by reference stands for; self is the object, and kept *)
(* what was on the operand stack below the call.                           *)
(***************************************************************************)
Variable(k, n) ==
  IF function[frames[k].f].params[n].ref THEN source[k].alias[n] ELSE <<k, <<"param", n>>>>
ValueIn(variable) == source[variable[1]].vals[variable[2]]
Passed(k, n) == IF function[frames[k].f].params[n].ref THEN n \in DOMAIN source[k].alias
                ELSE source[k].vals[<<"param", n>>] # Nothing

Eval(e) == CASE e.k = "lit"   -> e.val
             [] e.k = "local" -> ValueIn(<<Depth, <<"local", e.n>>>>)
             [] e.k = "param" -> ValueIn(Variable(Depth, e.n))
             [] e.k = "call"  -> IF Function(e.f).kind = "ctor" THEN e.self
                              ELSE Function(Function(e.f).impl).result

Denoted(e) == IF e.k = "local" THEN <<Depth, <<"local", e.n>>>> ELSE Variable(Depth, e.n)

\* A call binds the parameters of the function to its arguments.
Bind(call, kept) ==
  LET f == Function(call.f).impl
      normal == Len(Function(f).normal)
      params == function[f].params
      arg == [n \in DOMAIN call.args \cup {normal + call.opts[m].n : m \in DOMAIN call.opts} |->
                IF n <= normal THEN call.args[n]
                ELSE call.opts[CHOOSE m \in DOMAIN call.opts : normal + call.opts[m].n = n].e]
      passed(n) == CASE params[n].kind = "array" ->
                          IF call.rest.k = "forward" THEN Eval(call.rest.e) ELSE <<"array", call.v>>
                     [] n \in DOMAIN arg -> Eval(arg[n])
                     [] OTHER -> Nothing
  IN [vals  |-> [x \in {<<"param", n>> : n \in {m \in DOMAIN params : ~params[m].ref}}
                       \cup {<<"local", n>> : n \in DOMAIN Function(f).locals} |->
                   IF x[1] = "param" THEN passed(x[2]) ELSE Nothing],
      alias |-> [n \in {m \in DOMAIN arg : params[m].ref} |-> Denoted(arg[n])],
      self  |-> IF call.self = Own THEN source[Depth].self ELSE call.self,
      kept  |-> kept]

Assigned(variable, v) == [source EXCEPT ![variable[1]].vals[variable[2]] = v]

-----------------------------------------------------------------------------
Init ==
  /\ \E body \in MainBodies :
       function = [f \in DOMAIN Hosted \cup {"main"} |->
                     Completed(f, IF f = "main" THEN body ELSE Hosted[f].body)]
  /\ operand = <<>>
  /\ memory = [n \in 1 .. LocalMemorySize("main") |-> Zero]
  /\ frames = <<[f |-> "main", base |-> 0, ip |-> 1]>>
  /\ status = "running"
  /\ source = <<[vals |-> [x \in {<<"local", n>> : n \in 1 .. MainLocals} |-> Nothing],
                 alias |-> <<>>, self |-> Nothing, kept |-> <<>>]>>

\* An instruction that works on the operand stack only.
Works(op, result) ==
  /\ Running(op)
  /\ operand' = result
  /\ frames' = Advanced
  /\ UNCHANGED <<function, memory, status, source>>

OpPush == Works("push", operand \o Bytes(Inst.val, Inst.size))
OpPop == Works("pop", Pop(Inst.size))
OpDup == Works("dup", operand \o Top(Inst.size))
Ldoptinfo == Works("ldoptinfo", operand \o Bytes(<<"option", Inst.n>>, RefSize))
Newarray == Works("newarray", Pop(4) \o Bytes(Inst.val, RefSize))
OpStelemr == Works("stelemr", Pop(RefSize + 4 + RefSize))
Show == Works("show", Pop(Inst.size))

LocalAt == Here.base + function[Here.f].offsets[TopNumber(2)]
OpLdloc == Works("ldloc", Pop(2) \o Read(LocalAt, Inst.size))
Ldloca == Works("ldloca", Pop(2) \o Bytes(<<"at", LocalAt>>, PointerSize))
OpLoad == Works("load", Pop(PointerSize) \o Read(TopNumber(PointerSize), Inst.size))

\* The implicit self comes first, with index 0.
Self == [flag |-> 0, begin |-> 0, length |-> RefSize, ref |-> FALSE, kind |-> "normal"]

\* Mutant: an optional parameter is looked up one place too far.
GetParameterByIndex_Shifted(f, index) ==
  IF index = 0 THEN Self
  ELSE IF index < Len(function[f].normals) + 1 THEN function[f].normals[index]
  ELSE IF index < Len(function[f].normals) + Len(function[f].optionals) + 1
       THEN function[f].optionals[((index - Len(function[f].normals)) % Len(function[f].optionals)) + 1]
  ELSE function[f].arrays[1]

GetParameterByIndex(f, index) ==
  IF index = 0 THEN Self
  ELSE IF index < Len(function[f].normals) + 1 THEN function[f].normals[index]
  ELSE IF index < Len(function[f].normals) + Len(function[f].optionals) + 1
       THEN function[f].optionals[index - Len(function[f].normals)]
  ELSE function[f].arrays[1]

Parameter == GetParameterByIndex(Here.f, TopNumber(2))
Given(p) == NonZero(memory[Here.base + p.flag + 1])
OptionMissing == Parameter.kind = "optional" /\ ~Given(Parameter)

\* OpLdarg, OpStarg and ldarga raise an exception if the parameter was not passed;
\* nobody handles it here.
Missing ==
  /\ Running("ldarg") \/ Running("starg") \/ Running("ldarga")
  /\ OptionMissing
  /\ status' = "fatal"
  /\ UNCHANGED <<function, operand, memory, frames, source>>

OpLdarg ==
  /\ Works("ldarg", Pop(2) \o Read(Here.base + Parameter.begin, Inst.size))
  /\ ~OptionMissing
Ldarga ==
  /\ Works("ldarga", Pop(2) \o Bytes(<<"at", Here.base + Parameter.begin>>, PointerSize))
  /\ ~OptionMissing

\* One index under their number.
Testopt ==
  LET index == ValueOf(SubSeq(operand, Len(operand) - 2, Len(operand) - 1))[2]
      truth == IF Given(GetParameterByIndex(Here.f, index)) THEN 1 ELSE 0
  IN Works("testopt", Pop(3) \o Bytes(<<"truth", truth>>, 1))

Stores(op, width, at) ==
  /\ Running(op)
  /\ memory' = Write(memory, at, SubSeq(operand, Len(operand) - width - Inst.size + 1,
                                        Len(operand) - width))
  /\ operand' = Pop(width + Inst.size)
  /\ frames' = Advanced
  /\ source' = Assigned(Variable(Depth, Inst.s.n), Inst.s.val)
  /\ UNCHANGED <<function, status>>

OpStarg ==
  /\ Stores("starg", 2, Here.base + Parameter.begin)
  /\ ~OptionMissing
OpStore == Stores("store", PointerSize, TopNumber(PointerSize))

-----------------------------------------------------------------------------
(***************************************************************************)
(* popArgsFromOperand moves the arguments of f from the operand stack to   *)
(* the memory at base: the ParamArray, the options, the normal parameters. *)
(***************************************************************************)
Take(s, at, n) ==
  [operand |-> SubSeq(s.operand, 1, Len(s.operand) - n),
   memory  |-> Write(s.memory, at, SubSeq(s.operand, Len(s.operand) - n + 1, Len(s.operand)))]
Drop(s, n) == [s EXCEPT !.operand = SubSeq(@, 1, Len(@) - n)]
LastValue(s, n) == ValueOf(SubSeq(s.operand, Len(s.operand) - n + 1, Len(s.operand)))

PopArray(f, base, s) == IF function[f].arrays = <<>> THEN s ELSE Take(s, base + function[f].arrays[1].begin, RefSize)

SetFlag(option, base, s) ==
  [s EXCEPT !.memory = Write(@, base + option.flag, <<<<<<"flag", 1>>, 1>>>>)]

\* Mutant: the flag is set after the value was copied.
PassOption_FlagLast(option, base, s) ==
  SetFlag(option, base, Take(s, base + option.begin, option.length))

\* The flag is set first: a pointer overwrites it.
PassOption(option, base, s) == Take(SetFlag(option, base, s), base + option.begin, option.length)

PopOption(f, base, s) ==
  PassOption(function[f].layout[LastValue(s, RefSize)[2]], base, Drop(s, RefSize))

RECURSIVE PopOptions(_, _, _, _)
PopOptions(f, base, s, count) ==
  IF count = 0 THEN s ELSE PopOptions(f, base, PopOption(f, base, s), count - 1)

RECURSIVE PopNormals(_, _, _, _)
PopNormals(f, base, s, n) ==
  IF n > Len(function[f].normals) THEN s
  ELSE PopNormals(f, base, Take(s, base + function[f].normals[n].begin, function[f].normals[n].length), n + 1)

PopCounted(f, base, s) ==
  IF function[f].optionals = <<>> THEN s ELSE PopOptions(f, base, Drop(s, 1), LastValue(s, 1)[2])

PopArgsFromOperand(f, base, s) ==
  PopNormals(f, base, PopCounted(f, base, PopArray(f, base, s)), 1)

PopSelf(f, base, s) == IF HasSelf(f) THEN Take(s, base, RefSize) ELSE s
NullObject(f, s) ==
  /\ Function(f).kind \in {"method", "virtual"}
  /\ s.operand[Len(s.operand) - RefSize + 1] = Zero

\* Without an object a method is not entered, and its memory stays borrowed (for a
\* virtual call, that of the parameters: its locals are those of the override).
Refuse(f, base, s) ==
  /\ status' = "fatal"
  /\ operand' = Drop(s, RefSize).operand
  /\ memory' = IF Function(f).kind = "method" THEN s.memory
               ELSE SubSeq(s.memory, 1, base + function[f].parameterSize)
  /\ UNCHANGED <<frames, source>>

Enter(call, base, s) ==
  /\ operand' = s.operand
  /\ memory' = s.memory
  /\ frames' = Append(frames, [f |-> Function(call.f).impl, base |-> base, ip |-> 1])
  /\ source' = Append(source, Bind(call, s.operand))
  /\ UNCHANGED status

\* The frame is borrowed and cleared, the arguments are moved, then the object is
\* popped.
InvokeMethod(call, base, s) ==
  IF NullObject(call.f, s) THEN Refuse(call.f, base, s)
  ELSE Enter(call, base, PopSelf(call.f, base, s))

Invoke ==
  LET f == Inst.call.f
      size == function[f].parameterSize + function[Function(f).impl].localSize
  IN /\ Running("call")
     /\ InvokeMethod(Inst.call, Len(memory),
          PopArgsFromOperand(f, Len(memory),
            [operand |-> Pop(RefSize), memory |-> memory \o [n \in 1 .. size |-> Zero]]))
     /\ UNCHANGED function

\* Mutant: only the memory of the parameters is given back.
Ret_KeepsLocals ==
  /\ Running("ret")
  /\ memory' = SubSeq(memory, 1, Len(memory) - function[Here.f].parameterSize)
  /\ IF Depth = 1 THEN /\ status' = "returned"
                       /\ UNCHANGED <<frames, source>>
     ELSE /\ frames' = [Front(frames) EXCEPT ![Depth - 1].ip = @ + 1]
          /\ source' = Front(source)
          /\ UNCHANGED status
  /\ UNCHANGED <<function, operand>>

\* The frame is taken off, ~CallEnv gives its memory back.
Ret ==
  /\ Running("ret")
  /\ memory' = SubSeq(memory, 1, Len(memory) - function[Here.f].parameterSize - function[Here.f].localSize)
  /\ IF Depth = 1 THEN /\ status' = "returned"
                       /\ UNCHANGED <<frames, source>>
     ELSE /\ frames' = [Front(frames) EXCEPT ![Depth - 1].ip = @ + 1]
          /\ source' = Front(source)
          /\ UNCHANGED status
  /\ UNCHANGED <<function, operand>>

Stopped == status # "running" /\ UNCHANGED vars

Next ==
  \/ OpPush \/ OpPop \/ OpDup \/ Ldoptinfo \/ Newarray \/ OpStelemr \/ Show
  \/ OpLdloc \/ Ldloca \/ OpLoad \/ Missing \/ OpLdarg \/ Ldarga \/ Testopt
  \/ OpStarg \/ OpStore \/ Invoke \/ Ret \/ Stopped

Spec == Init /\ [][Next]_vars

-----------------------------------------------------------------------------
(***************************************************************************)
(* What a call promises: the function finds in its frame what the source   *)
(* passes it, and leaves to its caller what the caller had.                *)
(***************************************************************************)

FrameMemory(k) == function[frames[k].f].parameterSize + function[frames[k].f].localSize

\* Where a variable of a frame is.
AddressOf(variable) ==
  LET f == frames[variable[1]].f
      n == variable[2][2]
  IN frames[variable[1]].base
     + (IF variable[2][1] = "param" THEN function[f].layout[n].begin ELSE function[f].offsets[n])

\* The bytes of a frame from an offset hold a value.
Holds(k, offset, n, v) == Read(frames[k].base + offset, n) = Bytes(v, n)

HoldsParameter(k, n) ==
  LET p == function[frames[k].f].layout[n] IN
  IF ~Passed(k, n) THEN p.kind = "optional" => Read(frames[k].base + p.flag, 1) = <<Zero>>
  ELSE /\ p.kind = "optional" => NonZero(memory[frames[k].base + p.flag + 1])
       /\ Holds(k, p.begin, p.length,
                IF p.ref THEN <<"at", AddressOf(Variable(k, n))>>
                ELSE ValueIn(Variable(k, n)))

\* In every active frame each parameter holds the argument the source gives it, or
\* its address when it is passed by reference; the flag of an optional parameter
\* says whether it was passed; the locals and the object are those of the source.
\* Nothing another call does disturbs them (ILGen.VisitArgumentPass pushes what
\* Processor::popArgsFromOperand takes, Function::complete places what
\* getParameterByIndex finds).
FramesHoldSource ==
  status # "returned" => \A k \in DOMAIN frames :
    LET f == frames[k].f IN
    /\ \A n \in DOMAIN function[f].params : HoldsParameter(k, n)
    /\ \A n \in DOMAIN Function(f).locals :
         Holds(k, function[f].offsets[n], Function(f).locals[n], ValueIn(<<k, <<"local", n>>>>))
    /\ HasSelf(f) => Holds(k, 0, RefSize, source[k].self)

ReadsParameter == Running("ldarg") \/ Running("starg") \/ Running("ldarga")

\* A parameter shown is what the source says it is, through references and nested
\* calls; testopt answers whether the parameter was passed; and an access raises
\* the exception exactly when its parameter was not passed, a call when it has no
\* object (optionalParameterCheck, testopt, OpLdarg, OpLoad, nullPointerCheck).
SeesArguments ==
  /\ Running("show") =>
       IF "test" \in DOMAIN Inst
       THEN ValueOf(Top(1)) = <<"truth", IF Passed(Depth, Inst.test) THEN 1 ELSE 0>>
       ELSE Top(Inst.size) = Bytes(ValueIn(Variable(Depth, Inst.n)), Inst.size)
  /\ ReadsParameter /\ TopNumber(2) > 0 =>
       (OptionMissing <=> ~Passed(Depth, TopNumber(2)))
  /\ status = "fatal" =>
       \/ Inst.op = "call" /\ Inst.call.self = Nothing
       \/ Inst.op \in {"ldarg", "starg", "ldarga"} /\ ~Passed(Depth, TopNumber(2))

\* The frames fill the frame stack one after the other, so a return gives back what
\* its call borrowed; under the operands of a call lies what its caller had there,
\* and it leaves that and its result (CallEnv, borrow, MemoryStack::pop).
CallsNest ==
  /\ status = "running" =>
       \A k \in DOMAIN frames :
         frames[k].base + FrameMemory(k) = (IF k = Depth THEN Len(memory) ELSE frames[k + 1].base)
  /\ \A k \in DOMAIN frames : IsPrefix(source[k].kept, operand)
  /\ Running("ret") =>
       operand = source[Depth].kept
                 \o (IF Returns(Here.f) THEN Bytes(Function(Here.f).result, 4) ELSE <<>>)
=============================================================================
