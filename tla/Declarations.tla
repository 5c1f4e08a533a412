---------------------------- MODULE Declarations ----------------------------
(***************************************************************************)
(* What the compiler does with declarations between the parse tree and the *)
(* code generator (src/ebc/analyzer): the first pass creates the symbols   *)
(* and fills the scopes, the second completes them (bases, signatures,     *)
(* types, default constructors), the inheritance check builds the tables   *)
(* of virtual methods, the third pass gives the names of the bodies their  *)
(* meaning, and the generator emits the constructor calls.                 *)
(*                                                                         *)
(* A program is a sequence of nodes in the order of the text: a            *)
(* declaration or a statement, the node it stands in, its flags and the    *)
(* path it names (the base of a class, the type of a variable, a parameter *)
(* or a result, the name a statement uses).  Nodes are symbols and, where  *)
(* they have one, scopes; 0 is the module "global".  The passes walk the   *)
(* tree by recursion: todo is the rest of the walk, one task for each      *)
(* handler that is still to run.                                           *)
(***************************************************************************)
EXTENDS Integers, FiniteSets, FiniteSetsExt, SequencesExt

CONSTANT Programs     \* the programs given to the compiler

Global    == 0
Null      == -1       \* a null reference
ErrorType == -2
Overflow  == -3       \* a recursion that does not end
BadPath   == -4       \* a path that goes through a symbol without scope

NoPart == -1          \* the constructor has no Extend part

Kinds == {"Module", "Class", "Record", "Primitive", "Ctor", "Method", "Variable",
          "Parameter", "Block", "Dim", "Name", "New"}
Origins == {"core", "source", "import"}

ASSUME ProgramsAssumption ==
  \A p \in Programs : \A n \in 1..Len(p) :
    /\ p[n].kind \in Kinds /\ p[n].from \in Origins
    /\ p[n].in \in 0..n - 1
    /\ p[n].flags \subseteq {"Public", "Static", "Virtual", "Override"}

VARIABLES
  program,
  todo,                 \* tasks: [do |-> handler, at |-> node]
  childern,             \* scope -> its symbols, in the order they were added
  currentClass,         \* of the first pass, then of the third
  ctor,                 \* class -> constructor
  baseClass,            \* class -> class, also its scope's only extend scope
  normalParameters,     \* function -> its completed parameters
  type,                 \* variable, parameter or method -> type
  inheritDependent,     \* edges base -> derived, in the order of AddEdge
  virtualMethod,        \* class -> name -> method, for the classes that have it
  internalPublicItems, internalItems,   \* scope -> symbols, once computed
  extendCtorAST,        \* constructor -> the constructor it calls first
  errors,               \* what was logged: <<message, node>>
  crash,                \* the exception that ended the compiler and its node, or <<>>
  asked,                \* history: every annotation looked up and its outcome
  uses                  \* history: every name of a body and what it became

walk     == <<todo, currentClass>>
symbols  == <<childern, ctor, baseClass, normalParameters, type, extendCtorAST>>
checks   == <<inheritDependent, virtualMethod>>
caches   == <<internalPublicItems, internalItems>>
outcome  == <<errors, crash>>
vars == <<program, walk, symbols, checks, caches, outcome, asked, uses>>

(***************************************************************************)
(* The tree.                                                               *)
(***************************************************************************)
Nodes == 1..Len(program)
\* The constructor generated for class c.
DefaultCtor(c) == Len(program) + c
Generated(s) == s > Len(program)
Ctors == {n \in Nodes : program[n].kind = "Ctor"} \cup {DefaultCtor(n) : n \in Nodes}

Kind(s) == IF s = Global THEN "Module" ELSE IF Generated(s) THEN "Ctor" ELSE program[s].kind
In(s)   == IF s = Global THEN Null ELSE IF Generated(s) THEN s - Len(program) ELSE program[s].in
Flags(s) == IF s = Global THEN {"Public"} ELSE IF Generated(s) THEN {} ELSE program[s].flags
Name(s) == IF s = Global THEN "global" ELSE IF Kind(s) = "Ctor" THEN "#ctor" ELSE program[s].name
FromSource(s) == Generated(s) \/ program[s].from = "source"

IsFunction(s) == Kind(s) \in {"Ctor", "Method"}
IsVariable(s) == Kind(s) \in {"Variable", "Parameter", "Dim"}
IsType(s)     == s >= 0 /\ Kind(s) \in {"Class", "Record", "Primitive"}

\* The nodes that stand in s, in the order of the text.
Inside(s) == SelectSeq([n \in Nodes |-> n], LAMBDA n : program[n].in = s)
InsideOf(s, kinds) == SelectSeq(Inside(s), LAMBDA n : Kind(n) \in kinds)

\* s, Step(s), Step(Step(s))... up to null, cut when it is longer than any chain without a cycle.
Along(Step(_), s) ==
  FoldLeft(LAMBDA chain, n : LET next == Step(Last(chain))
                             IN IF next = Null THEN chain ELSE Append(chain, next),
           <<s>>, [n \in 1..Len(program) + 1 |-> n])

Base(s) == IF s \in DOMAIN baseClass THEN baseClass[s] ELSE Null
Outward(s) == Along(In, s)
\* The class and its bases.
Bases(c) == ToSet(Along(Base, c))

\* The function a statement belongs to.
FunctionOf(n) == SelectSeq(Outward(n), IsFunction)[1]

(***************************************************************************)
(* Scopes.                                                                 *)
(***************************************************************************)
\* Scope.Add: a name that is taken is refused.
Add(list, s) == IF \E i \in DOMAIN list : Name(list[i]) = Name(s) THEN list ELSE Append(list, s)
AddAll(list, new) == FoldLeft(Add, list, new)
Refused(list, new) == ToSet(new) \ ToSet(AddAll(list, new))

Child(s, name) == SelectSeq(childern[s], LAMBDA c : Name(c) = name)

\* Scope.Find: the scope, then the scope of the base class, and so on; a cycle
\* of bases without the name is searched for ever.
Find(s, name) ==
  LET first(owners, bases) ==
        IF owners # <<>> THEN Child(owners[1], name)[1]
        ELSE IF Len(bases) > Len(program) THEN Overflow ELSE Null
      search(bases) == first(SelectSeq(bases, LAMBDA b : Child(b, name) # <<>>), bases)
  IN search(Along(Base, s))

\* What a scope is attached to: that of a block is the function.
AttachName(s) == IF Kind(s) = "Block" THEN Name(FunctionOf(s)) ELSE Name(s)

\* Scope.LookUp(name): the innermost scope that finds it or has its name.
LookUp(s, name) ==
  LET answer(found, p) ==
        IF found # Null THEN found ELSE IF AttachName(p) = name THEN p ELSE Null
  IN FoldLeft(LAMBDA found, p : IF found # Null THEN found ELSE answer(Find(p, name), p),
              Null, Outward(s))

\* Scope.LookUp(path)
LookUpPath(s, path) ==
  FoldLeft(LAMBDA found, name :
             IF found \in {Null, Overflow, BadPath} THEN found
             ELSE IF Kind(found) \in {"Module", "Class", "Record"} THEN Find(found, name)
             ELSE BadPath,
           LookUp(s, path[1]), Tail(path))

\* Utils.GetSymbolScope, null for a symbol without scope.
GetSymbolScope(s) ==
  LET t == IF IsVariable(s) THEN type[s] ELSE s
  IN IF t >= 0 /\ Kind(t) \in {"Module", "Class", "Record"} THEN t ELSE Null

(***************************************************************************)
(* Access.  A scope keeps what it found accessible for ever.               *)
(***************************************************************************)
SubScopes(s) == {GetSymbolScope(c) : c \in ToSet(childern[s])} \ {Null}

\* Mutant: the recursion does not stop at what is kept already.
Entered_Again(cache, S) ==
  FoldLeft(LAMBDA T, n : T \cup {u \in UNION {SubScopes(t) : t \in T} : "Public" \in Flags(u)},
           S, [n \in 1..Len(program) |-> n])

\* The scopes that InternalPublicItems, called for the scopes S, computes: the
\* recursion goes on in public scopes and stops at those that have their items.
Entered(cache, S) ==
  FoldLeft(LAMBDA T, n : T \cup {u \in UNION {SubScopes(t) : t \in T} :
                                   "Public" \in Flags(u) /\ u \notin DOMAIN cache},
           S \ DOMAIN cache, [n \in 1..Len(program) |-> n])

\* It does not end when a scope is entered again on the way to its items.
Endless(cache, S) ==
  \E s \in Entered(cache, S) :
    s \in Entered(cache, {u \in SubScopes(s) : "Public" \in Flags(u)})

PublicItemsOf(cache, s) ==
  LET scopes == Entered(cache, {s})
      known  == {u \in UNION {SubScopes(t) : t \in scopes} : "Public" \in Flags(u)}
  IN UNION ({{c \in ToSet(childern[t]) : "Public" \in Flags(c)} : t \in scopes}
            \cup {cache[u] : u \in known \cap DOMAIN cache})

InternalPublicItems(cache, S) ==
  cache @@ [s \in Entered(cache, S) |-> PublicItemsOf(cache, s)]

\* Mutant: a scope forgets what the scope around it may use.
InternalItems_OwnOnly(public, s) ==
  FoldRight(LAMBDA p, cache :
              cache @@ (p :> ToSet(childern[p]) \cup UNION {public[u] : u \in SubScopes(p)}),
            SelectSeq(Outward(s), LAMBDA p : p \notin DOMAIN internalItems), internalItems)

\* Scope.InternalItems for s: the scopes outward up to one that has them.
InternalItems(public, s) ==
  FoldRight(LAMBDA p, cache :
              cache @@ (p :> ToSet(childern[p])
                             \cup UNION {public[u] : u \in SubScopes(p)}
                             \cup (IF p = Global THEN {} ELSE cache[In(p)])),
            SelectSeq(Outward(s), LAMBDA p : p \notin DOMAIN internalItems), internalItems)

\* Scope.Reachable: what it answers and what the scopes have cached then.
Reachable(s, target) ==
  LET result(ends, answer, public, internal) ==
        [ends |-> ends, answer |-> answer, public |-> public, internal |-> internal]
      within(public, internal) == result(TRUE, target \in internal[s], public, internal)
      inside(public) == within(public, InternalItems(public, s))
      outside(public, own) ==
        IF target \in public[Global] THEN result(TRUE, TRUE, public, internalItems)
        ELSE IF Endless(public, own) THEN result(FALSE, FALSE, public, internalItems)
        ELSE inside(InternalPublicItems(public, own))
  IN IF Endless(internalPublicItems, {Global})
     THEN result(FALSE, FALSE, internalPublicItems, internalItems)
     ELSE outside(InternalPublicItems(internalPublicItems, {Global}),
                  UNION {SubScopes(p) : p \in ToSet(Outward(s)) \ DOMAIN internalItems})

\* Utils.SearchTypePath from scope s, Utils.SearchType from the global one: the
\* symbol found may be refused, it is the result all the same.
SearchTypePath(s, path) ==
  LET quiet == [type |-> ErrorType, errors |-> {}, crash |-> "none",
                public |-> internalPublicItems, internal |-> internalItems]
      given(found, reach) ==
        IF ~reach.ends THEN [quiet EXCEPT !.crash = "StackOverflow"]
        ELSE [type |-> found, crash |-> "none",
              errors |-> IF reach.answer THEN {} ELSE {"TargetUnreachable"},
              public |-> reach.public, internal |-> reach.internal]
      search(found) ==
        IF found = Overflow THEN [quiet EXCEPT !.crash = "StackOverflow"]
        ELSE IF found = BadPath THEN [quiet EXCEPT !.crash = "SwitchExpression"]
        ELSE IF ~IsType(found) THEN [quiet EXCEPT !.errors = {"ObjectNotfound"}]
        ELSE given(found, Reachable(s, found))
  IN search(LookUpPath(s, path))

\* What every handler that looks up the path of node n from scope s does with
\* the result r, more being what else it logs.
Annotation(n, s, r, more) ==
  /\ errors' = errors \cup ((r.errors \cup more) \X {n})
  /\ crash' = IF r.crash = "none" THEN <<>> ELSE <<r.crash, n>>
  /\ internalPublicItems' = r.public /\ internalItems' = r.internal
  /\ asked' = asked \cup {[node |-> n, scope |-> s, type |-> r.type, errors |-> r.errors]}

(***************************************************************************)
(* The walk.                                                               *)
(***************************************************************************)
Task(do, n) == [do |-> do, at |-> n]
Tasks(do, list) == [i \in DOMAIN list |-> Task(do, list[i])]

\* The next task is one of the handler do for node n; then is to run before
\* the tasks that are left.
Handle(do, n, then) ==
  /\ crash = <<>> /\ todo # <<>>
  /\ Head(todo) = Task(do, n)
  /\ todo' = then \o Tail(todo)
  /\ UNCHANGED program

Fail(exception, n) ==
  /\ crash' = <<exception, n>>
  /\ UNCHANGED <<currentClass, symbols, checks, caches, errors, asked, uses>>

(***************************************************************************)
(* FstPass: the symbols and their scopes.                                  *)
(***************************************************************************)
Declared == {"Module", "Class", "Record", "Ctor", "Method", "Variable"}
Members(s) == SelectSeq(InsideOf(s, Declared), LAMBDA n : s # Global \/ FromSource(n))

\* Only these have more to visit than the creation of the symbol.
Visited(s) == SelectSeq(Members(s), LAMBDA n : Kind(n) \notin {"Method", "Variable"})

DeclareModule(n) ==
  /\ Kind(n) = "Module"
  /\ Handle("declare", n, Tasks("declare", Visited(n)) \o <<Task("add", n)>>)
  /\ UNCHANGED <<currentClass, symbols, checks, caches, outcome, asked, uses>>

DeclareClass(n) ==
  /\ Kind(n) = "Class"
  /\ Handle("declare", n,
            Tasks("declare", Visited(n)) \o <<Task("add", n), Task("leave", n)>>)
  /\ currentClass' = n
  /\ UNCHANGED <<symbols, checks, caches, outcome, asked, uses>>

DeclareRecord(n) ==
  /\ Kind(n) = "Record"
  /\ Handle("declare", n, <<>>)
  /\ childern' = [childern EXCEPT ![n] = AddAll(@, Members(n))]
  /\ UNCHANGED <<currentClass, ctor, baseClass, normalParameters, type, extendCtorAST,
                 checks, caches, outcome, asked, uses>>

DeclareCtor(n) ==
  /\ Kind(n) = "Ctor"
  /\ Handle("declare", n, <<>>)
  /\ IF currentClass = Null THEN Fail("NullReference", n)
     ELSE /\ ctor' = [ctor EXCEPT ![currentClass] = n]
          /\ UNCHANGED <<currentClass, childern, baseClass, normalParameters, type,
                         extendCtorAST, checks, caches, outcome, asked, uses>>

AddDeclarationsTo(n) ==
  /\ Handle("add", n, <<>>)
  /\ childern' = [childern EXCEPT ![n] = AddAll(@, Members(n))]
  /\ errors' = errors \cup ({"NameDuplicate"} \X Refused(childern[n], Members(n)))
  /\ UNCHANGED <<currentClass, ctor, baseClass, normalParameters, type, extendCtorAST,
                 checks, caches, crash, asked, uses>>

\* Mutant: the class is left as the current one.
LeaveClass_Stays(n) ==
  /\ Handle("leave", n, <<>>)
  /\ UNCHANGED <<currentClass, symbols, checks, caches, outcome, asked, uses>>

\* The end of VisitClassDecl and of VisitClass.
LeaveClass(n) ==
  /\ Handle("leave", n, <<>>)
  /\ currentClass' = Null
  /\ UNCHANGED <<symbols, checks, caches, outcome, asked, uses>>

\* The packages that the sources import are read after the first pass.
Import ==
  /\ Handle("import", Global, <<>>)
  /\ childern' = [childern EXCEPT ![Global] = AddAll(@, SelectSeq(Inside(Global),
                                    LAMBDA n : program[n].from = "import"))]
  /\ UNCHANGED <<currentClass, ctor, baseClass, normalParameters, type, extendCtorAST,
                 checks, caches, outcome, asked, uses>>

(***************************************************************************)
(* SndPass: bases, types and default constructors.                         *)
(***************************************************************************)
EBObject == Child(Global, "object")[1]

\* The scope a declaration's types are looked up from: packages name them in full.
DeclScope(n) ==
  IF ~FromSource(n) THEN Global
  ELSE IF Kind(In(n)) = "Record" \/ IsFunction(In(n)) THEN In(In(n)) ELSE In(n)

\* A primitive has nothing to complete.
CompleteScope(n) ==
  /\ Kind(n) \in {"Module", "Record", "Primitive"}
  /\ Handle("complete", n, Tasks("complete", childern[n]))
  /\ UNCHANGED <<currentClass, symbols, checks, caches, outcome, asked, uses>>

TakeBase(n, base) ==
  /\ baseClass' = [baseClass EXCEPT ![n] = base]
  /\ ctor' = IF FromSource(n) THEN ctor
             ELSE [ctor EXCEPT ![n] = IF Child(n, "#ctor") # <<>> THEN Child(n, "#ctor")[1]
                                      ELSE Find(base, "#ctor")]
  /\ UNCHANGED <<currentClass, childern, normalParameters, type, extendCtorAST, checks, uses>>

\* Complete of SourceClassCompleter up to its members, and of ClassCompleter:
\* what is named must be a class, for its scope is taken at once.
CompleteClass(n) ==
  /\ Kind(n) = "Class"
  /\ Handle("complete", n, Tasks("complete", childern[n])
                           \o IF FromSource(n) THEN <<Task("finish", n)>> ELSE <<>>)
  /\ IF n = EBObject \/ program[n].path = <<>>
     THEN /\ TakeBase(n, IF n = EBObject THEN Null ELSE EBObject)
          /\ UNCHANGED <<caches, outcome, asked>>
     ELSE \E r \in {SearchTypePath(DeclScope(n), program[n].path)} :
            IF r.crash # "none" THEN Fail(r.crash, n)
            ELSE IF ~IsType(r.type) \/ Kind(r.type) # "Class" THEN Fail("NullReference", n)
            ELSE TakeBase(n, r.type) /\ Annotation(n, DeclScope(n), r, {})

FinishClass(n) ==
  /\ Handle("finish", n, <<>>)
  /\ LET own == IF ctor[n] = Null THEN DefaultCtor(n) ELSE ctor[n] IN
       /\ ctor' = [ctor EXCEPT ![n] = own]
       /\ extendCtorAST' = IF ctor[n] = Null /\ n # EBObject
                           THEN [extendCtorAST EXCEPT ![own] = ctor[baseClass[n]]]
                           ELSE extendCtorAST
       /\ childern' = [childern EXCEPT ![n] = Add(@, own)]
  /\ inheritDependent' = IF n = EBObject THEN inheritDependent
                         ELSE Append(inheritDependent, <<baseClass[n], n>>)
  /\ UNCHANGED <<currentClass, baseClass, normalParameters, type, virtualMethod,
                 caches, outcome, asked, uses>>

CompleteFunction(n) ==
  /\ IsFunction(n)
  /\ Handle("complete", n, Tasks("complete", InsideOf(n, {"Parameter"}))
                           \o IF Kind(n) = "Method" /\ program[n].path # <<>>
                              THEN <<Task("result", n)>> ELSE <<>>)
  /\ UNCHANGED <<currentClass, symbols, checks, caches, outcome, asked, uses>>

\* A variable, a parameter (CompleteFunctionSignature) or the result of a method.
CompleteType(n) ==
  /\ \/ IsVariable(n) /\ Handle("complete", n, <<>>)
     \/ Kind(n) = "Method" /\ Handle("result", n, <<>>)
  /\ \E r \in {SearchTypePath(DeclScope(n), program[n].path)} :
       /\ Annotation(n, DeclScope(n), r, {})
       /\ type' = [type EXCEPT ![n] = r.type]
  /\ IF Kind(n) = "Parameter"
     THEN /\ normalParameters' = [normalParameters EXCEPT ![In(n)] = Append(@, n)]
          /\ childern' = [childern EXCEPT ![In(n)] = Add(@, n)]
     ELSE UNCHANGED <<normalParameters, childern>>
  /\ UNCHANGED <<currentClass, ctor, baseClass, extendCtorAST, checks, uses>>

(***************************************************************************)
(* The inheritance check.                                                  *)
(***************************************************************************)
\* TopologicalOrder.Solve on the edges: the vertices in the order of their
\* first edge go through a queue, and one without edges left enters the order
\* and queues its destinations.
Solve(edges) ==
  LET ends     == FoldLeft(LAMBDA list, e : list \o e, <<>>, edges)
      vertices == FoldLeft(LAMBDA list, v : IF Contains(list, v) THEN list ELSE Append(list, v),
                           <<>>, ends)
      from(v)  == SelectSeq(edges, LAMBDA e : e[1] = v)
      dequeue(s, step) ==
        IF s.queue = <<>> THEN s
        ELSE LET v == Head(s.queue) IN
          IF s.inDegree[v] > 0 \/ Contains(s.order, v) THEN [s EXCEPT !.queue = Tail(@)]
          ELSE [order    |-> Append(s.order, v),
                queue    |-> Tail(s.queue) \o [i \in DOMAIN from(v) |-> from(v)[i][2]],
                inDegree |-> [w \in DOMAIN s.inDegree |->
                   s.inDegree[w] - Len(SelectSeq(from(v), LAMBDA e : e[2] = w))]]
      start == [order |-> <<>>, queue |-> vertices, inDegree |->
                  [v \in ToSet(vertices) |-> Len(SelectSeq(edges, LAMBDA e : e[2] = v))]]
      end == FoldLeft(dequeue, start, [i \in 1..Len(vertices) + Len(edges) |-> i])
  IN [order |-> end.order, all |-> Len(end.order) = Len(vertices)]

\* Type.Equal and Class.Equal: b may stand where a is expected.  (The walk from
\* b to its bases would not end in a cycle without a; it is cut here.)
Equal(a, b) ==
  \/ ErrorType \in {a, b} \/ a = b
  \/ Kind(a) = "Class" /\ Kind(b) = "Class" /\ a \in Bases(b)

\* Function.Compatible, for parameters without flags.
Compatible(f, g) ==
  /\ Len(normalParameters[f]) = Len(normalParameters[g])
  /\ \A i \in DOMAIN normalParameters[f] :
       Equal(type[normalParameters[f][i]], type[normalParameters[g][i]])


\* One class of inheritCheck: its table is its base's and its own virtual methods.
CheckMethod(table, m) ==
  CASE "Virtual" \in Flags(m) ->
         IF Name(m) \in DOMAIN table THEN {"VirtualMethodNameDuplicate"} ELSE {}
    [] "Override" \in Flags(m) ->
         IF Name(m) \notin DOMAIN table THEN {"NoVirtualMethodToOverride"}
         ELSE IF ~Compatible(table[Name(m)], m) THEN {"OverrideMethodIncompatible"} ELSE {}
    [] OTHER -> {}

CheckClass(s, c) ==
  LET methods == SelectSeq(childern[c], LAMBDA m : Kind(m) = "Method")
      check(t, m) ==
        [table  |-> IF "Virtual" \in Flags(m) THEN t.table @@ (Name(m) :> m) ELSE t.table,
         errors |-> t.errors \cup (CheckMethod(t.table, m) \X {m})]
      result(table) == FoldLeft(check, [table |-> table, errors |-> s.errors], methods)
      with(r) == [s EXCEPT !.tables = (c :> r.table) @@ @, !.errors = r.errors]
  IN IF s.crash # <<>> THEN s
     ELSE IF baseClass[c] = Null THEN with(result(<<>>))
     ELSE IF baseClass[c] \notin DOMAIN s.tables THEN [s EXCEPT !.crash = <<"ArgumentNull", c>>]
     ELSE with(result(s.tables[baseClass[c]]))

InheritCheck ==
  /\ Handle("inherit", Global, <<>>)
  /\ LET solved == Solve(inheritDependent)
         s == FoldLeft(CheckClass,
                [tables |-> virtualMethod, crash |-> <<>>, errors |-> errors \cup
                   IF solved.all THEN {} ELSE {<<"CircleInherit", Global>>}], solved.order)
     IN /\ virtualMethod' = s.tables /\ errors' = s.errors /\ crash' = s.crash
  /\ UNCHANGED <<currentClass, symbols, inheritDependent, caches, asked, uses>>

(***************************************************************************)
(* TrdPass: bodies.                                                        *)
(***************************************************************************)
AnalyzeScope(n) ==
  /\ Kind(n) \in {"Module", "Class"}
  /\ Handle("analyze", n,
       Tasks("analyze", SelectSeq(childern[n], LAMBDA c :
                FromSource(c) /\ ~Generated(c) /\ Kind(c) \in {"Module", "Class", "Method", "Ctor"}))
       \o IF Kind(n) = "Class" THEN <<Task("leave", n)>> ELSE <<>>)
  /\ currentClass' = IF Kind(n) = "Class" THEN n ELSE currentClass
  /\ UNCHANGED <<symbols, checks, caches, outcome, asked, uses>>

Statements(n) == Tasks("analyze", InsideOf(n, {"Block", "Dim", "Name", "New"}))

\* A block is a scope of its own.
AnalyzeStatements(n) ==
  /\ Kind(n) \in {"Method", "Block"}
  /\ Handle("analyze", n, Statements(n))
  /\ UNCHANGED <<currentClass, symbols, checks, caches, outcome, asked, uses>>

\* Mutant: arguments too many are not counted.
ArgumentErrors_AtLeast(c, args) ==
  IF args < Len(normalParameters[c]) THEN {"ArgCountMismatch"} ELSE {}

\* FillCallArgs for a constructor called with that many arguments.
ArgumentErrors(c, args) ==
  IF args # Len(normalParameters[c]) THEN {"ArgCountMismatch"} ELSE {}

\* VisitConstructor: only the constructor its class ended with has an owner.
AnalyzeCtor(n) ==
  LET c == In(n) IN
  /\ Kind(n) = "Ctor"
  /\ Handle("analyze", n, Statements(n))
  /\ IF ctor[c] # n \/ baseClass[c] = Null THEN Fail("NullReference", n)
     ELSE LET base == ctor[baseClass[c]] IN
       IF program[n].args # NoPart /\ base = Null THEN Fail("NullReference", n)
       ELSE /\ extendCtorAST' = [extendCtorAST EXCEPT ![n] = base]
            /\ errors' = errors \cup
                 ((IF program[n].args = NoPart THEN {} ELSE ArgumentErrors(base, program[n].args))
                  \X {n})
            /\ UNCHANGED <<currentClass, childern, ctor, baseClass, normalParameters, type,
                           checks, caches, crash, asked, uses>>

\* VisitDimStmt: the type is looked up before the name is added.
AnalyzeDim(n) ==
  /\ Kind(n) = "Dim"
  /\ Handle("analyze", n, <<>>)
  /\ \E r \in {SearchTypePath(In(n), program[n].path)} :
       /\ Annotation(n, In(n), r,
            IF Refused(childern[In(n)], <<n>>) = {} THEN {} ELSE {"NameDuplicate"})
       /\ type' = [type EXCEPT ![n] = r.type]
  /\ childern' = [childern EXCEPT ![In(n)] = Add(@, n)]
  /\ UNCHANGED <<currentClass, ctor, baseClass, normalParameters, extendCtorAST, checks, uses>>

\* VisitNewExpression
AnalyzeNew(n) ==
  /\ Kind(n) = "New"
  /\ Handle("analyze", n, <<>>)
  /\ \E r \in {SearchTypePath(In(n), program[n].path)} :
     IF r.crash = "none" /\ IsType(r.type) /\ Kind(r.type) = "Class" /\ ctor[r.type] = Null
     THEN Fail("NullReference", n)
     ELSE /\ Annotation(n, In(n), r,
               IF ~IsType(r.type) THEN {}
               ELSE IF Kind(r.type) # "Class" THEN {"TargetIsNotClass"}
               ELSE ArgumentErrors(ctor[r.type], program[n].args))
          /\ UNCHANGED <<currentClass, symbols, checks, uses>>

\* VisitPrimaryTerminal.  What the name becomes: an access with or without the
\* reference to self (GetSelfReference), an error, or an exception.
Access(s, sym) ==
  LET f      == FunctionOf(s)
      static == "Static" \in Flags(f) \/ Kind(In(f)) = "Module"
      becomes(error, self, exception) ==
        [symbol |-> sym, error |-> error, self |-> self, crash |-> exception]
  IN IF sym = Overflow THEN becomes("none", Null, "StackOverflow")
     ELSE IF sym = Null THEN becomes("ObjectNotfound", Null, "none")
     ELSE IF Kind(sym) \in {"Module", "Class", "Parameter"} THEN becomes("none", Null, "none")
     ELSE IF Kind(sym) \in {"Record", "Primitive"} THEN becomes("none", Null, "Argument")
     ELSE IF Kind(In(sym)) # "Class" \/ "Static" \in Flags(sym) THEN becomes("none", Null, "none")
     ELSE IF static THEN becomes("CannotAccessNonStaticMember", Null, "none")
     ELSE IF currentClass = Null THEN becomes("none", Null, "Argument")
     ELSE becomes("none", currentClass, "none")

AnalyzeName(n) ==
  /\ Kind(n) = "Name"
  /\ Handle("analyze", n, <<>>)
  /\ \E a \in {Access(In(n), LookUp(In(n), program[n].path[1]))} :
       /\ crash' = IF a.crash = "none" THEN <<>> ELSE <<a.crash, n>>
       /\ errors' = IF a.error = "none" THEN errors ELSE errors \cup {<<a.error, n>>}
       /\ uses' = uses \cup {[node |-> n, symbol |-> a.symbol, self |-> a.self,
                              error |-> a.error]}
  /\ UNCHANGED <<currentClass, symbols, checks, caches, asked>>

(***************************************************************************)
(* genreateIL: without an error, every constructor begins with the call of *)
(* its base's.                                                             *)
(***************************************************************************)
GenreateIL ==
  /\ Handle("generate", Global, <<>>)
  /\ LET broken == {c \in Nodes : /\ Kind(c) = "Class" /\ FromSource(c) /\ c # EBObject
                                  /\ extendCtorAST[ctor[c]] = Null}
     IN crash' = IF errors = {} /\ broken # {} THEN <<"NullReference", Min(broken)>> ELSE <<>>
  /\ UNCHANGED <<currentClass, symbols, checks, caches, errors, asked, uses>>

-----------------------------------------------------------------------------
\* A package comes with the members of its scopes in place.
Init ==
  /\ program \in Programs
  /\ todo = <<Task("declare", Global), Task("import", Global), Task("complete", Global),
              Task("inherit", Global), Task("analyze", Global), Task("generate", Global)>>
  /\ childern = [s \in {Global} \cup Nodes |->
        IF s = Global THEN SelectSeq(Inside(s), LAMBDA n : program[n].from = "core")
        ELSE IF FromSource(s) THEN <<>> ELSE InsideOf(s, Declared)]
  /\ currentClass = Null
  /\ ctor = [c \in Nodes |-> Null]
  /\ baseClass = [c \in Nodes |-> Null]
  /\ normalParameters = [f \in Ctors \cup Nodes |-> <<>>]
  /\ type = [v \in Nodes |-> Null]
  /\ extendCtorAST = [c \in Ctors |-> Null]
  /\ inheritDependent = <<>> /\ virtualMethod = <<>>
  /\ internalPublicItems = <<>> /\ internalItems = <<>>
  /\ errors = {} /\ crash = <<>>
  /\ asked = {} /\ uses = {}

\* The node of the next task.
Handled == {todo[i].at : i \in DOMAIN todo \cap {1}}

Next ==
  \/ Import \/ InheritCheck \/ GenreateIL
  \/ \E n \in Handled : DeclareModule(n)
  \/ \E n \in Handled : DeclareClass(n)
  \/ \E n \in Handled : DeclareRecord(n)
  \/ \E n \in Handled : DeclareCtor(n)
  \/ \E n \in Handled : AddDeclarationsTo(n)
  \/ \E n \in Handled : LeaveClass(n)
  \/ \E n \in Handled : CompleteScope(n)
  \/ \E n \in Handled : CompleteClass(n)
  \/ \E n \in Handled : CompleteFunction(n)
  \/ \E n \in Handled : CompleteType(n)
  \/ \E n \in Handled : FinishClass(n)
  \/ \E n \in Handled : AnalyzeScope(n)
  \/ \E n \in Handled : AnalyzeStatements(n)
  \/ \E n \in Handled : AnalyzeCtor(n)
  \/ \E n \in Handled : AnalyzeDim(n)
  \/ \E n \in Handled : AnalyzeNew(n)
  \/ \E n \in Handled : AnalyzeName(n)

Spec == Init /\ [][Next]_vars

-----------------------------------------------------------------------------
(***************************************************************************)
(* What the declarations of a program mean, said of the finished tree, and *)
(* what the compiler makes of them in one walk over an unfinished one.     *)
(***************************************************************************)

Finished == todo = <<>> /\ crash = <<>>

Classes == {n \in Nodes : Kind(n) = "Class"}
SourceClasses == {c \in Classes : FromSource(c) /\ c # EBObject}
Enclosing(s) == ToSet(Outward(s))
Around(s) == Enclosing(s) \ {s}
\* The class a statement stands in, null in a module.
ClassAround(n) ==
  LET c == In(FunctionOf(n)) IN IF Kind(c) = "Class" THEN c ELSE Null

(***************************************************************************)
(* The meaning of a name at node n: the declaration of the innermost       *)
(* scope around n that declares it, inherits it or is called by it.        *)
(***************************************************************************)
DeclaredIn(s, name, n) ==
  {m \in ToSet(childern[s]) : Name(m) = name /\ (Kind(m) = "Dim" => m < n)}

\* The declarations that s has or inherits, a nearer class hiding a base of it.
Offers(s, name, n) ==
  UNION {DeclaredIn(b, name, n) : b \in {b \in Bases(s) :
           \A d \in Bases(s) : b \in Bases(d) /\ d # b => DeclaredIn(d, name, n) = {}}}

Meaning(s, name, n) ==
  LET known == {p \in Enclosing(s) : Offers(p, name, n) # {} \/ AttachName(p) = name}
      inner == {p \in known : known \subseteq Enclosing(p)}
  IN UNION {IF Offers(p, name, n) # {} THEN Offers(p, name, n) ELSE {p} : p \in inner}

\* A path goes on in what its first name means.
PathMeaning(s, path, n) ==
  FoldLeft(LAMBDA found, name : UNION {Offers(m, name, n) : m \in found},
           Meaning(s, path[1], n), Tail(path))

(***************************************************************************)
(* A declaration is accessible from s when some scope p around s contains  *)
(* it and everything below p's own declarations on the way to it is public.*)
(***************************************************************************)
Accessible(m, s) ==
  \E p \in Enclosing(s) :
    /\ p \in Around(m)
    /\ \A x \in Enclosing(m) : p \in Around(x) => In(x) = p \/ "Public" \in Flags(x)

(***************************************************************************)
(* Bases that are complete when they are needed.                           *)
(***************************************************************************)
Acyclic(c) == \A b \in Bases(c) : b \notin Bases(Base(b))
AllAcyclic == \A c \in Classes : Acyclic(c)

\* The bases of every class come before it in the text.
BasesFirst == \A c \in SourceClasses : Base(c) < c

\* b was finished before c was: b is inside c, or before c and not around it.
FinishedBefore(b, c) ==
  \/ c \in Around(b)
  \/ b < c /\ b \notin Around(c)

DeclaresCtor(c) == InsideOf(c, {"Ctor"}) # <<>>
NestedBefore(n) == \E k \in Classes : In(k) = In(n) /\ k < n

-----------------------------------------------------------------------------
(***************************************************************************)
(* The compiler ends with an exception of its own only for these programs. *)
(* No annotation, whatever types refer to each other and whatever is       *)
(* private, makes the search for accessible items recurse for ever         *)
(* (Symbol.cs:256-293): a stack overflow needs a cycle of base classes.    *)
(* Wrong are programs that it should report, and does not get to: with two *)
(* constructors in a class (doc/tutorial.md:368 allows one) the log that   *)
(* names the second is never shown (TrdPass.cs:61, Program.cs:123).        *)
(* Failing are programs that it should compile: a constructor or a method  *)
(* behind a nested class (the pass has lost its current class); a base     *)
(* that is finished after the class that takes its constructor             *)
(* (SndPass.cs:57), although doc/tutorial.md:11 lists forward references;  *)
(* and a class of a package that enters the inheritance graph before its   *)
(* own base, as Exception does if the first class extends it               *)
(* (Semantic.cs:274), although doc/tutorial.md:335 supports inheritance.   *)
(* The property is that nothing else fails, not that this is right.        *)
(***************************************************************************)
BaseIsNoClass(c) == PathMeaning(In(c), program[c].path, c) \cap Classes = {}

PathLeavesScopes(s, path, n) ==
  \E k \in 1..Len(path) - 1 : \E m \in PathMeaning(s, SubSeq(path, 1, k), n) :
    Kind(m) \notin {"Module", "Class", "Record"}

\* Wrong programs that the compiler does not report but fails on.
Wrong(exception, n) ==
  CASE exception = "StackOverflow" -> ~AllAcyclic
    [] exception = "SwitchExpression" -> PathLeavesScopes(DeclScope(n), program[n].path, n)
    [] exception = "Argument" ->
         \E m \in Meaning(In(n), program[n].path[1], n) : Kind(m) \in {"Record", "Primitive"}
    [] exception = "NullReference" ->
         \/ Kind(n) = "Ctor" /\ (Kind(In(n)) = "Module" \/ Len(InsideOf(In(n), {"Ctor"})) > 1)
         \/ Kind(n) = "Class" /\ Base(n) = Null /\ BaseIsNoClass(n)
    [] OTHER -> FALSE

\* Right programs that it fails on.
Failing(exception, n) ==
  CASE exception = "ArgumentNull" ->
         /\ ~FromSource(n)
         /\ \E i \in DOMAIN inheritDependent :
              /\ inheritDependent[i][1] = n
              /\ \A j \in 1..i - 1 : Base(n) \notin ToSet(inheritDependent[j])
    [] exception = "Argument" -> NestedBefore(FunctionOf(n))
    [] exception = "NullReference" ->
         \/ Kind(n) = "Ctor" /\ NestedBefore(n)
         \/ /\ Kind(n) = "Class" /\ Base(n) # Null
            /\ ~DeclaresCtor(n) /\ ~FinishedBefore(Base(n), n)
    [] OTHER -> FALSE

FailsOnlyKnown ==
  crash # <<>> => Wrong(crash[1], crash[2]) \/ Failing(crash[1], crash[2])

(***************************************************************************)
(* Every name means what the finished tree says, although it was looked up *)
(* while the tree was unfinished, and a type is refused exactly when it is *)
(* not accessible, although the scopes keep what they found accessible     *)
(* when the types of their variables were not known yet (Utils.cs:26-40,   *)
(* Symbol.cs:256-309).  Statements are looked at when every class is       *)
(* complete; a declaration sees the names of a base only if the base comes *)
(* first.                                                                  *)
(***************************************************************************)
NamesAsDeclared ==
  (Finished /\ AllAcyclic) =>
    /\ \A a \in asked :
         (BasesFirst \/ Kind(a.node) \in {"Dim", "New"}) =>
           LET types == {m \in PathMeaning(a.scope, program[a.node].path, a.node) : IsType(m)}
           IN /\ types = {a.type} \ {ErrorType}
              /\ a.errors = IF types = {} THEN {"ObjectNotfound"}
                            ELSE IF Accessible(a.type, a.scope) THEN {} ELSE {"TargetUnreachable"}
    /\ \A u \in uses :
         Meaning(In(u.node), program[u.node].path[1], u.node) = {u.symbol} \ {Null}

(***************************************************************************)
(* In a program without an error the constructor that a class declares is  *)
(* the one in its scope and the one New calls.  Every constructor, one     *)
(* that the compiler generated too, begins with the call of the            *)
(* constructor its base ended with, however many classes are in between    *)
(* and wherever that comes from, and passes as many arguments as that      *)
(* takes if it has an Extend part (SndPass.cs:46-63, TrdPass.cs:60-66).    *)
(* A class without constructor is not required to get one: the compiler    *)
(* generates it (SndPass.cs:50), and doc/tutorial.md:365 says that it does *)
(* not and that such a class cannot be instantiated.  Nor is anything said *)
(* of the arguments where the Extend part is left out: the code passes none *)
(* whatever the base's constructor takes (TrdPass.cs:64), and              *)
(* doc/tutorial.md:366 allows that only if the base is Object.             *)
(***************************************************************************)
ConstructorsChain ==
  (Finished /\ errors = {}) =>
    \A c \in SourceClasses :
      /\ DeclaresCtor(c) => Child(c, "#ctor") = <<ctor[c]>> /\ ~Generated(ctor[c])
      /\ ctor[c] # Null =>
           extendCtorAST[ctor[c]] = ctor[Base(c)] /\ In(ctor[Base(c)]) = Base(c)
      /\ (DeclaresCtor(c) /\ program[ctor[c]].args # NoPart) =>
           program[ctor[c]].args = Len(InsideOf(ctor[Base(c)], {"Parameter"}))

(***************************************************************************)
(* A name that needs an object gets the reference to self of the class its *)
(* method stands in, of which it is a member, declared there or in a base, *)
(* or it is a member of a class around that one; a name without the        *)
(* reference needs no object or is refused (TrdPass.cs:45-53, 1180-1321).  *)
(***************************************************************************)
InstanceMember(s) ==
  s # Null /\ Kind(s) \in {"Variable", "Method"} /\ Kind(In(s)) = "Class" /\ "Static" \notin Flags(s)

SelfHasMember ==
  crash = <<>> =>
    \A u \in uses :
      IF u.self = Null
      THEN InstanceMember(u.symbol) => u.error = "CannotAccessNonStaticMember"
      ELSE /\ InstanceMember(u.symbol) /\ u.self = ClassAround(u.node)
           /\ "Static" \notin Flags(FunctionOf(u.node))
           /\ \/ In(u.symbol) \in Bases(u.self)
              \/ \E p \in Around(u.self) : In(u.symbol) \in Bases(p)

(***************************************************************************)
(* The inheritance check logs exactly what is wrong: one error for a cycle *)
(* of bases, and for each class whose chain of bases ends, the virtual     *)
(* methods that have the name of one further up, the overrides without     *)
(* one, and those whose parameters do not fit the one that is declared     *)
(* furthest up (Semantic.cs:264-307).  Only parameters are compared: an    *)
(* override with another type of result passes, although the comment at    *)
(* Symbol.cs:417-421 makes that type a part of the condition.              *)
(***************************************************************************)
VirtualAbove(m) ==
  {v \in Nodes : /\ Kind(v) = "Method" /\ "Virtual" \in Flags(v) /\ Name(v) = Name(m)
                 /\ v \in ToSet(childern[In(v)]) /\ In(v) \in Bases(Base(In(m)))}
Topmost(methods) == CHOOSE v \in methods : \A w \in methods : In(v) \in Bases(In(w))

Fits(v, m) ==
  LET p == InsideOf(v, {"Parameter"})
      q == InsideOf(m, {"Parameter"})
  IN Len(p) = Len(q) /\ \A i \in DOMAIN p : ErrorType \in {type[p[i]], type[q[i]]}
                                           \/ type[p[i]] \in Bases(type[q[i]])

WrongMethods ==
  LET methods(flag) == {m \in Nodes : /\ Kind(m) = "Method" /\ flag \in Flags(m) /\ FromSource(m)
                                      /\ In(m) \in Classes /\ Acyclic(In(m))
                                      /\ m \in ToSet(childern[In(m)])}
  IN {<<"VirtualMethodNameDuplicate", m>> : m \in {m \in methods("Virtual") : VirtualAbove(m) # {}}}
     \cup {<<"NoVirtualMethodToOverride", m>> :
             m \in {m \in methods("Override") : VirtualAbove(m) = {}}}
     \cup {<<"OverrideMethodIncompatible", m>> :
             m \in {m \in methods("Override") :
                      VirtualAbove(m) # {} /\ ~Fits(Topmost(VirtualAbove(m)), m)}}
     \cup IF AllAcyclic THEN {} ELSE {<<"CircleInherit", Global>>}

InheritMessages == {"CircleInherit", "VirtualMethodNameDuplicate", "NoVirtualMethodToOverride",
                    "OverrideMethodIncompatible"}
=============================================================================
