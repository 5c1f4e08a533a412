---------------------------- MODULE PackageReader ----------------------------
(***************************************************************************)
(* How the virtual machine reads a package the compiler wrote              *)
(* (Loader::fromPath, ParseFromIstream and the parsers of backage.pb.cc),  *)
(* one field at a time, and what it makes of it (Loader::createSymbol).    *)
(*                                                                         *)
(* The compiler writes the file in place (Package.ToFile), so a compiler   *)
(* that stops part of the way leaves the first part of it.                 *)
(***************************************************************************)
EXTENDS Backage

CONSTANT Packages      \* the packages a compiler may write

VARIABLES
  sent,       \* the package the compiler wrote
  input,      \* the bytes that are in the file
  at,         \* how many of them have been read
  stack,      \* the messages being read, the innermost first
  result,     \* "reading", "failed", "parsed", and then "created"
  symbols     \* the symbols made of the declarations

vars == <<sent, input, at, stack, result, symbols>>

\* A message being read: its type, what has been read of it, the place where
\* it ends, and the field of the outer message that holds it.
Frame(type, message, limit, field) ==
  [type |-> type, message |-> message, limit |-> limit, field |-> field]

Top == Head(stack)

\* A number of the file is there, after the first p bytes; what it is and
\* where it ends.
NumberIsAt(p) ==
  p < Len(input) /\ (input[p + 1] < 128 \/ p + 1 < Len(input))

NumberAt(p) ==
  IF input[p + 1] < 128 THEN [value |-> input[p + 1], next |-> p + 1]
  ELSE [value |-> input[p + 1] - 128 + 128 * input[p + 2], next |-> p + 2]

RECURSIVE NumbersIn(_, _)
NumbersIn(p, limit) ==
  IF p = limit THEN <<>>
  ELSE <<NumberAt(p).value>> \o NumbersIn(NumberAt(p).next, limit)

BytesOf(p, limit) == SubSeq(input, p + 1, limit)

\* The next field: its tag, where its value begins, and what is expected of a
\* field of its number, if anything is and the tag is as expected.
FieldTag == NumberAt(at).value
FieldValue == NumberAt(at).next
FieldNumber == FieldTag \div 8

FieldKnown ==
  /\ FieldNumber \in DOMAIN Expected[Top.type]
  /\ LET e == Expected[Top.type][FieldNumber]
     IN FieldTag % 256 \in {e.tag, e.unpacked}

FieldEntry == Expected[Top.type][FieldNumber]

\* Where the value of the next field ends; a place after the end of the file
\* if it is cut.
FieldEnd ==
  LET wire == FieldTag % 8
      cut == Len(input) + 1
  IN CASE wire = VARINT ->
            IF NumberIsAt(FieldValue) THEN NumberAt(FieldValue).next ELSE cut
       [] wire = DELIMITED ->
            IF NumberIsAt(FieldValue)
            THEN NumberAt(FieldValue).next + NumberAt(FieldValue).value ELSE cut
       [] wire = FIXED64 -> FieldValue + 8
       [] wire = FIXED32 -> FieldValue + 4

\* There is a field to read.  A tag of 0, or the end of a group, ends the
\* message in the wrong place.
FieldIsNext ==
  /\ result = "reading"
  /\ at # Top.limit
  /\ NumberIsAt(at)
  /\ FieldTag # 0
  /\ FieldTag % 8 \in {VARINT, DELIMITED, FIXED64, FIXED32}

WholeField == FieldIsNext /\ FieldEnd <= Len(input)

SetField(f, value) ==
  /\ stack' = [stack EXCEPT ![1].message[f] = value]
  /\ at' = FieldEnd
  /\ UNCHANGED <<sent, input, result, symbols>>

-----------------------------------------------------------------------------
Init ==
  /\ sent \in Packages
  /\ \E n \in 0..Len(Written("Package", sent)) :
       /\ input = SubSeq(Written("Package", sent), 1, n)
       /\ stack = << Frame("Package", Package, n, "") >>
  /\ at = 0
  /\ result = "reading"
  /\ symbols = <<>>

\* A number.
ReadVarint ==
  /\ WholeField /\ FieldKnown /\ FieldEntry.how = "varint"
  /\ SetField(FieldEntry.field, NumberAt(FieldValue).value)

\* A string, or the value of an optional field.  The check that a string is UTF-8
\* (VerifyUTF8) is left out: the compiler writes nothing else, and a string that is
\* cut is not read at all.
ReadBytes ==
  /\ WholeField /\ FieldKnown /\ FieldEntry.how \in {"bytes", "optional"}
  /\ LET bytes == BytesOf(NumberAt(FieldValue).next, FieldEnd)
     IN SetField(FieldEntry.field,
                 IF FieldEntry.how = "bytes" THEN bytes ELSE <<bytes>>)

\* Numbers, packed into one field or the next of those with a field each.
ReadPacked ==
  /\ WholeField /\ FieldKnown /\ FieldEntry.how = "packed"
  /\ LET f == FieldEntry.field
         first == IF FieldTag % 256 = FieldEntry.tag
                  THEN NumberAt(FieldValue).next ELSE FieldValue
     IN SetField(f, Top.message[f] \o NumbersIn(first, FieldEnd))

\* _internal_mutable_X: the member of a oneof, which is made if another one or
\* none is set.
Mutable(type, message, f, of) ==
  LET group == IF type = "TokenDefinition" THEN definition ELSE Member
  IN IF message[f] # <<>> THEN message
     ELSE [g \in DOMAIN message |->
             IF g = f THEN << Cleared[of] >>
             ELSE IF g \in group THEN <<>> ELSE message[g]]

\* _internal_add_X: a new message at the end of a field.
Added(message, f, of) == [message EXCEPT ![f] = Append(@, Cleared[of])]

\* ParseMessage: a message of a field is read up to its own limit.
BeginMessage ==
  /\ FieldIsNext /\ FieldKnown /\ FieldEntry.how \in {"each", "oneof"}
  /\ NumberIsAt(FieldValue)
  /\ LET e == FieldEntry
         length == NumberAt(FieldValue)
         holder == IF e.how = "each" THEN Added(Top.message, e.field, e.of)
                   ELSE Mutable(Top.type, Top.message, e.field, e.of)
     IN /\ stack' = << Frame(e.of, Last(holder[e.field]),
                             length.next + length.value, e.field) >>
                      \o [stack EXCEPT ![1].message = holder]
        /\ at' = length.next
  /\ UNCHANGED <<sent, input, result, symbols>>

EndMessage ==
  /\ result = "reading"
  /\ Len(stack) > 1
  /\ at = Top.limit
  /\ LET holder == stack[2].message[Top.field]
     IN stack' = [Tail(stack) EXCEPT ![1].message[Top.field] =
                    [holder EXCEPT ![Len(holder)] = Top.message]]
  /\ UNCHANGED <<sent, input, at, result, symbols>>

\* UnknownFieldParse: a field that is not expected is kept as it is.
KeepUnknown ==
  /\ WholeField /\ ~FieldKnown
  /\ SetField("unknown", Top.message.unknown \o BytesOf(at, FieldEnd))

\* The file ends where a field of the package ends.
EndPackage ==
  /\ result = "reading"
  /\ Len(stack) = 1
  /\ at = Top.limit
  /\ result' = "parsed"
  /\ UNCHANGED <<sent, input, at, stack, symbols>>

\* The file ends inside a field, or inside an inner message: fromPath throws.
Fail ==
  /\ result = "reading"
  /\ at # Top.limit
  /\ \/ ~FieldIsNext
     \/ FieldIsNext /\ FieldKnown /\ FieldEntry.how \in {"each", "oneof"}
                    /\ ~NumberIsAt(FieldValue)
     \/ FieldIsNext /\ ~(FieldKnown /\ FieldEntry.how \in {"each", "oneof"})
                    /\ FieldEnd > Len(input)
  /\ result' = "failed"
  /\ UNCHANGED <<sent, input, at, stack, symbols>>

-----------------------------------------------------------------------------
\* loadTokenFromTokenDecl: the tokens of a package, by their places.
TokenOf(def) ==
  IF def.textToken # <<>> THEN [kind |-> "text", of |-> def.textToken[1].text]
  ELSE IF def.constructedToken # <<>>
  THEN [kind |-> "constructed", of |-> def.constructedToken[1].tokens]
  ELSE [kind |-> "array", of |-> << def.arrayToken[1].typeToken >>]

\* The name of a symbol: the text of a token of the table, found by its place.
NameOf(table, token) == table[token].of

\* The symbols that createSymbol makes of the members of a declaration.
Kind == [moduleDecl |-> "Module", classDecl |-> "Class", recordDecl |-> "Record",
         enumDecl |-> "Enumeration", varaibleDecl |-> "Variable",
         methodDecl |-> "Method", foreignEntryDecl |-> "ForeignEntry",
         ctorDecl |-> "Ctor"]

Nested(decl) ==
  CASE decl.moduleDecl # <<>> -> decl.moduleDecl[1].declarations
    [] decl.classDecl # <<>>  -> decl.classDecl[1].declarations
    [] decl.recordDecl # <<>> -> decl.recordDecl[1].declarations
    [] OTHER -> <<>>

\* A declaration, and all in it, are of the kinds that the virtual machine knows.
RECURSIVE KindKnown(_)
KindKnown(decl) ==
  /\ \E f \in DOMAIN Kind : decl[f] # <<>>
  /\ \A i \in DOMAIN Nested(decl) : KindKnown(Nested(decl)[i])

\* Neither loadTokenFromTokenDecl nor createSymbol throws.
KindsKnown(package) ==
  /\ \A i \in DOMAIN package.tokens : \E f \in definition : package.tokens[i][f] # <<>>
  /\ \A i \in DOMAIN package.declarations : KindKnown(package.declarations[i])

Symbol(kind, name, decl, childern) ==
  [kind |-> kind, name |-> name, decl |-> decl, childern |-> childern]

\* createSymbol, of a declaration of its own copy.  Every loop over
\* declarations copies each one, and a symbol keeps a copy of its message; a
\* module keeps none.
RECURSIVE SymbolOf(_, _)
SymbolOf(declaration, table) ==
  LET decl == Copied("Declaration", declaration)
      nested == Nested(decl)
      childern == [i \in DOMAIN nested |-> SymbolOf(nested[i], table)]
      Named(kind, type, message, of) ==
        Symbol(kind, NameOf(table, message.nameToken), Copied(type, message), of)
  IN CASE decl.moduleDecl # <<>> ->
            Symbol("Module", NameOf(table, decl.moduleDecl[1].nameToken), <<>>, childern)
       [] decl.classDecl # <<>> ->
            Named("Class", "ClassDecl", decl.classDecl[1], childern)
       [] decl.enumDecl # <<>> ->
            Named("Enumeration", "EnumDecl", decl.enumDecl[1],
              [i \in DOMAIN decl.enumDecl[1].constants |->
                 LET constant == Copied("EnumConstant", decl.enumDecl[1].constants[i])
                 IN Named("EnumConstant", "EnumConstant", constant, <<>>)])
       [] decl.recordDecl # <<>> ->
            Named("Record", "RecordDecl", decl.recordDecl[1], childern)
       [] decl.varaibleDecl # <<>> ->
            Named("Variable", "VariableDecl", decl.varaibleDecl[1], <<>>)
       [] decl.methodDecl # <<>> ->
            Named("Method", "MethodDecl", decl.methodDecl[1], <<>>)
       [] decl.foreignEntryDecl # <<>> ->
            Named("ForeignEntry", "ForeignEntryDecl", decl.foreignEntryDecl[1], <<>>)
       [] decl.ctorDecl # <<>> ->
            Symbol("Ctor", <<>>, Copied("CtorDecl", decl.ctorDecl[1]), <<>>)

\* load, once the package is read: its tokens, then a symbol for each of its
\* declarations.
CreateSymbols ==
  /\ result = "parsed"
  /\ KindsKnown(Top.message)
  /\ LET package == Top.message
         table == [i \in DOMAIN package.tokens |->
                     TokenOf(Copied("TokenDefinition", package.tokens[i]))]
     IN symbols' = [i \in DOMAIN package.declarations |->
                      SymbolOf(package.declarations[i], table)]
  /\ result' = "created"
  /\ UNCHANGED <<sent, input, at, stack>>

\* A token or a declaration of a newer compiler's kind: load throws.
Refuse ==
  /\ result = "parsed"
  /\ ~KindsKnown(Top.message)
  /\ result' = "refused"
  /\ UNCHANGED <<sent, input, at, stack, symbols>>

Done ==
  /\ result \in {"failed", "created", "refused"}
  /\ UNCHANGED vars

Next ==
  \/ ReadVarint \/ ReadBytes \/ ReadPacked
  \/ BeginMessage \/ EndMessage \/ KeepUnknown
  \/ EndPackage \/ Fail \/ CreateSymbols \/ Refuse \/ Done

Spec == Init /\ [][Next]_vars

-----------------------------------------------------------------------------
(***************************************************************************)
(* What reading a package promises, and mutants of the messages.           *)
(***************************************************************************)

Read == result \in {"parsed", "created", "refused"}

\* A file the parser accepts holds exactly the message it made: writing that
\* message gives the file again, byte for byte, with the fields a newer
\* compiler added, the optional fields that are set but empty and the members
\* of a oneof that have nothing in them; and a whole file is accepted and gives
\* the package that was written.  So the twenty parsers, writers and sizes of
\* backage.pb.cc agree with each other, and with those of the compiler.
RoundTrip ==
  /\ Read => Written("Package", Top.message) = input
  /\ input = Written("Package", sent) =>
       result # "failed" /\ (Read => Top.message = sent)

\* A file that was cut may be accepted, when it ends where a field of the
\* package ends (Loader::fromPath has no other check), but it then has no
\* identity: the compiler's fields are written in the order of their numbers,
\* so a package with an identity has all its tokens and its declarations.
IdentityMeansComplete ==
  Read /\ Top.message.identity # <<>> =>
    \A f \in {"dependencies", "tokens", "declarations"} :
      Top.message[f] = sent[f]

\* What the symbols keep, in the order the declarations are nested in.
RECURSIVE Kept(_)
Kept(symbol) ==
  << <<symbol.kind, symbol.name, symbol.decl>> >>
    \o FlattenSeq([i \in DOMAIN symbol.childern |-> Kept(symbol.childern[i])])

Text(token) == sent.tokens[token].textToken[1].text

\* The same, of a declaration that was sent.
RECURSIVE Declared(_)
Declared(d) ==
  LET member == CHOOSE f \in DOMAIN Kind : d[f] # <<>>
      m == d[member][1]
      nested == IF member \in {"moduleDecl", "classDecl", "recordDecl"}
                THEN m.declarations ELSE <<>>
      constants == IF member = "enumDecl" THEN m.constants ELSE <<>>
  IN << <<Kind[member],
          IF member = "ctorDecl" THEN <<>> ELSE Text(m.nameToken),
          IF member = "moduleDecl" THEN <<>> ELSE m>> >>
     \o FlattenSeq([i \in DOMAIN nested |-> Declared(nested[i])])
     \o [i \in DOMAIN constants |->
           <<"EnumConstant", Text(constants[i].nameToken), constants[i]>>]

\* The symbols of a package have the names and the whole declarations the
\* compiler wrote, however deep: every declaration is copied on its way down
\* (Loader::createSymbol takes each from a loop that copies, and the symbol
\* copies its message again), and no copy loses a field.
SymbolsKeepDeclarations ==
  result = "created" =>
    LET n == Len(symbols)
    IN FlattenSeq([i \in 1..n |-> Kept(symbols[i])])
         = FlattenSeq([i \in 1..n |-> Declared(sent.declarations[i])])
=============================================================================
