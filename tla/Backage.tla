------------------------------ MODULE Backage -------------------------------
(***************************************************************************)
(* The messages a compiled package is made of (backage.proto), as the      *)
(* virtual machine's evm/backage.pb.cc has them: for each type of message, *)
(* a new message (SharedCtor), the fields its parser expects               *)
(* (_InternalParse), how it is written (_InternalSerialize) and how many   *)
(* bytes that takes (ByteSizeLong), how one is merged into another         *)
(* (MergeImpl) and how one is copied (the copy constructor).  The compiler *)
(* writes packages with ebc/Backage.cs, made from the same backage.proto:  *)
(* the same fields, in the same order, under the same conditions.          *)
(*                                                                         *)
(* A message is a record.  A number is itself; a string is a sequence of   *)
(* bytes; an optional field, or a member of a oneof, is the sequence of    *)
(* its value if it is set and is empty if not; a repeated field is a       *)
(* sequence.  "unknown" holds the bytes of the fields the type does not    *)
(* have.  The order of the fields is the order of the code.                *)
(***************************************************************************)
EXTENDS Naturals, SequencesExt

-----------------------------------------------------------------------------
(***************************************************************************)
(* The bytes protobuf writes, from how evm/backage.pb.cc uses the library: *)
(* numbers of one or more bytes, tags, and values with their length before *)
(* them.                                                                   *)
(***************************************************************************)

Byte == 0..255

\* The wire types of the library; a parser of the schema takes the first two.
VARINT == 0
DELIMITED == 2
FIXED64 == 1
FIXED32 == 5

\* The largest number of the model: one that takes two bytes.
MaxNumber == 2^14 - 1

\* A number, seven bits a byte, the low ones first; all but the last byte have
\* the high bit.
VarintOf(n) == IF n < 128 THEN <<n>> ELSE << (n % 128) + 128, n \div 128 >>
VarintSize(n) == IF n < 128 THEN 1 ELSE 2
VarintsOf(values) == FlattenSeq([i \in DOMAIN values |-> VarintOf(values[i])])

Tag(number, wire) == VarintOf(8 * number + wire)

\* Bytes after their length.
Delimited(bytes) == VarintOf(Len(bytes)) \o bytes
DelimitedSize(length) == VarintSize(length) + length

SumSeq(s) == FoldLeft(LAMBDA a, b : a + b, 0, s)

-----------------------------------------------------------------------------
(* New messages: SharedCtor. *)

\* A package this one is built on.
Dependency == [text |-> <<>>, unknown |-> <<>>]

\* The full name of a symbol, or a plain name.
TextToken == [text |-> <<>>, unknown |-> <<>>]

\* A type built from other tokens.
ConstructedToken == [tokens |-> <<>>, unknown |-> <<>>]

\* The array type over another token.
ArrayToken == [typeToken |-> 0, unknown |-> <<>>]

\* What a token stands for: one of three members of the oneof "definition".
TokenDefinition == [id |-> 0, textToken |-> <<>>, constructedToken |-> <<>>,
                    arrayToken |-> <<>>, unknown |-> <<>>]

\* A compiled package: what is in a .bkg file.
Package == [dependencies |-> <<>>, tokens |-> <<>>, declarations |-> <<>>,
            identity |-> <<>>, version |-> 0, unknown |-> <<>>]

\* A declaration: one of nine members of the oneof "Member".
Declaration == [classDecl |-> <<>>, recordDecl |-> <<>>, enumDecl |-> <<>>,
                enumConstant |-> <<>>, varaibleDecl |-> <<>>,
                moduleDecl |-> <<>>, methodDecl |-> <<>>, ctorDecl |-> <<>>,
                foreignEntryDecl |-> <<>>, unknown |-> <<>>]

\* A class.
ClassDecl == [implToken |-> <<>>, declarations |-> <<>>, flag |-> 0,
              nameToken |-> 0, baseToken |-> 0, unknown |-> <<>>]

\* A record.
RecordDecl == [declarations |-> <<>>, flag |-> 0, nameToken |-> 0,
               unknown |-> <<>>]

\* An enumeration.
EnumDecl == [constants |-> <<>>, flag |-> 0, nameToken |-> 0,
             unknown |-> <<>>]

\* A constant of an enumeration.
EnumConstant == [nameToken |-> 0, value |-> 0, unknown |-> <<>>]

\* A field or a global variable.
VariableDecl == [initial |-> <<>>, flag |-> 0, nameToken |-> 0,
                 typeToken |-> 0, unknown |-> <<>>]

\* A parameter; only an optional one has an initial value.
ParameterDecl == [initial |-> <<>>, flag |-> 0, nameToken |-> 0,
                  typeToken |-> 0, unknown |-> <<>>]

\* A module.
ModuleDecl == [declarations |-> <<>>, flag |-> 0, nameToken |-> 0,
               unknown |-> <<>>]

\* The type of a local variable.
LocalIndex == [id |-> 0, typeToken |-> 0, unknown |-> <<>>]

\* A method.
MethodDecl == [params |-> <<>>, localIndex |-> <<>>, lineNumbers |-> <<>>,
               exceptionEntry |-> <<>>, block |-> <<>>, flag |-> 0,
               nameToken |-> 0, retTypeToken |-> 0, unknown |-> <<>>]

\* A constructor.
CtorDecl == [params |-> <<>>, localIndex |-> <<>>, lineNumbers |-> <<>>,
             exceptionEntry |-> <<>>, block |-> <<>>, flag |-> 0,
             unknown |-> <<>>]

\* A function of a foreign library.
ForeignEntryDecl == [params |-> <<>>, block |-> <<>>, lib |-> <<>>,
                     alias |-> <<>>, flag |-> 0, nameToken |-> 0,
                     retTypeToken |-> 0, unknown |-> <<>>]

\* An entry of a line number table.
LineNumber == [line |-> 0, offset |-> 0, unknown |-> <<>>]

\* An entry of an exception table.
ExceptionEntry == [offset |-> 0, length |-> 0, target |-> 0, typeToken |-> 0,
                   unknown |-> <<>>]

\* A new message of each type.
Cleared ==
  [Dependency |-> Dependency, TextToken |-> TextToken,
   ConstructedToken |-> ConstructedToken, ArrayToken |-> ArrayToken,
   TokenDefinition |-> TokenDefinition, Package |-> Package,
   Declaration |-> Declaration, ClassDecl |-> ClassDecl,
   RecordDecl |-> RecordDecl, EnumDecl |-> EnumDecl,
   EnumConstant |-> EnumConstant, VariableDecl |-> VariableDecl,
   ParameterDecl |-> ParameterDecl, ModuleDecl |-> ModuleDecl,
   LocalIndex |-> LocalIndex, MethodDecl |-> MethodDecl,
   CtorDecl |-> CtorDecl, ForeignEntryDecl |-> ForeignEntryDecl,
   LineNumber |-> LineNumber, ExceptionEntry |-> ExceptionEntry]

-----------------------------------------------------------------------------
\* An entry of what a parser expects: the tag it takes, the second tag it
\* takes (for numbers that may be packed or not), how it reads the value, the
\* field it puts it in, and the type of message that field holds.
Entry(tag, unpacked, how, field, of) ==
  [tag |-> tag, unpacked |-> unpacked, how |-> how, field |-> field, of |-> of]
Varint(tag, field) == Entry(tag, tag, "varint", field, "")
Bytes(tag, field) == Entry(tag, tag, "bytes", field, "")
Optional(tag, field) == Entry(tag, tag, "optional", field, "")
Packed(tag, unpacked, field) == Entry(tag, unpacked, "packed", field, "")
Each(tag, field, of) == Entry(tag, tag, "each", field, of)
OneOf(tag, field, of) == Entry(tag, tag, "oneof", field, of)

\* Fields as they are written, nothing if they have their default value.
WriteUInt(number, value) ==
  IF value = 0 THEN <<>> ELSE Tag(number, VARINT) \o VarintOf(value)

WriteBytes(number, bytes) ==
  IF bytes = <<>> THEN <<>> ELSE Tag(number, DELIMITED) \o Delimited(bytes)

WriteOptional(number, field) ==
  IF field = <<>> THEN <<>> ELSE Tag(number, DELIMITED) \o Delimited(field[1])

WritePacked(number, values) ==
  IF values = <<>> THEN <<>>
  ELSE Tag(number, DELIMITED) \o Delimited(VarintsOf(values))

\* InternalWriteMessage, for each message of a field: its tag, the size
\* ByteSizeLong found before anything was written, and the message.
WriteMessages(number, messages) ==
  FlattenSeq([i \in DOMAIN messages |->
    Tag(number, DELIMITED) \o VarintOf(messages[i].size) \o messages[i].bytes])

\* How many bytes they take; every tag of the schema is one byte.
UIntSize(value) == IF value = 0 THEN 0 ELSE 1 + VarintSize(value)
BytesSize(bytes) == IF bytes = <<>> THEN 0 ELSE 1 + DelimitedSize(Len(bytes))
OptionalSize(field) ==
  IF field = <<>> THEN 0 ELSE 1 + DelimitedSize(Len(field[1]))
PackedSize(values) ==
  IF values = <<>> THEN 0 ELSE 1 + DelimitedSize(Len(VarintsOf(values)))
MessagesSize(sizes) ==
  SumSeq([i \in DOMAIN sizes |-> 1 + DelimitedSize(sizes[i])])

\* Fields as they are merged.
UnlessZero(to, from) == IF from = 0 THEN to ELSE from
UnlessEmpty(to, from) == IF from = <<>> THEN to ELSE from

\* A member of a oneof: the one "from" has, merged into the same member of "to",
\* replaces it; "to" loses any other one ("set": "from" has a member).
MergedMember(to, merged, set) ==
  IF merged # <<>> THEN merged ELSE IF set THEN <<>> ELSE to

-----------------------------------------------------------------------------
\* Dependency: parsed, written, its size, merged, copied.
ParseDependency == << Bytes(10, "text") >>

WriteDependency(m) ==
  WriteBytes(1, m.text)

SizeDependency(m) ==
  BytesSize(m.text)

MergeDependency(to, from) ==
  [text |-> UnlessEmpty(to.text, from.text),
   unknown |-> to.unknown \o from.unknown]

CopyDependency(from) ==
  [text |-> from.text, unknown |-> from.unknown]

\* TextToken: parsed, written, its size, merged, copied.
ParseTextToken == << Bytes(10, "text") >>

WriteTextToken(m) ==
  WriteBytes(1, m.text)

SizeTextToken(m) ==
  BytesSize(m.text)

MergeTextToken(to, from) ==
  [text |-> UnlessEmpty(to.text, from.text),
   unknown |-> to.unknown \o from.unknown]

CopyTextToken(from) ==
  [text |-> from.text, unknown |-> from.unknown]

\* ConstructedToken: parsed, written, its size, merged, copied.
ParseConstructedToken == << Packed(10, 8, "tokens") >>

WriteConstructedToken(m) ==
  WritePacked(1, m.tokens)

SizeConstructedToken(m) ==
  PackedSize(m.tokens)

MergeConstructedToken(to, from) ==
  [tokens |-> to.tokens \o from.tokens,
   unknown |-> to.unknown \o from.unknown]

CopyConstructedToken(from) ==
  [tokens |-> from.tokens,
   unknown |-> from.unknown]

\* ArrayToken: parsed, written, its size, merged, copied.
ParseArrayToken == << Varint(8, "typeToken") >>

WriteArrayToken(m) ==
  WriteUInt(1, m.typeToken)

SizeArrayToken(m) ==
  UIntSize(m.typeToken)

MergeArrayToken(to, from) ==
  [typeToken |-> UnlessZero(to.typeToken, from.typeToken),
   unknown |-> to.unknown \o from.unknown]

CopyArrayToken(from) ==
  [typeToken |-> from.typeToken,
   unknown |-> from.unknown]

\* TokenDefinition: parsed, written, its size, merged, copied.
ParseTokenDefinition ==
  << Varint(8, "id"),
     OneOf(18, "textToken", "TextToken"),
     OneOf(26, "constructedToken", "ConstructedToken"),
     OneOf(34, "arrayToken", "ArrayToken") >>

WriteTokenDefinition(m, inner) ==
  WriteUInt(1, m.id)
    \o WriteMessages(2, inner.textToken)
    \o WriteMessages(3, inner.constructedToken)
    \o WriteMessages(4, inner.arrayToken)

SizeTokenDefinition(m, inner) ==
  UIntSize(m.id)
    + MessagesSize(inner.textToken)
    + MessagesSize(inner.constructedToken)
    + MessagesSize(inner.arrayToken)

\* The members of the oneof, one of which is set at most.
definition == {"textToken", "constructedToken", "arrayToken"}

MergeTokenDefinition(to, from, inner) ==
  LET set == \E f \in definition : from[f] # <<>>
  IN [id |-> UnlessZero(to.id, from.id),
      textToken |->
        MergedMember(to.textToken, inner.textToken, set),
      constructedToken |->
        MergedMember(to.constructedToken, inner.constructedToken, set),
      arrayToken |->
        MergedMember(to.arrayToken, inner.arrayToken, set),
      unknown |-> to.unknown \o from.unknown]

CopyTokenDefinition(from, inner) ==
  [id |-> from.id,
   textToken |-> inner.textToken,
   constructedToken |-> inner.constructedToken,
   arrayToken |-> inner.arrayToken,
   unknown |-> from.unknown]

\* Package: parsed, written, its size, merged, copied.
ParsePackage ==
  << Each(10, "dependencies", "Dependency"),
     Each(18, "tokens", "TokenDefinition"),
     Each(26, "declarations", "Declaration"), Bytes(34, "identity"),
     Varint(40, "version") >>

\* Mutant: the identity is written first.
WritePackage_IdentityFirst(m, inner) ==
  WriteBytes(4, m.identity) \o
  WriteMessages(1, inner.dependencies)
    \o WriteMessages(2, inner.tokens)
    \o WriteMessages(3, inner.declarations)
    \o WriteUInt(5, m.version)

WritePackage(m, inner) ==
  WriteMessages(1, inner.dependencies)
    \o WriteMessages(2, inner.tokens)
    \o WriteMessages(3, inner.declarations)
    \o WriteBytes(4, m.identity) \o WriteUInt(5, m.version)

SizePackage(m, inner) ==
  MessagesSize(inner.dependencies)
    + MessagesSize(inner.tokens)
    + MessagesSize(inner.declarations) + BytesSize(m.identity)
    + UIntSize(m.version)

MergePackage(to, from, inner) ==
  [dependencies |-> to.dependencies \o inner.dependencies,
   tokens |-> to.tokens \o inner.tokens,
   declarations |-> to.declarations \o inner.declarations,
   identity |-> UnlessEmpty(to.identity, from.identity),
   version |-> UnlessZero(to.version, from.version),
   unknown |-> to.unknown \o from.unknown]

CopyPackage(from, inner) ==
  [dependencies |-> inner.dependencies,
   tokens |-> inner.tokens,
   declarations |-> inner.declarations,
   identity |-> from.identity, version |-> from.version,
   unknown |-> from.unknown]

\* Declaration: parsed, written, its size, merged, copied.
ParseDeclaration ==
  << OneOf(10, "classDecl", "ClassDecl"),
     OneOf(18, "recordDecl", "RecordDecl"),
     OneOf(26, "enumDecl", "EnumDecl"),
     OneOf(34, "enumConstant", "EnumConstant"),
     OneOf(42, "varaibleDecl", "VariableDecl"),
     OneOf(50, "moduleDecl", "ModuleDecl"),
     OneOf(58, "methodDecl", "MethodDecl"),
     OneOf(66, "ctorDecl", "CtorDecl"),
     OneOf(74, "foreignEntryDecl", "ForeignEntryDecl") >>

WriteDeclaration(m, inner) ==
  WriteMessages(1, inner.classDecl)
    \o WriteMessages(2, inner.recordDecl)
    \o WriteMessages(3, inner.enumDecl)
    \o WriteMessages(4, inner.enumConstant)
    \o WriteMessages(5, inner.varaibleDecl)
    \o WriteMessages(6, inner.moduleDecl)
    \o WriteMessages(7, inner.methodDecl)
    \o WriteMessages(8, inner.ctorDecl)
    \o WriteMessages(9, inner.foreignEntryDecl)

SizeDeclaration(m, inner) ==
  MessagesSize(inner.classDecl)
    + MessagesSize(inner.recordDecl)
    + MessagesSize(inner.enumDecl)
    + MessagesSize(inner.enumConstant)
    + MessagesSize(inner.varaibleDecl)
    + MessagesSize(inner.moduleDecl)
    + MessagesSize(inner.methodDecl)
    + MessagesSize(inner.ctorDecl)
    + MessagesSize(inner.foreignEntryDecl)

\* The members of the oneof, one of which is set at most.
Member == {"classDecl", "recordDecl", "enumDecl", "enumConstant",
           "varaibleDecl", "moduleDecl", "methodDecl", "ctorDecl",
           "foreignEntryDecl"}

MergeDeclaration(to, from, inner) ==
  LET set == \E f \in Member : from[f] # <<>>
  IN [classDecl |->
        MergedMember(to.classDecl, inner.classDecl, set),
      recordDecl |->
        MergedMember(to.recordDecl, inner.recordDecl, set),
      enumDecl |->
        MergedMember(to.enumDecl, inner.enumDecl, set),
      enumConstant |->
        MergedMember(to.enumConstant, inner.enumConstant, set),
      varaibleDecl |->
        MergedMember(to.varaibleDecl, inner.varaibleDecl, set),
      moduleDecl |->
        MergedMember(to.moduleDecl, inner.moduleDecl, set),
      methodDecl |->
        MergedMember(to.methodDecl, inner.methodDecl, set),
      ctorDecl |->
        MergedMember(to.ctorDecl, inner.ctorDecl, set),
      foreignEntryDecl |->
        MergedMember(to.foreignEntryDecl, inner.foreignEntryDecl, set),
      unknown |-> to.unknown \o from.unknown]

CopyDeclaration(from, inner) ==
  [classDecl |-> inner.classDecl,
   recordDecl |-> inner.recordDecl,
   enumDecl |-> inner.enumDecl,
   enumConstant |-> inner.enumConstant,
   varaibleDecl |-> inner.varaibleDecl,
   moduleDecl |-> inner.moduleDecl,
   methodDecl |-> inner.methodDecl,
   ctorDecl |-> inner.ctorDecl,
   foreignEntryDecl |-> inner.foreignEntryDecl,
   unknown |-> from.unknown]

\* ClassDecl: parsed, written, its size, merged, copied.
ParseClassDecl ==
  << Varint(8, "flag"), Varint(16, "nameToken"),
     Varint(24, "baseToken"), Packed(34, 32, "implToken"),
     Each(42, "declarations", "Declaration") >>

WriteClassDecl(m, inner) ==
  WriteUInt(1, m.flag) \o WriteUInt(2, m.nameToken)
    \o WriteUInt(3, m.baseToken) \o WritePacked(4, m.implToken)
    \o WriteMessages(5, inner.declarations)

SizeClassDecl(m, inner) ==
  PackedSize(m.implToken)
    + MessagesSize(inner.declarations) + UIntSize(m.flag)
    + UIntSize(m.nameToken) + UIntSize(m.baseToken)

MergeClassDecl(to, from, inner) ==
  [implToken |-> to.implToken \o from.implToken,
   declarations |-> to.declarations \o inner.declarations,
   flag |-> UnlessZero(to.flag, from.flag),
   nameToken |-> UnlessZero(to.nameToken, from.nameToken),
   baseToken |-> UnlessZero(to.baseToken, from.baseToken),
   unknown |-> to.unknown \o from.unknown]

CopyClassDecl(from, inner) ==
  [implToken |-> from.implToken,
   declarations |-> inner.declarations,
   flag |-> from.flag, nameToken |-> from.nameToken,
   baseToken |-> from.baseToken, unknown |-> from.unknown]

\* RecordDecl: parsed, written, its size, merged, copied.
ParseRecordDecl ==
  << Varint(8, "flag"), Varint(16, "nameToken"),
     Each(26, "declarations", "Declaration") >>

WriteRecordDecl(m, inner) ==
  WriteUInt(1, m.flag) \o WriteUInt(2, m.nameToken)
    \o WriteMessages(3, inner.declarations)

SizeRecordDecl(m, inner) ==
  MessagesSize(inner.declarations)
    + UIntSize(m.flag) + UIntSize(m.nameToken)

MergeRecordDecl(to, from, inner) ==
  [declarations |-> to.declarations \o inner.declarations,
   flag |-> UnlessZero(to.flag, from.flag),
   nameToken |-> UnlessZero(to.nameToken, from.nameToken),
   unknown |-> to.unknown \o from.unknown]

CopyRecordDecl(from, inner) ==
  [declarations |-> inner.declarations,
   flag |-> from.flag, nameToken |-> from.nameToken, unknown |-> from.unknown]

\* EnumDecl: parsed, written, its size, merged, copied.
ParseEnumDecl ==
  << Varint(8, "flag"), Varint(16, "nameToken"),
     Each(26, "constants", "EnumConstant") >>

WriteEnumDecl(m, inner) ==
  WriteUInt(1, m.flag) \o WriteUInt(2, m.nameToken)
    \o WriteMessages(3, inner.constants)

SizeEnumDecl(m, inner) ==
  MessagesSize(inner.constants)
    + UIntSize(m.flag) + UIntSize(m.nameToken)

MergeEnumDecl(to, from, inner) ==
  [constants |-> to.constants \o inner.constants,
   flag |-> UnlessZero(to.flag, from.flag),
   nameToken |-> UnlessZero(to.nameToken, from.nameToken),
   unknown |-> to.unknown \o from.unknown]

CopyEnumDecl(from, inner) ==
  [constants |-> inner.constants,
   flag |-> from.flag, nameToken |-> from.nameToken, unknown |-> from.unknown]

\* EnumConstant: parsed, written, its size, merged, copied.
ParseEnumConstant ==
  << Varint(8, "nameToken"), Varint(16, "value") >>

WriteEnumConstant(m) ==
  WriteUInt(1, m.nameToken) \o WriteUInt(2, m.value)

SizeEnumConstant(m) ==
  UIntSize(m.nameToken) + UIntSize(m.value)

MergeEnumConstant(to, from) ==
  [nameToken |-> UnlessZero(to.nameToken, from.nameToken),
   value |-> UnlessZero(to.value, from.value),
   unknown |-> to.unknown \o from.unknown]

CopyEnumConstant(from) ==
  [nameToken |-> from.nameToken,
   value |-> from.value, unknown |-> from.unknown]

\* VariableDecl: parsed, written, its size, merged, copied.
ParseVariableDecl ==
  << Varint(8, "flag"), Varint(16, "nameToken"),
     Varint(24, "typeToken"), Optional(34, "initial") >>

WriteVariableDecl(m) ==
  WriteUInt(1, m.flag) \o WriteUInt(2, m.nameToken)
    \o WriteUInt(3, m.typeToken) \o WriteOptional(4, m.initial)

SizeVariableDecl(m) ==
  OptionalSize(m.initial) + UIntSize(m.flag)
    + UIntSize(m.nameToken) + UIntSize(m.typeToken)

MergeVariableDecl(to, from) ==
  [initial |-> UnlessEmpty(to.initial, from.initial),
   flag |-> UnlessZero(to.flag, from.flag),
   nameToken |-> UnlessZero(to.nameToken, from.nameToken),
   typeToken |-> UnlessZero(to.typeToken, from.typeToken),
   unknown |-> to.unknown \o from.unknown]

\* Mutant: the initial value is left as it is in a new message.
CopyVariableDecl_NoInitial(from) ==
  [initial |-> <<>>, flag |-> from.flag,
   nameToken |-> from.nameToken, typeToken |-> from.typeToken,
   unknown |-> from.unknown]

CopyVariableDecl(from) ==
  [initial |-> from.initial, flag |-> from.flag,
   nameToken |-> from.nameToken, typeToken |-> from.typeToken,
   unknown |-> from.unknown]

\* ParameterDecl: parsed, written, its size, merged, copied.
ParseParameterDecl ==
  << Varint(8, "flag"), Varint(16, "nameToken"),
     Varint(24, "typeToken"), Optional(34, "initial") >>

WriteParameterDecl(m) ==
  WriteUInt(1, m.flag) \o WriteUInt(2, m.nameToken)
    \o WriteUInt(3, m.typeToken) \o WriteOptional(4, m.initial)

SizeParameterDecl(m) ==
  OptionalSize(m.initial) + UIntSize(m.flag)
    + UIntSize(m.nameToken) + UIntSize(m.typeToken)

MergeParameterDecl(to, from) ==
  [initial |-> UnlessEmpty(to.initial, from.initial),
   flag |-> UnlessZero(to.flag, from.flag),
   nameToken |-> UnlessZero(to.nameToken, from.nameToken),
   typeToken |-> UnlessZero(to.typeToken, from.typeToken),
   unknown |-> to.unknown \o from.unknown]

CopyParameterDecl(from) ==
  [initial |-> from.initial, flag |-> from.flag,
   nameToken |-> from.nameToken, typeToken |-> from.typeToken,
   unknown |-> from.unknown]

\* ModuleDecl: parsed, written, its size, merged, copied.
ParseModuleDecl ==
  << Varint(8, "flag"), Varint(16, "nameToken"),
     Each(26, "declarations", "Declaration") >>

WriteModuleDecl(m, inner) ==
  WriteUInt(1, m.flag) \o WriteUInt(2, m.nameToken)
    \o WriteMessages(3, inner.declarations)

SizeModuleDecl(m, inner) ==
  MessagesSize(inner.declarations)
    + UIntSize(m.flag) + UIntSize(m.nameToken)

MergeModuleDecl(to, from, inner) ==
  [declarations |-> to.declarations \o inner.declarations,
   flag |-> UnlessZero(to.flag, from.flag),
   nameToken |-> UnlessZero(to.nameToken, from.nameToken),
   unknown |-> to.unknown \o from.unknown]

CopyModuleDecl(from, inner) ==
  [declarations |-> inner.declarations,
   flag |-> from.flag, nameToken |-> from.nameToken, unknown |-> from.unknown]

\* LocalIndex: parsed, written, its size, merged, copied.
ParseLocalIndex ==
  << Varint(8, "id"), Varint(16, "typeToken") >>

WriteLocalIndex(m) ==
  WriteUInt(1, m.id) \o WriteUInt(2, m.typeToken)

SizeLocalIndex(m) ==
  UIntSize(m.id) + UIntSize(m.typeToken)

MergeLocalIndex(to, from) ==
  [id |-> UnlessZero(to.id, from.id),
   typeToken |-> UnlessZero(to.typeToken, from.typeToken),
   unknown |-> to.unknown \o from.unknown]

CopyLocalIndex(from) ==
  [id |-> from.id, typeToken |-> from.typeToken,
   unknown |-> from.unknown]

\* MethodDecl: parsed, written, its size, merged, copied.
ParseMethodDecl ==
  << Varint(8, "flag"), Varint(16, "nameToken"),
     Each(26, "params", "ParameterDecl"), Varint(32, "retTypeToken"),
     Each(42, "localIndex", "LocalIndex"), Bytes(50, "block"),
     Each(58, "lineNumbers", "LineNumber"),
     Each(66, "exceptionEntry", "ExceptionEntry") >>

WriteMethodDecl(m, inner) ==
  WriteUInt(1, m.flag) \o WriteUInt(2, m.nameToken)
    \o WriteMessages(3, inner.params)
    \o WriteUInt(4, m.retTypeToken)
    \o WriteMessages(5, inner.localIndex) \o WriteBytes(6, m.block)
    \o WriteMessages(7, inner.lineNumbers)
    \o WriteMessages(8, inner.exceptionEntry)

\* Mutant: the line numbers are not counted.
SizeMethodDecl_NoLines(m, inner) ==
  MessagesSize(inner.params)
    + MessagesSize(inner.localIndex)
    + MessagesSize(inner.exceptionEntry) + BytesSize(m.block)
    + UIntSize(m.flag) + UIntSize(m.nameToken) + UIntSize(m.retTypeToken)

SizeMethodDecl(m, inner) ==
  MessagesSize(inner.params)
    + MessagesSize(inner.localIndex)
    + MessagesSize(inner.lineNumbers)
    + MessagesSize(inner.exceptionEntry) + BytesSize(m.block)
    + UIntSize(m.flag) + UIntSize(m.nameToken) + UIntSize(m.retTypeToken)

MergeMethodDecl(to, from, inner) ==
  [params |-> to.params \o inner.params,
   localIndex |-> to.localIndex \o inner.localIndex,
   lineNumbers |-> to.lineNumbers \o inner.lineNumbers,
   exceptionEntry |-> to.exceptionEntry \o inner.exceptionEntry,
   block |-> UnlessEmpty(to.block, from.block),
   flag |-> UnlessZero(to.flag, from.flag),
   nameToken |-> UnlessZero(to.nameToken, from.nameToken),
   retTypeToken |-> UnlessZero(to.retTypeToken, from.retTypeToken),
   unknown |-> to.unknown \o from.unknown]

CopyMethodDecl(from, inner) ==
  [params |-> inner.params,
   localIndex |-> inner.localIndex,
   lineNumbers |-> inner.lineNumbers,
   exceptionEntry |-> inner.exceptionEntry,
   block |-> from.block, flag |-> from.flag, nameToken |-> from.nameToken,
   retTypeToken |-> from.retTypeToken, unknown |-> from.unknown]

\* CtorDecl: parsed, written, its size, merged, copied.
ParseCtorDecl ==
  << Varint(8, "flag"), Each(18, "params", "ParameterDecl"),
     Each(26, "localIndex", "LocalIndex"), Bytes(34, "block"),
     Each(42, "lineNumbers", "LineNumber"),
     Each(50, "exceptionEntry", "ExceptionEntry") >>

WriteCtorDecl(m, inner) ==
  WriteUInt(1, m.flag)
    \o WriteMessages(2, inner.params)
    \o WriteMessages(3, inner.localIndex) \o WriteBytes(4, m.block)
    \o WriteMessages(5, inner.lineNumbers)
    \o WriteMessages(6, inner.exceptionEntry)

SizeCtorDecl(m, inner) ==
  MessagesSize(inner.params)
    + MessagesSize(inner.localIndex)
    + MessagesSize(inner.lineNumbers)
    + MessagesSize(inner.exceptionEntry) + BytesSize(m.block)
    + UIntSize(m.flag)

MergeCtorDecl(to, from, inner) ==
  [params |-> to.params \o inner.params,
   localIndex |-> to.localIndex \o inner.localIndex,
   lineNumbers |-> to.lineNumbers \o inner.lineNumbers,
   exceptionEntry |-> to.exceptionEntry \o inner.exceptionEntry,
   block |-> UnlessEmpty(to.block, from.block),
   flag |-> UnlessZero(to.flag, from.flag),
   unknown |-> to.unknown \o from.unknown]

CopyCtorDecl(from, inner) ==
  [params |-> inner.params,
   localIndex |-> inner.localIndex,
   lineNumbers |-> inner.lineNumbers,
   exceptionEntry |-> inner.exceptionEntry,
   block |-> from.block, flag |-> from.flag, unknown |-> from.unknown]

\* ForeignEntryDecl: parsed, written, its size, merged, copied.
ParseForeignEntryDecl ==
  << Varint(8, "flag"), Varint(16, "nameToken"),
     Each(26, "params", "ParameterDecl"), Varint(32, "retTypeToken"),
     Bytes(42, "block"), Optional(50, "lib"), Optional(58, "alias") >>

WriteForeignEntryDecl(m, inner) ==
  WriteUInt(1, m.flag)
    \o WriteUInt(2, m.nameToken)
    \o WriteMessages(3, inner.params)
    \o WriteUInt(4, m.retTypeToken) \o WriteBytes(5, m.block)
    \o WriteOptional(6, m.lib) \o WriteOptional(7, m.alias)

SizeForeignEntryDecl(m, inner) ==
  MessagesSize(inner.params)
    + BytesSize(m.block) + OptionalSize(m.lib) + OptionalSize(m.alias)
    + UIntSize(m.flag) + UIntSize(m.nameToken) + UIntSize(m.retTypeToken)

MergeForeignEntryDecl(to, from, inner) ==
  [params |-> to.params \o inner.params,
   block |-> UnlessEmpty(to.block, from.block),
   lib |-> UnlessEmpty(to.lib, from.lib),
   alias |-> UnlessEmpty(to.alias, from.alias),
   flag |-> UnlessZero(to.flag, from.flag),
   nameToken |-> UnlessZero(to.nameToken, from.nameToken),
   retTypeToken |-> UnlessZero(to.retTypeToken, from.retTypeToken),
   unknown |-> to.unknown \o from.unknown]

CopyForeignEntryDecl(from, inner) ==
  [params |-> inner.params,
   block |-> from.block, lib |-> from.lib, alias |-> from.alias,
   flag |-> from.flag, nameToken |-> from.nameToken,
   retTypeToken |-> from.retTypeToken, unknown |-> from.unknown]

\* LineNumber: parsed, written, its size, merged, copied.
ParseLineNumber ==
  << Varint(8, "line"), Varint(16, "offset") >>

WriteLineNumber(m) ==
  WriteUInt(1, m.line) \o WriteUInt(2, m.offset)

SizeLineNumber(m) ==
  UIntSize(m.line) + UIntSize(m.offset)

MergeLineNumber(to, from) ==
  [line |-> UnlessZero(to.line, from.line),
   offset |-> UnlessZero(to.offset, from.offset),
   unknown |-> to.unknown \o from.unknown]

CopyLineNumber(from) ==
  [line |-> from.line, offset |-> from.offset,
   unknown |-> from.unknown]

\* ExceptionEntry: parsed, written, its size, merged, copied.
ParseExceptionEntry ==
  << Varint(8, "offset"), Varint(16, "length"),
     Varint(24, "target"), Varint(32, "typeToken") >>

WriteExceptionEntry(m) ==
  WriteUInt(1, m.offset) \o WriteUInt(2, m.length)
    \o WriteUInt(3, m.target) \o WriteUInt(4, m.typeToken)

SizeExceptionEntry(m) ==
  UIntSize(m.offset) + UIntSize(m.length)
    + UIntSize(m.target) + UIntSize(m.typeToken)

MergeExceptionEntry(to, from) ==
  [offset |-> UnlessZero(to.offset, from.offset),
   length |-> UnlessZero(to.length, from.length),
   target |-> UnlessZero(to.target, from.target),
   typeToken |-> UnlessZero(to.typeToken, from.typeToken),
   unknown |-> to.unknown \o from.unknown]

CopyExceptionEntry(from) ==
  [offset |-> from.offset,
   length |-> from.length, target |-> from.target,
   typeToken |-> from.typeToken, unknown |-> from.unknown]

-----------------------------------------------------------------------------
\* What _InternalParse of each type of message expects, by number of field.
Expected ==
  [Dependency |-> ParseDependency, TextToken |-> ParseTextToken,
   ConstructedToken |-> ParseConstructedToken,
   ArrayToken |-> ParseArrayToken, TokenDefinition |-> ParseTokenDefinition,
   Package |-> ParsePackage, Declaration |-> ParseDeclaration,
   ClassDecl |-> ParseClassDecl, RecordDecl |-> ParseRecordDecl,
   EnumDecl |-> ParseEnumDecl, EnumConstant |-> ParseEnumConstant,
   VariableDecl |-> ParseVariableDecl, ParameterDecl |-> ParseParameterDecl,
   ModuleDecl |-> ParseModuleDecl, LocalIndex |-> ParseLocalIndex,
   MethodDecl |-> ParseMethodDecl, CtorDecl |-> ParseCtorDecl,
   ForeignEntryDecl |-> ParseForeignEntryDecl,
   LineNumber |-> ParseLineNumber, ExceptionEntry |-> ParseExceptionEntry]

\* The fields that hold messages, with the type of message they hold.
Holds ==
  [type \in DOMAIN Expected |->
     LET entries == {e \in Range(Expected[type]) : e.of # ""}
     IN [f \in {e.field : e \in entries} |->
           (CHOOSE e \in entries : e.field = f).of]]

\* How many bytes the fields of a message take, from the sizes of its inner
\* messages, and the message with the fields it does not know.
SizeOf(type, m, inner) ==
  CASE type = "Dependency" -> SizeDependency(m)
    [] type = "TextToken" -> SizeTextToken(m)
    [] type = "ConstructedToken" -> SizeConstructedToken(m)
    [] type = "ArrayToken" -> SizeArrayToken(m)
    [] type = "TokenDefinition" -> SizeTokenDefinition(m, inner)
    [] type = "Package" -> SizePackage(m, inner)
    [] type = "Declaration" -> SizeDeclaration(m, inner)
    [] type = "ClassDecl" -> SizeClassDecl(m, inner)
    [] type = "RecordDecl" -> SizeRecordDecl(m, inner)
    [] type = "EnumDecl" -> SizeEnumDecl(m, inner)
    [] type = "EnumConstant" -> SizeEnumConstant(m)
    [] type = "VariableDecl" -> SizeVariableDecl(m)
    [] type = "ParameterDecl" -> SizeParameterDecl(m)
    [] type = "ModuleDecl" -> SizeModuleDecl(m, inner)
    [] type = "LocalIndex" -> SizeLocalIndex(m)
    [] type = "MethodDecl" -> SizeMethodDecl(m, inner)
    [] type = "CtorDecl" -> SizeCtorDecl(m, inner)
    [] type = "ForeignEntryDecl" -> SizeForeignEntryDecl(m, inner)
    [] type = "LineNumber" -> SizeLineNumber(m)
    [] type = "ExceptionEntry" -> SizeExceptionEntry(m)

RECURSIVE ByteSize(_, _)
ByteSize(type, m) ==
  Len(m.unknown)
  + SizeOf(type, m, [f \in DOMAIN Holds[type] |->
                       [i \in DOMAIN m[f] |-> ByteSize(Holds[type][f], m[f][i])]])

\* The bytes of the fields of a message, from those of its inner messages, and
\* the message: its fields, then the fields it does not know.
Write(type, m, inner) ==
  CASE type = "Dependency" -> WriteDependency(m)
    [] type = "TextToken" -> WriteTextToken(m)
    [] type = "ConstructedToken" -> WriteConstructedToken(m)
    [] type = "ArrayToken" -> WriteArrayToken(m)
    [] type = "TokenDefinition" -> WriteTokenDefinition(m, inner)
    [] type = "Package" -> WritePackage(m, inner)
    [] type = "Declaration" -> WriteDeclaration(m, inner)
    [] type = "ClassDecl" -> WriteClassDecl(m, inner)
    [] type = "RecordDecl" -> WriteRecordDecl(m, inner)
    [] type = "EnumDecl" -> WriteEnumDecl(m, inner)
    [] type = "EnumConstant" -> WriteEnumConstant(m)
    [] type = "VariableDecl" -> WriteVariableDecl(m)
    [] type = "ParameterDecl" -> WriteParameterDecl(m)
    [] type = "ModuleDecl" -> WriteModuleDecl(m, inner)
    [] type = "LocalIndex" -> WriteLocalIndex(m)
    [] type = "MethodDecl" -> WriteMethodDecl(m, inner)
    [] type = "CtorDecl" -> WriteCtorDecl(m, inner)
    [] type = "ForeignEntryDecl" -> WriteForeignEntryDecl(m, inner)
    [] type = "LineNumber" -> WriteLineNumber(m)
    [] type = "ExceptionEntry" -> WriteExceptionEntry(m)

RECURSIVE Written(_, _)
Written(type, m) ==
  LET Message(of, n) == [size |-> ByteSize(of, n), bytes |-> Written(of, n)]
  IN Write(type, m, [f \in DOMAIN Holds[type] |->
                       [i \in DOMAIN m[f] |-> Message(Holds[type][f], m[f][i])]])
     \o m.unknown

\* MergeFrom: what "from" sets is set in "to", what it repeats is appended, each
\* message merged into a new one or into the member "to" already has.
Merge(type, to, from, inner) ==
  CASE type = "Dependency" -> MergeDependency(to, from)
    [] type = "TextToken" -> MergeTextToken(to, from)
    [] type = "ConstructedToken" -> MergeConstructedToken(to, from)
    [] type = "ArrayToken" -> MergeArrayToken(to, from)
    [] type = "TokenDefinition" -> MergeTokenDefinition(to, from, inner)
    [] type = "Package" -> MergePackage(to, from, inner)
    [] type = "Declaration" -> MergeDeclaration(to, from, inner)
    [] type = "ClassDecl" -> MergeClassDecl(to, from, inner)
    [] type = "RecordDecl" -> MergeRecordDecl(to, from, inner)
    [] type = "EnumDecl" -> MergeEnumDecl(to, from, inner)
    [] type = "EnumConstant" -> MergeEnumConstant(to, from)
    [] type = "VariableDecl" -> MergeVariableDecl(to, from)
    [] type = "ParameterDecl" -> MergeParameterDecl(to, from)
    [] type = "ModuleDecl" -> MergeModuleDecl(to, from, inner)
    [] type = "LocalIndex" -> MergeLocalIndex(to, from)
    [] type = "MethodDecl" -> MergeMethodDecl(to, from, inner)
    [] type = "CtorDecl" -> MergeCtorDecl(to, from, inner)
    [] type = "ForeignEntryDecl" -> MergeForeignEntryDecl(to, from, inner)
    [] type = "LineNumber" -> MergeLineNumber(to, from)
    [] type = "ExceptionEntry" -> MergeExceptionEntry(to, from)

OneOfs(type) == CASE type = "Declaration" -> Member
                  [] type = "TokenDefinition" -> definition
                  [] OTHER -> {}

RECURSIVE Merged(_, _, _)
Merged(type, to, from) ==
  Merge(type, to, from,
    [f \in DOMAIN Holds[type] |->
       [i \in DOMAIN from[f] |->
          Merged(Holds[type][f],
                 IF f \in OneOfs(type) /\ to[f] # <<>> THEN to[f][1]
                 ELSE Cleared[Holds[type][f]],
                 from[f][i])]])

\* The copy constructor: each inner message is merged into a new one.
Copy(type, from, inner) ==
  CASE type = "Dependency" -> CopyDependency(from)
    [] type = "TextToken" -> CopyTextToken(from)
    [] type = "ConstructedToken" -> CopyConstructedToken(from)
    [] type = "ArrayToken" -> CopyArrayToken(from)
    [] type = "TokenDefinition" -> CopyTokenDefinition(from, inner)
    [] type = "Package" -> CopyPackage(from, inner)
    [] type = "Declaration" -> CopyDeclaration(from, inner)
    [] type = "ClassDecl" -> CopyClassDecl(from, inner)
    [] type = "RecordDecl" -> CopyRecordDecl(from, inner)
    [] type = "EnumDecl" -> CopyEnumDecl(from, inner)
    [] type = "EnumConstant" -> CopyEnumConstant(from)
    [] type = "VariableDecl" -> CopyVariableDecl(from)
    [] type = "ParameterDecl" -> CopyParameterDecl(from)
    [] type = "ModuleDecl" -> CopyModuleDecl(from, inner)
    [] type = "LocalIndex" -> CopyLocalIndex(from)
    [] type = "MethodDecl" -> CopyMethodDecl(from, inner)
    [] type = "CtorDecl" -> CopyCtorDecl(from, inner)
    [] type = "ForeignEntryDecl" -> CopyForeignEntryDecl(from, inner)
    [] type = "LineNumber" -> CopyLineNumber(from)
    [] type = "ExceptionEntry" -> CopyExceptionEntry(from)

Copied(type, from) ==
  LET New(of, n) == Merged(of, Cleared[of], n)
  IN Copy(type, from, [f \in DOMAIN Holds[type] |->
                         [i \in DOMAIN from[f] |-> New(Holds[type][f], from[f][i])]])
=============================================================================
