--------------------------- MODULE MCPackageReader ---------------------------
(***************************************************************************)
(* Small packages: one with every kind of declaration, one with the edges  *)
(* of the encoding, three of a newer compiler.                             *)
(***************************************************************************)
EXTENDS PackageReader

TextDef(id, text) ==
  [TokenDefinition EXCEPT !.id = id, !.textToken = << [TextToken EXCEPT !.text = text] >>]
ConstructedDef(id, tokens) ==
  [TokenDefinition EXCEPT !.id = id,
     !.constructedToken = << [ConstructedToken EXCEPT !.tokens = tokens] >>]
ArrayDef(id, token) ==
  [TokenDefinition EXCEPT !.id = id,
     !.arrayToken = << [ArrayToken EXCEPT !.typeToken = token] >>]

Decl(member, message) == [Declaration EXCEPT ![member] = <<message>>]

OptionalParameter ==
  [ParameterDecl EXCEPT !.flag = 3, !.nameToken = 1, !.typeToken = 2, !.initial = << <<>> >>]
Line == [LineNumber EXCEPT !.line = 1]
Handler ==
  [ExceptionEntry EXCEPT !.offset = 1, !.length = 2, !.target = 3, !.typeToken = 2]

Method ==
  [MethodDecl EXCEPT !.flag = 1, !.nameToken = 1, !.params = <<OptionalParameter>>,
     !.retTypeToken = 2, !.localIndex = << [LocalIndex EXCEPT !.typeToken = 1] >>,
     !.block = <<0, 9>>, !.lineNumbers = <<Line>>, !.exceptionEntry = <<Handler>>]
Ctor ==
  [CtorDecl EXCEPT !.flag = 1, !.params = <<ParameterDecl>>,
     !.localIndex = << [LocalIndex EXCEPT !.id = 1] >>, !.block = <<8>>,
     !.lineNumbers = <<Line, [LineNumber EXCEPT !.offset = 4]>>,
     !.exceptionEntry = <<Handler>>]
Field ==
  [VariableDecl EXCEPT !.flag = 2, !.nameToken = 2, !.typeToken = 3, !.initial = << <<0>> >>]
Foreign ==
  [ForeignEntryDecl EXCEPT !.flag = 1, !.nameToken = 1, !.params = <<ParameterDecl>>,
     !.retTypeToken = 2, !.lib = << <<99>> >>, !.alias = << <<>> >>]

\* Every kind of declaration, nested; the largest is longer than 127 bytes.
AllKinds ==
  [Package EXCEPT
     !.dependencies = << [Dependency EXCEPT !.text = <<99>>] >>,
     !.tokens = << TextDef(1, <<97>>), TextDef(2, <<98, 99>>),
                   ConstructedDef(3, <<2, 1>>), ArrayDef(4, 3) >>,
     !.declarations =
        << Decl("moduleDecl",
             [ModuleDecl EXCEPT !.flag = 1, !.nameToken = 1, !.declarations =
               << Decl("classDecl",
                    [ClassDecl EXCEPT !.flag = 1, !.nameToken = 2, !.baseToken = 3,
                       !.implToken = <<4, 2>>,
                       !.declarations = << Decl("varaibleDecl", Field),
                                           Decl("methodDecl", Method),
                                           Decl("ctorDecl", Ctor) >>]),
                  Decl("recordDecl",
                    [RecordDecl EXCEPT !.nameToken = 1,
                       !.declarations = << Decl("varaibleDecl", Field) >>]),
                  Decl("foreignEntryDecl", Foreign) >>]),
           Decl("enumDecl",
             [EnumDecl EXCEPT !.flag = 1, !.nameToken = 2,
                !.constants = << [EnumConstant EXCEPT !.nameToken = 1],
                                 [EnumConstant EXCEPT !.nameToken = 2, !.value = 1] >>]) >>,
     !.identity = <<97>>,
     !.version = 1]

\* Numbers of two bytes, packed and alone; messages with nothing in them; no
\* identity and no version.
Edges ==
  [Package EXCEPT
     !.dependencies = << Dependency, Dependency >>,
     !.tokens = << TextDef(127, <<>>), ConstructedDef(128, <<0, 127, 128, MaxNumber>>),
                   ConstructedDef(0, <<>>), ArrayDef(MaxNumber, 0) >>,
     !.declarations = << Decl("ctorDecl", CtorDecl),
                         Decl("methodDecl", [MethodDecl EXCEPT !.nameToken = 1]) >>]

\* Fields of a newer schema, of each wire type, in the package, in a
\* declaration and in a class: numbers past the last one and, in a record, the
\* number of "flag" with another wire type.
Newer ==
  [Package EXCEPT
     !.tokens = << TextDef(1, <<97>>) >>,
     !.declarations =
        << [Decl("classDecl",
              [ClassDecl EXCEPT !.nameToken = 1,
                 !.unknown = Tag(16, DELIMITED) \o Delimited(<<8, 1>>)])
            EXCEPT !.unknown = Tag(10, FIXED32) \o <<1, 0, 0, 0>>],
           Decl("recordDecl",
              [RecordDecl EXCEPT !.nameToken = 1,
                 !.unknown = Tag(1, DELIMITED) \o Delimited(<<>>)]) >>,
     !.identity = <<98>>,
     !.unknown = Tag(6, VARINT) \o VarintOf(300)
                   \o Tag(7, FIXED64) \o <<0, 0, 0, 0, 0, 0, 0, 1>>]

\* A token, and a declaration in a module, of kinds that the schema does not have.
NewerKind(inModule) ==
  [Package EXCEPT
     !.tokens = << TextDef(1, <<97>>),
                   IF inModule THEN TextDef(2, <<98>>)
                   ELSE [TokenDefinition EXCEPT !.id = 2,
                           !.unknown = Tag(9, DELIMITED) \o Delimited(<<>>)] >>,
     !.declarations =
        IF inModule
        THEN << Decl("moduleDecl",
                  [ModuleDecl EXCEPT !.nameToken = 1, !.declarations =
                     << [Declaration EXCEPT
                           !.unknown = Tag(12, DELIMITED) \o Delimited(<<8, 1>>)] >>]) >>
        ELSE <<>>,
     !.identity = <<99>>]

MCPackages == {AllKinds, Edges, Newer, NewerKind(TRUE), NewerKind(FALSE)}
=============================================================================
