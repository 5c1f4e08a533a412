--------------------------- MODULE PackageLinking ---------------------------
(***************************************************************************)
(* How packages refer to each other: the compiler's dictionary of tokens   *)
(* (TokenDict of ebc/codegen/Assembly.cs), filled from the packages it     *)
(* reads and from the symbols it writes, and the virtual machine, which    *)
(* loads a package with what it depends on (Loader::fromPath) and finds a  *)
(* symbol by the names a token stands for (TokenTable::search).            *)
(*                                                                         *)
(* A symbol is its full name, a sequence of names, with "[]" behind it if  *)
(* it is an array type.  Packages can be built again, whatever was built   *)
(* from them.                                                              *)
(***************************************************************************)
EXTENDS Naturals, SequencesExt, FiniteSets

CONSTANTS
  Package,      \* the packages, without core
  core,         \* the package every other one reads first
  Declares,     \* the symbols of each package, the outer ones first
  Imports,      \* what each package may import: sets of packages
  Lower(_),     \* a name in lower case
  MaxUses,      \* bound: references each package makes to symbols
  MaxBuilds     \* bound: how many times the compiler runs

Packages == Package \cup {core}

ASSUME LinkingAssumption ==
  /\ core \notin Package /\ IsFiniteSet(Package)
  /\ Imports \in [Packages -> SUBSET (SUBSET Package)]
  /\ MaxUses \in [Packages -> Nat] /\ MaxBuilds \in Nat

KeyOf(path) == [i \in DOMAIN path |-> Lower(path[i])]

\* A symbol stands in one that is declared too, and no two symbols have names that
\* differ only in case: Scope.Add refuses the second.
ASSUME DeclaresAssumption ==
  /\ Declares \in [Packages -> Seq(Seq(STRING))]
  /\ \A p \in Packages : \A path \in ToSet(Declares[p]) :
       /\ path # <<>>
       /\ \A i \in DOMAIN path : /\ SubSeq(path, 1, i) \in ToSet(Declares[p])
                               /\ Lower(path[i]) # Lower("[]")
  /\ \A p, q \in Packages : \A a \in ToSet(Declares[p]), b \in ToSet(Declares[q]) :
       KeyOf(a) = KeyOf(b) => a = b

VARIABLES
  files,      \* the packages that were written
  env,        \* the compiler at work on a package
  machine,    \* the virtual machine
  builds

vars == <<files, env, machine, builds>>

NoFile == [written |-> FALSE]
Idle == [phase |-> "idle"]

-----------------------------------------------------------------------------
(***************************************************************************)
(* TokenDict: a sequence of entries, each a token and the key it is found  *)
(* by, its qualified name in lower case.  A token's id is its place when   *)
(* this dictionary made it, and what its file says when it was read.       *)
(***************************************************************************)
TextToken(id, text) == [id |-> id, kind |-> "text", of |-> <<text>>]
ConstructedToken(id, tokens) == [id |-> id, kind |-> "constructed", of |-> tokens]
ArrayToken(id, token) == [id |-> id, kind |-> "array", of |-> <<token>>]

Has(dict, key) == \E i \in DOMAIN dict : dict[i].key = key

\* The id of the token found by a key, 0 where the lookup throws.
IdOf(dict, key) ==
  IF Has(dict, key) THEN dict[CHOOSE i \in DOMAIN dict : dict[i].key = key].token.id ELSE 0

\* QualifiedName: the names of a token, those it is made of looked up by place.
\* A place that is not there throws: no symbol has the name it is given here.  No
\* token is made of others so deep that it contains itself.
QualifiedName(dict, token) ==
  LET tokens == {token} \cup {dict[i].token : i \in DOMAIN dict}
      names[depth \in 0 .. Len(dict) + 1] == [t \in tokens |->
        IF t.kind = "text" THEN t.of
        ELSE IF depth = 0 \/ \E i \in DOMAIN t.of : t.of[i] \notin DOMAIN dict THEN <<>>
        ELSE FlattenSeq([i \in DOMAIN t.of |-> names[depth - 1][dict[t.of[i]].token]])
               \o (IF t.kind = "array" THEN <<"[]">> ELSE <<>>)]
  IN names[Len(dict) + 1][token]

Add(dict, token) ==
  LET key == KeyOf(QualifiedName(dict, token))
  IN IF Has(dict, key) THEN dict ELSE Append(dict, [key |-> key, token |-> token])

QueryName(dict, text) ==
  IF Has(dict, KeyOf(<<text>>)) THEN dict
  ELSE Add(dict, TextToken(Len(dict) + 1, text))

\* The dictionary with all the tokens of a file, or all of the names.
AddAll(dict, tokens) ==
  LET added[n \in 0 .. Len(tokens)] == IF n = 0 THEN dict ELSE Add(added[n - 1], tokens[n])
  IN added[Len(tokens)]
QueryNames(dict, texts) ==
  LET queried[n \in 0 .. Len(texts)] ==
        IF n = 0 THEN dict ELSE QueryName(queried[n - 1], texts[n])
  IN queried[Len(texts)]

\* Mutant: the id of a token of several names is taken before its names are
\* looked up.
QuerySymbol_CountFirst(dict, path) ==
  IF Has(dict, KeyOf(path)) THEN dict
  ELSE IF Len(path) = 1 THEN QueryName(dict, path[1])
  ELSE LET queried == QueryNames(dict, path)
       IN Add(queried, ConstructedToken(Len(dict) + 1,
                [i \in DOMAIN path |-> IdOf(queried, KeyOf(<<path[i]>>))]))

\* QueryToken(Symbol): the dictionary after it; the id is that of the key.
QuerySymbol(dict, path) ==
  IF Has(dict, KeyOf(path)) THEN dict
  ELSE IF Len(path) = 1 THEN QueryName(dict, path[1])
  ELSE LET queried == QueryNames(dict, path)
       IN Add(queried, ConstructedToken(Len(queried) + 1,
                [i \in DOMAIN path |-> IdOf(queried, KeyOf(<<path[i]>>))]))

\* The same of the array type over a symbol; arrays of arrays are not among the uses.
IsArray(path) == Last(path) = "[]"
Query(dict, path) ==
  IF ~IsArray(path) THEN QuerySymbol(dict, path)
  ELSE IF Has(dict, KeyOf(path)) THEN dict
  ELSE LET queried == QuerySymbol(dict, Front(path))
       IN Add(queried, ArrayToken(Len(queried) + 1, IdOf(queried, KeyOf(Front(path)))))

TokensOf(dict) == [i \in DOMAIN dict |-> dict[i].token]

-----------------------------------------------------------------------------
(***************************************************************************)
(* The compiler.                                                           *)
(***************************************************************************)
\* A symbol the compiler knows from a package: what it is, and the name it has
\* for the compiler.
Known(of, name) == [of |-> of, name |-> name]

\* CompileEnv: core is compiled alone, all others read it first, then what
\* their sources import.
Start(p, imports) ==
  /\ env.phase = "idle" /\ machine.phase = "idle"
  /\ builds < MaxBuilds
  /\ imports \in Imports[p]
  /\ \A q \in (IF p = core THEN {} ELSE imports \cup {core}) : files[q].written
  /\ \E order \in SetToSeqs(imports) :
       env' = [phase |-> "read", package |-> p, dict |-> <<>>,
               known |-> {Known(path, path) : path \in ToSet(Declares[p])},
               queue |-> IF p = core THEN <<>> ELSE <<core>> \o order,
               dependencies |-> <<>>, uses |-> {}, agree |-> TRUE]
  /\ builds' = builds + 1
  /\ UNCHANGED <<files, machine>>

\* The name FromFile gives a symbol: those of the tokens of its name and of
\* the symbols around it, looked up by place in the one dictionary. Where that
\* is no token or no plain name (only when agree is FALSE) it is not followed
\* further: the name is empty.
NameRead(dict, names, path) ==
  [i \in DOMAIN path |->
     LET id == names[SubSeq(path, 1, i)]
     IN IF id \in DOMAIN dict /\ dict[id].token.kind = "text"
        THEN dict[id].token.of[1] ELSE ""]

\* FromFile: the tokens of the file go into the dictionary with the ids they
\* have in the file; the symbols follow.  Compile then reads what the package
\* depends on, again if it was read before.
Read ==
  /\ env.phase = "read" /\ env.queue # <<>>
  /\ LET q == Head(env.queue)
         file == files[q]
         dict == AddAll(env.dict, file.tokens)
         names == file.names
     IN env' = [env EXCEPT
          !.dict = dict,
          !.known = @ \cup {Known(path, NameRead(dict, names, path)) : path \in DOMAIN names},
          !.queue = Tail(@) \o (IF q = core THEN <<>> ELSE file.dependencies),
          !.dependencies = Append(@, q),
          !.agree = @ /\ file.agree /\ \/ IsPrefix(file.tokens, TokensOf(env.dict))
                                       \/ IsPrefix(TokensOf(env.dict), file.tokens)]
  /\ UNCHANGED <<files, machine, builds>>

EndRead ==
  /\ env.phase = "read" /\ env.queue = <<>>
  /\ env' = [env EXCEPT !.phase = "generate"]
  /\ UNCHANGED <<files, machine, builds>>

\* ILGen, or a type in a declaration: a symbol the package refers to, or the
\* array type over it. When the dictionary has other tokens at the places of its
\* names, the new token gets another key, and the lookup of its own one throws:
\* there is no package.
Use(symbol, array) ==
  /\ env.phase = "generate"
  /\ Cardinality(env.uses) < MaxUses[env.package]
  /\ LET name == symbol.name \o (IF array THEN <<"[]">> ELSE <<>>)
         dict == Query(env.dict, name)
     IN env' =
          IF ~Has(dict, KeyOf(name)) THEN Idle
          ELSE [env EXCEPT
                  !.dict = dict,
                  !.uses = @ \cup {[id |-> IdOf(dict, KeyOf(name)), of |-> symbol.of]}]
  /\ UNCHANGED <<files, machine, builds>>

\* FromCompileEnv and SaveTo: the names of the package's own symbols, then all
\* the tokens of the dictionary.
Save ==
  /\ env.phase = "generate"
  /\ LET p == env.package
         dict == QueryNames(env.dict, [i \in DOMAIN Declares[p] |-> Last(Declares[p][i])])
     IN files' = [files EXCEPT ![p] =
          [written |-> TRUE, tokens |-> TokensOf(dict), dependencies |-> env.dependencies,
           names |-> [path \in ToSet(Declares[p]) |-> IdOf(dict, KeyOf(<<Last(path)>>))],
           uses |-> env.uses, agree |-> env.agree]]
  /\ env' = Idle
  /\ UNCHANGED <<machine, builds>>

-----------------------------------------------------------------------------
(***************************************************************************)
(* The virtual machine.                                                    *)
(***************************************************************************)
Dependencies(p) == IF files[p].written THEN ToSet(files[p].dependencies) ELSE {}

\* fromPath: a package that is not there yet, then what it depends on, and so on.
FromPath(p) ==
  {q \in Packages : \A S \in SUBSET Packages :
     p \in S /\ (\A r \in S : Dependencies(r) \subseteq S) => q \in S}

Run(p) ==
  /\ env.phase = "idle" /\ machine.phase = "idle"
  /\ files[p].written
  /\ machine' = [phase |-> "run", packages |-> FromPath(p)]
  /\ UNCHANGED <<files, env, builds>>

Exit ==
  /\ machine.phase = "run"
  /\ machine' = Idle
  /\ UNCHANGED <<files, env, builds>>

\* The name of a symbol, from the table of its package, whose tokens are found
\* by place (createSymbol).
NameOf(p, path) ==
  [i \in DOMAIN path |->
     files[p].tokens[files[p].names[SubSeq(path, 1, i)]].of[1]]

\* TokenTable::search: the names to look up from the global scope; an array is
\* found by its element type.
Search(table, token) ==
  LET symbol == IF token.kind = "array" THEN table[token.of[1]] ELSE token
  IN IF symbol.kind = "text" THEN symbol.of
     ELSE [i \in DOMAIN symbol.of |-> table[symbol.of[i]].of[1]]

\* The symbols a loaded package has for a sequence of names.
Found(names) ==
  {path \in UNION {DOMAIN files[p].names : p \in machine.packages} :
     \E p \in machine.packages : path \in DOMAIN files[p].names /\ NameOf(p, path) = names}

-----------------------------------------------------------------------------
Init ==
  /\ files = [p \in Packages |-> NoFile]
  /\ env = Idle /\ machine = Idle
  /\ builds = 0

Next ==
  \/ \E p \in Packages : Run(p) \/ \E imports \in Imports[p] : Start(p, imports)
  \/ Read \/ EndRead \/ Save
  \/ env.phase = "generate" /\ \E symbol \in env.known, array \in BOOLEAN : Use(symbol, array)
  \/ Exit

Spec == Init /\ [][Next]_vars

-----------------------------------------------------------------------------
(***************************************************************************)
(* What the packages promise each other.                                   *)
(***************************************************************************)
\* The token tables that were written agree on the case of every name: the
\* dictionary ignores it, the virtual machine does not.
CaseAgrees ==
  LET texts == {t \in UNION {ToSet(files[p].tokens) : p \in {q \in Packages : files[q].written}} :
                  t.kind = "text"}
  IN \A t, u \in texts : Lower(t.of[1]) = Lower(u.of[1]) => t.of = u.of

\* When the virtual machine has loaded a package, every token its packages use
\* leads to the symbol the compiler meant, in whatever package that is, and
\* each package it needs is there: as long as every package was compiled from
\* packages whose token tables extend one another (a library, another built on
\* it, and so on), and their names agree in case. Two libraries built apart
\* have the same ids for different names in the one dictionary (Assembly.cs:188);
\* building one of them again does no harm to what was built on it.
UsesLink ==
  /\ machine.phase = "run"
  /\ CaseAgrees
  /\ \A p \in machine.packages : files[p].agree
  => \A p \in machine.packages : \A use \in files[p].uses :
       /\ use.id \in DOMAIN files[p].tokens
       /\ Found(Search(files[p].tokens, files[p].tokens[use.id])) = {use.of}
=============================================================================
