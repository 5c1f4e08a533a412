------------------------------ MODULE MCCalls ------------------------------
(***************************************************************************)
(* Functions with every kind of parameter: by value and by reference, in   *)
(* two sizes, optional ones of both kinds, a ParamArray; static functions, *)
(* methods, a virtual method with an override that has more locals, and    *)
(* constructors. main calls one of them, or one with the result of another.*)
(***************************************************************************)
EXTENDS Calls, TLC

ByVal(size) == [ref |-> FALSE, size |-> size]
ByRef == [ref |-> TRUE, size |-> 4]

Number(n)   == [k |-> "lit", size |-> 4, val |-> Lit(n)]
Bool(n)  == [k |-> "lit", size |-> 1, val |-> Lit(n)]
Object(n) == [k |-> "lit", size |-> 8, val |-> Lit(n)]
Local(n) == [k |-> "local", n |-> n]
Param1(n) == [k |-> "param", n |-> n]

NoRest == [k |-> "none"]
Elements(es) == [k |-> "elements", es |-> es]
Forward(n) == [k |-> "forward", e |-> Param1(n)]
Opt(n, e) == [n |-> n, e |-> e]
CallTo(f, self, args, opts, rest) ==
  [k |-> "call", f |-> f, self |-> self, args |-> args, opts |-> opts, rest |-> rest, v |-> Len(opts)]

Do(call)  == [k |-> "call", call |-> call, n |-> 1]
Base(call) == [k |-> "base", call |-> call, n |-> 1]
Set(n, v) == [k |-> "set", n |-> n, val |-> Lit(v)]
Show1(n)  == [k |-> "show", n |-> n]
Test(n)   == [k |-> "test", n |-> n]

Hosts(kind, normal, optional, array, locals, impl, body) ==
  [kind |-> kind, normal |-> normal, optional |-> optional, array |-> array, locals |-> locals,
   impl |-> impl, body |-> body, result |-> Lit(70 + Len(locals))]

TheObject == <<"object", 1>>
Created == <<"object", 2>>

\* mixed has every kind of parameter: 1 and 2 by value, 3 by reference, the optional 4
\* by value and 5 by reference, the ParamArray 6.
Mixed == [normal |-> <<ByVal(4), ByVal(1), ByRef>>, optional |-> <<ByVal(4), ByRef>>]
MCHosted ==
  [mixed |-> Hosts("static", Mixed.normal, Mixed.optional, TRUE, <<4>>, "mixed",
     <<Show1(2), Test(4), Test(5), Set(3, 31), Set(2, 21), Show1(6),
       Do(CallTo("bump", Nothing, <<Local(1)>>, <<>>, NoRest)), Show1(3), Show1(4), Show1(5)>>),
   forward |-> Hosts("static", <<ByRef>>, <<ByVal(4), ByRef>>, TRUE, <<1, 4>>, "forward",
     <<Do(CallTo("mixed", Nothing, <<Number(5), Bool(6), Param1(1)>>,
                 <<Opt(2, Local(2))>>, Forward(4))), Show1(1), Set(2, 22)>>),
   bump |-> Hosts("static", <<ByRef>>, <<>>, FALSE, <<>>, "bump", <<Set(1, 99)>>),
   optionals |-> Hosts("static", <<>>, <<ByRef, ByVal(1), ByVal(4)>>, FALSE, <<>>, "optionals",
     <<Test(2), Test(3), Show1(3), Set(3, 33), Show1(2), Set(1, 11), Show1(1)>>),
   method |-> Hosts("method", <<ByVal(4)>>, <<ByVal(1)>>, FALSE, <<4, 4>>, "method",
     <<Test(2), Set(1, 12), Do(CallTo("virtual", TheObject, <<Local(2), Param1(1)>>, <<>>, NoRest)),
       Show1(1), Set(2, 15)>>),
   virtual |-> Hosts("virtual", <<ByRef, ByVal(4)>>, <<>>, FALSE, <<4>>, "override", <<Show1(1)>>),
   override |-> Hosts("virtual", <<ByRef, ByVal(4)>>, <<>>, FALSE, <<4, 1, 4>>, "override",
     <<Do(CallTo("bump", Nothing, <<Local(3)>>, <<>>, NoRest)), Set(1, 13), Show1(2), Show1(1)>>),
   ctor |-> Hosts("ctor", <<ByVal(4)>>, <<ByVal(4)>>, FALSE, <<4>>, "ctor",
     <<Base(CallTo("base", Own, <<Local(1)>>, <<>>, NoRest)), Test(2), Show1(1),
       Do(CallTo("bump", Nothing, <<Param1(2)>>, <<>>, NoRest)), Show1(2)>>),
   base |-> Hosts("ctor", <<ByRef>>, <<>>, FALSE, <<1>>, "base", <<Set(1, 14)>>)]

\* Which of the optional parameters are passed, in which order.
Orders(some) == UNION {SetToSeqs(s) : s \in SUBSET some}
Passing(values) == {[i \in DOMAIN o |-> Opt(o[i], values[o[i]])] : o \in Orders(DOMAIN values)}

CallsFrom(x) ==
  {CallTo("mixed", Nothing, <<Number(1), Bool(2), Local(1)>>, opts, Elements(es)) :
     opts \in Passing(<<x, Local(2)>>), es \in {<<Object(7)>>, <<Object(7), Object(8)>>}}
  \cup {CallTo("forward", Nothing, <<Local(2)>>, opts, Elements(<<Object(9)>>)) :
          opts \in Passing(<<x, Local(1)>>)}
  \cup {CallTo("optionals", Nothing, <<>>, opts, NoRest) :
          opts \in Passing(<<Local(1), Bool(0), x>>)}
  \cup {CallTo("method", self, <<x>>, opts, NoRest) :
          self \in {TheObject, Nothing}, opts \in Passing(<<Bool(3)>>)}
  \cup {CallTo("virtual", self, <<Local(2), x>>, <<>>, NoRest) : self \in {TheObject, Nothing}}
  \cup {CallTo("ctor", Created, <<x>>, opts, NoRest) : opts \in Passing(<<Number(3)>>)}

Inner == {c \in CallsFrom(Number(4)) : c.f \in {"virtual", "method"}}
MCMainBodies ==
  {<<Do(c)>> : c \in CallsFrom(Number(4)) \cup UNION {CallsFrom(e) : e \in Inner}}
  \cup {<<Do(b), Do(c)>> : b \in {x \in CallsFrom(Number(4)) : x.f = "mixed" /\ Len(x.opts) = 2},
                           c \in CallsFrom(Local(1))}
=============================================================================
