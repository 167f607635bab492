------------------------------ MODULE MCTyping ------------------------------
(* Instances of Typing: one family of projects tries the rules on every pair *)
(* of operands, the other infers return types along chains of calls.         *)
EXTENDS Typing

\* Scripts are put together from expressions, each a sequence of nodes whose
\* last is the root.
Blank == [op |-> "", name |-> None, sign |-> "", kids |-> <<>>, ann |-> "",
          marks |-> {}, arms |-> {}]
Shifted(ast, by) == [i \in DOMAIN ast |->
                       [ast[i] EXCEPT !.kids = [k \in DOMAIN @ |-> @[k] + by]]]
Then(a, b) == a \o Shifted(b, Len(a))
Node0(op) == <<[Blank EXCEPT !.op = op]>>
Node1(op, e) == e \o <<[Blank EXCEPT !.op = op, !.kids = <<Len(e)>>]>>
Node2(op, sign, l, r) ==
  Then(l, r) \o <<[Blank EXCEPT !.op = op, !.sign = sign,
                                !.kids = <<Len(l), Len(l) + Len(r)>>]>>
Number(marks) == <<[Blank EXCEPT !.op = "number", !.marks = marks]>>
Name(name) == <<[Blank EXCEPT !.op = "name", !.name = name]>>
Named(ast, name) == [ast EXCEPT ![Len(ast)].name = name]
Call(name, args) ==
  CASE args = <<>> -> Named(Node0("call"), name)
    [] Len(args) = 1 -> Named(Node1("call", args[1]), name)
    [] OTHER -> Named(Node2("call", "", args[1], args[2]), name)
Unary(sign, e) == LET a == Node1("unary", e) IN [a EXCEPT ![Len(a)].sign = sign]
Binary(sign, l, r) == Node2("binary", sign, l, r)
Ternary(c, a, b) ==
  Then(Then(c, a), b) \o
  <<[Blank EXCEPT !.op = "ternary",
       !.kids = <<Len(c), Len(c) + Len(a), Len(c) + Len(a) + Len(b)>>]>>
Assign(target, sign, e) == Node2("assign", sign, Name(target), e)
Out(e) == Assign(<<"Out">>, "=", e)
Local(name, ann, e) ==
  LET a == IF e = <<>> THEN Node0("local") ELSE Node1("local", e)
  IN  [a EXCEPT ![Len(a)].name = <<name>>, ![Len(a)].ann = ann]
When(e, arms) == LET a == Node1("when", e) IN [a EXCEPT ![Len(a)].arms = arms]

-----------------------------------------------------------------------------
MCObjects == {"Calculate", "Convert"}
MCLibrary ==
  (<<"Calculate", "Max">> :> {[returns |-> Either, params |-> <<Either, Either>>]}) @@
  (<<"Calculate", "Floor">> :> {[returns |-> "FloatingPoint", params |-> <<"FloatingPoint">>]}) @@
  (<<"Convert", "ToInteger">> :> {[returns |-> "Integer", params |-> <<Either>>]}) @@
  (<<"Convert", "ToUnsignedInteger">> :> {[returns |-> "UnsignedInteger", params |-> <<Either>>]})

MCEnums == <<[name |-> "State", members |-> {"On", "Off"}, open |-> FALSE],
             [name |-> "Gear", members |-> {"Up", "Down"}, open |-> FALSE],
             [name |-> "Drive", members |-> {"High"}, open |-> TRUE]>>

Symbol(kind, vt, unit) ==
  [kind |-> kind, vt |-> vt, unit |-> unit, ret |-> None, signed |-> FALSE, params |-> <<>>]
Backed == Symbol("Function", Unknown, None)
Declared(type, param) ==
  [Backed EXCEPT !.ret = type, !.signed = TRUE,
                 !.params = <<[name |-> "Arg", type |-> param]>>]
MCSymbols ==
  (<<"Count">> :> Symbol("Channel", Integer, None)) @@
  (<<"Mask">> :> Symbol("Parameter", Unsigned, None)) @@
  (<<"Speed">> :> Symbol("Channel", Float, <<"m", "s">>)) @@
  (<<"Limit">> :> Symbol("Parameter", Float, <<"Pa">>)) @@
  (<<"Mode">> :> Symbol("Channel", EnumType(1), None)) @@
  (<<"Shift">> :> Symbol("Channel", EnumType(2), None)) @@
  (<<"Pin">> :> Symbol("Channel", EnumType(3), None)) @@
  (<<"Flag">> :> Symbol("Channel", Boolean, None)) @@
  (<<"Raw">> :> Symbol("Channel", Unknown, None)) @@
  (<<"Fixed">> :> Symbol("Constant", Integer, None)) @@
  (<<"F">> :> Backed) @@ (<<"G">> :> Backed) @@ (<<"P">> :> Backed) @@
  (<<"H">> :> Declared(Integer, Integer))

Script(name, fn, ast) ==
  [name |-> name, fn |-> fn, broken |-> FALSE, deep |-> FALSE, ast |-> ast]
Project(scripts) == [symbols |-> MCSymbols, enums |-> MCEnums, scripts |-> scripts]

-----------------------------------------------------------------------------
(* The rules. *)

One == Number({})
Half == Number({"."})
F == Call(<<"F">>, <<>>)
G == Call(<<"G">>, <<>>)
Max2(a, b) == Call(<<"Calculate", "Max">>, <<a, b>>)

Operands == {Name(<<"Count">>), Name(<<"Mask">>), Name(<<"Speed">>), Name(<<"Mode">>),
             Name(<<"Shift">>), Name(<<"Pin">>), Name(<<"Flag">>), Name(<<"Raw">>),
             Name(<<"State", "On">>), One, Half, F}
Operations == {Binary(s, l, r) : s \in {"==", "<", "%", "&"}, l \in Operands, r \in Operands}
Stores ==
  {Then(Local("z", "unsigned", <<>>), Assign(t, s, v)) :
     t \in {<<"Count">>, <<"Mask">>, <<"Speed">>, <<"Mode">>, <<"Raw">>, <<"Fixed">>, <<"z">>},
     s \in {"=", "+=", "%=", "&="}, v \in Operands \union {Name(<<"z">>)}}
Declarations ==
  {Local("z", ann, e) : ann \in {"float", "unsigned", "boolean", "quaternion", "string"},
     e \in {One, Half, Unary("-", One), F, Name(<<"Speed">>), <<>>}}
Whens ==
  {When(s, arms) : s \in {Name(<<"Mode">>), Name(<<"Pin">>), Name(<<"Raw">>), Name(<<"Count">>), F},
     arms \in {{}, {{"On"}}, {{"On"}, {"Off"}}, {{"On", "Off"}, {"Of"}}, {{"High"}}, {{"Low"}},
               {{"High"}, {"Low"}}, {{"On"}, {}}}}
Calls ==
  {Call(c, <<a>>) : c \in {<<"H">>, <<"F">>, <<"Convert", "ToInteger">>, <<"Calculate", "Max">>,
                           <<"Calculate", "Power">>},
                    a \in Operands} \union
  {Max2(a, b) : a, b \in {One, Half, F, Name(<<"Mask">>), Name(<<"Flag">>)}} \union
  {Call(<<"H">>, <<>>)}
Others ==
  {Assign(<<"Speed">>, "=", Node1("paren", Name(<<"Limit">>))),
   Unary("~", Half), Unary("~", Binary("+", One, F)), Unary("not", F),
   Binary("<", Name(<<"Mask">>), Unary("-", Node1("paren", One))),
   Assign(<<"Count">>, "=", Ternary(Name(<<"Flag">>), One, F)),
   Assign(<<"Count">>, "=", Ternary(Name(<<"Flag">>), Number({"0x", "e"}), Number({"u"}))),
   <<[Blank EXCEPT !.op = "expand", !.name = <<"n">>]>>
     \o Shifted(Assign(<<"Mask">>, "=", Binary("*", Name(<<"n">>), Half)), 1)}

RuleProjects ==
  {Project(<<Script("F", <<"F">>, Out(Half)), Script("C", None, e)>>) :
     e \in Operations \union Stores \union Declarations \union Whens \union Calls \union Others}

-----------------------------------------------------------------------------
(* Inference: F, G which calls F, P which may call G, and H, which is declared. *)

BodiesOfF == {Out(Half), Out(Number({"u"})), Out(One), Then(Out(One), Out(Half)),
              Out(Name(<<"Raw">>)), Out(G), Out(Binary("<", G, One)),
              Out(Name(<<"State", "On">>)), F}
BodiesOfG == {Out(F), Out(Binary("+", F, One)), Then(Local("x", "", F), Out(Name(<<"x">>))),
              Out(Call(<<"Convert", "ToInteger">>, <<F>>)), Then(Out(F), Out(One)),
              Then(Local("x", "", Name(<<"Speed">>)), Out(Name(<<"x">>)))}
BodiesOfH == {Out(Half), Then(Assign(<<"Count">>, "=", Name(<<"In", "Arg">>)), Out(G))}
BodiesOfP ==
  {Then(Out(G), Binary("<", G, Name(<<"Mask">>))),
   Then(Local("r", "", G), Assign(<<"Count">>, "=", Name(<<"r">>))),
   Then(Assign(<<"Mode">>, "+=", F), Binary("==", Name(<<"Mode">>), G)),
   Binary("==", Name(<<"Speed">>), G)}

Orders == {<<1, 2, 3, 4>>, <<4, 3, 2, 1>>}
Unread(script, how) == [script EXCEPT !.broken = how = "broken", !.deep = how = "deep"]
ChainProjects ==
  {LET scripts == <<Script("F", <<"F">>, f), Unread(Script("G", <<"G">>, g), how),
                    Script("H", <<"H">>, h), Script("P", <<"P">>, u)>>
   IN  Project([i \in 1..4 |-> scripts[o[i]]]) :
     f \in BodiesOfF, g \in BodiesOfG, h \in BodiesOfH, u \in BodiesOfP, o \in Orders,
     how \in {"read"}} \union
  {Project(<<Script("F", <<"F">>, Out(One)), Unread(Script("G", <<"G">>, Out(F)), how),
             Unread(Script("C", None, Assign(<<"Count">>, "=", Half)), how)>>) :
     how \in {"broken", "deep"}}

MCProjects == RuleProjects \union ChainProjects
MCEdits == {Script("F", <<"F">>, Out(One))}

\* One project for the guess: the result of Max follows the argument it knows.
GuessProjects ==
  {Project(<<Script("F", <<"F">>, Out(f)), Script("G", <<"G">>, Out(Max2(One, F)))>>) :
     f \in {One, Number({"u"})}}
NoEdits == {}
=============================================================================
