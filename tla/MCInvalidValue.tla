-------------------------- MODULE MCInvalidValue --------------------------
(***************************************************************************)
(* Small scripts for the invalid-value walker.  Two float channels, A and  *)
(* B, an integer channel Count, a user function Ratio, a local x, and a    *)
(* script that backs Ratio.  B may also be spelled "Root.B".               *)
(***************************************************************************)
EXTENDS InvalidValue

MCName    == {"x", "A", "B", "Root.B", "Count", "Ratio", "Out"}
MCChannel == {"A", "B", "Count", "Ratio"}
MCResolves ==
  [n \in MCName |-> CASE n \in {"A", "B", "Count", "Ratio"} -> n
                      [] n = "Root.B" -> "B"
                      [] OTHER -> NoSymbol]

(* An expression is written as a tree and laid out node by node, each text *)
(* once and behind its parts.                                              *)
RECURSIVE Laid(_, _)
Laid(nodes, t) ==
  IF t \in ToSet(nodes) THEN nodes
  ELSE Append(FoldLeft(LAMBDA ns, u : Laid(ns, u), nodes, t.args), t)
Text(t) ==
  LET trees == Laid(<<>>, t)
      Place(u) == CHOOSE i \in DOMAIN trees : trees[i] = u
  IN  [i \in DOMAIN trees |->
         [trees[i] EXCEPT !.args = [k \in DOMAIN @ |-> Place(@[k])]]]

Tree(op, args)   == [op |-> op, args |-> args, name |-> "Out"]
Leaf(op)         == Tree(op, <<>>)
Read(n)          == [op |-> "read", args |-> <<>>, name |-> n]
Call(n, args)    == [op |-> "user", args |-> args, name |-> n]
One              == Leaf("literal")
Divide(e)        == Tree("divide", <<e, One>>)
Add(e)           == Tree("arith", <<e, One>>)
Filter(e)        == Tree("stateful", <<e>>)
IsNaN(e)         == Tree("IsNAN", <<e>>)
If(c, e, f)      == Tree("ternary", <<c, e, f>>)

Sets(kind, target, value, anns) ==
  [kind |-> kind, target |-> target, value |-> value, anns |-> anns,
   compound |-> FALSE, arm |-> "always"]
Assign(n, t)      == Sets("assign", n, Text(t), {})
Local(t)          == Sets("local", "x", Text(t), {})
Undefined         == Sets("local", "x", Nothing, {})
Marked(n, t, ann) == Sets("assign", n, Text(t), {ann})

(* Where an invalid value may come from, or be kept from.                  *)
First ==
  {Local(Divide(One)), Local(Tree("domain", <<Filter(Read("A"))>>)),
   Local(Filter(Divide(Read("A")))), Local(Call("Ratio", <<Read("A")>>)),
   Local(If(IsNaN(Read("A")), One, Read("A"))), Local(One),
   Assign("B", Leaf("infinity")), Assign("B", Divide(Read("B"))),
   Assign("Root.B", Filter(Read("A"))), Assign("B", Read("Root.B")),
   Local(Call("Ratio", <<Filter(Read("A"))>>)),
   Marked("B", Divide(Read("A")), "sanitizes"), Marked("A", One, "source"),
   Undefined, Local(Leaf("NAN")), Local(Read("Root.B"))}

(* Where it goes next.                                                     *)
Second ==
  {Assign("A", Read("x")), Assign("A", Filter(Read("x"))),
   Assign("B", Tree("compare", <<Read("x"), Read("A")>>)),
   Local(Add(Read("B"))), Local(Tree("clamp", <<Read("A"), Read("x")>>)),
   Assign("B", If(Tree("not", <<Tree("paren", <<IsNaN(Read("x"))>>)>>),
                  Read("x"), Read("A"))),
   Assign("A", If(Read("Count"), Tree("minus", <<Read("x")>>), One)),
   Assign("Out", Add(Read("A"))), Marked("x", Read("A"), "sanitizes")}

(* Where it must not arrive.                                               *)
Third ==
  {Marked("B", Read("x"), "requires-finite"),
   Marked("Out", Add(Read("A")), "safety-critical"),
   Marked("Count", Read("x"), "requires-finite"),
   Assign("Count", Read("Root.B")), Assign("Count", Add(Read("x"))),
   Assign("Count", Filter(Read("A")))}

(* An `if` whose last arm, in document order, is the one to worry about,   *)
(* and a compound assignment of an invalid value to a finite local.        *)
InArm(s, a)   == [s EXCEPT !.arm = a]
Compound(s)   == [s EXCEPT !.compound = TRUE]

Branching ==
  {<<InArm(Assign("A", One), "then"), InArm(Assign("A", Divide(One)), "else"), c>> :
     c \in Third}
  \cup {<<Local(One), Compound(Assign("x", Divide(One))), c>> : c \in Third}

MCScripts == {<<a, b, c>> : a \in First, b \in Second, c \in Third} \cup Branching

(* Nine of ten are scripts the theorems of InvalidValueProofs are about.   *)
ASSUME MostAreFollowed ==
  LET followed == {p \in MCScripts : Followed(p) /\ KeepsLatches(p)}
  IN  10 * Cardinality(followed) >= 9 * Cardinality(MCScripts)

(* A conditional assignment replaces the taint of an earlier one.          *)
OverwriteScripts ==
  {<<Local(Divide(One)), InArm(Assign("x", One), "then"),
     Marked("B", Read("x"), "requires-finite")>>}
===========================================================================
