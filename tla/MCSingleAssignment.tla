------------------------- MODULE MCSingleAssignment -------------------------
(***************************************************************************)
(* Three functions f, g and h with a script and one, k, without; channels  *)
(* a and b.  Any function may have any body, so the calls may form cycles. *)
(***************************************************************************)
EXTENDS SingleAssignment

(* A body is written as a tree and laid out in document order, each node   *)
(* in front of its parts.                                                  *)
RECURSIVE Laid(_, _)
Laid(t, at) ==
  LET after(acc, u) ==
        LET start == at + 1 + Len(acc.nodes)
        IN  [nodes |-> acc.nodes \o Laid(u, start), starts |-> Append(acc.starts, start)]
      inner == FoldLeft(after, [nodes |-> <<>>, starts |-> <<>>], t.parts)
  IN  <<[t EXCEPT !.parts = inner.starts]>> \o inner.nodes

Tree(kind, target, calls, parts) ==
  [kind |-> kind, target |-> target, calls |-> calls, parts |-> parts,
   copies |-> 1, bounds |-> TRUE]
Block(statements) == Tree("block", NoChannel, <<>>, statements)
Set(c, calls)     == Tree("assign", c, calls, <<>>)
Call(f)           == Tree("other", NoChannel, <<f>>, <<>>)
If(calls, t, e)   == Tree("if", NoChannel, calls, <<Block(t), Block(e)>>)
When(calls, arms) == Tree("when", NoChannel, calls, [i \in DOMAIN arms |-> Block(arms[i])])
Expand(n, b)      == [Tree("expand", NoChannel, <<>>, <<Block(b)>>) EXCEPT !.copies = n]
Unknown(n, b)     == [Expand(n, b) EXCEPT !.bounds = FALSE]

Bodies(scripts) == {Laid(Block(statements), 1) : statements \in scripts}

Assigning == Bodies(
  {<<>>, <<Set("a", <<>>)>>, <<Set("a", <<>>), Set("b", <<>>)>>,
   <<If(<<>>, <<Set("a", <<>>)>>, <<Set("a", <<>>), Set("b", <<>>)>>)>>,
   <<Expand(2, <<Set("b", <<>>)>>)>>,
   <<Expand(0, <<Set("a", <<>>), Set("a", <<>>)>>)>>,
   <<Unknown(1, <<Set("a", <<>>)>>)>>})

Calling == Bodies(
  {<<Set("a", <<>>), Call("g")>>,
   <<Set("a", <<"h">>)>>,
   <<Call("k"), Call("h"), Call("g")>>,
   <<If(<<>>, <<Call("g"), Call("g")>>, <<Set("a", <<>>)>>)>>,
   <<If(<<"h">>, <<Set("a", <<>>)>>, <<Call("g")>>)>>,
   <<When(<<"g">>, <<<<Set("b", <<>>)>>, <<Call("h"), Set("b", <<>>)>>, <<>>>>)>>,
   <<Expand(2, <<Call("h")>>), Set("a", <<>>)>>,
   <<Set("b", <<>>), If(<<>>, <<Call("f")>>, <<>>)>>})

(* Calls back into f, and into itself by g or h.                           *)
Returning == Bodies(
  {<<Set("b", <<>>), If(<<>>, <<Call("f")>>, <<>>)>>, <<Set("a", <<"h">>)>>})

MCBody == Assigning \cup Calling

MCFunction == {"f", "g", "h", "k"}

MCPrograms ==
  {[body |-> [x \in MCFunction |-> CASE x = "f" -> bf [] x = "g" -> bg
                                     [] x = "h" -> bh [] OTHER -> Missing],
    order |-> o, scheduled |-> s] :
     bf \in Calling, bg \in MCBody, bh \in Assigning \cup Returning,
     o \in {<<"f", "g", "h">>, <<"h", "g", "f">>}, s \in {{"f", "g"}}}

(* A root that calls a helper twice on one arm and assigns on the other.   *)
LonePrograms ==
  {p \in MCPrograms :
     /\ p.order = <<"f", "g", "h">>
     /\ p.body["f"] \in Bodies({<<If(<<>>, <<Call("g"), Call("g")>>, <<Set("a", <<>>)>>)>>})}
=============================================================================
