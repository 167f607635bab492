--------------------------- MODULE MCCrossScript ---------------------------
(***************************************************************************)
(* Small projects for the cross-script solver: three channels, three       *)
(* scripts.  The first script holds the sources, the second may write any  *)
(* channel from any other (filtered or not), the third writes one channel  *)
(* and may also be one the solver skips.  That gives two writers of one    *)
(* channel, feedback loops between scripts, latches on some paths and not  *)
(* on others, and sanitised writes.                                        *)
(***************************************************************************)
EXTENDS CrossScript, TLC

NoDeps == [d \in {} |-> FALSE]
Value(invalid, sanitised, lat, deps) ==
  [invalid |-> invalid, sanitised |-> sanitised, latched |-> lat, deps |-> deps]

Division  == Value(TRUE, FALSE, FALSE, NoDeps)
Filtered  == Value(TRUE, FALSE, TRUE, NoDeps)      \* Filter.*(a / b)
Sanitised == Value(FALSE, TRUE, FALSE, NoDeps)
Copy(d)   == Value(FALSE, FALSE, FALSE, d :> FALSE)
Smooth(d) == Value(FALSE, FALSE, FALSE, d :> TRUE)  \* Filter.*(d)
Mix(d, e) == Value(FALSE, FALSE, FALSE, d :> FALSE @@ e :> TRUE)
Ratio(d)  == Value(TRUE, FALSE, FALSE, d :> FALSE)  \* d / x

Writes(c, t) == [x \in Channel |-> IF x = c THEN <<t>> ELSE <<>>]
Sound(w) == [skipped |-> FALSE, writes |-> w]

SourceScripts ==
  {Sound(Writes(c, t)) : c \in Channel, t \in {Division, Filtered, Sanitised}}
  \cup {Sound([Writes(1, Division) EXCEPT ![2] = <<Sanitised, Filtered>>])}

CopyScripts ==
  {Sound([Writes(c, t) EXCEPT ![e] = <<u>>]) :
     c \in {1}, e \in {2, 3},
     t \in {Copy(d) : d \in {2, 3}} \cup {Smooth(d) : d \in {2, 3}},
     u \in {Copy(d) : d \in Channel} \cup {Smooth(d) : d \in Channel}}

LoopScripts ==
  {[skipped |-> b, writes |-> Writes(c, t)] :
     b \in BOOLEAN, c \in Channel,
     t \in {Copy(d) : d \in Channel} \cup {Ratio(1), Mix(1, 2), Mix(2, 3)}}

MCProjects ==
  {[s \in Script |-> IF s = 1 THEN a ELSE IF s = 2 THEN b ELSE l] :
     a \in SourceScripts, b \in CopyScripts, l \in LoopScripts}
============================================================================
