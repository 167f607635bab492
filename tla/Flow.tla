-------------------------------- MODULE Flow --------------------------------
(***************************************************************************)
(* flow.rs: how often one execution path through a function body assigns   *)
(* each channel.  Sequential statements add, the arms of an `if` or a      *)
(* `when` exclude one another, and a call contributes what an expander     *)
(* knows of its callee.                                                    *)
(*                                                                         *)
(* A body is the sequence of its statements and blocks in document order,  *)
(* each in front of the nodes `parts` it is made of, so that the first one *)
(* is the whole.  A node is a record                                       *)
(*   kind   : a kind of statement, or "block"                              *)
(*   parts  : the statements of a block; the blocks of an `if` (then and   *)
(*            else), of a `when` (its arms) or of an `expand`              *)
(*   target : the Channel a plain assignment resolves to, or NoChannel     *)
(*   calls  : the user functions called by its own expressions (the value, *)
(*            the condition, the subject), in document order               *)
(*   copies : how many copies of the body an expand unrolls to             *)
(*   bounds : whether an expand's bounds are integer literals              *)
(* A compound assignment, a `.Set()` call and a `$(N)` target assign       *)
(* NoChannel.                                                              *)
(***************************************************************************)
EXTENDS Integers, Sequences, FiniteSets, SequencesExt

CONSTANTS Channel, NoChannel, Function,
          CounterMax,   \* the largest u32, scaled down
          MaxRange      \* the widest `expand` that is enumerated (256)

(* Two assignments can be told from one.                                   *)
ASSUME FlowAssumption ==
  /\ NoChannel \notin Channel
  /\ CounterMax \in Nat /\ CounterMax > 1
  /\ MaxRange \in Nat \ {0}

Kind == {"assign", "if", "when", "expand", "other", "block"}
Node == [kind : Kind, parts : Seq(Nat), target : Channel \cup {NoChannel},
         calls : Seq(Function), copies : Nat, bounds : BOOLEAN]
IsBody(b) ==
  /\ b \in Seq(Node) /\ b # <<>>
  /\ \A i \in DOMAIN b : \A k \in DOMAIN b[i].parts :
       b[i].parts[k] \in i + 1..Len(b)

(* Facts: the most assignments to each channel on any one path.            *)
Tally == [Channel -> 0..CounterMax]
Zero  == [c \in Channel |-> 0]

(* The addition of two u32 counters wraps in a release build.              *)
MergeSeq(a, b) == [c \in Channel |-> (a[c] + b[c]) % (CounterMax + 1)]

(* The facts of what runs one after the other: those of the first are      *)
(* added to those of all that follow.  (The code adds from the left; the   *)
(* sums are the same, and so is whether one of them wraps.)                *)
SumsFrom(facts) ==
  LET from[k \in 1..Len(facts) + 1] ==
        IF k > Len(facts) THEN Zero ELSE MergeSeq(facts[k], from[k + 1])
  IN  from
InSequence(facts) == SumsFrom(facts)[1]

(* `merge_alt`: of what excludes one another, or need not run at all.      *)
ExclusiveInSequence(facts) == InSequence(facts)
Exclusive(facts) ==
  [c \in Channel |-> Max({0} \cup {facts[k][c] : k \in DOMAIN facts})]

SaturatingMul(n, k) == IF n * k > CounterMax THEN CounterMax ELSE n * k

(* The number of copies `expand_binding` tells the analysis of: it gives   *)
(* up on bounds that are not literals and on wide or empty ranges, whose   *)
(* body then counts once.                                                  *)
(* Mutant: it counts as often as the widest range there is.                *)
IterationsWidest(n) ==
  IF n.bounds /\ n.copies \in 1..MaxRange THEN n.copies ELSE MaxRange

Iterations(n) == IF n.bounds /\ n.copies \in 1..MaxRange THEN n.copies ELSE 1

Scaled(a, k) == [c \in Channel |-> SaturatingMul(a[c], k)]

(* Every call of a statement runs when the statement runs.                 *)
CallFacts(calls, expand) == InSequence([k \in DOMAIN calls |-> expand[calls[k]]])

(* The condition of an if and the subject of a when run before any block.  *)
ConditionFactsNone(n, expand) == Zero
ConditionFacts(n, expand)     == CallFacts(n.calls, expand)

Once(target) == [c \in Channel |-> IF c = target THEN 1 ELSE 0]

(* What is known of the parts of a node.                                   *)
OfParts(n, values) == [k \in DOMAIN n.parts |-> values[n.parts[k]]]

FactsAt(b, expand, facts, i) ==
  LET n     == b[i]
      parts == OfParts(n, facts)
  IN  CASE n.kind = "assign" -> MergeSeq(Once(n.target), CallFacts(n.calls, expand))
        [] n.kind \in {"if", "when"} ->
             MergeSeq(ConditionFacts(n, expand), Exclusive(parts))
        [] n.kind = "expand" ->
             Exclusive([k \in DOMAIN parts |-> Scaled(parts[k], Iterations(n))])
        [] n.kind = "block" -> InSequence(parts)
        [] n.kind = "other" -> CallFacts(n.calls, expand)

FactsOf(b, expand) ==
  LET facts[i \in DOMAIN b] == FactsAt(b, expand, facts, i) IN facts
ChannelCounts(b, expand) == FactsOf(b, expand)[1]

(* Every function a body calls, in document order, duplicates kept.        *)
UserCallees(b) == FlattenSeq([i \in DOMAIN b |-> b[i].calls])

NoCalls == [f \in Function |-> Zero]

(* Whether every expand of a body is unrolled by the analysis.             *)
Enumerated(b) ==
  \A i \in DOMAIN b : b[i].kind = "expand" => b[i].bounds /\ b[i].copies <= MaxRange

(* Whether every expand of a body has a copy.                              *)
NoneEmpty(b) == \A i \in DOMAIN b : b[i].kind = "expand" => b[i].copies # 0

(* Whether the additions that count a body all stay below the largest u32: *)
(* the code checks none of them.                                           *)
Fit(a, b)     == \A c \in Channel : a[c] + b[c] <= CounterMax
AllFit(facts) == \A k \in DOMAIN facts : Fit(facts[k], SumsFrom(facts)[k + 1])

NothingWraps(b, expand) ==
  LET facts == FactsOf(b, expand)
  IN  \A i \in DOMAIN b :
        LET n     == b[i]
            parts == OfParts(n, facts)
        IN  /\ AllFit([k \in DOMAIN n.calls |-> expand[n.calls[k]]])
            /\ n.kind = "assign" => Fit(Once(n.target), CallFacts(n.calls, expand))
            /\ n.kind \in {"if", "when"} => Fit(ConditionFacts(n, expand), Exclusive(parts))
            /\ n.kind = "block" => AllFit(parts)

(* T040: the channels one body assigns more than once on a path.           *)
SingleAssignment(b) == {c \in Channel : ChannelCounts(b, NoCalls)[c] >= 2}
-----------------------------------------------------------------------------
(* What the counts are counts of: the execution paths of a body, each      *)
(* given by how often it assigns a channel, and who does.  `callee` gives  *)
(* the paths of the functions it calls.                                    *)
Path == [Channel -> [times : Nat, by : SUBSET Function]]
Still == [c \in Channel |-> [times |-> 0, by |-> {}]]

Write(c, f) == [Still EXCEPT ![c] = [times |-> 1, by |-> {f}]]
Both(p, q)  == [c \in Channel |-> [times |-> p[c].times + q[c].times,
                                   by    |-> p[c].by \cup q[c].by]]
Then(P, Q)  == {Both(p, q) : p \in P, q \in Q}

(* One path of each of the sets, one after the other.                      *)
InTurn(sets) ==
  LET from[k \in 1..Len(sets) + 1] ==
        IF k > Len(sets) THEN {Still} ELSE Then(sets[k], from[k + 1])
  IN  from[1]

CallPaths(calls, callee) == InTurn([k \in DOMAIN calls |-> callee[calls[k]]])

(* An if without an else, and a when of a state no arm names, may run none *)
(* of their blocks; an expand runs every copy, or none if its range is     *)
(* empty.                                                                  *)
PathsAt(f, b, callee, paths, i) ==
  LET n     == b[i]
      parts == OfParts(n, paths)
      any   == UNION {parts[k] : k \in DOMAIN parts}
      one   == IF n.target \in Channel THEN {Write(n.target, f)} ELSE {Still}
  IN  CASE n.kind = "assign" -> Then(one, CallPaths(n.calls, callee))
        [] n.kind \in {"if", "when"} ->
             Then(CallPaths(n.calls, callee), {Still} \cup any)
        [] n.kind = "expand" -> {Still} \cup InTurn([k \in 1..n.copies |-> any])
        [] n.kind = "block" -> InTurn(parts)
        [] n.kind = "other" -> CallPaths(n.calls, callee)

PathsOf(f, b, callee) ==
  LET paths[i \in DOMAIN b] == PathsAt(f, b, callee, paths, i) IN paths
Paths(f, b, callee) == PathsOf(f, b, callee)[1]
=============================================================================
