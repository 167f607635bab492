------------------------------ MODULE Schedule ------------------------------
(***************************************************************************)
(* schedule.rs, check: circular write/read dependencies between scripts of *)
(* one rate (T088) and recursive calls of user functions (T097).  Both     *)
(* audits search a graph over the scripts with find_cycles, a depth-first  *)
(* search over a stack of paths, and report each cycle under its least     *)
(* member.                                                                 *)
(***************************************************************************)
EXTENDS Integers, Sequences, FiniteSets

CONSTANTS
  Name,           \* function symbols, numbered in their lexicographic order
  Channel,
  Rate, NoRate,   \* the rates of triggers; a function without a known one
  MaxDepth,       \* MAX_CYCLE_DEPTH
  Projects        \* the script sets under study

(* What script_io collects of a script that parses and backs a function.   *)
ScriptIo ==
  [fn : Name, rate : Rate \cup {NoRate}, writes : SUBSET Channel,
   reads : SUBSET Channel, calls : SUBSET Name]

ASSUME ScheduleAssumption ==
  /\ Name \subseteq Nat
  /\ NoRate \notin Rate
  /\ MaxDepth \in Nat \ {0}
  /\ Projects \subseteq Seq(ScriptIo)

VARIABLES
  ios,       \* the scripts, in the order they were gathered
  audit,     \* "T088" or "T097"
  phase,     \* "search", "report" or "done"
  start,     \* the script whose cycles are being searched
  stack,     \* the paths from `start` still to be explored
  path,      \* the path being explored
  todo,      \* the scripts its last member leads to, still to be looked at
  cycles,    \* the cycles found and not yet reported, each as a path
  reports    \* [code, anchor, path]

search == <<start, stack, path, todo>>
vars   == <<ios, audit, phase, search, cycles, reports>>

Scripts == DOMAIN ios

(* Two functions without a known rate do not run at the same rate.         *)
SameRateUnknown(i, w) == ios[i].rate = ios[w].rate
SameRate(i, w)        == ios[i].rate = ios[w].rate /\ ios[i].rate # NoRate

(* `deps`: a script depends on the others that write what it reads.        *)
Writers(c) == {w \in Scripts : c \in ios[w].writes}
Deps(i) ==
  {w \in UNION {Writers(c) : c \in ios[i].reads} : w # i /\ SameRate(i, w)}

(* `call_edges`: of two scripts that back one function the later counts.   *)
(* Mutant: the earlier one counts.                                         *)
BacksFirst(j, n) == /\ ios[j].fn = n
                    /\ \A k \in Scripts : ios[k].fn = n => k >= j
Backs(j, n) == /\ ios[j].fn = n
               /\ \A k \in Scripts : ios[k].fn = n => k <= j

CallEdgesToOthers(i) == {j \in Scripts : j # i /\ \E n \in ios[i].calls : Backs(j, n)}
CallEdges(i) == {j \in Scripts : \E n \in ios[i].calls : Backs(j, n)}

Edges(a, i) == IF a = "T088" THEN Deps(i) ELSE CallEdges(i)

On(p) == {p[i] : i \in DOMAIN p}

(* The lexicographically least function name on a cycle.                   *)
AnchorScript(p) == p[1]
Anchor(p) == CHOOSE n \in {ios[i].fn : i \in On(p)} :
               \A i \in On(p) : n <= ios[i].fn
-----------------------------------------------------------------------------
Init ==
  /\ ios \in Projects
  /\ audit = "T088"
  /\ phase = "search"
  /\ start = 0
  /\ stack = <<>>
  /\ path = <<>>
  /\ todo = {}
  /\ cycles = <<>>
  /\ reports = {}

(* The search from one script is over; it goes on with the next script, if *)
(* that leads anywhere.                                                    *)
NextStart ==
  /\ phase = "search"
  /\ todo = {}
  /\ stack = <<>>
  /\ start < Len(ios)
  /\ start' = start + 1
  /\ stack' = IF Edges(audit, start + 1) = {} THEN <<>> ELSE <<<<start + 1>>>>
  /\ UNCHANGED <<ios, audit, phase, path, todo, cycles, reports>>

(* `stack.pop()`.                                                          *)
Pop ==
  /\ phase = "search"
  /\ todo = {}
  /\ stack # <<>>
  /\ path' = stack[Len(stack)]
  /\ stack' = SubSeq(stack, 1, Len(stack) - 1)
  /\ todo' = Edges(audit, path'[Len(path')])
  /\ UNCHANGED <<ios, audit, phase, start, cycles, reports>>

(* The successors of the last script of a path, in the order of the set.   *)
IsNext(m) == m \in todo /\ \A n \in todo : m <= n

(* A successor that closes a cycle,                                        *)
Close(m) ==
  /\ phase = "search"
  /\ IsNext(m)
  /\ m = start
  /\ cycles' = Append(cycles, path)
  /\ todo' = todo \ {m}
  /\ UNCHANGED <<ios, audit, phase, start, stack, path, reports>>

(* one that prolongs the path,                                             *)
ProlongsShorter(m) == m \notin On(path) /\ Len(path) + 1 < MaxDepth
Prolongs(m)        == m \notin On(path) /\ Len(path) < MaxDepth

PushedBelow(p) == <<p>> \o stack
Pushed(p)      == Append(stack, p)

Push(m) ==
  /\ phase = "search"
  /\ IsNext(m)
  /\ m # start
  /\ Prolongs(m)
  /\ stack' = Pushed(Append(path, m))
  /\ todo' = todo \ {m}
  /\ UNCHANGED <<ios, audit, phase, start, path, cycles, reports>>

(* and one that does neither.                                              *)
Pass(m) ==
  /\ phase = "search"
  /\ IsNext(m)
  /\ m # start
  /\ ~Prolongs(m)
  /\ todo' = todo \ {m}
  /\ UNCHANGED <<ios, audit, phase, start, stack, path, cycles, reports>>

EndSearch ==
  /\ phase = "search"
  /\ todo = {}
  /\ stack = <<>>
  /\ start >= Len(ios)
  /\ phase' = "report"
  /\ UNCHANGED <<ios, audit, search, cycles, reports>>

Reported(code) == {r.anchor : r \in {q \in reports : q.code = code}}

(* One turn of the reporting loop: one report for each anchor.             *)
Report ==
  LET cycle == Head(cycles)
  IN  /\ phase = "report"
      /\ cycles # <<>>
      /\ cycles' = Tail(cycles)
      /\ reports' =
           IF Anchor(cycle) \in Reported(audit) THEN reports
           ELSE reports \cup
                  {[code |-> audit, anchor |-> Anchor(cycle), path |-> cycle]}
      /\ UNCHANGED <<ios, audit, phase, search>>

NextAudit ==
  /\ phase = "report"
  /\ cycles = <<>>
  /\ audit = "T088"
  /\ audit' = "T097"
  /\ phase' = "search"
  /\ start' = 0
  /\ UNCHANGED <<ios, stack, path, todo, cycles, reports>>

Finish ==
  /\ phase = "report"
  /\ cycles = <<>>
  /\ audit = "T097"
  /\ phase' = "done"
  /\ UNCHANGED <<ios, audit, search, cycles, reports>>

Done == phase = "done" /\ UNCHANGED vars

Next ==
  \/ NextStart \/ Pop \/ EndSearch \/ Report \/ NextAudit \/ Finish \/ Done
  \/ \E m \in todo : Close(m) \/ Push(m) \/ Pass(m)

Spec == Init /\ [][Next]_vars
-----------------------------------------------------------------------------
Code == {"T088", "T097"}

TypeOK ==
  /\ ios \in Projects
  /\ audit \in Code
  /\ phase \in {"search", "report", "done"}
  /\ start \in 0..Len(ios)
  /\ stack \in Seq(Seq(Scripts))
  /\ path \in Seq(Scripts)
  /\ todo \subseteq Scripts
  /\ cycles \in Seq(Seq(Scripts))
  /\ reports \subseteq [code : Code, anchor : Name, path : Seq(Scripts)]

(* The scripts of a cycle and the ones they lead to.                       *)
After(p, i) == p[IF i = Len(p) THEN 1 ELSE i + 1]
Distinct(p) == \A i, j \in DOMAIN p : p[i] = p[j] => i = j

(* A T088 report shows scripts of one known rate, each of which reads what *)
(* the next one writes; a T097 report shows functions each of which calls  *)
(* the next one, by the scripts that calls reach: of several that back one *)
(* function the last.  No script occurs twice, and the report is filed     *)
(* under the least name.                                                   *)
ReportsReal ==
  \A r \in reports :
    LET p == r.path
    IN  /\ p # <<>>
        /\ Distinct(p)
        /\ \E i \in DOMAIN p : ios[p[i]].fn = r.anchor
        /\ \A i \in DOMAIN p : r.anchor <= ios[p[i]].fn
        /\ r.code = "T088" =>
             /\ Len(p) > 1
             /\ \A i \in DOMAIN p :
                  /\ ios[p[i]].rate = ios[p[1]].rate
                  /\ ios[p[i]].rate \in Rate
                  /\ ios[p[i]].reads \cap ios[After(p, i)].writes # {}
        /\ r.code = "T097" =>
             \A i \in DOMAIN p :
                  /\ ios[After(p, i)].fn \in ios[p[i]].calls
                  /\ \A k \in Scripts :
                       ios[k].fn = ios[After(p, i)].fn => k <= After(p, i)

IsCycle(a, p) ==
  /\ p # <<>>
  /\ Distinct(p)
  /\ \A i \in DOMAIN p : After(p, i) \in Edges(a, p[i])

(* "Each cycle reported once via its lexicographically-smallest member",   *)
(* as far as the search goes: every cycle of up to MaxDepth scripts has a  *)
(* report under the name it would be reported under.                       *)
ShortCyclesReported ==
  phase = "done" =>
    \A a \in Code, n \in 1..MaxDepth : \A p \in [1..n -> Scripts] :
      IsCycle(a, p) => Anchor(p) \in Reported(a)

(* What a script calls, directly or not.                                   *)
CallsInto(i) ==
  {j \in Scripts :
     \A S \in SUBSET Scripts :
       (\A k \in S \cup {i} : \A l \in Scripts :
          ios[l].fn \in ios[k].calls => l \in S) => j \in S}

(* "A cycle -- separately flagged by T097": a function that calls itself,  *)
(* however indirectly, is in a cluster of mutual calls one of whose cycles *)
(* is reported, as long as no cycle can outgrow the search.                *)
RecursionFlagged ==
  /\ phase = "done"
  /\ Len(ios) <= MaxDepth
  /\ \A i, j \in Scripts : ios[i].fn = ios[j].fn => i = j
  => \A i \in Scripts :
       i \in CallsInto(i) =>
         \E r \in reports :
           /\ r.code = "T097"
           /\ \A j \in On(r.path) : j \in CallsInto(i) /\ i \in CallsInto(j)

(* Depth first: what waits to be explored are the younger siblings of the  *)
(* scripts on one path, so the stack stays small however many paths the    *)
(* graph has.                                                              *)
PendingBounded == stack # <<>> => Len(stack) <= 1 + (MaxDepth - 1) * (Len(ios) - 1)
=============================================================================
