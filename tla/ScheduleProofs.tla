--------------------------- MODULE ScheduleProofs ---------------------------
(***************************************************************************)
(* The search for cycles, for every number of scripts, every depth limit   *)
(* and every set of accesses: what is reported is a cycle, no cycle within *)
(* the limit goes without a report, no recursion goes unflagged, and the   *)
(* stack stays small.                                                      *)
(***************************************************************************)
EXTENDS Schedule, FiniteSetTheorems, SequenceTheorems, WellFoundedInduction, TLAPS

LEMMA Least ==
  ASSUME NEW T, T \subseteq Nat, T # {}
  PROVE  \E x \in T : \A y \in T : x <= y
<1> DEFINE R == OpToRel(<, Nat)
<1>1. IsWellFoundedOn(R, Nat)
  BY NatLessThanWellFounded
<1>2. \A x, y \in Nat : y < x => <<y, x>> \in R
  BY DEF OpToRel
<1> HIDE DEF R
<1>3. PICK x \in T : \A y \in T : ~(<<y, x>> \in R)
  BY <1>1, WFMin
<1>4. \A y \in T : ~(y < x)
  BY <1>2, <1>3
<1>5. \A y \in T : x <= y
  BY <1>4
<1> QED BY <1>5

Chain(s) == s \in Seq(Scripts) /\ s # <<>>

LEMMA Facts ==
  ASSUME ios \in Projects
  PROVE  /\ Len(ios) \in Nat
         /\ Scripts = 1..Len(ios)
         /\ \A i \in Scripts : ios[i] \in ScriptIo
<1>1. ios \in Seq(ScriptIo)
  BY ScheduleAssumption
<1> QED BY <1>1, LenProperties, ElementOfSeq DEF Scripts

(* The name a cycle is filed under is the least of those on it.            *)
LEMMA AnchorLeast ==
  ASSUME ios \in Projects, NEW p, Chain(p)
  PROVE  /\ Anchor(p) \in Name
         /\ \E i \in DOMAIN p : ios[p[i]].fn = Anchor(p)
         /\ \A i \in DOMAIN p : Anchor(p) <= ios[p[i]].fn
<1> DEFINE T == {ios[i].fn : i \in On(p)}
<1>1. /\ DOMAIN p = 1..Len(p) /\ Len(p) \in Nat \ {0}
      /\ \A i \in DOMAIN p : p[i] \in Scripts
  BY LenProperties, EmptySeq, ElementOfSeq DEF Chain
<1>2. T \subseteq Name
  BY <1>1, Facts DEF On, ScriptIo
<1>3. 1 \in DOMAIN p
  BY <1>1
<1>4. T # {}
  BY <1>3 DEF On
<1>5. \E n \in T : \A m \in T : n <= m
  BY <1>2, <1>4, Least, ScheduleAssumption
<1>6. \E n \in T : \A i \in On(p) : n <= ios[i].fn
  BY <1>5
<1>7. Anchor(p) \in T /\ \A i \in On(p) : Anchor(p) <= ios[i].fn
  BY <1>6 DEF Anchor
<1> QED BY <1>2, <1>7 DEF On

LEMMA EdgesAreScripts == \A a, i : Edges(a, i) \subseteq Scripts
BY DEF Edges, Deps, CallEdges, Writers

(* What the searched graphs and the reports are made of does not change.   *)
LEMMA IosKept == ASSUME [Next]_vars PROVE ios' = ios
BY DEF Next, NextStart, Pop, EndSearch, Report, NextAudit, Finish, Done, Close,
       Push, Pass, vars, search

LEMMA GraphKept ==
  ASSUME ios' = ios
  PROVE  /\ Scripts' = Scripts
         /\ \A a, i : Edges(a, i)' = Edges(a, i)
         /\ \A p : Anchor(p)' = Anchor(p)
BY DEF Scripts, Edges, Deps, CallEdges, Writers, SameRate, Backs, Anchor, On
-----------------------------------------------------------------------------
(* The paths and the cycles of each graph.  All scripts of a path of the   *)
(* dependency graph run at one rate; this is carried along with the path,  *)
(* from one script to the next.                                            *)
EdgesOf == [a \in Code |-> [i \in Scripts |-> Edges(a, i)]]

PathsOf ==
  [a \in Code |->
     {p \in Seq(Scripts) :
        /\ p # <<>>
        /\ Distinct(p)
        /\ \A i \in 1..(Len(p) - 1) : p[i + 1] \in EdgesOf[a][p[i]]
        /\ a = "T088" => \A i \in DOMAIN p : ios[p[i]].rate = ios[p[1]].rate}]

CyclesOf ==
  [a \in Code |-> {p \in PathsOf[a] : p[1] \in EdgesOf[a][p[Len(p)]]}]

AnchorOf == [p \in Seq(Scripts) |-> Anchor(p)]

LEMMA ShapesKept ==
  ASSUME ios' = ios
  PROVE  /\ Scripts' = Scripts
         /\ EdgesOf' = EdgesOf
         /\ PathsOf' = PathsOf
         /\ CyclesOf' = CyclesOf
         /\ AnchorOf' = AnchorOf
<1>1. Scripts' = Scripts
  BY GraphKept
<1>2. EdgesOf' = EdgesOf
  BY GraphKept, <1>1 DEF EdgesOf, Code
<1>3. PathsOf' = PathsOf
  BY <1>1, <1>2 DEF PathsOf, Code, Distinct
<1>4. CyclesOf' = CyclesOf
  BY <1>2, <1>3 DEF CyclesOf, Code
<1>5. AnchorOf' = AnchorOf
  BY GraphKept, <1>1 DEF AnchorOf
<1> QED BY <1>1, <1>2, <1>3, <1>4, <1>5

LEMMA PathFacts ==
  ASSUME NEW a \in Code, NEW p \in PathsOf[a]
  PROVE  /\ p \in Seq(Scripts) /\ p # <<>>
         /\ Len(p) \in Nat \ {0}
         /\ DOMAIN p = 1..Len(p)
         /\ \A i \in 1..Len(p) : p[i] \in Scripts
<1>1. p \in Seq(Scripts) /\ p # <<>>
  BY DEF PathsOf
<1> QED BY <1>1, EmptySeq, LenProperties, ElementOfSeq

(* A path grows by a script its last one leads to.                         *)
LEMMA PathGrows ==
  ASSUME NEW a \in Code, NEW p \in PathsOf[a],
         NEW m \in EdgesOf[a][p[Len(p)]], m \notin On(p)
  PROVE  /\ Append(p, m) \in PathsOf[a]
         /\ Append(p, m)[1] = p[1]
<1> DEFINE q == Append(p, m)
<1>1. /\ p \in Seq(Scripts) /\ Len(p) \in Nat \ {0} /\ DOMAIN p = 1..Len(p)
      /\ \A i \in 1..Len(p) : p[i] \in Scripts
  BY PathFacts
<1>2. m \in Scripts /\ EdgesOf[a][p[Len(p)]] = Edges(a, p[Len(p)])
  BY <1>1, EdgesAreScripts DEF EdgesOf
<1>3. /\ q \in Seq(Scripts) /\ q # <<>> /\ Len(q) = Len(p) + 1
      /\ DOMAIN q = 1..(Len(p) + 1)
      /\ \A i \in 1..Len(p) : q[i] = p[i]
      /\ q[Len(p) + 1] = m
  BY <1>1, <1>2, AppendProperties, LenProperties
<1> HIDE DEF q
<1>4. Distinct(q)
  <2>1. \A i \in 1..Len(p) : q[i] # m
    BY <1>1, <1>3 DEF On
  <2>2. \A i, j \in 1..Len(p) : q[i] = q[j] => i = j
    BY <1>1, <1>3 DEF PathsOf, Distinct
  <2>3. \A i \in DOMAIN q : i \in 1..Len(p) \/ i = Len(p) + 1
    BY <1>1, <1>3
  <2> QED BY <1>3, <2>1, <2>2, <2>3 DEF Distinct
<1>5. \A i \in 1..(Len(q) - 1) : q[i + 1] \in EdgesOf[a][q[i]]
  <2>1. \A i \in 1..(Len(p) - 1) : p[i + 1] \in EdgesOf[a][p[i]]
    BY DEF PathsOf
  <2>2. Len(q) - 1 = Len(p) /\ Len(p) \in Nat
    BY <1>1, <1>3
  <2> SUFFICES ASSUME NEW i \in 1..Len(p)
               PROVE  q[i + 1] \in EdgesOf[a][q[i]]
    BY <2>2
  <2>3. CASE i = Len(p)
    BY <1>1, <1>3, <2>3
  <2>4. CASE i # Len(p)
    <3>1. i \in 1..(Len(p) - 1) /\ i + 1 \in 1..Len(p) /\ i \in 1..Len(p)
      BY <2>2, <2>4
    <3> QED BY <3>1, <2>1, <1>3
  <2> QED BY <2>3, <2>4
<1>6. a = "T088" => \A i \in DOMAIN q : ios[q[i]].rate = ios[q[1]].rate
  <2>1. SUFFICES ASSUME a = "T088"
                 PROVE  \A i \in DOMAIN q : ios[q[i]].rate = ios[q[1]].rate
    OBVIOUS
  <2>2. \A i \in 1..Len(p) : ios[p[i]].rate = ios[p[1]].rate
    BY <1>1, <2>1 DEF PathsOf
  <2>3. ios[m].rate = ios[p[Len(p)]].rate
    BY <1>2, <2>1 DEF Edges, Deps, SameRate
  <2>4. Len(p) \in 1..Len(p) /\ 1 \in 1..Len(p)
    BY <1>1
  <2>5. \A i \in DOMAIN q : i \in 1..Len(p) \/ i = Len(p) + 1
    BY <1>1, <1>3
  <2>6. ios[m].rate = ios[p[1]].rate /\ q[1] = p[1]
    BY <1>3, <2>2, <2>3, <2>4
  <2> QED BY <1>3, <2>2, <2>5, <2>6
<1>7. q[1] = p[1]
  BY <1>1, <1>3
<1> QED BY <1>3, <1>4, <1>5, <1>6, <1>7 DEF q, PathsOf
-----------------------------------------------------------------------------
(* The invariant: what the search holds are paths from the current start,  *)
(* what it has found and what it has reported are cycles.                  *)
PathsFrom(i) == {p \in PathsOf[audit] : p[1] = i}

Explored ==
  /\ stack \in Seq(PathsFrom(start))
  /\ todo # {} => /\ path \in PathsFrom(start)
                  /\ todo \subseteq EdgesOf[audit][path[Len(path)]]
  /\ cycles \in Seq(CyclesOf[audit])

Idle ==
  /\ phase # "search" => stack = <<>> /\ todo = {}
  /\ phase = "done" => cycles = <<>> /\ audit = "T097"

Filed ==
  \A r \in reports : r.path \in CyclesOf[r.code] /\ r.anchor = AnchorOf[r.path]

Ranges ==
  /\ ios \in Projects
  /\ audit \in Code
  /\ phase \in {"search", "report", "done"}
  /\ start \in 0..Len(ios)
  /\ path \in Seq(Scripts)
  /\ todo \subseteq Scripts
  /\ reports \subseteq [code : Code, anchor : Name, path : Seq(Scripts)]

SearchInv == Ranges /\ Explored /\ Idle /\ Filed

LEMMA PathsAreSeqs ==
  ASSUME audit \in Code
  PROVE  /\ PathsFrom(start) \subseteq PathsOf[audit]
         /\ PathsOf[audit] \subseteq Seq(Scripts)
         /\ CyclesOf[audit] \subseteq Seq(Scripts)
BY DEF PathsFrom, PathsOf, CyclesOf

LEMMA SearchTyped == SearchInv => TypeOK
<1> SUFFICES ASSUME SearchInv PROVE TypeOK
  OBVIOUS
<1>1. audit \in Code
  BY DEF SearchInv, Ranges
<1>2. PathsFrom(start) \subseteq Seq(Scripts) /\ CyclesOf[audit] \subseteq Seq(Scripts)
  BY <1>1, PathsAreSeqs
<1>3. stack \in Seq(Seq(Scripts)) /\ cycles \in Seq(Seq(Scripts))
  BY <1>2, SeqMonotonic DEF SearchInv, Explored
<1> QED BY <1>3 DEF SearchInv, Ranges, TypeOK

LEMMA SearchInit == Init => SearchInv
<1> SUFFICES ASSUME Init PROVE SearchInv
  OBVIOUS
<1>1. Ranges
  BY Facts, EmptySeq DEF Init, Ranges, Code
<1>2. Explored
  BY EmptySeq DEF Init, Explored
<1> QED BY <1>1, <1>2 DEF Init, Idle, Filed, SearchInv

(* The least thing a path can be, and the end of one.                      *)
LEMMA StartPath ==
  ASSUME NEW a \in Code, NEW i \in Scripts
  PROVE  <<i>> \in PathsOf[a] /\ <<i>>[1] = i
<1>1. /\ <<i>> \in Seq(Scripts) /\ <<i>> # <<>> /\ Len(<<i>>) = 1
      /\ DOMAIN <<i>> = 1..1 /\ <<i>>[1] = i
  OBVIOUS
<1>2. Distinct(<<i>>)
  BY <1>1 DEF Distinct
<1>3. 1..(Len(<<i>>) - 1) = {}
  BY <1>1
<1>4. \A j \in DOMAIN <<i>> : ios[<<i>>[j]].rate = ios[<<i>>[1]].rate
  BY <1>1
<1> QED BY <1>1, <1>2, <1>3, <1>4 DEF PathsOf

LEMMA ReadyEdges ==
  ASSUME SearchInv, NEW p \in PathsOf[audit]
  PROVE  /\ Edges(audit, p[Len(p)]) = EdgesOf[audit][p[Len(p)]]
         /\ p[Len(p)] \in Scripts
<1>1. audit \in Code
  BY DEF SearchInv, Ranges
<1>2. Len(p) \in 1..Len(p) /\ \A i \in 1..Len(p) : p[i] \in Scripts
  BY <1>1, PathFacts
<1> QED BY <1>1, <1>2 DEF EdgesOf

(* A sequence without its last and without its first element.              *)
LEMMA Popped ==
  ASSUME NEW S, NEW s \in Seq(S), s # <<>>
  PROVE  /\ s[Len(s)] \in S
         /\ SubSeq(s, 1, Len(s) - 1) \in Seq(S)
         /\ Len(s) \in Nat \ {0}
         /\ Len(SubSeq(s, 1, Len(s) - 1)) = Len(s) - 1
         /\ \A i \in 1..(Len(s) - 1) : SubSeq(s, 1, Len(s) - 1)[i] = s[i]
<1>1. Len(s) \in Nat \ {0}
  BY EmptySeq, LenProperties
<1>2. \A i \in 1..Len(s) : s[i] \in S
  BY ElementOfSeq
<1>3. PICK n \in Nat : n = Len(s) - 1
  BY <1>1
<1>4. \A i \in 1..n : s[i] \in S
  BY <1>1, <1>2, <1>3
<1>5. /\ SubSeq(s, 1, n) \in Seq(S)
      /\ Len(SubSeq(s, 1, n)) = IF 1 <= n THEN n - 1 + 1 ELSE 0
      /\ \A i \in 1..(n - 1 + 1) : SubSeq(s, 1, n)[i] = s[1 + i - 1]
  BY <1>4, SubSeqProperties
<1>6. Len(SubSeq(s, 1, n)) = n /\ \A i \in 1..n : SubSeq(s, 1, n)[i] = s[i]
  BY <1>5
<1>7. Len(s) \in 1..Len(s)
  BY <1>1
<1> QED BY <1>1, <1>2, <1>3, <1>5, <1>6, <1>7

LEMMA SearchStep == SearchInv /\ [Next]_vars => SearchInv'
<1> SUFFICES ASSUME SearchInv, [Next]_vars PROVE SearchInv'
  OBVIOUS
<1>1. ios' = ios
  BY IosKept
<1>2. /\ Scripts' = Scripts /\ EdgesOf' = EdgesOf /\ PathsOf' = PathsOf
      /\ CyclesOf' = CyclesOf /\ AnchorOf' = AnchorOf
  BY <1>1, ShapesKept
<1>3. /\ audit \in Code /\ start \in 0..Len(ios) /\ Len(ios) \in Nat
      /\ Scripts = 1..Len(ios)
  BY Facts DEF SearchInv, Ranges
<1> USE DEF SearchInv, Ranges, Explored, Idle, Filed, PathsFrom
<1>4. CASE NextStart
  <2>1. start' \in Scripts
    BY <1>3, <1>4 DEF NextStart
  <2>2. <<start'>> \in PathsOf[audit] /\ <<start'>>[1] = start'
    BY <1>3, <2>1, StartPath
  <2>3. stack' = <<>> \/ stack' = <<<<start'>>>>
    BY <1>4 DEF NextStart
  <2>4. stack' \in Seq(PathsFrom(start)')
    BY <1>2, <1>4, <2>2, <2>3 DEF NextStart
  <2> QED BY <1>1, <1>2, <1>3, <1>4, <2>1, <2>4 DEF NextStart
<1>5. CASE Pop
  <2>1. /\ path' \in PathsFrom(start)
        /\ stack' \in Seq(PathsFrom(start))
    BY <1>5, Popped DEF Pop
  <2>2. todo' = EdgesOf[audit][path'[Len(path')]] /\ todo' \subseteq Scripts
    BY <1>5, <2>1, ReadyEdges, EdgesAreScripts DEF Pop
  <2>3. path' \in Seq(Scripts)
    BY <1>3, <2>1, PathsAreSeqs
  <2> QED BY <1>1, <1>2, <1>3, <1>5, <2>1, <2>2, <2>3 DEF Pop
<1>6. CASE EndSearch
  BY <1>1, <1>2, <1>3, <1>6 DEF EndSearch, search
<1>7. CASE Report
  <2>1. /\ Head(cycles) \in CyclesOf[audit]
        /\ Tail(cycles) \in Seq(CyclesOf[audit])
    BY <1>7, HeadTailProperties DEF Report
  <2>2. Head(cycles) \in Seq(Scripts) /\ Chain(Head(cycles))
    BY <1>3, <2>1 DEF CyclesOf, PathsOf, Chain
  <2>3. Anchor(Head(cycles)) \in Name
        /\ AnchorOf[Head(cycles)] = Anchor(Head(cycles))
    BY <2>2, AnchorLeast DEF AnchorOf
  <2>4. \A r \in reports' :
          \/ r \in reports
          \/ r = [code |-> audit, anchor |-> Anchor(Head(cycles)),
                  path |-> Head(cycles)]
    BY <1>7 DEF Report
  <2>5. Filed'
    BY <1>2, <2>1, <2>3, <2>4
  <2>6. reports' \subseteq [code : Code, anchor : Name, path : Seq(Scripts)]
    BY <1>3, <2>2, <2>3, <2>4
  <2> QED BY <1>1, <1>2, <1>3, <1>7, <2>1, <2>5, <2>6 DEF Report, search
<1>8. CASE NextAudit
  <2>1. stack' = <<>> /\ cycles' = <<>> /\ todo' = {} /\ start' = 0
    BY <1>8 DEF NextAudit
  <2>2. Explored'
    BY <2>1, EmptySeq
  <2> QED BY <1>1, <1>2, <1>3, <1>8, <2>1, <2>2 DEF NextAudit, Code
<1>9. CASE Finish
  BY <1>1, <1>2, <1>3, <1>9 DEF Finish, search
<1>10. CASE UNCHANGED vars
  BY <1>1, <1>2, <1>3, <1>10 DEF vars, search
<1>11. ASSUME NEW m \in todo, Close(m) PROVE SearchInv'
  <2>1. path \in CyclesOf[audit]
    BY <1>3, <1>11 DEF Close, CyclesOf
  <2>2. cycles' \in Seq(CyclesOf[audit])
    BY <1>11, <2>1, AppendProperties DEF Close
  <2> QED BY <1>1, <1>2, <1>3, <1>11, <2>2 DEF Close
<1>12. ASSUME NEW m \in todo, Push(m) PROVE SearchInv'
  <2>1. Append(path, m) \in PathsFrom(start)
    BY <1>3, <1>12, PathGrows DEF Push, Prolongs
  <2>2. stack' \in Seq(PathsFrom(start))
    BY <1>12, <2>1, AppendProperties DEF Push, Pushed
  <2> QED BY <1>1, <1>2, <1>3, <1>12, <2>2 DEF Push
<1>13. ASSUME NEW m \in todo, Pass(m) PROVE SearchInv'
  BY <1>1, <1>2, <1>3, <1>13 DEF Pass
<1> QED
  BY <1>4, <1>5, <1>6, <1>7, <1>8, <1>9, <1>10, <1>11, <1>12, <1>13
  DEF Next, Done

(* Every reachable state of the search has its type.                       *)
THEOREM TypeCorrect == Spec => []TypeOK
<1>1. Spec => []SearchInv
  BY SearchInit, SearchStep, PTL DEF Spec
<1> QED BY <1>1, SearchTyped, PTL
-----------------------------------------------------------------------------
LEMMA CycleEdges ==
  ASSUME NEW a \in Code, NEW p \in CyclesOf[a]
  PROVE  \A i \in DOMAIN p : /\ p[i] \in Scripts
                             /\ After(p, i) \in Scripts
                             /\ After(p, i) \in Edges(a, p[i])
<1>1. p \in PathsOf[a] /\ p[1] \in EdgesOf[a][p[Len(p)]]
  BY DEF CyclesOf
<1>2. /\ Len(p) \in Nat \ {0} /\ DOMAIN p = 1..Len(p)
      /\ \A i \in 1..Len(p) : p[i] \in Scripts
  BY <1>1, PathFacts
<1>3. TAKE i \in DOMAIN p
<1>4. EdgesOf[a][p[i]] = Edges(a, p[i])
  BY <1>2 DEF EdgesOf
<1>5. CASE i = Len(p)
  BY <1>1, <1>2, <1>4, <1>5 DEF After
<1>6. CASE i # Len(p)
  <2>1. i \in 1..(Len(p) - 1) /\ i + 1 \in 1..Len(p)
    BY <1>2, <1>6
  <2>2. p[i + 1] \in EdgesOf[a][p[i]]
    BY <1>1, <2>1 DEF PathsOf
  <2> QED BY <1>2, <1>4, <1>6, <2>1, <2>2 DEF After
<1> QED BY <1>5, <1>6

LEMMA DependencyEdge ==
  ASSUME ios \in Projects, NEW i \in Scripts, NEW j \in Edges("T088", i)
  PROVE  /\ j # i
         /\ ios[i].rate \in Rate
         /\ ios[i].reads \cap ios[j].writes # {}
<1>1. j \in Deps(i)
  BY DEF Edges
<1>2. ios[i].rate \in Rate \cup {NoRate}
  BY Facts DEF ScriptIo
<1> QED BY <1>1, <1>2 DEF Deps, Writers, SameRate

LEMMA CallEdge ==
  ASSUME NEW i, NEW j \in Edges("T097", i)
  PROVE  /\ ios[j].fn \in ios[i].calls
         /\ \A k \in Scripts : ios[k].fn = ios[j].fn => k <= j
<1>1. j \in CallEdges(i)
  BY DEF Edges
<1> QED BY <1>1 DEF CallEdges, Backs

(* What is filed is a cycle of the audit it is filed by, under its least   *)
(* name.                                                                   *)
LEMMA FiledAreReal == SearchInv => ReportsReal
<1> SUFFICES ASSUME SearchInv, NEW r \in reports
             PROVE  LET p == r.path
                    IN  /\ p # <<>>
                        /\ Distinct(p)
                        /\ \E i \in DOMAIN p : ios[p[i]].fn = r.anchor
                        /\ \A i \in DOMAIN p : r.anchor <= ios[p[i]].fn
                        /\ r.code = "T088" =>
                             /\ Len(p) > 1
                             /\ \A i \in DOMAIN p :
                                  /\ ios[p[i]].rate = ios[p[1]].rate
                                  /\ ios[p[i]].rate \in Rate
                                  /\ ios[p[i]].reads \cap ios[After(p, i)].writes # {}
                        /\ r.code = "T097" =>
                             \A i \in DOMAIN p :
                                  /\ ios[After(p, i)].fn \in ios[p[i]].calls
                                  /\ \A k \in Scripts :
                                       ios[k].fn = ios[After(p, i)].fn => k <= After(p, i)
  BY DEF ReportsReal
<1> DEFINE p == r.path
<1>1. /\ r.code \in Code /\ p \in CyclesOf[r.code] /\ r.anchor = AnchorOf[p]
      /\ ios \in Projects
  BY DEF SearchInv, Ranges, Filed
<1>2. p \in PathsOf[r.code]
  BY <1>1 DEF CyclesOf
<1>3. /\ Chain(p) /\ Len(p) \in Nat \ {0} /\ DOMAIN p = 1..Len(p)
  BY <1>1, <1>2, PathFacts DEF Chain
<1>4. r.anchor = Anchor(p)
  BY <1>1, <1>3 DEF AnchorOf, Chain
<1>5. \A i \in DOMAIN p : /\ p[i] \in Scripts
                          /\ After(p, i) \in Scripts
                          /\ After(p, i) \in Edges(r.code, p[i])
  BY <1>1, CycleEdges
<1>6. Distinct(p)
  BY <1>1, <1>2 DEF PathsOf
<1>7. ASSUME r.code = "T088"
      PROVE  /\ Len(p) > 1
             /\ \A i \in DOMAIN p :
                  /\ ios[p[i]].rate = ios[p[1]].rate
                  /\ ios[p[i]].rate \in Rate
                  /\ ios[p[i]].reads \cap ios[After(p, i)].writes # {}
  <2>1. \A i \in DOMAIN p : /\ After(p, i) # p[i]
                            /\ ios[p[i]].rate \in Rate
                            /\ ios[p[i]].reads \cap ios[After(p, i)].writes # {}
    BY <1>1, <1>5, <1>7, DependencyEdge
  <2>2. Len(p) > 1
    <3>1. PICK n \in Nat \ {0} : n = Len(p)
      BY <1>3
    <3>2. 1 \in DOMAIN p /\ After(p, 1) # p[1]
      BY <1>3, <2>1
    <3>3. n # 1
      BY <3>1, <3>2 DEF After
    <3>4. n > 1
      BY <3>3
    <3> QED BY <3>1, <3>4
  <2>3. \A i \in DOMAIN p : ios[p[i]].rate = ios[p[1]].rate
    BY <1>1, <1>2, <1>7 DEF PathsOf
  <2> QED BY <2>1, <2>2, <2>3
<1>8. ASSUME r.code = "T097"
      PROVE  \A i \in DOMAIN p :
               /\ ios[After(p, i)].fn \in ios[p[i]].calls
               /\ \A k \in Scripts : ios[k].fn = ios[After(p, i)].fn => k <= After(p, i)
  BY <1>5, <1>8, CallEdge
<1>9. /\ \E i \in DOMAIN p : ios[p[i]].fn = r.anchor
      /\ \A i \in DOMAIN p : r.anchor <= ios[p[i]].fn
  BY <1>1, <1>3, <1>4, AnchorLeast
<1> QED BY <1>3, <1>6, <1>7, <1>8, <1>9 DEF Chain

(* Whatever the scripts are, a reported dependency cycle is one between    *)
(* scripts of one known rate, and a reported recursion is one of calls,    *)
(* through the last script of each function.                               *)
THEOREM OnlyCyclesReported == Spec => []ReportsReal
<1>1. Spec => []SearchInv
  BY SearchInit, SearchStep, PTL DEF Spec
<1> QED BY <1>1, FiledAreReal, PTL
-----------------------------------------------------------------------------
(* Completeness.  A cycle within the depth limit has been found, or some   *)
(* beginning of it waits on the stack or is the path being explored.       *)
ShortCycles ==
  [a \in Code |-> {c \in Seq(Scripts) : Len(c) <= MaxDepth /\ IsCycle(a, c)}]

Found(c)   == \E j \in DOMAIN cycles : cycles[j] = c
Waiting(c) == \E k \in 1..Len(c) : \E j \in DOMAIN stack : stack[j] = SubSeq(c, 1, k)
Current(c) == \E k \in 1..Len(c) : path = SubSeq(c, 1, k) /\ After(c, k) \in todo

ReportedOf == [a \in Code |-> Reported(a)]

Sought ==
  \A c \in ShortCycles[audit] :
    /\ phase = "search" /\ c[1] < start => Found(c)
    /\ phase = "search" /\ c[1] = start => Found(c) \/ Waiting(c) \/ Current(c)
    /\ phase # "search" => Found(c) \/ AnchorOf[c] \in ReportedOf[audit]

FirstAudit ==
  audit = "T097" => \A c \in ShortCycles["T088"] : AnchorOf[c] \in ReportedOf["T088"]

Complete == Sought /\ FirstAudit

LEMMA ShortCyclesKept == ASSUME ios' = ios PROVE ShortCycles' = ShortCycles
BY GraphKept DEF ShortCycles, Code, IsCycle, Distinct, After

LEMMA ShortCycleFacts ==
  ASSUME ios \in Projects, NEW a \in Code, NEW c \in ShortCycles[a]
  PROVE  /\ c \in Seq(Scripts) /\ Len(c) \in 1..MaxDepth
         /\ \A i \in 1..Len(c) : c[i] \in Scripts
         /\ c[1] \in 1..Len(ios)
         /\ \A i \in 1..Len(c) : After(c, i) \in Edges(a, c[i])
         /\ \A i, j \in 1..Len(c) : c[i] = c[j] => i = j
         /\ After(c, Len(c)) = c[1]
         /\ \A i \in 1..Len(c) :
              i # Len(c) => /\ After(c, i) = c[i + 1]
                            /\ i + 1 \in 1..Len(c)
                            /\ After(c, i) # c[1]
<1>1. c \in Seq(Scripts) /\ Len(c) <= MaxDepth /\ IsCycle(a, c)
  BY DEF ShortCycles
<1>2. /\ Len(c) \in Nat \ {0} /\ DOMAIN c = 1..Len(c)
      /\ \A i \in 1..Len(c) : c[i] \in Scripts
  BY <1>1, EmptySeq, LenProperties, ElementOfSeq DEF IsCycle
<1>3. Len(c) \in 1..MaxDepth /\ 1 \in 1..Len(c)
  BY <1>1, <1>2, ScheduleAssumption
<1>4. \A i, j \in 1..Len(c) : c[i] = c[j] => i = j
  BY <1>1, <1>2 DEF IsCycle, Distinct
<1>5. \A i \in 1..Len(c) : After(c, i) \in Edges(a, c[i])
  BY <1>1, <1>2 DEF IsCycle
<1>6. \A i \in 1..Len(c) :
        i # Len(c) => After(c, i) = c[i + 1] /\ i + 1 \in 1..Len(c) /\ i + 1 # 1
  <2>1. PICK n \in Nat : n = Len(c)
    BY <1>2
  <2>2. \A i \in 1..n : i # n => i + 1 \in 1..n /\ i + 1 # 1
    OBVIOUS
  <2> QED BY <2>1, <2>2 DEF After
<1>7. \A i \in 1..Len(c) : i # Len(c) => c[i + 1] # c[1]
  BY <1>3, <1>4, <1>6
<1>8. c[1] \in 1..Len(ios)
  BY <1>2, <1>3, Facts
<1> QED BY <1>1, <1>2, <1>3, <1>4, <1>5, <1>6, <1>7, <1>8 DEF After

(* The beginnings of a sequence.                                           *)
LEMMA PrefixFacts ==
  ASSUME NEW S, NEW s \in Seq(S), NEW k \in 1..Len(s)
  PROVE  /\ SubSeq(s, 1, k) \in Seq(S)
         /\ Len(SubSeq(s, 1, k)) = k
         /\ \A i \in 1..k : SubSeq(s, 1, k)[i] = s[i]
<1>1. Len(s) \in Nat /\ \A i \in 1..Len(s) : s[i] \in S
  BY LenProperties, ElementOfSeq
<1>2. \A i \in 1..k : s[i] \in S
  BY <1>1
<1>3. /\ SubSeq(s, 1, k) \in Seq(S)
      /\ Len(SubSeq(s, 1, k)) = IF 1 <= k THEN k - 1 + 1 ELSE 0
      /\ \A i \in 1..(k - 1 + 1) : SubSeq(s, 1, k)[i] = s[1 + i - 1]
  BY <1>1, <1>2, SubSeqProperties
<1> QED BY <1>1, <1>3

LEMMA PrefixGrows ==
  ASSUME NEW S, NEW s \in Seq(S), NEW k \in 1..Len(s), k # Len(s)
  PROVE  SubSeq(s, 1, k + 1) = Append(SubSeq(s, 1, k), s[k + 1])
<1>1. Len(s) \in Nat /\ k + 1 \in 1..Len(s) /\ s[k + 1] \in S
  BY LenProperties, ElementOfSeq
<1>2. /\ SubSeq(s, 1, k) \in Seq(S) /\ Len(SubSeq(s, 1, k)) = k
      /\ \A i \in 1..k : SubSeq(s, 1, k)[i] = s[i]
      /\ SubSeq(s, 1, k + 1) \in Seq(S) /\ Len(SubSeq(s, 1, k + 1)) = k + 1
      /\ \A i \in 1..(k + 1) : SubSeq(s, 1, k + 1)[i] = s[i]
  BY <1>1, PrefixFacts
<1> DEFINE t == Append(SubSeq(s, 1, k), s[k + 1])
<1>3. /\ t \in Seq(S) /\ Len(t) = k + 1
      /\ \A i \in 1..k : t[i] = s[i]
      /\ t[k + 1] = s[k + 1]
  BY <1>1, <1>2, AppendProperties
<1> HIDE DEF t
<1>4. \A i \in 1..(k + 1) : i \in 1..k \/ i = k + 1
  BY <1>1
<1>5. \A i \in 1..(k + 1) : t[i] = SubSeq(s, 1, k + 1)[i]
  BY <1>2, <1>3, <1>4
<1>6. t = SubSeq(s, 1, k + 1)
  BY <1>2, <1>3, <1>5, SeqEqual
<1> QED BY <1>6 DEF t

LEMMA CompleteInit == Init => Complete
<1> SUFFICES ASSUME Init PROVE Complete
  OBVIOUS
<1>1. \A c \in ShortCycles["T088"] : c[1] \in 1..Len(ios)
  BY ShortCycleFacts DEF Init, Code
<1>2. Len(ios) \in Nat
  BY Facts DEF Init
<1>3. \A i \in 1..Len(ios) : ~(i < 0) /\ i # 0
  BY <1>2
<1> QED BY <1>1, <1>3 DEF Init, Complete, Sought, FirstAudit

(* What is reported stays reported.                                        *)
LEMMA ReportedKept ==
  ASSUME reports \subseteq reports'
  PROVE  \A a \in Code : ReportedOf[a] \subseteq ReportedOf'[a]
BY DEF ReportedOf, Reported, Code

LEMMA Singleton ==
  ASSUME NEW S, NEW s \in Seq(S), Len(s) = 1
  PROVE  s = <<s[1]>>
<1>1. s[1] \in S
  BY ElementOfSeq
<1>2. <<s[1]>> \in Seq(S) /\ Len(<<s[1]>>) = 1 /\ <<s[1]>>[1] = s[1]
  BY <1>1
<1>3. \A i \in 1..Len(s) : s[i] = <<s[1]>>[i]
  BY <1>2
<1> QED BY <1>2, <1>3, SeqEqual

LEMMA CompleteStep == SearchInv /\ Complete /\ [Next]_vars => Complete'
<1> SUFFICES ASSUME SearchInv, Complete, [Next]_vars PROVE Complete'
  OBVIOUS
<1>1. ios' = ios
  BY IosKept
<1>2. ShortCycles' = ShortCycles /\ AnchorOf' = AnchorOf
  BY <1>1, ShapesKept, ShortCyclesKept
<1>3. /\ audit \in Code /\ start \in 0..Len(ios) /\ Len(ios) \in Nat
      /\ ios \in Projects /\ Scripts = 1..Len(ios)
  BY Facts DEF SearchInv, Ranges
<1>4. /\ \A c \in ShortCycles[audit] :
           /\ c \in Seq(Scripts) /\ Len(c) \in 1..MaxDepth
           /\ \A i \in 1..Len(c) : c[i] \in Scripts
           /\ c[1] \in 1..Len(ios)
           /\ \A i \in 1..Len(c) : After(c, i) \in Edges(audit, c[i])
           /\ \A i, j \in 1..Len(c) : c[i] = c[j] => i = j
           /\ After(c, Len(c)) = c[1]
           /\ \A i \in 1..Len(c) :
                i # Len(c) => /\ After(c, i) = c[i + 1]
                              /\ i + 1 \in 1..Len(c)
                              /\ After(c, i) # c[1]
  BY <1>3, ShortCycleFacts
<1>5. DOMAIN stack = 1..Len(stack) /\ DOMAIN cycles = 1..Len(cycles)
      /\ Len(stack) \in Nat /\ Len(cycles) \in Nat
  BY LenProperties DEF SearchInv, Explored
<1>6. ASSUME UNCHANGED <<audit, cycles, reports>> PROVE FirstAudit' /\ (\A c : Found(c)' = Found(c))
  BY <1>2, <1>6 DEF Complete, FirstAudit, ReportedOf, Reported, Found
<1>7. CASE NextStart
  <2>1. SUFFICES ASSUME NEW c \in ShortCycles[audit]
                 PROVE  /\ c[1] < start' => Found(c)
                        /\ c[1] = start' => Found(c) \/ Waiting(c)'
    BY <1>2, <1>6, <1>7 DEF NextStart, Complete, Sought
  <2>2. c[1] \in 1..Len(ios) /\ (c[1] < start' => c[1] < start \/ c[1] = start)
    BY <1>3, <1>4, <1>7 DEF NextStart
  <2>3. ~Waiting(c) /\ ~Current(c)
    BY <1>7 DEF NextStart, Waiting, Current
  <2>4. ASSUME c[1] = start' PROVE Waiting(c)'
    <3>1. 1 \in 1..Len(c)
      BY <1>4
    <3>2. After(c, 1) \in Edges(audit, start')
      BY <1>4, <2>4, <3>1
    <3>3. stack' = <<<<start'>>>>
      BY <1>7, <3>2 DEF NextStart
    <3>4. /\ SubSeq(c, 1, 1) \in Seq(Scripts) /\ Len(SubSeq(c, 1, 1)) = 1
          /\ SubSeq(c, 1, 1)[1] = c[1]
      BY <1>4, <3>1, PrefixFacts
    <3>5. SubSeq(c, 1, 1) = <<start'>>
      BY <2>4, <3>4, Singleton
    <3>6. 1 \in DOMAIN stack' /\ stack'[1] = <<start'>>
      BY <3>3
    <3> QED BY <3>1, <3>5, <3>6 DEF Waiting
  <2> QED BY <1>7, <2>2, <2>3, <2>4 DEF NextStart, Complete, Sought
<1>8. CASE Pop
  <2>1. SUFFICES ASSUME NEW c \in ShortCycles[audit], Waiting(c), c[1] = start
                 PROVE  Waiting(c)' \/ Current(c)'
    BY <1>2, <1>6, <1>8 DEF Pop, Complete, Sought, Current
  <2>2. PICK k \in 1..Len(c) : \E j \in DOMAIN stack : stack[j] = SubSeq(c, 1, k)
    BY <2>1 DEF Waiting
  <2>3. PICK j \in DOMAIN stack : stack[j] = SubSeq(c, 1, k)
    BY <2>2
  <2>4. /\ Len(SubSeq(c, 1, k)) = k /\ k \in 1..k
        /\ \A i \in 1..k : SubSeq(c, 1, k)[i] = c[i]
    BY <1>4, PrefixFacts
  <2>5. CASE j = Len(stack)
    <3>1. path' = SubSeq(c, 1, k)
      BY <1>8, <2>3, <2>5 DEF Pop
    <3>2. path'[Len(path')] = c[k]
      BY <2>4, <3>1
    <3>3. After(c, k) \in todo'
      BY <1>4, <1>8, <3>2 DEF Pop
    <3> QED BY <3>1, <3>3 DEF Current, After
  <2>6. CASE j # Len(stack)
    <3>1. /\ stack' \in Seq(PathsFrom(start))
          /\ Len(stack') = Len(stack) - 1
          /\ \A i \in 1..(Len(stack) - 1) : stack'[i] = stack[i]
      BY <1>8, Popped DEF Pop, SearchInv, Explored
    <3>2. j \in 1..(Len(stack) - 1)
      BY <1>5, <2>6
    <3>3. j \in DOMAIN stack' /\ stack'[j] = SubSeq(c, 1, k)
      BY <2>3, <3>1, <3>2, LenProperties
    <3> QED BY <3>3 DEF Waiting
  <2> QED BY <2>5, <2>6
<1>9. CASE EndSearch
  <2>1. \A c \in ShortCycles[audit] :
          /\ c[1] < start \/ c[1] = start
          /\ ~Waiting(c) /\ ~Current(c)
    BY <1>3, <1>4, <1>9 DEF EndSearch, Waiting, Current
  <2>2. \A c \in ShortCycles[audit] : Found(c)
    BY <1>9, <2>1 DEF EndSearch, Complete, Sought
  <2> QED BY <1>2, <1>6, <1>9, <2>2 DEF EndSearch, Complete, Sought
<1>10. CASE Report
  <2>1. reports \subseteq reports'
    BY <1>10 DEF Report
  <2>2. \A a \in Code : ReportedOf[a] \subseteq ReportedOf'[a]
    BY <2>1, ReportedKept
  <2>3. AnchorOf[Head(cycles)] \in ReportedOf'[audit]
    <3>1. Head(cycles) \in Seq(Scripts)
      BY <1>3, <1>10, HeadTailProperties, PathsAreSeqs
      DEF Report, SearchInv, Explored
    <3>2. AnchorOf[Head(cycles)] = Anchor(Head(cycles))
      BY <3>1 DEF AnchorOf
    <3>3. CASE Anchor(Head(cycles)) \in Reported(audit)
      BY <1>3, <2>2, <3>2, <3>3 DEF ReportedOf
    <3>4. CASE Anchor(Head(cycles)) \notin Reported(audit)
      <4> DEFINE r == [code |-> audit, anchor |-> Anchor(Head(cycles)),
                       path |-> Head(cycles)]
      <4>1. r \in reports' /\ r.code = audit /\ r.anchor = AnchorOf[Head(cycles)]
        BY <1>10, <3>2, <3>4 DEF Report
      <4> QED BY <1>3, <4>1 DEF ReportedOf, Reported
    <3> QED BY <3>3, <3>4
  <2>4. ASSUME NEW c \in ShortCycles[audit]
        PROVE  Found(c)' \/ AnchorOf[c] \in ReportedOf'[audit]
    <3>1. CASE AnchorOf[c] \in ReportedOf[audit]
      BY <1>3, <2>2, <3>1
    <3>2. CASE Found(c)
      <4>1. PICK j \in DOMAIN cycles : cycles[j] = c
        BY <3>2 DEF Found
      <4>2. CASE j = 1
        BY <2>3, <4>1, <4>2, <1>10 DEF Report
      <4>3. CASE j # 1
        <5>1. /\ cycles' \in Seq(CyclesOf[audit])
              /\ Len(cycles') = Len(cycles) - 1
              /\ \A i \in 1..Len(cycles') : cycles'[i] = cycles[i + 1]
          BY <1>10, HeadTailProperties DEF Report, SearchInv, Explored
        <5>2. j - 1 \in 1..(Len(cycles) - 1) /\ (j - 1) + 1 = j
          BY <1>5, <4>3
        <5>3. j - 1 \in DOMAIN cycles' /\ cycles'[j - 1] = c
          BY <4>1, <5>1, <5>2, LenProperties
        <5> QED BY <5>3 DEF Found
      <4> QED BY <4>2, <4>3
    <3> QED BY <1>10, <3>1, <3>2 DEF Report, Complete, Sought
  <2>5. FirstAudit'
    BY <1>2, <1>10, <2>2 DEF Report, Complete, FirstAudit, Code
  <2> QED BY <1>2, <1>10, <2>4, <2>5 DEF Report, Complete, Sought
<1>11. CASE NextAudit
  <2>1. \A c \in ShortCycles["T088"] : AnchorOf[c] \in ReportedOf["T088"]
    BY <1>5, <1>11 DEF NextAudit, Complete, Sought, Found
  <2>2. \A c \in ShortCycles["T097"] : c[1] \in 1..Len(ios)
    BY <1>3, ShortCycleFacts DEF Code
  <2>3. \A i \in 1..Len(ios) : ~(i < 0) /\ i # 0
    BY <1>3
  <2>4. FirstAudit'
    BY <1>2, <1>11, <2>1 DEF NextAudit, FirstAudit, ReportedOf, Reported
  <2>5. Sought'
    BY <1>2, <1>11, <2>2, <2>3 DEF NextAudit, Sought
  <2> QED BY <2>4, <2>5 DEF Complete
<1>12. CASE Finish
  BY <1>2, <1>6, <1>12 DEF Finish, Complete, Sought, ReportedOf, Reported
<1>13. CASE UNCHANGED vars
  BY <1>2, <1>6, <1>13
  DEF vars, search, Complete, Sought, ReportedOf, Reported, Waiting, Current
<1>14. ASSUME NEW m \in todo, Close(m) PROVE Complete'
  <2>1. /\ cycles' \in Seq(CyclesOf[audit] \cup {path})
        /\ Len(cycles') = Len(cycles) + 1
        /\ \A i \in 1..Len(cycles) : cycles'[i] = cycles[i]
        /\ cycles'[Len(cycles) + 1] = path
    <3>1. cycles \in Seq(CyclesOf[audit] \cup {path})
      BY SeqMonotonic DEF SearchInv, Explored
    <3> QED BY <1>14, <3>1, AppendProperties DEF Close
  <2>2. DOMAIN cycles' = 1..(Len(cycles) + 1)
    BY <2>1, LenProperties
  <2>3. \A c : Found(c) \/ c = path => Found(c)'
    BY <1>5, <2>1, <2>2 DEF Found
  <2>4. ASSUME NEW c \in ShortCycles[audit], Current(c), c[1] = start
        PROVE  c = path \/ Current(c)'
    <3>1. PICK k \in 1..Len(c) : path = SubSeq(c, 1, k) /\ After(c, k) \in todo
      BY <2>4 DEF Current
    <3>2. CASE k = Len(c)
      BY <1>4, <3>1, <3>2, SubSeqFull
    <3>3. CASE k # Len(c)
      BY <1>4, <1>14, <2>4, <3>1, <3>3 DEF Close, Current, After
    <3> QED BY <3>2, <3>3
  <2>5. \A c : Waiting(c)' = Waiting(c)
    BY <1>14 DEF Close, Waiting
  <2>6. FirstAudit'
    BY <1>2, <1>14 DEF Close, Complete, FirstAudit, ReportedOf, Reported
  <2>7. Sought'
    BY <1>2, <1>14, <2>3, <2>4, <2>5 DEF Close, Complete, Sought
  <2> QED BY <2>6, <2>7 DEF Complete
<1>15. ASSUME NEW m \in todo, Push(m) PROVE Complete'
  <2>1. /\ Len(stack') = Len(stack) + 1
        /\ DOMAIN stack' = 1..(Len(stack) + 1)
        /\ \A i \in 1..Len(stack) : stack'[i] = stack[i]
        /\ stack'[Len(stack) + 1] = Append(path, m)
    <3> DEFINE S == PathsFrom(start) \cup {Append(path, m)}
    <3>1. stack \in Seq(S)
      BY SeqMonotonic DEF SearchInv, Explored
    <3>2. /\ stack' \in Seq(S)
          /\ Len(stack') = Len(stack) + 1
          /\ \A i \in 1..Len(stack) : stack'[i] = stack[i]
          /\ stack'[Len(stack) + 1] = Append(path, m)
      BY <1>15, <3>1, AppendProperties DEF Push, Pushed
    <3> QED BY <3>2, LenProperties
  <2>2. \A c : Waiting(c) => Waiting(c)'
    BY <1>5, <2>1 DEF Waiting
  <2>3. ASSUME NEW c \in ShortCycles[audit], Current(c), c[1] = start
        PROVE  Waiting(c)' \/ Current(c)'
    <3>1. PICK k \in 1..Len(c) : path = SubSeq(c, 1, k) /\ After(c, k) \in todo
      BY <2>3 DEF Current
    <3>2. CASE After(c, k) = m
      <4>1. k # Len(c)
        BY <1>4, <1>15, <2>3, <3>2 DEF Push
      <4>2. SubSeq(c, 1, k + 1) = Append(path, m) /\ k + 1 \in 1..Len(c)
        <5>1. c \in Seq(Scripts) /\ c[k + 1] = m /\ k + 1 \in 1..Len(c)
          BY <1>4, <3>2, <4>1
        <5>2. SubSeq(c, 1, k + 1) = Append(SubSeq(c, 1, k), c[k + 1])
          BY <4>1, <5>1, PrefixGrows
        <5> QED BY <3>1, <5>1, <5>2
      <4>3. Len(stack) + 1 \in DOMAIN stack'
        BY <1>5, <2>1
      <4> QED BY <2>1, <4>2, <4>3 DEF Waiting
    <3>3. CASE After(c, k) # m
      BY <1>15, <3>1, <3>3 DEF Push, Current, After
    <3> QED BY <3>2, <3>3
  <2>4. FirstAudit' /\ (\A c : Found(c)' = Found(c))
    BY <1>6, <1>15 DEF Push
  <2> QED BY <1>2, <1>15, <2>2, <2>3, <2>4 DEF Push, Complete, Sought
<1>16. ASSUME NEW m \in todo, Pass(m) PROVE Complete'
  <2>1. ASSUME NEW c \in ShortCycles[audit], Current(c), c[1] = start
        PROVE  Current(c)'
    <3>1. PICK k \in 1..Len(c) : path = SubSeq(c, 1, k) /\ After(c, k) \in todo
      BY <2>1 DEF Current
    <3>2. After(c, k) # m
      <4>1. SUFFICES ASSUME After(c, k) = m PROVE FALSE
        OBVIOUS
      <4>2. k # Len(c)
        BY <1>4, <1>16, <2>1, <4>1 DEF Pass
      <4>3. m = c[k + 1] /\ k + 1 \in 1..Len(c)
        BY <1>4, <4>1, <4>2
      <4>4. /\ path \in Seq(Scripts) /\ Len(path) = k
            /\ \A i \in 1..k : path[i] = c[i]
        BY <1>4, <3>1, PrefixFacts
      <4>5. DOMAIN path = 1..k
        BY <4>4, LenProperties
      <4>6. k < MaxDepth
        BY <1>4, <4>2, ScheduleAssumption
      <4>7. \A i \in 1..k : i \in 1..Len(c) /\ i # k + 1
        BY <1>4
      <4>8. m \notin On(path)
        BY <1>4, <4>3, <4>4, <4>5, <4>7 DEF On
      <4> QED BY <1>16, <4>4, <4>6, <4>8 DEF Pass, Prolongs
    <3> QED BY <1>16, <3>1, <3>2 DEF Pass, Current, After
  <2>2. FirstAudit' /\ (\A c : Found(c)' = Found(c) /\ Waiting(c)' = Waiting(c))
    BY <1>6, <1>16 DEF Pass, Waiting
  <2> QED BY <1>2, <1>16, <2>1, <2>2 DEF Pass, Complete, Sought
<1> QED
  BY <1>7, <1>8, <1>9, <1>10, <1>11, <1>12, <1>13, <1>14, <1>15, <1>16
  DEF Next, Done

(* At the end every cycle within the limit has its report.                 *)
LEMMA CompleteAtEnd == SearchInv /\ Complete => ShortCyclesReported
<1> SUFFICES ASSUME SearchInv, Complete, phase = "done",
                    NEW a \in Code, NEW n \in 1..MaxDepth,
                    NEW p \in [1..n -> Scripts], IsCycle(a, p)
             PROVE  Anchor(p) \in Reported(a)
  BY DEF ShortCyclesReported
<1>1. p \in Seq(Scripts) /\ Len(p) = n /\ n <= MaxDepth
  BY ScheduleAssumption
<1>2. p \in ShortCycles[a] /\ AnchorOf[p] = Anchor(p)
  BY <1>1 DEF ShortCycles, AnchorOf
<1>3. cycles = <<>> /\ audit = "T097"
  BY DEF SearchInv, Idle
<1>4. \A c \in ShortCycles["T097"] : AnchorOf[c] \in ReportedOf["T097"]
  BY <1>3 DEF Complete, Sought, Found
<1>5. \A c \in ShortCycles["T088"] : AnchorOf[c] \in ReportedOf["T088"]
  BY <1>3 DEF Complete, FirstAudit
<1> QED BY <1>2, <1>4, <1>5 DEF Code, ReportedOf

(* No cycle of up to MaxDepth scripts goes without a report under the name *)
(* it would be reported under.                                             *)
THEOREM EveryShortCycleReported == Spec => []ShortCyclesReported
<1>1. Init => SearchInv /\ Complete
  BY SearchInit, CompleteInit
<1>2. SearchInv /\ Complete /\ [Next]_vars => SearchInv' /\ Complete'
  BY SearchStep, CompleteStep
<1>3. Spec => [](SearchInv /\ Complete)
  BY <1>1, <1>2, PTL DEF Spec
<1> QED BY <1>3, CompleteAtEnd, PTL
-----------------------------------------------------------------------------
(* The stack.  A path waits at a height that its length bounds, and the    *)
(* scripts still to be looked at fit in below the height of the next ones. *)
Siblings == Len(ios) - 1

Pending ==
  /\ \A i \in DOMAIN stack : /\ Len(stack[i]) <= MaxDepth
                            /\ i <= 1 + (Len(stack[i]) - 1) * Siblings
  /\ todo # {} => Len(stack) + Cardinality(todo \ {start}) <= Len(path) * Siblings

LEMMA TimesStep == ASSUME NEW a \in Int, NEW c \in Int PROVE (a - 1) * c + c = a * c
OBVIOUS

LEMMA TimesGrows ==
  ASSUME NEW a \in Nat, NEW b \in Nat, NEW c \in Nat, a <= b
  PROVE  a * c <= b * c
OBVIOUS

LEMMA OthersAreFew ==
  ASSUME ios \in Projects, start \in Scripts, NEW T, T \subseteq Scripts
  PROVE  /\ IsFiniteSet(T \ {start})
         /\ Cardinality(T \ {start}) \in Nat
         /\ Cardinality(T \ {start}) <= Siblings
<1>1. Scripts = 1..Len(ios) /\ Len(ios) \in Nat
  BY Facts
<1>2. IsFiniteSet(Scripts) /\ Cardinality(Scripts) = Len(ios)
  <2>1. PICK n \in Nat : n = Len(ios) /\ Scripts = 1..n
    BY <1>1
  <2>2. /\ IsFiniteSet(1..n)
        /\ Cardinality(1..n) = IF 1 > n THEN 0 ELSE n - 1 + 1
    BY FS_Interval
  <2> QED BY <2>1, <2>2
<1>3. IsFiniteSet(Scripts \ {start}) /\ Cardinality(Scripts \ {start}) = Siblings
  BY <1>2, FS_RemoveElement DEF Siblings
<1>4. T \ {start} \subseteq Scripts \ {start}
  OBVIOUS
<1> QED BY <1>3, <1>4, FS_Subset, FS_CardinalityType

(* While scripts are to be looked at, the search has begun somewhere.      *)
LEMMA Started ==
  ASSUME SearchInv, todo # {}
  PROVE  /\ start \in Scripts
         /\ path \in Seq(Scripts) /\ Len(path) \in Nat \ {0}
         /\ Siblings \in Nat
<1>1. audit \in Code /\ path \in PathsOf[audit] /\ path[1] = start
  BY DEF SearchInv, Ranges, Explored, PathsFrom
<1>2. path \in Seq(Scripts) /\ Len(path) \in Nat \ {0} /\ path[1] \in Scripts
  BY <1>1, PathFacts
<1>3. Scripts = 1..Len(ios) /\ Len(ios) \in Nat
  BY Facts DEF SearchInv, Ranges
<1> QED BY <1>1, <1>2, <1>3 DEF Siblings

LEMMA PendingStep == SearchInv /\ Pending /\ [Next]_vars => Pending'
<1> SUFFICES ASSUME SearchInv, Pending, [Next]_vars PROVE Pending'
  OBVIOUS
<1> USE DEF Pending
<1>1. ios' = ios /\ Siblings' = Siblings
  BY IosKept DEF Siblings
<1>2. /\ ios \in Projects /\ audit \in Code /\ stack \in Seq(PathsFrom(start))
      /\ Len(stack) \in Nat /\ DOMAIN stack = 1..Len(stack) /\ todo \subseteq Scripts
  BY LenProperties DEF SearchInv, Ranges, Explored
<1>3. CASE NextStart
  <2>1. todo' = {} /\ (stack' = <<>> \/ stack' = <<<<start'>>>>)
    BY <1>3 DEF NextStart
  <2>2. CASE stack' = <<>>
    BY <2>1, <2>2
  <2>3. CASE stack' = <<<<start'>>>>
    <3>1. /\ DOMAIN stack' = {1} /\ stack'[1] = <<start'>> /\ Len(<<start'>>) = 1
      BY <2>3
    <3>2. Siblings \in Int
      BY <1>2, Facts DEF Siblings
    <3>3. 1 <= 1 + (1 - 1) * Siblings
      BY <3>2
    <3>4. 1 <= MaxDepth
      BY ScheduleAssumption
    <3> QED BY <1>1, <2>1, <3>1, <3>3, <3>4
  <2> QED BY <2>1, <2>2, <2>3
<1>4. CASE Pop
  <2> DEFINE p == stack[Len(stack)]
  <2>1. /\ stack # <<>> /\ todo = {} /\ path' = p /\ start' = start
        /\ stack' = SubSeq(stack, 1, Len(stack) - 1)
        /\ todo' = Edges(audit, p[Len(p)])
    BY <1>4 DEF Pop
  <2>2. /\ p \in PathsFrom(start) /\ Len(stack) \in Nat \ {0} /\ Len(stack') = Len(stack) - 1
        /\ stack' \in Seq(PathsFrom(start))
        /\ \A i \in 1..(Len(stack) - 1) : stack'[i] = stack[i]
    BY <1>2, <2>1, Popped
  <2>3. /\ p \in PathsOf[audit] /\ p[1] = start /\ Len(p) \in Nat \ {0} /\ start \in Scripts
    BY <1>2, <2>2, PathFacts DEF PathsFrom
  <2>4. Siblings \in Nat
    BY <1>2, <2>3, Facts DEF Siblings
  <2>5. Cardinality(todo' \ {start}) \in Nat /\ Cardinality(todo' \ {start}) <= Siblings
    BY <1>2, <2>1, <2>3, OthersAreFew, EdgesAreScripts
  <2>6. Len(stack) <= 1 + (Len(p) - 1) * Siblings
    BY <1>2, <2>2
  <2>7. (Len(p) - 1) * Siblings + Siblings = Len(p) * Siblings
    BY <2>3, <2>4, TimesStep
  <2>8. (Len(p) - 1) * Siblings \in Int /\ Len(p) * Siblings \in Int
    BY <2>3, <2>4
  <2>9. Len(stack') + Cardinality(todo' \ {start}) <= Len(p) * Siblings
    <3> DEFINE a == (Len(p) - 1) * Siblings
               b == Len(p) * Siblings
               n == Cardinality(todo' \ {start})
    <3>1. /\ Len(stack) <= 1 + a /\ a + Siblings = b /\ n <= Siblings /\ a \in Int /\ b \in Int
          /\ n \in Nat /\ Siblings \in Nat /\ Len(stack) \in Nat /\ Len(stack') = Len(stack) - 1
      BY <2>2, <2>4, <2>5, <2>6, <2>7, <2>8
    <3> HIDE DEF a, b, n
    <3>2. Len(stack') + n <= b
      BY <3>1
    <3> QED BY <3>2 DEF b, n
  <2>10. DOMAIN stack' = 1..(Len(stack) - 1)
    BY <2>2, LenProperties
  <2>11. \A i \in DOMAIN stack' : i \in DOMAIN stack /\ stack'[i] = stack[i]
    BY <1>2, <2>2, <2>10
  <2> HIDE DEF p
  <2> QED BY <1>1, <2>1, <2>9, <2>11
<1>5. ASSUME NEW m \in todo, Push(m) PROVE Pending'
  <2> DEFINE q == Append(path, m)
  <2>1. /\ m # start /\ Len(path) < MaxDepth /\ stack' = Append(stack, q)
        /\ todo' = todo \ {m} /\ start' = start /\ path' = path
    BY <1>5 DEF Push, Prolongs, Pushed
  <2>2. /\ start \in Scripts /\ path \in Seq(Scripts) /\ Len(path) \in Nat \ {0} /\ Siblings \in Nat
    BY <1>5, Started
  <2>3. Len(q) = Len(path) + 1
    BY <1>2, <2>2, AppendProperties
  <2>4. /\ IsFiniteSet(todo \ {start}) /\ Cardinality(todo \ {start}) \in Nat
    BY <1>2, <2>2, OthersAreFew
  <2>5. todo' \ {start} = (todo \ {start}) \ {m} /\ m \in todo \ {start}
    BY <1>5, <2>1
  <2>6. Cardinality(todo' \ {start}) = Cardinality(todo \ {start}) - 1
    BY <2>4, <2>5, FS_RemoveElement
  <2>7. Cardinality(todo' \ {start}) \in Nat
    BY <2>4, <2>5, FS_RemoveElement, FS_CardinalityType
  <2>8. PICK b \in Int : b = Len(path) * Siblings
    BY <2>2
  <2>9. Len(stack) + Cardinality(todo \ {start}) <= b
    BY <1>5, <2>8
  <2>10. /\ Len(stack') = Len(stack) + 1 /\ DOMAIN stack' = 1..(Len(stack) + 1)
         /\ \A i \in 1..Len(stack) : stack'[i] = stack[i]
         /\ stack'[Len(stack) + 1] = q
    BY <1>2, <2>1
  <2>11. Len(stack) + 1 <= b /\ Len(stack') + Cardinality(todo' \ {start}) <= b
    BY <1>2, <2>4, <2>6, <2>7, <2>9, <2>10
  <2>12. Len(q) <= MaxDepth /\ Len(stack) + 1 <= 1 + (Len(q) - 1) * Siblings
    <3>1. Len(q) - 1 = Len(path)
      BY <2>2, <2>3
    <3>2. Len(q) <= MaxDepth
      BY <2>1, <2>2, <2>3, ScheduleAssumption
    <3>3. Len(stack) + 1 <= 1 + b
      BY <1>2, <2>11
    <3> QED BY <2>8, <3>1, <3>2, <3>3
  <2> HIDE DEF q
  <2>13. ASSUME NEW i \in DOMAIN stack'
         PROVE  Len(stack'[i]) <= MaxDepth /\ i <= 1 + (Len(stack'[i]) - 1) * Siblings
    <3>1. CASE i \in DOMAIN stack
      BY <1>2, <2>10, <3>1
    <3>2. CASE i = Len(stack) + 1
      BY <2>10, <2>12, <3>2
    <3> QED BY <1>2, <2>10, <2>13, <3>1, <3>2
  <2> QED BY <1>1, <2>1, <2>8, <2>11, <2>13
<1>6. ASSUME NEW m \in todo, Close(m) \/ Pass(m) PROVE Pending'
  <2>1. todo' = todo \ {m} /\ UNCHANGED <<start, stack, path>>
    BY <1>6 DEF Close, Pass
  <2>2. start \in Scripts
    BY <1>6, Started
  <2>3. /\ IsFiniteSet(todo \ {start}) /\ Cardinality(todo \ {start}) \in Nat
    BY <1>2, <2>2, OthersAreFew
  <2>4. todo' \ {start} \subseteq todo \ {start}
    BY <2>1
  <2>5. Cardinality(todo' \ {start}) \in Nat
        /\ Cardinality(todo' \ {start}) <= Cardinality(todo \ {start})
    BY <2>3, <2>4, FS_Subset, FS_CardinalityType
  <2>6. PICK b \in Int : b = Len(path) * Siblings
    BY <1>6, Started
  <2>7. Len(stack) + Cardinality(todo' \ {start}) <= b
    BY <1>2, <1>6, <2>3, <2>5, <2>6
  <2> QED BY <1>1, <2>1, <2>6, <2>7
<1>7. CASE EndSearch \/ Report \/ NextAudit \/ Finish \/ UNCHANGED vars
  <2>1. UNCHANGED <<stack, path, todo>> /\ (start' = start \/ todo = {})
    BY <1>7 DEF EndSearch, Report, NextAudit, Finish, vars, search, SearchInv, Idle
  <2> QED BY <1>1, <2>1
<1> QED BY <1>3, <1>4, <1>5, <1>6, <1>7 DEF Next, Done

(* Whatever the graph and the depth limit, the search holds no more paths  *)
(* on its stack than one path and its siblings at each depth, although the *)
(* graph may have exponentially many (schedule.rs find_cycles).            *)
THEOREM StackBounded == Spec => []PendingBounded
<1>1. Init => Pending
  BY DEF Init, Pending
<1>2. SearchInv /\ Pending => PendingBounded
  <2> SUFFICES ASSUME SearchInv, Pending, stack # <<>>
               PROVE  Len(stack) <= 1 + (MaxDepth - 1) * (Len(ios) - 1)
    BY DEF PendingBounded
  <2> DEFINE p == stack[Len(stack)]
  <2>1. /\ ios \in Projects /\ audit \in Code /\ stack \in Seq(PathsFrom(start))
    BY DEF SearchInv, Ranges, Explored
  <2>2. p \in PathsFrom(start) /\ Len(stack) \in DOMAIN stack
    BY <2>1, Popped, LenProperties
  <2>3. Len(p) \in Nat \ {0} /\ start \in Scripts
    BY <2>1, <2>2, PathFacts DEF PathsFrom
  <2>4. Siblings \in Nat
    BY <2>1, <2>3, Facts DEF Siblings
  <2>5. Len(p) <= MaxDepth /\ Len(stack) <= 1 + (Len(p) - 1) * Siblings
    BY <2>2 DEF Pending
  <2>6. (Len(p) - 1) * Siblings <= (MaxDepth - 1) * Siblings
    BY <2>3, <2>4, <2>5, TimesGrows, ScheduleAssumption
  <2>7. /\ (Len(p) - 1) * Siblings \in Int /\ (MaxDepth - 1) * Siblings \in Int
        /\ Len(stack) \in Int
    BY <2>1, <2>3, <2>4, LenProperties, ScheduleAssumption
  <2>8. Len(stack) <= 1 + (MaxDepth - 1) * Siblings
    BY <2>5, <2>6, <2>7
  <2> QED BY <2>8 DEF Siblings
<1>3. SearchInv /\ Pending /\ [Next]_vars => Pending'
  BY PendingStep
<1> QED BY <1>1, <1>2, <1>3, SearchInit, SearchStep, PTL DEF Spec
-----------------------------------------------------------------------------
(* Recursion.  Who calls whom directly, and so at all; a shortest way back *)
(* to a script that calls itself is a cycle that the search finds.         *)
CalledBy(k)     == {l \in Scripts : ios[l].fn \in ios[k].calls}
ClosedFrom(S, i) == \A k \in S \cup {i} : CalledBy(k) \subseteq S

LEMMA CallsClosure ==
  ASSUME NEW i, NEW j
  PROVE  j \in CallsInto(i) <=>
           j \in Scripts /\ \A S \in SUBSET Scripts : ClosedFrom(S, i) => j \in S
BY DEF CallsInto, ClosedFrom, CalledBy

LEMMA CallsFurther ==
  ASSUME NEW i, NEW j, j = i \/ j \in CallsInto(i), NEW l \in CalledBy(j)
  PROVE  l \in CallsInto(i)
<1> SUFFICES ASSUME NEW S \in SUBSET Scripts, ClosedFrom(S, i) PROVE l \in S
  BY CallsClosure DEF CalledBy
<1>1. j \in S \cup {i}
  BY CallsClosure
<1> QED BY <1>1 DEF ClosedFrom

LEMMA CallsTransitive ==
  ASSUME NEW i, NEW j \in CallsInto(i), NEW l \in CallsInto(j)
  PROVE  l \in CallsInto(i)
<1>1. l \in Scripts
  BY CallsClosure
<1> SUFFICES ASSUME NEW S \in SUBSET Scripts, ClosedFrom(S, i) PROVE l \in S
  BY <1>1, CallsClosure
<1>2. j \in S
  BY CallsClosure
<1>3. ClosedFrom(S, j)
  BY <1>2 DEF ClosedFrom
<1> QED BY <1>3, CallsClosure

(* On a cycle of calls everyone calls everyone.                            *)
CallCycle(c) ==
  /\ c \in Seq(Scripts) /\ c # <<>>
  /\ \A m \in DOMAIN c : After(c, m) \in CalledBy(c[m])

LEMMA CycleIsMutual ==
  ASSUME NEW c, CallCycle(c), NEW x \in DOMAIN c, NEW y \in DOMAIN c
  PROVE  c[y] \in CallsInto(c[x])
<1>1. Len(c) \in Nat \ {0} /\ DOMAIN c = 1..Len(c)
  BY EmptySeq, LenProperties DEF CallCycle
<1>2. ASSUME NEW u \in 1..Len(c), NEW v \in 1..Len(c), u < v
      PROVE  c[v] \in CallsInto(c[u])
  <2> DEFINE T == {w \in 1..Len(c) : u < w /\ c[w] \notin CallsInto(c[u])}
  <2> SUFFICES ASSUME T # {} PROVE FALSE
    BY <1>2
  <2>0. T \subseteq Nat
    BY <1>1
  <2>1. PICK w \in T : \A z \in T : w <= z
    <3> HIDE DEF T
    <3> QED BY <2>0, Least
  <2>2. w - 1 \in 1..Len(c) /\ w - 1 \notin T
    BY <1>1, <2>1
  <2>3. w - 1 = u \/ c[w - 1] \in CallsInto(c[u])
    BY <1>1, <2>1, <2>2
  <2>4. After(c, w - 1) = c[w]
    BY <1>1, <2>1 DEF After
  <2>5. c[w] \in CalledBy(c[w - 1])
    BY <1>1, <2>2, <2>4 DEF CallCycle
  <2>6. c[w] \in CallsInto(c[u])
    BY <2>3, <2>5, CallsFurther
  <2> QED BY <2>6
<1>3. c[1] \in CallsInto(c[x])
  <2>1. Len(c) \in DOMAIN c /\ After(c, Len(c)) = c[1]
    BY <1>1 DEF After
  <2>2. c[1] \in CalledBy(c[Len(c)])
    BY <2>1 DEF CallCycle
  <2>3. c[Len(c)] = c[x] \/ c[Len(c)] \in CallsInto(c[x])
    BY <1>1, <1>2
  <2> QED BY <2>2, <2>3, CallsFurther
<1>4. y = 1 \/ c[y] \in CallsInto(c[1])
  BY <1>1, <1>2
<1> QED BY <1>3, <1>4, CallsTransitive

(* A way back to i, and a shortest one.                                    *)
WaysBack(i) == {c \in Seq(Scripts) : CallCycle(c) /\ c[1] = i}

LEMMA WayBack ==
  ASSUME ios \in Projects, NEW i \in Scripts, i \in CallsInto(i)
  PROVE  WaysBack(i) # {}
<1> DEFINE Walks(j) == {w \in Seq(Scripts) :
             /\ w # <<>> /\ w[1] = i
             /\ \A m \in 1..(Len(w) - 1) : w[m + 1] \in CalledBy(w[m])
             /\ j \in CalledBy(w[Len(w)])}
           S == {j \in Scripts : Walks(j) # {}}
<1>1. ASSUME NEW k \in S \cup {i}, NEW l \in CalledBy(k) PROVE l \in S
  <2>1. CASE k = i
    <3>1. /\ <<i>> \in Seq(Scripts) /\ <<i>> # <<>> /\ Len(<<i>>) = 1 /\ <<i>>[1] = i
          /\ 1..(1 - 1) = {}
      OBVIOUS
    <3>2. <<i>> \in Walks(l)
      BY <1>1, <2>1, <3>1
    <3> QED BY <3>2 DEF CalledBy
  <2>2. CASE k \in S
    <3>1. PICK w \in Walks(k) : TRUE
      BY <2>2
    <3> DEFINE v == Append(w, k)
    <3>2. /\ Len(w) \in Nat \ {0} /\ v \in Seq(Scripts) /\ v # <<>> /\ Len(v) = Len(w) + 1
          /\ \A m \in 1..Len(w) : v[m] = w[m]
          /\ v[Len(w) + 1] = k
      BY <2>2, <3>1, AppendProperties, EmptySeq, LenProperties
    <3> HIDE DEF v
    <3>3. ASSUME NEW m \in 1..(Len(v) - 1) PROVE v[m + 1] \in CalledBy(v[m])
      <4>1. CASE m = Len(w)
        BY <3>1, <3>2, <4>1
      <4>2. CASE m # Len(w)
        <5>1. m \in 1..(Len(w) - 1) /\ m + 1 \in 1..Len(w) /\ m \in 1..Len(w)
          BY <3>2, <3>3, <4>2
        <5> QED BY <3>1, <3>2, <5>1
      <4> QED BY <4>1, <4>2
    <3>4. v[1] = i /\ l \in CalledBy(v[Len(v)])
      BY <1>1, <3>1, <3>2
    <3>5. v \in Walks(l)
      BY <3>2, <3>3, <3>4
    <3> QED BY <3>5 DEF CalledBy
  <2> QED BY <1>1, <2>1, <2>2
<1>2. S \in SUBSET Scripts /\ ClosedFrom(S, i)
  BY <1>1 DEF ClosedFrom
<1>3. i \in S
  BY <1>2, CallsClosure
<1>4. PICK w \in Walks(i) : TRUE
  BY <1>3
<1>5. Len(w) \in Nat \ {0} /\ DOMAIN w = 1..Len(w)
  BY <1>4, EmptySeq, LenProperties
<1>6. ASSUME NEW m \in DOMAIN w PROVE After(w, m) \in CalledBy(w[m])
  <2>1. CASE m = Len(w)
    BY <1>4, <2>1 DEF After
  <2>2. CASE m # Len(w)
    <3>1. m \in 1..(Len(w) - 1)
      BY <1>5, <1>6, <2>2
    <3> QED BY <1>4, <2>2, <3>1 DEF After
  <2> QED BY <2>1, <2>2
<1>7. w \in WaysBack(i)
  BY <1>4, <1>6 DEF WaysBack, CallCycle
<1> QED BY <1>7

(* A way back that comes twice to one script can be cut short.             *)
LEMMA CutShort ==
  ASSUME NEW i, NEW c \in WaysBack(i),
         NEW a \in DOMAIN c, NEW b \in DOMAIN c, a < b, c[a] = c[b]
  PROVE  \E d \in WaysBack(i) : Len(d) < Len(c)
<1>1. /\ c \in Seq(Scripts) /\ c[1] = i /\ Len(c) \in Nat \ {0} /\ DOMAIN c = 1..Len(c)
      /\ \A m \in 1..Len(c) : c[m] \in Scripts
      /\ \A m \in 1..Len(c) : After(c, m) \in CalledBy(c[m])
  BY EmptySeq, LenProperties, ElementOfSeq DEF WaysBack, CallCycle
<1>2. PICK k \in Nat : k = b - a /\ k > 0 /\ k < Len(c)
  BY <1>1
<1>3. PICK n \in Nat : n = Len(c) - k /\ n >= a /\ n > 0
  BY <1>1, <1>2
<1> DEFINE from(m) == IF m <= a THEN m ELSE m + k
           d == [m \in 1..n |-> c[from(m)]]
<1>4. \A m \in 1..n : from(m) \in 1..Len(c)
  BY <1>1, <1>2, <1>3
<1>5. /\ d \in Seq(Scripts) /\ Len(d) = n /\ DOMAIN d = 1..n /\ d # <<>>
  BY <1>1, <1>3, <1>4
<1>6. d[1] = i
  BY <1>1, <1>3
<1>7. ASSUME NEW m \in 1..n PROVE After(d, m) \in CalledBy(d[m])
  <2> DEFINE f == IF m < a THEN m ELSE m + k
  <2>1. f \in 1..Len(c) /\ c[f] = d[m]
    <3>1. CASE m = a
      BY <1>1, <1>2, <1>3, <1>7, <3>1
    <3>2. CASE m # a
      BY <1>1, <1>2, <1>3, <1>7, <3>2
    <3> QED BY <3>1, <3>2
  <2>2. After(c, f) = After(d, m)
    <3>1. CASE m = n
      <4>1. f = Len(c)
        BY <1>1, <1>2, <1>3, <3>1
      <4> QED BY <1>1, <1>5, <1>6, <3>1, <4>1 DEF After
    <3>2. CASE m # n
      <4>1. f # Len(c) /\ m + 1 \in 1..n /\ from(m + 1) = f + 1
        <5>1. /\ m \in Nat /\ a \in Nat /\ k \in Nat /\ n \in Nat /\ Len(c) \in Nat
              /\ m < n /\ 0 < m /\ n = Len(c) - k /\ a <= n
          BY <1>1, <1>2, <1>3, <1>7, <3>2
        <5>2. m + 1 \in 1..n
          BY <5>1
        <5>3. CASE m < a
          BY <5>1, <5>2, <5>3, <1>2
        <5>4. CASE ~(m < a)
          BY <5>1, <5>2, <5>4
        <5> QED BY <5>3, <5>4
      <4>2. After(d, m) = d[m + 1] /\ After(c, f) = c[f + 1]
        BY <1>5, <3>2, <4>1 DEF After
      <4> QED BY <4>1, <4>2
    <3> QED BY <3>1, <3>2
  <2> QED BY <1>1, <2>1, <2>2
<1> HIDE DEF d
<1>8. d \in WaysBack(i)
  BY <1>5, <1>6, <1>7 DEF WaysBack, CallCycle
<1> QED BY <1>1, <1>2, <1>3, <1>5, <1>8

(* Nothing that occurs once at most is longer than there are scripts.      *)
LEMMA DistinctIsShort ==
  ASSUME ios \in Projects, NEW c \in Seq(Scripts), Distinct(c)
  PROVE  Len(c) <= Len(ios)
<1>1. Scripts = 1..Len(ios) /\ Len(ios) \in Nat /\ Len(c) \in Nat /\ DOMAIN c = 1..Len(c)
  BY Facts, LenProperties
<1>2. PICK n \in Nat, k \in Nat : n = Len(c) /\ k = Len(ios)
  BY <1>1
<1>3. /\ IsFiniteSet(1..n) /\ Cardinality(1..n) = IF 1 > n THEN 0 ELSE n - 1 + 1
      /\ IsFiniteSet(1..k) /\ Cardinality(1..k) = IF 1 > k THEN 0 ELSE k - 1 + 1
  BY FS_Interval
<1>4. c \in [1..n -> 1..k]
  BY <1>1, <1>2, ElementOfSeq
<1>5. ~(Cardinality(1..k) < Cardinality(1..n))
  BY <1>1, <1>2, <1>3, <1>4, FS_PigeonHole DEF Distinct
<1>6. Cardinality(1..n) = n /\ Cardinality(1..k) = k
  BY <1>3
<1> QED BY <1>2, <1>5, <1>6

LEMMA RecursionFound == SearchInv /\ Complete => RecursionFlagged
<1> SUFFICES ASSUME SearchInv, Complete, phase = "done", Len(ios) <= MaxDepth,
                    \A i, j \in Scripts : ios[i].fn = ios[j].fn => i = j,
                    NEW i \in Scripts, i \in CallsInto(i)
             PROVE  \E r \in reports :
                      /\ r.code = "T097"
                      /\ \A j \in On(r.path) : j \in CallsInto(i) /\ i \in CallsInto(j)
  BY DEF RecursionFlagged
<1>1. ios \in Projects
  BY DEF SearchInv, Ranges
<1>2. \A k \in Scripts : Edges("T097", k) = CalledBy(k)
  <2>1. ASSUME NEW j \in Scripts, NEW n PROVE Backs(j, n) <=> ios[j].fn = n
    <3>1. j \in Nat
      BY <1>1, <2>1, Facts
    <3> QED BY <2>1, <3>1 DEF Backs
  <2> QED BY <2>1 DEF Edges, CallEdges, CalledBy
<1> DEFINE T == {Len(c) : c \in WaysBack(i)}
<1>3. T \subseteq Nat /\ T # {}
  <2>1. \A c \in WaysBack(i) : Len(c) \in Nat
    BY LenProperties DEF WaysBack
  <2>2. PICK c \in WaysBack(i) : TRUE
    BY <1>1, WayBack
  <2>3. Len(c) \in T
    OBVIOUS
  <2>4. T \subseteq Nat
    BY <2>1
  <2> HIDE DEF T
  <2> QED BY <2>3, <2>4
<1>4. PICK n \in T : \A k \in T : n <= k
  BY <1>3, Least
<1>5. PICK p \in WaysBack(i) : \A d \in WaysBack(i) : Len(p) <= Len(d)
  BY <1>4
<1>6. /\ p \in Seq(Scripts) /\ p # <<>> /\ p[1] = i /\ CallCycle(p)
      /\ Len(p) \in Nat \ {0} /\ DOMAIN p = 1..Len(p)
  BY EmptySeq, LenProperties DEF WaysBack, CallCycle
<1>7. \A d \in WaysBack(i) : Len(d) \in Nat
  BY LenProperties DEF WaysBack
<1>8. Distinct(p)
  <2> SUFFICES ASSUME NEW a \in DOMAIN p, NEW b \in DOMAIN p, p[a] = p[b], a # b PROVE FALSE
    BY DEF Distinct
  <2>1. a < b \/ b < a
    BY <1>6
  <2>2. \E d \in WaysBack(i) : Len(d) < Len(p)
    BY <2>1, CutShort
  <2> QED BY <1>5, <1>6, <1>7, <2>2
<1>9. Len(p) \in 1..MaxDepth
  BY <1>1, <1>6, <1>8, DistinctIsShort, ScheduleAssumption, Facts
<1>10. IsCycle("T097", p)
  <2>1. \A m \in DOMAIN p : p[m] \in Scripts
    BY <1>6, ElementOfSeq
  <2> QED BY <1>2, <1>6, <1>8, <2>1 DEF IsCycle, CallCycle
<1>11. p \in [1..Len(p) -> Scripts]
  BY <1>6, ElementOfSeq
<1>12. Anchor(p) \in Reported("T097")
  BY <1>9, <1>10, <1>11, CompleteAtEnd DEF ShortCyclesReported, Code
<1>13. PICK r \in reports : r.code = "T097" /\ r.anchor = Anchor(p)
  BY <1>12 DEF Reported
<1> DEFINE c == r.path
<1>14. c \in CyclesOf["T097"] /\ Anchor(p) = AnchorOf[c]
  BY <1>13 DEF SearchInv, Filed
<1>15. c \in Seq(Scripts) /\ c # <<>> /\ AnchorOf[c] = Anchor(c)
  BY <1>14 DEF CyclesOf, PathsOf, AnchorOf, Code
<1>16. CallCycle(c)
  BY <1>2, <1>14, <1>15, CycleEdges DEF CallCycle, Code
<1> HIDE DEF c
<1>17. PICK x \in DOMAIN c, y \in DOMAIN p : c[x] = p[y]
  <2>1. PICK x \in DOMAIN c : ios[c[x]].fn = Anchor(c)
    BY <1>1, <1>15, AnchorLeast DEF Chain
  <2>2. PICK y \in DOMAIN p : ios[p[y]].fn = Anchor(p)
    BY <1>1, <1>6, AnchorLeast DEF Chain
  <2>3. c[x] \in Scripts /\ p[y] \in Scripts
    BY <1>6, <1>15, <2>1, <2>2
  <2> QED BY <1>14, <1>15, <2>1, <2>2, <2>3
<1>18. 1 \in DOMAIN p
  BY <1>6
<1>19. p[y] \in CallsInto(i) /\ i \in CallsInto(p[y])
  BY <1>6, <1>18, CycleIsMutual
<1>20. ASSUME NEW j \in On(c) PROVE j \in CallsInto(i) /\ i \in CallsInto(j)
  <2>1. PICK z \in DOMAIN c : j = c[z]
    BY <1>20 DEF On
  <2>2. j \in CallsInto(c[x]) /\ c[x] \in CallsInto(j)
    BY <1>16, <1>17, <2>1, CycleIsMutual
  <2>3. p[y] = c[x]
    BY <1>17
  <2> QED BY <1>19, <2>2, <2>3, CallsTransitive
<1> QED BY <1>13, <1>20 DEF c

(* A function that calls itself, however indirectly, is in a cluster of    *)
(* mutual calls one of whose cycles is reported, for any number of scripts *)
(* up to the depth limit of the search (schedule.rs find_cycles, check).   *)
THEOREM RecursionReported == Spec => []RecursionFlagged
<1>1. Init => SearchInv /\ Complete
  BY SearchInit, CompleteInit
<1>2. SearchInv /\ Complete /\ [Next]_vars => SearchInv' /\ Complete'
  BY SearchStep, CompleteStep
<1>3. Spec => [](SearchInv /\ Complete)
  BY <1>1, <1>2, PTL DEF Spec
<1> QED BY <1>3, RecursionFound, PTL
=============================================================================
