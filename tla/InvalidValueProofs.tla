------------------------ MODULE InvalidValueProofs ------------------------
(***************************************************************************)
(* The invalid-value walker, for any scripts, names and channels, any node *)
(* sequences and any closed answer of the solver: the types of its state,  *)
(* that it is silent without a source, that its two walks agree, and that  *)
(* of a script whose data flow it follows no tick feeds a sink a           *)
(* non-finite value that was not reported.                                 *)
(*                                                                         *)
(* Taints, environments and outcomes are functions of the position that    *)
(* use their values at the positions before: Solved gives their existence  *)
(* once, Upward what holds of all their values.                            *)
(***************************************************************************)
EXTENDS InvalidValue, SequenceTheorems, WellFoundedInduction, TLAPS

(* A non-empty set of naturals has a least element.                        *)
LEMMA Least ==
  ASSUME NEW T, T \subseteq Nat, T # {}
  PROVE  \E x \in T : \A y \in T : x <= y
<1> DEFINE R == OpToRel(<, Nat)
<1>1. IsWellFoundedOn(R, Nat)
  BY NatLessThanWellFounded
<1>2. \A x, y \in Nat : y < x => <<y, x>> \in R
  BY DEF OpToRel
<1> HIDE DEF R
<1>3. PICK x \in T : \A y \in T : ~(<<y, x>> \in R)
  BY <1>1, WFMin
<1>4. \A y \in T : ~(y < x)
  BY <1>2, <1>3
<1> QED BY <1>4

(* What holds of a position when it holds of all those before it holds of  *)
(* all of them.                                                            *)
LEMMA Upward ==
  ASSUME NEW n \in Nat, NEW P,
         \A i \in 1..n : (\A j \in 1..i - 1 : j \in P) => i \in P
  PROVE  1..n \subseteq P
<1> DEFINE T == {i \in 1..n : i \notin P}
<1> SUFFICES ASSUME T # {} PROVE FALSE
  OBVIOUS
<1>1. T \subseteq Nat
  OBVIOUS
<1>2. PICK i \in T : \A y \in T : i <= y
  <2> HIDE DEF T
  <2> QED BY <1>1, Least
<1>3. \A j \in 1..i - 1 : j \in P
  BY <1>2
<1> QED BY <1>3

(* A function defined from its values before each position exists.         *)
Recursive(n, S, F) ==
  /\ F \in [1..n -> [[1..n -> S] -> S]]
  /\ \A i \in 1..n : \A g, h \in [1..n -> S] :
       (\A j \in 1..i - 1 : g[j] = h[j]) => F[i][g] = F[i][h]

Solves(n, F, g) == \A i \in 1..n : g[i] = F[i][g]

LEMMA Solved ==
  ASSUME NEW n \in Nat, NEW S, S # {}, NEW F, Recursive(n, S, F)
  PROVE  \E g \in [1..n -> S] : Solves(n, F, g)
<1>s. PICK s \in S : TRUE
  OBVIOUS
<1>r. /\ F \in [1..n -> [[1..n -> S] -> S]]
      /\ \A i \in 1..n : \A g, h \in [1..n -> S] :
           (\A j \in 1..i - 1 : g[j] = h[j]) => F[i][g] = F[i][h]
  BY DEF Recursive
<1> DEFINE Good(m) == \E g \in [1..n -> S] : \A i \in 1..m : g[i] = F[i][g]
           T == {m \in 0..n : ~Good(m)}
<1>1. T = {}
  <2> SUFFICES ASSUME T # {} PROVE FALSE
    OBVIOUS
  <2>1. T \subseteq Nat
    OBVIOUS
  <2>2. PICK m \in T : \A y \in T : m <= y
    <3> HIDE DEF T
    <3> QED BY <2>1, Least
  <2>3. CASE m = 0
    <3>1. [i \in 1..n |-> s] \in [1..n -> S] /\ 1..0 = {}
      BY <1>s
    <3> QED BY <2>3, <3>1
  <2>4. CASE m # 0
    <3>0. m \in 0..n
      OBVIOUS
    <3>1. m \in 1..n /\ m - 1 \in 0..n
      BY <2>4, <3>0
    <3>a. m - 1 \notin T
      <4> HIDE DEF T
      <4> QED BY <2>1, <2>2, <3>1
    <3>2. PICK g \in [1..n -> S] : \A i \in 1..m - 1 : g[i] = F[i][g]
      BY <3>1, <3>a
    <3>3. F[m][g] \in S
      BY <1>r, <3>1
    <3>4. PICK h \in [1..n -> S] : h = [g EXCEPT ![m] = F[m][g]]
      BY <3>3
    <3>5. \A i \in 1..m : \A j \in 1..i - 1 : h[j] = g[j]
      BY <3>1, <3>4
    <3>6. \A i \in 1..m : F[i][h] = F[i][g]
      <4>1. \A i \in 1..m : i \in 1..n
        BY <3>1
      <4> QED BY <1>r, <3>5, <4>1
    <3>7. ASSUME NEW i \in 1..m PROVE h[i] = F[i][h]
      <4>1. CASE i = m
        BY <3>1, <3>4, <3>6, <4>1
      <4>2. CASE i # m
        <5>1. i \in 1..m - 1 /\ i \in 1..n
          BY <3>1, <4>2
        <5>2. h[i] = g[i]
          BY <3>4, <4>2, <5>1
        <5> QED BY <3>2, <3>6, <5>1, <5>2
      <4> QED BY <4>1, <4>2
    <3> QED BY <3>7
  <2> QED BY <2>3, <2>4
<1>2. Good(n)
  <2>1. n \in 0..n
    OBVIOUS
  <2> HIDE DEF Good
  <2> QED BY <1>1, <2>1
<1> QED BY <1>2 DEF Solves

-----------------------------------------------------------------------------
(* Expressions and their guards.                                           *)
LEMMA Parts ==
  ASSUME NEW e, Expression(e)
  PROVE  /\ Len(e) \in Nat /\ DOMAIN e = 1..Len(e)
         /\ \A i \in DOMAIN e :
              /\ e[i] \in Node /\ Arity(e[i]) /\ e[i].op \in Op /\ e[i].name \in Name
              /\ Len(e[i].args) \in Nat /\ DOMAIN e[i].args = 1..Len(e[i].args)
              /\ \A k \in DOMAIN e[i].args : e[i].args[k] \in 1..i - 1 /\ e[i].args[k] \in DOMAIN e
              /\ e[i].op = "user" => Resolves[e[i].name] \in Channel
<1>1. Len(e) \in Nat /\ DOMAIN e = 1..Len(e) /\ \A i \in DOMAIN e : e[i] \in Node
  BY LenProperties DEF Expression
<1>2. ASSUME NEW i \in DOMAIN e
      PROVE  /\ Arity(e[i]) /\ e[i].op \in Op /\ e[i].name \in Name
             /\ Len(e[i].args) \in Nat /\ DOMAIN e[i].args = 1..Len(e[i].args)
             /\ \A k \in DOMAIN e[i].args : e[i].args[k] \in 1..i - 1 /\ e[i].args[k] \in DOMAIN e
             /\ e[i].op = "user" => Resolves[e[i].name] \in Channel
  <2>1. e[i].op \in Op /\ e[i].name \in Name /\ e[i].args \in Seq(Nat \ {0})
    BY <1>1 DEF Node
  <2>2. /\ Len(e[i].args) \in Nat /\ DOMAIN e[i].args = 1..Len(e[i].args)
        /\ \A k \in DOMAIN e[i].args : e[i].args[k] \in Nat \ {0}
    BY <2>1, LenProperties
  <2>3. \A k \in DOMAIN e[i].args : e[i].args[k] < i
    BY DEF Expression
  <2>4. e[i].op = "user" => Resolves[e[i].name] \in Channel
    BY <2>1, NamesAssumption DEF Expression
  <2>5. Arity(e[i])
    BY DEF Expression
  <2> QED BY <1>1, <2>1, <2>2, <2>3, <2>4, <2>5
<1> QED BY <1>1, <1>2

(* How many arguments the operators have whose arguments are told apart.   *)
LEMMA Arities ==
  ASSUME NEW e, Expression(e), NEW i \in DOMAIN e
  PROVE  /\ e[i].op \in {"paren", "not", "minus"} => DOMAIN e[i].args = {1}
         /\ e[i].op = "ternary" => DOMAIN e[i].args = {1, 2, 3}
<1>1. /\ DOMAIN e[i].args = 1..Len(e[i].args) /\ Arity(e[i])
      /\ 1..1 = {1} /\ 1..3 = {1, 2, 3}
  BY Parts
<1>2. CASE e[i].op \in {"paren", "not", "minus"}
  BY <1>1, <1>2 DEF Arity
<1>3. CASE e[i].op = "ternary"
  BY <1>1, <1>3 DEF Arity
<1> QED BY <1>2, <1>3

(* What isnan_guard finds at a node.  GuardAt looks at the nodes before it *)
(* alone, so the guards of an expression exist and are of this type.       *)
GuardSet(e) == [found : BOOLEAN, arg : DOMAIN e, negated : BOOLEAN]

LEMMA GuardAtLocal ==
  ASSUME NEW e, Expression(e), NEW i \in DOMAIN e, NEW g, NEW h,
         \A j \in 1..i - 1 : g[j] = h[j]
  PROVE  GuardAt(e, g, i) = GuardAt(e, h, i)
<1>1. \A k \in DOMAIN e[i].args : g[e[i].args[k]] = h[e[i].args[k]]
  BY Parts
<1>2. e[i].op \in {"paren", "not"} => g[e[i].args[1]] = h[e[i].args[1]]
  BY <1>1, Arities
<1> QED BY <1>2 DEF GuardAt

LEMMA GuardAtTyped ==
  ASSUME NEW e, Expression(e), NEW i \in DOMAIN e, NEW g,
         \A j \in 1..i - 1 : g[j] \in GuardSet(e)
  PROVE  GuardAt(e, g, i) \in GuardSet(e)
<1>1. i \in Nat /\ \A k \in DOMAIN e[i].args : e[i].args[k] \in 1..i - 1 /\ e[i].args[k] \in DOMAIN e
  BY Parts
<1>2. CASE e[i].op \in {"paren", "not"}
  <2>1. PICK j \in 1..i - 1 : j = e[i].args[1]
    BY <1>1, <1>2, Arities
  <2>2. g[j] \in GuardSet(e)
    OBVIOUS
  <2>3. CASE e[i].op = "paren"
    BY <2>1, <2>2, <2>3 DEF GuardAt
  <2>4. CASE e[i].op = "not"
    <3>1. GuardAt(e, g, i) = [g[j] EXCEPT !.negated = ~@]
      BY <2>1, <2>4 DEF GuardAt
    <3> QED BY <2>2, <3>1 DEF GuardSet
  <2> QED BY <1>2, <2>3, <2>4
<1>3. CASE e[i].op = "IsNAN" /\ Len(e[i].args) = 1
  <2>1. 1 \in DOMAIN e[i].args
    BY <1>3, Parts
  <2>2. GuardAt(e, g, i) = [found |-> TRUE, arg |-> e[i].args[1], negated |-> FALSE]
    BY <1>3 DEF GuardAt
  <2> QED BY <1>1, <2>1, <2>2 DEF GuardSet
<1>4. CASE e[i].op \notin {"paren", "not"} /\ ~(e[i].op = "IsNAN" /\ Len(e[i].args) = 1)
  <2>1. GuardAt(e, g, i) = [found |-> FALSE, arg |-> i, negated |-> FALSE]
    BY <1>4 DEF GuardAt
  <2> QED BY <1>1, <2>1 DEF GuardSet
<1> QED BY <1>2, <1>3, <1>4

GuardsAre(e, g) == g = [i \in DOMAIN e |-> GuardAt(e, g, i)]

LEMMA GuardsExist ==
  ASSUME NEW e, Expression(e)
  PROVE  \E g : GuardsAre(e, g)
<1>1. PICK n \in Nat : n = Len(e) /\ DOMAIN e = 1..n
  BY Parts
<1>2. CASE n = 0
  <2> DEFINE g == [i \in {} |-> 0]
  <2>1. DOMAIN e = {}
    BY <1>1, <1>2
  <2>2. g = [i \in DOMAIN e |-> GuardAt(e, g, i)]
    BY <2>1
  <2> QED BY <2>2 DEF GuardsAre
<1>3. CASE n # 0
  <2> DEFINE S == GuardSet(e)
             F == [i \in 1..n |-> [g \in [1..n -> S] |-> GuardAt(e, g, i)]]
  <2>1. [found |-> FALSE, arg |-> 1, negated |-> FALSE] \in S
    BY <1>1, <1>3 DEF GuardSet
  <2>2. ASSUME NEW i \in 1..n, NEW g \in [1..n -> S] PROVE GuardAt(e, g, i) \in S
    <3>1. \A j \in 1..i - 1 : j \in 1..n
      OBVIOUS
    <3>2. \A j \in 1..i - 1 : g[j] \in S
      BY <3>1
    <3> QED BY <1>1, <3>2, GuardAtTyped
  <2>3. F \in [1..n -> [[1..n -> S] -> S]]
    <3> HIDE DEF S
    <3> QED BY <2>2
  <2>4. ASSUME NEW i \in 1..n, NEW g \in [1..n -> S], NEW h \in [1..n -> S],
               \A j \in 1..i - 1 : g[j] = h[j]
        PROVE  F[i][g] = F[i][h]
    <3>1. GuardAt(e, g, i) = GuardAt(e, h, i)
      BY <1>1, <2>4, GuardAtLocal
    <3> HIDE DEF S
    <3> QED BY <3>1
  <2>a. Recursive(n, S, F)
    <3> HIDE DEF S, F
    <3> QED BY <2>3, <2>4 DEF Recursive
  <2>5. PICK g \in [1..n -> S] : Solves(n, F, g)
    <3> HIDE DEF S, F
    <3> QED BY <2>1, <2>a, Solved
  <2>6. \A i \in 1..n : g[i] = GuardAt(e, g, i)
    <3> HIDE DEF S
    <3> QED BY <2>5 DEF Solves
  <2>7. g = [i \in 1..n |-> GuardAt(e, g, i)]
    BY <2>6
  <2> QED BY <1>1, <2>7 DEF GuardsAre
<1> QED BY <1>2, <1>3

LEMMA GuardsFacts ==
  ASSUME NEW e, Expression(e)
  PROVE  \A i \in DOMAIN e :
           /\ Guards(e)[i] = GuardAt(e, Guards(e), i)
           /\ Guards(e)[i] \in GuardSet(e) /\ Guards(e)[i].arg <= i
<1>1. GuardsAre(e, Guards(e))
  <2>1. Guards(e) = CHOOSE g : GuardsAre(e, g)
    BY DEF Guards, GuardsAre
  <2> QED BY <2>1, GuardsExist
<1>2. PICK g : g = Guards(e) /\ \A i \in DOMAIN e : g[i] = GuardAt(e, g, i)
  BY <1>1 DEF GuardsAre
<1>3. PICK n \in Nat : n = Len(e) /\ DOMAIN e = 1..n
  BY Parts
<1> DEFINE P == {i \in 1..n : g[i] \in GuardSet(e) /\ g[i].arg <= i}
<1>4. ASSUME NEW i \in 1..n, \A j \in 1..i - 1 : j \in P PROVE i \in P
  <2>1. g[i] = GuardAt(e, g, i) /\ g[i] \in GuardSet(e)
    BY <1>2, <1>3, <1>4, GuardAtTyped
  <2>2. CASE e[i].op \in {"paren", "not"}
    <3>1. PICK j \in 1..i - 1 : j = e[i].args[1]
      BY <1>3, <2>2, Arities, Parts
    <3>2. g[j] \in GuardSet(e) /\ g[j].arg <= j
      BY <1>4
    <3>3. g[i].arg = g[j].arg
      <4>1. e[i].op = "paren" => g[i] = g[j]
        BY <2>1, <3>1 DEF GuardAt
      <4>2. e[i].op = "not" => g[i] = [g[j] EXCEPT !.negated = ~@]
        BY <2>1, <3>1 DEF GuardAt
      <4> QED BY <2>2, <3>2, <4>1, <4>2 DEF GuardSet
    <3>4. g[j].arg \in Nat
      BY <1>3, <3>2 DEF GuardSet
    <3> QED BY <2>1, <3>2, <3>3, <3>4
  <2>3. CASE e[i].op = "IsNAN" /\ Len(e[i].args) = 1
    <3>1. g[i] = [found |-> TRUE, arg |-> e[i].args[1], negated |-> FALSE]
      BY <2>1, <2>3 DEF GuardAt
    <3>2. 1 \in DOMAIN e[i].args
      BY <1>3, <2>3, Parts
    <3>3. e[i].args[1] \in 1..i - 1
      BY <1>3, <3>2, Parts
    <3> QED BY <2>1, <3>1, <3>3
  <2>4. CASE e[i].op \notin {"paren", "not"} /\ ~(e[i].op = "IsNAN" /\ Len(e[i].args) = 1)
    <3>1. g[i] = [found |-> FALSE, arg |-> i, negated |-> FALSE]
      BY <2>1, <2>4 DEF GuardAt
    <3> QED BY <2>1, <3>1
  <2> QED BY <2>2, <2>3, <2>4
<1>5. 1..n \subseteq P
  <2> HIDE DEF P
  <2> QED BY <1>4, Upward
<1> QED BY <1>2, <1>3, <1>5

(* The guard of a ternary and both its branches are nodes before it.       *)
LEMMA TernaryParts ==
  ASSUME NEW e, Expression(e), NEW i \in DOMAIN e, e[i].op = "ternary"
  PROVE  /\ \A k \in {1, 2, 3} : k \in DOMAIN e[i].args /\ e[i].args[k] \in 1..i - 1
         /\ Guard(e, i).found \in BOOLEAN /\ Guard(e, i).arg \in 1..i - 1
         /\ NanBranch(e, i) \in 1..i - 1 /\ OkBranch(e, i) \in 1..i - 1
         /\ 1..i - 1 \subseteq DOMAIN e
<1>1. DOMAIN e = 1..Len(e) /\ Len(e) \in Nat /\ DOMAIN e[i].args = {1, 2, 3}
  BY Parts, Arities
<1>2. \A k \in {1, 2, 3} : k \in DOMAIN e[i].args /\ e[i].args[k] \in 1..i - 1
  BY <1>1, Parts
<1>3. PICK j \in 1..i - 1 : j = e[i].args[1] /\ j \in DOMAIN e
  BY <1>1, <1>2
<1>4. Guards(e)[j] \in GuardSet(e) /\ Guards(e)[j].arg <= j
  BY <1>3, GuardsFacts
<1>5. Guard(e, i).found \in BOOLEAN /\ Guard(e, i).arg \in 1..i - 1
  BY <1>1, <1>3, <1>4 DEF Guard, GuardSet
<1> QED BY <1>1, <1>2, <1>5 DEF NanBranch, OkBranch
-----------------------------------------------------------------------------
(* The taints that come up: what is sanitised carries nothing, and what is *)
(* latched is invalid.                                                     *)
Sane(t) ==
  /\ t \in Taint
  /\ t.sanitised => ~t.invalid /\ ~t.latched /\ DOMAIN t.deps = {}
  /\ t.latched => t.invalid

SaneTaint == {t \in Taint : Sane(t)}
Answer == [Channel -> {"clean", "tainted", "latched"}]

TypedWalk(ctx, known) ==
  /\ ctx.channels \in Answer
  /\ \A n \in DOMAIN known : known[n] \in SaneTaint

(* Deps, element by element: the provers do not see through its union.     *)
LEMMA DepsFacts ==
  ASSUME NEW f
  PROVE  f \in Deps <=> f \in [DOMAIN f -> BOOLEAN] /\ DOMAIN f \subseteq Channel
BY DEF Deps

(* The fields of a taint that comes up.                                    *)
LEMMA SaneParts ==
  ASSUME NEW t \in SaneTaint
  PROVE  /\ Sane(t) /\ t \in Taint
         /\ t.invalid \in BOOLEAN /\ t.sanitised \in BOOLEAN /\ t.latched \in BOOLEAN
         /\ t.deps \in Deps /\ DOMAIN t.deps \subseteq Channel
         /\ \A c \in DOMAIN t.deps : t.deps[c] \in BOOLEAN
         /\ t = [invalid |-> t.invalid, sanitised |-> t.sanitised,
                 latched |-> t.latched, deps |-> t.deps]
<1>1. Sane(t) /\ t \in Taint
  BY DEF SaneTaint
<1>2. /\ t.invalid \in BOOLEAN /\ t.sanitised \in BOOLEAN /\ t.latched \in BOOLEAN
      /\ t.deps \in Deps
      /\ t = [invalid |-> t.invalid, sanitised |-> t.sanitised,
              latched |-> t.latched, deps |-> t.deps]
  BY <1>1 DEF Taint
<1>3. t.deps \in [DOMAIN t.deps -> BOOLEAN] /\ DOMAIN t.deps \subseteq Channel
  BY <1>2, DepsFacts
<1> QED BY <1>1, <1>2, <1>3

(* A taint with a field replaced.                                          *)
LEMMA UpdateFacts ==
  ASSUME NEW t \in Taint, NEW b \in BOOLEAN
  PROVE  /\ [t EXCEPT !.invalid = b] \in Taint
         /\ [t EXCEPT !.invalid = b].invalid = b
         /\ [t EXCEPT !.invalid = b].sanitised = t.sanitised
         /\ [t EXCEPT !.invalid = b].latched = t.latched
         /\ [t EXCEPT !.invalid = b].deps = t.deps
         /\ [t EXCEPT !.sanitised = b] \in Taint
         /\ [t EXCEPT !.sanitised = b].invalid = t.invalid
         /\ [t EXCEPT !.sanitised = b].sanitised = b
         /\ [t EXCEPT !.sanitised = b].latched = t.latched
         /\ [t EXCEPT !.sanitised = b].deps = t.deps
BY DEF Taint

(* The three constant taints come up.                                      *)
LEMMA ConstantTaints ==
  /\ FiniteTaint \in SaneTaint /\ Source \in SaneTaint /\ Cleared \in SaneTaint
  /\ ~FiniteTaint.invalid /\ ~FiniteTaint.sanitised /\ ~FiniteTaint.latched
  /\ Source.invalid /\ ~Source.sanitised /\ ~Source.latched
  /\ ~Cleared.invalid /\ Cleared.sanitised /\ ~Cleared.latched
  /\ FiniteTaint.deps = NoDeps /\ Source.deps = NoDeps /\ Cleared.deps = NoDeps
  /\ DOMAIN NoDeps = {} /\ NoDeps \in Deps
<1>1. NoDeps \in Deps /\ DOMAIN NoDeps = {}
  BY DepsFacts DEF NoDeps
<1>2. /\ FiniteTaint \in Taint /\ FiniteTaint.deps = NoDeps
      /\ FiniteTaint.invalid = FALSE /\ FiniteTaint.sanitised = FALSE /\ FiniteTaint.latched = FALSE
  BY <1>1 DEF FiniteTaint, Taint
<1>3. /\ Source \in Taint /\ Source.deps = NoDeps
      /\ Source.invalid = TRUE /\ Source.sanitised = FALSE /\ Source.latched = FALSE
  BY <1>1, <1>2, UpdateFacts DEF Source
<1>4. /\ Cleared \in Taint /\ Cleared.deps = NoDeps
      /\ Cleared.invalid = FALSE /\ Cleared.sanitised = TRUE /\ Cleared.latched = FALSE
  BY <1>1, <1>2, UpdateFacts DEF Cleared
<1> QED BY <1>1, <1>2, <1>3, <1>4 DEF SaneTaint, Sane

(* What the operations make of such taints, field by field.                *)
LEMMA JoinAllSane ==
  ASSUME NEW ts, \A i \in DOMAIN ts : ts[i] \in SaneTaint
  PROVE  JoinAll(ts) \in SaneTaint /\ ~JoinAll(ts).sanitised
<1> DEFINE inv == \E i \in DOMAIN ts : ts[i].invalid
           lat == \E i \in DOMAIN ts : ts[i].latched
           dom == UNION {DOMAIN ts[i].deps : i \in DOMAIN ts}
           dep == [c \in dom |-> \E i \in DOMAIN ts : c \in DOMAIN ts[i].deps /\ ts[i].deps[c]]
<1>1. dom \subseteq Channel
  BY SaneParts
<1>2. dep \in Deps
  <2>1. DOMAIN dep = dom
    OBVIOUS
  <2>2. dep \in [dom -> BOOLEAN]
    <3> HIDE DEF dom
    <3> QED OBVIOUS
  <2> HIDE DEF dep, dom
  <2> QED BY <1>1, <2>1, <2>2, DepsFacts
<1>3. lat => inv
  BY SaneParts DEF Sane
<1>4. JoinAll(ts) = [invalid |-> inv, sanitised |-> FALSE, latched |-> lat, deps |-> dep]
  BY DEF JoinAll
<1>5. inv \in BOOLEAN /\ lat \in BOOLEAN
  OBVIOUS
<1> HIDE DEF inv, lat, dep
<1>6. /\ JoinAll(ts) \in Taint /\ ~JoinAll(ts).sanitised
      /\ JoinAll(ts).latched = lat /\ JoinAll(ts).invalid = inv
  BY <1>2, <1>4, <1>5 DEF Taint
<1> QED BY <1>3, <1>6 DEF SaneTaint, Sane

LEMMA JoinSane ==
  ASSUME NEW s \in SaneTaint, NEW t \in SaneTaint
  PROVE  Join(s, t) \in SaneTaint /\ ~Join(s, t).sanitised
<1>1. DOMAIN <<s, t>> = {1, 2} /\ <<s, t>>[1] = s /\ <<s, t>>[2] = t
  OBVIOUS
<1>2. \A i \in DOMAIN <<s, t>> : <<s, t>>[i] \in SaneTaint
  BY <1>1
<1> QED BY <1>2, JoinAllSane DEF Join

LEMMA EdgeFacts ==
  ASSUME NEW t \in SaneTaint, ~t.sanitised, NEW c \in Channel
  PROVE  /\ WithEdge(t, c) \in SaneTaint
         /\ WithEdge(t, c).invalid = t.invalid /\ WithEdge(t, c).latched = t.latched
         /\ WithEdge(t, c).sanitised = t.sanitised
         /\ DOMAIN WithEdge(t, c).deps = DOMAIN t.deps \cup {c}
         /\ \A d \in DOMAIN t.deps : d # c => WithEdge(t, c).deps[d] = t.deps[d]
         /\ ~WithEdge(t, c).deps[c]
<1>1. PICK f : f = With(t.deps, c, FALSE)
  OBVIOUS
<1>2. /\ DOMAIN f = DOMAIN t.deps \cup {c} /\ f[c] = FALSE
      /\ \A d \in DOMAIN t.deps : d # c => f[d] = t.deps[d]
  BY <1>1 DEF With
<1>3. f \in Deps
  <2>1. DOMAIN t.deps \cup {c} \subseteq Channel
    BY SaneParts
  <2>2. f \in [DOMAIN t.deps \cup {c} -> BOOLEAN]
    BY <1>1, SaneParts DEF With
  <2> QED BY <1>2, <2>1, <2>2, DepsFacts
<1>4. WithEdge(t, c) = [t EXCEPT !.deps = f]
  BY <1>1 DEF WithEdge
<1>5. t \in Taint /\ t.sanitised = FALSE /\ (t.latched => t.invalid)
  BY SaneParts DEF Sane
<1>6. /\ WithEdge(t, c) \in Taint
      /\ WithEdge(t, c).invalid = t.invalid /\ WithEdge(t, c).latched = t.latched
      /\ WithEdge(t, c).sanitised = t.sanitised /\ WithEdge(t, c).deps = f
  BY <1>3, <1>4, <1>5 DEF Taint
<1>7. WithEdge(t, c) \in SaneTaint
  BY <1>5, <1>6 DEF SaneTaint, Sane
<1> QED BY <1>2, <1>6, <1>7

LEMMA LatchFacts ==
  ASSUME NEW t \in SaneTaint
  PROVE  /\ Latch(t) \in SaneTaint
         /\ Latch(t).invalid = t.invalid /\ Latch(t).sanitised = t.sanitised
         /\ Latch(t).latched = t.invalid
         /\ DOMAIN Latch(t).deps = DOMAIN t.deps
         /\ \A d \in DOMAIN t.deps : Latch(t).deps[d]
<1>1. PICK f : f = [c \in DOMAIN t.deps |-> TRUE]
  OBVIOUS
<1>2. PICK b \in BOOLEAN : b = (t.latched \/ t.invalid)
  OBVIOUS
<1>3. t \in Taint /\ Sane(t) /\ b = t.invalid
  BY <1>2, SaneParts DEF Sane
<1>4. f \in Deps /\ DOMAIN f = DOMAIN t.deps /\ \A d \in DOMAIN t.deps : f[d]
  BY <1>1, DepsFacts, SaneParts
<1>5. Latch(t) = [t EXCEPT !.latched = b, !.deps = f]
  BY <1>1, <1>2 DEF Latch
<1>6. /\ Latch(t) \in Taint
      /\ Latch(t).invalid = t.invalid /\ Latch(t).latched = b
      /\ Latch(t).sanitised = t.sanitised /\ Latch(t).deps = f
  BY <1>3, <1>4, <1>5 DEF Taint
<1>7. Latch(t) \in SaneTaint
  BY <1>3, <1>4, <1>6 DEF SaneTaint, Sane
<1> QED BY <1>3, <1>4, <1>6, <1>7

LEMMA ReadTaintFacts ==
  ASSUME NEW ctx, ctx.channels \in Answer, NEW c \in Channel
  PROVE  /\ ReadTaint(ctx, c) \in SaneTaint /\ ~ReadTaint(ctx, c).sanitised
         /\ DOMAIN ReadTaint(ctx, c).deps = {}
         /\ ReadTaint(ctx, c).invalid = (ctx.channels[c] # "clean")
         /\ ReadTaint(ctx, c).latched = (ctx.channels[c] = "latched")
<1>1. CASE ctx.channels[c] = "clean"
  <2>1. ReadTaint(ctx, c) = FiniteTaint
    BY <1>1 DEF ReadTaint
  <2>2. FiniteTaint.invalid = FALSE /\ FiniteTaint.latched = FALSE
    BY ConstantTaints, SaneParts
  <2> QED BY <1>1, <2>1, <2>2, ConstantTaints
<1>2. CASE ctx.channels[c] # "clean"
  <2>1. PICK b \in BOOLEAN : b = (ctx.channels[c] = "latched")
    OBVIOUS
  <2>2. ReadTaint(ctx, c) = [Source EXCEPT !.latched = b]
    BY <1>2, <2>1 DEF ReadTaint
  <2>3. PICK t : t = ReadTaint(ctx, c)
    OBVIOUS
  <2>4. Source \in Taint /\ Source.invalid = TRUE /\ Source.sanitised = FALSE /\ Source.deps = NoDeps
    BY ConstantTaints, SaneParts
  <2>5. t \in Taint /\ t.invalid = TRUE /\ t.sanitised = FALSE /\ t.latched = b /\ t.deps = NoDeps
    BY <2>2, <2>3, <2>4, ConstantTaints DEF Taint
  <2>6. t \in SaneTaint
    BY <2>5 DEF SaneTaint, Sane
  <2> QED BY <1>2, <2>1, <2>3, <2>5, <2>6, ConstantTaints
<1> QED BY <1>1, <1>2

LEMMA NameTaintSane ==
  ASSUME NEW ctx, NEW known, TypedWalk(ctx, known), NEW n \in Name
  PROVE  NameTaint(ctx, known, n) \in SaneTaint
<1>1. CASE n \in ctx.sources
  BY <1>1, ConstantTaints DEF NameTaint
<1>2. CASE n \in DOMAIN known \ ctx.sources
  BY <1>2 DEF NameTaint, TypedWalk
<1>3. CASE n \notin DOMAIN known \cup ctx.sources /\ Resolves[n] = NoSymbol
  BY <1>3, ConstantTaints DEF NameTaint
<1>4. CASE n \notin DOMAIN known \cup ctx.sources /\ Resolves[n] # NoSymbol
  <2>1. Resolves[n] \in Channel
    BY <1>4, NamesAssumption
  <2>2. NameTaint(ctx, known, n) = WithEdge(ReadTaint(ctx, Resolves[n]), Resolves[n])
    BY <1>4 DEF NameTaint
  <2>3. ReadTaint(ctx, Resolves[n]) \in SaneTaint /\ ~ReadTaint(ctx, Resolves[n]).sanitised
    BY <2>1, ReadTaintFacts DEF TypedWalk
  <2> QED BY <2>1, <2>2, <2>3, EdgeFacts
<1> QED BY <1>1, <1>2, <1>3, <1>4
-----------------------------------------------------------------------------
(* The taint of a node depends on those before it alone, and is sane when  *)
(* they are.                                                               *)
LEMMA TaintAtLocal ==
  ASSUME NEW e, Expression(e), NEW ctx, NEW known, NEW i \in DOMAIN e, NEW g, NEW h,
         \A j \in 1..i - 1 : g[j] = h[j]
  PROVE  TaintAt(e, ctx, known, g, i) = TaintAt(e, ctx, known, h, i)
<1>1. \A k \in DOMAIN e[i].args : g[e[i].args[k]] = h[e[i].args[k]]
  BY Parts
<1>2. [k \in DOMAIN e[i].args |-> g[e[i].args[k]]] = [k \in DOMAIN e[i].args |-> h[e[i].args[k]]]
  BY <1>1
<1>3. e[i].op = "ternary" => GuardedTaint(e, g, i) = GuardedTaint(e, h, i)
  <2> SUFFICES ASSUME e[i].op = "ternary"
               PROVE  GuardedTaint(e, g, i) = GuardedTaint(e, h, i)
    OBVIOUS
  <2>1. g[NanBranch(e, i)] = h[NanBranch(e, i)] /\ g[OkBranch(e, i)] = h[OkBranch(e, i)]
    BY TernaryParts
  <2> QED BY <2>1 DEF GuardedTaint
<1> QED BY <1>2, <1>3 DEF TaintAt

LEMMA TaintAtSane ==
  ASSUME NEW e, Expression(e), NEW ctx, NEW known, TypedWalk(ctx, known),
         NEW i \in DOMAIN e, NEW g, \A j \in 1..i - 1 : g[j] \in SaneTaint
  PROVE  TaintAt(e, ctx, known, g, i) \in SaneTaint
<1>1. PICK n : n = e[i]
  OBVIOUS
<1>2. PICK args : args = [k \in DOMAIN n.args |-> g[n.args[k]]]
  OBVIOUS
<1>3. \A k \in DOMAIN args : args[k] \in SaneTaint
  BY <1>1, <1>2, Parts
<1>4. JoinAll(args) \in SaneTaint /\ ~JoinAll(args).sanitised
  BY <1>3, JoinAllSane
<1>5. PICK t : t = TaintAt(e, ctx, known, g, i)
  OBVIOUS
<1>6. n.op \in Op /\ n.name \in Name
  BY <1>1, Parts
<1>7. CASE n.op \in {"literal", "compare", "infinity", "NAN"}
  BY <1>1, <1>7, ConstantTaints DEF TaintAt
<1>8. CASE n.op = "read"
  BY <1>1, <1>6, <1>8, NameTaintSane DEF TaintAt
<1>9. CASE n.op \in {"paren", "not", "minus"}
  <2>1. 1 \in DOMAIN args
    BY <1>1, <1>2, <1>9, Arities
  <2>2. t = args[1]
    BY <1>1, <1>2, <1>5, <1>9 DEF TaintAt
  <2> QED BY <1>3, <1>5, <2>1, <2>2
<1>10. CASE n.op \in {"arith", "clamp", "IsNAN"}
  <2>1. t = JoinAll(args)
    BY <1>1, <1>2, <1>5, <1>10 DEF TaintAt
  <2> QED BY <1>4, <1>5, <2>1
<1>11. CASE n.op \in {"divide", "domain"}
  <2>1. t = [JoinAll(args) EXCEPT !.invalid = TRUE]
    BY <1>1, <1>2, <1>5, <1>11 DEF TaintAt
  <2>2. PICK u : u = JoinAll(args)
    OBVIOUS
  <2>3. u \in Taint /\ u.sanitised = FALSE
    BY <1>4, <2>2, SaneParts
  <2>4. t = [u EXCEPT !.invalid = TRUE]
    BY <2>1, <2>2
  <2>5. t \in Taint /\ t.invalid = TRUE /\ t.sanitised = FALSE
    BY <2>3, <2>4, ConstantTaints, UpdateFacts
  <2> QED BY <1>5, <2>5 DEF SaneTaint, Sane
<1>12. CASE n.op = "ternary"
  <2>1. CASE Guard(e, i).found
    <3>1. t = GuardedTaint(e, g, i)
      BY <1>1, <1>5, <1>12, <2>1 DEF TaintAt
    <3>2. g[NanBranch(e, i)] \in SaneTaint /\ g[OkBranch(e, i)] \in SaneTaint
      BY <1>1, <1>12, TernaryParts
    <3> QED BY <1>5, <3>1, <3>2, JoinSane, ConstantTaints DEF GuardedTaint
  <2>2. CASE ~Guard(e, i).found
    <3>1. t = Join(args[2], args[3])
      BY <1>1, <1>2, <1>5, <1>12, <2>2 DEF TaintAt
    <3>2. 2 \in DOMAIN args /\ 3 \in DOMAIN args
      BY <1>1, <1>2, <1>12, Arities
    <3> QED BY <1>3, <1>5, <3>1, <3>2, JoinSane
  <2> QED BY <2>1, <2>2
<1>13. CASE n.op = "stateful"
  <2>1. t = Latch(JoinAll(args))
    BY <1>1, <1>2, <1>5, <1>13 DEF TaintAt
  <2> QED BY <1>4, <1>5, <2>1, LatchFacts
<1>14. CASE n.op = "user"
  <2>1. PICK c : c = Resolves[n.name]
    OBVIOUS
  <2>2. c \in Channel
    BY <1>1, <1>14, <2>1, Parts
  <2>3. t = WithEdge(Join(JoinAll(args), ReadTaint(ctx, c)), c)
    BY <1>1, <1>2, <1>5, <1>14, <2>1 DEF TaintAt
  <2>4. ReadTaint(ctx, c) \in SaneTaint
    BY <2>2, ReadTaintFacts DEF TypedWalk
  <2>5. PICK u : u = Join(JoinAll(args), ReadTaint(ctx, c))
    OBVIOUS
  <2>6. u \in SaneTaint /\ ~u.sanitised
    BY <1>4, <2>4, <2>5, JoinSane
  <2>7. t = WithEdge(u, c)
    BY <2>3, <2>5
  <2> QED BY <1>5, <2>2, <2>6, <2>7, EdgeFacts
<1> QED BY <1>6, <1>7, <1>8, <1>9, <1>10, <1>11, <1>12, <1>13, <1>14 DEF Op

(* The taints of an expression solve their equations.                      *)
TaintsAre(e, ctx, known, g) ==
  g = [i \in DOMAIN e |-> TaintAt(e, ctx, known, g, i)]

LEMMA TaintsExist ==
  ASSUME NEW e, Expression(e), NEW ctx, NEW known, TypedWalk(ctx, known)
  PROVE  \E g : TaintsAre(e, ctx, known, g)
<1>1. PICK n \in Nat : n = Len(e) /\ DOMAIN e = 1..n
  BY Parts
<1> DEFINE S == SaneTaint
           F == [i \in 1..n |-> [g \in [1..n -> S] |-> TaintAt(e, ctx, known, g, i)]]
<1>2. S # {}
  BY ConstantTaints
<1>3. ASSUME NEW i \in 1..n, NEW g \in [1..n -> S] PROVE TaintAt(e, ctx, known, g, i) \in S
  <2>1. \A j \in 1..i - 1 : j \in 1..n
    OBVIOUS
  <2>2. \A j \in 1..i - 1 : g[j] \in S
    BY <2>1
  <2> QED BY <1>1, <2>2, TaintAtSane
<1>4. F \in [1..n -> [[1..n -> S] -> S]]
  <2> HIDE DEF S
  <2> QED BY <1>3
<1>5. ASSUME NEW i \in 1..n, NEW g \in [1..n -> S], NEW h \in [1..n -> S],
             \A j \in 1..i - 1 : g[j] = h[j]
      PROVE  F[i][g] = F[i][h]
  <2>1. TaintAt(e, ctx, known, g, i) = TaintAt(e, ctx, known, h, i)
    BY <1>1, <1>5, TaintAtLocal
  <2> HIDE DEF S
  <2> QED BY <2>1
<1>6. Recursive(n, S, F)
  <2> HIDE DEF S, F
  <2> QED BY <1>4, <1>5 DEF Recursive
<1>7. PICK g \in [1..n -> S] : Solves(n, F, g)
  <2> HIDE DEF S, F
  <2> QED BY <1>2, <1>6, Solved
<1>8. \A i \in 1..n : g[i] = TaintAt(e, ctx, known, g, i)
  <2> HIDE DEF S
  <2> QED BY <1>7 DEF Solves
<1>9. g = [i \in 1..n |-> TaintAt(e, ctx, known, g, i)]
  BY <1>8
<1> QED BY <1>1, <1>9 DEF TaintsAre

LEMMA TaintsFacts ==
  ASSUME NEW e, Expression(e), NEW ctx, NEW known, TypedWalk(ctx, known)
  PROVE  \A i \in DOMAIN e :
           /\ TaintsOf(e, ctx, known)[i] = TaintAt(e, ctx, known, TaintsOf(e, ctx, known), i)
           /\ TaintsOf(e, ctx, known)[i] \in SaneTaint
<1>1. TaintsAre(e, ctx, known, TaintsOf(e, ctx, known))
  <2>1. TaintsOf(e, ctx, known) = CHOOSE g : TaintsAre(e, ctx, known, g)
    BY DEF TaintsOf, TaintsAre
  <2> QED BY <2>1, TaintsExist
<1>2. PICK g : g = TaintsOf(e, ctx, known) /\ \A i \in DOMAIN e : g[i] = TaintAt(e, ctx, known, g, i)
  BY <1>1 DEF TaintsAre
<1>3. PICK n \in Nat : n = Len(e) /\ DOMAIN e = 1..n
  BY Parts
<1> DEFINE P == {i \in 1..n : g[i] \in SaneTaint}
<1>4. ASSUME NEW i \in 1..n, \A j \in 1..i - 1 : j \in P PROVE i \in P
  <2>1. \A j \in 1..i - 1 : g[j] \in SaneTaint
    BY <1>4
  <2>2. i \in DOMAIN e /\ g[i] = TaintAt(e, ctx, known, g, i)
    BY <1>2, <1>3
  <2> QED BY <2>1, <2>2, TaintAtSane
<1>5. 1..n \subseteq P
  <2> HIDE DEF P
  <2> QED BY <1>4, Upward
<1> QED BY <1>2, <1>3, <1>5
-----------------------------------------------------------------------------
(* What a join is made of.                                                 *)
LEMMA JoinAllFacts ==
  ASSUME NEW ts
  PROVE  /\ JoinAll(ts).invalid = (\E i \in DOMAIN ts : ts[i].invalid)
         /\ JoinAll(ts).latched = (\E i \in DOMAIN ts : ts[i].latched)
         /\ DOMAIN JoinAll(ts).deps = UNION {DOMAIN ts[i].deps : i \in DOMAIN ts}
         /\ \A c \in DOMAIN JoinAll(ts).deps :
              JoinAll(ts).deps[c] =
                (\E i \in DOMAIN ts : c \in DOMAIN ts[i].deps /\ ts[i].deps[c])
BY DEF JoinAll

LEMMA JoinFacts ==
  ASSUME NEW s \in SaneTaint, NEW t \in SaneTaint
  PROVE  /\ Join(s, t).invalid = (s.invalid \/ t.invalid)
         /\ Join(s, t).latched = (s.latched \/ t.latched)
         /\ DOMAIN Join(s, t).deps = DOMAIN s.deps \cup DOMAIN t.deps
         /\ \A c \in DOMAIN Join(s, t).deps :
              Join(s, t).deps[c] = (\/ c \in DOMAIN s.deps /\ s.deps[c]
                                    \/ c \in DOMAIN t.deps /\ t.deps[c])
<1>1. PICK ts : ts = <<s, t>>
  OBVIOUS
<1>2. DOMAIN ts = {1, 2} /\ ts[1] = s /\ ts[2] = t
  BY <1>1
<1>3. Join(s, t) = JoinAll(ts)
  BY <1>1 DEF Join
<1>4. /\ (\E i \in DOMAIN ts : ts[i].invalid) = (s.invalid \/ t.invalid)
      /\ (\E i \in DOMAIN ts : ts[i].latched) = (s.latched \/ t.latched)
  BY <1>2
<1>5. UNION {DOMAIN ts[i].deps : i \in DOMAIN ts} = DOMAIN s.deps \cup DOMAIN t.deps
  BY <1>2
<1>6. \A c : (\E i \in DOMAIN ts : c \in DOMAIN ts[i].deps /\ ts[i].deps[c])
               = (\/ c \in DOMAIN s.deps /\ s.deps[c]
                  \/ c \in DOMAIN t.deps /\ t.deps[c])
  BY <1>2
<1> QED BY <1>3, <1>4, <1>5, <1>6, JoinAllFacts

(* The arguments of a node, and the equation of each kind of node.         *)
Args(e, g, i) == [k \in DOMAIN e[i].args |-> g[e[i].args[k]]]

(* The taint of a node by its operator.                                    *)
LEMMA TaintCases ==
  ASSUME NEW e, NEW ctx, NEW known, NEW i, NEW g
  PROVE  /\ e[i].op \in {"literal", "compare"} => TaintAt(e, ctx, known, g, i) = FiniteTaint
         /\ e[i].op = "read" => TaintAt(e, ctx, known, g, i) = NameTaint(ctx, known, e[i].name)
         /\ e[i].op \in {"paren", "not", "minus"} => TaintAt(e, ctx, known, g, i) = Args(e, g, i)[1]
         /\ e[i].op \in {"arith", "clamp", "IsNAN"} =>
              TaintAt(e, ctx, known, g, i) = JoinAll(Args(e, g, i))
         /\ e[i].op \in {"divide", "domain"} =>
              TaintAt(e, ctx, known, g, i) = [JoinAll(Args(e, g, i)) EXCEPT !.invalid = TRUE]
         /\ e[i].op = "ternary" /\ Guard(e, i).found =>
              TaintAt(e, ctx, known, g, i) = GuardedTaint(e, g, i)
         /\ e[i].op = "ternary" /\ ~Guard(e, i).found =>
              TaintAt(e, ctx, known, g, i) = Join(Args(e, g, i)[2], Args(e, g, i)[3])
         /\ e[i].op \in {"infinity", "NAN"} => TaintAt(e, ctx, known, g, i) = Source
         /\ e[i].op = "stateful" => TaintAt(e, ctx, known, g, i) = Latch(JoinAll(Args(e, g, i)))
         /\ e[i].op = "user" =>
              TaintAt(e, ctx, known, g, i) =
                WithEdge(Join(JoinAll(Args(e, g, i)), ReadTaint(ctx, Resolves[e[i].name])),
                         Resolves[e[i].name])
<1>1. PICK args : args = Args(e, g, i)
  OBVIOUS
<1>2. args = [k \in DOMAIN e[i].args |-> g[e[i].args[k]]]
  BY <1>1 DEF Args
<1>3. CASE e[i].op \in {"literal", "compare"}
  BY <1>3 DEF TaintAt
<1>4. CASE e[i].op = "read"
  BY <1>4 DEF TaintAt
<1>5. CASE e[i].op \in {"paren", "not", "minus"}
  BY <1>1, <1>2, <1>5 DEF TaintAt
<1>6. CASE e[i].op \in {"arith", "clamp", "IsNAN"}
  BY <1>1, <1>2, <1>6 DEF TaintAt
<1>7. CASE e[i].op \in {"divide", "domain"}
  BY <1>1, <1>2, <1>7 DEF TaintAt
<1>8. CASE e[i].op = "ternary"
  BY <1>1, <1>2, <1>8 DEF TaintAt
<1>9. CASE e[i].op \in {"infinity", "NAN"}
  BY <1>9 DEF TaintAt
<1>10. CASE e[i].op = "stateful"
  BY <1>1, <1>2, <1>10 DEF TaintAt
<1>11. CASE e[i].op = "user"
  BY <1>1, <1>2, <1>11 DEF TaintAt
<1> QED BY <1>3, <1>4, <1>5, <1>6, <1>7, <1>8, <1>9, <1>10, <1>11

LEMMA ArgFacts ==
  ASSUME NEW e, Expression(e), NEW i \in DOMAIN e, NEW g
  PROVE  /\ DOMAIN Args(e, g, i) = DOMAIN e[i].args
         /\ \A k \in DOMAIN Args(e, g, i) :
              /\ Args(e, g, i)[k] = g[e[i].args[k]]
              /\ e[i].args[k] \in 1..i - 1
              /\ e[i].args[k] \in DOMAIN e
         /\ e[i].op \in {"paren", "not", "minus"} => 1 \in DOMAIN Args(e, g, i)
         /\ e[i].op = "ternary" => 2 \in DOMAIN Args(e, g, i) /\ 3 \in DOMAIN Args(e, g, i)
<1>1. DOMAIN Args(e, g, i) = DOMAIN e[i].args
  BY DEF Args
<1>2. \A k \in DOMAIN Args(e, g, i) : Args(e, g, i)[k] = g[e[i].args[k]]
  BY DEF Args
<1> QED BY <1>1, <1>2, Parts, Arities
-----------------------------------------------------------------------------
(* What the walk of an expression finds when nothing in it is a source of  *)
(* its own and nothing it reads is tainted.                                *)
QuietNode(n, ctx) ==
  /\ n.op \notin {"divide", "domain", "infinity", "NAN"}
  /\ n.op \in {"read", "user"} /\ Resolves[n.name] # NoSymbol =>
       ctx.channels[Resolves[n.name]] = "clean"

LEMMA QuietTaint ==
  ASSUME NEW e, Expression(e), NEW ctx, NEW known, TypedWalk(ctx, known),
         \A i \in DOMAIN e : QuietNode(e[i], ctx),
         ctx.sources = {}, \A n \in DOMAIN known : ~known[n].invalid
  PROVE  \A i \in DOMAIN e : ~TaintsOf(e, ctx, known)[i].invalid
<1>1. PICK g : g = TaintsOf(e, ctx, known)
  OBVIOUS
<1>2. \A i \in DOMAIN e : g[i] = TaintAt(e, ctx, known, g, i) /\ g[i] \in SaneTaint
  BY <1>1, TaintsFacts
<1>3. PICK n \in Nat : n = Len(e) /\ DOMAIN e = 1..n
  BY Parts
<1> DEFINE P == {i \in 1..n : ~g[i].invalid}
<1>4. ASSUME NEW i \in 1..n, \A j \in 1..i - 1 : j \in P PROVE i \in P
  <2>1. i \in DOMAIN e /\ e[i].op \in Op /\ e[i].name \in Name /\ QuietNode(e[i], ctx)
    BY <1>3, Parts
  <2>2. PICK args : args = Args(e, g, i)
    OBVIOUS
  <2>3. \A j \in 1..i - 1 : ~g[j].invalid /\ g[j] \in SaneTaint
    <3>1. \A j \in 1..i - 1 : j \in DOMAIN e
      BY <1>3
    <3> QED BY <1>2, <1>4, <3>1
  <2>4. \A k \in DOMAIN args : ~args[k].invalid /\ args[k] \in SaneTaint
    BY <2>1, <2>2, <2>3, ArgFacts
  <2>5. JoinAll(args) \in SaneTaint /\ ~JoinAll(args).invalid /\ ~JoinAll(args).sanitised
    BY <2>4, JoinAllFacts, JoinAllSane
  <2>6. PICK t : t = TaintAt(e, ctx, known, g, i)
    OBVIOUS
  <2> SUFFICES ~t.invalid
    BY <1>2, <2>1, <2>6
  <2>7. CASE e[i].op \in {"literal", "compare"}
    BY <2>6, <2>7, TaintCases, ConstantTaints
  <2>8. CASE e[i].op = "read"
    <3>1. PICK x \in Name : x = e[i].name
      BY <2>1
    <3>2. t = NameTaint(ctx, known, x)
      BY <2>6, <2>8, <3>1, TaintCases
    <3>3. CASE x \in DOMAIN known
      BY <3>2, <3>3 DEF NameTaint
    <3>4. CASE x \notin DOMAIN known /\ Resolves[x] = NoSymbol
      BY <3>2, <3>4, ConstantTaints DEF NameTaint
    <3>5. CASE x \notin DOMAIN known /\ Resolves[x] # NoSymbol
      <4>1. PICK c \in Channel : c = Resolves[x]
        BY <3>5, NamesAssumption
      <4>2. ctx.channels[c] = "clean"
        BY <2>1, <2>8, <3>1, <3>5, <4>1 DEF QuietNode
      <4>3. t = WithEdge(ReadTaint(ctx, c), c)
        BY <3>2, <3>5, <4>1 DEF NameTaint
      <4>4. ReadTaint(ctx, c) \in SaneTaint /\ ~ReadTaint(ctx, c).sanitised /\ ~ReadTaint(ctx, c).invalid
        BY <4>2, ReadTaintFacts DEF TypedWalk
      <4> QED BY <4>3, <4>4, EdgeFacts
    <3> QED BY <3>3, <3>4, <3>5
  <2>9. CASE e[i].op \in {"paren", "not", "minus"}
    BY <2>1, <2>2, <2>4, <2>6, <2>9, TaintCases, ArgFacts
  <2>10. CASE e[i].op \in {"arith", "clamp", "IsNAN"}
    BY <2>2, <2>5, <2>6, <2>10, TaintCases
  <2>11. CASE e[i].op = "ternary" /\ Guard(e, i).found
    <3>1. t = GuardedTaint(e, g, i)
      BY <2>6, <2>11, TaintCases
    <3>2. /\ g[NanBranch(e, i)] \in SaneTaint /\ ~g[NanBranch(e, i)].invalid
          /\ g[OkBranch(e, i)] \in SaneTaint /\ ~g[OkBranch(e, i)].invalid
      BY <2>1, <2>3, <2>11, TernaryParts
    <3> QED BY <3>1, <3>2, JoinFacts, ConstantTaints DEF GuardedTaint
  <2>12. CASE e[i].op = "ternary" /\ ~Guard(e, i).found
    <3>1. t = Join(args[2], args[3])
      BY <2>2, <2>6, <2>12, TaintCases
    <3>2. 2 \in DOMAIN args /\ 3 \in DOMAIN args
      BY <2>1, <2>2, <2>12, ArgFacts
    <3> QED BY <2>4, <3>1, <3>2, JoinFacts
  <2>13. CASE e[i].op = "stateful"
    BY <2>2, <2>5, <2>6, <2>13, TaintCases, LatchFacts
  <2>14. CASE e[i].op = "user"
    <3>1. PICK c \in Channel : c = Resolves[e[i].name]
      BY <2>1, <2>14, Parts
    <3>2. ctx.channels[c] = "clean"
      BY <2>1, <2>14, <3>1, NamesAssumption DEF QuietNode
    <3>3. ReadTaint(ctx, c) \in SaneTaint /\ ~ReadTaint(ctx, c).invalid
      BY <3>2, ReadTaintFacts DEF TypedWalk
    <3>4. PICK u : u = Join(JoinAll(args), ReadTaint(ctx, c))
      OBVIOUS
    <3>5. u \in SaneTaint /\ ~u.sanitised /\ ~u.invalid
      BY <2>5, <3>3, <3>4, JoinSane, JoinFacts
    <3>6. t = WithEdge(u, c)
      BY <2>2, <2>6, <2>14, <3>1, <3>4, TaintCases
    <3> QED BY <3>5, <3>6, EdgeFacts
  <2>15. e[i].op \notin {"divide", "domain", "infinity", "NAN"}
    BY <2>1 DEF QuietNode
  <2> QED BY <2>1, <2>7, <2>8, <2>9, <2>10, <2>11, <2>12, <2>13, <2>14, <2>15 DEF Op
<1>5. 1..n \subseteq P
  <2> HIDE DEF P
  <2> QED BY <1>4, Upward
<1> QED BY <1>1, <1>3, <1>5
-----------------------------------------------------------------------------
(* Statements.                                                             *)
LEMMA NothingIs == Expression(Nothing) /\ DOMAIN Nothing = {} /\ Len(Nothing) = 0
<1>1. Nothing \in Seq(Node) /\ DOMAIN Nothing = {} /\ Len(Nothing) = 0
  BY DEF Nothing
<1> QED BY <1>1 DEF Expression

(* What is known of the statements of a script.                            *)
LEMMA StatementParts ==
  ASSUME NEW p \in Scripts
  PROVE  /\ p \in Seq(Statement) /\ Len(p) \in Nat /\ DOMAIN p = 1..Len(p)
         /\ \A i \in DOMAIN p :
              /\ p[i] \in Statement /\ p[i].target \in Name
              /\ p[i].kind \in {"local", "assign"} /\ p[i].compound \in BOOLEAN
              /\ Expression(p[i].value) /\ Expression(ValueExpr(p[i]))
              /\ ValueExpr(p[i]) # Nothing => ValueExpr(p[i]) = p[i].value
              /\ p[i].kind = "local" => Canonical(p[i].target) = NoSymbol
              /\ Canonical(p[i].target) \in Channel \cup {NoSymbol}
<1>1. p \in Seq(Statement) /\ Len(p) \in Nat /\ DOMAIN p = 1..Len(p)
  BY ScriptsAssumption, LenProperties
<1>2. ASSUME NEW i \in DOMAIN p
      PROVE  /\ p[i] \in Statement /\ p[i].target \in Name
             /\ p[i].kind \in {"local", "assign"} /\ p[i].compound \in BOOLEAN
             /\ Expression(p[i].value) /\ Expression(ValueExpr(p[i]))
             /\ ValueExpr(p[i]) # Nothing => ValueExpr(p[i]) = p[i].value
             /\ p[i].kind = "local" => Canonical(p[i].target) = NoSymbol
             /\ Canonical(p[i].target) \in Channel \cup {NoSymbol}
  <2>1. p[i] \in Statement
    BY <1>1
  <2>2. p[i].target \in Name /\ p[i].kind \in {"local", "assign"} /\ p[i].compound \in BOOLEAN
    BY <2>1 DEF Statement
  <2>3. Expression(p[i].value) /\ (p[i].kind = "local" => Canonical(p[i].target) = NoSymbol)
    BY ScriptsAssumption
  <2>4. Canonical(p[i].target) \in Channel \cup {NoSymbol}
    BY <2>2, NamesAssumption DEF Canonical
  <2>5. ValueExpr(p[i]) = Nothing \/ ValueExpr(p[i]) = p[i].value
    BY DEF ValueExpr
  <2> QED BY <2>1, <2>2, <2>3, <2>4, <2>5, NothingIs
<1> QED BY <1>1, <1>2

(* An expression with nodes has a last one.                                *)
LEMMA Whole ==
  ASSUME NEW e, Expression(e), e # Nothing
  PROVE  Len(e) \in DOMAIN e
<1>1. e \in Seq(Node) /\ Len(e) \in Nat /\ DOMAIN e = 1..Len(e)
  BY Parts DEF Expression
<1>2. Len(e) # 0
  BY <1>1, EmptySeq DEF Nothing
<1> QED BY <1>1, <1>2

LEMMA StatementTaintSane ==
  ASSUME NEW p \in Scripts, NEW i \in DOMAIN p, NEW ctx, NEW known, TypedWalk(ctx, known)
  PROVE  StatementTaint(p[i], ctx, known) \in SaneTaint
<1>1. PICK e : e = ValueExpr(p[i])
  OBVIOUS
<1>2. Expression(e)
  BY <1>1, StatementParts
<1>3. e # Nothing => ExprTaint(e, ctx, known) \in SaneTaint
  BY <1>2, Whole, TaintsFacts DEF ExprTaint
<1> QED BY <1>1, <1>3, ConstantTaints DEF StatementTaint

(* The type invariant: the walk is at a statement of the script or past    *)
(* its end, every taint in the environment and in the summary is sane, and *)
(* nothing is seeded or reported before the solver has answered.           *)
Write(p) == [at : DOMAIN p, channel : Channel, taint : SaneTaint]

TypeInv ==
  /\ script \in Scripts
  /\ phase \in {"summarise", "report", "run", "done"}
  /\ pc \in 1..Len(script) + 1
  /\ DOMAIN env \subseteq Name /\ \A n \in DOMAIN env : env[n] \in SaneTaint
  /\ writes \in Seq(Write(script))
  /\ seeded \in Answer
  /\ phase = "summarise" => seeded = Unsolved /\ reports = {}

(* A walk with such an environment reads sane taints only.                 *)
LEMMA WalkTyped ==
  ASSUME NEW channels \in Answer, NEW known, \A n \in DOMAIN known : known[n] \in SaneTaint,
         NEW p
  PROVE  TypedWalk(Context(p, channels), known)
BY DEF TypedWalk, Context

LEMMA TypeInit == Init => TypeInv
<1> SUFFICES ASSUME Init PROVE TypeInv
  OBVIOUS
<1>1. script \in Scripts /\ Len(script) \in Nat
  BY StatementParts DEF Init
<1>2. Unsolved \in Answer
  BY DEF Unsolved, Answer
<1>3. <<>> \in Seq(Write(script))
  OBVIOUS
<1>4. DOMAIN env = {}
  BY DEF Init, NoNames
<1> QED BY <1>1, <1>2, <1>3, <1>4 DEF Init, TypeInv

LEMMA TypeStep == TypeInv /\ [Next]_vars => TypeInv'
<1> SUFFICES ASSUME TypeInv, [Next]_vars PROVE TypeInv'
  OBVIOUS
<1>0. script \in Scripts /\ Len(script) \in Nat /\ DOMAIN script = 1..Len(script) /\ pc \in Nat
  BY StatementParts DEF TypeInv
<1>1. CASE Walk
  <2>1. PICK s : s = script[pc]
    OBVIOUS
  <2>2. PICK t : t = StatementTaint(s, Context(script, seeded), env)
    OBVIOUS
  <2>3. pc \in DOMAIN script /\ script' = script /\ phase' = phase /\ pc' = pc + 1 /\ seeded' = seeded
    BY <1>0, <1>1 DEF Walk, TypeInv
  <2>4. t \in SaneTaint
    BY <1>0, <2>1, <2>2, <2>3, WalkTyped, StatementTaintSane DEF TypeInv
  <2>5. env' = With(env, s.target, t) /\ s.target \in Name
    BY <1>0, <1>1, <2>1, <2>2, <2>3, StatementParts DEF Walk
  <2>6. DOMAIN env' \subseteq Name /\ \A n \in DOMAIN env' : env'[n] \in SaneTaint
    <3>1. /\ DOMAIN env' = DOMAIN env \cup {s.target} /\ env'[s.target] = t
          /\ \A n \in DOMAIN env' : n # s.target => n \in DOMAIN env /\ env'[n] = env[n]
      BY <2>5 DEF With
    <3> QED BY <2>4, <2>5, <3>1 DEF TypeInv
  <2>7. writes' \in Seq(Write(script))
    <3>1. writes' = writes \/ writes' = Summarised(s, t)
      BY <1>1, <2>1, <2>2 DEF Walk
    <3>2. CASE Canonical(s.target) \in Channel
      <4>1. [at |-> pc, channel |-> Canonical(s.target), taint |-> t] \in Write(script)
        BY <2>3, <2>4, <3>2 DEF Write
      <4>2. PICK w : w = [at |-> pc, channel |-> Canonical(s.target), taint |-> t]
        OBVIOUS
      <4>3. Summarised(s, t) \in {writes, Append(writes, w)}
        BY <4>2 DEF Summarised
      <4>4. writes \in Seq(Write(script)) /\ w \in Write(script)
        BY <4>1, <4>2 DEF TypeInv
      <4>5. Append(writes, w) \in Seq(Write(script))
        BY <4>4, AppendProperties
      <4> QED BY <3>1, <4>3, <4>4, <4>5
    <3>3. CASE Canonical(s.target) = NoSymbol
      BY <3>1, <3>3 DEF Summarised, TypeInv
    <3> QED BY <1>0, <2>1, <2>3, <3>2, <3>3, StatementParts
  <2>8. phase' = "summarise" => reports' = {}
    BY <1>1, <2>3 DEF Walk, TypeInv
  <2>9. pc' \in 1..Len(script) + 1
    BY <1>0, <2>3
  <2> QED BY <2>3, <2>6, <2>7, <2>8, <2>9 DEF TypeInv
<1>2. CASE Solve
  <2>1. seeded' \in Answer
    BY <1>2 DEF Solve, Answers, Answer
  <2>2. DOMAIN env' = {}
    BY <1>2 DEF Solve, NoNames
  <2>3. script' = script /\ phase' = "report" /\ pc' = 1 /\ writes' = writes
    BY <1>2 DEF Solve
  <2> QED BY <1>0, <2>1, <2>2, <2>3 DEF TypeInv
<1>3. CASE StartTick
  BY <1>0, <1>3 DEF StartTick, TypeInv
<1>4. CASE Execute
  BY <1>0, <1>4 DEF Execute, TypeInv
<1>5. CASE SkipArm
  BY <1>0, <1>5 DEF SkipArm, TypeInv
<1>6. CASE EndTick
  BY <1>0, <1>6 DEF EndTick, TypeInv
<1>7. CASE UNCHANGED vars
  BY <1>7 DEF vars, TypeInv
<1> QED BY <1>1, <1>2, <1>3, <1>4, <1>5, <1>6, <1>7 DEF Next, Done

(* The variables keep their types; above all the sanitised taints of the   *)
(* environment and of the write summary carry no taint and no edge.        *)
THEOREM TypeCorrect == Spec => []TypeInv
BY TypeInit, TypeStep, PTL DEF Spec
-----------------------------------------------------------------------------
(* A script without a source that reads nothing tainted; then no name of   *)
(* the reporting walk becomes invalid.                                     *)
Quiet ==
  \A i \in DOMAIN script : /\ ~HasSource(script[i])
                           /\ \A c \in ReadBy(script[i]) : seeded[c] = "clean"

QuietInv ==
  phase # "summarise" /\ Quiet =>
    /\ reports = {}
    /\ phase = "report" => \A n \in DOMAIN env : ~env[n].invalid

LEMMA QuietSources == Quiet => Context(script, seeded).sources = {}
BY DEF Quiet, HasSource, Context, Sources

LEMMA QuietStatement ==
  ASSUME TypeInv, Quiet, NEW i \in DOMAIN script, \A n \in DOMAIN env : ~env[n].invalid
  PROVE  ~StatementTaint(script[i], Context(script, seeded), env).invalid
<1>1. PICK e : e = ValueExpr(script[i])
  OBVIOUS
<1>2. PICK ctx : ctx = Context(script, seeded)
  OBVIOUS
<1>3. Expression(e) /\ (e # Nothing => e = script[i].value) /\ TypedWalk(ctx, env)
  BY <1>1, <1>2, StatementParts, WalkTyped DEF TypeInv
<1>4. "source" \notin script[i].anns
  BY DEF Quiet, HasSource
<1>5. CASE e # Nothing
  <2>1. ASSUME NEW k \in DOMAIN e PROVE QuietNode(e[k], ctx)
    <3>1. e[k] \in ToSet(script[i].value)
      BY <1>3, <1>5 DEF ToSet
    <3>2. e[k].op \notin {"divide", "domain", "infinity", "NAN"}
      BY <3>1 DEF Quiet, HasSource
    <3>3. e[k].op \in {"read", "user"} /\ Resolves[e[k].name] # NoSymbol =>
            Resolves[e[k].name] \in ReadBy(script[i])
      BY <3>1 DEF ReadBy
    <3>4. ctx.channels = seeded
      BY <1>2 DEF Context
    <3> QED BY <3>2, <3>3, <3>4 DEF Quiet, QuietNode
  <2>2. ctx.sources = {}
    BY <1>2, QuietSources
  <2>3. \A k \in DOMAIN e : ~TaintsOf(e, ctx, env)[k].invalid
    BY <1>3, <2>1, <2>2, QuietTaint
  <2>4. ~ExprTaint(e, ctx, env).invalid
    BY <1>3, <1>5, <2>3, Whole DEF ExprTaint
  <2> QED BY <1>1, <1>2, <1>4, <2>4, ConstantTaints DEF StatementTaint
<1>6. CASE e = Nothing
  BY <1>1, <1>4, <1>6, ConstantTaints DEF StatementTaint
<1> QED BY <1>5, <1>6

LEMMA QuietStep == TypeInv /\ QuietInv /\ [Next]_vars => QuietInv'
<1> SUFFICES ASSUME TypeInv, QuietInv, [Next]_vars, (phase # "summarise")', Quiet'
             PROVE  /\ reports' = {}
                    /\ phase' = "report" => \A n \in DOMAIN env' : ~env'[n].invalid
  BY DEF QuietInv
<1>1. CASE Walk
  <2>1. PICK t : t = StatementTaint(script[pc], Context(script, seeded), env)
    OBVIOUS
  <2>2. /\ phase = "report" /\ Quiet /\ pc \in DOMAIN script
    <3>1. pc \in DOMAIN script
      BY <1>1, StatementParts DEF Walk, TypeInv
    <3>2. phase' = phase /\ script' = script /\ seeded' = seeded
      BY <1>1 DEF Walk
    <3> QED BY <1>1, <3>1, <3>2 DEF Walk, Quiet
  <2>3. reports = {} /\ \A n \in DOMAIN env : ~env[n].invalid
    BY <2>2 DEF QuietInv
  <2>4. ~t.invalid
    BY <2>1, <2>2, <2>3, QuietStatement
  <2>5. /\ env' = With(env, script[pc].target, t)
        /\ reports' = reports \cup Diagnostics(script[pc], pc, t)
    BY <1>1, <2>1, <2>2 DEF Walk
  <2>6. Diagnostics(script[pc], pc, t) = {}
    BY <2>4 DEF Diagnostics
  <2>7. \A n \in DOMAIN env' : ~env'[n].invalid
    <3>1. /\ env'[script[pc].target] = t
          /\ \A n \in DOMAIN env' : n # script[pc].target => n \in DOMAIN env /\ env'[n] = env[n]
      BY <2>5 DEF With
    <3> QED BY <2>3, <2>4, <3>1
  <2> QED BY <2>3, <2>5, <2>6, <2>7
<1>2. CASE Solve
  <2>1. DOMAIN env' = {} /\ reports' = {}
    BY <1>2 DEF Solve, TypeInv, NoNames
  <2> QED BY <2>1
<1>3. CASE StartTick
  BY <1>3 DEF StartTick, QuietInv, Quiet
<1>4. CASE Execute
  BY <1>4 DEF Execute, QuietInv, Quiet
<1>5. CASE SkipArm
  BY <1>5 DEF SkipArm, QuietInv, Quiet
<1>6. CASE EndTick
  BY <1>6 DEF EndTick, QuietInv, Quiet
<1>7. CASE UNCHANGED vars
  BY <1>7 DEF vars, QuietInv, Quiet
<1> QED BY <1>1, <1>2, <1>3, <1>4, <1>5, <1>6, <1>7 DEF Next, Done

(* The walk never reports on a script that has no source of its own and    *)
(* reads nothing the solver has tainted, whatever the script.              *)
THEOREM QuietWalk == Spec => []NoNoise
<1>1. Init => QuietInv
  BY DEF Init, QuietInv
<1>2. TypeInv /\ QuietInv => NoNoise
  BY DEF TypeInv, QuietInv, Quiet, NoNoise
<1> QED BY <1>1, <1>2, QuietStep, TypeInit, TypeStep, PTL DEF Spec
-----------------------------------------------------------------------------
(* An environment, whichever names it knows.                               *)
Envs == UNION {[D -> SaneTaint] : D \in SUBSET Name}

LEMMA EnvsFacts ==
  ASSUME NEW f
  PROVE  f \in Envs <=> /\ f = [n \in DOMAIN f |-> f[n]] /\ DOMAIN f \subseteq Name
                        /\ \A n \in DOMAIN f : f[n] \in SaneTaint
BY DEF Envs

LEMMA NoNamesTyped == NoNames \in Envs /\ DOMAIN NoNames = {}
BY EnvsFacts DEF NoNames

LEMMA EnvStepTyped ==
  ASSUME NEW p \in Scripts, NEW a \in Answer, NEW g, NEW k \in 1..Len(p) + 1,
         \A j \in 1..k - 1 : g[j] \in Envs
  PROVE  EnvStep(p, a, g, k) \in Envs
<1>1. CASE k = 1
  BY <1>1, NoNamesTyped DEF EnvStep
<1>2. CASE k # 1
  <2>1. PICK j : j = k - 1
    OBVIOUS
  <2>2. j \in DOMAIN p /\ j \in 1..k - 1
    BY <1>2, <2>1, StatementParts
  <2>3. PICK f : f = g[j]
    OBVIOUS
  <2>4. f \in Envs
    BY <2>2, <2>3
  <2>5. PICK t : t = StatementTaint(p[j], Context(p, a), f)
    OBVIOUS
  <2>6. t \in SaneTaint
    BY <2>2, <2>4, <2>5, EnvsFacts, WalkTyped, StatementTaintSane
  <2>7. EnvStep(p, a, g, k) = With(f, p[j].target, t)
    BY <1>2, <2>1, <2>3, <2>5 DEF EnvStep
  <2>8. p[j].target \in Name
    BY <2>2, StatementParts
  <2>9. With(f, p[j].target, t) \in Envs
    <3>1. PICK h : h = With(f, p[j].target, t)
      OBVIOUS
    <3>2. /\ h = [n \in DOMAIN h |-> h[n]] /\ DOMAIN h = DOMAIN f \cup {p[j].target}
          /\ \A n \in DOMAIN h : IF n = p[j].target THEN h[n] = t
                                 ELSE n \in DOMAIN f /\ h[n] = f[n]
      BY <3>1 DEF With
    <3>3. DOMAIN f \subseteq Name /\ \A n \in DOMAIN f : f[n] \in SaneTaint
      BY <2>4, EnvsFacts
    <3>4. DOMAIN h \subseteq Name /\ \A n \in DOMAIN h : h[n] \in SaneTaint
      BY <2>6, <2>8, <3>2, <3>3
    <3> QED BY <3>1, <3>2, <3>4, EnvsFacts
  <2> QED BY <2>7, <2>9
<1> QED BY <1>1, <1>2

(* The environments of a walk solve their equations.                       *)
EnvsAre(p, a, g) == g = [k \in 1..Len(p) + 1 |-> EnvStep(p, a, g, k)]

LEMMA EnvsExist ==
  ASSUME NEW p \in Scripts, NEW a \in Answer
  PROVE  \E g : EnvsAre(p, a, g)
<1>1. PICK n \in Nat : n = Len(p) + 1
  BY StatementParts
<1> DEFINE S == Envs
           F == [k \in 1..n |-> [g \in [1..n -> S] |-> EnvStep(p, a, g, k)]]
<1>2. S # {}
  BY NoNamesTyped
<1>3. ASSUME NEW k \in 1..n, NEW g \in [1..n -> S] PROVE EnvStep(p, a, g, k) \in S
  <2>1. \A j \in 1..k - 1 : j \in 1..n
    OBVIOUS
  <2>2. \A j \in 1..k - 1 : g[j] \in S
    BY <2>1
  <2> QED BY <1>1, <2>2, EnvStepTyped
<1>4. F \in [1..n -> [[1..n -> S] -> S]]
  <2> HIDE DEF S
  <2> QED BY <1>3
<1>5. ASSUME NEW k \in 1..n, NEW g \in [1..n -> S], NEW h \in [1..n -> S],
             \A j \in 1..k - 1 : g[j] = h[j]
      PROVE  F[k][g] = F[k][h]
  <2>1. EnvStep(p, a, g, k) = EnvStep(p, a, h, k)
    BY <1>5 DEF EnvStep
  <2> HIDE DEF S
  <2> QED BY <2>1
<1>6. Recursive(n, S, F)
  <2> HIDE DEF S, F
  <2> QED BY <1>4, <1>5 DEF Recursive
<1>7. PICK g \in [1..n -> S] : Solves(n, F, g)
  <2> HIDE DEF S, F
  <2> QED BY <1>2, <1>6, Solved
<1>8. \A k \in 1..n : g[k] = EnvStep(p, a, g, k)
  <2> HIDE DEF S
  <2> QED BY <1>7 DEF Solves
<1>9. g = [k \in 1..n |-> EnvStep(p, a, g, k)]
  BY <1>8
<1> QED BY <1>1, <1>9 DEF EnvsAre

LEMMA EnvFacts ==
  ASSUME NEW p \in Scripts, NEW a \in Answer
  PROVE  /\ EnvAt(p, a)[1] = NoNames
         /\ \A k \in DOMAIN p :
              EnvAt(p, a)[k + 1] = With(EnvAt(p, a)[k], p[k].target, TaintIn(p, a, k))
         /\ \A k \in 1..Len(p) + 1 : EnvAt(p, a)[k] \in Envs
<1>1. EnvsAre(p, a, EnvAt(p, a))
  <2>1. EnvAt(p, a) = CHOOSE g : EnvsAre(p, a, g)
    BY DEF EnvAt, EnvsAre
  <2> QED BY <2>1, EnvsExist
<1>2. PICK g : g = EnvAt(p, a) /\ \A k \in 1..Len(p) + 1 : g[k] = EnvStep(p, a, g, k)
  BY <1>1 DEF EnvsAre
<1>3. PICK n \in Nat : n = Len(p) + 1 /\ Len(p) \in Nat /\ DOMAIN p = 1..Len(p)
  BY StatementParts
<1> DEFINE P == {k \in 1..n : g[k] \in Envs}
<1>4. ASSUME NEW k \in 1..n, \A j \in 1..k - 1 : j \in P PROVE k \in P
  <2>1. \A j \in 1..k - 1 : g[j] \in Envs
    BY <1>4
  <2>2. k \in 1..Len(p) + 1 /\ g[k] = EnvStep(p, a, g, k)
    BY <1>2, <1>3
  <2> QED BY <2>1, <2>2, EnvStepTyped
<1>5. 1..n \subseteq P
  <2> HIDE DEF P
  <2> QED BY <1>4, Upward
<1>6. g[1] = NoNames
  BY <1>2, <1>3 DEF EnvStep
<1>7. ASSUME NEW k \in DOMAIN p
      PROVE  g[k + 1] = With(g[k], p[k].target, StatementTaint(p[k], Context(p, a), g[k]))
  <2>1. PICK m \in 1..n : m = k + 1
    BY <1>3
  <2>2. g[m] = EnvStep(p, a, g, m) /\ m # 1 /\ m - 1 = k
    BY <1>2, <1>3, <2>1
  <2> QED BY <2>1, <2>2 DEF EnvStep
<1> QED BY <1>2, <1>3, <1>5, <1>6, <1>7 DEF TaintIn

LEMMA TaintInSane ==
  ASSUME NEW p \in Scripts, NEW a \in Answer, NEW k \in DOMAIN p
  PROVE  TaintIn(p, a, k) \in SaneTaint
<1>1. k \in 1..Len(p) + 1
  BY StatementParts
<1>2. PICK f \in Envs : f = EnvAt(p, a)[k]
  BY <1>1, EnvFacts
<1>3. TypedWalk(Context(p, a), f)
  BY EnvsFacts, WalkTyped
<1> QED BY <1>2, <1>3, StatementTaintSane DEF TaintIn
-----------------------------------------------------------------------------
(* What the solver makes of a taint of the first walk.                     *)
Fed(t, answer) ==
  t.invalid \/ \E c \in DOMAIN t.deps : answer[c] # "clean"
FedLatched(t, answer) ==
  t.latched \/ \E c \in DOMAIN t.deps :
                 answer[c] = "latched" \/ (answer[c] = "tainted" /\ t.deps[c])

(* A taint of the first walk and one of the second mean the same.          *)
Agrees(t, u, answer) ==
  /\ t \in SaneTaint /\ u \in SaneTaint
  /\ u.invalid <=> Fed(t, answer)
  /\ u.latched <=> FedLatched(t, answer)

(* Agreement of taints is kept by everything expressions are made of.      *)
LEMMA AgreesConstants ==
  ASSUME NEW a
  PROVE  /\ Agrees(FiniteTaint, FiniteTaint, a) /\ Agrees(Source, Source, a)
         /\ Agrees(Cleared, Cleared, a)
BY ConstantTaints DEF Agrees, Fed, FedLatched

LEMMA AgreesJoinAll ==
  ASSUME NEW a, NEW ts, NEW us, DOMAIN us = DOMAIN ts,
         \A i \in DOMAIN ts : Agrees(ts[i], us[i], a)
  PROVE  Agrees(JoinAll(ts), JoinAll(us), a)
<1>1. JoinAll(ts) \in SaneTaint /\ JoinAll(us) \in SaneTaint
  BY JoinAllSane DEF Agrees
<1>2. PICK t : t = JoinAll(ts)
  OBVIOUS
<1>3. PICK u : u = JoinAll(us)
  OBVIOUS
<1>4. /\ u.invalid <=> \E i \in DOMAIN ts : us[i].invalid
      /\ u.latched <=> \E i \in DOMAIN ts : us[i].latched
      /\ t.invalid <=> \E i \in DOMAIN ts : ts[i].invalid
      /\ t.latched <=> \E i \in DOMAIN ts : ts[i].latched
      /\ DOMAIN t.deps = UNION {DOMAIN ts[i].deps : i \in DOMAIN ts}
      /\ \A c \in DOMAIN t.deps :
           t.deps[c] <=> \E i \in DOMAIN ts : c \in DOMAIN ts[i].deps /\ ts[i].deps[c]
  BY <1>2, <1>3, JoinAllFacts
<1>5. \A c : c \in DOMAIN t.deps <=> \E i \in DOMAIN ts : c \in DOMAIN ts[i].deps
  BY <1>4
<1>6. u.invalid <=> Fed(t, a)
  <2>1. \A i \in DOMAIN ts : us[i].invalid <=> Fed(ts[i], a)
    BY DEF Agrees
  <2>2. Fed(t, a) <=> \E i \in DOMAIN ts : Fed(ts[i], a)
    BY <1>4, <1>5 DEF Fed
  <2> QED BY <1>4, <2>1, <2>2
<1>7. u.latched <=> FedLatched(t, a)
  <2>1. \A i \in DOMAIN ts : us[i].latched <=> FedLatched(ts[i], a)
    BY DEF Agrees
  <2>2. FedLatched(t, a) <=> \E i \in DOMAIN ts : FedLatched(ts[i], a)
    BY <1>4, <1>5 DEF FedLatched
  <2> QED BY <1>4, <2>1, <2>2
<1> QED BY <1>1, <1>2, <1>3, <1>6, <1>7 DEF Agrees

LEMMA AgreesJoin ==
  ASSUME NEW a, NEW s, NEW t, NEW v, NEW w, Agrees(s, v, a), Agrees(t, w, a)
  PROVE  Agrees(Join(s, t), Join(v, w), a)
<1>1. PICK ts : ts = <<s, t>>
  OBVIOUS
<1>2. PICK us : us = <<v, w>>
  OBVIOUS
<1>3. /\ DOMAIN ts = {1, 2} /\ DOMAIN us = {1, 2}
      /\ ts[1] = s /\ ts[2] = t /\ us[1] = v /\ us[2] = w
  BY <1>1, <1>2
<1>4. \A i \in DOMAIN ts : Agrees(ts[i], us[i], a)
  BY <1>3
<1> QED BY <1>1, <1>2, <1>3, <1>4, AgreesJoinAll DEF Join

LEMMA AgreesLatch ==
  ASSUME NEW a \in Answer, NEW t, NEW u, Agrees(t, u, a)
  PROVE  Agrees(Latch(t), Latch(u), a)
<1>1. /\ t \in SaneTaint /\ u \in SaneTaint /\ (u.invalid <=> Fed(t, a))
  BY DEF Agrees
<1>2. PICK v : v = Latch(t)
  OBVIOUS
<1>3. /\ v \in SaneTaint /\ v.invalid = t.invalid /\ v.latched = t.invalid
      /\ DOMAIN v.deps = DOMAIN t.deps /\ \A c \in DOMAIN v.deps : v.deps[c]
  BY <1>1, <1>2, LatchFacts
<1>4. PICK w : w = Latch(u)
  OBVIOUS
<1>5. w \in SaneTaint /\ w.invalid = u.invalid /\ w.latched = u.invalid
  BY <1>1, <1>4, LatchFacts
<1>6. \A c \in DOMAIN t.deps : a[c] \in {"clean", "tainted", "latched"}
  BY <1>1, SaneParts DEF Answer
<1>7. Fed(v, a) <=> Fed(t, a)
  BY <1>3 DEF Fed
<1>8. FedLatched(v, a) <=> Fed(t, a)
  BY <1>3, <1>6 DEF Fed, FedLatched
<1> QED BY <1>1, <1>2, <1>3, <1>4, <1>5, <1>7, <1>8 DEF Agrees

(* An edge may be inserted where no latched one is overwritten.            *)
LEMMA AgreesEdge ==
  ASSUME NEW a \in Answer, NEW t, NEW u, NEW c \in Channel,
         t \in SaneTaint, u \in SaneTaint, ~t.sanitised, ~u.sanitised,
         c \in DOMAIN t.deps => ~t.deps[c],
         u.invalid <=> Fed(t, a) \/ a[c] # "clean",
         u.latched <=> FedLatched(t, a) \/ a[c] = "latched"
  PROVE  Agrees(WithEdge(t, c), WithEdge(u, c), a)
<1>1. PICK v : v = WithEdge(t, c)
  OBVIOUS
<1>2. PICK w : w = WithEdge(u, c)
  OBVIOUS
<1>3. /\ v \in SaneTaint /\ v.invalid = t.invalid /\ v.latched = t.latched
      /\ DOMAIN v.deps = DOMAIN t.deps \cup {c} /\ ~v.deps[c]
      /\ \A d \in DOMAIN t.deps : d # c => v.deps[d] = t.deps[d]
  BY <1>1, EdgeFacts
<1>4. w \in SaneTaint /\ w.invalid = u.invalid /\ w.latched = u.latched
  BY <1>2, EdgeFacts
<1>5. Fed(v, a) <=> Fed(t, a) \/ a[c] # "clean"
  BY <1>3 DEF Fed
<1>6. FedLatched(v, a) <=> FedLatched(t, a) \/ a[c] = "latched"
  BY <1>3 DEF FedLatched
<1> QED BY <1>1, <1>2, <1>3, <1>4, <1>5, <1>6 DEF Agrees

(* Reading a channel: nothing in the first walk, the answer in the second. *)
LEMMA AgreesRead ==
  ASSUME NEW a \in Answer, NEW c \in Channel, NEW x1, NEW x2,
         x1.channels = Unsolved, x2.channels = a
  PROVE  /\ ReadTaint(x1, c) \in SaneTaint /\ ~ReadTaint(x1, c).sanitised
         /\ ~Fed(ReadTaint(x1, c), a) /\ ~FedLatched(ReadTaint(x1, c), a)
         /\ ReadTaint(x2, c) \in SaneTaint /\ ~ReadTaint(x2, c).sanitised
         /\ ReadTaint(x2, c).invalid <=> a[c] # "clean"
         /\ ReadTaint(x2, c).latched <=> a[c] = "latched"
         /\ DOMAIN ReadTaint(x1, c).deps = {}
<1>1. Unsolved \in Answer /\ Unsolved[c] = "clean"
  BY DEF Unsolved, Answer
<1>2. PICK t : t = ReadTaint(x1, c)
  OBVIOUS
<1>3. t \in SaneTaint /\ ~t.sanitised /\ DOMAIN t.deps = {} /\ ~t.invalid /\ ~t.latched
  BY <1>1, <1>2, ReadTaintFacts
<1>4. ~Fed(t, a) /\ ~FedLatched(t, a)
  BY <1>3 DEF Fed, FedLatched
<1> QED BY <1>2, <1>3, <1>4, ReadTaintFacts

LEMMA AgreesName ==
  ASSUME NEW a \in Answer, NEW x1, NEW x2, NEW known1, NEW known2, NEW n \in Name,
         x1.channels = Unsolved, x2.channels = a, x1.sources = x2.sources,
         DOMAIN known1 = DOMAIN known2,
         \A m \in DOMAIN known1 : Agrees(known1[m], known2[m], a)
  PROVE  Agrees(NameTaint(x1, known1, n), NameTaint(x2, known2, n), a)
<1>1. CASE n \in x1.sources
  BY <1>1, AgreesConstants DEF NameTaint
<1>2. CASE n \in DOMAIN known1 \ x1.sources
  BY <1>2 DEF NameTaint
<1>3. CASE n \notin DOMAIN known1 \cup x1.sources /\ Resolves[n] = NoSymbol
  BY <1>3, AgreesConstants DEF NameTaint
<1>4. CASE n \notin DOMAIN known1 \cup x1.sources /\ Resolves[n] # NoSymbol
  <2>1. PICK c \in Channel : c = Resolves[n]
    BY <1>4, NamesAssumption
  <2>2. /\ NameTaint(x1, known1, n) = WithEdge(ReadTaint(x1, c), c)
        /\ NameTaint(x2, known2, n) = WithEdge(ReadTaint(x2, c), c)
    BY <1>4, <2>1 DEF NameTaint
  <2> QED BY <2>2, AgreesRead, AgreesEdge
<1> QED BY <1>1, <1>2, <1>3, <1>4

LEMMA AgreesTaints ==
  ASSUME NEW e, Expression(e), NEW a \in Answer, NEW x1, NEW x2, NEW known1, NEW known2,
         x1.channels = Unsolved, x2.channels = a, x1.sources = x2.sources,
         TypedWalk(x1, known1), TypedWalk(x2, known2), DOMAIN known1 = DOMAIN known2,
         \A m \in DOMAIN known1 : Agrees(known1[m], known2[m], a),
         Kept(e, TaintsOf(e, x1, known1))
  PROVE  \A i \in DOMAIN e : Agrees(TaintsOf(e, x1, known1)[i], TaintsOf(e, x2, known2)[i], a)
<1>1. PICK g : g = TaintsOf(e, x1, known1)
  OBVIOUS
<1>2. PICK h : h = TaintsOf(e, x2, known2)
  OBVIOUS
<1>3. \A i \in DOMAIN e : /\ g[i] = TaintAt(e, x1, known1, g, i) /\ g[i] \in SaneTaint
                          /\ h[i] = TaintAt(e, x2, known2, h, i) /\ h[i] \in SaneTaint
  BY <1>1, <1>2, TaintsFacts
<1>4. PICK n \in Nat : n = Len(e) /\ DOMAIN e = 1..n
  BY Parts
<1> DEFINE P == {i \in 1..n : Agrees(g[i], h[i], a)}
<1>5. ASSUME NEW i \in 1..n, \A j \in 1..i - 1 : j \in P PROVE i \in P
  <2>1. i \in DOMAIN e /\ e[i].op \in Op /\ e[i].name \in Name
    BY <1>4, Parts
  <2>2. PICK ts : ts = Args(e, g, i)
    OBVIOUS
  <2>3. PICK us : us = Args(e, h, i)
    OBVIOUS
  <2>4. \A j \in 1..i - 1 : Agrees(g[j], h[j], a)
    BY <1>5
  <2>5. DOMAIN us = DOMAIN ts /\ \A k \in DOMAIN ts : Agrees(ts[k], us[k], a)
    BY <2>1, <2>2, <2>3, <2>4, ArgFacts
  <2>6. Agrees(JoinAll(ts), JoinAll(us), a)
    BY <2>5, AgreesJoinAll
  <2>7. PICK t : t = TaintAt(e, x1, known1, g, i)
    OBVIOUS
  <2>8. PICK u : u = TaintAt(e, x2, known2, h, i)
    OBVIOUS
  <2>9. g[i] = t /\ h[i] = u
    BY <1>3, <2>1, <2>7, <2>8
  <2> SUFFICES Agrees(t, u, a)
    BY <2>9
  <2>10. CASE e[i].op \in {"literal", "compare"}
    BY <2>7, <2>8, <2>10, TaintCases, AgreesConstants
  <2>11. CASE e[i].op = "read"
    BY <2>1, <2>7, <2>8, <2>11, TaintCases, AgreesName
  <2>12. CASE e[i].op \in {"paren", "not", "minus"}
    BY <2>1, <2>2, <2>3, <2>5, <2>7, <2>8, <2>12, TaintCases, ArgFacts
  <2>13. CASE e[i].op \in {"arith", "clamp", "IsNAN"}
    BY <2>2, <2>3, <2>6, <2>7, <2>8, <2>13, TaintCases
  <2>14. CASE e[i].op \in {"divide", "domain"}
    <3>1. PICK v : v = JoinAll(ts)
      OBVIOUS
    <3>2. PICK w : w = JoinAll(us)
      OBVIOUS
    <3>3. t = [v EXCEPT !.invalid = TRUE] /\ u = [w EXCEPT !.invalid = TRUE]
      BY <2>2, <2>3, <2>7, <2>8, <2>14, <3>1, <3>2, TaintCases
    <3>4. v \in Taint /\ w \in Taint /\ (w.latched <=> FedLatched(v, a))
      BY <2>6, <3>1, <3>2, SaneParts DEF Agrees
    <3>5. /\ t.invalid = TRUE /\ t.latched = v.latched /\ t.deps = v.deps
          /\ u.invalid = TRUE /\ u.latched = w.latched
      BY <3>3, <3>4 DEF Taint
    <3>6. t \in SaneTaint /\ u \in SaneTaint
      BY <1>3, <2>1, <2>9
    <3> QED BY <3>4, <3>5, <3>6 DEF Agrees, Fed, FedLatched
  <2>15. CASE e[i].op = "ternary" /\ Guard(e, i).found
    <3>1. t = GuardedTaint(e, g, i) /\ u = GuardedTaint(e, h, i)
      BY <2>7, <2>8, <2>15, TaintCases
    <3>2. /\ Agrees(g[NanBranch(e, i)], h[NanBranch(e, i)], a)
          /\ Agrees(g[OkBranch(e, i)], h[OkBranch(e, i)], a)
      BY <2>1, <2>4, <2>15, TernaryParts
    <3> QED BY <3>1, <3>2, AgreesJoin, AgreesConstants DEF GuardedTaint
  <2>16. CASE e[i].op = "ternary" /\ ~Guard(e, i).found
    <3>1. t = Join(ts[2], ts[3]) /\ u = Join(us[2], us[3])
      BY <2>2, <2>3, <2>7, <2>8, <2>16, TaintCases
    <3>2. 2 \in DOMAIN ts /\ 3 \in DOMAIN ts
      BY <2>1, <2>2, <2>16, ArgFacts
    <3> QED BY <2>5, <3>1, <3>2, AgreesJoin
  <2>17. CASE e[i].op \in {"infinity", "NAN"}
    BY <2>7, <2>8, <2>17, TaintCases, AgreesConstants
  <2>18. CASE e[i].op = "stateful"
    BY <2>2, <2>3, <2>6, <2>7, <2>8, <2>18, TaintCases, AgreesLatch
  <2>19. CASE e[i].op = "user"
    <3>1. PICK c \in Channel : c = Resolves[e[i].name]
      BY <2>1, <2>19, Parts
    <3>2. PICK v : v = Join(JoinAll(ts), ReadTaint(x1, c))
      OBVIOUS
    <3>3. PICK w : w = Join(JoinAll(us), ReadTaint(x2, c))
      OBVIOUS
    <3>4. t = WithEdge(v, c) /\ u = WithEdge(w, c)
      BY <2>2, <2>3, <2>7, <2>8, <2>19, <3>1, <3>2, <3>3, TaintCases
    <3>5. PICK r : r = ReadTaint(x1, c)
      OBVIOUS
    <3>6. PICK q : q = ReadTaint(x2, c)
      OBVIOUS
    <3>7. /\ r \in SaneTaint /\ ~r.invalid /\ ~r.latched /\ DOMAIN r.deps = {}
          /\ q \in SaneTaint /\ (q.invalid <=> a[c] # "clean") /\ (q.latched <=> a[c] = "latched")
      BY <3>5, <3>6, AgreesRead DEF Fed, FedLatched
    <3>8. PICK jt : jt = JoinAll(ts)
      OBVIOUS
    <3>9. PICK ju : ju = JoinAll(us)
      OBVIOUS
    <3>10. /\ jt \in SaneTaint /\ ju \in SaneTaint
           /\ (ju.invalid <=> Fed(jt, a)) /\ (ju.latched <=> FedLatched(jt, a))
      BY <2>6, <3>8, <3>9 DEF Agrees
    <3>11. /\ v \in SaneTaint /\ ~v.sanitised /\ v.invalid = jt.invalid /\ v.latched = jt.latched
           /\ DOMAIN v.deps = DOMAIN jt.deps
           /\ \A d \in DOMAIN v.deps : v.deps[d] <=> jt.deps[d]
      <4>1. v = Join(jt, r)
        BY <3>2, <3>5, <3>8
      <4>2. v \in SaneTaint /\ ~v.sanitised
        BY <3>7, <3>10, <4>1, JoinSane
      <4>3. v.invalid <=> jt.invalid \/ r.invalid
        BY <3>7, <3>10, <4>1, JoinFacts
      <4>4. v.latched <=> jt.latched \/ r.latched
        BY <3>7, <3>10, <4>1, JoinFacts
      <4>5. DOMAIN v.deps = DOMAIN jt.deps \cup DOMAIN r.deps
        BY <3>7, <3>10, <4>1, JoinFacts
      <4>6. \A d \in DOMAIN v.deps :
              v.deps[d] <=> \/ d \in DOMAIN jt.deps /\ jt.deps[d]
                            \/ d \in DOMAIN r.deps /\ r.deps[d]
        BY <3>7, <3>10, <4>1, JoinFacts
      <4>7. /\ jt.invalid \in BOOLEAN /\ jt.latched \in BOOLEAN
            /\ v.invalid \in BOOLEAN /\ v.latched \in BOOLEAN
        BY <3>10, <4>2, SaneParts
      <4>8. v.invalid = jt.invalid /\ v.latched = jt.latched
        BY <3>7, <4>3, <4>4, <4>7
      <4>9. DOMAIN v.deps = DOMAIN jt.deps /\ \A d \in DOMAIN v.deps : v.deps[d] <=> jt.deps[d]
        BY <3>7, <4>5, <4>6
      <4> QED BY <4>2, <4>8, <4>9
    <3>12. /\ w \in SaneTaint /\ ~w.sanitised
           /\ (w.invalid <=> ju.invalid \/ q.invalid) /\ (w.latched <=> ju.latched \/ q.latched)
      BY <3>3, <3>6, <3>7, <3>9, <3>10, JoinSane, JoinFacts
    <3>13. Fed(v, a) <=> Fed(jt, a)
      BY <3>11 DEF Fed
    <3>14. FedLatched(v, a) <=> FedLatched(jt, a)
      BY <3>11 DEF FedLatched
    <3>15. c \in DOMAIN v.deps => ~v.deps[c]
      <4>1. ASSUME c \in DOMAIN jt.deps PROVE ~jt.deps[c]
        <5>1. jt.deps[c] <=> \E k \in DOMAIN ts : c \in DOMAIN ts[k].deps /\ ts[k].deps[c]
          BY <3>8, <4>1, JoinAllFacts
        <5>2. \A k \in DOMAIN ts : c \in DOMAIN ts[k].deps => ~ts[k].deps[c]
          BY <1>1, <2>1, <2>2, <2>19, <3>1, ArgFacts DEF Kept
        <5> QED BY <5>1, <5>2
      <4> QED BY <3>11, <4>1
    <3> QED BY <3>4, <3>7, <3>10, <3>11, <3>12, <3>13, <3>14, <3>15, AgreesEdge
  <2> QED BY <2>1, <2>10, <2>11, <2>12, <2>13, <2>14, <2>15, <2>16, <2>17, <2>18, <2>19 DEF Op
<1>6. 1..n \subseteq P
  <2> HIDE DEF P
  <2> QED BY <1>5, Upward
<1> QED BY <1>1, <1>2, <1>4, <1>6
-----------------------------------------------------------------------------
(* Before statement k the environments of the two walks agree.             *)
EnvsAgree(p, a, k) ==
  /\ DOMAIN EnvAt(p, Unsolved)[k] = DOMAIN EnvAt(p, a)[k]
  /\ \A n \in DOMAIN EnvAt(p, a)[k] : Agrees(EnvAt(p, Unsolved)[k][n], EnvAt(p, a)[k][n], a)

(* The first walk is one with an answer that taints nothing.               *)
LEMMA UnsolvedIs == Unsolved \in Answer /\ \A c \in Channel : Unsolved[c] = "clean"
BY DEF Unsolved, Answer

LEMMA AgreesStatement ==
  ASSUME NEW p \in Scripts, KeepsLatches(p), NEW a \in Answer, NEW k \in DOMAIN p,
         EnvsAgree(p, a, k)
  PROVE  Agrees(TaintIn(p, Unsolved, k), TaintIn(p, a, k), a)
<1>1. PICK known1 : known1 = EnvAt(p, Unsolved)[k]
  OBVIOUS
<1>2. PICK known2 : known2 = EnvAt(p, a)[k]
  OBVIOUS
<1>3. PICK x1 : x1 = Context(p, Unsolved)
  OBVIOUS
<1>4. PICK x2 : x2 = Context(p, a)
  OBVIOUS
<1>5. x1.channels = Unsolved /\ x2.channels = a /\ x1.sources = x2.sources
  BY <1>3, <1>4 DEF Context
<1>6. /\ DOMAIN known1 = DOMAIN known2
      /\ \A m \in DOMAIN known1 : Agrees(known1[m], known2[m], a)
  BY <1>1, <1>2 DEF EnvsAgree
<1>7. TypedWalk(x1, known1) /\ TypedWalk(x2, known2)
  BY <1>5, <1>6, UnsolvedIs DEF TypedWalk, Agrees
<1>8. PICK s : s = p[k]
  OBVIOUS
<1>9. PICK e : e = ValueExpr(s)
  OBVIOUS
<1>10. Expression(e) /\ (e # Nothing => e = s.value)
  BY <1>8, <1>9, StatementParts
<1>11. /\ TaintIn(p, Unsolved, k) = StatementTaint(s, x1, known1)
       /\ TaintIn(p, a, k) = StatementTaint(s, x2, known2)
  BY <1>1, <1>2, <1>3, <1>4, <1>8 DEF TaintIn
<1>12. CASE "sanitizes" \in s.anns \/ "source" \in s.anns \/ e = Nothing
  BY <1>9, <1>11, <1>12, AgreesConstants DEF StatementTaint
<1>13. CASE "sanitizes" \notin s.anns /\ "source" \notin s.anns /\ e # Nothing
  <2>1. Kept(e, TaintsOf(e, x1, known1))
    BY <1>1, <1>3, <1>8, <1>10, <1>13 DEF KeepsLatches
  <2>2. Len(e) \in DOMAIN e
    BY <1>10, <1>13, Whole
  <2>3. Agrees(TaintsOf(e, x1, known1)[Len(e)], TaintsOf(e, x2, known2)[Len(e)], a)
    BY <1>5, <1>6, <1>7, <1>10, <2>1, <2>2, AgreesTaints
  <2>4. /\ TaintIn(p, Unsolved, k) = TaintsOf(e, x1, known1)[Len(e)]
        /\ TaintIn(p, a, k) = TaintsOf(e, x2, known2)[Len(e)]
    BY <1>9, <1>11, <1>13 DEF StatementTaint, ExprTaint
  <2> QED BY <2>3, <2>4
<1> QED BY <1>12, <1>13

LEMMA AgreesEnvs ==
  ASSUME NEW p \in Scripts, KeepsLatches(p), NEW a \in Answer
  PROVE  \A k \in 1..Len(p) + 1 : EnvsAgree(p, a, k)
<1>1. PICK n \in Nat : n = Len(p) + 1 /\ Len(p) \in Nat /\ DOMAIN p = 1..Len(p)
  BY StatementParts
<1> DEFINE P == {k \in 1..n : EnvsAgree(p, a, k)}
<1>2. ASSUME NEW k \in 1..n, \A j \in 1..k - 1 : j \in P PROVE k \in P
  <2>1. CASE k = 1
    <3>1. EnvAt(p, Unsolved)[1] = NoNames /\ EnvAt(p, a)[1] = NoNames
      BY EnvFacts, UnsolvedIs
    <3> QED BY <2>1, <3>1, NoNamesTyped DEF EnvsAgree
  <2>2. CASE k # 1
    <3>1. PICK j : j = k - 1
      OBVIOUS
    <3>2. j \in DOMAIN p /\ j \in 1..k - 1 /\ k = j + 1
      BY <1>1, <2>2, <3>1
    <3>3. EnvsAgree(p, a, j)
      BY <1>2, <3>2
    <3>4. PICK t : t = TaintIn(p, Unsolved, j)
      OBVIOUS
    <3>5. PICK u : u = TaintIn(p, a, j)
      OBVIOUS
    <3>6. Agrees(t, u, a)
      BY <3>2, <3>3, <3>4, <3>5, AgreesStatement
    <3>7. PICK f1 : f1 = EnvAt(p, Unsolved)[j]
      OBVIOUS
    <3>8. PICK f2 : f2 = EnvAt(p, a)[j]
      OBVIOUS
    <3>9. PICK g1 : g1 = EnvAt(p, Unsolved)[k]
      OBVIOUS
    <3>10. PICK g2 : g2 = EnvAt(p, a)[k]
      OBVIOUS
    <3>11. g1 = With(f1, p[j].target, t) /\ g2 = With(f2, p[j].target, u)
      BY <3>2, <3>4, <3>5, <3>7, <3>8, <3>9, <3>10, EnvFacts, UnsolvedIs
    <3>12. DOMAIN f1 = DOMAIN f2 /\ \A n1 \in DOMAIN f2 : Agrees(f1[n1], f2[n1], a)
      BY <3>3, <3>7, <3>8 DEF EnvsAgree
    <3>13. DOMAIN g1 = DOMAIN g2
      BY <3>11, <3>12 DEF With
    <3>14. ASSUME NEW n1 \in DOMAIN g2 PROVE Agrees(g1[n1], g2[n1], a)
      <4>1. CASE n1 = p[j].target
        BY <3>6, <3>11, <4>1 DEF With
      <4>2. CASE n1 # p[j].target
        <5>1. n1 \in DOMAIN f2 /\ g1[n1] = f1[n1] /\ g2[n1] = f2[n1]
          BY <3>11, <3>12, <3>14, <4>2 DEF With
        <5> QED BY <3>12, <5>1
      <4> QED BY <4>1, <4>2
    <3> QED BY <3>9, <3>10, <3>13, <3>14 DEF EnvsAgree
  <2> QED BY <2>1, <2>2
<1>3. 1..n \subseteq P
  <2> HIDE DEF P
  <2> QED BY <1>2, Upward
<1> QED BY <1>1, <1>3

LEMMA AgreesIn ==
  ASSUME NEW p \in Scripts, KeepsLatches(p), NEW a \in Answer, NEW k \in DOMAIN p
  PROVE  Agrees(TaintIn(p, Unsolved, k), TaintIn(p, a, k), a)
<1>1. k \in 1..Len(p) + 1
  BY StatementParts
<1> QED BY <1>1, AgreesEnvs, AgreesStatement

(* What the solver makes of a write, in terms of its taint.                *)
LEMMA GivesIs ==
  ASSUME NEW w, w.taint \in SaneTaint, NEW a
  PROVE  /\ Gives(w, a) <=> Fed(w.taint, a)
         /\ GivesLatched(w, a) <=> FedLatched(w.taint, a)
<1>1. /\ w.taint.sanitised => ~w.taint.invalid /\ ~w.taint.latched
      /\ w.taint.latched => w.taint.invalid
  BY SaneParts DEF Sane
<1> QED BY <1>1 DEF Gives, GivesLatched, Fed, FedLatched
-----------------------------------------------------------------------------
(* What the walks have done: the environment is that of the statements so  *)
(* far, and the write summary holds the first walk's taint of each of them *)
(* that writes a symbol.                                                   *)
Writes(p, k) == p[k].kind = "assign" /\ Canonical(p[k].target) # NoSymbol
Entry(p, k) == [at |-> k, channel |-> Canonical(p[k].target), taint |-> TaintIn(p, Unsolved, k)]

Walked == IF phase = "summarise" THEN pc - 1 ELSE Len(script)

WalkInv ==
  /\ phase \in {"summarise", "report"} => env = EnvAt(script, seeded)[pc]
  /\ ToSet(writes) = {Entry(script, k) : k \in {j \in 1..Walked : Writes(script, j)}}
  /\ phase # "summarise" => seeded \in Answers
  /\ phase = "report" /\ pc # 1 => ~CanSkip

(* The elements of a sequence with one appended.                           *)
LEMMA AppendSet ==
  ASSUME NEW S, NEW s \in Seq(S), NEW x \in S
  PROVE  ToSet(Append(s, x)) = ToSet(s) \cup {x}
<1>1. /\ Append(s, x) \in Seq(S) /\ Len(s) \in Nat
      /\ DOMAIN Append(s, x) = 1..Len(s) + 1 /\ DOMAIN s = 1..Len(s)
      /\ Append(s, x)[Len(s) + 1] = x
      /\ \A i \in 1..Len(s) : Append(s, x)[i] = s[i]
  BY AppendProperties, LenProperties
<1> QED BY <1>1 DEF ToSet

LEMMA WalkInit == Init => WalkInv
<1> SUFFICES ASSUME Init PROVE WalkInv
  OBVIOUS
<1>1. env = EnvAt(script, seeded)[pc]
  <2>1. env = NoNames /\ pc = 1 /\ seeded \in Answer /\ script \in Scripts
    BY UnsolvedIs DEF Init, NoNames
  <2> QED BY <2>1, EnvFacts
<1>2. ToSet(writes) = {}
  BY DEF Init, ToSet
<1>3. 1..Walked = {}
  BY DEF Init, Walked
<1> QED BY <1>1, <1>2, <1>3 DEF Init, WalkInv

LEMMA WalkStep == TypeInv /\ WalkInv /\ [Next]_vars => WalkInv'
<1> SUFFICES ASSUME TypeInv, WalkInv, [Next]_vars PROVE WalkInv'
  OBVIOUS
<1>0. /\ script \in Scripts /\ Len(script) \in Nat /\ DOMAIN script = 1..Len(script)
      /\ pc \in 1..Len(script) + 1 /\ seeded \in Answer /\ writes \in Seq(Write(script))
  BY StatementParts DEF TypeInv
<1>1. CASE Walk
  <2>1. PICK t : t = StatementTaint(script[pc], Context(script, seeded), env)
    OBVIOUS
  <2>2. /\ pc \in DOMAIN script /\ script' = script /\ phase' = phase
        /\ seeded' = seeded /\ pc' = pc + 1 /\ phase \in {"summarise", "report"}
    BY <1>0, <1>1 DEF Walk
  <2>3. t = TaintIn(script, seeded, pc)
    BY <2>1, <2>2 DEF WalkInv, TaintIn
  <2>4. env' = EnvAt(script', seeded')[pc']
    BY <1>0, <1>1, <2>1, <2>2, <2>3, EnvFacts DEF Walk, WalkInv
  <2>5. ToSet(writes') = {Entry(script', k) : k \in {j \in 1..Walked' : Writes(script', j)}}
    <3>1. CASE phase = "report"
      <4>1. writes' = writes
        BY <1>1, <3>1 DEF Walk
      <4> QED BY <2>2, <3>1, <4>1 DEF WalkInv, Walked
    <3>2. CASE phase = "summarise"
      <4>1. seeded = Unsolved /\ Walked = pc - 1 /\ Walked' = pc
        BY <1>0, <2>2, <3>2 DEF TypeInv, Walked
      <4>2. writes' = Summarised(script[pc], t)
        BY <1>1, <2>1, <3>2 DEF Walk
      <4>3. 1..pc = 1..pc - 1 \cup {pc}
        BY <1>0
      <4>4. CASE Writes(script, pc)
        <5>1. PICK w : w = Entry(script, pc)
          OBVIOUS
        <5>2. writes' = Append(writes, w)
          BY <2>3, <4>1, <4>2, <4>4, <5>1 DEF Summarised, Entry, Writes
        <5>3. w \in Write(script)
          <6>1. TaintIn(script, Unsolved, pc) \in SaneTaint
            BY <1>0, <2>2, UnsolvedIs, TaintInSane
          <6>2. Canonical(script[pc].target) \in Channel
            BY <1>0, <2>2, <4>4, StatementParts DEF Writes
          <6> QED BY <2>2, <5>1, <6>1, <6>2 DEF Entry, Write
        <5>4. ToSet(writes') = ToSet(writes) \cup {w}
          BY <1>0, <5>2, <5>3, AppendSet
        <5>5. ToSet(writes) = {Entry(script, k) : k \in {j \in 1..pc - 1 : Writes(script, j)}}
          BY <4>1 DEF WalkInv
        <5>6. {j \in 1..pc : Writes(script, j)} = {j \in 1..pc - 1 : Writes(script, j)} \cup {pc}
          BY <4>3, <4>4
        <5> QED BY <2>2, <4>1, <5>1, <5>4, <5>5, <5>6
      <4>5. CASE ~Writes(script, pc)
        <5>1. writes' = writes
          BY <4>2, <4>5 DEF Summarised, Writes
        <5>2. ToSet(writes) = {Entry(script, k) : k \in {j \in 1..pc - 1 : Writes(script, j)}}
          BY <4>1 DEF WalkInv
        <5>3. {j \in 1..pc : Writes(script, j)} = {j \in 1..pc - 1 : Writes(script, j)}
          BY <4>3, <4>5
        <5> QED BY <2>2, <4>1, <5>1, <5>2, <5>3
      <4> QED BY <4>4, <4>5
    <3> QED BY <2>2, <3>1, <3>2
  <2>6. phase' # "summarise" => seeded' \in Answers'
    <3> SUFFICES ASSUME phase = "report" PROVE seeded \in Answers'
      BY <2>2
    <3>1. writes' = writes
      BY <1>1 DEF Walk
    <3> QED BY <2>2, <3>1 DEF WalkInv, Answers
  <2>7. phase' = "report" => ~CanSkip'
    BY <1>1, <2>2 DEF Walk, CanSkip, ContainsInvalidSource
  <2> QED BY <2>2, <2>4, <2>5, <2>6, <2>7 DEF WalkInv
<1>2. CASE Solve
  <2>1. /\ script' = script /\ phase' = "report" /\ pc' = 1 /\ writes' = writes
        /\ env' = NoNames /\ seeded' \in Answers
    BY <1>2 DEF Solve, NoNames
  <2>2. seeded' \in Answer
    BY <2>1 DEF Answers, Answer
  <2>3. env' = EnvAt(script', seeded')[pc']
    BY <1>0, <2>1, <2>2, EnvFacts
  <2>4. Walked = Len(script) /\ Walked' = Len(script)
    BY <1>0, <1>2, <2>1 DEF Solve, Walked
  <2>5. Answers' = Answers
    BY <2>1 DEF Answers
  <2> QED BY <2>1, <2>3, <2>4, <2>5 DEF WalkInv
<1>3. CASE StartTick \/ Execute \/ SkipArm \/ EndTick
  <2>1. /\ script' = script /\ phase' \in {"run", "done"} /\ phase # "summarise"
        /\ writes' = writes /\ seeded' = seeded
    BY <1>3 DEF StartTick, Execute, SkipArm, EndTick
  <2>2. Answers' = Answers
    BY <2>1 DEF Answers
  <2> QED BY <2>1, <2>2 DEF WalkInv, Walked
<1>4. CASE UNCHANGED vars
  BY <1>4 DEF vars, WalkInv, Walked, Answers, CanSkip, ContainsInvalidSource
<1> QED BY <1>1, <1>2, <1>3, <1>4 DEF Next, Done

LEMMA WalkCorrect == Spec => [](TypeInv /\ WalkInv)
BY TypeInit, TypeStep, WalkInit, WalkStep, PTL DEF Spec

LEMMA WalkAgrees ==
  ASSUME TypeInv, WalkInv, KeepsLatches(script)
  PROVE  PassesAgree
<1> SUFFICES ASSUME phase = "report", NEW w \in ToSet(writes), w.at = pc - 1
             PROVE  LET t == env[script[w.at].target]
                    IN  /\ (t.invalid /\ ~t.sanitised) = Gives(w, seeded)
                        /\ (t.invalid /\ ~t.sanitised /\ t.latched) = GivesLatched(w, seeded)
  BY DEF PassesAgree
<1>1. /\ script \in Scripts /\ Len(script) \in Nat /\ DOMAIN script = 1..Len(script)
      /\ pc \in 1..Len(script) + 1 /\ seeded \in Answer
  BY StatementParts DEF TypeInv
<1>2. PICK k \in DOMAIN script : w = Entry(script, k)
  BY <1>1 DEF WalkInv, Walked
<1>3. w.at = k /\ w.taint = TaintIn(script, Unsolved, k) /\ pc = k + 1
  BY <1>1, <1>2 DEF Entry
<1>4. PICK u : u = TaintIn(script, seeded, k)
  OBVIOUS
<1>5. Agrees(w.taint, u, seeded)
  BY <1>1, <1>3, <1>4, AgreesIn
<1>6. env[script[k].target] = u
  <2>1. env = With(EnvAt(script, seeded)[k], script[k].target, u)
    BY <1>1, <1>3, <1>4, EnvFacts DEF WalkInv
  <2> QED BY <2>1 DEF With
<1>7. /\ u.sanitised => ~u.invalid
      /\ u.latched => u.invalid
  BY <1>5, SaneParts DEF Agrees, Sane
<1>8. /\ Gives(w, seeded) <=> u.invalid
      /\ GivesLatched(w, seeded) <=> u.latched
  BY <1>5, GivesIs DEF Agrees
<1>9. Gives(w, seeded) \in BOOLEAN /\ GivesLatched(w, seeded) \in BOOLEAN
  BY DEF Gives, GivesLatched
<1>10. /\ (u.invalid /\ ~u.sanitised) = Gives(w, seeded)
       /\ (u.invalid /\ ~u.sanitised /\ u.latched) = GivesLatched(w, seeded)
  BY <1>7, <1>8, <1>9
<1> QED BY <1>3, <1>6, <1>10

(* The reporting walk finds a write invalid, or latched, exactly when its  *)
(* entry in the summary of the first walk makes the solver find it so.     *)
THEOREM WalksAgree == Spec => [](KeepsLatches(script) => PassesAgree)
<1>1. TypeInv /\ WalkInv => (KeepsLatches(script) => PassesAgree)
  BY WalkAgrees
<1> QED BY <1>1, WalkCorrect, PTL
-----------------------------------------------------------------------------
(* The values that come up during a tick, and those a taint allows.        *)
Held == {Finite} \cup [bad : NonFinite, latched : BOOLEAN]

Covered(v, t) == IsBad(v) => t.invalid /\ (v.latched => t.latched)

AllCovered(V, t) == \A v \in V : v \in Held /\ Covered(v, t)

(* A value is finite or holds what a division may yield.                   *)
LEMMA HeldFacts ==
  /\ Finite \in Held /\ ~IsBad(Finite) /\ ~Finite.latched /\ Bad \subseteq Held
  /\ \A v \in Held : /\ v \in Value /\ v.latched \in BOOLEAN
                     /\ IsBad(v) <=> v.bad \in NonFinite
                     /\ ~IsBad(v) => v = Finite
  /\ \A v \in Bad : ~v.latched
  /\ "no" \notin NonFinite
<1>1. "no" \notin NonFinite
  BY ScriptsAssumption
<1>2. Finite \in Held /\ ~IsBad(Finite) /\ ~Finite.latched
  BY DEF Held, Finite, IsBad
<1>3. Bad \subseteq Held /\ \A v \in Bad : ~v.latched
  BY DEF Held, Bad
<1>4. ASSUME NEW v \in Held
      PROVE  /\ v \in Value /\ v.latched \in BOOLEAN
             /\ IsBad(v) <=> v.bad \in NonFinite
             /\ ~IsBad(v) => v = Finite
  <2>1. CASE v = Finite
    BY <1>1, <2>1 DEF Finite, IsBad, Value
  <2>2. CASE v \in [bad : NonFinite, latched : BOOLEAN]
    BY <1>1, <2>2, ScriptsAssumption DEF IsBad, Value
  <2> QED BY <2>1, <2>2 DEF Held
<1> QED BY <1>1, <1>2, <1>3, <1>4

(* What combining makes bad, or latched, was so before.                    *)
LEMMA CombinedFacts ==
  ASSUME NEW values, \A i \in DOMAIN values : values[i] \in Held,
         NEW v \in Combined(values)
  PROVE  /\ v \in Held
         /\ IsBad(v) => /\ \E i \in DOMAIN values : IsBad(values[i])
                        /\ v.latched => \E i \in DOMAIN values : IsBad(values[i]) /\ values[i].latched
<1>1. PICK bad : bad = {i \in DOMAIN values : IsBad(values[i])}
  OBVIOUS
<1>2. CASE bad = {}
  <2>1. v = Finite
    BY <1>1, <1>2 DEF Combined
  <2> QED BY <2>1, HeldFacts
<1>3. CASE bad # {}
  <2>1. v \in {[bad |-> values[i].bad, latched |-> \E j \in bad : values[j].latched] : i \in bad}
    BY <1>1, <1>3 DEF Combined
  <2>2. PICK i \in bad : v = [bad |-> values[i].bad, latched |-> \E j \in bad : values[j].latched]
    BY <2>1
  <2>3. values[i].bad \in NonFinite
    BY <1>1, HeldFacts
  <2>4. v \in Held
    BY <2>2, <2>3 DEF Held
  <2>5. v.latched => \E j \in bad : values[j].latched
    BY <2>2
  <2> QED BY <1>1, <2>4, <2>5
<1> QED BY <1>2, <1>3

(* Values combined are covered by the join of the taints.                  *)
LEMMA CombinedCovered ==
  ASSUME NEW outs, NEW ts, DOMAIN outs = DOMAIN ts,
         \A k \in DOMAIN outs : AllCovered(outs[k], ts[k]),
         NEW v \in CombinedSets(outs)
  PROVE  /\ v \in Held
         /\ IsBad(v) => /\ \E k \in DOMAIN ts : ts[k].invalid
                        /\ v.latched => \E k \in DOMAIN ts : ts[k].latched
<1>1. PICK values : /\ v \in Combined(values) /\ DOMAIN values = DOMAIN outs
                    /\ \A k \in DOMAIN outs : values[k] \in outs[k]
  BY DEF CombinedSets
<1>2. \A k \in DOMAIN values : values[k] \in Held /\ Covered(values[k], ts[k])
  BY <1>1 DEF AllCovered
<1>3. /\ v \in Held
      /\ IsBad(v) => /\ \E i \in DOMAIN values : IsBad(values[i])
                     /\ v.latched => \E i \in DOMAIN values : IsBad(values[i]) /\ values[i].latched
  BY <1>1, <1>2, CombinedFacts
<1> QED BY <1>1, <1>2, <1>3 DEF Covered

(* Combined values are values that come up.                                *)
LEMMA CombinedHeld ==
  ASSUME NEW outs, \A k \in DOMAIN outs : outs[k] \subseteq Held
  PROVE  CombinedSets(outs) \subseteq Held
<1> SUFFICES ASSUME NEW v \in CombinedSets(outs) PROVE v \in Held
  OBVIOUS
<1>1. PICK values : /\ v \in Combined(values) /\ DOMAIN values = DOMAIN outs
                    /\ \A k \in DOMAIN outs : values[k] \in outs[k]
  BY DEF CombinedSets
<1>2. \A k \in DOMAIN values : values[k] \in Held
  BY <1>1
<1> QED BY <1>1, <1>2, CombinedFacts
-----------------------------------------------------------------------------
(* The outcomes of a node, as for its taint.                               *)
LEMMA OutcomeCases ==
  ASSUME NEW e, NEW cells, NEW i, NEW g
  PROVE  /\ e[i].op \in {"literal", "compare", "IsNAN"} => OutcomesAt(e, cells, g, i) = {Finite}
         /\ e[i].op = "read" => OutcomesAt(e, cells, g, i) = {cells[CellOf(e[i].name)]}
         /\ e[i].op \in {"paren", "not", "minus", "arith"} =>
              OutcomesAt(e, cells, g, i) = CombinedSets(Args(e, g, i))
         /\ e[i].op \in {"divide", "domain"} =>
              OutcomesAt(e, cells, g, i) = CombinedSets(Args(e, g, i)) \cup Bad
         /\ e[i].op = "ternary" /\ Guard(e, i).found =>
              OutcomesAt(e, cells, g, i) = GuardedOutcomes(e, g, i)
         /\ e[i].op = "ternary" /\ ~Guard(e, i).found =>
              OutcomesAt(e, cells, g, i) = Args(e, g, i)[2] \cup Args(e, g, i)[3]
         /\ e[i].op = "infinity" => OutcomesAt(e, cells, g, i) = Explicit("inf")
         /\ e[i].op = "NAN" => OutcomesAt(e, cells, g, i) = Explicit("nan")
         /\ e[i].op = "stateful" =>
              OutcomesAt(e, cells, g, i) =
                {[v EXCEPT !.latched = IsBad(v)] : v \in CombinedSets(Args(e, g, i))}
         /\ e[i].op = "user" =>
              OutcomesAt(e, cells, g, i) =
                CombinedSets(Args(e, g, i)) \cup {cells[Resolves[e[i].name]]}
         /\ e[i].op = "clamp" =>
              OutcomesAt(e, cells, g, i) =
                {IF v.bad = "inf" THEN Finite ELSE v : v \in CombinedSets(Args(e, g, i))}
<1>1. PICK outs : outs = Args(e, g, i)
  OBVIOUS
<1>2. outs = [k \in DOMAIN e[i].args |-> g[e[i].args[k]]]
  BY <1>1 DEF Args
<1>3. CASE e[i].op \in {"literal", "compare", "IsNAN"}
  BY <1>3 DEF OutcomesAt
<1>4. CASE e[i].op = "read"
  BY <1>4 DEF OutcomesAt
<1>5. CASE e[i].op \in {"paren", "not", "minus", "arith"}
  BY <1>1, <1>2, <1>5 DEF OutcomesAt
<1>6. CASE e[i].op \in {"divide", "domain"}
  BY <1>1, <1>2, <1>6 DEF OutcomesAt
<1>7. CASE e[i].op = "ternary"
  BY <1>1, <1>2, <1>7 DEF OutcomesAt
<1>8. CASE e[i].op \in {"infinity", "NAN"}
  BY <1>8 DEF OutcomesAt
<1>9. CASE e[i].op = "stateful"
  BY <1>1, <1>2, <1>9 DEF OutcomesAt
<1>10. CASE e[i].op = "user"
  BY <1>1, <1>2, <1>10 DEF OutcomesAt
<1>11. CASE e[i].op = "clamp"
  BY <1>1, <1>2, <1>11 DEF OutcomesAt
<1> QED BY <1>3, <1>4, <1>5, <1>6, <1>7, <1>8, <1>9, <1>10, <1>11

LEMMA OutcomesAtLocal ==
  ASSUME NEW e, Expression(e), NEW cells, NEW i \in DOMAIN e, NEW g, NEW h,
         \A j \in 1..i - 1 : g[j] = h[j]
  PROVE  OutcomesAt(e, cells, g, i) = OutcomesAt(e, cells, h, i)
<1>1. \A k \in DOMAIN e[i].args : g[e[i].args[k]] = h[e[i].args[k]]
  BY Parts
<1>2. Args(e, g, i) = Args(e, h, i)
  BY <1>1 DEF Args
<1>3. [k \in DOMAIN e[i].args |-> g[e[i].args[k]]] = [k \in DOMAIN e[i].args |-> h[e[i].args[k]]]
  BY <1>1
<1>4. e[i].op = "ternary" => GuardedOutcomes(e, g, i) = GuardedOutcomes(e, h, i)
  <2> SUFFICES ASSUME e[i].op = "ternary"
               PROVE  GuardedOutcomes(e, g, i) = GuardedOutcomes(e, h, i)
    OBVIOUS
  <2>1. /\ g[NanBranch(e, i)] = h[NanBranch(e, i)] /\ g[OkBranch(e, i)] = h[OkBranch(e, i)]
        /\ g[Guard(e, i).arg] = h[Guard(e, i).arg]
    BY TernaryParts
  <2> QED BY <2>1 DEF GuardedOutcomes
<1> QED BY <1>3, <1>4 DEF OutcomesAt

LEMMA CellOfTyped == \A n \in Name : CellOf(n) \in Cell
BY NamesAssumption DEF CellOf, Canonical, Cell

(* Which branch of a guarded ternary a value comes from.                   *)
LEMMA GuardedOutcomesIn ==
  ASSUME NEW e, NEW g, NEW i, NEW v \in GuardedOutcomes(e, g, i)
  PROVE  \/ v \in g[NanBranch(e, i)]
         \/ OkBranch(e, i) # Guard(e, i).arg /\ v \in g[OkBranch(e, i)]
         \/ OkBranch(e, i) = Guard(e, i).arg /\ v \in g[OkBranch(e, i)] /\ v.bad # "nan"
BY DEF GuardedOutcomes

(* A value that goes through the state of a filter.                        *)
LEMMA LatchedHeld ==
  ASSUME NEW v \in Held, NEW u, u = [v EXCEPT !.latched = IsBad(v)]
  PROVE  u \in Held /\ (IsBad(u) <=> IsBad(v))
<1>1. CASE IsBad(v)
  <2>1. v \in [bad : NonFinite, latched : BOOLEAN]
    BY <1>1, HeldFacts DEF Held
  <2>2. u \in [bad : NonFinite, latched : BOOLEAN] /\ u.bad = v.bad
    BY <1>1, <2>1 DEF IsBad
  <2> QED BY <2>2 DEF Held, IsBad
<1>2. CASE ~IsBad(v)
  <2>1. v = Finite /\ u = [Finite EXCEPT !.latched = FALSE]
    BY <1>2, HeldFacts DEF IsBad
  <2>2. u = Finite
    BY <2>1 DEF Finite
  <2> QED BY <2>1, <2>2, HeldFacts
<1> QED BY <1>1, <1>2

LEMMA ExplicitFacts ==
  ASSUME NEW kind, NEW v \in Explicit(kind)
  PROVE  v \in Held /\ ~v.latched
<1>1. CASE kind \in NonFinite
  <2>1. v = [bad |-> kind, latched |-> FALSE]
    BY <1>1 DEF Explicit
  <2>2. v \in [bad : NonFinite, latched : BOOLEAN] /\ v.latched = FALSE
    BY <1>1, <2>1
  <2> QED BY <2>2 DEF Held
<1>2. CASE kind \notin NonFinite
  BY <1>2, HeldFacts DEF Explicit
<1> QED BY <1>1, <1>2

LEMMA OutcomesAtTyped ==
  ASSUME NEW e, Expression(e), NEW cells \in [Cell -> Held], NEW i \in DOMAIN e, NEW g,
         \A j \in 1..i - 1 : g[j] \subseteq Held
  PROVE  OutcomesAt(e, cells, g, i) \subseteq Held
<1>1. e[i].op \in Op /\ e[i].name \in Name
  BY Parts
<1>2. PICK outs : outs = Args(e, g, i)
  OBVIOUS
<1>3. \A k \in DOMAIN outs : outs[k] \subseteq Held
  BY <1>2, ArgFacts
<1>4. CombinedSets(outs) \subseteq Held
  BY <1>3, CombinedHeld
<1>5. CASE e[i].op \in {"literal", "compare", "IsNAN"}
  BY <1>5, OutcomeCases, HeldFacts
<1>6. CASE e[i].op = "read"
  BY <1>1, <1>6, OutcomeCases, CellOfTyped
<1>7. CASE e[i].op \in {"paren", "not", "minus", "arith"}
  BY <1>2, <1>4, <1>7, OutcomeCases
<1>8. CASE e[i].op \in {"divide", "domain"}
  BY <1>2, <1>4, <1>8, OutcomeCases, HeldFacts
<1>9. CASE e[i].op = "ternary" /\ Guard(e, i).found
  <2>1. OutcomesAt(e, cells, g, i) = GuardedOutcomes(e, g, i)
    BY <1>9, OutcomeCases
  <2>2. g[NanBranch(e, i)] \subseteq Held /\ g[OkBranch(e, i)] \subseteq Held
    BY <1>9, TernaryParts
  <2> QED BY <2>1, <2>2, GuardedOutcomesIn
<1>10. CASE e[i].op = "ternary" /\ ~Guard(e, i).found
  <2>1. OutcomesAt(e, cells, g, i) = outs[2] \cup outs[3]
    BY <1>2, <1>10, OutcomeCases
  <2>2. 2 \in DOMAIN outs /\ 3 \in DOMAIN outs
    BY <1>2, <1>10, ArgFacts
  <2> QED BY <1>3, <2>1, <2>2
<1>11. CASE e[i].op \in {"infinity", "NAN"}
  BY <1>11, OutcomeCases, ExplicitFacts
<1>12. CASE e[i].op = "stateful"
  <2>1. OutcomesAt(e, cells, g, i) = {[v EXCEPT !.latched = IsBad(v)] : v \in CombinedSets(outs)}
    BY <1>2, <1>12, OutcomeCases
  <2> QED BY <1>4, <2>1, LatchedHeld
<1>13. CASE e[i].op = "user"
  <2>1. Resolves[e[i].name] \in Cell
    BY <1>13, Parts DEF Cell
  <2> QED BY <1>2, <1>4, <1>13, <2>1, OutcomeCases
<1>14. CASE e[i].op = "clamp"
  BY <1>2, <1>4, <1>14, OutcomeCases, HeldFacts
<1> QED BY <1>1, <1>5, <1>6, <1>7, <1>8, <1>9, <1>10, <1>11, <1>12, <1>13, <1>14 DEF Op

(* The outcomes of an expression solve their equations.                    *)
OutcomesAre(e, cells, g) == g = [i \in DOMAIN e |-> OutcomesAt(e, cells, g, i)]

LEMMA OutcomesExist ==
  ASSUME NEW e, Expression(e), NEW cells \in [Cell -> Held]
  PROVE  \E g : OutcomesAre(e, cells, g)
<1>1. PICK n \in Nat : n = Len(e) /\ DOMAIN e = 1..n
  BY Parts
<1> DEFINE S == SUBSET Held
           F == [i \in 1..n |-> [g \in [1..n -> S] |-> OutcomesAt(e, cells, g, i)]]
<1>2. S # {}
  OBVIOUS
<1>3. ASSUME NEW i \in 1..n, NEW g \in [1..n -> S] PROVE OutcomesAt(e, cells, g, i) \in S
  <2>1. \A j \in 1..i - 1 : j \in 1..n
    OBVIOUS
  <2>2. \A j \in 1..i - 1 : g[j] \subseteq Held
    BY <2>1
  <2> QED BY <1>1, <2>2, OutcomesAtTyped
<1>4. F \in [1..n -> [[1..n -> S] -> S]]
  <2> HIDE DEF S
  <2> QED BY <1>3
<1>5. ASSUME NEW i \in 1..n, NEW g \in [1..n -> S], NEW h \in [1..n -> S],
             \A j \in 1..i - 1 : g[j] = h[j]
      PROVE  F[i][g] = F[i][h]
  <2>1. OutcomesAt(e, cells, g, i) = OutcomesAt(e, cells, h, i)
    BY <1>1, <1>5, OutcomesAtLocal
  <2> HIDE DEF S
  <2> QED BY <2>1
<1>6. Recursive(n, S, F)
  <2> HIDE DEF S, F
  <2> QED BY <1>4, <1>5 DEF Recursive
<1>7. PICK g \in [1..n -> S] : Solves(n, F, g)
  <2> HIDE DEF S, F
  <2> QED BY <1>2, <1>6, Solved
<1>8. \A i \in 1..n : g[i] = OutcomesAt(e, cells, g, i)
  <2> HIDE DEF S
  <2> QED BY <1>7 DEF Solves
<1>9. g = [i \in 1..n |-> OutcomesAt(e, cells, g, i)]
  BY <1>8
<1> QED BY <1>1, <1>9 DEF OutcomesAre

LEMMA OutcomesFacts ==
  ASSUME NEW e, Expression(e), NEW cells \in [Cell -> Held]
  PROVE  \A i \in DOMAIN e :
           OutcomesOf(e, cells)[i] = OutcomesAt(e, cells, OutcomesOf(e, cells), i)
<1>1. OutcomesAre(e, cells, OutcomesOf(e, cells))
  <2>1. OutcomesOf(e, cells) = CHOOSE g : OutcomesAre(e, cells, g)
    BY DEF OutcomesOf, OutcomesAre
  <2> QED BY <2>1, OutcomesExist
<1> QED BY <1>1 DEF OutcomesAre
-----------------------------------------------------------------------------
(* Every value a node may evaluate to is covered by the taint of the node, *)
(* as far as the reads below it are covered.                               *)
LEMMA OutcomesCovered ==
  ASSUME NonFinite \subseteq {"nan"},
         NEW e, Expression(e), NEW ctx, NEW known, TypedWalk(ctx, known),
         NEW cells \in [Cell -> Held],
         \A i \in DOMAIN e : e[i].op = "read" =>
           Covered(cells[CellOf(e[i].name)], NameTaint(ctx, known, e[i].name)),
         \A c \in Channel : Covered(cells[c], ReadTaint(ctx, c))
  PROVE  \A i \in DOMAIN e : AllCovered(OutcomesOf(e, cells)[i], TaintsOf(e, ctx, known)[i])
<1>1. PICK g : g = TaintsOf(e, ctx, known)
  OBVIOUS
<1>2. PICK h : h = OutcomesOf(e, cells)
  OBVIOUS
<1>3. \A i \in DOMAIN e : /\ g[i] = TaintAt(e, ctx, known, g, i) /\ g[i] \in SaneTaint
                          /\ h[i] = OutcomesAt(e, cells, h, i)
  BY <1>1, <1>2, TaintsFacts, OutcomesFacts
<1>4. PICK n \in Nat : n = Len(e) /\ DOMAIN e = 1..n
  BY Parts
<1> DEFINE P == {i \in 1..n : AllCovered(h[i], g[i])}
<1>5. ASSUME NEW i \in 1..n, \A j \in 1..i - 1 : j \in P PROVE i \in P
  <2>1. i \in DOMAIN e /\ e[i].op \in Op /\ e[i].name \in Name
    BY <1>4, Parts
  <2>2. PICK ts : ts = Args(e, g, i)
    OBVIOUS
  <2>3. PICK outs : outs = Args(e, h, i)
    OBVIOUS
  <2>4. \A j \in 1..i - 1 : AllCovered(h[j], g[j]) /\ g[j] \in SaneTaint
    BY <1>3, <1>4, <1>5
  <2>5. /\ DOMAIN outs = DOMAIN ts
        /\ \A k \in DOMAIN outs : AllCovered(outs[k], ts[k]) /\ ts[k] \in SaneTaint
    BY <2>1, <2>2, <2>3, <2>4, ArgFacts
  <2>6. PICK t : t = TaintAt(e, ctx, known, g, i)
    OBVIOUS
  <2>7. PICK V : V = OutcomesAt(e, cells, h, i)
    OBVIOUS
  <2>8. g[i] = t /\ h[i] = V /\ t \in SaneTaint
    BY <1>3, <2>1, <2>6, <2>7
  <2>9. PICK j : j = JoinAll(ts)
    OBVIOUS
  <2>10. /\ j \in SaneTaint
         /\ j.invalid <=> \E k \in DOMAIN ts : ts[k].invalid
         /\ j.latched <=> \E k \in DOMAIN ts : ts[k].latched
    BY <2>5, <2>9, JoinAllSane, JoinAllFacts
  <2>11. \A v \in CombinedSets(outs) : v \in Held /\ Covered(v, j)
    BY <2>5, <2>10, CombinedCovered DEF Covered
  <2> SUFFICES AllCovered(V, t)
    BY <2>8
  <2>12. CASE e[i].op \in {"literal", "compare", "IsNAN"}
    BY <2>7, <2>12, OutcomeCases, HeldFacts DEF AllCovered, Covered
  <2>13. CASE e[i].op = "read"
    <3>1. V = {cells[CellOf(e[i].name)]} /\ t = NameTaint(ctx, known, e[i].name)
      BY <2>6, <2>7, <2>13, OutcomeCases, TaintCases
    <3>2. cells[CellOf(e[i].name)] \in Held
      BY <2>1, CellOfTyped
    <3> QED BY <2>1, <2>13, <3>1, <3>2 DEF AllCovered
  <2>14. CASE e[i].op \in {"paren", "not", "minus"}
    <3>1. V = CombinedSets(outs) /\ t = ts[1]
      BY <2>2, <2>3, <2>6, <2>7, <2>14, OutcomeCases, TaintCases
    <3>2. DOMAIN ts = {1}
      <4>1. DOMAIN e[i].args = {1}
        BY <2>1, <2>14, Arities
      <4> QED BY <2>2, <4>1 DEF Args
    <3>3. /\ t.invalid <=> j.invalid
          /\ t.latched <=> j.latched
      BY <2>10, <3>1, <3>2
    <3> QED BY <2>11, <3>1, <3>3 DEF AllCovered, Covered
  <2>15. CASE e[i].op = "arith"
    <3>1. V = CombinedSets(outs) /\ t = j
      BY <2>2, <2>3, <2>6, <2>7, <2>9, <2>15, OutcomeCases, TaintCases
    <3> QED BY <2>11, <3>1 DEF AllCovered
  <2>16. CASE e[i].op \in {"divide", "domain"}
    <3>1. V = CombinedSets(outs) \cup Bad /\ t = [j EXCEPT !.invalid = TRUE]
      BY <2>2, <2>3, <2>6, <2>7, <2>9, <2>16, OutcomeCases, TaintCases
    <3>2. j \in Taint
      BY <2>10, SaneParts
    <3>3. t.invalid = TRUE /\ t.latched = j.latched
      BY <3>1, <3>2 DEF Taint
    <3> QED BY <2>11, <3>1, <3>3, HeldFacts DEF AllCovered, Covered
  <2>17. CASE e[i].op = "ternary" /\ Guard(e, i).found
    <3>1. V = GuardedOutcomes(e, h, i) /\ t = GuardedTaint(e, g, i)
      BY <2>6, <2>7, <2>17, OutcomeCases, TaintCases
    <3>2. PICK r : r = g[NanBranch(e, i)]
      OBVIOUS
    <3>3. PICK q : q = IF OkBranch(e, i) = Guard(e, i).arg THEN Cleared ELSE g[OkBranch(e, i)]
      OBVIOUS
    <3>4. /\ r \in SaneTaint /\ AllCovered(h[NanBranch(e, i)], r)
          /\ g[OkBranch(e, i)] \in SaneTaint /\ AllCovered(h[OkBranch(e, i)], g[OkBranch(e, i)])
      BY <2>1, <2>4, <2>17, <3>2, TernaryParts
    <3>5. q \in SaneTaint
      BY <3>3, <3>4, ConstantTaints
    <3>6. t = Join(r, q)
      BY <3>1, <3>2, <3>3 DEF GuardedTaint
    <3>7. /\ t.invalid <=> r.invalid \/ q.invalid
          /\ t.latched <=> r.latched \/ q.latched
      BY <3>4, <3>5, <3>6, JoinFacts
    <3>8. ASSUME NEW v \in V PROVE v \in Held /\ Covered(v, t)
      <4>1. CASE v \in h[NanBranch(e, i)]
        BY <3>4, <3>7, <4>1 DEF AllCovered, Covered
      <4>2. CASE OkBranch(e, i) # Guard(e, i).arg /\ v \in h[OkBranch(e, i)]
        BY <3>3, <3>4, <3>7, <4>2 DEF AllCovered, Covered
      <4>3. CASE OkBranch(e, i) = Guard(e, i).arg /\ v \in h[OkBranch(e, i)] /\ v.bad # "nan"
        <5>1. v \in Held
          BY <3>4, <4>3 DEF AllCovered
        <5>2. ~IsBad(v)
          BY <4>3, <5>1, HeldFacts
        <5> QED BY <5>1, <5>2 DEF Covered
      <4> QED BY <3>1, <4>1, <4>2, <4>3, GuardedOutcomesIn
    <3> QED BY <3>8 DEF AllCovered
  <2>18. CASE e[i].op = "ternary" /\ ~Guard(e, i).found
    <3>1. V = outs[2] \cup outs[3] /\ t = Join(ts[2], ts[3])
      BY <2>2, <2>3, <2>6, <2>7, <2>18, OutcomeCases, TaintCases
    <3>2. 2 \in DOMAIN ts /\ 3 \in DOMAIN ts
      BY <2>1, <2>2, <2>18, ArgFacts
    <3>3. /\ t.invalid <=> ts[2].invalid \/ ts[3].invalid
          /\ t.latched <=> ts[2].latched \/ ts[3].latched
      BY <2>5, <3>1, <3>2, JoinFacts
    <3> QED BY <2>5, <3>1, <3>2, <3>3 DEF AllCovered, Covered
  <2>19. CASE e[i].op \in {"infinity", "NAN"}
    <3>1. t = Source /\ V \in {Explicit("inf"), Explicit("nan")}
      BY <2>6, <2>7, <2>19, OutcomeCases, TaintCases
    <3> QED BY <3>1, ExplicitFacts, ConstantTaints DEF AllCovered, Covered
  <2>20. CASE e[i].op = "stateful"
    <3>1. /\ V = {[v EXCEPT !.latched = IsBad(v)] : v \in CombinedSets(outs)}
          /\ t = Latch(j)
      BY <2>2, <2>3, <2>6, <2>7, <2>9, <2>20, OutcomeCases, TaintCases
    <3>2. t.invalid = j.invalid /\ t.latched = j.invalid
      BY <2>10, <3>1, LatchFacts
    <3>3. ASSUME NEW u \in V PROVE u \in Held /\ Covered(u, t)
      <4>1. PICK v \in CombinedSets(outs) : u = [v EXCEPT !.latched = IsBad(v)]
        BY <3>1
      <4>2. v \in Held /\ Covered(v, j)
        BY <2>11
      <4>3. u \in Held /\ (IsBad(u) <=> IsBad(v))
        BY <4>1, <4>2, LatchedHeld
      <4> QED BY <3>2, <4>2, <4>3 DEF Covered
    <3> QED BY <3>3 DEF AllCovered
  <2>21. CASE e[i].op = "user"
    <3>1. PICK c \in Channel : c = Resolves[e[i].name]
      BY <2>1, <2>21, Parts
    <3>2. PICK r : r = ReadTaint(ctx, c)
      OBVIOUS
    <3>3. r \in SaneTaint
      BY <3>2, ReadTaintFacts DEF TypedWalk
    <3>4. PICK u : u = Join(j, r)
      OBVIOUS
    <3>5. u \in SaneTaint /\ ~u.sanitised
      BY <2>10, <3>3, <3>4, JoinSane
    <3>6. /\ u.invalid <=> j.invalid \/ r.invalid
          /\ u.latched <=> j.latched \/ r.latched
      BY <2>10, <3>3, <3>4, JoinFacts
    <3>7. t = WithEdge(u, c) /\ V = CombinedSets(outs) \cup {cells[c]}
      BY <2>2, <2>3, <2>6, <2>7, <2>9, <2>21, <3>1, <3>2, <3>4, OutcomeCases, TaintCases
    <3>8. t.invalid = u.invalid /\ t.latched = u.latched
      BY <3>5, <3>7, EdgeFacts
    <3>9. cells[c] \in Held /\ Covered(cells[c], r)
      BY <3>2 DEF Cell
    <3> QED BY <2>11, <3>6, <3>7, <3>8, <3>9 DEF AllCovered, Covered
  <2>22. CASE e[i].op = "clamp"
    <3>1. /\ V = {IF v.bad = "inf" THEN Finite ELSE v : v \in CombinedSets(outs)}
          /\ t = j
      BY <2>2, <2>3, <2>6, <2>7, <2>9, <2>22, OutcomeCases, TaintCases
    <3>2. \A u \in V : u = Finite \/ u \in CombinedSets(outs)
      BY <3>1
    <3> QED BY <2>11, <3>1, <3>2, HeldFacts DEF AllCovered, Covered
  <2> QED BY <2>1, <2>12, <2>13, <2>14, <2>15, <2>16, <2>17, <2>18, <2>19, <2>20, <2>21, <2>22 DEF Op
<1>6. 1..n \subseteq P
  <2> HIDE DEF P
  <2> QED BY <1>5, Upward
<1> QED BY <1>1, <1>2, <1>4, <1>6
-----------------------------------------------------------------------------
(* Which statement of those before k a name or a cell was last written by. *)
LastTarget(p, j, k, n) ==
  /\ p[j].target = n
  /\ \A i \in j + 1..k - 1 : p[i].target # n

LEMMA EnvLast ==
  ASSUME NEW p \in Scripts, NEW a \in Answer, NEW k \in 1..Len(p) + 1, NEW n
  PROVE  /\ n \in DOMAIN EnvAt(p, a)[k] <=> \E j \in 1..k - 1 : p[j].target = n
         /\ \A j \in 1..k - 1 : LastTarget(p, j, k, n) => EnvAt(p, a)[k][n] = TaintIn(p, a, j)
<1> DEFINE P == {m \in Nat : /\ n \in DOMAIN EnvAt(p, a)[m] <=> \E j \in 1..m - 1 : p[j].target = n
                             /\ \A j \in 1..m - 1 : LastTarget(p, j, m, n) =>
                                  EnvAt(p, a)[m][n] = TaintIn(p, a, j)}
<1>1. PICK l \in Nat : l = Len(p) + 1 /\ Len(p) \in Nat /\ DOMAIN p = 1..Len(p)
  BY StatementParts
<1>2. ASSUME NEW m \in 1..l, \A j \in 1..m - 1 : j \in P PROVE m \in P
  <2>1. CASE m = 1
    <3>1. DOMAIN EnvAt(p, a)[m] = {} /\ 1..m - 1 = {}
      BY <2>1, EnvFacts, NoNamesTyped
    <3> QED BY <3>1
  <2>2. CASE m # 1
    <3>1. PICK q : q = m - 1
      OBVIOUS
    <3>2. q \in DOMAIN p /\ q \in 1..m - 1 /\ m = q + 1
      BY <1>1, <2>2, <3>1
    <3>3. PICK f : f = EnvAt(p, a)[q]
      OBVIOUS
    <3>4. PICK g : g = EnvAt(p, a)[m]
      OBVIOUS
    <3>5. g = With(f, p[q].target, TaintIn(p, a, q))
      BY <3>2, <3>3, <3>4, EnvFacts
    <3>6. /\ n \in DOMAIN f <=> \E j \in 1..q - 1 : p[j].target = n
          /\ \A j \in 1..q - 1 : LastTarget(p, j, q, n) => f[n] = TaintIn(p, a, j)
      BY <1>2, <3>2, <3>3
    <3>7. 1..m - 1 = 1..q - 1 \cup {q}
      BY <3>2
    <3>8. n \in DOMAIN g <=> \E j \in 1..m - 1 : p[j].target = n
      BY <3>5, <3>6, <3>7 DEF With
    <3>9. ASSUME NEW j \in 1..m - 1, LastTarget(p, j, m, n)
          PROVE  g[n] = TaintIn(p, a, j)
      <4>1. CASE j = q
        BY <3>5, <3>9, <4>1 DEF With, LastTarget
      <4>2. CASE j # q
        <5>1. j \in 1..q - 1 /\ q \in j + 1..m - 1
          BY <3>2, <4>2
        <5>2. p[q].target # n /\ LastTarget(p, j, q, n)
          <6>1. \A i \in j + 1..q - 1 : i \in j + 1..m - 1
            BY <3>2
          <6> QED BY <3>9, <5>1, <6>1 DEF LastTarget
        <5>3. n \in DOMAIN f /\ f[n] = TaintIn(p, a, j)
          BY <3>6, <5>1, <5>2 DEF LastTarget
        <5> QED BY <3>5, <5>2, <5>3 DEF With
      <4> QED BY <4>1, <4>2
    <3> QED BY <3>4, <3>8, <3>9
  <2> QED BY <2>1, <2>2
<1>3. 1..l \subseteq P
  <2> HIDE DEF P
  <2> QED BY <1>2, Upward
<1>4. k \in P
  <2> HIDE DEF P
  <2> QED BY <1>1, <1>3
<1> QED BY <1>4

(* Of the positions of a set that has one up to n there is a last.         *)
LEMMA Latest ==
  ASSUME NEW n \in Nat, NEW P, NEW m \in 1..n, m \in P
  PROVE  \E j \in 1..n : j \in P /\ \A i \in j + 1..n : i \notin P
<1> DEFINE T == {d \in 0..n - 1 : n - d \in P}
<1>1. T \subseteq Nat
  OBVIOUS
<1>2. n - m \in 0..n - 1 /\ n - (n - m) = m
  OBVIOUS
<1>3. T # {}
  BY <1>2
<1>4. PICK d \in T : \A x \in T : d <= x
  <2> HIDE DEF T
  <2> QED BY <1>1, <1>3, Least
<1>5. n - d \in 1..n /\ n - d \in P
  OBVIOUS
<1>6. ASSUME NEW i \in (n - d) + 1..n, i \in P PROVE FALSE
  <2>1. n - i \in 0..n - 1 /\ n - (n - i) = i /\ n - i < d
    OBVIOUS
  <2>2. n - i \in T
    BY <1>6, <2>1
  <2> QED BY <1>4, <2>1, <2>2
<1> QED BY <1>5, <1>6

(* A cell that some statement before k writes has a last one that does.    *)
LEMMA LastWriteExists ==
  ASSUME NEW p, NEW k \in Nat \ {0}, NEW x, NEW m \in 1..k - 1, CellOf(p[m].target) = x
  PROVE  \E j \in 1..k - 1 : LastWrite(p, j, k, x)
<1>1. PICK n \in Nat : n = k - 1
  OBVIOUS
<1> DEFINE P == {j \in 1..n : CellOf(p[j].target) = x}
<1>2. m \in 1..n /\ m \in P
  BY <1>1
<1>3. PICK j \in 1..n : j \in P /\ \A i \in j + 1..n : i \notin P
  <2> HIDE DEF P
  <2> QED BY <1>2, Latest
<1>4. \A i \in j + 1..n : i \in 1..n
  OBVIOUS
<1> QED BY <1>1, <1>3, <1>4 DEF LastWrite
-----------------------------------------------------------------------------
(* What the cells hold before statement k of the tick.                     *)
ChannelsCovered(cells, a) ==
  \A c \in Channel : IsBad(cells[c]) =>
    a[c] # "clean" /\ (cells[c].latched => a[c] = "latched")

CellsCovered(p, a, taken, k, cells) ==
  \A x \in Cell :
    /\ \A j \in 1..k - 1 : LastWrite(p, j, k, x) /\ p[j].arm \in {"always", taken} =>
         /\ Covered(cells[x], TaintIn(p, a, j))
         /\ "source" \in p[j].anns => ~cells[x].latched
    /\ x \notin Channel /\ (\A j \in 1..k - 1 : CellOf(p[j].target) # x) => cells[x] = Finite

LEMMA ReadCovered ==
  ASSUME NEW p \in Scripts, NEW a \in Answer, NEW k \in DOMAIN p, NEW taken,
         p[k].arm \in {"always", taken}, NEW cells \in [Cell -> Held],
         ChannelsCovered(cells, a), CellsCovered(p, a, taken, k, cells),
         NEW n \in Name, FollowsName(p, k, n)
  PROVE  Covered(cells[CellOf(n)], NameTaint(Context(p, a), EnvAt(p, a)[k], n))
<1>1. PICK x \in Cell : x = CellOf(n)
  BY CellOfTyped
<1>0. PICK ctx : ctx = Context(p, a)
  OBVIOUS
<1>2. /\ ctx = Context(p, a) /\ ctx.sources = Sources(p)
      /\ ctx.channels = a /\ ctx.channels \in Answer
  BY <1>0 DEF Context
<1>3. PICK known : known = EnvAt(p, a)[k]
  OBVIOUS
<1>4. k \in Nat \ {0} /\ k \in 1..Len(p) + 1
  BY StatementParts
<1>5. CASE \E m \in 1..k - 1 : CellOf(p[m].target) = x
  <2>1. PICK j \in 1..k - 1 : LastWrite(p, j, k, x)
    BY <1>4, <1>5, LastWriteExists
  <2>2. /\ p[j].target = n /\ p[j].arm \in {"always", p[k].arm}
        /\ n \in Sources(p) => "source" \in p[j].anns
    BY <1>1, <2>1 DEF FollowsName
  <2>3. /\ Covered(cells[x], TaintIn(p, a, j))
        /\ "source" \in p[j].anns => ~cells[x].latched
    BY <2>1, <2>2 DEF CellsCovered
  <2>4. CASE n \in Sources(p)
    <3>1. NameTaint(ctx, known, n) = Source
      BY <1>2, <2>4 DEF NameTaint
    <3> QED BY <1>1, <1>2, <1>3, <2>2, <2>3, <2>4, <3>1, ConstantTaints DEF Covered
  <2>5. CASE n \notin Sources(p)
    <3>1. LastTarget(p, j, k, n)
      BY <1>1, <2>1, <2>2 DEF LastWrite, LastTarget
    <3>2. n \in DOMAIN known /\ known[n] = TaintIn(p, a, j)
      BY <1>3, <1>4, <2>2, <3>1, EnvLast
    <3>3. NameTaint(ctx, known, n) = known[n]
      BY <1>2, <2>5, <3>2 DEF NameTaint
    <3> QED BY <1>1, <1>2, <1>3, <2>3, <3>2, <3>3
  <2> QED BY <2>4, <2>5
<1>6. CASE \A m \in 1..k - 1 : CellOf(p[m].target) # x
  <2>1. n \notin Sources(p) /\ Canonical(n) = Resolves[n]
    BY <1>1, <1>6 DEF FollowsName
  <2>2. n \notin DOMAIN known
    <3>1. \A m \in 1..k - 1 : p[m].target # n
      BY <1>1, <1>6
    <3> QED BY <1>3, <1>4, <3>1, EnvLast
  <2>3. CASE Resolves[n] = NoSymbol
    <3>1. x = n /\ n \notin Channel
      BY <1>1, <2>1, <2>3, NamesAssumption DEF CellOf
    <3>2. cells[x] = Finite
      BY <1>6, <3>1 DEF CellsCovered
    <3> QED BY <1>1, <3>2, HeldFacts DEF Covered
  <2>4. CASE Resolves[n] # NoSymbol
    <3>1. PICK c \in Channel : c = Resolves[n]
      BY <2>4, NamesAssumption
    <3>2. x = c
      BY <1>1, <2>1, <2>4, <3>1 DEF CellOf
    <3>3. PICK r : r = ReadTaint(ctx, c)
      OBVIOUS
    <3>4. /\ r \in SaneTaint /\ ~r.sanitised
          /\ r.invalid <=> a[c] # "clean"
          /\ r.latched <=> a[c] = "latched"
      <4>1. /\ r \in SaneTaint /\ ~r.sanitised
            /\ r.invalid = (ctx.channels[c] # "clean")
            /\ r.latched = (ctx.channels[c] = "latched")
        BY <1>2, <3>3, ReadTaintFacts
      <4> QED BY <1>2, <4>1
    <3>5. PICK t : t = NameTaint(ctx, known, n)
      OBVIOUS
    <3>6. t = WithEdge(r, c)
      BY <1>2, <2>1, <2>2, <2>4, <3>1, <3>3, <3>5 DEF NameTaint
    <3>7. t.invalid = r.invalid /\ t.latched = r.latched
      BY <3>4, <3>6, EdgeFacts
    <3>8. Covered(cells[c], t)
      BY <3>4, <3>7 DEF Covered, ChannelsCovered
    <3> QED BY <1>1, <1>2, <1>3, <3>2, <3>5, <3>8
  <2> QED BY <2>3, <2>4
<1> QED BY <1>5, <1>6

(* A statement that is executed computes a value its taint covers.         *)
LEMMA ComputedCovered ==
  ASSUME NEW p \in Scripts, Followed(p), NEW a \in Answer, NEW k \in DOMAIN p, NEW taken,
         p[k].arm \in {"always", taken}, NEW cells \in [Cell -> Held],
         ChannelsCovered(cells, a), CellsCovered(p, a, taken, k, cells)
  PROVE  /\ AllCovered(Computed(p[k], cells), TaintIn(p, a, k))
         /\ "source" \in p[k].anns => \A v \in Computed(p[k], cells) : ~v.latched
<1>1. PICK s : s = p[k]
  OBVIOUS
<1>0. PICK ctx : ctx = Context(p, a)
  OBVIOUS
<1>2. /\ ctx = Context(p, a) /\ ctx.sources = Sources(p)
      /\ ctx.channels = a /\ ctx.channels \in Answer
  BY <1>0 DEF Context
<1>3. PICK known : known = EnvAt(p, a)[k]
  OBVIOUS
<1>4. PICK t : t = TaintIn(p, a, k)
  OBVIOUS
<1>5. t = StatementTaint(s, ctx, known)
  BY <1>1, <1>2, <1>3, <1>4 DEF TaintIn
<1>6. CASE "sanitizes" \in s.anns
  <2>1. Computed(s, cells) = {Finite}
    BY <1>6 DEF Computed
  <2> QED BY <1>1, <2>1, HeldFacts DEF AllCovered, Covered
<1>7. CASE "sanitizes" \notin s.anns /\ "source" \in s.anns
  <2>1. Computed(s, cells) = {Finite} \cup Bad /\ t = Source
    BY <1>5, <1>7 DEF Computed, StatementTaint
  <2> QED BY <1>1, <1>4, <2>1, HeldFacts, ConstantTaints DEF AllCovered, Covered
<1>8. CASE "sanitizes" \notin s.anns /\ "source" \notin s.anns
  <2>1. PICK e : e = s.value
    OBVIOUS
  <2>2. /\ ~s.compound /\ ValueExpr(s) = e
        /\ \A n \in ReadsOf(s) : FollowsName(p, k, n)
    BY <1>1, <1>8, <2>1 DEF Followed, Vouched
  <2>3. Expression(e) /\ TypedWalk(ctx, known)
    <3>1. known \in Envs
      BY <1>3, EnvFacts, StatementParts
    <3> QED BY <1>1, <1>2, <2>1, <3>1, EnvsFacts, StatementParts DEF TypedWalk
  <2>4. Computed(s, cells) = Outcomes(e, cells)
    BY <1>8, <2>1, <2>2 DEF Computed
  <2>5. CASE e = Nothing
    BY <1>1, <1>8, <2>4, <2>5, HeldFacts DEF Outcomes, AllCovered, Covered
  <2>6. CASE e # Nothing
    <3>1. Len(e) \in DOMAIN e
      BY <2>3, <2>6, Whole
    <3>2. ASSUME NEW i \in DOMAIN e, e[i].op = "read"
          PROVE  Covered(cells[CellOf(e[i].name)], NameTaint(ctx, known, e[i].name))
      <4>1. e[i].name \in ReadsOf(s) /\ e[i].name \in Name
        BY <2>1, <2>3, <3>2, Parts DEF ReadsOf, ToSet
      <4> QED BY <1>2, <1>3, <2>2, <4>1, ReadCovered
    <3>3. ASSUME NEW c \in Channel PROVE Covered(cells[c], ReadTaint(ctx, c))
      <4>1. /\ ReadTaint(ctx, c).invalid <=> a[c] # "clean"
            /\ ReadTaint(ctx, c).latched <=> a[c] = "latched"
        <5>1. /\ ReadTaint(ctx, c).invalid = (ctx.channels[c] # "clean")
              /\ ReadTaint(ctx, c).latched = (ctx.channels[c] = "latched")
          BY <1>2, ReadTaintFacts
        <5> QED BY <1>2, <5>1
      <4> QED BY <4>1 DEF Covered, ChannelsCovered
    <3>4. AllCovered(OutcomesOf(e, cells)[Len(e)], TaintsOf(e, ctx, known)[Len(e)])
      BY <2>3, <3>1, <3>2, <3>3, OutcomesCovered DEF Followed
    <3>5. t = TaintsOf(e, ctx, known)[Len(e)]
      BY <1>5, <1>8, <2>2, <2>6 DEF StatementTaint, ExprTaint
    <3>6. Computed(s, cells) = OutcomesOf(e, cells)[Len(e)]
      BY <2>4, <2>6 DEF Outcomes
    <3> QED BY <1>1, <1>4, <1>8, <3>4, <3>5, <3>6
  <2> QED BY <2>5, <2>6
<1> QED BY <1>6, <1>7, <1>8
-----------------------------------------------------------------------------
(* What has been reported: every sink whose taint is invalid, up to the    *)
(* statement the walk has come to, unless the walk was skipped.            *)
Reported(p, a, k) == Diagnostics(p[k], k, TaintIn(p, a, k)) \subseteq reports

ReportInv ==
  /\ phase = "report" => \A k \in 1..pc - 1 : Reported(script, seeded, k)
  /\ phase \in {"run", "done"} =>
       CanSkip \/ \A k \in DOMAIN script : Reported(script, seeded, k)

(* Each statement walked has its diagnostics among the reports.            *)
LEMMA ReportStep == TypeInv /\ WalkInv /\ ReportInv /\ [Next]_vars => ReportInv'
<1> SUFFICES ASSUME TypeInv, WalkInv, ReportInv, [Next]_vars PROVE ReportInv'
  OBVIOUS
<1>0. /\ script \in Scripts /\ Len(script) \in Nat /\ DOMAIN script = 1..Len(script)
      /\ pc \in 1..Len(script) + 1
  BY StatementParts DEF TypeInv
<1>1. CASE Walk
  <2>1. /\ pc \in DOMAIN script /\ script' = script /\ phase' = phase /\ seeded' = seeded
        /\ pc' = pc + 1 /\ phase \in {"summarise", "report"}
    BY <1>0, <1>1 DEF Walk
  <2>2. ASSUME phase = "report", NEW k \in 1..pc' - 1
        PROVE  Diagnostics(script[k], k, TaintIn(script, seeded, k)) \subseteq reports'
    <3>1. reports' = reports \cup Diagnostics(script[pc], pc, TaintIn(script, seeded, pc))
      BY <1>1, <2>2 DEF Walk, WalkInv, TaintIn
    <3>2. k = pc \/ k \in 1..pc - 1
      BY <1>0, <2>1, <2>2
    <3> QED BY <2>2, <3>1, <3>2 DEF ReportInv, Reported
  <2> QED BY <2>1, <2>2 DEF ReportInv, Reported
<1>2. CASE Solve
  <2>1. phase' = "report" /\ pc' = 1
    BY <1>2 DEF Solve
  <2>2. 1..pc' - 1 = {}
    BY <2>1
  <2> QED BY <2>1, <2>2 DEF ReportInv
<1>3. CASE StartTick
  <2>1. /\ phase = "report" /\ phase' = "run" /\ (CanSkip \/ pc > Len(script))
        /\ script' = script /\ seeded' = seeded /\ reports' = reports
    BY <1>3 DEF StartTick
  <2>2. CanSkip \/ \A k \in DOMAIN script : Reported(script, seeded, k)
    BY <1>0, <2>1 DEF ReportInv
  <2> QED BY <2>1, <2>2 DEF ReportInv, Reported, CanSkip, ContainsInvalidSource
<1>4. CASE Execute \/ SkipArm \/ EndTick
  <2>1. /\ phase = "run" /\ phase' \in {"run", "done"}
        /\ script' = script /\ seeded' = seeded /\ reports' = reports
    BY <1>4 DEF Execute, SkipArm, EndTick
  <2> QED BY <2>1 DEF ReportInv, Reported, CanSkip, ContainsInvalidSource
<1>5. CASE UNCHANGED vars
  BY <1>5 DEF vars, ReportInv, Reported, CanSkip, ContainsInvalidSource
<1> QED BY <1>1, <1>2, <1>3, <1>4, <1>5 DEF Next, Done
-----------------------------------------------------------------------------
(* The invariant of the tick: of a script the walk follows every cell is   *)
(* covered by the answer and by the taint of its last write, and every     *)
(* sink reached so far was reported.                                       *)
CoverInv ==
  /\ phase \in {"summarise", "report"} => store = [x \in Cell |-> Finite] /\ reached = {}
  /\ Followed(script) /\ KeepsLatches(script) =>
       /\ store \in [Cell -> Held]
       /\ ChannelsCovered(store, seeded)
       /\ phase = "run" => CellsCovered(script, seeded, arm, pc, store)
       /\ SinksReported

(* What a channel may hold when the tick starts is covered by the answer.  *)
LEMMA AllowedCovered ==
  ASSUME NEW c \in Channel, NEW v \in Allowed(c)
  PROVE  /\ v \in Held
         /\ IsBad(v) => seeded[c] # "clean" /\ (v.latched => seeded[c] = "latched")
<1>1. CASE c \in Integers \/ seeded[c] = "clean"
  BY <1>1, HeldFacts DEF Allowed
<1>2. CASE ~(c \in Integers \/ seeded[c] = "clean")
  <2>1. CASE v \in {Finite} \cup Bad
    BY <1>2, <2>1, HeldFacts
  <2>2. CASE v \notin {Finite} \cup Bad
    <3>1. PICK u \in Bad : seeded[c] = "latched" /\ v = [u EXCEPT !.latched = TRUE]
      BY <1>2, <2>2 DEF Allowed
    <3>2. v \in [bad : NonFinite, latched : BOOLEAN]
      BY <3>1 DEF Bad
    <3> QED BY <1>2, <3>1, <3>2 DEF Held
  <2> QED BY <2>1, <2>2
<1> QED BY <1>1, <1>2

(* A bad value for a channel that a statement writes is one the answer     *)
(* taints: the write is in the summary, and the walks agree on it.         *)
LEMMA WriteCovered ==
  ASSUME TypeInv, WalkInv, phase # "summarise", KeepsLatches(script), NEW k \in DOMAIN script,
         NEW c \in Channel, Canonical(script[k].target) = c,
         NEW v, Covered(v, TaintIn(script, seeded, k)), IsBad(v)
  PROVE  seeded[c] # "clean" /\ (v.latched => seeded[c] = "latched")
<1>1. /\ script \in Scripts /\ Len(script) \in Nat /\ DOMAIN script = 1..Len(script)
      /\ seeded \in Answer
  BY StatementParts DEF TypeInv
<1>2. Writes(script, k)
  BY <1>1, StatementParts, NamesAssumption DEF Writes
<1>3. PICK w : w = Entry(script, k)
  OBVIOUS
<1>4. w \in ToSet(writes)
  BY <1>1, <1>2, <1>3 DEF WalkInv, Walked
<1>5. w.channel = c /\ w.taint = TaintIn(script, Unsolved, k)
  BY <1>3 DEF Entry
<1>6. Agrees(w.taint, TaintIn(script, seeded, k), seeded)
  BY <1>1, <1>5, AgreesIn
<1>7. Gives(w, seeded) /\ (v.latched => GivesLatched(w, seeded))
  BY <1>6, GivesIs DEF Agrees, Covered
<1> QED BY <1>4, <1>5, <1>7 DEF WalkInv, Answers

LEMMA CoverInit == Init => CoverInv
<1> SUFFICES ASSUME Init PROVE CoverInv
  OBVIOUS
<1>1. store = [x \in Cell |-> Finite] /\ reached = {} /\ phase = "summarise"
  BY DEF Init
<1>2. store \in [Cell -> Held]
  BY <1>1, HeldFacts
<1>3. ChannelsCovered(store, seeded)
  BY <1>1, HeldFacts DEF ChannelsCovered, Cell
<1> QED BY <1>1, <1>2, <1>3 DEF CoverInv, SinksReported

(* A statement of the tick leaves covered cells behind, and feeds only     *)
(* sinks that were reported.                                               *)
LEMMA ExecuteCovers ==
  ASSUME TypeInv, WalkInv, ReportInv, CoverInv, Execute,
         Followed(script), KeepsLatches(script)
  PROVE  /\ store' \in [Cell -> Held]
         /\ ChannelsCovered(store', seeded)
         /\ CellsCovered(script, seeded, arm, pc + 1, store')
         /\ SinksReported'
<1>1. PICK k : k = pc
  OBVIOUS
<1>2. PICK s : s = script[k]
  OBVIOUS
<1>3. /\ script \in Scripts /\ Len(script) \in Nat /\ DOMAIN script = 1..Len(script)
      /\ k \in DOMAIN script /\ seeded \in Answer /\ phase = "run"
      /\ s.arm \in {"always", arm}
  BY <1>1, <1>2, StatementParts DEF TypeInv, Execute
<1>4. /\ store \in [Cell -> Held] /\ ChannelsCovered(store, seeded)
      /\ CellsCovered(script, seeded, arm, k, store) /\ SinksReported
  BY <1>1, <1>3 DEF CoverInv
<1>5. PICK v \in Computed(s, store) :
        /\ store' = [store EXCEPT ![CellOf(s.target)] = Stored(s, v)]
        /\ reached' = IF IsBad(v)
                      THEN reached \cup {[code |-> code, at |-> k, latched |-> v.latched] :
                                           code \in SinkCodes(s)}
                      ELSE reached
  BY <1>1, <1>2 DEF Execute
<1>6. PICK t : t = TaintIn(script, seeded, k)
  OBVIOUS
<1>7. v \in Held /\ Covered(v, t) /\ ("source" \in s.anns => ~v.latched)
  BY <1>2, <1>3, <1>4, <1>5, <1>6, ComputedCovered DEF AllCovered
<1>8. PICK x : x = CellOf(s.target)
  OBVIOUS
<1>9. x \in Cell /\ s.target \in Name /\ Canonical(s.target) \in Channel \cup {NoSymbol}
  BY <1>2, <1>3, <1>8, CellOfTyped, StatementParts
<1>10. PICK u : u = Stored(s, v)
  OBVIOUS
<1>11. u \in Held /\ Covered(u, t) /\ ("source" \in s.anns => ~u.latched) /\ (u = v \/ u = Finite)
  BY <1>7, <1>10, HeldFacts DEF Stored, Covered
<1>12. /\ store' \in [Cell -> Held] /\ store'[x] = u
       /\ \A y \in Cell : y # x => store'[y] = store[y]
  BY <1>4, <1>5, <1>8, <1>9, <1>10, <1>11
<1>13. ChannelsCovered(store', seeded)
  <2>1. ASSUME x \in Channel, IsBad(u)
        PROVE  seeded[x] # "clean" /\ (u.latched => seeded[x] = "latched")
    <3>1. Canonical(s.target) = x
      BY <1>8, <1>9, <2>1, NamesAssumption DEF CellOf
    <3> QED BY <1>2, <1>3, <1>6, <1>11, <2>1, <3>1, WriteCovered
  <2> QED BY <1>4, <1>12, <2>1 DEF ChannelsCovered, Cell
<1>14. CellsCovered(script, seeded, arm, pc + 1, store')
  <2> SUFFICES ASSUME NEW y \in Cell
               PROVE  /\ \A j \in 1..k : LastWrite(script, j, k + 1, y)
                                         /\ script[j].arm \in {"always", arm} =>
                           /\ Covered(store'[y], TaintIn(script, seeded, j))
                           /\ "source" \in script[j].anns => ~store'[y].latched
                      /\ y \notin Channel /\ (\A j \in 1..k : CellOf(script[j].target) # y) =>
                           store'[y] = Finite
    <3>1. (pc + 1) - 1 = k /\ pc + 1 = k + 1
      BY <1>1, <1>3
    <3> QED BY <3>1 DEF CellsCovered
  <2>1. \A j \in 1..k : j = k \/ j \in 1..k - 1
    BY <1>3
  <2>2. ASSUME NEW j \in 1..k, LastWrite(script, j, k + 1, y), script[j].arm \in {"always", arm}
        PROVE  /\ Covered(store'[y], TaintIn(script, seeded, j))
               /\ "source" \in script[j].anns => ~store'[y].latched
    <3>1. CASE j = k
      <4>1. y = x
        BY <1>2, <1>8, <2>2, <3>1 DEF LastWrite
      <4> QED BY <1>2, <1>6, <1>11, <1>12, <3>1, <4>1
    <3>2. CASE j # k
      <4>1. j \in 1..k - 1 /\ k \in j + 1..(k + 1) - 1
        BY <1>3, <2>2, <3>2
      <4>2. \A i \in j + 1..k - 1 : i \in j + 1..(k + 1) - 1
        BY <1>3, <4>1
      <4>3. y # x /\ LastWrite(script, j, k, y)
        BY <1>2, <1>8, <2>2, <4>1, <4>2 DEF LastWrite
      <4> QED BY <1>4, <1>12, <2>2, <4>1, <4>3 DEF CellsCovered
    <3> QED BY <3>1, <3>2
  <2>3. ASSUME y \notin Channel, \A j \in 1..k : CellOf(script[j].target) # y
        PROVE  store'[y] = Finite
    <3>1. k \in 1..k /\ \A j \in 1..k - 1 : j \in 1..k
      BY <1>3
    <3>2. y # x
      BY <1>2, <1>8, <2>3, <3>1
    <3> QED BY <1>4, <1>12, <2>3, <3>1, <3>2 DEF CellsCovered
  <2> QED BY <2>2, <2>3
<1>15. SinksReported'
  <2> SUFFICES ASSUME NEW m \in reached'
               PROVE  \E r \in reports : /\ r.at = m.at /\ r.code = m.code
                                         /\ m.latched /\ m.code = "T080" => r.severity = "error"
    <3>1. reports' = reports
      BY DEF Execute
    <3> QED BY <3>1 DEF SinksReported
  <2>1. CASE m \in reached
    BY <1>4, <2>1 DEF SinksReported
  <2>2. CASE m \notin reached
    <3>1. IsBad(v)
      BY <1>5, <2>2
    <3>2. PICK code \in SinkCodes(s) : m = [code |-> code, at |-> k, latched |-> v.latched]
      BY <1>5, <2>2, <3>1
    <3>3. m.code = code /\ m.at = k /\ m.latched = v.latched
      BY <3>2
    <3>4. t \in SaneTaint /\ t.invalid /\ (v.latched => t.latched)
      BY <1>3, <1>6, <1>7, <3>1, TaintInSane DEF Covered
    <3>5. ~t.sanitised
      BY <3>4, SaneParts DEF Sane
    <3>6. ~CanSkip
      <4> SUFFICES ASSUME CanSkip PROVE FALSE
        OBVIOUS
      <4>1. s.anns = {}
        BY <1>2, <1>3 DEF CanSkip
      <4>2. IntegerSink(s)
        BY <3>2, <4>1 DEF SinkCodes, AnnotatedSink
      <4>3. Resolves[s.target] \in Channel /\ s.target # "Out"
        BY <4>2, NamesAssumption DEF IntegerSink
      <4>4. PICK c \in Channel : c = Canonical(s.target)
        BY <4>3 DEF Canonical
      <4>5. seeded[c] # "clean"
        BY <1>2, <1>3, <1>6, <1>7, <3>1, <4>4, WriteCovered
      <4> QED BY <4>5 DEF CanSkip
    <3>7. Reported(script, seeded, k)
      BY <1>3, <3>6 DEF ReportInv
    <3>8. PICK r : r = [code |-> code, at |-> k, severity |-> Severity(s, t.latched)]
      OBVIOUS
    <3>9. r \in Diagnostics(s, k, t)
      BY <3>4, <3>5, <3>8 DEF Diagnostics
    <3>10. r \in reports
      BY <1>2, <1>6, <3>7, <3>9 DEF Reported
    <3>11. r.code = code /\ r.at = k /\ r.severity = Severity(s, t.latched)
      BY <3>8
    <3>12. v.latched /\ code = "T080" => Severity(s, t.latched) = "error"
      BY <3>2, <3>4 DEF Severity, SinkCodes
    <3> QED BY <3>3, <3>10, <3>11, <3>12
  <2> QED BY <2>1, <2>2
<1> QED BY <1>12, <1>13, <1>14, <1>15

LEMMA CoverStep == TypeInv /\ WalkInv /\ ReportInv /\ CoverInv /\ [Next]_vars => CoverInv'
<1> SUFFICES ASSUME TypeInv, WalkInv, ReportInv, CoverInv, [Next]_vars PROVE CoverInv'
  OBVIOUS
<1>0. /\ script \in Scripts /\ Len(script) \in Nat /\ DOMAIN script = 1..Len(script)
      /\ pc \in 1..Len(script) + 1
  BY StatementParts DEF TypeInv
<1>1. CASE Walk \/ Solve
  <2>1. /\ phase \in {"summarise", "report"} /\ phase' \in {"summarise", "report"}
        /\ store' = store /\ reached' = reached
    BY <1>1 DEF Walk, Solve
  <2>2. store = [x \in Cell |-> Finite] /\ reached = {}
    BY <2>1 DEF CoverInv
  <2>3. store' \in [Cell -> Held]
    BY <2>1, <2>2, HeldFacts
  <2>4. ChannelsCovered(store', seeded')
    BY <2>1, <2>2, HeldFacts DEF ChannelsCovered, Cell
  <2> QED BY <2>1, <2>2, <2>3, <2>4 DEF CoverInv, SinksReported
<1>2. CASE StartTick
  <2>1. /\ phase = "report" /\ phase' = "run" /\ pc' = 1 /\ script' = script
        /\ seeded' = seeded /\ reports' = reports /\ reached' = reached
    BY <1>2 DEF StartTick
  <2>2. store = [x \in Cell |-> Finite] /\ reached = {}
    BY <2>1 DEF CoverInv
  <2>3. PICK held \in [Channel -> Value] :
          /\ \A c \in Channel : held[c] \in Allowed(c)
          /\ store' = [x \in Cell |-> IF x \in Channel THEN held[x] ELSE store[x]]
    BY <1>2 DEF StartTick
  <2>4. \A c \in Channel : store'[c] = held[c]
    BY <2>3 DEF Cell
  <2>5. \A x \in Cell : x \notin Channel => store'[x] = Finite
    BY <2>2, <2>3
  <2>6. store' \in [Cell -> Held]
    <3>1. \A x \in Cell : store'[x] \in Held
      BY <2>3, <2>4, <2>5, AllowedCovered, HeldFacts
    <3> QED BY <2>3, <3>1
  <2>7. ChannelsCovered(store', seeded')
    BY <2>1, <2>3, <2>4, AllowedCovered DEF ChannelsCovered
  <2>8. CellsCovered(script', seeded', arm', pc', store')
    <3>1. 1..pc' - 1 = {}
      BY <2>1
    <3> QED BY <2>5, <3>1 DEF CellsCovered
  <2> QED BY <2>1, <2>2, <2>6, <2>7, <2>8 DEF CoverInv, SinksReported
<1>3. CASE Execute
  <2>1. /\ phase' = "run" /\ script' = script /\ seeded' = seeded /\ arm' = arm /\ pc' = pc + 1
    BY <1>3 DEF Execute
  <2>2. KeepsLatches(script') = KeepsLatches(script) /\ Followed(script') = Followed(script)
    BY <2>1
  <2> QED BY <1>3, <2>1, <2>2, ExecuteCovers DEF CoverInv
<1>4. CASE SkipArm
  <2>1. /\ phase = "run" /\ phase' = "run" /\ script' = script /\ seeded' = seeded /\ arm' = arm
        /\ pc' = pc + 1 /\ store' = store /\ reports' = reports /\ reached' = reached
        /\ pc \in DOMAIN script /\ script[pc].arm \notin {"always", arm}
    BY <1>0, <1>4 DEF SkipArm
  <2>2. ASSUME CellsCovered(script, seeded, arm, pc, store)
        PROVE  CellsCovered(script, seeded, arm, pc + 1, store)
    <3> SUFFICES ASSUME NEW y \in Cell
                 PROVE  /\ \A j \in 1..pc : LastWrite(script, j, pc + 1, y)
                                            /\ script[j].arm \in {"always", arm} =>
                             /\ Covered(store[y], TaintIn(script, seeded, j))
                             /\ "source" \in script[j].anns => ~store[y].latched
                        /\ y \notin Channel /\ (\A j \in 1..pc : CellOf(script[j].target) # y) =>
                             store[y] = Finite
      <4>1. (pc + 1) - 1 = pc
        BY <1>0
      <4> QED BY <4>1 DEF CellsCovered
    <3>1. ASSUME NEW j \in 1..pc, LastWrite(script, j, pc + 1, y),
                 script[j].arm \in {"always", arm}
          PROVE  j \in 1..pc - 1 /\ LastWrite(script, j, pc, y)
      <4>1. j \in 1..pc - 1
        BY <1>0, <2>1, <3>1
      <4>2. \A i \in j + 1..pc - 1 : i \in j + 1..(pc + 1) - 1
        BY <1>0, <4>1
      <4> QED BY <3>1, <4>1, <4>2 DEF LastWrite
    <3>2. \A j \in 1..pc - 1 : j \in 1..pc
      BY <1>0
    <3> QED BY <2>2, <3>1, <3>2 DEF CellsCovered
  <2> QED BY <2>1, <2>2 DEF CoverInv, SinksReported
<1>5. CASE EndTick
  BY <1>5 DEF EndTick, CoverInv, SinksReported
<1>6. CASE UNCHANGED vars
  BY <1>6 DEF vars, CoverInv, SinksReported
<1> QED BY <1>1, <1>2, <1>3, <1>4, <1>5, <1>6 DEF Next, Done

LEMMA CoverCorrect == Spec => [](TypeInv /\ WalkInv /\ ReportInv /\ CoverInv)
<1>1. Init => ReportInv
  BY DEF Init, ReportInv
<1> QED BY <1>1, TypeInit, TypeStep, WalkInit, WalkStep, ReportStep, CoverInit, CoverStep, PTL
        DEF Spec

(* Of a script whose data flow the walk follows, every sink the tick feeds *)
(* a non-finite value has been reported, and as an error if the value came *)
(* through the state of a filter.                                          *)
THEOREM SinksAreReported ==
  Spec => [](Followed(script) /\ KeepsLatches(script) => SinksReported)
<1>1. CoverInv => (Followed(script) /\ KeepsLatches(script) => SinksReported)
  BY DEF CoverInv
<1> QED BY <1>1, CoverCorrect, PTL

(* The solved answer covers what such a script leaves in the channels, so  *)
(* that it also holds for the next tick.                                   *)
THEOREM AnswerCovers ==
  Spec => [](Followed(script) /\ KeepsLatches(script) => AnswerCoversTick)
<1>1. CoverInv => (Followed(script) /\ KeepsLatches(script) => AnswerCoversTick)
  BY DEF CoverInv, ChannelsCovered, AnswerCoversTick
<1> QED BY <1>1, CoverCorrect, PTL
=============================================================================
