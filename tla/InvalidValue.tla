--------------------------- MODULE InvalidValue ---------------------------
(***************************************************************************)
(* src/invalid_value.rs: how one script is analysed for NaN/Inf (T080 and  *)
(* T081), and what the script then does on the ECU.                        *)
(*                                                                         *)
(* A script is walked twice.  The first walk, for the cross-script solver, *)
(* returns the script's write summary.  The solver's answer (any answer    *)
(* that is closed under this summary: the other scripts are left open)     *)
(* seeds the second walk, which reports.  The script then runs one tick on *)
(* real values, so that what was reported can be compared with what        *)
(* happens.                                                                *)
(*                                                                         *)
(* An expression is the sequence of its nodes [op, args, name], each       *)
(* behind the nodes `args` it is made of, so that the last one is the      *)
(* whole; equal texts share a node.  `op` is the kind of node the walker   *)
(* tells apart, a call being named by the class its callee falls in.       *)
(* Provenance text is left out.                                            *)
(***************************************************************************)
EXTENDS Naturals, Sequences, SequencesExt

CONSTANTS
  Name,      \* names as scripts spell them, "Out" among them
  Dotted,    \* the names spelled with a dot, which are member expressions
  Channel,   \* canonical paths of project symbols
  Resolves,  \* [Name -> Channel \cup {NoSymbol}]: what a spelling resolves to
  NoSymbol,
  FnSymbol,  \* the function symbol the script backs, which `Out` writes
  Integers,  \* the channels of an integer type
  Scripts,   \* the scripts that may be analysed
  NonFinite  \* what a division by zero yields: a subset of {"nan", "inf"}

Annotation == {"sanitizes", "source", "requires-finite", "safety-critical"}

(* How many arguments a node has, where the analysis counts on it.         *)
Op == {"literal", "read", "compare", "paren", "not", "minus", "arith", "clamp",
       "IsNAN", "divide", "domain", "stateful", "ternary", "infinity", "NAN", "user"}
Arity(n) ==
  CASE n.op \in {"paren", "not", "minus"} -> Len(n.args) = 1
    [] n.op = "ternary" -> Len(n.args) = 3
    [] OTHER -> TRUE

Node == [op : Op, args : Seq(Nat \ {0}), name : Name]
Expression(e) ==
  /\ e \in Seq(Node)
  /\ \A i \in DOMAIN e :
       /\ Arity(e[i]) /\ \A k \in DOMAIN e[i].args : e[i].args[k] < i
       /\ e[i].op = "user" => Resolves[e[i].name] # NoSymbol

Statement ==
  [kind : {"local", "assign"}, target : Name, value : Seq(Node),
   anns : SUBSET Annotation, compound : BOOLEAN, arm : {"always", "then", "else"}]

(* The canonical symbol a name stands for when it is written.              *)
Canonical(n) == IF n = "Out" THEN FnSymbol ELSE Resolves[n]

(* `Out` is no symbol's name, and a name without a symbol is no symbol's   *)
(* path.                                                                   *)
ASSUME NamesAssumption ==
  /\ Resolves \in [Name -> Channel \cup {NoSymbol}] /\ NoSymbol \notin Channel
  /\ "Out" \in Name /\ Resolves["Out"] = NoSymbol /\ Dotted \subseteq Name
  /\ FnSymbol \in Channel \cup {NoSymbol} /\ Integers \subseteq Channel
  /\ \A n \in Name : Canonical(n) = NoSymbol => n \notin Channel

ASSUME ScriptsAssumption ==
  /\ NonFinite \subseteq {"nan", "inf"}
  /\ \A p \in Scripts :
       /\ p \in Seq(Statement)
       /\ \A i \in DOMAIN p :
            /\ Expression(p[i].value)
            /\ p[i].kind = "local" => Canonical(p[i].target) = NoSymbol

(* The empty initialiser of `local x;`.                                    *)
Nothing == <<>>

VARIABLES
  script,    \* the statements, in document order
  phase,     \* "summarise", "report", "run" or "done"
  pc,        \* the next statement of the phase
  env,       \* name as spelled -> taint
  writes,    \* the write summary
  seeded,    \* the solver's answer: channel -> "clean", "tainted", "latched"
  reports,   \* diagnostics
  arm,       \* the arm of the `if` the tick takes
  store,     \* the values of channels and locals during the tick
  reached    \* sinks the tick has fed a non-finite value

vars == <<script, phase, pc, env, writes, seeded, reports, arm, store, reached>>
-----------------------------------------------------------------------------
With(f, k, v) == [x \in DOMAIN f \cup {k} |-> IF x = k THEN v ELSE f[x]]

(* The taint of a value, and how operands' taints combine.                 *)
Deps  == UNION {[D -> BOOLEAN] : D \in SUBSET Channel}
Taint == [invalid : BOOLEAN, sanitised : BOOLEAN, latched : BOOLEAN,
          deps : Deps]

NoDeps      == [c \in {} |-> FALSE]
FiniteTaint == [invalid |-> FALSE, sanitised |-> FALSE, latched |-> FALSE,
                deps |-> NoDeps]
NoNames     == [n \in {} |-> FiniteTaint]
Source      == [FiniteTaint EXCEPT !.invalid = TRUE]
Cleared     == [FiniteTaint EXCEPT !.sanitised = TRUE]

JoinAll(taints) ==
  [invalid   |-> \E i \in DOMAIN taints : taints[i].invalid,
   sanitised |-> FALSE,
   latched   |-> \E i \in DOMAIN taints : taints[i].latched,
   deps      |-> [c \in UNION {DOMAIN taints[i].deps : i \in DOMAIN taints} |->
                    \E i \in DOMAIN taints :
                      c \in DOMAIN taints[i].deps /\ taints[i].deps[c]]]

Join(s, t) == JoinAll(<<s, t>>)

(* Inserting an edge with the flag false overwrites the one that is there. *)
WithEdge(t, c) == [t EXCEPT !.deps = With(@, c, FALSE)]

(* Ctx: the names declared @source or @external by any statement of the    *)
(* script, and what the solver has found out about each channel.           *)
Sources(p) == {p[i].target : i \in {j \in DOMAIN p : "source" \in p[j].anns}}
Context(p, channels) == [sources |-> Sources(p), channels |-> channels]
Unsolved == [c \in Channel |-> "clean"]

(* Mutant: a solved latch is not seeded.                                   *)
ReadTaintUnlatched(ctx, c) ==
  IF ctx.channels[c] = "clean" THEN FiniteTaint ELSE Source

ReadTaint(ctx, c) ==
  IF ctx.channels[c] = "clean" THEN FiniteTaint
  ELSE [Source EXCEPT !.latched = (ctx.channels[c] = "latched")]

(* Mutants: the edges of a filter's argument are not latched; a filter is  *)
(* taken to hold a NaN already.                                            *)
LatchValueOnly(t) == [t EXCEPT !.latched = @ \/ t.invalid]
LatchAlways(t)    == [t EXCEPT !.invalid = TRUE, !.latched = TRUE,
                               !.deps = [c \in DOMAIN @ |-> TRUE]]

Latch(t) == [t EXCEPT !.latched = @ \/ t.invalid,
                      !.deps = [c \in DOMAIN @ |-> TRUE]]

(* `isnan_guard`: the guarded argument of a possibly negated IsNAN call.   *)
GuardAt(e, guard, i) ==
  CASE e[i].op = "paren" -> guard[e[i].args[1]]
    [] e[i].op = "not"   -> [guard[e[i].args[1]] EXCEPT !.negated = ~@]
    [] e[i].op = "IsNAN" /\ Len(e[i].args) = 1 ->
         [found |-> TRUE, arg |-> e[i].args[1], negated |-> FALSE]
    [] OTHER             -> [found |-> FALSE, arg |-> i, negated |-> FALSE]
Guards(e) == LET guard[i \in DOMAIN e] == GuardAt(e, guard, i) IN guard

(* Of a guarded ternary at i: what is guarded, the branch that is taken    *)
(* when it is NaN and the one that is taken when it is not.                *)
Guard(e, i)     == Guards(e)[e[i].args[1]]
NanBranch(e, i) == IF Guard(e, i).negated THEN e[i].args[3] ELSE e[i].args[2]
OkBranch(e, i)  == IF Guard(e, i).negated THEN e[i].args[2] ELSE e[i].args[3]

NameTaint(ctx, known, n) ==
  CASE n \in ctx.sources -> Source
    [] n \in DOMAIN known \ ctx.sources -> known[n]
    [] n \notin DOMAIN known \cup ctx.sources ->
         IF Resolves[n] = NoSymbol THEN FiniteTaint
         ELSE WithEdge(ReadTaint(ctx, Resolves[n]), Resolves[n])

GuardedTaint(e, taint, i) ==
  Join(taint[NanBranch(e, i)],
       IF OkBranch(e, i) = Guard(e, i).arg THEN Cleared ELSE taint[OkBranch(e, i)])

TaintAt(e, ctx, known, taint, i) ==
  LET n      == e[i]
      args   == [k \in DOMAIN n.args |-> taint[n.args[k]]]
      joined == JoinAll(args)
  IN  CASE n.op \in {"literal", "compare"} -> FiniteTaint
        [] n.op = "read" -> NameTaint(ctx, known, n.name)
        [] n.op \in {"paren", "not", "minus"} -> args[1]
        [] n.op \in {"arith", "clamp", "IsNAN"} -> joined
        [] n.op \in {"divide", "domain"} -> [joined EXCEPT !.invalid = TRUE]
        [] n.op = "ternary" ->
             IF Guard(e, i).found THEN GuardedTaint(e, taint, i)
             ELSE Join(args[2], args[3])
        [] n.op \in {"infinity", "NAN"} -> Source
        [] n.op = "stateful" -> Latch(joined)
        [] n.op = "user" ->
             WithEdge(Join(joined, ReadTaint(ctx, Resolves[n.name])),
                      Resolves[n.name])

(* The taints of all nodes of an expression.                               *)
TaintsOf(e, ctx, known) ==
  LET taint[i \in DOMAIN e] == TaintAt(e, ctx, known, taint, i) IN taint
ExprTaint(e, ctx, known) == TaintsOf(e, ctx, known)[Len(e)]
-----------------------------------------------------------------------------
(* Statements.  A compound assignment (`x += e`) hands its right-hand side *)
(* to the walker alone; of a local's initialiser an identifier, which is a *)
(* name without a dot, is not taken for a value.                           *)
IsIdentifier(e) ==
  e # Nothing /\ e[Len(e)].op = "read" /\ e[Len(e)].name \notin Dotted
ValueExpr(s) ==
  IF s.kind = "local" /\ IsIdentifier(s.value) THEN Nothing ELSE s.value

StatementTaint(s, ctx, known) ==
  IF "sanitizes" \in s.anns THEN Cleared
  ELSE IF "source" \in s.anns THEN Source
  ELSE IF ValueExpr(s) = Nothing THEN FiniteTaint
  ELSE ExprTaint(ValueExpr(s), ctx, known)

AnnotatedSink(s) == s.anns \cap {"requires-finite", "safety-critical"} # {}

IntegerSink(s) ==
  /\ ~AnnotatedSink(s)
  /\ s.kind = "assign"
  /\ Resolves[s.target] \in Integers

SinkCodes(s) == {code \in {"T080", "T081"} :
                   IF code = "T080" THEN AnnotatedSink(s) ELSE IntegerSink(s)}

Severity(s, latched) ==
  IF AnnotatedSink(s) /\ (latched \/ "safety-critical" \in s.anns)
  THEN "error" ELSE "warning"

Diagnostics(s, k, t) ==
  IF t.invalid /\ ~t.sanitised
  THEN {[code |-> code, at |-> k, severity |-> Severity(s, t.latched)] :
          code \in SinkCodes(s)}
  ELSE {}

Summarised(s, t) ==
  IF s.kind = "assign" /\ Canonical(s.target) # NoSymbol
  THEN Append(writes, [at |-> pc, channel |-> Canonical(s.target), taint |-> t])
  ELSE writes

(* `can_skip`: nothing annotated, nothing seeded, and no division, domain  *)
(* call or Calculate.Infinity anywhere in the script.                      *)
ContainsInvalidSource ==
  \E i \in DOMAIN script : \E n \in ToSet(script[i].value) :
    n.op \in {"divide", "domain", "infinity"}

(* Mutant: a script with no source of its own is skipped even when the     *)
(* solver has tainted what it reads.                                       *)
CanSkipSeeded ==
  /\ \A i \in DOMAIN script : script[i].anns = {}
  /\ ~ContainsInvalidSource

CanSkip ==
  /\ \A i \in DOMAIN script : script[i].anns = {}
  /\ ~ContainsInvalidSource
  /\ \A c \in Channel : seeded[c] = "clean"
-----------------------------------------------------------------------------
(* The tick.  A value is finite, or a non-finite one that has or has not   *)
(* been through the state of a filter on its way.                          *)
Value  == [bad : {"no", "nan", "inf"}, latched : BOOLEAN]
Finite == [bad |-> "no", latched |-> FALSE]
Bad    == [bad : NonFinite, latched : {FALSE}]
IsBad(v) == v.bad # "no"

(* An explicit constant, finite if its kind is not being looked at.        *)
Explicit(kind) == IF kind \in NonFinite THEN {[bad |-> kind, latched |-> FALSE]}
                  ELSE {Finite}

Cell == Channel \cup Name
CellOf(n) == IF Canonical(n) = NoSymbol THEN n ELSE Canonical(n)

(* What arithmetic makes of some values: one of the non-finite ones.       *)
Combined(values) ==
  LET bad == {i \in DOMAIN values : IsBad(values[i])}
  IN  IF bad = {} THEN {Finite}
      ELSE {[bad |-> values[i].bad, latched |-> \E j \in bad : values[j].latched] : i \in bad}

CombinedSets(sets) ==
  UNION {Combined(values) :
           values \in {f \in [DOMAIN sets -> UNION Range(sets)] :
                         \A i \in DOMAIN sets : f[i] \in sets[i]}}

(* A guarded branch is evaluated to the value that was tested.             *)
GuardedOutcomes(e, outcome, i) ==
  LET tested == outcome[Guard(e, i).arg]
      nans   == {v \in tested : v.bad = "nan"}
      Branch(b, V) == IF V = {} THEN {} ELSE IF b = Guard(e, i).arg THEN V ELSE outcome[b]
  IN  Branch(NanBranch(e, i), nans) \cup Branch(OkBranch(e, i), tested \ nans)

(* The values a node may evaluate to, cells holding those of `cells`.  A   *)
(* clamp bounds an infinity but lets a NaN through.                        *)
OutcomesAt(e, cells, outcome, i) ==
  LET n      == e[i]
      outs   == [k \in DOMAIN n.args |-> outcome[n.args[k]]]
      joined == CombinedSets(outs)
  IN  CASE n.op \in {"literal", "compare", "IsNAN"} -> {Finite}
        [] n.op = "read" -> {cells[CellOf(n.name)]}
        [] n.op \in {"paren", "not", "minus", "arith"} -> joined
        [] n.op \in {"divide", "domain"} -> joined \cup Bad
        [] n.op = "ternary" ->
             IF Guard(e, i).found THEN GuardedOutcomes(e, outcome, i)
             ELSE outs[2] \cup outs[3]
        [] n.op = "infinity" -> Explicit("inf")
        [] n.op = "NAN" -> Explicit("nan")
        [] n.op = "stateful" -> {[v EXCEPT !.latched = IsBad(v)] : v \in joined}
        [] n.op = "user" -> joined \cup {cells[Resolves[n.name]]}
        [] n.op = "clamp" -> {IF v.bad = "inf" THEN Finite ELSE v : v \in joined}

OutcomesOf(e, cells) ==
  LET outcome[i \in DOMAIN e] == OutcomesAt(e, cells, outcome, i) IN outcome
Outcomes(e, cells) == IF e = Nothing THEN {Finite} ELSE OutcomesOf(e, cells)[Len(e)]

(* What a statement may store.  The author of @sanitizes vouches for the   *)
(* value; a @source may drop out; an integer channel keeps no NaN.         *)
Computed(s, cells) ==
  IF "sanitizes" \in s.anns THEN {Finite}
  ELSE IF "source" \in s.anns THEN {Finite} \cup Bad
  ELSE IF s.compound THEN CombinedSets(<<{cells[CellOf(s.target)]}, Outcomes(s.value, cells)>>)
  ELSE Outcomes(s.value, cells)

Stored(s, v) == IF Canonical(s.target) \in Integers THEN Finite ELSE v

(* The values a channel may hold, given the solver's answer.               *)
Allowed(c) ==
  CASE c \in Integers \/ seeded[c] = "clean" -> {Finite}
    [] OTHER -> {Finite} \cup Bad \cup
                {[v EXCEPT !.latched = TRUE] : v \in
                   {u \in Bad : seeded[c] = "latched"}}
-----------------------------------------------------------------------------
Init ==
  /\ script \in Scripts
  /\ phase = "summarise"
  /\ pc = 1
  /\ env = NoNames
  /\ writes = <<>>
  /\ seeded = Unsolved
  /\ reports = {}
  /\ arm = "none"
  /\ store = [x \in Cell |-> Finite]
  /\ reached = {}

(* `process`: one statement, in document order whatever block it is in.    *)
Walk ==
  LET s == script[pc]
      t == StatementTaint(s, Context(script, seeded), env)
  IN  /\ phase = "summarise" \/ (phase = "report" /\ ~CanSkip)
      /\ pc <= Len(script)
      /\ env' = With(env, s.target, t)
      /\ writes' = IF phase = "summarise" THEN Summarised(s, t) ELSE writes
      /\ reports' = IF phase = "report" THEN reports \cup Diagnostics(s, pc, t)
                    ELSE reports
      /\ pc' = pc + 1
      /\ UNCHANGED <<script, phase, seeded, arm, store, reached>>

(* The least a write gives its channel, once `answer` taints what it reads. *)
Gives(w, answer) ==
  \/ w.taint.invalid /\ ~w.taint.sanitised
  \/ \E d \in DOMAIN w.taint.deps : answer[d] # "clean"

GivesLatched(w, answer) ==
  \/ w.taint.invalid /\ ~w.taint.sanitised /\ w.taint.latched
  \/ \E d \in DOMAIN w.taint.deps :
       \/ answer[d] = "latched"
       \/ answer[d] = "tainted" /\ w.taint.deps[d]

Answers ==
  {answer \in [Channel -> {"clean", "tainted", "latched"}] :
     \A w \in ToSet(writes) :
       /\ Gives(w, answer) => answer[w.channel] # "clean"
       /\ GivesLatched(w, answer) => answer[w.channel] = "latched"}

(* CrossScript solves the project; the second walk starts afresh.          *)
Solve ==
  /\ phase = "summarise"
  /\ pc > Len(script)
  /\ seeded' \in Answers
  /\ phase' = "report"
  /\ pc' = 1
  /\ env' = NoNames
  /\ UNCHANGED <<script, writes, reports, arm, store, reached>>

(* The arms the tick may take, of the one `if` a script may have.          *)
Arms == LET named == {script[i].arm : i \in DOMAIN script} \ {"always"}
        IN  IF named = {} THEN {"none"} ELSE {"then", "else"}

(* The reporting walk is over, or was skipped; the ECU starts a tick.      *)
StartTick ==
  /\ phase = "report"
  /\ CanSkip \/ pc > Len(script)
  /\ phase' = "run"
  /\ pc' = 1
  /\ \E held \in [Channel -> Value] :
       /\ \A c \in Channel : held[c] \in Allowed(c)
       /\ store' = [x \in Cell |-> IF x \in Channel THEN held[x] ELSE store[x]]
  /\ arm' \in Arms
  /\ UNCHANGED <<script, env, writes, seeded, reports, reached>>

(* A statement of the arm taken (or of no arm) stores a value.             *)
Execute ==
  LET s == script[pc]
  IN  /\ phase = "run"
      /\ pc <= Len(script)
      /\ s.arm \in {"always", arm}
      /\ \E v \in Computed(s, store) :
           /\ store' = [store EXCEPT ![CellOf(s.target)] = Stored(s, v)]
           /\ reached' = IF IsBad(v)
                         THEN reached \cup
                              {[code |-> code, at |-> pc, latched |-> v.latched] :
                                 code \in SinkCodes(s)}
                         ELSE reached
      /\ pc' = pc + 1
      /\ UNCHANGED <<script, phase, env, writes, seeded, reports, arm>>

SkipArm ==
  /\ phase = "run"
  /\ pc <= Len(script)
  /\ script[pc].arm \notin {"always", arm}
  /\ pc' = pc + 1
  /\ UNCHANGED <<script, phase, env, writes, seeded, reports, arm, store, reached>>

EndTick ==
  /\ phase = "run"
  /\ pc > Len(script)
  /\ phase' = "done"
  /\ UNCHANGED <<script, pc, env, writes, seeded, reports, arm, store, reached>>

Done == phase = "done" /\ UNCHANGED vars

Next == Walk \/ Solve \/ StartTick \/ Execute \/ SkipArm \/ EndTick \/ Done

Spec == Init /\ [][Next]_vars
-----------------------------------------------------------------------------
(* "From each sink it walks the contributing expression/locals and flags   *)
(* an unsanitised path": whenever the tick feeds a sink a non-finite value *)
(* the walk, or the decision to skip it, has reported that very sink, as   *)
(* an error if the value came through the state of a filter.               *)
SinksReported ==
  \A x \in reached :
    \E r \in reports : /\ r.at = x.at /\ r.code = x.code
                       /\ x.latched /\ x.code = "T080" => r.severity = "error"

(* The write summary tells the solver enough: a channel the tick leaves    *)
(* non-finite is one the solved answer taints, and one it leaves latched   *)
(* is one the answer latches, so the answer also holds for the next tick.  *)
AnswerCoversTick ==
  \A c \in Channel : IsBad(store[c]) =>
    /\ seeded[c] # "clean"
    /\ store[c].latched => seeded[c] = "latched"

(* The two walks agree: seeded with an answer, the walker finds a written  *)
(* value invalid (or latched) exactly when the solver, which only sees the *)
(* summary of the first walk, would.                                       *)
PassesAgree ==
  phase = "report" =>
    \A w \in ToSet(writes) : w.at = pc - 1 =>
      LET t == env[script[w.at].target]
      IN  /\ (t.invalid /\ ~t.sanitised) = Gives(w, seeded)
          /\ (t.invalid /\ ~t.sanitised /\ t.latched) = GivesLatched(w, seeded)

(* "Zero-noise unless ...": a script with no source of its own that reads  *)
(* nothing the other scripts taint is never reported on.                   *)
HasSource(s) ==
  \/ "source" \in s.anns
  \/ \E n \in ToSet(s.value) : n.op \in {"divide", "domain", "infinity", "NAN"}

ReadBy(s) ==
  {Resolves[n.name] : n \in {x \in ToSet(s.value) : x.op \in {"read", "user"}}}
    \ {NoSymbol}

NoNoise ==
  reports # {} =>
    \E i \in DOMAIN script : \/ HasSource(script[i])
                             \/ \E c \in ReadBy(script[i]) : seeded[c] # "clean"
-----------------------------------------------------------------------------
(* Which scripts the walk, which takes one environment through the         *)
(* statements in document order, can speak for: the hypotheses of the      *)
(* theorems in InvalidValueProofs.                                         *)

(* What a walk knows before each statement, and what it makes of one.      *)
EnvStep(p, channels, before, k) ==
  IF k = 1 THEN NoNames
  ELSE With(before[k - 1], p[k - 1].target,
            StatementTaint(p[k - 1], Context(p, channels), before[k - 1]))
EnvAt(p, channels) ==
  LET before[k \in 1..Len(p) + 1] == EnvStep(p, channels, before, k) IN before
TaintIn(p, channels, k) ==
  StatementTaint(p[k], Context(p, channels), EnvAt(p, channels)[k])

(* No call to a project function finds a latched edge of its own symbol    *)
(* among those of its arguments: the call's own edge would overwrite it.   *)
Kept(e, taint) ==
  \A i \in {j \in DOMAIN e : e[j].op = "user"} : \A k \in DOMAIN e[i].args :
    LET deps == taint[e[i].args[k]].deps
    IN  Resolves[e[i].name] \in DOMAIN deps => ~deps[Resolves[e[i].name]]

KeepsLatches(p) ==
  \A k \in DOMAIN p :
    Kept(p[k].value,
         TaintsOf(p[k].value, Context(p, Unsolved), EnvAt(p, Unsolved)[k]))

(* The last statement before k that writes a cell.                         *)
LastWrite(p, j, k, x) ==
  /\ CellOf(p[j].target) = x
  /\ \A i \in j + 1..k - 1 : CellOf(p[i].target) # x

(* Scripts whose data flow the walk follows.  It goes through the          *)
(* statements once, in document order, by the names as spelled: what a     *)
(* name holds has to be what the statement it was last assigned by, under  *)
(* that very spelling and whichever arm is taken, has put there.           *)
Vouched(s) == s.anns \cap {"sanitizes", "source"} # {}

ReadsOf(s) == {n.name : n \in {m \in ToSet(s.value) : m.op = "read"}}

FollowsName(p, k, n) ==
  /\ \A j \in 1..k - 1 : LastWrite(p, j, k, CellOf(n)) =>
       /\ p[j].target = n
       /\ p[j].arm \in {"always", p[k].arm}
       /\ n \in Sources(p) => "source" \in p[j].anns
  /\ (\A j \in 1..k - 1 : CellOf(p[j].target) # CellOf(n)) =>
       n \notin Sources(p) /\ Canonical(n) = Resolves[n]

Followed(p) ==
  /\ NonFinite \subseteq {"nan"}
  /\ \A k \in DOMAIN p :
       \/ Vouched(p[k])
       \/ /\ ~p[k].compound
          /\ ValueExpr(p[k]) = p[k].value
          /\ \A n \in ReadsOf(p[k]) : FollowsName(p, k, n)
=============================================================================
