------------------------------- MODULE Typing -------------------------------
(***************************************************************************)
(* The types of expressions (types.rs, typer.rs), the return types that    *)
(* are inferred from the bodies of functions (project.rs), the rules that  *)
(* read nothing but types (rules/t002 ... t086) and the part of the        *)
(* completeness report that counts what they could not judge.              *)
(*                                                                         *)
(* A script is [name, fn, broken, deep, ast]: fn is the function it backs  *)
(* (<<>> for none), broken a syntax error and deep a nesting the analyses  *)
(* do not enter.  ast is the sequence of its nodes, each after the nodes   *)
(* under it, statements in document order; a node is                       *)
(*   [op, name, sign, kids, ann, marks, arms]                              *)
(* with kids the positions of the nodes under it.                          *)
(***************************************************************************)
EXTENDS Integers, FiniteSets, SequencesExt

CONSTANTS
  Library,  \* the methods of the firmware library -> sets of [returns, params]
  Objects,  \* the library objects, the first segment of those methods
  Projects, \* [symbols, enums, scripts]
  Edits,    \* scripts a caller may check in the place of one of the same name
  MaxRuns   \* bound: how often one project is checked

Texts == Edits \union UNION {Range(p.scripts) : p \in Projects}

Compound == {"+=", "-=", "*=", "/="}
CompoundBits == {"&=", "|=", "^=", "<<=", ">>="}
AssignSigns == {"=", "%="} \union Compound \union CompoundBits

\* The nodes under one, by the operator.
Arity(op) ==
  CASE op = "ternary" -> 3 [] op \in {"binary", "assign"} -> 2
    [] op \in {"paren", "unary", "when"} -> 1 [] OTHER -> 0

\* A project holds scripts of different names and symbols by their names, a node
\* stands behind those under it, and assignments have these signs.
ASSUME ProjectAssumption ==
  /\ \A p \in Projects :
       /\ p = [symbols |-> p.symbols, enums |-> p.enums, scripts |-> p.scripts]
       /\ p.scripts \in Seq(Texts) /\ IsFiniteSet(DOMAIN p.symbols)
       /\ IsInjective([j \in DOMAIN p.scripts |-> p.scripts[j].name])
  /\ \A text \in Texts :
       /\ Len(text.ast) \in Nat /\ DOMAIN text.ast = 1..Len(text.ast)
       /\ \A i \in DOMAIN text.ast :
            LET n == text.ast[i]
            IN  /\ n.kids \in Seq(1..i - 1) /\ Len(n.kids) >= Arity(n.op)
                /\ n.op = "assign" => n.sign \in AssignSigns

VARIABLES
  project,  \* the project and its scripts
  returns,  \* return_type of every function, None when there is none
  inferred, \* what the bodies typed so far give: function -> type
  phase,    \* "infer", "check" or "done"
  at,       \* the script that is next
  reported, \* the findings of the run
  tally,    \* the completeness report, NoTally when nobody asked
  runs,     \* the runs that have ended
  edited    \* a script was replaced since the project was loaded

vars == <<project, returns, inferred, phase, at, reported, tally, runs, edited>>

None == <<>>
Nothing == [x \in {} |-> None]
With(f, k, v) == [x \in DOMAIN f \union {k} |-> IF x = k THEN v ELSE f[x]]

-----------------------------------------------------------------------------
(* The type lattice. *)

Boolean == <<"Boolean">>
Integer == <<"Integer">>
Unsigned == <<"Unsigned">>
Float == <<"Float">>
String == <<"String">>
Unknown == <<"Unknown">>
EnumType(id) == <<"Enum", id>>

IsIntegral(t) == t \in {Integer, Unsigned}
IsNumeric(t) == t \in {Integer, Unsigned, Float}
IsEnum(t) == t[1] = "Enum"
IsKnown(t) == t # Unknown

\* The type of a number from the marks its text carries.
LiteralType(marks) ==
  CASE marks \intersect {"0x", "u"} # {} -> Unsigned
    [] marks \intersect {".", "e"} # {} /\ marks \intersect {"0x", "u"} = {} -> Float
    [] OTHER -> Integer

\* The widest of some numeric types: a float first, then an unsigned integer.
Widest(types) ==
  CHOOSE t \in types : \/ t = Float
                       \/ t = Unsigned /\ Float \notin types
                       \/ types = {Integer}

NumericJoin(a, b) == IF IsNumeric(a) /\ IsNumeric(b) THEN Widest({a, b}) ELSE Unknown

\* What a `local <Type>` annotation declares, None for a name it does not know.
DeclaredLocalType(ann) ==
  CASE ann \in {"boolean", "bool"} -> Boolean
    [] ann = "integer" -> Integer
    [] ann \in {"unsigned integer", "unsigned"} -> Unsigned
    [] ann \in {"floating point", "float"} -> Float
    [] ann = "string" -> String
    [] OTHER -> None

-----------------------------------------------------------------------------
(* Names and calls.  A scope is [locals, project, fn, returns]: project is   *)
(* whether the symbols are in view and fn the function the script backs.     *)

Parameters(p, scope) ==
  IF scope.project /\ scope.fn \in DOMAIN p.symbols
  THEN Range(p.symbols[scope.fn].params) ELSE {}

IsLocal(name, scope) == Len(name) = 1 /\ name[1] \in DOMAIN scope.locals
IsArgument(p, name, scope) ==
  name[1] = "In" /\ \E q \in Parameters(p, scope) : name = <<"In", q.name>>
IsSymbol(p, name, scope) ==
  /\ scope.project /\ name \in DOMAIN p.symbols
  /\ ~IsLocal(name, scope) /\ ~IsArgument(p, name, scope)
IsFunction(p, name, scope) == IsSymbol(p, name, scope) /\ p.symbols[name].kind = "Function"

LocalType(p, name, scope) ==
  IF IsLocal(name, scope) THEN scope.locals[name[1]]
  ELSE (CHOOSE q \in Parameters(p, scope) : name = <<"In", q.name>>).type

\* The enum a path `Type.Member` names a member of, 0 for none.
MemberOf(p, name) ==
  LET ids == {e \in DOMAIN p.enums : /\ Len(name) = 2 /\ name[1] = p.enums[e].name
                                     /\ name[2] \in p.enums[e].members}
  IN  IF ids = {} THEN 0 ELSE CHOOSE e \in ids : TRUE

NameType(p, name, scope) ==
  IF scope.project /\ MemberOf(p, name) # 0 THEN EnumType(MemberOf(p, name))
  ELSE CASE IsLocal(name, scope) \/ IsArgument(p, name, scope) -> LocalType(p, name, scope)
         [] IsSymbol(p, name, scope) -> p.symbols[name].vt
         [] OTHER -> Unknown

Either == "Integer|FloatingPoint"

\* Whether a known argument suits a parameter of the catalogue.
Suits(param, t) ==
  CASE param \in {"Integer", "UnsignedInteger"} -> IsIntegral(t)
    [] param \in {"FloatingPoint", "FixedPoint7dps", Either} -> IsNumeric(t)
    [] param = "Boolean" -> t = Boolean
    [] param = "String" -> t = String
    [] OTHER -> TRUE

\* All the parameters that may be either are of one family.
OverloadAccepts(ov, args) ==
  LET Known == {i \in DOMAIN args : IsKnown(args[i])}
  IN  /\ Len(ov.params) = Len(args)
      /\ \A i \in Known : Suits(ov.params[i], args[i])
      /\ \A i, j \in {k \in Known : ov.params[k] = Either} :
           (args[i] = Float) = (args[j] = Float)

\* The value type of a declared `returns`; what may be either follows the
\* arguments of a numeric type.
ReturnsToType(ret, args) ==
  LET numeric == {t \in Range(args) : IsNumeric(t)}
  IN  CASE ret \in {"FloatingPoint", "FixedPoint7dps"} -> Float
        [] ret = "Integer" -> Integer
        [] ret = "UnsignedInteger" -> Unsigned
        [] ret = "Boolean" -> Boolean
        [] ret = "String" -> String
        [] ret = Either /\ numeric # {} -> Widest(numeric)
        [] OTHER -> Unknown

CallType(p, name, args, scope) ==
  IF name \in DOMAIN Library
  THEN LET types == {ReturnsToType(ov.returns, args) :
                       ov \in {o \in Library[name] : OverloadAccepts(o, args)}}
       IN  IF Cardinality(types) = 1 THEN CHOOSE t \in types : TRUE ELSE Unknown
  ELSE IF IsFunction(p, name, scope) /\ scope.returns[name] # None
       THEN scope.returns[name] ELSE Unknown

Equality == {"==", "!="}
Ordering == {"<", ">", "<=", ">="}
Arithmetic == {"+", "-", "*", "/", "%"}
Bitwise == {"&", "|", "^", "<<", ">>"}

BinaryType(sign, l, r) ==
  CASE sign \in Equality \union Ordering \union {"and", "or"} -> Boolean
    [] sign \in Arithmetic -> NumericJoin(l, r)
    [] sign \in Bitwise -> l
    [] OTHER -> Unknown

\* type_of, for every node of a script at once.
TypesOf(p, ast, scope) ==
  LET type[i \in DOMAIN ast] ==
        LET n == ast[i]
            kid(k) == type[n.kids[k]]
        IN  CASE n.op = "number" -> LiteralType(n.marks)
              [] n.op = "boolean" -> Boolean
              [] n.op = "string" -> String
              [] n.op = "name" -> NameType(p, n.name, scope)
              [] n.op = "paren" -> kid(1)
              [] n.op = "call" ->
                   CallType(p, n.name, [k \in DOMAIN n.kids |-> kid(k)], scope)
              [] n.op = "unary" -> IF n.sign = "not" THEN Boolean ELSE kid(1)
              [] n.op = "ternary" ->
                   IF kid(2) = kid(3) THEN kid(2) ELSE NumericJoin(kid(2), kid(3))
              [] n.op = "binary" -> BinaryType(n.sign, kid(1), kid(2))
              [] OTHER -> Unknown
  IN  type

\* collect_locals: only an initialiser that is a call sees the project, and no
\* initialiser sees the parameters of the function.
Locals(p, ast, ret) ==
  LET Initial(n, before) ==
        CASE DeclaredLocalType(n.ann) # None -> DeclaredLocalType(n.ann)
          [] DeclaredLocalType(n.ann) = None /\ n.kids = <<>> -> Unknown
          [] OTHER ->
               TypesOf(p, ast, [locals |-> before, project |-> ast[n.kids[1]].op = "call",
                                fn |-> None, returns |-> ret])[n.kids[1]]
      upTo[i \in 0..Len(ast)] ==
        IF i = 0 THEN Nothing
        ELSE LET n == ast[i]
                 before == upTo[i - 1]
             IN  CASE n.op = "expand" -> With(before, n.name[1], Integer)
                   [] n.op = "local" -> With(before, n.name[1], Initial(n, before))
                   [] OTHER -> before
  IN  upTo[Len(ast)]

ScopeOf(p, script, ret) ==
  [locals |-> Locals(p, script.ast, ret), project |-> TRUE,
   fn |-> script.fn, returns |-> ret]

-----------------------------------------------------------------------------
(* Inference. *)

Functions(p) == {f \in DOMAIN p.symbols : p.symbols[f].kind = "Function"}

\* The types of what a body assigns to Out, and the one they all are.
OutTypes(p, script, ret) ==
  LET ast == script.ast
      type == TypesOf(p, ast, ScopeOf(p, script, ret))
  IN  {type[ast[i].kids[2]] : i \in {j \in DOMAIN ast :
         ast[j].op = "assign" /\ ast[ast[j].kids[1]].name = <<"Out">>}}
OutReturnType(p, script, ret) ==
  LET types == OutTypes(p, script, ret)
  IN  IF Cardinality(types) = 1 /\ Unknown \notin types
      THEN CHOOSE t \in types : TRUE ELSE None

\* A mutant: a type that is there already is inferred anew.
InferableRevised(script, ret) == script.fn # None /\ ~script.broken /\ ~script.deep
Inferable(script, ret) ==
  script.fn # None /\ ret[script.fn] = None /\ ~script.broken /\ ~script.deep

-----------------------------------------------------------------------------
(* The rules.  Each gives the findings of one node, as [node, code, severity]. *)

Report(cond, i, code, severity) ==
  IF cond THEN {[node |-> i, code |-> code, severity |-> severity]} ELSE {}

\* A number, whatever signs and parentheses are around it.
IsLiteral(ast, at0) ==
  LET literal[i \in DOMAIN ast] ==
        \/ ast[i].op = "number"
        \/ /\ \/ ast[i].op = "paren"
              \/ ast[i].op = "unary" /\ ast[i].sign \in {"-", "+"}
           /\ literal[ast[i].kids[1]]
  IN  literal[at0]

\* A mutant of the next: what is no enum is taken to be a number.
EnumMismatchLoose(p, sign, l, r) == IsEnum(l) # IsEnum(r)
\* T021: an enum against a number, two enums ordered, two closed enums that differ.
EnumMismatch(p, sign, l, r) ==
  \/ IsEnum(l) /\ IsNumeric(r)
  \/ IsNumeric(l) /\ IsEnum(r)
  \/ IsEnum(l) /\ IsEnum(r) /\ sign \in Ordering
  \/ IsEnum(l) /\ IsEnum(r) /\ l # r /\ ~p.enums[l[2]].open /\ ~p.enums[r[2]].open

\* T002: equality of floats, unless it is T021's.
FloatEquality(sign, l, r) ==
  sign \in Equality /\ Float \in {l, r} /\ ~IsEnum(l) /\ ~IsEnum(r)

\* T004: an order between signed and unsigned, neither of them a literal.
SignComparison(ast, n, l, r) ==
  /\ n.sign \in Ordering /\ {l, r} = {Integer, Unsigned}
  /\ \A k \in {1, 2} : ~IsLiteral(ast, n.kids[k])

\* T005 and T006: modulo and bit operations of floats, plain or compound.
FloatModulo(sign, l, r) == sign \in {"%", "%="} /\ Float \in {l, r}
FloatBits(sign, l, r) ==
  sign \in Bitwise \union CompoundBits /\ Float \in {l, r}

OperatorFindings(p, ast, type, i) ==
  LET n == ast[i]
      l == type[n.kids[1]]
      r == type[n.kids[2]]
  IN  IF n.op # "binary" THEN {}
      ELSE UNION {
        Report(FloatEquality(n.sign, l, r), i, "T002", "Error"),
        Report(n.sign \in Equality \union Ordering /\ EnumMismatch(p, n.sign, l, r),
               i, "T021", "Error"),
        Report(SignComparison(ast, n, l, r), i, "T004", "Warning"),
        Report(FloatModulo(n.sign, l, r), i, "T005", "Error"),
        Report(FloatBits(n.sign, l, r), i, "T006", "Error")}

ComplementFindings(ast, type, i) ==
  Report(ast[i].op = "unary" /\ ast[i].sign = "~" /\ type[ast[i].kids[1]] = Float,
         i, "T006", "Error")

\* compatible and arg_compatible, the lattice of T030 and of T085.
Compatible(target, value) ==
  \/ target = value
  \/ IsIntegral(target) /\ IsIntegral(value)
  \/ target = Float /\ IsIntegral(value)

Narrows(target, value) == IsIntegral(target) /\ value = Float
MismatchSeverity(target, value) == IF Narrows(target, value) THEN "Error" ELSE "Warning"

\* The type T030 takes a target to have: that of a channel, of a parameter or
\* of a local, Unknown for what else may stand there.
TargetType(p, name, scope) ==
  CASE IsSymbol(p, name, scope) /\ p.symbols[name].kind \in {"Channel", "Parameter"} ->
         p.symbols[name].vt
    [] IsLocal(name, scope) \/ IsArgument(p, name, scope) -> LocalType(p, name, scope)
    [] OTHER -> Unknown

\* A mutant of the next: it does not leave narrowing to T003.
AssignMismatchTwice(p, n, ast, type, scope) ==
  LET target == TargetType(p, ast[n.kids[1]].name, scope)
      value == type[n.kids[2]]
  IN  /\ n.sign \in Compound \union {"="}
      /\ IsKnown(target) /\ IsKnown(value) /\ ~Compatible(target, value)

\* T030: a plain assignment of an incompatible value, a compound one unless it
\* narrows, which is for T003.
AssignMismatch(p, n, ast, type, scope) ==
  LET target == TargetType(p, ast[n.kids[1]].name, scope)
      value == type[n.kids[2]]
  IN  /\ n.sign \in Compound \union {"="}
      /\ IsKnown(target) /\ IsKnown(value) /\ ~Compatible(target, value)
      /\ n.sign \in Compound => ~Narrows(target, value)
\* T086: a channel or parameter is copied to one of another unit.
UnitMismatch(p, n, ast, scope) ==
  LET bare[i \in DOMAIN ast] == IF ast[i].op = "paren" THEN bare[ast[i].kids[1]] ELSE i
      value == ast[bare[n.kids[2]]]
      Unit(name) == IF /\ IsSymbol(p, name, scope)
                       /\ p.symbols[name].kind \in {"Channel", "Parameter"}
                    THEN p.symbols[name].unit ELSE None
      from == Unit(value.name)
      to == Unit(ast[n.kids[1]].name)
  IN  n.sign = "=" /\ value.op = "name" /\ from # None /\ to # None /\ from # to

\* T003: a float is folded into an integral target.
CompoundNarrows(sign, target, value) == sign \in Compound /\ Narrows(target, value)

\* The rules on assignments; a target is a name.
AssignFindings(p, ast, type, scope, i) ==
  LET n == ast[i]
      name == ast[n.kids[1]].name
      target == NameType(p, name, scope)
      value == type[n.kids[2]]
  IN  IF n.op # "assign" THEN {}
      ELSE UNION {
        Report(CompoundNarrows(n.sign, target, value), i, "T003", "Warning"),
        Report(AssignMismatch(p, n, ast, type, scope), i, "T030",
               MismatchSeverity(TargetType(p, name, scope), value)),
        Report(FloatModulo(n.sign, target, value), i, "T005", "Error"),
        Report(FloatBits(n.sign, target, value), i, "T006", "Error"),
        Report(UnitMismatch(p, n, ast, scope), i, "T086", "Warning")}

\* T030 on `local <Type> x = init`.
DeclarationFindings(ast, type, i) ==
  LET n == ast[i]
      declared == DeclaredLocalType(n.ann)
      init == n.kids[1]
      negative == ast[init].op = "unary" /\ ast[init].sign = "-"
                  /\ ast[ast[init].kids[1]].op = "number"
  IN  IF n.op # "local" \/ declared = None \/ n.kids = <<>> THEN {}
      ELSE IF declared = Unsigned /\ negative THEN Report(TRUE, i, "T030", "Warning")
      ELSE Report(IsKnown(type[init]) /\ ~Compatible(declared, type[init]), i, "T030",
                  MismatchSeverity(declared, type[init]))

\* T064 and T065: no overload takes as many arguments, none takes these.
WrongCount(name, args) == \A ov \in Library[name] : Len(ov.params) # Len(args)
WrongTypes(name, args) ==
  ~WrongCount(name, args) /\ \A ov \in Library[name] : ~OverloadAccepts(ov, args)

\* T085: what a function with a signature is called with.
ArgumentFindings(p, n, args, i) ==
  LET params == p.symbols[n.name].params
  IN  IF Len(args) # Len(params) THEN Report(TRUE, i, "T085", "Error")
      ELSE UNION {Report(/\ IsKnown(args[k]) /\ IsKnown(params[k].type)
                         /\ ~Compatible(params[k].type, args[k]),
                         n.kids[k], "T085", "Warning") : k \in DOMAIN args}

CallFindings(p, ast, type, scope, i) ==
  LET n == ast[i]
      args == [k \in DOMAIN n.kids |-> type[n.kids[k]]]
  IN  CASE n.op = "call" /\ n.name \in DOMAIN Library ->
             Report(WrongCount(n.name, args), i, "T064", "Warning") \union
             Report(WrongTypes(n.name, args), i, "T065", "Error")
        [] /\ n.op = "call" /\ n.name \notin DOMAIN Library
           /\ IsFunction(p, n.name, scope) /\ p.symbols[n.name].signed ->
             ArgumentFindings(p, n, args, i)
        [] OTHER -> {}

\* T082, T020 and T070 on `when`.  {} is an arm no enumerator can be read from.
GivesUp(enum, arms) == {} \in arms \/ (enum.open /\ ~(UNION arms \subseteq enum.members))

WhenFindings(p, ast, type, i) ==
  LET n == ast[i]
      subject == type[n.kids[1]]
      enum == p.enums[subject[2]]
  IN  IF n.op # "when" THEN {}
      ELSE IF ~IsEnum(subject)
      THEN Report(IsKnown(subject), n.kids[1], "T082", "Error")
      ELSE IF GivesUp(enum, n.arms) THEN {}
      ELSE Report(~(UNION n.arms \subseteq enum.members), i, "T020", "Error") \union
           Report(~(enum.members \subseteq UNION n.arms), i, "T070", "Error")

\* What a check of one script reports.
ScriptFindings(p, script, ret) ==
  LET scope == ScopeOf(p, script, ret)
      ast == script.ast
      type == TypesOf(p, ast, scope)
      found == UNION {UNION {
        OperatorFindings(p, ast, type, i), ComplementFindings(ast, type, i),
        AssignFindings(p, ast, type, scope, i), DeclarationFindings(ast, type, i),
        CallFindings(p, ast, type, scope, i), WhenFindings(p, ast, type, i)}
          : i \in DOMAIN ast}
  IN  CASE script.broken -> {}
        [] ~script.broken /\ script.deep -> Report(TRUE, Len(ast), "T090", "Warning")
        [] OTHER -> found

Findings(p, script, ret) ==
  {[script |-> script.name, found |-> f] : f \in ScriptFindings(p, script, ret)}

-----------------------------------------------------------------------------
(* The completeness report: what no rule could judge. *)

NoTally == [calls |-> 0, unmodelled |-> 0, whens |-> 0, incomplete |-> {}]

\* A mutant of the next: an open enum counts as known.
WhenIncompleteIfUnknown(p, ast, type, i) == ~IsKnown(type[ast[i].kids[1]])
\* A `when` whose subject has no known type, or is an enum that is open.
WhenIncomplete(p, ast, type, i) ==
  LET subject == type[ast[i].kids[1]]
  IN  ~IsKnown(subject) \/ (IsEnum(subject) /\ p.enums[subject[2]].open)

Completeness(p, ret) ==
  LET analysed == {j \in DOMAIN p.scripts : ~p.scripts[j].broken /\ ~p.scripts[j].deep}
      Nodes(op) == UNION {{<<j, i>> : i \in {k \in DOMAIN p.scripts[j].ast :
                                               p.scripts[j].ast[k].op = op}} : j \in analysed}
      Node(x) == p.scripts[x[1]].ast[x[2]]
      library == {x \in Nodes("call") : Node(x).name[1] \in Objects}
      Incomplete(x) ==
        LET s == p.scripts[x[1]]
        IN  WhenIncomplete(p, s.ast, TypesOf(p, s.ast, ScopeOf(p, s, ret)), x[2])
  IN  [calls |-> Cardinality(library),
       unmodelled |-> Cardinality({x \in library : Node(x).name \notin DOMAIN Library}),
       whens |-> Cardinality(Nodes("when")),
       incomplete |-> {x \in Nodes("when") : Incomplete(x)}]

-----------------------------------------------------------------------------
(* The run. *)

Init ==
  /\ project \in Projects
  /\ returns = [f \in Functions(project) |-> project.symbols[f].ret]
  /\ inferred = Nothing
  /\ phase = "infer"
  /\ at = 1
  /\ reported = {}
  /\ tally = NoTally
  /\ runs = 0
  /\ edited = FALSE

\* A mutant of the next: a script that gives nothing ends the pass.
InferScriptBreaks ==
  /\ phase = "infer" /\ at <= Len(project.scripts)
  /\ LET script == project.scripts[at]
         type == OutReturnType(project, script, returns)
         found == Inferable(script, returns) /\ type # None
     IN  /\ inferred' = IF found THEN With(inferred, script.fn, type) ELSE inferred
         /\ at' = IF found THEN at + 1 ELSE Len(project.scripts) + 1
  /\ UNCHANGED <<project, returns, phase, reported, tally, runs, edited>>

\* Another: a result is written back before the next body is typed.
InferScriptInPlace ==
  /\ phase = "infer" /\ at <= Len(project.scripts)
  /\ LET script == project.scripts[at]
         type == OutReturnType(project, script, returns)
     IN  returns' = IF Inferable(script, returns) /\ type # None
                    THEN [returns EXCEPT ![script.fn] = type] ELSE returns
  /\ at' = at + 1
  /\ UNCHANGED <<project, inferred, phase, reported, tally, runs, edited>>

\* infer_return_types, one script: bodies are typed against the table as it is.
InferScript ==
  /\ phase = "infer" /\ at <= Len(project.scripts)
  /\ LET script == project.scripts[at]
         type == OutReturnType(project, script, returns)
     IN  inferred' = IF Inferable(script, returns) /\ type # None
                     THEN With(inferred, script.fn, type) ELSE inferred
  /\ at' = at + 1
  /\ UNCHANGED <<project, returns, phase, reported, tally, runs, edited>>

\* ... and the results are written back; the last one for a function stays.
WriteReturns ==
  /\ phase = "infer" /\ at > Len(project.scripts)
  /\ returns' = [f \in DOMAIN returns |->
                   IF f \in DOMAIN inferred THEN inferred[f] ELSE returns[f]]
  /\ inferred' = Nothing
  /\ phase' = "check"
  /\ at' = 1
  /\ UNCHANGED <<project, reported, tally, runs, edited>>

\* The rules, over one script.
CheckScript ==
  /\ phase = "check" /\ at <= Len(project.scripts)
  /\ reported' = reported \union Findings(project, project.scripts[at], returns)
  /\ at' = at + 1
  /\ UNCHANGED <<project, returns, inferred, phase, tally, runs, edited>>

EndRun ==
  /\ phase = "check" /\ at > Len(project.scripts)
  /\ phase' = "done"
  /\ runs' = runs + 1
  /\ UNCHANGED <<project, returns, inferred, at, reported, tally, edited>>

\* analyze: the report is asked for once the types are in.
Analyze ==
  /\ phase = "done" /\ tally = NoTally
  /\ tally' = Completeness(project, returns)
  /\ UNCHANGED <<project, returns, inferred, phase, at, reported, runs, edited>>

\* The caller checks the project it has in memory once more.
CheckAgain ==
  /\ phase = "done" /\ runs < MaxRuns
  /\ phase' = "infer"
  /\ at' = 1
  /\ reported' = {}
  /\ tally' = NoTally
  /\ UNCHANGED <<project, returns, inferred, runs, edited>>

\* ... or first gives it another text of one of the scripts.
Edit ==
  /\ phase = "done" /\ runs < MaxRuns /\ ~edited
  /\ \E script \in Edits, j \in DOMAIN project.scripts :
       /\ script.name = project.scripts[j].name /\ script # project.scripts[j]
       /\ project' = [project EXCEPT !.scripts[j] = script]
  /\ edited' = TRUE
  /\ reported' = {}
  /\ tally' = NoTally
  /\ phase' = "infer"
  /\ at' = 1
  /\ UNCHANGED <<returns, inferred, runs>>

Next ==
  \/ InferScript \/ WriteReturns \/ CheckScript \/ EndRun
  \/ Analyze \/ CheckAgain \/ Edit

Spec == Init /\ [][Next]_vars

-----------------------------------------------------------------------------
(* Properties. *)

\* Inference with nothing left of its order: in a round every body is typed under
\* one and the same table, and a type that is there is kept.
Round(p, ret) ==
  [f \in DOMAIN ret |->
     LET found == {OutReturnType(p, p.scripts[j], ret) :
                     j \in {k \in DOMAIN p.scripts :
                              p.scripts[k].fn = f /\ Inferable(p.scripts[k], ret)}}
     IN  IF ret[f] = None /\ Cardinality(found) = 1
         THEN CHOOSE t \in found : TRUE ELSE ret[f]]
AfterRounds(p) ==
  LET after[n \in 0..Cardinality(Functions(p))] ==
        IF n = 0 THEN [f \in Functions(p) |-> p.symbols[f].ret] ELSE Round(p, after[n - 1])
  IN  after

\* The table that the rounds lead to.
Settled(p) == AfterRounds(p)[Cardinality(Functions(p))]

\* No script calls both functions of the project and methods of the library.
\* What the library makes of an argument it does not know is a guess: see
\* NeverAGuess.
Plain(p) ==
  \A j \in DOMAIN p.scripts :
    LET called == {n.name : n \in {m \in Range(p.scripts[j].ast) : m.op = "call"}}
    IN  called \intersect DOMAIN Library = {} \/ called \subseteq DOMAIN Library

\* Each function of the project is backed by one script.
OneBody(p) ==
  \A j, k \in DOMAIN p.scripts :
    p.scripts[j].fn = p.scripts[k].fn /\ p.scripts[j].fn # None => j = k

RoundsIn  == [p \in Projects |-> AfterRounds(p)]
SettledIn == [p \in Projects |-> Settled(p)]
PlainProjects == {p \in Projects : Plain(p) /\ OneBody(p)}
FindingsWhenSettled ==
  [p \in PlainProjects |->
     UNION {Findings(p, p.scripts[j], ret) : j \in DOMAIN p.scripts, ret \in {SettledIn[p]}}]

\* Inference follows a chain of calls by one link in a run (project.rs:234), no
\* fewer and no more, whatever the order of the scripts: a run is a round, and
\* after as many runs as there are functions the table is settled.  What it then
\* says was inferred in some round and kept since (whether the bodies would still
\* give it is another question: see NeverAGuess).
InferenceSettles ==
  phase = "done" /\ ~edited /\ OneBody(project) =>
    returns = IF runs < Cardinality(DOMAIN returns)
              THEN RoundsIn[project][runs] ELSE SettledIn[project]

\* What is not known is silent: whatever a run reports while the types of some
\* functions are missing is reported when all of them are in, except that a
\* float compared with what turns out to be an enum moves from T002 to T021.
AsT021(r) == [r EXCEPT !.found.code = "T021"]
NoFindingFromIgnorance ==
  ~edited /\ project \in PlainProjects =>
    \A r \in reported : \E s \in FindingsWhenSettled[project] :
      s = r \/ (r.found.code = "T002" /\ s = AsT021(r))

\* The nodes of a script that store a float in an integral channel, parameter
\* or local.  A name that is an enumerator's as well types as the enumerator.
NarrowingStores(script) ==
  LET scope == ScopeOf(project, script, returns)
      type == TypesOf(project, script.ast, scope)
      Target(i) == script.ast[script.ast[i].kids[1]].name
  IN  {i \in DOMAIN script.ast :
         /\ script.ast[i].op = "assign"
         /\ IsIntegral(TargetType(project, Target(i), scope)) /\ MemberOf(project, Target(i)) = 0
         /\ type[script.ast[i].kids[2]] = Float}

\* A float that is stored in an integral target is reported once, by one of the
\* four rules that share the operators (T003, T005, T006, T030): the rules
\* neither leave a gap nor flag the same construct twice (t030:77-79).
NarrowingReportedOnce ==
  phase = "done" =>
    \A j \in DOMAIN project.scripts :
      LET script == project.scripts[j]
      IN  ~script.broken /\ ~script.deep =>
            \A i \in NarrowingStores(script) :
              Cardinality({r \in reported : /\ r.script = script.name /\ r.found.node = i
                                            /\ r.found.code \in {"T003", "T005", "T006", "T030"}}) = 1

\* The silence of the checks on `when` is counted (completeness.rs): one that is
\* neither reported nor counted as incomplete covers its enum, if its arms can
\* be read.
SilenceIsCounted ==
  phase = "done" /\ tally # NoTally =>
    \A j \in DOMAIN project.scripts :
      LET script == project.scripts[j]
          type == TypesOf(project, script.ast, ScopeOf(project, script, returns))
      IN  \A i \in DOMAIN script.ast :
            /\ script.ast[i].op = "when" /\ ~script.broken /\ ~script.deep
            /\ {} \notin script.ast[i].arms
            /\ <<j, i>> \notin tally.incomplete
            /\ \A r \in reported : r.script = script.name =>
                 r.found.node \notin {i, script.ast[i].kids[1]}
            => UNION script.ast[i].arms
                 = project.enums[type[script.ast[i].kids[1]][2]].members

\* A declared or inferred return type is never revised: not by another run, not
\* by a body that says something else (project.rs:205-211).
ReturnsKept == \A f \in DOMAIN returns : returns[f] # None => returns'[f] = returns[f]
ReturnsAreKept == [][ReturnsKept]_vars

\* "... or an Unknown result leaves the type `None` - never a guess"
\* (project.rs:186-189): an inferred type is not contradicted by the body it was
\* inferred from.
NeverAGuess ==
  phase = "done" =>
    \A j \in DOMAIN project.scripts :
      LET script == project.scripts[j]
      IN  /\ script.fn # None /\ ~script.broken /\ ~script.deep
          /\ project.symbols[script.fn].ret = None
          => OutReturnType(project, script, returns) \in {None, returns[script.fn]}
=============================================================================
