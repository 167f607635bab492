---------------------------- MODULE TypingProofs ----------------------------
(* Return types are never revised and inference settles, what is not known is *)
(* silent, what the checks on `when` leave out is counted, and a narrowing   *)
(* store is reported once: proofs about Typing.                              *)
EXTENDS Typing, FiniteSetTheorems, WellFoundedInduction, TLAPS

\* What waits to be written back is for functions that have no type yet: the
\* pass looked at the table before anything of it was written.
PendingIsNew == \A f \in DOMAIN inferred : returns[f] = None

\* Nothing waits at the start.
LEMMA PendingInit == Init => PendingIsNew
BY DEF Init, PendingIsNew, Nothing

\* Every step keeps it: a script adds an entry only for a function without a
\* type, the table changes only when the entries are taken away.
LEMMA PendingStep == PendingIsNew /\ [Next]_vars => PendingIsNew'
<1> SUFFICES ASSUME PendingIsNew, [Next]_vars PROVE PendingIsNew'
    OBVIOUS
<1> DEFINE script == project.scripts[at]
           type == OutReturnType(project, script, returns)
<1>1. CASE InferScript
  <2>1. returns' = returns
        BY <1>1 DEF InferScript
  <2>2. CASE Inferable(script, returns) /\ type # None
    <3>1. inferred' = With(inferred, script.fn, type)
          BY <1>1, <2>2 DEF InferScript
    <3>2. DOMAIN inferred' = DOMAIN inferred \union {script.fn}
          BY <3>1 DEF With
    <3>3. returns[script.fn] = None
          BY <2>2 DEF Inferable
    <3> QED BY <2>1, <3>2, <3>3 DEF PendingIsNew
  <2>3. CASE ~(Inferable(script, returns) /\ type # None)
    <3>1. inferred' = inferred
          BY <1>1, <2>3 DEF InferScript
    <3> QED BY <2>1, <3>1 DEF PendingIsNew
  <2> QED BY <2>2, <2>3
<1>2. CASE WriteReturns
      BY <1>2 DEF WriteReturns, PendingIsNew, Nothing
<1>3. CASE CheckScript \/ EndRun \/ Analyze \/ CheckAgain \/ Edit \/ UNCHANGED vars
  <2>1. UNCHANGED <<returns, inferred>>
        BY <1>3 DEF CheckScript, EndRun, Analyze, CheckAgain, Edit, vars
  <2> QED BY <2>1 DEF PendingIsNew
<1> QED BY <1>1, <1>2, <1>3 DEF Next

\* What is written back leaves the types alone that were there.
LEMMA StepKeepsReturns == PendingIsNew /\ [Next]_vars => ReturnsKept
<1> SUFFICES ASSUME PendingIsNew, [Next]_vars,
                    NEW f \in DOMAIN returns, returns[f] # None
             PROVE  returns'[f] = returns[f]
    BY DEF ReturnsKept
<1>1. CASE WriteReturns
  <2>1. f \notin DOMAIN inferred
        BY DEF PendingIsNew
  <2> QED BY <1>1, <2>1 DEF WriteReturns
<1>2. CASE ~WriteReturns
  <2>1. returns' = returns
        BY <1>2 DEF Next, InferScript, CheckScript, EndRun, Analyze, CheckAgain, Edit, vars
  <2> QED BY <2>1
<1> QED BY <1>1, <1>2

\* A declared or inferred return type is never revised, however often the
\* project is checked, whatever the bodies say and however they are edited in
\* between (project.rs:205-211).
THEOREM ReturnTypesAreKept == Spec => ReturnsAreKept
<1>1. PendingIsNew /\ [Next]_vars => [ReturnsKept]_vars
      BY StepKeepsReturns
<1> QED BY PendingInit, PendingStep, <1>1, PTL DEF Spec, ReturnsAreKept

-----------------------------------------------------------------------------
\* The project stays one, whatever text a script is given.
ProjectInv ==
  /\ project = [symbols |-> project.symbols, enums |-> project.enums,
                scripts |-> project.scripts]
  /\ project.scripts \in Seq(Texts)
  /\ \A j, k \in DOMAIN project.scripts :
       project.scripts[j].name = project.scripts[k].name => j = k
  /\ at \in Nat \ {0}

\* A run has reported what the scripts give that it has come to, under the
\* return types that it ends with.
FoundIn(which) ==
  UNION {Findings(project, project.scripts[j], returns) : j \in which}

ReportInv ==
  /\ phase = "infer" => reported = {}
  /\ phase = "check" => reported = FoundIn({j \in DOMAIN project.scripts : j < at})
  /\ phase = "done" => reported = FoundIn(DOMAIN project.scripts)

\* The report on completeness is about the text and the types at hand.
TallyInv == phase = "done" => tally \in {NoTally, Completeness(project, returns)}

LEMMA ProjectInit == Init => ProjectInv
<1> SUFFICES ASSUME Init PROVE ProjectInv
    OBVIOUS
<1>1. project \in Projects /\ at = 1
      BY DEF Init
<1>2. \A j, k \in DOMAIN project.scripts :
        project.scripts[j].name = project.scripts[k].name => j = k
      BY <1>1, ProjectAssumption DEF IsInjective
<1>3. /\ project = [symbols |-> project.symbols, enums |-> project.enums,
                    scripts |-> project.scripts]
      /\ project.scripts \in Seq(Texts)
      BY <1>1, ProjectAssumption
<1> QED BY <1>1, <1>2, <1>3 DEF ProjectInv

LEMMA ProjectStep == ProjectInv /\ [Next]_vars => ProjectInv'
<1> SUFFICES ASSUME ProjectInv, [Next]_vars PROVE ProjectInv'
    OBVIOUS
<1> USE DEF ProjectInv
<1>1. CASE Edit
  <2>1. PICK script \in Edits, j \in DOMAIN project.scripts :
           /\ script.name = project.scripts[j].name
           /\ project' = [project EXCEPT !.scripts[j] = script]
        BY <1>1 DEF Edit
  <2>2. /\ project' = [symbols |-> project'.symbols, enums |-> project'.enums,
                       scripts |-> project'.scripts]
        /\ project'.scripts = [project.scripts EXCEPT ![j] = script]
        BY <2>1
  <2>3. script \in Texts
        BY DEF Texts
  <2>4. /\ project'.scripts \in Seq(Texts)
        /\ DOMAIN project'.scripts = DOMAIN project.scripts
        BY <2>2, <2>3
  <2>5. \A k \in DOMAIN project.scripts : project'.scripts[k].name = project.scripts[k].name
        BY <2>1, <2>2
  <2>6. at' = 1
        BY <1>1 DEF Edit
  <2> QED BY <2>2, <2>4, <2>5, <2>6
<1>2. CASE InferScript \/ WriteReturns \/ CheckScript \/ EndRun \/ Analyze \/ CheckAgain
           \/ UNCHANGED vars
  <2>1. project' = project /\ at' \in {at, at + 1, 1}
        BY <1>2 DEF InferScript, WriteReturns, CheckScript, EndRun, Analyze, CheckAgain, vars
  <2> QED BY <2>1
<1> QED BY <1>1, <1>2 DEF Next

LEMMA ReportStep == ProjectInv /\ ReportInv /\ [Next]_vars => ReportInv'
<1> SUFFICES ASSUME ProjectInv, ReportInv, [Next]_vars PROVE ReportInv'
    OBVIOUS
<1> USE DEF ReportInv
<1>1. project.scripts \in Seq(Texts) /\ at \in Nat \ {0}
      BY DEF ProjectInv
<1>2. CASE InferScript
      BY <1>2 DEF InferScript
<1>3. CASE WriteReturns
  <2>1. phase = "infer" /\ phase' = "check" /\ reported' = reported /\ at' = 1 /\ project' = project
        BY <1>3 DEF WriteReturns
  <2>2. {j \in DOMAIN project.scripts : j < 1} = {}
        BY <1>1
  <2> QED BY <2>1, <2>2 DEF FoundIn
<1>4. CASE CheckScript
  <2>1. /\ phase = "check" /\ phase' = "check" /\ at <= Len(project.scripts) /\ at' = at + 1
        /\ reported' = reported \union Findings(project, project.scripts[at], returns)
        /\ UNCHANGED <<project, returns>>
        BY <1>4 DEF CheckScript
  <2>2. {j \in DOMAIN project.scripts : j < at + 1} = {j \in DOMAIN project.scripts : j < at} \union {at}
        BY <1>1, <2>1
  <2>3. FoundIn({j \in DOMAIN project.scripts : j < at + 1})
          = FoundIn({j \in DOMAIN project.scripts : j < at})
              \union Findings(project, project.scripts[at], returns)
        BY <2>2 DEF FoundIn
  <2>4. reported' = FoundIn({j \in DOMAIN project.scripts : j < at + 1})
        BY <2>1, <2>3
  <2>5. FoundIn({j \in DOMAIN project.scripts : j < at})' = reported'
    <3>1. {j \in DOMAIN project.scripts : j < at}' = {j \in DOMAIN project.scripts : j < at + 1}
          BY <2>1
    <3> QED BY <2>1, <2>4, <3>1 DEF FoundIn
  <2> QED BY <2>1, <2>5
<1>5. CASE EndRun
  <2>1. /\ phase = "check" /\ phase' = "done" /\ at > Len(project.scripts)
        /\ UNCHANGED <<project, returns, reported>>
        BY <1>5 DEF EndRun
  <2>2. {j \in DOMAIN project.scripts : j < at} = DOMAIN project.scripts
        BY <1>1, <2>1
  <2> QED BY <2>1, <2>2 DEF FoundIn
<1>6. CASE CheckAgain \/ Edit
      BY <1>6 DEF CheckAgain, Edit
<1>7. CASE Analyze \/ UNCHANGED vars
  <2>1. UNCHANGED <<project, returns, phase, at, reported>>
        BY <1>7 DEF Analyze, vars
  <2> QED BY <2>1 DEF FoundIn
<1> QED BY <1>2, <1>3, <1>4, <1>5, <1>6, <1>7 DEF Next

\* tally is taken back whenever a run begins, and set only when one has ended.
NotAsked == phase # "done" => tally = NoTally

LEMMA TallyStep == TallyInv /\ NotAsked /\ [Next]_vars => (TallyInv /\ NotAsked)'
<1> SUFFICES ASSUME TallyInv, NotAsked, [Next]_vars PROVE (TallyInv /\ NotAsked)'
    OBVIOUS
<1> USE DEF TallyInv, NotAsked
<1>1. CASE InferScript \/ WriteReturns \/ CheckScript
      BY <1>1 DEF InferScript, WriteReturns, CheckScript
<1>2. CASE EndRun \/ CheckAgain \/ Edit
      BY <1>2 DEF EndRun, CheckAgain, Edit
<1>3. CASE Analyze \/ UNCHANGED vars
      BY <1>3 DEF Analyze, vars
<1> QED BY <1>1, <1>2, <1>3 DEF Next

ArmsCover(p, ast, type, i) ==
  UNION ast[i].arms = p.enums[type[ast[i].kids[1]][2]].members

\* What each rule on `when` says of a node whose arms can be read.
LEMMA WhenJudged ==
  ASSUME NEW p, NEW ast, NEW type, NEW i \in DOMAIN ast,
         ast[i].op = "when", {} \notin ast[i].arms,
         ~WhenIncomplete(p, ast, type, i),
         \A f \in WhenFindings(p, ast, type, i) : f.node \notin {i, ast[i].kids[1]}
  PROVE  ArmsCover(p, ast, type, i)
<1> DEFINE subject == type[ast[i].kids[1]]
           enum == p.enums[subject[2]]
<1>1. IsEnum(subject)
  <2> SUFFICES ASSUME ~IsEnum(subject) PROVE FALSE
      OBVIOUS
  <2>1. IsKnown(subject)
        BY DEF WhenIncomplete
  <2>2. [node |-> ast[i].kids[1], code |-> "T082", severity |-> "Error"]
          \in WhenFindings(p, ast, type, i)
        BY <2>1 DEF WhenFindings, Report
  <2> QED BY <2>2
<1>2. ~enum.open /\ ~GivesUp(enum, ast[i].arms)
      BY <1>1 DEF WhenIncomplete, GivesUp
<1>3. WhenFindings(p, ast, type, i)
        = Report(~(UNION ast[i].arms \subseteq enum.members), i, "T020", "Error") \union
          Report(~(enum.members \subseteq UNION ast[i].arms), i, "T070", "Error")
      BY <1>1, <1>2 DEF WhenFindings
<1>4. UNION ast[i].arms \subseteq enum.members
  <2> SUFFICES ASSUME ~(UNION ast[i].arms \subseteq enum.members) PROVE FALSE
      OBVIOUS
  <2>1. [node |-> i, code |-> "T020", severity |-> "Error"] \in WhenFindings(p, ast, type, i)
        BY <1>3 DEF Report
  <2> QED BY <2>1
<1>5. enum.members \subseteq UNION ast[i].arms
  <2> SUFFICES ASSUME ~(enum.members \subseteq UNION ast[i].arms) PROVE FALSE
      OBVIOUS
  <2>1. [node |-> i, code |-> "T070", severity |-> "Error"] \in WhenFindings(p, ast, type, i)
        BY <1>3 DEF Report
  <2> QED BY <2>1
<1> QED BY <1>4, <1>5 DEF ArmsCover

\* A finding of a rule on a node of a text that is analysed is reported.
LEMMA WhenReported ==
  ASSUME ReportInv, phase = "done", NEW j \in DOMAIN project.scripts,
         ~project.scripts[j].broken, ~project.scripts[j].deep,
         NEW i \in DOMAIN project.scripts[j].ast,
         NEW f \in WhenFindings(project, project.scripts[j].ast,
                     TypesOf(project, project.scripts[j].ast,
                             ScopeOf(project, project.scripts[j], returns)), i)
  PROVE  [script |-> project.scripts[j].name, found |-> f] \in reported
<1>1. f \in ScriptFindings(project, project.scripts[j], returns)
      BY DEF ScriptFindings
<1>2. [script |-> project.scripts[j].name, found |-> f] \in Findings(project, project.scripts[j], returns)
      BY <1>1 DEF Findings
<1> QED BY <1>2 DEF ReportInv, FoundIn

\* For every project, library and edit: a `when` whose arms can be read and
\* that is neither reported nor counted as incomplete covers its enum exactly
\* (t020, t070, t082, completeness.rs).
THEOREM SilenceCounted == Spec => []SilenceIsCounted
<1>1. Init => ReportInv /\ TallyInv /\ NotAsked
      BY DEF Init, ReportInv, TallyInv, NotAsked
<1>2. ReportInv /\ TallyInv => SilenceIsCounted
  <2> SUFFICES ASSUME ReportInv, TallyInv, phase = "done", tally # NoTally,
                      NEW j \in DOMAIN project.scripts
               PROVE  LET script == project.scripts[j]
                          type == TypesOf(project, script.ast, ScopeOf(project, script, returns))
                      IN  \A i \in DOMAIN script.ast :
                            /\ script.ast[i].op = "when" /\ ~script.broken /\ ~script.deep
                            /\ {} \notin script.ast[i].arms
                            /\ <<j, i>> \notin tally.incomplete
                            /\ \A r \in reported : r.script = script.name =>
                                 r.found.node \notin {i, script.ast[i].kids[1]}
                            => UNION script.ast[i].arms
                                 = project.enums[type[script.ast[i].kids[1]][2]].members
      BY DEF SilenceIsCounted
  <2> DEFINE script == project.scripts[j]
             type == TypesOf(project, script.ast, ScopeOf(project, script, returns))
  <2> SUFFICES ASSUME NEW i \in DOMAIN script.ast,
                      script.ast[i].op = "when", ~script.broken, ~script.deep,
                      {} \notin script.ast[i].arms,
                      <<j, i>> \notin tally.incomplete,
                      \A r \in reported : r.script = script.name =>
                        r.found.node \notin {i, script.ast[i].kids[1]}
               PROVE  UNION script.ast[i].arms
                        = project.enums[type[script.ast[i].kids[1]][2]].members
      OBVIOUS
  <2>1. ~WhenIncomplete(project, script.ast, type, i)
    <3> DEFINE analysed == {k \in DOMAIN project.scripts :
                              ~project.scripts[k].broken /\ ~project.scripts[k].deep}
               Nodes(op) == UNION {{<<k, n>> : n \in {m \in DOMAIN project.scripts[k].ast :
                                       project.scripts[k].ast[m].op = op}} : k \in analysed}
               Incomplete(x) ==
                 LET s == project.scripts[x[1]]
                 IN  WhenIncomplete(project, s.ast,
                                    TypesOf(project, s.ast, ScopeOf(project, s, returns)), x[2])
    <3>1. tally = Completeness(project, returns)
          BY DEF TallyInv
    <3>2. tally.incomplete = {x \in Nodes("when") : Incomplete(x)}
          BY <3>1 DEF Completeness
    <3>3. <<j, i>> \in Nodes("when")
          OBVIOUS
    <3>4. Incomplete(<<j, i>>) <=> WhenIncomplete(project, script.ast, type, i)
          OBVIOUS
    <3> HIDE DEF Nodes, Incomplete, type
    <3> QED BY <3>2, <3>3, <3>4
  <2>2. ASSUME NEW f \in WhenFindings(project, script.ast, type, i)
        PROVE  f.node \notin {i, script.ast[i].kids[1]}
    <3>1. [script |-> script.name, found |-> f] \in reported
          BY WhenReported
    <3> QED BY <3>1
  <2>3. \A f \in WhenFindings(project, script.ast, type, i) :
          f.node \notin {i, script.ast[i].kids[1]}
        BY <2>2
  <2> HIDE DEF type, script
  <2>4. ArmsCover(project, script.ast, type, i)
        BY <2>1, <2>3, WhenJudged
  <2> QED BY <2>4 DEF ArmsCover
<1> QED BY <1>1, <1>2, ProjectInit, ProjectStep, ReportStep, TallyStep, PTL DEF Spec

-----------------------------------------------------------------------------
StoreCodes == {"T003", "T005", "T006", "T030"}

LEMMA FloatIsNotIntegral == \A t : IsIntegral(t) => t # Float /\ t # Unknown
BY DEF IsIntegral, Integer, Unsigned, Float, Unknown

\* What T003 and what T030 take the target of an assignment to be agree.
LEMMA TargetsAgree ==
  ASSUME NEW p, NEW name, NEW scope,
         IsIntegral(TargetType(p, name, scope)), MemberOf(p, name) = 0
  PROVE  NameType(p, name, scope) = TargetType(p, name, scope)
<1>1. TargetType(p, name, scope) # Unknown
      BY FloatIsNotIntegral
<1>2. CASE IsSymbol(p, name, scope) /\ p.symbols[name].kind \in {"Channel", "Parameter"}
  <2>1. ~(IsLocal(name, scope) \/ IsArgument(p, name, scope))
        BY <1>2 DEF IsSymbol
  <2> QED BY <1>2, <2>1 DEF NameType, TargetType
<1>3. CASE ~(IsSymbol(p, name, scope) /\ p.symbols[name].kind \in {"Channel", "Parameter"})
  <2>1. IsLocal(name, scope) \/ IsArgument(p, name, scope)
        BY <1>1, <1>3 DEF TargetType
  <2>2. ~IsSymbol(p, name, scope)
        BY <2>1 DEF IsSymbol
  <2> QED BY <2>1, <2>2 DEF NameType, TargetType
<1> QED BY <1>2, <1>3

\* Every finding of one of the four codes on an assignment is that of the
\* rules on assignments.
LEMMA StoreFindings ==
  ASSUME NEW p, NEW script, NEW ret, ~script.broken, ~script.deep,
         NEW i \in DOMAIN script.ast, script.ast[i].op = "assign",
         NEW f, f.node = i, f.code \in StoreCodes
  PROVE  LET scope == ScopeOf(p, script, ret)
             type == TypesOf(p, script.ast, scope)
         IN  f \in ScriptFindings(p, script, ret)
               <=> f \in AssignFindings(p, script.ast, type, scope, i)
<1> DEFINE scope == ScopeOf(p, script, ret)
           ast == script.ast
           type == TypesOf(p, ast, scope)
           All(k) == UNION {
             OperatorFindings(p, ast, type, k), ComplementFindings(ast, type, k),
             AssignFindings(p, ast, type, scope, k), DeclarationFindings(ast, type, k),
             CallFindings(p, ast, type, scope, k), WhenFindings(p, ast, type, k)}
<1>1. ScriptFindings(p, script, ret) = UNION {All(k) : k \in DOMAIN ast}
      BY DEF ScriptFindings
<1> HIDE DEF type, scope
<1>2. ASSUME NEW k \in DOMAIN ast, f \in OperatorFindings(p, ast, type, k) PROVE FALSE
  <2>1. ast[k].op = "binary" /\ f.node = k
        BY <1>2 DEF OperatorFindings, Report
  <2> QED BY <2>1
<1>3. ASSUME NEW k \in DOMAIN ast, f \in ComplementFindings(ast, type, k) PROVE FALSE
  <2>1. ast[k].op = "unary" /\ f.node = k
        BY <1>3 DEF ComplementFindings, Report
  <2> QED BY <2>1
<1>4. ASSUME NEW k \in DOMAIN ast, f \in DeclarationFindings(ast, type, k) PROVE FALSE
  <2>1. ast[k].op = "local" /\ f.node = k
        BY <1>4 DEF DeclarationFindings, Report
  <2> QED BY <2>1
<1>5. ASSUME NEW k \in DOMAIN ast, f \in CallFindings(p, ast, type, scope, k) PROVE FALSE
  <2> DEFINE args == [m \in DOMAIN ast[k].kids |-> type[ast[k].kids[m]]]
  <2>1. ASSUME f \in ArgumentFindings(p, ast[k], args, k) PROVE f.code = "T085"
    <3> DEFINE params == p.symbols[ast[k].name].params
    <3>1. CASE Len(args) # Len(params)
          BY <2>1, <3>1 DEF ArgumentFindings, Report
    <3>2. CASE Len(args) = Len(params)
      <4>1. PICK m \in DOMAIN args :
              f \in Report(/\ IsKnown(args[m]) /\ IsKnown(params[m].type)
                          /\ ~Compatible(params[m].type, args[m]),
                          ast[k].kids[m], "T085", "Warning")
            BY <2>1, <3>2 DEF ArgumentFindings
      <4> QED BY <4>1 DEF Report
    <3> QED BY <3>1, <3>2
  <2>2. f.code \in {"T064", "T065", "T085"}
        BY <1>5, <2>1 DEF CallFindings, Report
  <2> QED BY <2>2 DEF StoreCodes
<1>6. ASSUME NEW k \in DOMAIN ast, f \in WhenFindings(p, ast, type, k) PROVE FALSE
  <2> DEFINE subject == type[ast[k].kids[1]]
             enum == p.enums[subject[2]]
  <2>1. f.code \in {"T082", "T020", "T070"}
    <3>1. CASE ~IsEnum(subject)
      <4>1. f \in Report(IsKnown(subject), ast[k].kids[1], "T082", "Error")
            BY <1>6, <3>1 DEF WhenFindings
      <4> QED BY <4>1 DEF Report
    <3>2. CASE IsEnum(subject)
      <4>1. \/ f \in Report(~(UNION ast[k].arms \subseteq enum.members), k, "T020", "Error")
            \/ f \in Report(~(enum.members \subseteq UNION ast[k].arms), k, "T070", "Error")
            BY <1>6, <3>2 DEF WhenFindings
      <4>2. CASE f \in Report(~(UNION ast[k].arms \subseteq enum.members), k, "T020", "Error")
            BY <4>2 DEF Report
      <4>3. CASE f \in Report(~(enum.members \subseteq UNION ast[k].arms), k, "T070", "Error")
            BY <4>3 DEF Report
      <4> QED BY <4>1, <4>2, <4>3
    <3> QED BY <3>1, <3>2
  <2> QED BY <2>1 DEF StoreCodes
<1>7. ASSUME NEW k \in DOMAIN ast, f \in AssignFindings(p, ast, type, scope, k) PROVE k = i
  <2>1. f.node = k
        BY <1>7 DEF AssignFindings, Report
  <2> QED BY <2>1
<1>8. f \in ScriptFindings(p, script, ret) <=> \E k \in DOMAIN ast : f \in All(k)
      BY <1>1
<1>9. \A k \in DOMAIN ast : f \in All(k) <=> f \in AssignFindings(p, ast, type, scope, k)
      BY <1>2, <1>3, <1>4, <1>5, <1>6
<1> HIDE DEF All
<1>10. f \in ScriptFindings(p, script, ret) <=> f \in AssignFindings(p, ast, type, scope, i)
      BY <1>7, <1>8, <1>9
<1> QED BY <1>10 DEF type, scope

\* The rules on assignments share the operators out among them: a store that
\* narrows is the business of one.
LEMMA OneRule ==
  ASSUME NEW p, NEW ast, NEW type, NEW scope, NEW i \in DOMAIN ast,
         ast[i].op = "assign", ast[i].sign \in AssignSigns,
         NEW name, name = ast[ast[i].kids[1]].name,
         IsIntegral(TargetType(p, name, scope)), MemberOf(p, name) = 0,
         type[ast[i].kids[2]] = Float
  PROVE  \E f : /\ f.node = i /\ f.code \in StoreCodes
                /\ \A g : (g \in AssignFindings(p, ast, type, scope, i) /\ g.code \in StoreCodes)
                            <=> g = f
<1> DEFINE sign == ast[i].sign
           target == TargetType(p, name, scope)
           code == CASE sign = "=" -> "T030"
                     [] sign \in Compound -> "T003"
                     [] sign = "%=" -> "T005"
                     [] OTHER -> "T006"
           one == [node |-> i, code |-> code,
                   severity |-> IF sign \in Compound THEN "Warning" ELSE "Error"]
<1>1. NameType(p, name, scope) = target /\ target # Float /\ IsKnown(target) /\ IsKnown(Float)
      BY TargetsAgree, FloatIsNotIntegral DEF IsKnown, Float, Unknown
<1>2. Narrows(target, Float) /\ ~Compatible(target, Float)
      BY <1>1 DEF Narrows, Compatible, IsIntegral, Integer, Unsigned, Float
<1>3. CompoundNarrows(sign, target, Float) <=> sign \in Compound
      BY <1>2 DEF CompoundNarrows
<1>4. AssignMismatch(p, ast[i], ast, type, scope) <=> sign = "="
      BY <1>1, <1>2 DEF AssignMismatch, Compound
<1>5. FloatModulo(sign, target, Float) <=> sign = "%="
      BY DEF FloatModulo, AssignSigns, Compound, CompoundBits
<1>6. FloatBits(sign, target, Float) <=> sign \in CompoundBits
      BY DEF FloatBits, AssignSigns, Compound, CompoundBits, Bitwise
<1>7. ASSUME NEW g, g.code # "T086"
      PROVE  g \in AssignFindings(p, ast, type, scope, i) <=>
               \/ sign \in Compound /\ g = [node |-> i, code |-> "T003", severity |-> "Warning"]
               \/ sign = "=" /\ g = [node |-> i, code |-> "T030", severity |-> "Error"]
               \/ sign = "%=" /\ g = [node |-> i, code |-> "T005", severity |-> "Error"]
               \/ sign \in CompoundBits /\ g = [node |-> i, code |-> "T006", severity |-> "Error"]
  <2>1. AssignFindings(p, ast, type, scope, i) = UNION {
          Report(CompoundNarrows(sign, target, Float), i, "T003", "Warning"),
          Report(AssignMismatch(p, ast[i], ast, type, scope), i, "T030",
                 MismatchSeverity(target, Float)),
          Report(FloatModulo(sign, target, Float), i, "T005", "Error"),
          Report(FloatBits(sign, target, Float), i, "T006", "Error"),
          Report(UnitMismatch(p, ast[i], ast, scope), i, "T086", "Warning")}
        BY <1>1 DEF AssignFindings
  <2>2. MismatchSeverity(target, Float) = "Error"
        BY <1>2 DEF MismatchSeverity
  <2>3. g \in Report(CompoundNarrows(sign, target, Float), i, "T003", "Warning")
          <=> sign \in Compound /\ g = [node |-> i, code |-> "T003", severity |-> "Warning"]
        BY <1>3 DEF Report
  <2>4. g \in Report(AssignMismatch(p, ast[i], ast, type, scope), i, "T030",
                     MismatchSeverity(target, Float))
          <=> sign = "=" /\ g = [node |-> i, code |-> "T030", severity |-> "Error"]
        BY <1>4, <2>2 DEF Report
  <2>5. g \in Report(FloatModulo(sign, target, Float), i, "T005", "Error")
          <=> sign = "%=" /\ g = [node |-> i, code |-> "T005", severity |-> "Error"]
        BY <1>5 DEF Report
  <2>6. g \in Report(FloatBits(sign, target, Float), i, "T006", "Error")
          <=> sign \in CompoundBits /\ g = [node |-> i, code |-> "T006", severity |-> "Error"]
        BY <1>6 DEF Report
  <2>7. g \notin Report(UnitMismatch(p, ast[i], ast, scope), i, "T086", "Warning")
        BY <1>7 DEF Report
  <2> QED BY <2>1, <2>3, <2>4, <2>5, <2>6, <2>7
<1>8. one.node = i /\ one.code \in StoreCodes
      BY DEF StoreCodes
<1>9. ASSUME NEW g PROVE (g \in AssignFindings(p, ast, type, scope, i) /\ g.code \in StoreCodes) <=> g = one
      BY <1>7, <1>8 DEF StoreCodes, AssignSigns, Compound, CompoundBits
<1> HIDE DEF one
<1> QED BY <1>8, <1>9

\* For every project, library and edit: a float that is stored in an integral
\* target is reported by exactly one of T003, T005, T006 and T030.
THEOREM NarrowingReported == Spec => []NarrowingReportedOnce
<1>1. Init => ReportInv
      BY DEF Init, ReportInv
<1>2. ProjectInv /\ ReportInv => NarrowingReportedOnce
  <2> SUFFICES ASSUME ProjectInv, ReportInv, phase = "done",
                      NEW j \in DOMAIN project.scripts,
                      ~project.scripts[j].broken, ~project.scripts[j].deep,
                      NEW i \in NarrowingStores(project.scripts[j])
               PROVE  Cardinality({r \in reported :
                        /\ r.script = project.scripts[j].name /\ r.found.node = i
                        /\ r.found.code \in {"T003", "T005", "T006", "T030"}}) = 1
      BY DEF NarrowingReportedOnce
  <2> DEFINE script == project.scripts[j]
             ast == script.ast
             scope == ScopeOf(project, script, returns)
             type == TypesOf(project, ast, scope)
             name == ast[ast[i].kids[1]].name
             narrowed == {r \in reported :
                /\ r.script = script.name /\ r.found.node = i
                /\ r.found.code \in {"T003", "T005", "T006", "T030"}}
  <2>1. /\ i \in DOMAIN ast /\ ast[i].op = "assign"
        /\ IsIntegral(TargetType(project, name, scope)) /\ MemberOf(project, name) = 0
        /\ type[ast[i].kids[2]] = Float
        BY DEF NarrowingStores
  <2>2. ast[i].sign \in AssignSigns
    <3>1. script \in Texts
          BY DEF ProjectInv
    <3> QED BY <2>1, <3>1, ProjectAssumption
  <2>3. \E f : /\ f.node = i /\ f.code \in StoreCodes
               /\ \A g : (g \in AssignFindings(project, ast, type, scope, i) /\ g.code \in StoreCodes)
                           <=> g = f
    <3> HIDE DEF type, scope, ast, name
    <3>1. name = ast[ast[i].kids[1]].name
          BY DEF name
    <3> QED BY <2>1, <2>2, <3>1, OneRule
  <2>4. PICK f : /\ f.node = i /\ f.code \in StoreCodes
                 /\ \A g : (g \in AssignFindings(project, ast, type, scope, i) /\ g.code \in StoreCodes)
                             <=> g = f
        BY <2>3
  <2>5. ASSUME NEW g, g.node = i, g.code \in StoreCodes
        PROVE  g \in ScriptFindings(project, script, returns) <=> g = f
    <3>1. g \in ScriptFindings(project, script, returns)
            <=> g \in AssignFindings(project, ast, type, scope, i)
          BY <2>1, <2>5, StoreFindings
    <3> QED BY <2>4, <2>5, <3>1
  <2> HIDE DEF type, scope
  <2>6. ASSUME NEW r \in narrowed PROVE r = [script |-> script.name, found |-> f]
    <3>1. PICK k \in DOMAIN project.scripts : r \in Findings(project, project.scripts[k], returns)
          BY <2>6 DEF ReportInv, FoundIn
    <3>2. PICK g \in ScriptFindings(project, project.scripts[k], returns) :
            r = [script |-> project.scripts[k].name, found |-> g]
          BY <3>1 DEF Findings
    <3>3. k = j
          BY <2>6, <3>2 DEF ProjectInv
    <3>4. g.node = i /\ g.code \in StoreCodes
          BY <2>6, <3>2 DEF StoreCodes
    <3> QED BY <2>5, <3>2, <3>3, <3>4
  <2>7. [script |-> script.name, found |-> f] \in narrowed
    <3>1. f \in ScriptFindings(project, script, returns)
          BY <2>4, <2>5
    <3>2. [script |-> script.name, found |-> f] \in Findings(project, script, returns)
          BY <3>1 DEF Findings
    <3>3. [script |-> script.name, found |-> f] \in reported
          BY <3>2 DEF ReportInv, FoundIn
    <3> QED BY <2>4, <3>3 DEF StoreCodes
  <2>8. narrowed = {[script |-> script.name, found |-> f]}
        BY <2>6, <2>7
  <2> QED BY <2>8, FS_Singleton
<1> QED BY <1>1, <1>2, ProjectInit, ProjectStep, ReportStep, PTL DEF Spec

-----------------------------------------------------------------------------
(* Where inference ends. *)

\* A nonempty set of natural numbers has a least element.
LEMMA Least ==
  ASSUME NEW T, T \subseteq Nat, T # {}
  PROVE  \E x \in T : \A y \in T : x <= y
<1> DEFINE R == OpToRel(<, Nat)
<1>1. IsWellFoundedOn(R, Nat)
      BY NatLessThanWellFounded
<1>2. \A x, y \in Nat : y < x => <<y, x>> \in R
      BY DEF OpToRel
<1> HIDE DEF R
<1>3. PICK x \in T : \A y \in T : ~(<<y, x>> \in R)
      BY <1>1, WFMin
<1>4. \A y \in T : ~(y < x)
      BY <1>2, <1>3
<1>5. \A y \in T : x <= y
      BY <1>4
<1> QED BY <1>5

\* AfterRounds repeats Round from the declared types on, once for each function.
Declared0(p) == [f \in Functions(p) |-> p.symbols[f].ret]
Links(p) == Cardinality(Functions(p))
Rounds(g, p, k) == g = [n \in 0..k |-> IF n = 0 THEN Declared0(p) ELSE Round(p, g[n - 1])]
After(p) == CHOOSE g : Rounds(g, p, Links(p))

\* A round revises no type.
LEMMA RoundKeeps ==
  ASSUME NEW p, NEW ret
  PROVE  /\ DOMAIN Round(p, ret) = DOMAIN ret
         /\ \A f \in DOMAIN ret : ret[f] # None => Round(p, ret)[f] = ret[f]
         /\ Round(p, ret) = [f \in DOMAIN ret |-> Round(p, ret)[f]]
BY DEF Round

\* The recursion that AfterRounds is defined by has a solution.
LEMMA RoundsExist ==
  ASSUME NEW p, NEW k \in Nat
  PROVE  \E g : Rounds(g, p, k)
<1> DEFINE T == {m \in Nat : ~\E g : Rounds(g, p, m)}
<1> SUFFICES ASSUME T # {} PROVE FALSE
    OBVIOUS
<1>1. T \subseteq Nat
      OBVIOUS
<1>2. PICK m \in T : \A y \in T : m <= y
  <2> HIDE DEF T
  <2> QED BY <1>1, Least
<1>3. m \in Nat /\ ~\E g : Rounds(g, p, m)
      OBVIOUS
<1>4. CASE m = 0
  <2> DEFINE g == [n \in 0..0 |-> Declared0(p)]
  <2>1. Rounds(g, p, 0)
        BY DEF Rounds
  <2> QED BY <1>3, <1>4, <2>1
<1>5. CASE m # 0
  <2>1. m - 1 \in Nat /\ m - 1 \notin T
        BY <1>2, <1>3, <1>5
  <2>2. PICK h : Rounds(h, p, m - 1)
        BY <2>1
  <2> DEFINE g == [n \in 0..m |-> IF n = 0 THEN Declared0(p) ELSE Round(p, h[n - 1])]
  <2>3. \A n \in 0..(m - 1) : g[n] = h[n]
    <3>1. 0..(m - 1) \subseteq 0..m
          BY <1>3
    <3> QED BY <2>2, <3>1 DEF Rounds
  <2>4. \A n \in 0..m : n # 0 => g[n - 1] = h[n - 1]
    <3>1. \A n \in 0..m : n # 0 => n - 1 \in 0..(m - 1)
          BY <1>3
    <3> HIDE DEF g
    <3> QED BY <2>3, <3>1
  <2>5. Rounds(g, p, m)
        BY <2>4 DEF Rounds
  <2> QED BY <1>3, <2>5
<1> QED BY <1>4, <1>5

\* A project has finitely many functions.
LEMMA FunctionsAreFinite ==
  ASSUME NEW p \in Projects
  PROVE  IsFiniteSet(Functions(p)) /\ Links(p) \in Nat
<1>1. IsFiniteSet(DOMAIN p.symbols) /\ Functions(p) \subseteq DOMAIN p.symbols
      BY ProjectAssumption DEF Functions
<1> QED BY <1>1, FS_Subset, FS_CardinalityType DEF Links

\* What the solution is at each round.
LEMMA AfterParts ==
  ASSUME NEW p \in Projects
  PROVE  /\ Settled(p) = After(p)[Links(p)]
         /\ AfterRounds(p) = After(p)
         /\ After(p)[0] = Declared0(p)
         /\ \A n \in 1..Links(p) : After(p)[n] = Round(p, After(p)[n - 1])
<1>1. PICK k \in Nat : k = Links(p)
      BY FunctionsAreFinite
<1>2. PICK g : g = After(p)
      OBVIOUS
<1>3. Rounds(g, p, k)
      BY <1>1, <1>2, RoundsExist DEF After
<1>4. AfterRounds(p) = g
      BY <1>1, <1>2 DEF AfterRounds, After, Rounds, Links, Declared0
<1>6. Settled(p) = g[k]
      BY <1>1, <1>4 DEF Settled, Links
<1>5. 0 \in 0..k /\ \A n \in 1..k : n \in 0..k /\ n # 0
      BY <1>1
<1> QED BY <1>1, <1>2, <1>3, <1>4, <1>5, <1>6 DEF Rounds

\* The functions that have a type after n rounds.
Typed(p, n) == {f \in Functions(p) : After(p)[n][f] # None}

\* Every round is about the same functions.
LEMMA AfterDomain ==
  ASSUME NEW p \in Projects, NEW n \in 0..Links(p)
  PROVE  DOMAIN After(p)[n] = Functions(p)
<1>1. PICK k \in Nat : k = Links(p)
      BY FunctionsAreFinite
<1> DEFINE T == {m \in 0..k : DOMAIN After(p)[m] # Functions(p)}
<1>2. T = {}
  <2> SUFFICES ASSUME T # {} PROVE FALSE
      OBVIOUS
  <2>1. T \subseteq Nat
        OBVIOUS
  <2>2. PICK m \in T : \A y \in T : m <= y
    <3> HIDE DEF T
    <3> QED BY <2>1, Least
  <2>3. m \in 0..k /\ DOMAIN After(p)[m] # Functions(p)
        OBVIOUS
  <2>4. m # 0
        BY <2>3, AfterParts DEF Declared0
  <2>5. m \in 1..k /\ m - 1 \in 0..k /\ m - 1 \notin T
        BY <2>2, <2>3, <2>4
  <2>6. DOMAIN After(p)[m - 1] = Functions(p)
        BY <2>5
  <2>7. After(p)[m] = Round(p, After(p)[m - 1])
        BY <1>1, <2>5, AfterParts
  <2> QED BY <2>3, <2>6, <2>7, RoundKeeps
<1> QED BY <1>1, <1>2

\* A round that changes anything types a function that had no type.
LEMMA RoundMoves ==
  ASSUME NEW p \in Projects, NEW n \in 0..Links(p), Round(p, After(p)[n]) # After(p)[n],
         n # 0 => After(p)[n] = Round(p, After(p)[n - 1])
  PROVE  \E f \in Functions(p) : After(p)[n][f] = None /\ Round(p, After(p)[n])[f] # None
<1>1. PICK a : a = After(p)[n]
      OBVIOUS
<1>2. DOMAIN a = Functions(p)
      BY <1>1, AfterDomain
<1>3. a = [f \in DOMAIN a |-> a[f]]
      BY <1>1, AfterParts, RoundKeeps DEF Declared0
<1>4. \E f \in DOMAIN a : Round(p, a)[f] # a[f]
      BY <1>1, <1>3, RoundKeeps
<1> QED BY <1>1, <1>2, <1>4, RoundKeeps

\* So n rounds have typed n functions, or nothing changes any more.
LEMMA EachRoundTypesOne ==
  ASSUME NEW p \in Projects, NEW n \in 0..Links(p)
  PROVE  \/ Round(p, After(p)[n]) = After(p)[n]
         \/ Cardinality(Typed(p, n)) >= n
<1>1. PICK k \in Nat : k = Links(p)
      BY FunctionsAreFinite
<1> DEFINE A == After(p)
           Moves(m) == Round(p, A[m]) # A[m]
           Count(m) == Cardinality(Typed(p, m))
           T == {m \in 0..k : Moves(m) /\ ~(Count(m) >= m)}
<1>2. \A m : IsFiniteSet(Typed(p, m)) /\ Count(m) \in Nat
  <2>1. \A m : Typed(p, m) \in SUBSET Functions(p)
        BY DEF Typed
  <2> QED BY <2>1, FunctionsAreFinite, FS_Subset, FS_CardinalityType
<1>3. T = {}
  <2> SUFFICES ASSUME T # {} PROVE FALSE
      OBVIOUS
  <2>1. T \subseteq Nat
        OBVIOUS
  <2>2. PICK m \in T : \A y \in T : m <= y
    <3> HIDE DEF T
    <3> QED BY <2>1, Least
  <2>3. m \in 0..k /\ Moves(m) /\ ~(Count(m) >= m)
        OBVIOUS
  <2>4. m # 0
    <3> HIDE DEF Count
    <3> QED BY <1>2, <2>3
  <2>5. m \in 1..k /\ m - 1 \in 0..k /\ m - 1 \notin T
    <3>1. m \in 1..k /\ m - 1 \in 0..k /\ m - 1 < m
          BY <2>3, <2>4
    <3> QED BY <2>2, <3>1
  <2>6. A[m] = Round(p, A[m - 1])
        BY <1>1, <2>5, AfterParts
  <2>7. Moves(m - 1)
        BY <2>3, <2>6
  <2>8. Count(m - 1) >= m - 1
        BY <2>5, <2>7
  <2>9. PICK f \in Functions(p) : A[m - 1][f] = None /\ A[m][f] # None
    <3>1. m - 1 # 0 => A[m - 1] = Round(p, A[m - 1 - 1])
          BY <1>1, <2>5, AfterParts
    <3> QED BY <1>1, <2>5, <2>6, <2>7, <3>1, RoundMoves
  <2>10. Typed(p, m - 1) \in SUBSET Typed(p, m)
    <3>1. DOMAIN A[m - 1] = Functions(p)
          BY <1>1, <2>5, AfterDomain
    <3> QED BY <2>6, <3>1, RoundKeeps DEF Typed
  <2>11. Typed(p, m - 1) # Typed(p, m)
        BY <2>9 DEF Typed
  <2>12. Count(m - 1) <= Count(m) /\ Count(m - 1) # Count(m)
        BY <1>2, <2>10, <2>11, FS_Subset
  <2>13. Count(m) >= m
    <3> HIDE DEF Count
    <3> QED BY <1>2, <2>3, <2>8, <2>12
  <2> QED BY <2>3, <2>13
<1> QED BY <1>1, <1>3

\* After as many rounds as there are functions nothing changes any more.
LEMMA SettledIsFixed ==
  ASSUME NEW p \in Projects
  PROVE  Round(p, Settled(p)) = Settled(p)
<1> SUFFICES ASSUME Round(p, Settled(p)) # Settled(p) PROVE FALSE
    OBVIOUS
<1>1. PICK k \in Nat : k = Links(p)
      BY FunctionsAreFinite
<1>2. k \in 0..Links(p) /\ Settled(p) = After(p)[k]
      BY <1>1, AfterParts
<1>3. Cardinality(Typed(p, k)) >= k
      BY <1>1, <1>2, EachRoundTypesOne
<1>4. Typed(p, k) = Functions(p)
  <2>1. Typed(p, k) \in SUBSET Functions(p)
        BY DEF Typed
  <2>2. /\ Cardinality(Typed(p, k)) <= k /\ Cardinality(Typed(p, k)) \in Nat
        /\ Cardinality(Typed(p, k)) = k => Typed(p, k) = Functions(p)
        BY <1>1, <2>1, FunctionsAreFinite, FS_Subset, FS_CardinalityType DEF Links
  <2> QED BY <1>3, <2>2
<1>5. PICK f \in Functions(p) : After(p)[k][f] = None
  <2>1. k # 0 => After(p)[k] = Round(p, After(p)[k - 1])
        BY <1>1, AfterParts
  <2> QED BY <1>2, <2>1, RoundMoves
<1> QED BY <1>4, <1>5 DEF Typed

\* What a round types keeps its type to the end.
LEMMA RoundsLead ==
  ASSUME NEW p \in Projects, NEW n \in 0..Links(p), NEW f \in Functions(p)
  PROVE  After(p)[n][f] \in {None, Settled(p)[f]}
<1>1. PICK k \in Nat : k = Links(p)
      BY FunctionsAreFinite
<1> DEFINE T == {d \in 0..k : After(p)[k - d][f] \notin {None, Settled(p)[f]}}
<1>2. T = {}
  <2> SUFFICES ASSUME T # {} PROVE FALSE
      OBVIOUS
  <2>1. T \subseteq Nat
        OBVIOUS
  <2>2. PICK d \in T : \A y \in T : d <= y
    <3> HIDE DEF T
    <3> QED BY <2>1, Least
  <2>3. d \in 0..k /\ After(p)[k - d][f] \notin {None, Settled(p)[f]}
        OBVIOUS
  <2>4. d # 0
    <3>1. k - 0 = k
          OBVIOUS
    <3> QED BY <1>1, <2>3, <3>1, AfterParts
  <2>5. d - 1 \in 0..k /\ d - 1 \notin T /\ k - d \in 0..k /\ k - (d - 1) \in 1..k
        /\ k - (d - 1) - 1 = k - d
    <3>1. d - 1 \in 0..k /\ d - 1 < d
          BY <2>3, <2>4
    <3> QED BY <2>2, <2>3, <2>4, <3>1
  <2>6. After(p)[k - (d - 1)] = Round(p, After(p)[k - d])
        BY <1>1, <2>5, AfterParts
  <2>7. After(p)[k - (d - 1)][f] \in {None, Settled(p)[f]}
        BY <2>5
  <2>8. DOMAIN After(p)[k - d] = Functions(p)
        BY <1>1, <2>5, AfterDomain
  <2> QED BY <2>3, <2>6, <2>7, <2>8, RoundKeeps
<1>3. k - n \in 0..k /\ k - (k - n) = n
      BY <1>1
<1> QED BY <1>2, <1>3

\* The types after k runs: a run does one round, as many rounds as there are
\* functions settle them.
Reached(p, k) == IF k <= Links(p) THEN After(p)[k] ELSE Settled(p)

\* A script, one of those that were typed, gives its function a type.
Gives(j, f) ==
  /\ j < at /\ project.scripts[j].fn = f /\ Inferable(project.scripts[j], returns)
  /\ OutReturnType(project, project.scripts[j], returns) # None

\* As long as nobody edits it, k runs of a project have done k rounds, and the
\* pass under way holds what the bodies typed so far give under the table it
\* began with.
SettleInv ==
  /\ runs \in Nat /\ at \in Nat \ {0} /\ phase \in {"infer", "check", "done"}
  /\ phase # "infer" => inferred = Nothing
  /\ ~edited => project \in Projects
  /\ ~edited /\ OneBody(project) =>
       /\ returns = Reached(project, IF phase = "check" THEN runs + 1 ELSE runs)
       /\ phase = "infer" =>
            /\ \A f \in DOMAIN returns :
                 f \in DOMAIN inferred <=> \E j \in DOMAIN project.scripts : Gives(j, f)
            /\ \A j \in DOMAIN project.scripts : \A f \in DOMAIN returns :
                 Gives(j, f) => inferred[f] = OutReturnType(project, project.scripts[j], returns)

\* One more run is one more round; what is typed is what is settled.
LEMMA ReachedNext ==
  ASSUME NEW p \in Projects, NEW k \in Nat
  PROVE  /\ Reached(p, k + 1) = Round(p, Reached(p, k))
         /\ DOMAIN Reached(p, k) = Functions(p)
         /\ \A f \in Functions(p) : Reached(p, k)[f] \in {None, Settled(p)[f]}
         /\ k >= Links(p) => Reached(p, k) = Settled(p)
<1>1. PICK n \in Nat : n = Links(p)
      BY FunctionsAreFinite
<1>2. Settled(p) = After(p)[n]
      BY <1>1, AfterParts
<1>3. k <= n => k \in 0..n
      OBVIOUS
<1>4. n \in 0..n
      OBVIOUS
<1>5. Reached(p, k + 1) = Round(p, Reached(p, k))
  <2>1. CASE k + 1 <= n
    <3>1. k + 1 \in 1..n /\ (k + 1) - 1 = k /\ k <= n
          BY <2>1
    <3> QED BY <1>1, <2>1, <3>1, AfterParts DEF Reached
  <2>2. CASE ~(k + 1 <= n)
    <3>1. k <= n => k = n
          BY <2>2
    <3> QED BY <1>1, <1>2, <2>2, <3>1, SettledIsFixed DEF Reached
  <2> QED BY <2>1, <2>2
<1>6. DOMAIN Reached(p, k) = Functions(p)
      BY <1>1, <1>2, <1>3, <1>4, AfterDomain DEF Reached
<1>7. \A f \in Functions(p) : Reached(p, k)[f] \in {None, Settled(p)[f]}
      BY <1>1, <1>3, RoundsLead DEF Reached
<1>8. k >= n => Reached(p, k) = Settled(p)
  <2>1. k >= n /\ k <= n => k = n
        OBVIOUS
  <2> QED BY <1>1, <1>2, <2>1 DEF Reached
<1> QED BY <1>1, <1>5, <1>6, <1>7, <1>8

\* What one run writes back is one round over the whole project.
LEMMA RunIsRound ==
  ASSUME NEW p, OneBody(p), NEW ret, NEW more,
         \A f \in DOMAIN ret :
           f \in DOMAIN more <=> \E j \in DOMAIN p.scripts :
             /\ p.scripts[j].fn = f /\ Inferable(p.scripts[j], ret)
             /\ OutReturnType(p, p.scripts[j], ret) # None,
         \A f \in DOMAIN ret : \A j \in DOMAIN p.scripts :
             /\ p.scripts[j].fn = f /\ Inferable(p.scripts[j], ret)
             /\ OutReturnType(p, p.scripts[j], ret) # None
             => more[f] = OutReturnType(p, p.scripts[j], ret)
  PROVE  Round(p, ret) = [f \in DOMAIN ret |-> IF f \in DOMAIN more THEN more[f] ELSE ret[f]]
<1> DEFINE Bodies(f) == {k \in DOMAIN p.scripts :
                           p.scripts[k].fn = f /\ Inferable(p.scripts[k], ret)}
           found(f) == {OutReturnType(p, p.scripts[j], ret) : j \in Bodies(f)}
<1>1. SUFFICES ASSUME NEW f \in DOMAIN ret
               PROVE  Round(p, ret)[f] = IF f \in DOMAIN more THEN more[f] ELSE ret[f]
      BY DEF Round
<1>2. Round(p, ret)[f] = IF ret[f] = None /\ Cardinality(found(f)) = 1
                         THEN CHOOSE t \in found(f) : TRUE ELSE ret[f]
      BY DEF Round
<1>3. CASE Bodies(f) = {}
  <2>1. f \notin DOMAIN more
        BY <1>3
  <2>2. Cardinality(found(f)) = 0
    <3>1. found(f) = {}
          BY <1>3
    <3> QED BY <3>1, FS_EmptySet
  <2> QED BY <1>2, <2>1, <2>2
<1>4. CASE Bodies(f) # {}
  <2>1. PICK j \in Bodies(f) : TRUE
        BY <1>4
  <2>2. ret[f] = None /\ f # None
        BY <2>1 DEF Inferable
  <2>3. \A k \in Bodies(f) : k = j
        BY <2>1, <2>2 DEF OneBody
  <2>4. PICK t : t = OutReturnType(p, p.scripts[j], ret)
        OBVIOUS
  <2>5. found(f) = {t}
        BY <2>1, <2>3, <2>4
  <2>6. Cardinality({t}) = 1
        BY FS_Singleton
  <2>7. Round(p, ret)[f] = t
        BY <1>2, <2>2, <2>5, <2>6
  <2>8. f \in DOMAIN more <=> t # None
        BY <2>1, <2>3, <2>4
  <2>9. t # None => more[f] = t
        BY <2>1, <2>4
  <2> QED BY <2>2, <2>7, <2>8, <2>9
<1> QED BY <1>3, <1>4

\* Before the first run no round is done.
LEMMA SettleInit == Init => SettleInv
<1> SUFFICES ASSUME Init PROVE SettleInv
    OBVIOUS
<1>1. /\ project \in Projects /\ returns = Declared0(project) /\ inferred = Nothing
      /\ phase = "infer" /\ at = 1 /\ runs = 0
      BY DEF Init, Declared0
<1>2. returns = Reached(project, 0)
      BY <1>1, AfterParts, FunctionsAreFinite DEF Reached
<1>3. \A f : \A j \in DOMAIN project.scripts : ~Gives(j, f)
  <2>1. project.scripts \in Seq(Texts)
        BY <1>1, ProjectAssumption
  <2> QED BY <1>1, <2>1 DEF Gives
<1>4. DOMAIN Nothing = {}
      BY DEF Nothing
<1> QED BY <1>1, <1>2, <1>3, <1>4 DEF SettleInv

\* Every step keeps it; WriteReturns is the round.
LEMMA SettleStep == SettleInv /\ [Next]_vars => SettleInv'
<1> SUFFICES ASSUME SettleInv, [Next]_vars PROVE SettleInv'
    OBVIOUS
<1>1. CASE InferScript
  <2>1. /\ phase = "infer" /\ at <= Len(project.scripts) /\ at' = at + 1
        /\ UNCHANGED <<project, returns, phase, runs, edited>>
        BY <1>1 DEF InferScript
  <2> SUFFICES ASSUME ~edited, OneBody(project)
               PROVE /\ \A f \in DOMAIN returns :
                          f \in DOMAIN inferred' <=> \E j \in DOMAIN project.scripts : Gives(j, f)'
                     /\ \A j \in DOMAIN project.scripts : \A f \in DOMAIN returns :
                          Gives(j, f)' => inferred'[f] = OutReturnType(project, project.scripts[j], returns)
      BY <2>1 DEF SettleInv
  <2>2. project.scripts \in Seq(Texts) /\ at \in DOMAIN project.scripts
    <3>1. project.scripts \in Seq(Texts) /\ at \in Nat \ {0}
          BY ProjectAssumption DEF SettleInv
    <3> QED BY <2>1, <3>1
  <2> DEFINE script == project.scripts[at]
             type == OutReturnType(project, script, returns)
  <2>3. inferred' = IF Inferable(script, returns) /\ type # None
                    THEN With(inferred, script.fn, type) ELSE inferred
        BY <1>1 DEF InferScript
  <2>4. \A j \in DOMAIN project.scripts : \A f :
          Gives(j, f)' <=> \/ Gives(j, f)
                           \/ j = at /\ script.fn = f /\ Inferable(script, returns) /\ type # None
    <3>1. \A j \in DOMAIN project.scripts : j < at + 1 <=> j < at \/ j = at
          BY <2>2 DEF SettleInv
    <3> QED BY <2>1, <3>1 DEF Gives
  <2>5. \A f : script.fn = f /\ Inferable(script, returns) =>
                 \A j \in DOMAIN project.scripts : ~Gives(j, f)
    <3>1. ~(at < at)
          BY DEF SettleInv
    <3> QED BY <2>2, <3>1 DEF Gives, OneBody, Inferable
  <2>6. CASE Inferable(script, returns) /\ type # None
    <3>1. inferred' = With(inferred, script.fn, type)
          BY <2>3, <2>6
    <3>2. /\ DOMAIN inferred' = DOMAIN inferred \union {script.fn}
          /\ inferred'[script.fn] = type
          /\ \A f \in DOMAIN inferred : f # script.fn => inferred'[f] = inferred[f]
          BY <3>1 DEF With
    <3>3. ASSUME NEW f \in DOMAIN returns
          PROVE  /\ f \in DOMAIN inferred' <=> \E j \in DOMAIN project.scripts : Gives(j, f)'
                 /\ \A j \in DOMAIN project.scripts :
                      Gives(j, f)' => inferred'[f] = OutReturnType(project, project.scripts[j], returns)
      <4>1. CASE f = script.fn
            BY <2>1, <2>2, <2>4, <2>5, <2>6, <3>2, <4>1
      <4>2. CASE f # script.fn
        <5>1. \A j \in DOMAIN project.scripts : Gives(j, f)' <=> Gives(j, f)
              BY <2>4, <4>2
        <5>2. f \in DOMAIN inferred <=> \E j \in DOMAIN project.scripts : Gives(j, f)
              BY <2>1 DEF SettleInv
        <5>3. \A j \in DOMAIN project.scripts :
                Gives(j, f) => inferred[f] = OutReturnType(project, project.scripts[j], returns)
              BY <2>1 DEF SettleInv
        <5> QED BY <3>2, <4>2, <5>1, <5>2, <5>3
      <4> QED BY <4>1, <4>2
    <3> QED BY <3>3
  <2>7. CASE ~(Inferable(script, returns) /\ type # None)
    <3>1. inferred' = inferred /\ \A j \in DOMAIN project.scripts : \A f : Gives(j, f)' <=> Gives(j, f)
          BY <2>3, <2>4, <2>7
    <3> QED BY <2>1, <3>1 DEF SettleInv
  <2> QED BY <2>6, <2>7
<1>2. CASE WriteReturns
  <2>1. /\ phase = "infer" /\ phase' = "check" /\ at > Len(project.scripts) /\ at' = 1
        /\ inferred' = Nothing /\ UNCHANGED <<project, runs, edited>>
        /\ returns' = [f \in DOMAIN returns |->
                         IF f \in DOMAIN inferred THEN inferred[f] ELSE returns[f]]
        BY <1>2 DEF WriteReturns
  <2> SUFFICES ASSUME ~edited, OneBody(project) PROVE returns' = Reached(project, runs + 1)
      BY <2>1 DEF SettleInv
  <2>2. \A j \in DOMAIN project.scripts : j < at
    <3>1. project.scripts \in Seq(Texts) /\ at \in Nat \ {0}
          BY ProjectAssumption DEF SettleInv
    <3> QED BY <2>1, <3>1
  <2>3. /\ \A f \in DOMAIN returns :
             f \in DOMAIN inferred <=> \E j \in DOMAIN project.scripts :
               /\ project.scripts[j].fn = f /\ Inferable(project.scripts[j], returns)
               /\ OutReturnType(project, project.scripts[j], returns) # None
        /\ \A f \in DOMAIN returns : \A j \in DOMAIN project.scripts :
               /\ project.scripts[j].fn = f /\ Inferable(project.scripts[j], returns)
               /\ OutReturnType(project, project.scripts[j], returns) # None
               => inferred[f] = OutReturnType(project, project.scripts[j], returns)
        BY <2>1, <2>2 DEF SettleInv, Gives
  <2>4. returns' = Round(project, returns)
        BY <2>1, <2>3, RunIsRound
  <2>5. returns = Reached(project, runs) /\ project \in Projects /\ runs \in Nat
        BY <2>1 DEF SettleInv
  <2> QED BY <2>4, <2>5, ReachedNext
<1>3. CASE CheckScript \/ Analyze \/ UNCHANGED vars
  <2>1. /\ UNCHANGED <<project, returns, inferred, phase, runs, edited>>
        /\ phase = "infer" => at' = at
        /\ at' \in {at, at + 1}
        BY <1>3 DEF CheckScript, Analyze, vars
  <2> QED BY <2>1 DEF SettleInv, Gives
<1>4. CASE EndRun
  <2>1. /\ phase = "check" /\ phase' = "done" /\ runs' = runs + 1
        /\ UNCHANGED <<project, returns, inferred, at, edited>>
        BY <1>4 DEF EndRun
  <2> QED BY <2>1 DEF SettleInv
<1>5. CASE CheckAgain
  <2>1. /\ phase = "done" /\ phase' = "infer" /\ at' = 1
        /\ UNCHANGED <<project, returns, inferred, runs, edited>>
        BY <1>5 DEF CheckAgain
  <2>2. ASSUME ~edited PROVE \A f : \A j \in DOMAIN project.scripts : ~Gives(j, f)'
    <3>1. project.scripts \in Seq(Texts)
          BY <2>2, ProjectAssumption DEF SettleInv
    <3>2. \A j \in DOMAIN project.scripts : ~(j < 1)
          BY <3>1
    <3> QED BY <2>1, <3>2 DEF Gives
  <2>3. inferred = Nothing /\ DOMAIN Nothing = {}
        BY <2>1 DEF SettleInv, Nothing
  <2> QED BY <2>1, <2>2, <2>3 DEF SettleInv
<1>6. CASE Edit
  <2>1. edited' = TRUE /\ phase' = "infer" /\ at' = 1 /\ runs' = runs
        BY <1>6 DEF Edit
  <2> QED BY <2>1 DEF SettleInv
<1> QED BY <1>1, <1>2, <1>3, <1>4, <1>5, <1>6 DEF Next

\* For every project with one body per function, library and number of runs: a
\* run infers what a round over the whole project gives, in whatever order the
\* scripts stand, and after as many runs as there are functions the table is
\* settled (project.rs:234).
THEOREM InferenceCorrect == Spec => []InferenceSettles
<1>1. SettleInv => InferenceSettles
  <2> SUFFICES ASSUME SettleInv, phase = "done", ~edited, OneBody(project)
               PROVE  returns = IF runs < Cardinality(DOMAIN returns)
                                THEN RoundsIn[project][runs] ELSE SettledIn[project]
      BY DEF InferenceSettles
  <2>1. project \in Projects /\ returns = Reached(project, runs) /\ runs \in Nat
        BY DEF SettleInv
  <2>2. RoundsIn[project] = After(project) /\ SettledIn[project] = Settled(project)
        BY <2>1, AfterParts DEF RoundsIn, SettledIn
  <2>3. DOMAIN returns = Functions(project) /\ Links(project) \in Nat
        BY <2>1, ReachedNext, FunctionsAreFinite
  <2>4. CASE runs < Links(project)
        BY <2>1, <2>2, <2>3, <2>4 DEF Links, Reached
  <2>5. CASE ~(runs < Links(project))
    <3>1. Reached(project, runs) = Settled(project)
          BY <2>1, <2>3, <2>5, ReachedNext
    <3> QED BY <2>1, <2>2, <2>3, <2>5, <3>1 DEF Links
  <2> QED BY <2>4, <2>5
<1> QED BY <1>1, SettleInit, SettleStep, PTL DEF Spec

-----------------------------------------------------------------------------
(* Types and findings are monotone in the return types that are known. *)

\* What TypesOf makes of one node, from the types of those before it.
TypeAt(p, ast, scope, i, type) ==
        LET n == ast[i]
            kid(k) == type[n.kids[k]]
        IN  CASE n.op = "number" -> LiteralType(n.marks)
              [] n.op = "boolean" -> Boolean
              [] n.op = "string" -> String
              [] n.op = "name" -> NameType(p, n.name, scope)
              [] n.op = "paren" -> kid(1)
              [] n.op = "call" ->
                   CallType(p, n.name, [k \in DOMAIN n.kids |-> kid(k)], scope)
              [] n.op = "unary" -> IF n.sign = "not" THEN Boolean ELSE kid(1)
              [] n.op = "ternary" ->
                   IF kid(2) = kid(3) THEN kid(2) ELSE NumericJoin(kid(2), kid(3))
              [] n.op = "binary" -> BinaryType(n.sign, kid(1), kid(2))
              [] OTHER -> Unknown

TypesOfIs(p, ast, scope, g) == g = [i \in DOMAIN ast |-> TypeAt(p, ast, scope, i, g)]

\* TypesOf chooses the solution of the recursion.
LEMMA TypesOfChoice ==
  ASSUME NEW p, NEW ast, NEW scope
  PROVE  TypesOf(p, ast, scope) = CHOOSE g : TypesOfIs(p, ast, scope, g)
BY DEF TypesOf, TypesOfIs, TypeAt

\* ... operator by operator.
TypeAtSays(p, n, scope, g, t) ==
  /\ n.op = "number" => t = LiteralType(n.marks)
  /\ n.op = "boolean" => t = Boolean
  /\ n.op = "string" => t = String
  /\ n.op = "name" => t = NameType(p, n.name, scope)
  /\ n.op = "paren" => t = g[n.kids[1]]
  /\ n.op = "call" => t = CallType(p, n.name, [k \in DOMAIN n.kids |-> g[n.kids[k]]], scope)
  /\ n.op = "unary" => t = IF n.sign = "not" THEN Boolean ELSE g[n.kids[1]]
  /\ n.op = "ternary" => t = IF g[n.kids[2]] = g[n.kids[3]] THEN g[n.kids[2]]
                            ELSE NumericJoin(g[n.kids[2]], g[n.kids[3]])
  /\ n.op = "binary" => t = BinaryType(n.sign, g[n.kids[1]], g[n.kids[2]])
  /\ n.op \notin {"number", "boolean", "string", "name", "paren", "call", "unary",
                  "ternary", "binary"} => t = Unknown

\* TypeAt says that and nothing else.
LEMMA TypeAtCases ==
  ASSUME NEW p, NEW ast, NEW scope, NEW i, NEW g
  PROVE  TypeAtSays(p, ast[i], scope, g, TypeAt(p, ast, scope, i, g))
BY DEF TypeAt, TypeAtSays

\* A text whose nodes stand behind those under them and have enough of those.
Tree(ast) ==
  /\ Len(ast) \in Nat /\ DOMAIN ast = 1..Len(ast)
  /\ \A i \in DOMAIN ast :
       ast[i].kids \in Seq(1..i - 1) /\ Len(ast[i].kids) >= Arity(ast[i].op)

\* The nodes under one stand before it.
LEMMA Under ==
  ASSUME NEW ast, Tree(ast), NEW i \in DOMAIN ast
  PROVE  /\ \A k \in DOMAIN ast[i].kids : ast[i].kids[k] \in 1..i - 1
         /\ ast[i].op \in {"paren", "unary", "when"} => ast[i].kids[1] \in 1..i - 1
         /\ ast[i].op \in {"binary", "assign"} =>
              ast[i].kids[1] \in 1..i - 1 /\ ast[i].kids[2] \in 1..i - 1
         /\ ast[i].op = "ternary" =>
              ast[i].kids[2] \in 1..i - 1 /\ ast[i].kids[3] \in 1..i - 1
         /\ i \in Nat /\ 1..i - 1 \in SUBSET DOMAIN ast
<1> DEFINE kids == ast[i].kids
<1>1. kids \in Seq(1..i - 1) /\ Len(kids) >= Arity(ast[i].op) /\ Len(kids) \in Nat
      /\ DOMAIN kids = 1..Len(kids)
      BY DEF Tree
<1>2. \A k \in DOMAIN kids : kids[k] \in 1..i - 1
  <2> DEFINE S == 1..i - 1
  <2>1. kids \in Seq(S)
        BY <1>1
  <2> HIDE DEF S, kids
  <2>2. \A k \in DOMAIN kids : kids[k] \in S
        BY <2>1
  <2> QED BY <2>2 DEF S
<1>3. i \in Nat /\ 1..i - 1 \in SUBSET DOMAIN ast
      BY DEF Tree
<1>4. CASE ast[i].op \in {"paren", "unary", "when"}
  <2>1. Arity(ast[i].op) = 1
        BY <1>4 DEF Arity
  <2>2. 1 \in DOMAIN kids
        BY <1>1, <2>1
  <2> QED BY <1>2, <1>3, <1>4, <2>2
<1>5. CASE ast[i].op \in {"binary", "assign"}
  <2>1. Arity(ast[i].op) = 2
        BY <1>5 DEF Arity
  <2>2. 1 \in DOMAIN kids /\ 2 \in DOMAIN kids
        BY <1>1, <2>1
  <2> QED BY <1>2, <1>3, <1>5, <2>2
<1>6. CASE ast[i].op = "ternary"
  <2>1. Arity(ast[i].op) = 3
        BY <1>6 DEF Arity
  <2>2. 2 \in DOMAIN kids /\ 3 \in DOMAIN kids
        BY <1>1, <2>1
  <2> QED BY <1>2, <1>3, <1>6, <2>2
<1> QED BY <1>2, <1>3, <1>4, <1>5, <1>6

\* The type of a node depends on those of the nodes before it only.
LEMMA TypeAtLocal ==
  ASSUME NEW p, NEW ast, Tree(ast), NEW scope, NEW i \in DOMAIN ast, NEW g, NEW h,
         \A j \in 1..i - 1 : g[j] = h[j]
  PROVE  TypeAt(p, ast, scope, i, g) = TypeAt(p, ast, scope, i, h)
<1> DEFINE n == ast[i]
<1>0. /\ TypeAtSays(p, n, scope, g, TypeAt(p, ast, scope, i, g))
      /\ TypeAtSays(p, n, scope, h, TypeAt(p, ast, scope, i, h))
      BY TypeAtCases
<1>1. CASE n.op = "call"
  <2>1. [k \in DOMAIN n.kids |-> g[n.kids[k]]] = [k \in DOMAIN n.kids |-> h[n.kids[k]]]
        BY Under
  <2> QED BY <1>1, <2>1, <1>0 DEF TypeAtSays
<1>2. CASE n.op = "paren"
  <2>1. g[n.kids[1]] = h[n.kids[1]]
        BY <1>2, Under
  <2> QED BY <1>2, <2>1, <1>0 DEF TypeAtSays
<1>3. CASE n.op = "unary"
  <2>1. g[n.kids[1]] = h[n.kids[1]]
        BY <1>3, Under
  <2> QED BY <1>3, <2>1, <1>0 DEF TypeAtSays
<1>4. CASE n.op = "ternary"
  <2>1. g[n.kids[2]] = h[n.kids[2]] /\ g[n.kids[3]] = h[n.kids[3]]
        BY <1>4, Under
  <2> QED BY <1>4, <2>1, <1>0 DEF TypeAtSays
<1>5. CASE n.op = "binary"
  <2>1. g[n.kids[1]] = h[n.kids[1]] /\ g[n.kids[2]] = h[n.kids[2]]
        BY <1>5, Under
  <2> QED BY <1>5, <2>1, <1>0 DEF TypeAtSays
<1>6. CASE n.op \notin {"call", "paren", "unary", "ternary", "binary"}
      BY <1>6, <1>0 DEF TypeAtSays
<1> QED BY <1>1, <1>2, <1>3, <1>4, <1>5, <1>6

\* The recursion that TypesOf is defined by has a solution.
Upto(p, ast, scope, k, g) == g = [i \in 1..k |-> TypeAt(p, ast, scope, i, g)]

LEMMA TypesExist ==
  ASSUME NEW p, NEW ast, Tree(ast), NEW scope
  PROVE  \E g : TypesOfIs(p, ast, scope, g)
<1> DEFINE T == {m \in 0..Len(ast) : ~\E g : Upto(p, ast, scope, m, g)}
<1>1. Len(ast) \in Nat /\ DOMAIN ast = 1..Len(ast)
      BY DEF Tree
<1>2. T = {}
  <2> SUFFICES ASSUME T # {} PROVE FALSE
      OBVIOUS
  <2>1. T \subseteq Nat
        BY <1>1
  <2>2. PICK m \in T : \A y \in T : m <= y
    <3> HIDE DEF T
    <3> QED BY <2>1, Least
  <2>3. m \in 0..Len(ast) /\ ~\E g : Upto(p, ast, scope, m, g)
        OBVIOUS
  <2>4. CASE m = 0
    <3>1. 1..0 = {}
          OBVIOUS
    <3> DEFINE g == [i \in 1..0 |-> TypeAt(p, ast, scope, i, Nothing)]
    <3>2. g = [i \in 1..0 |-> TypeAt(p, ast, scope, i, g)]
          BY <3>1
    <3>3. Upto(p, ast, scope, 0, g)
          BY <3>2 DEF Upto
    <3> QED BY <2>3, <2>4, <3>3
  <2>5. CASE m # 0
    <3>1. m - 1 \in 0..Len(ast) /\ m - 1 \notin T /\ m \in DOMAIN ast
          BY <1>1, <2>2, <2>3, <2>5
    <3>2. PICK h : Upto(p, ast, scope, m - 1, h)
          BY <3>1
    <3> DEFINE g == [i \in 1..m |-> TypeAt(p, ast, scope, i, h)]
    <3>3. \A i \in 1..m - 1 : i \in 1..m /\ i \in DOMAIN ast
          BY <1>1, <2>3
    <3>4. \A i \in 1..m - 1 : g[i] = h[i]
      <4>1. \A i \in 1..m - 1 : h[i] = TypeAt(p, ast, scope, i, h)
            BY <3>2 DEF Upto
      <4> QED BY <3>3, <4>1
    <3> HIDE DEF g
    <3>5. ASSUME NEW i \in 1..m PROVE TypeAt(p, ast, scope, i, h) = TypeAt(p, ast, scope, i, g)
      <4>1. i \in DOMAIN ast /\ \A j \in 1..i - 1 : j \in 1..m - 1
            BY <1>1, <2>3
      <4>2. \A j \in 1..i - 1 : h[j] = g[j]
            BY <3>4, <4>1
      <4> QED BY <4>1, <4>2, TypeAtLocal
    <3>6. Upto(p, ast, scope, m, g)
          BY <3>5 DEF Upto, g
    <3> QED BY <2>3, <3>6
  <2> QED BY <2>4, <2>5
<1>3. PICK g : Upto(p, ast, scope, Len(ast), g)
      BY <1>1, <1>2
<1> QED BY <1>1, <1>3 DEF Upto, TypesOfIs

\* What the types of a text are, node by node.
LEMMA TypesParts ==
  ASSUME NEW p, NEW ast, Tree(ast), NEW scope
  PROVE  /\ DOMAIN TypesOf(p, ast, scope) = DOMAIN ast
         /\ \A i \in DOMAIN ast :
              TypesOf(p, ast, scope)[i] = TypeAt(p, ast, scope, i, TypesOf(p, ast, scope))
<1>1. TypesOfIs(p, ast, scope, TypesOf(p, ast, scope))
      BY TypesOfChoice, TypesExist
<1> QED BY <1>1 DEF TypesOfIs

\* A text calls methods of the library only, or none of them (Plain).
OnlyLibrary(ast) == \A i \in DOMAIN ast : ast[i].op = "call" => ast[i].name \in DOMAIN Library
NoLibrary(ast) == \A i \in DOMAIN ast : ast[i].op = "call" => ast[i].name \notin DOMAIN Library

\* With less known about the functions, a type is the same or not known; the
\* same where no function is called.
Weaker(ast, a, b) == a = b \/ (a = Unknown /\ ~OnlyLibrary(ast))

\* Two scopes that differ in what is known about the functions.
WeakerLocals(ast, a, b) ==
  DOMAIN a = DOMAIN b /\ \A x \in DOMAIN a : Weaker(ast, a[x], b[x])
WeakerScope(p, ast, s, t) ==
  /\ s.project = t.project /\ s.fn = t.fn
  /\ WeakerLocals(ast, s.locals, t.locals)
  /\ \A f \in Functions(p) : s.returns[f] \in {None, t.returns[f]}

\* A name stands for the same thing in both.
LEMMA SameNames ==
  ASSUME NEW p, NEW ast, NEW s, NEW t, WeakerScope(p, ast, s, t), NEW name
  PROVE  /\ Parameters(p, s) = Parameters(p, t)
         /\ IsLocal(name, s) <=> IsLocal(name, t)
         /\ IsArgument(p, name, s) <=> IsArgument(p, name, t)
         /\ IsSymbol(p, name, s) <=> IsSymbol(p, name, t)
         /\ IsFunction(p, name, s) <=> IsFunction(p, name, t)
<1>1. Parameters(p, s) = Parameters(p, t)
      BY DEF WeakerScope, Parameters
<1>2. IsLocal(name, s) <=> IsLocal(name, t)
      BY DEF WeakerScope, WeakerLocals, IsLocal
<1>3. IsArgument(p, name, s) <=> IsArgument(p, name, t)
      BY <1>1 DEF IsArgument
<1>4. IsSymbol(p, name, s) <=> IsSymbol(p, name, t)
      BY <1>2, <1>3 DEF IsSymbol, WeakerScope
<1> QED BY <1>1, <1>2, <1>3, <1>4 DEF IsFunction

\* So a name has a weaker type, as a value and as a target.
LEMMA WeakerNames ==
  ASSUME NEW p, NEW ast, NEW s, NEW t, WeakerScope(p, ast, s, t), NEW name
  PROVE  /\ IsLocal(name, s) \/ IsArgument(p, name, s) =>
              Weaker(ast, LocalType(p, name, s), LocalType(p, name, t))
         /\ Weaker(ast, NameType(p, name, s), NameType(p, name, t))
         /\ Weaker(ast, TargetType(p, name, s), TargetType(p, name, t))
<1>1. ASSUME IsLocal(name, s) \/ IsArgument(p, name, s)
      PROVE  Weaker(ast, LocalType(p, name, s), LocalType(p, name, t))
  <2>1. CASE IsLocal(name, s)
    <3>1. IsLocal(name, t)
          BY <2>1, SameNames
    <3>2. LocalType(p, name, s) = s.locals[name[1]] /\ LocalType(p, name, t) = t.locals[name[1]]
          BY <2>1, <3>1 DEF LocalType
    <3>3. name[1] \in DOMAIN s.locals
          BY <2>1 DEF IsLocal
    <3> QED BY <3>2, <3>3 DEF WeakerScope, WeakerLocals
  <2>2. CASE ~IsLocal(name, s)
    <3>1. ~IsLocal(name, t) /\ Parameters(p, s) = Parameters(p, t)
          BY <2>2, SameNames
    <3>2. LocalType(p, name, s) = LocalType(p, name, t)
          BY <2>2, <3>1 DEF LocalType
    <3> QED BY <3>2 DEF Weaker
  <2> QED BY <2>1, <2>2
<1>2. s.project = t.project
      BY DEF WeakerScope
<1>3. Weaker(ast, NameType(p, name, s), NameType(p, name, t))
      BY <1>1, <1>2, SameNames DEF NameType, Weaker
<1>4. Weaker(ast, TargetType(p, name, s), TargetType(p, name, t))
      BY <1>1, SameNames DEF TargetType, Weaker
<1> QED BY <1>1, <1>3, <1>4

\* What is not known absorbs.
LEMMA WeakerJoin ==
  ASSUME NEW ast, NEW a, NEW b, NEW c, NEW d, Weaker(ast, a, c), Weaker(ast, b, d)
  PROVE  Weaker(ast, NumericJoin(a, b), NumericJoin(c, d))
<1>1. CASE a = c /\ b = d
      BY <1>1 DEF Weaker
<1>2. CASE ~(a = c /\ b = d)
  <2>1. ~OnlyLibrary(ast) /\ (a = Unknown \/ b = Unknown)
        BY <1>2 DEF Weaker
  <2>2. ~IsNumeric(Unknown)
        BY DEF IsNumeric, Unknown, Integer, Unsigned, Float
  <2>3. NumericJoin(a, b) = Unknown
        BY <2>1, <2>2 DEF NumericJoin
  <2> QED BY <2>1, <2>3 DEF Weaker
<1> QED BY <1>1, <1>2

\* BinaryType, sign by sign.
LEMMA BinaryCases ==
  ASSUME NEW sign, NEW a, NEW b
  PROVE  BinaryType(sign, a, b) =
           IF sign \in {"==", "!=", "<", ">", "<=", ">=", "and", "or"} THEN Boolean
           ELSE IF sign \in {"+", "-", "*", "/", "%"} THEN NumericJoin(a, b)
           ELSE IF sign \in {"&", "|", "^", "<<", ">>"} THEN a ELSE Unknown
BY DEF BinaryType, Equality, Ordering, Arithmetic, Bitwise

\* The operators are monotone.
LEMMA WeakerBinary ==
  ASSUME NEW ast, NEW sign, NEW a, NEW b, NEW c, NEW d, Weaker(ast, a, c), Weaker(ast, b, d)
  PROVE  Weaker(ast, BinaryType(sign, a, b), BinaryType(sign, c, d))
<1>1. Weaker(ast, NumericJoin(a, b), NumericJoin(c, d))
      BY WeakerJoin
<1>2. Weaker(ast, Boolean, Boolean) /\ Weaker(ast, Unknown, Unknown)
      BY DEF Weaker
<1> QED BY <1>1, <1>2, BinaryCases

\* So are calls: of the library only by arguments that do not change, of
\* functions because that is what is known less.
LEMMA WeakerCall ==
  ASSUME NEW p, NEW ast, OnlyLibrary(ast) \/ NoLibrary(ast),
         NEW s, NEW t, WeakerScope(p, ast, s, t),
         NEW i \in DOMAIN ast, ast[i].op = "call", NEW name, name = ast[i].name,
         NEW a, NEW b, OnlyLibrary(ast) => a = b
  PROVE  Weaker(ast, CallType(p, name, a, s), CallType(p, name, b, t))
<1>1. CASE OnlyLibrary(ast)
  <2>1. name \in DOMAIN Library /\ a = b
        BY <1>1 DEF OnlyLibrary
  <2>2. CallType(p, name, a, s) = CallType(p, name, b, t)
        BY <2>1 DEF CallType
  <2> QED BY <2>2 DEF Weaker
<1>2. CASE ~OnlyLibrary(ast)
  <2>1. name \notin DOMAIN Library
        BY <1>2 DEF NoLibrary
  <2>2. IsFunction(p, name, s) => name \in Functions(p)
        BY DEF IsFunction, IsSymbol, Functions
  <2>3. IsFunction(p, name, s) => s.returns[name] \in {None, t.returns[name]}
        BY <2>2 DEF WeakerScope
  <2>4. IsFunction(p, name, s) <=> IsFunction(p, name, t)
        BY SameNames
  <2>5. /\ CallType(p, name, a, s) = IF IsFunction(p, name, s) /\ s.returns[name] # None
                                     THEN s.returns[name] ELSE Unknown
        /\ CallType(p, name, b, t) = IF IsFunction(p, name, t) /\ t.returns[name] # None
                                     THEN t.returns[name] ELSE Unknown
        BY <2>1 DEF CallType
  <2> QED BY <1>2, <2>3, <2>4, <2>5 DEF Weaker
<1> QED BY <1>1, <1>2

\* One node: less known about what is under it, less or the same about it.
LEMMA TypeAtWeaker ==
  ASSUME NEW p, NEW ast, Tree(ast), OnlyLibrary(ast) \/ NoLibrary(ast),
         NEW s, NEW t, WeakerScope(p, ast, s, t),
         NEW i \in DOMAIN ast, NEW g, NEW h, \A j \in 1..i - 1 : Weaker(ast, g[j], h[j])
  PROVE  Weaker(ast, TypeAt(p, ast, s, i, g), TypeAt(p, ast, t, i, h))
<1> DEFINE n == ast[i]
<1>0. /\ TypeAtSays(p, n, s, g, TypeAt(p, ast, s, i, g))
      /\ TypeAtSays(p, n, t, h, TypeAt(p, ast, t, i, h))
      BY TypeAtCases
<1>1. CASE n.op = "call"
  <2>1. OnlyLibrary(ast) =>
          [k \in DOMAIN n.kids |-> g[n.kids[k]]] = [k \in DOMAIN n.kids |-> h[n.kids[k]]]
        BY Under DEF Weaker
  <2>2. Weaker(ast, CallType(p, n.name, [k \in DOMAIN n.kids |-> g[n.kids[k]]], s),
                    CallType(p, n.name, [k \in DOMAIN n.kids |-> h[n.kids[k]]], t))
        BY <1>1, <2>1, WeakerCall
  <2> QED BY <1>0, <1>1, <2>2 DEF TypeAtSays
<1>2. CASE n.op = "name"
  <2>1. Weaker(ast, NameType(p, n.name, s), NameType(p, n.name, t))
        BY WeakerNames
  <2> QED BY <1>0, <1>2, <2>1 DEF TypeAtSays
<1>3. CASE n.op \in {"paren", "unary"}
  <2>1. Weaker(ast, g[n.kids[1]], h[n.kids[1]])
        BY <1>3, Under
  <2>2. CASE n.op = "paren"
        BY <1>0, <2>1, <2>2 DEF TypeAtSays
  <2>3. CASE n.op = "unary" /\ n.sign # "not"
        BY <1>0, <2>1, <2>3 DEF TypeAtSays
  <2>4. CASE n.op = "unary" /\ n.sign = "not"
        BY <1>0, <2>4 DEF TypeAtSays, Weaker
  <2> QED BY <1>3, <2>2, <2>3, <2>4
<1>4. CASE n.op = "ternary"
  <2> DEFINE a == g[n.kids[2]]
             b == g[n.kids[3]]
             c == h[n.kids[2]]
             d == h[n.kids[3]]
  <2>1. Weaker(ast, a, c) /\ Weaker(ast, b, d)
        BY <1>4, Under
  <2>2. /\ TypeAt(p, ast, s, i, g) = IF a = b THEN a ELSE NumericJoin(a, b)
        /\ TypeAt(p, ast, t, i, h) = IF c = d THEN c ELSE NumericJoin(c, d)
        BY <1>0, <1>4 DEF TypeAtSays
  <2>3. Weaker(ast, NumericJoin(a, b), NumericJoin(c, d))
        BY <2>1, WeakerJoin
  <2>4. NumericJoin(Unknown, b) = Unknown /\ NumericJoin(a, Unknown) = Unknown
        BY DEF NumericJoin, IsNumeric, Unknown, Integer, Unsigned, Float
  <2> HIDE DEF a, b, c, d
  <2>5. CASE a = c /\ b = d
        BY <2>2, <2>5 DEF Weaker
  <2>6. CASE ~(a = c /\ b = d)
    <3>1. ~OnlyLibrary(ast) /\ (a = Unknown \/ b = Unknown)
          BY <2>1, <2>6 DEF Weaker
    <3>2. TypeAt(p, ast, s, i, g) = Unknown
          BY <2>2, <2>4, <3>1
    <3> QED BY <3>1, <3>2 DEF Weaker
  <2> QED BY <2>5, <2>6
<1>5. CASE n.op = "binary"
  <2>1. Weaker(ast, g[n.kids[1]], h[n.kids[1]]) /\ Weaker(ast, g[n.kids[2]], h[n.kids[2]])
        BY <1>5, Under
  <2>2. Weaker(ast, BinaryType(n.sign, g[n.kids[1]], g[n.kids[2]]),
                    BinaryType(n.sign, h[n.kids[1]], h[n.kids[2]]))
        BY <2>1, WeakerBinary
  <2> QED BY <1>0, <1>5, <2>2 DEF TypeAtSays
<1>6. CASE n.op \notin {"call", "name", "paren", "unary", "ternary", "binary"}
      BY <1>0, <1>6 DEF TypeAtSays, Weaker
<1> QED BY <1>1, <1>2, <1>3, <1>4, <1>5, <1>6

\* Every type of a text is monotone in what is known about the functions.
LEMMA TypesWeaker ==
  ASSUME NEW p, NEW ast, Tree(ast), OnlyLibrary(ast) \/ NoLibrary(ast),
         NEW s, NEW t, WeakerScope(p, ast, s, t)
  PROVE  \A i \in DOMAIN ast : Weaker(ast, TypesOf(p, ast, s)[i], TypesOf(p, ast, t)[i])
<1> DEFINE g == TypesOf(p, ast, s)
           h == TypesOf(p, ast, t)
           T == {i \in DOMAIN ast : ~Weaker(ast, g[i], h[i])}
<1> SUFFICES ASSUME T # {} PROVE FALSE
    OBVIOUS
<1>1. T \subseteq Nat
      BY DEF Tree
<1>2. PICK i \in T : \A j \in T : i <= j
  <2> HIDE DEF T
  <2> QED BY <1>1, Least
<1>3. i \in DOMAIN ast /\ ~Weaker(ast, g[i], h[i])
      OBVIOUS
<1>4. ASSUME NEW j \in 1..i - 1 PROVE Weaker(ast, g[j], h[j])
  <2>1. j \in DOMAIN ast /\ ~(i <= j)
        BY <1>3 DEF Tree
  <2> QED BY <1>2, <2>1
<1>5. g[i] = TypeAt(p, ast, s, i, g) /\ h[i] = TypeAt(p, ast, t, i, h)
      BY <1>3, TypesParts
<1> HIDE DEF g, h, T
<1> QED BY <1>3, <1>4, <1>5, TypeAtWeaker

\* What collect_locals makes of the type of a local, and of one node.
InitialType(p, ast, ret, n, before) ==
        CASE DeclaredLocalType(n.ann) # None -> DeclaredLocalType(n.ann)
          [] DeclaredLocalType(n.ann) = None /\ n.kids = <<>> -> Unknown
          [] OTHER ->
               TypesOf(p, ast, [locals |-> before, project |-> ast[n.kids[1]].op = "call",
                                fn |-> None, returns |-> ret])[n.kids[1]]
LocalsAfter(p, ast, ret, i, before) ==
  LET n == ast[i]
  IN  CASE n.op = "expand" -> With(before, n.name[1], Integer)
        [] n.op = "local" -> With(before, n.name[1], InitialType(p, ast, ret, n, before))
        [] OTHER -> before
LocalsAre(p, ast, ret, k, g) ==
  g = [i \in 0..k |-> IF i = 0 THEN Nothing ELSE LocalsAfter(p, ast, ret, i, g[i - 1])]

\* Locals is the last of the solution of its recursion.
LEMMA LocalsChoice ==
  ASSUME NEW p, NEW ast, NEW ret
  PROVE  Locals(p, ast, ret) = (CHOOSE g : LocalsAre(p, ast, ret, Len(ast), g))[Len(ast)]
BY DEF Locals, LocalsAre, LocalsAfter, InitialType

\* The recursion that Locals is defined by has a solution.
LEMMA LocalsExist ==
  ASSUME NEW p, NEW ast, NEW ret, NEW k \in Nat
  PROVE  \E g : LocalsAre(p, ast, ret, k, g)
<1> DEFINE T == {m \in Nat : ~\E g : LocalsAre(p, ast, ret, m, g)}
<1> SUFFICES ASSUME T # {} PROVE FALSE
    OBVIOUS
<1>1. T \subseteq Nat
      OBVIOUS
<1>2. PICK m \in T : \A y \in T : m <= y
  <2> HIDE DEF T
  <2> QED BY <1>1, Least
<1>3. m \in Nat /\ ~\E g : LocalsAre(p, ast, ret, m, g)
      OBVIOUS
<1>4. CASE m = 0
  <2> DEFINE g == [i \in 0..0 |-> Nothing]
  <2>1. LocalsAre(p, ast, ret, 0, g)
        BY DEF LocalsAre
  <2> QED BY <1>3, <1>4, <2>1
<1>5. CASE m # 0
  <2>1. m - 1 \in Nat /\ m - 1 \notin T
        BY <1>2, <1>3, <1>5
  <2>2. PICK h : LocalsAre(p, ast, ret, m - 1, h)
        BY <2>1
  <2> DEFINE g == [i \in 0..m |-> IF i = 0 THEN Nothing ELSE LocalsAfter(p, ast, ret, i, h[i - 1])]
  <2>3. \A i \in 0..(m - 1) : g[i] = h[i]
    <3>1. 0..(m - 1) \subseteq 0..m
          BY <1>3
    <3> QED BY <2>2, <3>1 DEF LocalsAre
  <2>4. \A i \in 0..m : i # 0 => g[i - 1] = h[i - 1]
    <3>1. \A i \in 0..m : i # 0 => i - 1 \in 0..(m - 1)
          BY <1>3
    <3> HIDE DEF g
    <3> QED BY <2>3, <3>1
  <2>5. LocalsAre(p, ast, ret, m, g)
        BY <2>4 DEF LocalsAre
  <2> QED BY <1>3, <2>5
<1> QED BY <1>4, <1>5

\* Two tables of return types, one of which knows less.
WeakerReturns(p, a, b) == \A f \in Functions(p) : a[f] \in {None, b[f]}

\* One more local on both sides.
LEMMA WeakerWith ==
  ASSUME NEW ast, NEW a, NEW b, WeakerLocals(ast, a, b), NEW x, NEW v, NEW w, Weaker(ast, v, w)
  PROVE  WeakerLocals(ast, With(a, x, v), With(b, x, w))
BY DEF WeakerLocals, With

\* The type of one local.
LEMMA WeakerInitial ==
  ASSUME NEW p, NEW ast, Tree(ast), OnlyLibrary(ast) \/ NoLibrary(ast),
         NEW a, NEW b, WeakerReturns(p, a, b),
         NEW i \in DOMAIN ast, NEW l, NEW m, WeakerLocals(ast, l, m)
  PROVE  Weaker(ast, InitialType(p, ast, a, ast[i], l), InitialType(p, ast, b, ast[i], m))
<1> DEFINE n == ast[i]
           Sees(locals, ret) ==
             [locals |-> locals, project |-> ast[n.kids[1]].op = "call", fn |-> None, returns |-> ret]
<1>1. CASE DeclaredLocalType(n.ann) # None
      BY <1>1 DEF InitialType, Weaker
<1>2. CASE DeclaredLocalType(n.ann) = None /\ n.kids = <<>>
      BY <1>2 DEF InitialType, Weaker
<1>3. CASE DeclaredLocalType(n.ann) = None /\ n.kids # <<>>
  <2>1. WeakerScope(p, ast, Sees(l, a), Sees(m, b))
        BY DEF WeakerScope, WeakerReturns
  <2>2. n.kids[1] \in DOMAIN ast
    <3>1. n.kids \in Seq(1..i - 1)
          BY DEF Tree
    <3>2. 1 \in DOMAIN n.kids
          BY <1>3, <3>1
    <3> QED BY <3>2, Under
  <2>3. Weaker(ast, TypesOf(p, ast, Sees(l, a))[n.kids[1]], TypesOf(p, ast, Sees(m, b))[n.kids[1]])
    <3> HIDE DEF Sees
    <3> QED BY <2>1, <2>2, TypesWeaker
  <2>4. /\ InitialType(p, ast, a, n, l) = TypesOf(p, ast, Sees(l, a))[n.kids[1]]
        /\ InitialType(p, ast, b, n, m) = TypesOf(p, ast, Sees(m, b))[n.kids[1]]
        BY <1>3 DEF InitialType
  <2> QED BY <2>3, <2>4
<1> QED BY <1>1, <1>2, <1>3

\* The locals after one more node.
LEMMA WeakerAfter ==
  ASSUME NEW p, NEW ast, Tree(ast), OnlyLibrary(ast) \/ NoLibrary(ast),
         NEW a, NEW b, WeakerReturns(p, a, b),
         NEW i \in DOMAIN ast, NEW l, NEW m, WeakerLocals(ast, l, m)
  PROVE  WeakerLocals(ast, LocalsAfter(p, ast, a, i, l), LocalsAfter(p, ast, b, i, m))
<1> DEFINE n == ast[i]
<1>1. CASE n.op = "expand"
  <2>1. Weaker(ast, Integer, Integer)
        BY DEF Weaker
  <2> QED BY <1>1, <2>1, WeakerWith DEF LocalsAfter
<1>2. CASE n.op = "local"
      BY <1>2, WeakerInitial, WeakerWith DEF LocalsAfter
<1>3. CASE n.op \notin {"expand", "local"}
      BY <1>3 DEF LocalsAfter
<1> QED BY <1>1, <1>2, <1>3

\* The locals of a text are monotone in what is known about the functions.
LEMMA LocalsWeaker ==
  ASSUME NEW p, NEW ast, Tree(ast), OnlyLibrary(ast) \/ NoLibrary(ast),
         NEW a, NEW b, WeakerReturns(p, a, b)
  PROVE  WeakerLocals(ast, Locals(p, ast, a), Locals(p, ast, b))
<1>1. PICK k \in Nat : k = Len(ast) /\ DOMAIN ast = 1..k
      BY DEF Tree
<1>2. PICK g : LocalsAre(p, ast, a, k, g) /\ Locals(p, ast, a) = g[k]
      BY <1>1, LocalsChoice, LocalsExist
<1>3. PICK h : LocalsAre(p, ast, b, k, h) /\ Locals(p, ast, b) = h[k]
      BY <1>1, LocalsChoice, LocalsExist
<1> DEFINE T == {i \in 0..k : ~WeakerLocals(ast, g[i], h[i])}
<1>4. T = {}
  <2> SUFFICES ASSUME T # {} PROVE FALSE
      OBVIOUS
  <2>1. T \subseteq Nat
        OBVIOUS
  <2>2. PICK i \in T : \A y \in T : i <= y
    <3> HIDE DEF T
    <3> QED BY <2>1, Least
  <2>3. i \in 0..k /\ ~WeakerLocals(ast, g[i], h[i])
        OBVIOUS
  <2>4. i # 0
    <3>1. g[0] = Nothing /\ h[0] = Nothing
          BY <1>2, <1>3 DEF LocalsAre
    <3>2. WeakerLocals(ast, Nothing, Nothing)
          BY DEF WeakerLocals, Weaker
    <3> QED BY <2>3, <3>1, <3>2
  <2>5. i \in DOMAIN ast /\ i - 1 \in 0..k /\ i - 1 \notin T
        BY <1>1, <2>2, <2>3, <2>4
  <2>6. WeakerLocals(ast, g[i - 1], h[i - 1])
        BY <2>5
  <2>7. g[i] = LocalsAfter(p, ast, a, i, g[i - 1]) /\ h[i] = LocalsAfter(p, ast, b, i, h[i - 1])
        BY <1>2, <1>3, <2>3, <2>4 DEF LocalsAre
  <2> QED BY <2>3, <2>5, <2>6, <2>7, WeakerAfter
<1>5. k \in 0..k
      BY <1>1
<1> QED BY <1>2, <1>3, <1>4, <1>5

\* The types of one text, with less and with more known.
TwoTypes(ast, g, h) == \A i \in DOMAIN ast : Weaker(ast, g[i], h[i])

\* What is known stays as it is.
LEMMA KnownStays ==
  /\ \A ast, a, b : Weaker(ast, a, b) /\ a # Unknown => b = a
  /\ Float # Unknown /\ Integer # Unknown /\ Unsigned # Unknown /\ Boolean # Unknown
  /\ \A t : IsEnum(t) \/ IsNumeric(t) \/ IsIntegral(t) => t # Unknown
  /\ \A t : IsEnum(t) => ~IsNumeric(t)
  /\ IsNumeric(Float) /\ ~IsEnum(Float)
BY DEF Weaker, IsEnum, IsNumeric, IsIntegral, Float, Integer, Unsigned, Boolean, Unknown

\* The finding of T002 as T021.
Moved(f) == [f EXCEPT !.code = "T021"]

\* Rule by rule: what is found with less known is found with more.
LEMMA OperatorWeaker ==
  ASSUME NEW p, NEW ast, Tree(ast), NEW g, NEW h, TwoTypes(ast, g, h), NEW i \in DOMAIN ast,
         NEW f \in OperatorFindings(p, ast, g, i)
  PROVE  \/ f \in OperatorFindings(p, ast, h, i)
         \/ f.code = "T002" /\ Moved(f) \in OperatorFindings(p, ast, h, i)
<1> DEFINE n == ast[i]
           l == g[n.kids[1]]
           r == g[n.kids[2]]
           l2 == h[n.kids[1]]
           r2 == h[n.kids[2]]
           found(a, b) == UNION {
             Report(FloatEquality(n.sign, a, b), i, "T002", "Error"),
             Report(n.sign \in Equality \union Ordering /\ EnumMismatch(p, n.sign, a, b),
                    i, "T021", "Error"),
             Report(SignComparison(ast, n, a, b), i, "T004", "Warning"),
             Report(FloatModulo(n.sign, a, b), i, "T005", "Error"),
             Report(FloatBits(n.sign, a, b), i, "T006", "Error")}
<1>1. n.op = "binary"
      BY DEF OperatorFindings
<1>2. OperatorFindings(p, ast, g, i) = found(l, r) /\ OperatorFindings(p, ast, h, i) = found(l2, r2)
      BY <1>1 DEF OperatorFindings
<1>3. /\ l # Unknown => l2 = l
      /\ r # Unknown => r2 = r
  <2>1. n.kids[1] \in DOMAIN ast /\ n.kids[2] \in DOMAIN ast
        BY <1>1, Under
  <2> QED BY <2>1, KnownStays DEF TwoTypes
<1> HIDE DEF l, r, l2, r2, n
<1>4. CASE f \in Report(FloatEquality(n.sign, l, r), i, "T002", "Error")
  <2>1. FloatEquality(n.sign, l, r) /\ f = [node |-> i, code |-> "T002", severity |-> "Error"]
        BY <1>4 DEF Report
  <2>2. n.sign \in Equality /\ Float \in {l2, r2}
        BY <1>3, <2>1, KnownStays DEF FloatEquality
  <2>3. CASE ~IsEnum(l2) /\ ~IsEnum(r2)
    <3>1. FloatEquality(n.sign, l2, r2)
          BY <2>2, <2>3 DEF FloatEquality
    <3>2. f \in Report(FloatEquality(n.sign, l2, r2), i, "T002", "Error")
          BY <2>1, <3>1 DEF Report
    <3> QED BY <1>2, <3>2
  <2>4. CASE IsEnum(l2) \/ IsEnum(r2)
    <3>1. EnumMismatch(p, n.sign, l2, r2)
          BY <2>2, <2>4, KnownStays DEF EnumMismatch
    <3>2. Moved(f) = [node |-> i, code |-> "T021", severity |-> "Error"]
          BY <2>1 DEF Moved
    <3>3. Moved(f) \in Report(n.sign \in Equality \union Ordering /\ EnumMismatch(p, n.sign, l2, r2),
                              i, "T021", "Error")
          BY <2>2, <3>1, <3>2 DEF Report
    <3> QED BY <1>2, <2>1, <3>3
  <2> QED BY <2>3, <2>4
<1>5. CASE f \in Report(n.sign \in Equality \union Ordering /\ EnumMismatch(p, n.sign, l, r),
                        i, "T021", "Error")
  <2>1. EnumMismatch(p, n.sign, l, r)
        BY <1>5 DEF Report
  <2>2. l2 = l /\ r2 = r
        BY <1>3, <2>1, KnownStays DEF EnumMismatch
  <2> QED BY <1>2, <1>5, <2>2
<1>6. CASE f \in Report(SignComparison(ast, n, l, r), i, "T004", "Warning")
  <2>1. {l, r} = {Integer, Unsigned}
        BY <1>6 DEF Report, SignComparison
  <2>2. l2 = l /\ r2 = r
        BY <1>3, <2>1, KnownStays
  <2> QED BY <1>2, <1>6, <2>2
<1>7. CASE f \in Report(FloatModulo(n.sign, l, r), i, "T005", "Error")
  <2>1. FloatModulo(n.sign, l, r) /\ f = [node |-> i, code |-> "T005", severity |-> "Error"]
        BY <1>7 DEF Report
  <2>2. FloatModulo(n.sign, l2, r2)
        BY <1>3, <2>1, KnownStays DEF FloatModulo
  <2>3. f \in Report(FloatModulo(n.sign, l2, r2), i, "T005", "Error")
        BY <2>1, <2>2 DEF Report
  <2> QED BY <1>2, <2>3
<1>8. CASE f \in Report(FloatBits(n.sign, l, r), i, "T006", "Error")
  <2>1. FloatBits(n.sign, l, r) /\ f = [node |-> i, code |-> "T006", severity |-> "Error"]
        BY <1>8 DEF Report
  <2>2. FloatBits(n.sign, l2, r2)
        BY <1>3, <2>1, KnownStays DEF FloatBits
  <2>3. f \in Report(FloatBits(n.sign, l2, r2), i, "T006", "Error")
        BY <2>1, <2>2 DEF Report
  <2> QED BY <1>2, <2>3
<1> QED BY <1>2, <1>4, <1>5, <1>6, <1>7, <1>8

\* T006 on ~.
LEMMA ComplementWeaker ==
  ASSUME NEW ast, Tree(ast), NEW g, NEW h, TwoTypes(ast, g, h), NEW i \in DOMAIN ast,
         NEW f \in ComplementFindings(ast, g, i)
  PROVE  f \in ComplementFindings(ast, h, i)
<1>1. ast[i].op = "unary" /\ g[ast[i].kids[1]] = Float
      BY DEF ComplementFindings, Report
<1>2. h[ast[i].kids[1]] = Float
      BY <1>1, Under, KnownStays DEF TwoTypes
<1> QED BY <1>1, <1>2 DEF ComplementFindings, Report

\* T003, T030, T005, T006 and T086 on assignments.
LEMMA AssignWeaker ==
  ASSUME NEW p, NEW ast, Tree(ast), NEW s, NEW t, WeakerScope(p, ast, s, t),
         NEW g, NEW h, TwoTypes(ast, g, h), NEW i \in DOMAIN ast,
         NEW f \in AssignFindings(p, ast, g, s, i)
  PROVE  f \in AssignFindings(p, ast, h, t, i)
<1> DEFINE n == ast[i]
           name == ast[n.kids[1]].name
           x == NameType(p, name, s)
           y == NameType(p, name, t)
           u == TargetType(p, name, s)
           w == TargetType(p, name, t)
           v == g[n.kids[2]]
           v2 == h[n.kids[2]]
           found(scope, type, target, stored, value) == UNION {
             Report(CompoundNarrows(n.sign, target, value), i, "T003", "Warning"),
             Report(AssignMismatch(p, n, ast, type, scope), i, "T030", MismatchSeverity(stored, value)),
             Report(FloatModulo(n.sign, target, value), i, "T005", "Error"),
             Report(FloatBits(n.sign, target, value), i, "T006", "Error"),
             Report(UnitMismatch(p, n, ast, scope), i, "T086", "Warning")}
<1>1. n.op = "assign"
      BY DEF AssignFindings
<1>2. /\ AssignFindings(p, ast, g, s, i) = found(s, g, x, u, v)
      /\ AssignFindings(p, ast, h, t, i) = found(t, h, y, w, v2)
      BY <1>1 DEF AssignFindings
<1>3. /\ x # Unknown => y = x
      /\ u # Unknown => w = u
      /\ v # Unknown => v2 = v
  <2>1. n.kids[2] \in DOMAIN ast
        BY <1>1, Under
  <2> QED BY <2>1, WeakerNames, KnownStays DEF TwoTypes
<1>4. UnitMismatch(p, n, ast, s) <=> UnitMismatch(p, n, ast, t)
  <2>1. \A m : IsSymbol(p, m, s) <=> IsSymbol(p, m, t)
        BY SameNames
  <2> QED BY <2>1 DEF UnitMismatch
<1>5. AssignMismatch(p, n, ast, g, s) =>
        AssignMismatch(p, n, ast, h, t) /\ w = u /\ v2 = v
  <2> SUFFICES ASSUME AssignMismatch(p, n, ast, g, s)
               PROVE  AssignMismatch(p, n, ast, h, t) /\ w = u /\ v2 = v
      OBVIOUS
  <2>1. u # Unknown /\ v # Unknown
        BY DEF AssignMismatch, IsKnown
  <2>2. w = u /\ v2 = v
        BY <1>3, <2>1
  <2> QED BY <2>2 DEF AssignMismatch
<1> HIDE DEF x, y, u, w, v, v2, name
<1>6. CASE f \in Report(CompoundNarrows(n.sign, x, v), i, "T003", "Warning")
  <2>1. CompoundNarrows(n.sign, x, v)
        BY <1>6 DEF Report
  <2>2. y = x /\ v2 = v
        BY <1>3, <2>1, KnownStays DEF CompoundNarrows, Narrows
  <2> QED BY <1>2, <1>6, <2>2
<1>7. CASE f \in Report(AssignMismatch(p, n, ast, g, s), i, "T030", MismatchSeverity(u, v))
  <2>1. AssignMismatch(p, n, ast, g, s)
        BY <1>7 DEF Report
  <2>2. f \in Report(AssignMismatch(p, n, ast, h, t), i, "T030", MismatchSeverity(w, v2))
        BY <1>5, <1>7, <2>1 DEF Report
  <2> QED BY <1>2, <2>2
<1>8. CASE f \in Report(FloatModulo(n.sign, x, v), i, "T005", "Error")
  <2>1. FloatModulo(n.sign, y, v2)
        BY <1>3, <1>8, KnownStays DEF FloatModulo, Report
  <2>2. f \in Report(FloatModulo(n.sign, y, v2), i, "T005", "Error")
        BY <1>8, <2>1 DEF Report
  <2> QED BY <1>2, <2>2
<1>9. CASE f \in Report(FloatBits(n.sign, x, v), i, "T006", "Error")
  <2>1. FloatBits(n.sign, y, v2)
        BY <1>3, <1>9, KnownStays DEF FloatBits, Report
  <2>2. f \in Report(FloatBits(n.sign, y, v2), i, "T006", "Error")
        BY <1>9, <2>1 DEF Report
  <2> QED BY <1>2, <2>2
<1>10. CASE f \in Report(UnitMismatch(p, n, ast, s), i, "T086", "Warning")
  <2>1. f \in Report(UnitMismatch(p, n, ast, t), i, "T086", "Warning")
        BY <1>4, <1>10 DEF Report
  <2> QED BY <1>2, <2>1
<1> QED BY <1>2, <1>6, <1>7, <1>8, <1>9, <1>10

\* T030 on declarations.
LEMMA DeclarationWeaker ==
  ASSUME NEW ast, Tree(ast), NEW g, NEW h, TwoTypes(ast, g, h), NEW i \in DOMAIN ast,
         NEW f \in DeclarationFindings(ast, g, i)
  PROVE  f \in DeclarationFindings(ast, h, i)
<1> DEFINE n == ast[i]
           declared == DeclaredLocalType(n.ann)
           init == n.kids[1]
           negative == ast[init].op = "unary" /\ ast[init].sign = "-"
                       /\ ast[ast[init].kids[1]].op = "number"
           found(v) ==
             IF declared = Unsigned /\ negative THEN Report(TRUE, i, "T030", "Warning")
             ELSE Report(IsKnown(v) /\ ~Compatible(declared, v), i, "T030", MismatchSeverity(declared, v))
<1>1. n.op = "local" /\ declared # None /\ n.kids # <<>>
      BY DEF DeclarationFindings
<1>2. DeclarationFindings(ast, g, i) = found(g[init]) /\ DeclarationFindings(ast, h, i) = found(h[init])
      BY <1>1 DEF DeclarationFindings
<1>3. g[init] # Unknown => h[init] = g[init]
  <2>1. n.kids \in Seq(1..i - 1)
        BY DEF Tree
  <2>2. 1 \in DOMAIN n.kids
        BY <1>1, <2>1
  <2>3. init \in DOMAIN ast
        BY <2>2, Under
  <2> QED BY <2>3, KnownStays DEF TwoTypes
<1> HIDE DEF declared, negative, init
<1>4. CASE declared = Unsigned /\ negative
      BY <1>2, <1>4
<1>5. CASE ~(declared = Unsigned /\ negative)
  <2>1. g[init] # Unknown
        BY <1>2, <1>5 DEF Report, IsKnown
  <2>2. h[init] = g[init]
        BY <1>3, <2>1
  <2>3. f \in found(g[init])
        BY <1>2
  <2> HIDE DEF found
  <2> QED BY <1>2, <2>2, <2>3
<1> QED BY <1>4, <1>5

\* T085.
LEMMA ArgumentsWeaker ==
  ASSUME NEW p, NEW ast, Tree(ast), NEW g, NEW h, TwoTypes(ast, g, h), NEW i \in DOMAIN ast,
         NEW a, a = [k \in DOMAIN ast[i].kids |-> g[ast[i].kids[k]]],
         NEW b, b = [k \in DOMAIN ast[i].kids |-> h[ast[i].kids[k]]],
         NEW f \in ArgumentFindings(p, ast[i], a, i)
  PROVE  f \in ArgumentFindings(p, ast[i], b, i)
<1> DEFINE n == ast[i]
           params == p.symbols[n.name].params
<1>1. DOMAIN a = DOMAIN n.kids /\ DOMAIN b = DOMAIN n.kids
      OBVIOUS
<1>2. \A k \in DOMAIN a : a[k] # Unknown => b[k] = a[k]
      BY Under, KnownStays DEF TwoTypes
<1>3. Len(a) = Len(b)
      BY <1>1
<1> HIDE DEF params
<1>4. CASE Len(a) # Len(params)
      BY <1>3, <1>4 DEF ArgumentFindings, params
<1>5. CASE Len(a) = Len(params)
  <2> DEFINE bad(args, k) == Report(/\ IsKnown(args[k]) /\ IsKnown(params[k].type)
                                    /\ ~Compatible(params[k].type, args[k]),
                                    n.kids[k], "T085", "Warning")
  <2>1. /\ ArgumentFindings(p, n, a, i) = UNION {bad(a, k) : k \in DOMAIN a}
        /\ ArgumentFindings(p, n, b, i) = UNION {bad(b, k) : k \in DOMAIN b}
        BY <1>3, <1>5 DEF ArgumentFindings, params
  <2>2. PICK k \in DOMAIN a : f \in bad(a, k)
        BY <2>1
  <2>3. b[k] = a[k]
        BY <1>2, <2>2 DEF Report, IsKnown
  <2>4. f \in bad(b, k) /\ k \in DOMAIN b
        BY <1>1, <2>2, <2>3
  <2> QED BY <2>1, <2>4
<1> QED BY <1>4, <1>5

\* T064, T065 and T085.
LEMMA CallWeaker ==
  ASSUME NEW p, NEW ast, Tree(ast), OnlyLibrary(ast) \/ NoLibrary(ast),
         NEW s, NEW t, WeakerScope(p, ast, s, t),
         NEW g, NEW h, TwoTypes(ast, g, h), NEW i \in DOMAIN ast,
         NEW f \in CallFindings(p, ast, g, s, i)
  PROVE  f \in CallFindings(p, ast, h, t, i)
<1> DEFINE n == ast[i]
           a == [k \in DOMAIN n.kids |-> g[n.kids[k]]]
           b == [k \in DOMAIN n.kids |-> h[n.kids[k]]]
<1>1. IsFunction(p, n.name, s) <=> IsFunction(p, n.name, t)
      BY SameNames
<1>2. CASE n.op = "call" /\ n.name \in DOMAIN Library
  <2>1. OnlyLibrary(ast)
        BY <1>2 DEF NoLibrary
  <2>2. a = b
        BY <2>1, Under DEF TwoTypes, Weaker
  <2> QED BY <1>2, <2>2 DEF CallFindings
<1>3. CASE /\ n.op = "call" /\ n.name \notin DOMAIN Library
           /\ IsFunction(p, n.name, s) /\ p.symbols[n.name].signed
  <2>1. /\ CallFindings(p, ast, g, s, i) = ArgumentFindings(p, n, a, i)
        /\ CallFindings(p, ast, h, t, i) = ArgumentFindings(p, n, b, i)
        BY <1>1, <1>3 DEF CallFindings
  <2> QED BY <2>1, ArgumentsWeaker
<1>4. CASE /\ ~(n.op = "call" /\ n.name \in DOMAIN Library)
           /\ ~(/\ n.op = "call" /\ n.name \notin DOMAIN Library
                /\ IsFunction(p, n.name, s) /\ p.symbols[n.name].signed)
      BY <1>4 DEF CallFindings
<1> QED BY <1>2, <1>3, <1>4

\* T020, T070 and T082.
LEMMA WhenWeaker ==
  ASSUME NEW p, NEW ast, Tree(ast), NEW g, NEW h, TwoTypes(ast, g, h), NEW i \in DOMAIN ast,
         NEW f \in WhenFindings(p, ast, g, i)
  PROVE  f \in WhenFindings(p, ast, h, i)
<1> DEFINE subject == g[ast[i].kids[1]]
<1>1. ast[i].op = "when"
      BY DEF WhenFindings
<1>2. subject # Unknown
  <2>1. CASE IsEnum(subject)
        BY <2>1, KnownStays
  <2>2. CASE ~IsEnum(subject)
        BY <1>1, <2>2 DEF WhenFindings, Report, IsKnown
  <2> QED BY <2>1, <2>2
<1>3. h[ast[i].kids[1]] = subject
      BY <1>1, <1>2, Under, KnownStays DEF TwoTypes
<1> QED BY <1>3 DEF WhenFindings

\* What the check of a script reports under some return types, it reports under
\* more of them, T002 perhaps as T021.
LEMMA ScriptWeaker ==
  ASSUME NEW p, NEW script, Tree(script.ast), OnlyLibrary(script.ast) \/ NoLibrary(script.ast),
         NEW a, NEW b, WeakerReturns(p, a, b), NEW f \in ScriptFindings(p, script, a)
  PROVE  \/ f \in ScriptFindings(p, script, b)
         \/ f.code = "T002" /\ Moved(f) \in ScriptFindings(p, script, b)
<1>1. CASE script.broken
      BY <1>1 DEF ScriptFindings
<1>2. CASE ~script.broken /\ script.deep
      BY <1>2 DEF ScriptFindings
<1>3. CASE ~script.broken /\ ~script.deep
  <2> DEFINE ast == script.ast
             s == ScopeOf(p, script, a)
             t == ScopeOf(p, script, b)
             g == TypesOf(p, ast, s)
             h == TypesOf(p, ast, t)
             All(type, scope, i) == UNION {
               OperatorFindings(p, ast, type, i), ComplementFindings(ast, type, i),
               AssignFindings(p, ast, type, scope, i), DeclarationFindings(ast, type, i),
               CallFindings(p, ast, type, scope, i), WhenFindings(p, ast, type, i)}
  <2>1. /\ ScriptFindings(p, script, a) = UNION {All(g, s, i) : i \in DOMAIN ast}
        /\ ScriptFindings(p, script, b) = UNION {All(h, t, i) : i \in DOMAIN ast}
        BY <1>3 DEF ScriptFindings
  <2>2. WeakerScope(p, ast, s, t)
    <3>1. WeakerLocals(ast, Locals(p, ast, a), Locals(p, ast, b))
          BY LocalsWeaker
    <3> QED BY <3>1 DEF WeakerScope, WeakerReturns, ScopeOf
  <2> HIDE DEF s, t
  <2>3. TwoTypes(ast, g, h)
        BY <2>2, TypesWeaker DEF TwoTypes
  <2> HIDE DEF g, h, All
  <2>4. PICK i \in DOMAIN ast : f \in All(g, s, i)
        BY <2>1
  <2>5. f \in All(h, t, i) \/ (f.code = "T002" /\ Moved(f) \in All(h, t, i))
    <3>1. CASE f \in OperatorFindings(p, ast, g, i)
          BY <2>3, <3>1, OperatorWeaker DEF All
    <3>2. CASE f \in ComplementFindings(ast, g, i)
          BY <2>3, <3>2, ComplementWeaker DEF All
    <3>3. CASE f \in AssignFindings(p, ast, g, s, i)
          BY <2>2, <2>3, <3>3, AssignWeaker DEF All
    <3>4. CASE f \in DeclarationFindings(ast, g, i)
          BY <2>3, <3>4, DeclarationWeaker DEF All
    <3>5. CASE f \in CallFindings(p, ast, g, s, i)
          BY <2>2, <2>3, <3>5, CallWeaker DEF All
    <3>6. CASE f \in WhenFindings(p, ast, g, i)
          BY <2>3, <3>6, WhenWeaker DEF All
    <3> QED BY <2>4, <3>1, <3>2, <3>3, <3>4, <3>5, <3>6 DEF All
  <2> QED BY <2>1, <2>5
<1> QED BY <1>1, <1>2, <1>3

\* For every project in which each function has one body and no script calls
\* both user functions and library methods, every library and number of runs: a
\* finding that is reported while types are missing is reported when all are
\* in, a float compared with an enum as T021 instead of T002 (types.rs:13).
THEOREM IgnoranceIsSilent == Spec => []NoFindingFromIgnorance
<1>1. Init => ReportInv
      BY DEF Init, ReportInv
<1>2. ProjectInv /\ SettleInv /\ ReportInv => NoFindingFromIgnorance
  <2> SUFFICES ASSUME ProjectInv, SettleInv, ReportInv, ~edited, project \in PlainProjects,
                      NEW r \in reported
               PROVE  \/ r \in FindingsWhenSettled[project]
                      \/ r.found.code = "T002" /\ AsT021(r) \in FindingsWhenSettled[project]
      BY DEF NoFindingFromIgnorance
  <2>1. project \in Projects /\ Plain(project) /\ OneBody(project)
        BY DEF PlainProjects
  <2>2. PICK j \in DOMAIN project.scripts : r \in Findings(project, project.scripts[j], returns)
        BY DEF SettleInv, ReportInv, FoundIn
  <2> DEFINE script == project.scripts[j]
             settled == Settled(project)
  <2>3. PICK f \in ScriptFindings(project, script, returns) :
          r = [script |-> script.name, found |-> f]
        BY <2>2 DEF Findings
  <2>4. Findings(project, script, settled) \in SUBSET FindingsWhenSettled[project]
    <3>1. SettledIn[project] = settled
          BY <2>1 DEF SettledIn
    <3> QED BY <3>1 DEF FindingsWhenSettled
  <2>5. Tree(script.ast)
    <3>1. script \in Texts
          BY DEF ProjectInv
    <3>2. ASSUME NEW text \in Texts PROVE Tree(text.ast)
          BY <3>2, ProjectAssumption DEF Tree
    <3> QED BY <3>1, <3>2
  <2>6. OnlyLibrary(script.ast) \/ NoLibrary(script.ast)
    <3> DEFINE called == {n.name : n \in {m \in Range(script.ast) : m.op = "call"}}
    <3>1. called \intersect DOMAIN Library = {} \/ called \subseteq DOMAIN Library
          BY <2>1 DEF Plain
    <3>2. ASSUME NEW i \in DOMAIN script.ast, script.ast[i].op = "call"
          PROVE  script.ast[i].name \in called
      <4>1. script.ast[i] \in Range(script.ast)
            BY DEF Range
      <4> QED BY <3>2, <4>1
    <3> HIDE DEF called
    <3> QED BY <3>1, <3>2 DEF OnlyLibrary, NoLibrary
  <2>7. WeakerReturns(project, returns, settled)
    <3>1. PICK k \in Nat : returns = Reached(project, k)
      <4>1. runs \in Nat /\ runs + 1 \in Nat
            BY DEF SettleInv
      <4> QED BY <2>1, <4>1 DEF SettleInv
    <3> QED BY <2>1, <3>1, ReachedNext DEF WeakerReturns
  <2> HIDE DEF script, settled
  <2>8. \/ f \in ScriptFindings(project, script, settled)
        \/ f.code = "T002" /\ Moved(f) \in ScriptFindings(project, script, settled)
        BY <2>5, <2>6, <2>7, ScriptWeaker
  <2>9. r.found = f /\ AsT021(r) = [script |-> script.name, found |-> Moved(f)]
        BY <2>3 DEF AsT021, Moved
  <2> QED BY <2>3, <2>4, <2>8, <2>9 DEF Findings
<1> QED BY <1>1, <1>2, SettleInit, SettleStep, ProjectInit, ProjectStep, ReportStep, PTL DEF Spec
=============================================================================
