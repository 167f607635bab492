--------------------------- MODULE PipelineProofs ---------------------------
(***************************************************************************)
(* The exit status tells what was printed, for every command line: while   *)
(* results are emitted `failed` accounts for exactly what has been printed *)
(* so far, and nothing is printed before that or when the run leaves early.*)
(* Nothing that the filter or a flag removes is ever printed, everything   *)
(* they leave is, and an input that is missing is announced.               *)
(***************************************************************************)
EXTENDS Pipeline, SequenceTheorems, TLAPS

Early == {"arguments", "load", "dbc", "read", "query", "check", "sources"}

(* Of a finding that is printed: an error, or anything under --strict.     *)
Failing(f) == run.strict \/ f.severity = "error"

FailureSeen == rejected # {} \/ \E s \in shown : Failing(s[2])

(* Before the first result is emitted nothing is printed; which phases     *)
(* only a check, and only a query, comes to.                               *)
PhaseInv ==
  /\ phase \in Early \cup {"emit", "exited"}
  /\ phase \in Early => shown = {} /\ rejected = {}
  /\ phase \notin {"arguments", "exited"} => ~run.rules
  /\ phase = "query" => run.query # {}
  /\ phase \in {"check", "sources", "emit"} => run.query = {}

FailedInv == failed \in BOOLEAN /\ (failed <=> FailureSeen)

IInv == PhaseInv /\ FailedInv /\ StatusExact
-----------------------------------------------------------------------------
(* A step that prints nothing keeps the account of failures.               *)
LEMMA PrintsNothing ==
  ASSUME FailedInv, UNCHANGED <<run, shown, rejected, failed>>
  PROVE  FailedInv'
BY DEF FailedInv, FailureSeen, Failing

(* A step that does not leave has no status to account for.                *)
LEMMA Underway ==
  ASSUME phase' # "exited"
  PROVE  StatusExact'
BY DEF StatusExact, Checked

(* What is printed for one file adds its own failures; a finding that is   *)
(* not dropped fails the run by its severity alone, or under --strict.     *)
LEMMA PrintedFailures ==
  ASSUME NEW S, NEW n, NEW K, \A f \in K : ~Drop(f)
  PROVE  (\E s \in S \cup {<<n, f>> : f \in K} : Failing(s[2]))
           <=> ((\E s \in S : Failing(s[2])) \/ \E f \in K : Fails(f))
<1> DEFINE T == {<<n, f>> : f \in K}
<1>1. ASSUME NEW f \in K, Fails(f) PROVE \E s \in T : Failing(s[2])
  <2>1. <<n, f>> \in T /\ <<n, f>>[2] = f
    OBVIOUS
  <2>2. Failing(f)
    BY <1>1 DEF Fails, Failing
  <2> QED BY <2>1, <2>2
<1>2. ASSUME NEW s \in T, Failing(s[2]) PROVE \E f \in K : Fails(f)
  <2>1. PICK f \in K : s = <<n, f>>
    OBVIOUS
  <2>2. s[2] = f
    BY <2>1
  <2>3. Fails(f)
    BY <1>2, <2>2 DEF Fails, Failing
  <2> QED BY <2>3
<1> QED BY <1>1, <1>2

(* A run that has only its arguments has not failed and left no status.    *)
THEOREM StatusInit == Init => IInv
BY DEF Init, IInv, PhaseInv, FailedInv, FailureSeen, StatusExact, Checked, Early
-----------------------------------------------------------------------------
(* Each step of a run keeps what failed in agreement with what was printed *)
(* and the status with both.                                               *)
THEOREM StatusStep == IInv /\ [Next]_vars => IInv'
<1> SUFFICES ASSUME IInv, [Next]_vars PROVE IInv'
  OBVIOUS
<1>1. ASSUME PrintRules \/ RefuseArguments \/ LoadFails \/ Completeness \/ Explain \/ ExplainUnits
      PROVE  IInv'
  <2>1. phase \in Early /\ phase' = "exited" /\ exit' \in {0, 2}
    BY <1>1 DEF PrintRules, RefuseArguments, LoadFails, Completeness, Explain, ExplainUnits, Leave, Early
  <2>2. UNCHANGED <<run, shown, rejected, failed>>
    BY <1>1 DEF PrintRules, RefuseArguments, LoadFails, Completeness, Explain, ExplainUnits,
                output, model, input, findings
  <2>3. (exit' = 0) => (run.rules \/ run.query # {})
    BY <1>1 DEF PrintRules, RefuseArguments, LoadFails, Completeness, Explain, ExplainUnits, Leave,
                IInv, PhaseInv
  <2>4. PhaseInv'
    BY <2>1 DEF PhaseInv, Early
  <2>5. FailedInv'
    BY <2>2, PrintsNothing DEF IInv
  <2>6. StatusExact'
    <3>1. ~Checked'
      BY <2>1, <2>2, <2>3 DEF Checked
    <3>2. exit' # 1 /\ shown' = {}
      BY <2>1, <2>2 DEF IInv, PhaseInv
    <3> QED BY <3>1, <3>2 DEF StatusExact
  <2> QED BY <2>4, <2>5, <2>6 DEF IInv
<1>2. ASSUME \/ ResolveFilter \/ LoadProject \/ WithoutProject \/ AugmentDbc \/ EndDbc
             \/ ReadSource \/ GatherScripts \/ RunPass \/ RetainAllowed \/ CheckSource
      PROVE  IInv'
  <2>1. UNCHANGED <<run, shown, rejected, failed>>
    BY <1>2 DEF ResolveFilter, LoadProject, WithoutProject, AugmentDbc, EndDbc, ReadSource,
                GatherScripts, RunPass, RetainAllowed, CheckSource, output, model, input, findings
  <2>2. phase \in Early /\ phase' \in Early
    BY <1>2 DEF ResolveFilter, LoadProject, WithoutProject, AugmentDbc, EndDbc, ReadSource,
                GatherScripts, RunPass, RetainAllowed, CheckSource, Early
  <2>3. ~run.rules
    BY <1>2 DEF ResolveFilter, LoadProject, WithoutProject, AugmentDbc, EndDbc, ReadSource,
                GatherScripts, RunPass, RetainAllowed, CheckSource, IInv, PhaseInv
  <2>4. /\ phase' = "query" => run.query # {}
        /\ phase' \in {"check", "sources", "emit"} => run.query = {}
    BY <1>2 DEF ResolveFilter, LoadProject, WithoutProject, AugmentDbc, EndDbc, ReadSource,
                GatherScripts, RunPass, RetainAllowed, CheckSource, IInv, PhaseInv
  <2>5. PhaseInv'
    BY <2>1, <2>2, <2>3, <2>4 DEF IInv, PhaseInv, Early
  <2>6. FailedInv'
    BY <2>1, PrintsNothing DEF IInv
  <2>7. StatusExact'
    BY <2>2, Underway DEF Early
  <2> QED BY <2>5, <2>6, <2>7 DEF IInv
<1>3. ASSUME EmitProject PROVE IInv'
  <2> DEFINE kept == {f \in audit : AllowsSubject(filter, f) /\ ~Drop(f)}
  <2>1. /\ phase = "sources" /\ phase' = "emit"
        /\ shown' = shown \cup {<<0, f>> : f \in kept}
        /\ failed' = (failed \/ \E f \in kept : Fails(f))
        /\ UNCHANGED <<run, rejected>>
    BY <1>3 DEF EmitProject
  <2>2. PhaseInv'
    BY <2>1 DEF IInv, PhaseInv, Early
  <2>3. FailedInv'
    <3>1. shown = {} /\ rejected = {}
      BY <2>1 DEF IInv, PhaseInv, Early
    <3>2. FailureSeen' <=> \E f \in kept : Fails(f)
      <4>1. FailureSeen' <=> \E s \in shown \cup {<<0, f>> : f \in kept} : Failing(s[2])
        BY <2>1, <3>1 DEF FailureSeen, Failing
      <4>2. (\E s \in shown \cup {<<0, f>> : f \in kept} : Failing(s[2]))
              <=> ((\E s \in shown : Failing(s[2])) \/ \E f \in kept : Fails(f))
        BY PrintedFailures
      <4> QED BY <3>1, <4>1, <4>2
    <3>3. ~failed
      BY <3>1 DEF IInv, FailedInv, FailureSeen
    <3> QED BY <2>1, <3>2, <3>3 DEF FailedInv
  <2>4. StatusExact'
    BY <2>1, Underway
  <2> QED BY <2>2, <2>3, <2>4 DEF IInv
<1>4. ASSUME EmitSource PROVE IInv'
  <2> DEFINE r    == results[step]
             kept == {f \in r.findings : ~Drop(f)}
  <2>1. /\ phase = "emit" /\ phase' = "emit"
        /\ shown' = shown \cup {<<r.file, f>> : f \in kept}
        /\ rejected' = IF r.broken THEN rejected \cup {r.file} ELSE rejected
        /\ failed' = (failed \/ r.broken \/ \E f \in kept : Fails(f))
        /\ UNCHANGED run
    BY <1>4 DEF EmitSource
  <2>2. PhaseInv'
    BY <2>1 DEF IInv, PhaseInv, Early
  <2>3. FailedInv'
    <3>1. (\E s \in shown : Failing(s[2]))'
            <=> ((\E s \in shown : Failing(s[2])) \/ \E f \in kept : Fails(f))
      <4>1. (\E s \in shown : Failing(s[2]))'
              <=> \E s \in shown \cup {<<r.file, f>> : f \in kept} : Failing(s[2])
        BY <2>1 DEF Failing
      <4> QED BY <4>1, PrintedFailures
    <3>2. (rejected' # {}) <=> (rejected # {} \/ r.broken)
      BY <2>1
    <3>3. FailureSeen' <=> (FailureSeen \/ r.broken \/ \E f \in kept : Fails(f))
      BY <3>1, <3>2 DEF FailureSeen
    <3> QED BY <2>1, <3>3 DEF IInv, FailedInv
  <2>4. StatusExact'
    BY <2>1, Underway
  <2> QED BY <2>2, <2>3, <2>4 DEF IInv
<1>5. ASSUME Finish PROVE IInv'
  <2>1. /\ phase = "emit" /\ phase' = "exited"
        /\ exit' = IF failed \/ Unreadable THEN 1 ELSE 0
        /\ UNCHANGED <<run, shown, rejected, failed>>
    BY <1>5 DEF Finish, Leave, Status, output, model, input, findings
  <2>2. PhaseInv'
    BY <2>1 DEF PhaseInv, Early
  <2>3. FailedInv'
    BY <2>1, PrintsNothing DEF IInv
  <2>4. StatusExact'
    <3>1. Checked'
      BY <2>1 DEF Checked, IInv, PhaseInv
    <3>2. (exit' = 1) <=> (failed' \/ Unreadable')
      BY <2>1 DEF Unreadable
    <3>3. failed' <=> FailureSeen'
      BY <2>3 DEF FailedInv
    <3> QED BY <3>1, <3>2, <3>3 DEF StatusExact, FailureSeen, Failing
  <2> QED BY <2>2, <2>3, <2>4 DEF IInv
<1>6. ASSUME UNCHANGED vars PROVE IInv'
  BY <1>6 DEF vars, output, model, input, findings, IInv, PhaseInv, FailedInv, FailureSeen,
              StatusExact, Checked, Unreadable, Failing
<1> QED BY <1>1, <1>2, <1>3, <1>4, <1>5, <1>6 DEF Next

(* The exit status is 1 exactly when a file could not be read or parsed or *)
(* a printed finding is an error, or of any severity under --strict, and a *)
(* run that refuses its arguments or answers a query prints no finding and *)
(* never exits with 1 (finding_disposition and main, main.rs).             *)
THEOREM StatusCorrect == Spec => []StatusExact
<1>1. IInv => StatusExact
  BY DEF IInv
<1> QED BY <1>1, StatusInit, StatusStep, PTL DEF Spec
-----------------------------------------------------------------------------
SourceCheck == [file : Nat, broken : BOOLEAN, findings : SUBSET Finding]

(* Of what is emitted: sequences of source checks made with the filter,    *)
(* which is fixed before there are any.                                    *)
Kept(f) == Allows(filter, f.code) /\ ~Drop(f)

SequenceInv ==
  /\ run \in Runs
  /\ step \in Nat \ {0}
  /\ sources \in Seq(DOMAIN run.files)
  /\ results \in Seq(SourceCheck)

ResultsAllowed ==
  \A k \in DOMAIN results : \A f \in results[k].findings : Allows(filter, f.code)

ShownKept == \A s \in shown : Kept(s[2])

FilterInv ==
  /\ SequenceInv
  /\ phase = "arguments" => results = <<>> /\ shown = {}
  /\ ResultsAllowed
  /\ ShownKept

LEMMA CheckScriptType ==
  ASSUME run \in Runs, NEW i \in DOMAIN run.files
  PROVE  CheckScript(run.files[i]) \subseteq Finding
<1>1. run.files[i] \in File
  BY PipelineAssumption
<1>2. NestingWarning \in Finding
  BY PipelineAssumption DEF NestingWarning, Finding, Severity
<1>3. Raised(run.files[i]) \subseteq Finding
  BY <1>1, <1>2 DEF Raised, File
<1> QED BY <1>3 DEF CheckScript

(* A run that has only its arguments has printed nothing.                  *)
THEOREM FilterInit == Init => FilterInv
<1> SUFFICES ASSUME Init PROVE FilterInv
  OBVIOUS
<1>1. SequenceInv
  BY DEF Init, SequenceInv
<1>2. ResultsAllowed /\ ShownKept
  BY DEF Init, ResultsAllowed, ShownKept
<1> QED BY <1>1, <1>2 DEF FilterInv, Init

(* Each pass and each source is filtered before it is printed, and the     *)
(* filter does not change once it is resolved.                             *)
THEOREM FilterStep == FilterInv /\ [Next]_vars => FilterInv'
<1> SUFFICES ASSUME FilterInv, [Next]_vars PROVE FilterInv'
  OBVIOUS
<1> USE DEF FilterInv
<1>1. ASSUME UNCHANGED <<run, filter, sources, results, shown>>, step' \in Nat \ {0},
             phase' # "arguments" \/ UNCHANGED phase
      PROVE  FilterInv'
  BY <1>1 DEF SequenceInv, ResultsAllowed, ShownKept, Kept, Allows, Drop
<1>2. CASE \/ PrintRules \/ RefuseArguments \/ LoadFails \/ LoadProject \/ WithoutProject
           \/ AugmentDbc \/ EndDbc \/ GatherScripts \/ Completeness \/ Explain \/ ExplainUnits
           \/ RunPass \/ RetainAllowed \/ Finish \/ UNCHANGED vars
  <2>1. UNCHANGED <<run, filter, sources, results, shown>>
    BY <1>2 DEF PrintRules, RefuseArguments, LoadFails, LoadProject, WithoutProject, AugmentDbc,
                EndDbc, GatherScripts, Completeness, Explain, ExplainUnits, RunPass, RetainAllowed, Finish,
                vars, model, input, findings, output
  <2>2. step' \in {step, step + 1, 1}
    BY <1>2 DEF PrintRules, RefuseArguments, LoadFails, LoadProject, WithoutProject, AugmentDbc,
                EndDbc, GatherScripts, Completeness, Explain, ExplainUnits, RunPass, RetainAllowed, Finish,
                vars, model, input, findings, output
  <2>3. phase' # "arguments" \/ UNCHANGED phase
    BY <1>2 DEF PrintRules, RefuseArguments, LoadFails, LoadProject, WithoutProject, AugmentDbc,
                EndDbc, GatherScripts, Completeness, Explain, ExplainUnits, RunPass, RetainAllowed, Finish,
                vars, Leave
  <2>4. step' \in Nat \ {0}
    BY <2>2 DEF SequenceInv
  <2> QED BY <1>1, <2>1, <2>3, <2>4
<1>3. ASSUME ResolveFilter PROVE FilterInv'
  <2>1. /\ phase = "arguments" /\ phase' = "load"
        /\ UNCHANGED <<run, step, sources, results, shown>>
    BY <1>3 DEF ResolveFilter, input, findings, output
  <2>2. results' = <<>> /\ shown' = {}
    BY <2>1
  <2> QED BY <2>1, <2>2 DEF SequenceInv, ResultsAllowed, ShownKept
<1>4. ASSUME ReadSource PROVE FilterInv'
  <2>1. /\ phase = "read" /\ phase' = "read"
        /\ step \in DOMAIN run.files /\ step' = step + 1
        /\ sources' \in {sources, Append(sources, step)}
        /\ UNCHANGED <<run, filter, results, shown>>
    <3>1. run.files \in Seq(File)
      BY PipelineAssumption DEF SequenceInv
    <3> QED BY <1>4, <3>1 DEF ReadSource, SequenceInv, model, findings, output
  <2>2. sources' \in Seq(DOMAIN run.files)
    <3>1. CASE sources' = sources
      BY <2>1, <3>1 DEF SequenceInv
    <3>2. CASE sources' = Append(sources, step)
      BY <2>1, <3>2, AppendProperties DEF SequenceInv
    <3> QED BY <2>1, <3>1, <3>2
  <2> QED BY <2>1, <2>2 DEF SequenceInv, ResultsAllowed, ShownKept, Kept, Allows, Drop
<1>5. ASSUME CheckSource PROVE FilterInv'
  <2> DEFINE i     == sources[step]
             found == {f \in CheckScript(run.files[i]) : Allows(filter, f.code)}
             check == [file |-> i, broken |-> run.files[i].broken, findings |-> found]
  <2>1. /\ phase = "sources" /\ phase' = "sources"
        /\ step <= Len(sources) /\ step' = step + 1
        /\ results' = Append(results, check)
        /\ UNCHANGED <<run, filter, sources, shown>>
    BY <1>5 DEF CheckSource, model, input, output
  <2>2. i \in DOMAIN run.files
    BY <2>1 DEF SequenceInv
  <2>3. run.files \in Seq(File) /\ run.files[i] \in File
    BY <2>2, PipelineAssumption DEF SequenceInv
  <2>4. check \in SourceCheck
    <3>1. found \subseteq Finding
      BY <2>2, CheckScriptType DEF SequenceInv
    <3>2. i \in Nat
      BY <2>2, <2>3
    <3> QED BY <2>3, <3>1, <3>2 DEF SourceCheck, File
  <2>5. \A k \in DOMAIN results' :
          \/ k \in DOMAIN results /\ results'[k] = results[k]
          \/ results'[k] = check
    BY <2>1, <2>4 DEF SequenceInv
  <2>6. ResultsAllowed'
    <3> SUFFICES ASSUME NEW k \in DOMAIN results', NEW f \in results'[k].findings
                 PROVE  Allows(filter, f.code)
      BY <2>1 DEF ResultsAllowed, Allows
    <3> QED BY <2>5 DEF ResultsAllowed
  <2>7. SequenceInv'
    BY <2>1, <2>4 DEF SequenceInv
  <2> QED BY <2>1, <2>6, <2>7 DEF ShownKept, Kept, Allows, Drop
<1>6. ASSUME EmitProject PROVE FilterInv'
  <2> DEFINE kept == {f \in audit : AllowsSubject(filter, f) /\ ~Drop(f)}
  <2>1. /\ phase' = "emit" /\ step' = 1
        /\ shown' = shown \cup {<<0, f>> : f \in kept}
        /\ UNCHANGED <<run, filter, sources, results>>
    BY <1>6 DEF EmitProject, model, input, findings
  <2>2. \A f \in kept : Kept(f)
    BY DEF AllowsSubject, Kept
  <2>3. ShownKept'
    BY <2>1, <2>2 DEF ShownKept, Kept, Allows, Drop
  <2> QED BY <2>1, <2>3 DEF SequenceInv, ResultsAllowed, Allows
<1>7. ASSUME EmitSource PROVE FilterInv'
  <2> DEFINE r    == results[step]
             kept == {f \in r.findings : ~Drop(f)}
  <2>1. /\ phase = "emit" /\ phase' = "emit" /\ step' = step + 1 /\ step <= Len(results)
        /\ shown' = shown \cup {<<r.file, f>> : f \in kept}
        /\ UNCHANGED <<run, filter, sources, results>>
    BY <1>7 DEF EmitSource, model, input, findings
  <2>2. step \in DOMAIN results
    BY <2>1 DEF SequenceInv
  <2>3. \A f \in kept : Kept(f)
    BY <2>2 DEF ResultsAllowed, Kept
  <2>4. ShownKept'
    BY <2>1, <2>3 DEF ShownKept, Kept, Allows, Drop
  <2> QED BY <2>1, <2>4 DEF SequenceInv, ResultsAllowed, Allows
<1> QED BY <1>2, <1>3, <1>4, <1>5, <1>6, <1>7 DEF Next

(* A finding whose code is ignored, or not among the selected ones, or a   *)
(* warning under --no-warnings, is never printed, and so never fails the   *)
(* run either (filter.rs allows, main.rs finding_disposition).             *)
THEOREM FilterRespected == Spec => []ShownKept
<1>1. FilterInv => ShownKept
  BY DEF FilterInv
<1> QED BY <1>1, FilterInit, FilterStep, PTL DEF Spec
-----------------------------------------------------------------------------
(* What a run that goes on to check knows of its inputs: a project that is *)
(* loaded comes with its config and every DBC file, or with a word about   *)
(* each that is missing or malformed.                                      *)
ProjectTold ==
  /\ "project" \in loaded
  /\ "cfg" \in loaded \/ "no_cfg" \in notes
  /\ run.dbcs = <<>> => "no_dbc" \in notes

DbcTold(k) == run.dbcs[k].name \in loaded \cup notes

InputsTold == "no_project" \in notes \/ (ProjectTold /\ \A k \in DOMAIN run.dbcs : DbcTold(k))

LoadInv ==
  /\ phase \in {"arguments", "load"} => step = 1
  /\ phase = "dbc" => ProjectTold /\ \A k \in DOMAIN run.dbcs : k < step => DbcTold(k)
  /\ phase \in {"read", "query", "check", "sources", "emit"} => InputsTold
  /\ Checked => InputsTold
(* The inputs of a run that checks are told of before it reads a source.   *)
LEMMA LoadStep == IInv /\ FilterInv /\ LoadInv /\ [Next]_vars => LoadInv'
<1> SUFFICES ASSUME IInv, FilterInv, LoadInv, [Next]_vars PROVE LoadInv'
  OBVIOUS
<1> USE DEF LoadInv
<1>1. run.dbcs \in Seq(Dbc) /\ step \in Nat \ {0}
  BY PipelineAssumption DEF FilterInv, SequenceInv
<1>2. ASSUME PrintRules \/ RefuseArguments \/ LoadFails \/ Completeness \/ Explain \/ ExplainUnits
      PROVE  LoadInv'
  <2>1. phase' = "exited" /\ exit' \in {0, 2} /\ UNCHANGED run
    BY <1>2 DEF PrintRules, RefuseArguments, LoadFails, Completeness, Explain, ExplainUnits, Leave
  <2>2. (exit' = 0) => (run.rules \/ run.query # {})
    BY <1>2 DEF PrintRules, RefuseArguments, LoadFails, Completeness, Explain, ExplainUnits, Leave,
                IInv, PhaseInv
  <2>3. ~Checked'
    BY <2>1, <2>2 DEF Checked
  <2> QED BY <2>1, <2>3
<1>3. ASSUME ResolveFilter PROVE LoadInv'
  BY <1>3 DEF ResolveFilter, Checked
<1>4. ASSUME LoadProject PROVE LoadInv'
  <2>1. phase' = "dbc" /\ step' = 1 /\ UNCHANGED run
    BY <1>4 DEF LoadProject
  <2>2. ProjectTold'
    BY <1>4 DEF LoadProject, ProjectTold
  <2>3. \A k \in DOMAIN run.dbcs : ~(k < 1)
    BY <1>1
  <2> QED BY <2>1, <2>2, <2>3 DEF Checked
<1>5. ASSUME WithoutProject PROVE LoadInv'
  BY <1>5 DEF WithoutProject, InputsTold, Checked
<1>6. ASSUME AugmentDbc PROVE LoadInv'
  <2>1. /\ phase = "dbc" /\ phase' = "dbc" /\ step \in DOMAIN run.dbcs /\ step' = step + 1
        /\ loaded' = loaded \cup (IF run.dbcs[step].ok THEN {run.dbcs[step].name} ELSE {})
        /\ notes' = notes \cup Skipped(run.dbcs[step])
        /\ UNCHANGED run
    BY <1>1, <1>6 DEF AugmentDbc
  <2>2. ProjectTold'
    BY <2>1 DEF ProjectTold
  <2>3. ASSUME NEW k \in DOMAIN run.dbcs, k < step + 1 PROVE DbcTold(k)'
    <3>1. k < step \/ k = step
      BY <1>1, <2>3
    <3>2. CASE k < step
      BY <2>1, <3>2 DEF DbcTold
    <3>3. CASE k = step
      BY <2>1, <3>3 DEF DbcTold, Skipped
    <3> QED BY <3>1, <3>2, <3>3
  <2> QED BY <2>1, <2>2, <2>3 DEF Checked
<1>7. ASSUME EndDbc PROVE LoadInv'
  <2>1. phase = "dbc" /\ phase' = "read" /\ step > Len(run.dbcs) /\ UNCHANGED <<run, loaded, notes>>
    BY <1>7 DEF EndDbc, model
  <2>2. \A k \in DOMAIN run.dbcs : k < step
    BY <1>1, <2>1
  <2>3. InputsTold'
    BY <2>1, <2>2 DEF InputsTold, ProjectTold, DbcTold
  <2> QED BY <2>1, <2>3 DEF Checked
<1>8. ASSUME \/ ReadSource \/ GatherScripts \/ RunPass \/ RetainAllowed \/ CheckSource
             \/ EmitProject \/ EmitSource \/ Finish
      PROVE  LoadInv'
  <2>1. /\ phase \in {"read", "query", "check", "sources", "emit"}
        /\ phase' \in {"read", "query", "check", "sources", "emit", "exited"}
        /\ UNCHANGED <<run, loaded, notes>>
    BY <1>8 DEF ReadSource, GatherScripts, RunPass, RetainAllowed, CheckSource, EmitProject,
                EmitSource, Finish, Leave, model
  <2>2. InputsTold'
    BY <2>1 DEF InputsTold, ProjectTold, DbcTold
  <2> QED BY <2>1, <2>2
<1>9. ASSUME UNCHANGED vars PROVE LoadInv'
  BY <1>9 DEF vars, model, input, findings, output, InputsTold, ProjectTold, DbcTold, Checked
<1> QED BY <1>2, <1>3, <1>4, <1>5, <1>6, <1>7, <1>8, <1>9 DEF Next

(* Whatever the project, its config and its DBC files are, a run that went *)
(* on to check announced every input without which a finding cannot be     *)
(* seen (main.rs load_project, project.rs augment_dbc): a clean run that   *)
(* is not complete says so.                                                *)
THEOREM AnnouncedCorrect == Spec => []Announced
<1>1. Init => LoadInv
  BY DEF Init, LoadInv, Checked
<1>2. FilterInv /\ LoadInv => Announced
  <2> SUFFICES ASSUME FilterInv, LoadInv, Checked,
                      NEW f \in run.findings \cup UNION {run.files[i].findings : i \in DOMAIN run.files}
               PROVE  \/ Seen(f) \/ notes \cap {"no_project", f.needs} # {}
                      \/ (f.needs = "cfg" /\ "no_cfg" \in notes)
                      \/ (f.needs # "cfg" /\ "no_dbc" \in notes)
    BY DEF Announced
  <2>1. CASE "no_project" \in notes
    BY <2>1
  <2>2. CASE ProjectTold /\ \A k \in DOMAIN run.dbcs : DbcTold(k)
    <3>1. CASE run.dbcs = <<>>
      BY <2>2, <3>1 DEF ProjectTold, Seen
    <3>2. CASE run.dbcs # <<>>
      <4>1. f.needs \in Given(run)
        BY <3>2, GivenAssumption DEF FilterInv, SequenceInv
      <4>2. CASE \E k \in DOMAIN run.dbcs : f.needs = run.dbcs[k].name
        <5>1. f.needs \in loaded \cup notes
          BY <2>2, <4>2 DEF DbcTold
        <5> QED BY <5>1 DEF Seen
      <4>3. CASE f.needs \in {None, "project", "cfg"}
        BY <2>2, <4>3 DEF ProjectTold, Seen
      <4> QED BY <4>1, <4>2, <4>3 DEF Given
    <3> QED BY <3>1, <3>2
  <2> QED BY <2>1, <2>2 DEF LoadInv, InputsTold
<1>3. IInv /\ FilterInv /\ LoadInv /\ [Next]_vars => LoadInv'
  BY LoadStep
<1> QED BY <1>1, <1>2, <1>3, StatusInit, StatusStep, FilterInit, FilterStep, PTL DEF Spec
-----------------------------------------------------------------------------
Resolved ==
  [select  |-> Overlay(Trimmed(run.select), run.tools.select),
   ignore  |-> Overlay(Trimmed(run.ignore), run.tools.ignore),
   symbols |-> Overlay(run.symbols, run.tools.symbols)]

(* From the arguments on the filter is what the flags and the tools file   *)
(* say, and the scripts are what the project and the walk give.            *)
SetupInv ==
  /\ phase \notin {"arguments", "exited"} => filter = Resolved
  /\ phase \in {"check", "sources", "emit"} => scripts = Gather(run.walk)

(* The sources are the readable files that were come to.                   *)
ReadInv ==
  /\ phase \in {"arguments", "load"} => step = 1
  /\ phase \in {"arguments", "load", "dbc"} => sources = <<>>
  /\ \A k \in DOMAIN sources : run.files[sources[k]].readable
  /\ phase \in {"read", "query", "check", "sources", "emit"} =>
       \A i \in DOMAIN run.files :
         run.files[i].readable /\ (phase = "read" => i < step) =>
            \E k \in DOMAIN sources : sources[k] = i

(* The findings of the passes that ran; all of them, once filtered.        *)
Audited(f) == HasProject /\ Requested(f) /\ Partial(f) /\ Seen(f)
RanBefore(f) == \E k \in DOMAIN Passes : k < step /\ f.pass = Passes[k]

AuditInv ==
  /\ phase \in {"arguments", "load", "dbc", "read", "query"} => audit = {}
  /\ phase = "check" => audit = {f \in run.findings : Audited(f) /\ RanBefore(f)}
  /\ phase \in {"sources", "emit"} =>
       audit = {f \in run.findings : Audited(f) /\ AllowsSubject(filter, f)}

(* One result for each source that was checked, in their order.            *)
Outcome(i) ==
  [file     |-> i,
   broken   |-> run.files[i].broken,
   findings |-> {f \in CheckScript(run.files[i]) : Allows(filter, f.code)}]

ResultInv ==
  /\ phase \in Early \ {"sources"} => results = <<>>
  /\ phase = "sources" => Len(results) = step - 1 /\ step <= Len(sources) + 1
  /\ phase = "emit" => Len(results) = Len(sources)
  /\ phase \in {"sources", "emit"} =>
       \A k \in DOMAIN results : results[k] = Outcome(sources[k])

(* The findings of the project, then those of each source emitted so far.  *)
EmittedBefore ==
  UNION {{sources[k]} \X FileFindings(run.files[sources[k]]) : k \in {j \in DOMAIN sources : j < step}}

EmitInv ==
  /\ phase = "emit" => shown = ProjectFindings \cup EmittedBefore
  /\ ShownExact

ShownInv == SetupInv /\ ReadInv /\ AuditInv /\ ResultInv /\ EmitInv
-----------------------------------------------------------------------------
(* The documented precedence of the flags over the tools file is what the  *)
(* resolved filter decides.                                                *)
LEMMA Selection ==
  ASSUME run \in Runs, filter = Resolved, NEW c
  PROVE  Selects(c) <=> (Allows(filter, c) /\ (c \in OptIn => c \in filter.select))
<1> DEFINE chosen == IF run.select # None THEN run.select \ {Blank}
                     ELSE IF run.tools.select # None THEN run.tools.select ELSE {}
           ignored == IF run.ignore # None THEN run.ignore \ {Blank}
                      ELSE IF run.tools.ignore # None THEN run.tools.ignore ELSE {}
<1>1. /\ run.select # None => run.select \ {Blank} # None
      /\ run.ignore # None => run.ignore \ {Blank} # None
  BY PipelineAssumption
<1>2. filter.select = chosen
  BY <1>1 DEF Resolved, Overlay, Trimmed
<1>3. filter.ignore = ignored
  BY <1>1 DEF Resolved, Overlay, Trimmed
<1>4. Selects(c) <=> (c \notin ignored /\ (c \in chosen \/ (chosen = {} /\ c \notin OptIn)))
  BY DEF Selects
<1> HIDE DEF chosen, ignored
<1> QED BY <1>2, <1>3, <1>4 DEF Allows

LEMMA Ignoring ==
  ASSUME run \in Runs, filter = Resolved, NEW f
  PROVE  AllowsSubject(filter, f) <=> (Allows(filter, f.code) /\ ~SymbolIgnored(f))
<1>1. filter.symbols = IF run.symbols # None THEN run.symbols
                       ELSE IF run.tools.symbols # None THEN run.tools.symbols ELSE {}
  BY DEF Resolved, Overlay
<1>2. SymbolIgnored(f) <=> <<f.code, f.subject>> \in filter.symbols
  BY <1>1 DEF SymbolIgnored
<1>3. \A pair \in filter.symbols : pair[2] # None
  BY <1>1, PipelineAssumption
<1>4. <<f.code, f.subject>> \in filter.symbols => f.subject # None
  BY <1>3
<1> QED BY <1>2, <1>4 DEF AllowsSubject

(* What a source contributes to the output is what its file, the filter    *)
(* and the annotations leave.                                              *)
LEMMA OutcomeShown ==
  ASSUME run \in Runs, filter = Resolved, NEW i \in DOMAIN run.files, run.files[i].readable
  PROVE  {f \in Outcome(i).findings : ~Drop(f)} = FileFindings(run.files[i])
<1> DEFINE file == run.files[i]
           found == IF file.deep THEN {NestingWarning} ELSE file.findings
<1>1. file \in File
  BY PipelineAssumption
<1>2. NestingWarning \in Finding /\ Seen(NestingWarning) /\ NestingWarning.code \notin OptIn
  BY PipelineAssumption DEF NestingWarning, Finding, Severity, Seen
<1>3. found \subseteq Finding
  BY <1>1, <1>2 DEF File
<1>4. Raised(file) = {f \in found : Registry(f) /\ Seen(f)}
  BY <1>2 DEF Raised, Registry
<1>5. ASSUME NEW f \in found PROVE ~Silenced(file, f) <=> Unannotated(file, f)
  <2>1. f.line \in Nat /\ f.code \in Code
    BY <1>3 DEF Finding
  <2>2. (f.line > 0) <=> (f.line # 0)
    BY <2>1
  <2>3. \A a \in file.allows :
          (a.codes = {} \/ f.code \in a.codes) <=> f.code \in (IF a.codes = {} THEN Code ELSE a.codes)
    BY <2>1
  <2> QED BY <2>2, <2>3 DEF Silenced, Unannotated
<1>6. ASSUME NEW f \in found
      PROVE  (Registry(f) /\ Seen(f) /\ Allows(filter, f.code) /\ ~Drop(f)) <=> Wanted(f)
  BY Selection DEF Registry, Wanted, Muted, Drop
<1>7. Outcome(i).findings = {f \in CheckScript(file) : Allows(filter, f.code)}
  BY DEF Outcome
<1>8. CheckScript(file) = IF file.broken THEN {} ELSE {f \in Raised(file) : ~Silenced(file, f)}
  BY DEF CheckScript
<1>9. FileFindings(file) = IF file.broken THEN {} ELSE {f \in found : Wanted(f) /\ Unannotated(file, f)}
  BY DEF FileFindings
<1> HIDE DEF file, found
<1>10. CASE file.broken
  BY <1>7, <1>8, <1>9, <1>10 DEF file
<1>11. CASE ~file.broken
  <2>1. ASSUME NEW f
        PROVE  f \in {g \in Outcome(i).findings : ~Drop(g)} <=> f \in FileFindings(file)
    BY <1>4, <1>5, <1>6, <1>7, <1>8, <1>9, <1>11
  <2> QED BY <2>1 DEF file
<1> QED BY <1>10, <1>11
-----------------------------------------------------------------------------
(* The filter is fixed when the arguments are accepted, and the scripts    *)
(* when the sources have been read.                                        *)
LEMMA SetupStep == IInv /\ SetupInv /\ [Next]_vars => SetupInv'
<1> SUFFICES ASSUME IInv, SetupInv, [Next]_vars PROVE SetupInv'
  OBVIOUS
<1> USE DEF SetupInv
<1>1. ASSUME PrintRules \/ RefuseArguments \/ LoadFails \/ Completeness \/ Explain \/ ExplainUnits \/ Finish
      PROVE  SetupInv'
  BY <1>1 DEF PrintRules, RefuseArguments, LoadFails, Completeness, Explain, ExplainUnits, Finish, Leave
<1>2. ASSUME ResolveFilter PROVE SetupInv'
  BY <1>2 DEF ResolveFilter, Resolved
<1>3. ASSUME LoadProject \/ WithoutProject \/ AugmentDbc \/ EndDbc \/ ReadSource
      PROVE  SetupInv'
  BY <1>3 DEF LoadProject, WithoutProject, AugmentDbc, EndDbc, ReadSource, model, Resolved
<1>4. ASSUME GatherScripts PROVE SetupInv'
  BY <1>4 DEF GatherScripts, model, Resolved, Gather, HasProject
<1>5. ASSUME RunPass \/ RetainAllowed \/ CheckSource \/ EmitProject \/ EmitSource \/ UNCHANGED vars
      PROVE  SetupInv'
  BY <1>5 DEF RunPass, RetainAllowed, CheckSource, EmitProject, EmitSource, vars, model, input,
              Resolved, Gather, HasProject
<1> QED BY <1>1, <1>2, <1>3, <1>4, <1>5 DEF Next

(* One requested file is read after the other; none is passed over.        *)
LEMMA ReadStep == FilterInv /\ ReadInv /\ [Next]_vars => ReadInv'
<1> SUFFICES ASSUME FilterInv, ReadInv, [Next]_vars PROVE ReadInv'
  OBVIOUS
<1> USE DEF ReadInv
<1>1. run.files \in Seq(File) /\ step \in Nat \ {0} /\ sources \in Seq(DOMAIN run.files)
  BY PipelineAssumption DEF FilterInv, SequenceInv
<1>2. ASSUME \/ PrintRules \/ RefuseArguments \/ LoadFails \/ Completeness \/ Explain
             \/ ExplainUnits \/ Finish
      PROVE  ReadInv'
  BY <1>2 DEF PrintRules, RefuseArguments, LoadFails, Completeness, Explain, ExplainUnits, Finish,
              Leave, input
<1>3. ASSUME ResolveFilter \/ LoadProject \/ AugmentDbc PROVE ReadInv'
  BY <1>3 DEF ResolveFilter, LoadProject, AugmentDbc, input
<1>4. ASSUME WithoutProject \/ EndDbc PROVE ReadInv'
  <2>1. /\ phase \in {"load", "dbc"} /\ phase' = "read" /\ step' = 1
        /\ UNCHANGED <<run, sources>>
    BY <1>4 DEF WithoutProject, EndDbc, input
  <2>2. \A i \in DOMAIN run.files : ~(i < 1)
    BY <1>1
  <2> QED BY <2>1, <2>2
<1>5. ASSUME ReadSource PROVE ReadInv'
  <2>1. /\ phase = "read" /\ phase' = "read" /\ step \in DOMAIN run.files /\ step' = step + 1
        /\ sources' = IF run.files[step].readable THEN Append(sources, step) ELSE sources
        /\ UNCHANGED run
    BY <1>1, <1>5 DEF ReadSource, Reads
  <2>2. \A k \in DOMAIN sources : k \in DOMAIN sources' /\ sources'[k] = sources[k]
    BY <1>1, <2>1
  <2>3. ASSUME NEW k \in DOMAIN sources' PROVE run.files[sources'[k]].readable
    <3>1. CASE sources' = sources
      BY <3>1
    <3>2. CASE run.files[step].readable /\ sources' = Append(sources, step)
      <4>1. (k \in DOMAIN sources /\ sources'[k] = sources[k]) \/ sources'[k] = step
        BY <1>1, <2>1, <3>2
      <4> QED BY <4>1, <3>2
    <3> QED BY <2>1, <3>1, <3>2
  <2>4. ASSUME NEW i \in DOMAIN run.files, run.files[i].readable, i < step + 1
        PROVE  \E k \in DOMAIN sources' : sources'[k] = i
    <3>1. CASE i < step
      BY <2>1, <2>2, <2>4, <3>1
    <3>2. CASE i = step
      <4>1. sources' = Append(sources, step)
        BY <2>1, <2>4, <3>2
      <4>2. Len(sources) + 1 \in DOMAIN sources' /\ sources'[Len(sources) + 1] = step
        BY <1>1, <2>1, <4>1
      <4> QED BY <3>2, <4>2
    <3> QED BY <1>1, <2>4, <3>1, <3>2
  <2> QED BY <2>1, <2>3, <2>4
<1>6. ASSUME GatherScripts PROVE ReadInv'
  <2>1. /\ phase = "read" /\ phase' \in {"check", "query"} /\ step > Len(run.files)
        /\ UNCHANGED <<run, sources>>
    BY <1>6 DEF GatherScripts
  <2>2. \A i \in DOMAIN run.files : i < step
    BY <1>1, <2>1
  <2> QED BY <2>1, <2>2
<1>7. ASSUME RunPass \/ RetainAllowed \/ CheckSource \/ EmitProject \/ EmitSource PROVE ReadInv'
  <2>1. /\ phase \in {"check", "sources", "emit"} /\ phase' \in {"check", "sources", "emit"}
        /\ UNCHANGED <<run, sources>>
    BY <1>7 DEF RunPass, RetainAllowed, CheckSource, EmitProject, EmitSource, input
  <2> QED BY <2>1
<1>8. ASSUME UNCHANGED vars PROVE ReadInv'
  BY <1>8 DEF vars, input
<1> QED BY <1>2, <1>3, <1>4, <1>5, <1>6, <1>7, <1>8 DEF Next

LEMMA PassesSeq == DOMAIN Passes = 1..Len(Passes) /\ Len(Passes) \in Nat
<1>1. DOMAIN Passes = 1..11 /\ Len(Passes) = 11
  BY DEF Passes
<1> QED BY <1>1

(* What a pass may report does not depend on how far the run has come.     *)
LEMMA AuditedStays ==
  ASSUME UNCHANGED <<run, filter, loaded, scripts>>, NEW f
  PROVE  Audited(f)' <=> Audited(f)
BY DEF Audited, HasProject, Requested, Partial, Seen

(* Each pass adds its findings, and the filter is applied once, to all.    *)
LEMMA AuditStep == FilterInv /\ AuditInv /\ [Next]_vars => AuditInv'
<1> SUFFICES ASSUME FilterInv, AuditInv, [Next]_vars PROVE AuditInv'
  OBVIOUS
<1> USE DEF AuditInv
<1>1. step \in Nat \ {0} /\ run.findings \subseteq {f \in Finding : \E k \in DOMAIN Passes : f.pass = Passes[k]}
  BY PipelineAssumption DEF FilterInv, SequenceInv
<1>2. ASSUME \/ PrintRules \/ RefuseArguments \/ LoadFails \/ Completeness \/ Explain
             \/ ExplainUnits \/ Finish
      PROVE  AuditInv'
  BY <1>2 DEF PrintRules, RefuseArguments, LoadFails, Completeness, Explain, ExplainUnits, Finish, Leave
<1>3. ASSUME ResolveFilter \/ LoadProject \/ WithoutProject \/ AugmentDbc \/ EndDbc \/ ReadSource
      PROVE  AuditInv'
  BY <1>3 DEF ResolveFilter, LoadProject, WithoutProject, AugmentDbc, EndDbc, ReadSource, findings
<1>4. ASSUME GatherScripts PROVE AuditInv'
  <2>1. /\ phase = "read" /\ phase' \in {"check", "query"} /\ step' = 1
        /\ UNCHANGED <<run, audit>>
    BY <1>4 DEF GatherScripts, findings
  <2>2. \A f : ~RanBefore(f)'
    BY <2>1, PassesSeq DEF RanBefore
  <2> QED BY <2>1, <2>2
<1>5. ASSUME RunPass PROVE AuditInv'
  <2>1. /\ phase = "check" /\ phase' = "check" /\ step <= Len(Passes) /\ step' = step + 1
        /\ audit' = audit \cup {f \in run.findings : Audited(f) /\ f.pass = Passes[step]}
        /\ UNCHANGED <<run, filter, loaded, scripts>>
    BY <1>5 DEF RunPass, Audited, model, input
  <2>2. ASSUME NEW f PROVE RanBefore(f)' <=> (RanBefore(f) \/ f.pass = Passes[step])
    <3>1. \A k \in DOMAIN Passes : k < step + 1 <=> (k < step \/ k = step)
      BY <1>1, PassesSeq
    <3>2. step \in DOMAIN Passes
      BY <1>1, <2>1, PassesSeq
    <3> QED BY <2>1, <3>1, <3>2 DEF RanBefore
  <2>3. audit' = {f \in run.findings : Audited(f)' /\ RanBefore(f)'}
    BY <2>1, <2>2, AuditedStays
  <2> QED BY <2>1, <2>3
<1>6. ASSUME RetainAllowed PROVE AuditInv'
  <2>1. /\ phase = "check" /\ phase' = "sources" /\ step > Len(Passes)
        /\ audit' = {f \in audit : AllowsSubject(filter, f)}
        /\ UNCHANGED <<run, filter, loaded, scripts>>
    BY <1>6 DEF RetainAllowed, model, input
  <2>2. \A k \in DOMAIN Passes : k < step
    BY <1>1, <2>1, PassesSeq
  <2>3. \A f \in run.findings : RanBefore(f)
    BY <1>1, <2>2 DEF RanBefore
  <2>4. audit' = {f \in run.findings : Audited(f)' /\ AllowsSubject(filter, f)}
    BY <2>1, <2>3, AuditedStays
  <2> QED BY <2>1, <2>4
<1>7. ASSUME CheckSource \/ EmitProject \/ EmitSource PROVE AuditInv'
  <2>1. /\ phase \in {"sources", "emit"} /\ phase' \in {"sources", "emit"}
        /\ UNCHANGED <<run, filter, loaded, scripts, audit>>
    BY <1>7 DEF CheckSource, EmitProject, EmitSource, model, input, findings
  <2> QED BY <2>1, AuditedStays
<1>8. ASSUME UNCHANGED vars PROVE AuditInv'
  <2>1. UNCHANGED <<run, phase, step, filter, loaded, scripts, audit>>
    BY <1>8 DEF vars, model, input, findings
  <2>2. \A f : RanBefore(f)' <=> RanBefore(f)
    BY <2>1 DEF RanBefore
  <2> QED BY <2>1, <2>2, AuditedStays
<1> QED BY <1>2, <1>3, <1>4, <1>5, <1>6, <1>7, <1>8 DEF Next

LEMMA OutcomeStays ==
  ASSUME UNCHANGED <<run, filter, loaded>>, NEW i
  PROVE  Outcome(i)' = Outcome(i)
BY DEF Outcome, CheckScript, Raised, Registry, Seen, Silenced, Allows

(* One result for each source, made with the inputs that were loaded.      *)
LEMMA ResultStep == FilterInv /\ ResultInv /\ [Next]_vars => ResultInv'
<1> SUFFICES ASSUME FilterInv, ResultInv, [Next]_vars PROVE ResultInv'
  OBVIOUS
<1> USE DEF ResultInv
<1>1. step \in Nat \ {0} /\ sources \in Seq(DOMAIN run.files) /\ results \in Seq(SourceCheck)
  BY DEF FilterInv, SequenceInv
<1>2. ASSUME \/ PrintRules \/ RefuseArguments \/ LoadFails \/ Completeness \/ Explain
             \/ ExplainUnits \/ Finish
      PROVE  ResultInv'
  BY <1>2 DEF PrintRules, RefuseArguments, LoadFails, Completeness, Explain, ExplainUnits, Finish,
              Leave, Early
<1>3. ASSUME \/ ResolveFilter \/ LoadProject \/ WithoutProject \/ AugmentDbc \/ EndDbc \/ ReadSource
             \/ GatherScripts \/ RunPass
      PROVE  ResultInv'
  BY <1>3 DEF ResolveFilter, LoadProject, WithoutProject, AugmentDbc, EndDbc, ReadSource,
              GatherScripts, RunPass, findings, Early
<1>4. ASSUME RetainAllowed PROVE ResultInv'
  <2>1. phase = "check" /\ phase' = "sources" /\ step' = 1 /\ UNCHANGED <<sources, results>>
    BY <1>4 DEF RetainAllowed, input
  <2>2. results' = <<>>
    BY <2>1 DEF Early
  <2> QED BY <1>1, <2>1, <2>2 DEF Early
<1>5. ASSUME CheckSource PROVE ResultInv'
  <2>1. /\ phase = "sources" /\ phase' = "sources" /\ step <= Len(sources) /\ step' = step + 1
        /\ results' = Append(results, Outcome(sources[step]))
        /\ UNCHANGED <<run, filter, loaded, sources>>
    BY <1>5 DEF CheckSource, Outcome, model, input
  <2>2. \A k \in DOMAIN results' : IF k = step THEN results'[k] = Outcome(sources[step])
                                    ELSE k \in DOMAIN results /\ results'[k] = results[k]
    BY <1>1, <2>1
  <2>3. ASSUME NEW k \in DOMAIN results' PROVE results'[k] = Outcome(sources[k])
    BY <2>1, <2>2, <2>3
  <2>4. Len(results') = step
    BY <1>1, <2>1
  <2> QED BY <1>1, <2>1, <2>3, <2>4, OutcomeStays DEF Early
<1>6. ASSUME EmitProject PROVE ResultInv'
  <2>1. /\ phase = "sources" /\ phase' = "emit" /\ step > Len(sources)
        /\ UNCHANGED <<run, filter, loaded, sources, results>>
    BY <1>6 DEF EmitProject, model, input, findings
  <2>2. Len(results) = Len(sources)
    BY <1>1, <2>1
  <2> QED BY <2>1, <2>2, OutcomeStays DEF Early
<1>7. ASSUME EmitSource PROVE ResultInv'
  <2>1. /\ phase = "emit" /\ phase' = "emit"
        /\ UNCHANGED <<run, filter, loaded, sources, results>>
    BY <1>7 DEF EmitSource, model, input, findings
  <2> QED BY <2>1, OutcomeStays DEF Early
<1>8. ASSUME UNCHANGED vars PROVE ResultInv'
  <2>1. UNCHANGED <<run, phase, step, filter, loaded, sources, results>>
    BY <1>8 DEF vars, model, input, findings
  <2> QED BY <2>1, OutcomeStays
<1> QED BY <1>2, <1>3, <1>4, <1>5, <1>6, <1>7, <1>8 DEF Next
-----------------------------------------------------------------------------
(* The project findings that are printed are those the flags leave.        *)
LEMMA ProjectShown ==
  ASSUME run \in Runs, filter = Resolved, scripts = Gather(run.walk),
         audit = {f \in run.findings : Audited(f) /\ AllowsSubject(filter, f)}
  PROVE  {<<0, f>> : f \in {g \in audit : AllowsSubject(filter, g) /\ ~Drop(g)}} = ProjectFindings
<1> DEFINE wanted == {g \in run.findings :
             /\ HasProject
             /\ Wanted(g)
             /\ ~SymbolIgnored(g)
             /\ g.partial => ~run.walk
             /\ g.pass = "names" => run.audit_names}
           kept == {g \in audit : AllowsSubject(filter, g) /\ ~Drop(g)}
<1>1. ASSUME NEW g \in run.findings, HasProject PROVE Partial(g) <=> (g.partial => ~run.walk)
  <2>1. scripts = "requested" <=> ~run.walk
    BY <1>1 DEF Gather
  <2>2. g.partial \in BOOLEAN
    BY PipelineAssumption DEF Finding
  <2> QED BY <2>1, <2>2 DEF Partial
<1>2. ASSUME NEW g \in run.findings
      PROVE  (Audited(g) /\ AllowsSubject(filter, g) /\ ~Drop(g)) <=> g \in wanted
  BY <1>1, Selection, Ignoring DEF Audited, Requested, Wanted, Muted, Drop
<1>3. kept = wanted
  BY <1>2
<1>4. ProjectFindings = {<<0, f>> : f \in wanted}
  BY DEF ProjectFindings
<1> HIDE DEF kept, wanted
<1> QED BY <1>3, <1>4 DEF kept

(* The findings of a file and of the project hang on no more than the      *)
(* command line and the inputs that were loaded.                           *)
LEMMA FileStays ==
  ASSUME UNCHANGED <<run, loaded>>, NEW file
  PROVE  FileFindings(file)' = FileFindings(file)
BY DEF FileFindings, Wanted, Selects, Seen, Muted, Unannotated

LEMMA ProjectStays ==
  ASSUME UNCHANGED <<run, loaded>>
  PROVE  ProjectFindings' = ProjectFindings
BY DEF ProjectFindings, HasProject, Wanted, Selects, Seen, Muted, SymbolIgnored

(* What is printed while results are emitted, and so at the end.           *)
LEMMA EmitStep ==
  IInv /\ FilterInv /\ ShownInv /\ [Next]_vars => EmitInv'
<1> SUFFICES ASSUME IInv, FilterInv, ShownInv, [Next]_vars PROVE EmitInv'
  OBVIOUS
<1> USE DEF EmitInv, ShownInv
<1>1. /\ run \in Runs /\ run.files \in Seq(File) /\ step \in Nat \ {0}
      /\ sources \in Seq(DOMAIN run.files) /\ results \in Seq(SourceCheck)
  BY PipelineAssumption DEF FilterInv, SequenceInv
<1>2. ASSUME PrintRules \/ RefuseArguments \/ LoadFails \/ Completeness \/ Explain \/ ExplainUnits
      PROVE  EmitInv'
  <2>1. phase' = "exited" /\ exit' \in {0, 2} /\ UNCHANGED run
    BY <1>2 DEF PrintRules, RefuseArguments, LoadFails, Completeness, Explain, ExplainUnits, Leave
  <2>2. (exit' = 0) => (run.rules \/ run.query # {})
    BY <1>2 DEF PrintRules, RefuseArguments, LoadFails, Completeness, Explain, ExplainUnits, Leave,
                IInv, PhaseInv
  <2>3. ~Checked'
    BY <2>1, <2>2 DEF Checked
  <2> QED BY <2>1, <2>3 DEF ShownExact
<1>3. ASSUME \/ ResolveFilter \/ LoadProject \/ WithoutProject \/ AugmentDbc \/ EndDbc \/ ReadSource
             \/ GatherScripts \/ RunPass \/ RetainAllowed \/ CheckSource
      PROVE  EmitInv'
  <2>1. phase' \notin {"emit", "exited"}
    BY <1>3 DEF ResolveFilter, LoadProject, WithoutProject, AugmentDbc, EndDbc, ReadSource,
                GatherScripts, RunPass, RetainAllowed, CheckSource
  <2> QED BY <2>1 DEF ShownExact, Checked
<1>4. ASSUME EmitProject PROVE EmitInv'
  <2> DEFINE kept == {f \in audit : AllowsSubject(filter, f) /\ ~Drop(f)}
  <2>1. /\ phase = "sources" /\ phase' = "emit" /\ step' = 1
        /\ shown' = shown \cup {<<0, f>> : f \in kept}
        /\ UNCHANGED <<run, filter, loaded, scripts, sources, audit>>
    BY <1>4 DEF EmitProject, model, input, findings
  <2>2. shown = {}
    BY <2>1 DEF IInv, PhaseInv, Early
  <2>3. {<<0, f>> : f \in kept} = ProjectFindings
    BY <1>1, <2>1, ProjectShown DEF SetupInv, AuditInv
  <2>4. ProjectFindings' = ProjectFindings
    BY <2>1, ProjectStays
  <2>5. EmittedBefore' = {}
    <3>1. {j \in DOMAIN sources : j < 1} = {}
      BY <1>1
    <3> QED BY <2>1, <3>1 DEF EmittedBefore
  <2>6. shown' = (ProjectFindings \cup EmittedBefore)'
    BY <2>1, <2>2, <2>3, <2>4, <2>5
  <2> QED BY <2>1, <2>6 DEF ShownExact, Checked
<1>5. ASSUME EmitSource PROVE EmitInv'
  <2> DEFINE i    == sources[step]
             r    == results[step]
             kept == {f \in r.findings : ~Drop(f)}
  <2>1. /\ phase = "emit" /\ phase' = "emit" /\ step <= Len(results) /\ step' = step + 1
        /\ shown' = shown \cup {<<r.file, f>> : f \in kept}
        /\ UNCHANGED <<run, filter, loaded, scripts, sources>>
    BY <1>5 DEF EmitSource, model, input, findings
  <2>2. step \in DOMAIN sources /\ step \in DOMAIN results /\ r = Outcome(i)
    BY <1>1, <2>1 DEF ResultInv
  <2>3. r.file = i /\ kept = FileFindings(run.files[i])
    <3>1. run.files[i].readable /\ i \in DOMAIN run.files
      BY <1>1, <2>2 DEF ReadInv
    <3>2. {f \in Outcome(i).findings : ~Drop(f)} = FileFindings(run.files[i])
      BY <1>1, <2>1, <3>1, OutcomeShown DEF SetupInv
    <3> QED BY <2>2, <3>2 DEF Outcome
  <2>4. {<<r.file, f>> : f \in kept} = {i} \X FileFindings(run.files[i])
    BY <2>3
  <2>5. EmittedBefore' = EmittedBefore \cup ({i} \X FileFindings(run.files[i]))
    <3>1. {j \in DOMAIN sources : j < step + 1} = {j \in DOMAIN sources : j < step} \cup {step}
      BY <1>1, <2>2
    <3>2. \A file : FileFindings(file)' = FileFindings(file)
      BY <2>1, FileStays
    <3>3. EmittedBefore' = UNION {{sources[k]} \X FileFindings(run.files[sources[k]]) :
                                   k \in {j \in DOMAIN sources : j < step + 1}}
      BY <2>1, <3>2 DEF EmittedBefore
    <3> QED BY <3>1, <3>3 DEF EmittedBefore
  <2>6. ProjectFindings' = ProjectFindings
    BY <2>1, ProjectStays
  <2>7. shown' = (ProjectFindings \cup EmittedBefore)'
    BY <2>1, <2>4, <2>5, <2>6
  <2> QED BY <2>1, <2>7 DEF ShownExact, Checked
<1>6. ASSUME Finish PROVE EmitInv'
  <2>1. /\ phase = "emit" /\ phase' = "exited" /\ (Unreadable \/ step > Len(results))
        /\ UNCHANGED <<run, filter, loaded, sources, shown>>
    BY <1>6 DEF Finish, Leave, model, input, findings, output
  <2>2. ASSUME ~Unreadable PROVE shown = ProjectFindings \cup SourceFindings
    <3>1. \A k \in DOMAIN sources : k < step
      BY <1>1, <2>1, <2>2 DEF ResultInv
    <3>2. \A i \in DOMAIN run.files : \E k \in DOMAIN sources : sources[k] = i
      BY <2>1, <2>2 DEF ReadInv, Unreadable
    <3>3. \A k \in DOMAIN sources : sources[k] \in DOMAIN run.files
      BY <1>1
    <3>4. EmittedBefore = SourceFindings
      <4>1. EmittedBefore = UNION {{sources[k]} \X FileFindings(run.files[sources[k]]) : k \in DOMAIN sources}
        BY <3>1 DEF EmittedBefore
      <4>2. {{sources[k]} \X FileFindings(run.files[sources[k]]) : k \in DOMAIN sources}
              = {{i} \X FileFindings(run.files[i]) : i \in DOMAIN run.files}
        BY <3>2, <3>3
      <4> QED BY <4>1, <4>2 DEF SourceFindings
    <3> QED BY <2>1, <3>4
  <2>3. UNCHANGED <<ProjectFindings, SourceFindings, Unreadable>>
    BY <2>1, ProjectStays, FileStays DEF SourceFindings, Unreadable
  <2> QED BY <2>1, <2>2, <2>3 DEF ShownExact
<1>7. ASSUME UNCHANGED vars PROVE EmitInv'
  <2>1. UNCHANGED <<run, phase, step, filter, loaded, scripts, sources, shown, exit>>
    BY <1>7 DEF vars, model, input, output
  <2>2. UNCHANGED <<ProjectFindings, SourceFindings, EmittedBefore>>
    BY <2>1, ProjectStays, FileStays DEF SourceFindings, EmittedBefore
  <2> QED BY <2>1, <2>2 DEF ShownExact, Checked, Unreadable
<1> QED BY <1>2, <1>3, <1>4, <1>5, <1>6, <1>7 DEF Next

(* When every requested file can be read, a check prints exactly what the  *)
(* flags, the tools file and the annotations leave of what there is to     *)
(* find, for every command line, set of files and findings (filter.rs,     *)
(* project_check.rs, rules/mod.rs, main.rs).                               *)
THEOREM ShownCorrect == Spec => []ShownExact
<1>1. Init => ShownInv
  BY DEF Init, ShownInv, SetupInv, ReadInv, AuditInv, ResultInv, EmitInv, ShownExact, Checked, Early
<1>2. IInv /\ FilterInv /\ ShownInv /\ [Next]_vars => ShownInv'
  BY SetupStep, ReadStep, AuditStep, ResultStep, EmitStep DEF ShownInv
<1>3. ShownInv => ShownExact
  BY DEF ShownInv, EmitInv
<1> QED BY <1>1, <1>2, <1>3, StatusInit, StatusStep, FilterInit, FilterStep, PTL DEF Spec
=============================================================================
