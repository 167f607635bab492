------------------------------ MODULE Pipeline ------------------------------
(***************************************************************************)
(* One run of the command line tool, from its arguments to its exit        *)
(* status: main.rs, the pass list of project_check.rs, the filter of       *)
(* filter.rs, and what rules/mod.rs does with one source (run_with).  What *)
(* a pass or a rule finds is an input of the run; which findings survive,  *)
(* are printed and fail the run is what is modelled.                       *)
(***************************************************************************)
EXTENDS Integers, Sequences

CONSTANTS
  Code,      \* the catalogue of T-codes, TypeCode::all_codes
  OptIn,     \* the codes that run only when selected
  TooDeep,   \* T090
  Blank,     \* an empty filter token
  None,
  Runs       \* the command lines under study, each with the files it meets

(* A hint is no warning: what mutes warnings leaves it.                    *)
Severity == {"error", "warning", "info", "hint"}

(* line: where a source finding starts, 0 for the empty range of a project *)
(* finding; needs: the input without which there is nothing to find; pass: *)
(* the project-wide pass, None for a source; partial: found only by a pass *)
(* that does not see every script.                                         *)
Finding ==
  [code : Code, severity : Severity, line : Nat, subject : STRING \cup {None},
   needs : STRING \cup {None}, pass : STRING \cup {None}, partial : BOOLEAN]

(* An @m1:allow annotation and the lines of its construct; bare: no codes. *)
Allow == [codes : SUBSET Code, from : Nat, to : Nat]

(* broken: it has syntax errors; deep: it is nested beyond the depth cap.  *)
File == [readable : BOOLEAN, broken : BOOLEAN, deep : BOOLEAN,
         findings : SUBSET Finding, allows : SUBSET Allow]

Passes ==
  <<"schedule", "flash", "usage", "multi_writers", "cross_fn", "reachability",
    "dbc_init", "cfg_parameters", "tags", "display_units", "names">>

Dbc == [name : STRING, ok : BOOLEAN]

(* Project findings are those of some pass; None is no list of tokens, and *)
(* an ignored symbol is never the lack of one.                             *)
ASSUME PipelineAssumption ==
  /\ OptIn \subseteq Code
  /\ TooDeep \in Code \ OptIn
  /\ Blank \notin Code
  /\ \A r \in Runs :
       /\ r.files \in Seq(File)
       /\ r.dbcs \in Seq(Dbc)
       /\ r.findings \subseteq {f \in Finding : \E k \in DOMAIN Passes : f.pass = Passes[k]}
       /\ \A tokens \in {r.select, r.ignore} : tokens # None => tokens \ {Blank} # None
       /\ \A pairs \in {r.symbols, r.tools.symbols} :
            pairs # None => \A pair \in pairs : pair[2] # None

(* Where DBC files are given, what a finding needs is one of the inputs.   *)
Given(r) == {None, "project", "cfg"} \cup {r.dbcs[k].name : k \in DOMAIN r.dbcs}

ASSUME GivenAssumption ==
  \A r \in Runs : r.dbcs # <<>> =>
    \A f \in r.findings \cup UNION {r.files[i].findings : i \in DOMAIN r.files} :
       f.needs \in Given(r)

VARIABLES
  run,         \* the command line and the files, never changed
  phase,
  filter,      \* the resolved DiagFilter
  loaded,      \* "project", "cfg" and the names of the DBC files loaded
  step,        \* the DBC file, requested file or pass that is next
  notes,       \* what was announced on stderr
  sources,     \* the requested files that could be read
  scripts,     \* the script set of the project-wide passes
  audit,       \* the project findings, then those the filter keeps
  results,     \* one SourceCheck for each source
  report,      \* the input flags of the completeness report
  shown,       \* the findings printed, each with its file (0: the project)
  rejected,    \* the files whose syntax errors were printed
  failed,      \* a printed finding fails the run
  exit

model    == <<filter, loaded, notes>>
input    == <<sources, scripts>>
findings == <<audit, results>>
output   == <<report, shown, rejected, failed>>

vars == <<run, phase, step, model, input, findings, output, exit>>

Allows(flt, code) ==
  /\ flt.select = {} \/ code \in flt.select
  /\ code \notin flt.ignore

AllowsSubject(flt, f) ==
  /\ Allows(flt, f.code)
  /\ f.subject # None => <<f.code, f.subject>> \notin flt.symbols

(* A flag replaces the field of m1-tools.toml, also when it lists nothing. *)
(* Mutant: a flag adds to the field.                                       *)
OverlayAdds(flag, field) ==
  (IF flag = None THEN {} ELSE flag) \cup (IF field = None THEN {} ELSE field)
Overlay(flag, field) ==
  IF flag # None THEN flag ELSE IF field # None THEN field ELSE {}

(* Mutant: --no-warnings leaves errors only.                               *)
DropBelowErrors(f) == run.no_warnings /\ f.severity # "error"
Drop(f)  == run.no_warnings /\ f.severity = "warning"

(* Mutant: --strict promotes warnings only.                                *)
FailsOnWarnings(f) ==
  \/ f.severity = "error"
  \/ f.severity = "warning" /\ run.strict /\ ~run.no_warnings
Fails(f) == ~Drop(f) /\ (run.strict \/ f.severity = "error")

Trimmed(tokens) == IF tokens = None THEN None ELSE tokens \ {Blank}

Listed(tokens) == IF tokens = None THEN {} ELSE Trimmed(tokens)

KnownCodes == Listed(run.select) \cup Listed(run.ignore) \subseteq Code

(* An explicit path wins over the environment, and that over the search.   *)
Located(place, near) ==
  IF place.flag # None THEN place.flag
  ELSE IF place.env # None THEN place.env ELSE near

ProjectFile == Located(run.project, IF run.files = <<>> THEN None ELSE run.project.near)
ConfigFile  == Located(run.config, IF ProjectFile = None THEN None ELSE run.config.near)

HasProject == "project" \in loaded

(* What a pass or rule can find with the inputs that were loaded.          *)
Seen(f) == f.needs = None \/ f.needs \in loaded

(* line 0 stands for the empty range of a project-level finding.           *)
(* Mutant: an annotation that names codes silences every code.             *)
SilencedByAny(file, f) == \E a \in file.allows : f.line \in a.from .. a.to
Silenced(file, f) ==
  /\ f.line # 0
  /\ \E a \in file.allows :
        f.line \in a.from .. a.to /\ (a.codes = {} \/ f.code \in a.codes)

NestingWarning == [code |-> TooDeep, severity |-> "warning", line |-> 1,
                   subject |-> None, needs |-> None, pass |-> None, partial |-> FALSE]

(* run_with: the rules of the registry and the walks behind it.            *)
Registry(f) == f.code \in OptIn => f.code \in filter.select

Raised(file) ==
  IF file.deep THEN {NestingWarning}
  ELSE {f \in file.findings : Registry(f) /\ Seen(f)}

CheckScript(file) ==
  IF file.broken THEN {} ELSE {f \in Raised(file) : ~Silenced(file, f)}
-----------------------------------------------------------------------------
Init ==
  /\ run \in Runs
  /\ phase = "arguments"
  /\ filter = [select |-> {}, ignore |-> {}, symbols |-> {}]
  /\ loaded = {}
  /\ step = 1
  /\ notes = {}
  /\ sources = <<>>
  /\ scripts = None
  /\ audit = {}
  /\ results = <<>>
  /\ report = None
  /\ shown = {}
  /\ rejected = {}
  /\ failed = FALSE
  /\ exit = None

Leave(status) == exit' = status /\ phase' = "exited"

PrintRules ==
  /\ phase = "arguments"
  /\ run.rules
  /\ Leave(0)
  /\ UNCHANGED <<run, model, step, input, findings, output>>

(* validate_codes and resolve_target.                                      *)
RefuseArguments ==
  /\ phase = "arguments"
  /\ ~run.rules
  /\ ~KnownCodes \/ run.firmware = "unknown"
  /\ Leave(2)
  /\ UNCHANGED <<run, model, step, input, findings, output>>

ResolveFilter ==
  /\ phase = "arguments"
  /\ ~run.rules
  /\ KnownCodes
  /\ run.firmware # "unknown"
  /\ filter' = [select  |-> Overlay(Trimmed(run.select), run.tools.select),
                ignore  |-> Overlay(Trimmed(run.ignore), run.tools.ignore),
                symbols |-> Overlay(run.symbols, run.tools.symbols)]
  /\ phase' = "load"
  /\ UNCHANGED <<run, loaded, step, notes, input, findings, output, exit>>

(* A project or config that does not load ends the run.                    *)
LoadFails ==
  /\ phase = "load"
  /\ ProjectFile # None
  /\ "bad" \in {ProjectFile, ConfigFile}
  /\ Leave(2)
  /\ UNCHANGED <<run, model, step, input, findings, output>>

LoadProject ==
  /\ phase = "load"
  /\ ProjectFile = "ok"
  /\ ConfigFile # "bad"
  /\ loaded' = {"project"} \cup (IF ConfigFile = None THEN {} ELSE {"cfg"})
  /\ notes' = notes \cup (IF ConfigFile = None THEN {"no_cfg"} ELSE {})
                    \cup (IF run.dbcs = <<>> THEN {"no_dbc"} ELSE {})
  /\ phase' = "dbc"
  /\ UNCHANGED <<run, filter, step, input, findings, output, exit>>

WithoutProject ==
  /\ phase = "load"
  /\ ProjectFile = None
  /\ notes' = notes \cup {"no_project"}
  /\ phase' = "read"
  /\ UNCHANGED <<run, filter, loaded, step, input, findings, output, exit>>

(* Mutant: a DBC file that does not parse is skipped without a word.       *)
SkipSilently(dbc) == {}
Skipped(dbc) == IF dbc.ok THEN {} ELSE {dbc.name}

(* A malformed DBC costs its own signals and no other symbol.              *)
AugmentDbc ==
  /\ phase = "dbc"
  /\ step <= Len(run.dbcs)
  /\ loaded' = loaded \cup (IF run.dbcs[step].ok THEN {run.dbcs[step].name} ELSE {})
  /\ notes' = notes \cup Skipped(run.dbcs[step])
  /\ step' = step + 1
  /\ UNCHANGED <<run, phase, filter, input, findings, output, exit>>

EndDbc ==
  /\ phase = "dbc"
  /\ step > Len(run.dbcs)
  /\ step' = 1
  /\ phase' = "read"
  /\ UNCHANGED <<run, model, input, findings, output, exit>>

Unreadable == \E i \in DOMAIN run.files : ~run.files[i].readable

Reads(file) == file.readable

ReadSource ==
  /\ phase = "read"
  /\ step <= Len(run.files)
  /\ sources' = IF Reads(run.files[step]) THEN Append(sources, step) ELSE sources
  /\ step' = step + 1
  /\ UNCHANGED <<run, phase, model, scripts, findings, output, exit>>

(* The project-wide passes see every script below the project, not the     *)
(* requested ones, unless there are none.                                  *)
(* Mutant: they see what was asked for.                                    *)
GatherRequested(walk) == "requested"
Gather(walk) == IF HasProject /\ walk THEN "walked" ELSE "requested"

GatherScripts ==
  /\ phase = "read"
  /\ step > Len(run.files)
  /\ scripts' = Gather(run.walk)
  /\ step' = 1
  /\ phase' = IF run.query = {} THEN "check" ELSE "query"
  /\ UNCHANGED <<run, model, sources, findings, output, exit>>

(* --completeness answers first, whatever else is asked.                   *)
Completeness ==
  /\ phase = "query"
  /\ "completeness" \in run.query
  /\ report' = [cfg |-> ConfigFile # None, dbc |-> HasProject /\ run.dbcs # <<>>]
  /\ Leave(0)
  /\ UNCHANGED <<run, model, step, input, findings, shown, rejected, failed>>

(* explain_channel: a clean channel and a tainted one are both answers; no *)
(* project or an unknown channel is a refusal.                             *)
Explain ==
  /\ phase = "query"
  /\ "completeness" \notin run.query
  /\ "explain" \in run.query
  /\ Leave(IF HasProject /\ run.channel THEN 0 ELSE 2)
  /\ UNCHANGED <<run, model, step, input, findings, output>>

ExplainUnits ==
  /\ phase = "query"
  /\ run.query = {"explain_units"}
  /\ Leave(IF HasProject /\ run.channel THEN 0 ELSE 2)
  /\ UNCHANGED <<run, model, step, input, findings, output>>

(* The opt-in findings of a pass, and the naming audit, run on request.    *)
Requested(f) ==
  /\ f.code \in OptIn => f.code \in filter.select
  /\ f.pass = "names" => run.audit_names
Partial(f) == f.partial => scripts = "requested"

RunPass ==
  /\ phase = "check"
  /\ step <= Len(Passes)
  /\ audit' = audit \cup
       {f \in run.findings : HasProject /\ f.pass = Passes[step]
                               /\ Requested(f) /\ Partial(f) /\ Seen(f)}
  /\ step' = step + 1
  /\ UNCHANGED <<run, phase, model, input, results, output, exit>>

RetainAllowed ==
  /\ phase = "check"
  /\ step > Len(Passes)
  /\ audit' = {f \in audit : AllowsSubject(filter, f)}
  /\ step' = 1
  /\ phase' = "sources"
  /\ UNCHANGED <<run, model, input, results, output, exit>>

CheckSource ==
  /\ phase = "sources"
  /\ step <= Len(sources)
  /\ LET file == run.files[sources[step]]
     IN results' = Append(results,
          [file     |-> sources[step],
           broken   |-> file.broken,
           findings |-> {f \in CheckScript(file) : Allows(filter, f.code)}])
  /\ step' = step + 1
  /\ UNCHANGED <<run, phase, model, input, audit, output, exit>>

EmitProject ==
  /\ phase = "sources"
  /\ step > Len(sources)
  /\ LET kept == {f \in audit : AllowsSubject(filter, f) /\ ~Drop(f)}
     IN /\ shown' = shown \cup {<<0, f>> : f \in kept}
        /\ failed' = (failed \/ \E f \in kept : Fails(f))
  /\ step' = 1
  /\ phase' = "emit"
  /\ UNCHANGED <<run, model, input, findings, report, rejected, exit>>

(* `had_unreadable || emit_source_checks(...)`: one unreadable file and no *)
(* result of the others is printed.                                        *)
EmitSource ==
  /\ phase = "emit"
  /\ ~Unreadable
  /\ step <= Len(results)
  /\ LET r    == results[step]
         kept == {f \in r.findings : ~Drop(f)}
     IN /\ shown' = shown \cup {<<r.file, f>> : f \in kept}
        /\ rejected' = IF r.broken THEN rejected \cup {r.file} ELSE rejected
        /\ failed' = (failed \/ r.broken \/ \E f \in kept : Fails(f))
  /\ step' = step + 1
  /\ UNCHANGED <<run, phase, model, input, findings, report, exit>>

(* Mutant: only findings decide the status.                                *)
StatusOfFindings(bad) == IF failed THEN 1 ELSE 0
Status(bad) == IF failed \/ bad THEN 1 ELSE 0

Finish ==
  /\ phase = "emit"
  /\ Unreadable \/ step > Len(results)
  /\ Leave(Status(Unreadable))
  /\ UNCHANGED <<run, model, step, input, findings, output>>

Next ==
  \/ PrintRules \/ RefuseArguments \/ ResolveFilter
  \/ LoadFails \/ LoadProject \/ WithoutProject \/ AugmentDbc \/ EndDbc
  \/ ReadSource \/ GatherScripts \/ Completeness \/ Explain \/ ExplainUnits
  \/ RunPass \/ RetainAllowed \/ CheckSource
  \/ EmitProject \/ EmitSource \/ Finish

Spec == Init /\ [][Next]_vars
-----------------------------------------------------------------------------
Checked == phase = "exited" /\ exit \in {0, 1} /\ ~run.rules /\ run.query = {}

(* What the documented rules keep of a finding: selected if anything is    *)
(* selected, not ignored by code or, for a project finding, by symbol; the *)
(* flags speak for the field of m1-tools.toml they replace.                *)
Selects(code) ==
  LET chosen == IF run.select # None THEN run.select \ {Blank}
                ELSE IF run.tools.select # None THEN run.tools.select ELSE {}
      ignored == IF run.ignore # None THEN run.ignore \ {Blank}
                 ELSE IF run.tools.ignore # None THEN run.tools.ignore ELSE {}
  IN /\ code \notin ignored
     /\ code \in chosen \/ (chosen = {} /\ code \notin OptIn)

SymbolIgnored(f) ==
  <<f.code, f.subject>> \in
     (IF run.symbols # None THEN run.symbols
      ELSE IF run.tools.symbols # None THEN run.tools.symbols ELSE {})

(* --no-warnings mutes warnings, and neither infos nor hints.              *)
Muted(f) == run.no_warnings /\ f.severity = "warning"

Wanted(f) == Selects(f.code) /\ Seen(f) /\ ~Muted(f)

ProjectFindings ==
  {<<0, f>> : f \in {g \in run.findings :
     /\ HasProject
     /\ Wanted(g)
     /\ ~SymbolIgnored(g)
     /\ g.partial => ~run.walk
     /\ g.pass = "names" => run.audit_names}}

Unannotated(file, f) ==
  ~\E a \in file.allows : /\ f.line > 0 /\ f.line \in a.from .. a.to
                         /\ f.code \in (IF a.codes = {} THEN Code ELSE a.codes)

FileFindings(file) ==
  IF ~file.readable \/ file.broken THEN {}
  ELSE {f \in (IF file.deep THEN {NestingWarning} ELSE file.findings) :
          Wanted(f) /\ Unannotated(file, f)}

SourceFindings == UNION {{i} \X FileFindings(run.files[i]) : i \in DOMAIN run.files}

(* A run whose files can all be read prints exactly the findings that the  *)
(* flags, m1-tools.toml and the annotations leave: ignored codes and       *)
(* symbols never, opt-in codes only when selected, nothing that only a     *)
(* partial set of scripts would show, and hints also under --no-warnings.  *)
ShownExact == Checked /\ ~Unreadable => shown = ProjectFindings \cup SourceFindings

(* A check fails exactly if a requested file cannot be read or parsed or a *)
(* finding it printed is an error, or of any severity under --strict, a    *)
(* hint as well; a query or the catalogue never exits with 1, and refused  *)
(* arguments print nothing (finding_disposition, main.rs).                 *)
StatusExact ==
  /\ Checked => ((exit = 1) <=>
       \/ Unreadable \/ rejected # {}
       \/ \E s \in shown : run.strict \/ s[2].severity = "error")
  /\ (phase = "exited" /\ ~Checked) => (exit # 1 /\ shown = {})

(* What a run did not look for because the project, the calibration or a   *)
(* DBC file was missing or malformed was announced, so that a clean run is *)
(* not mistaken for a complete one.  Scripts that cannot be read are no    *)
(* such input.                                                             *)
Announced ==
  Checked =>
    \A f \in run.findings \cup UNION {run.files[i].findings : i \in DOMAIN run.files} :
       Seen(f) \/ notes \cap {"no_project", f.needs} # {}
               \/ (f.needs = "cfg" /\ "no_cfg" \in notes)
               \/ (f.needs # "cfg" /\ "no_dbc" \in notes)

(* Reading is tolerant: a file that cannot be read costs its own findings  *)
(* and those of no other file.                                             *)
ReadableFilesReported == Checked => SourceFindings \subseteq shown
=============================================================================
