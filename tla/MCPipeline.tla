----------------------------- MODULE MCPipeline -----------------------------
(***************************************************************************)
(* Command lines that vary the filters, the inputs to load, the state of   *)
(* the files and the query, around two requested files and nine findings   *)
(* with the severities of their rules.                                     *)
(***************************************************************************)
EXTENDS Pipeline

CONSTANTS T001, T002, T041, T042, T050, T064, T088, T089, T090, T093, Typo  \* T-codes

MCCode  == {T001, T002, T041, T042, T050, T064, T088, T089, T090, T093}
MCOptIn == {T064, T089}

Hit(code, severity, line, needs) ==
  [code |-> code, severity |-> severity, line |-> line, subject |-> None,
   needs |-> needs, pass |-> None, partial |-> FALSE]
Audit(code, severity, subject, needs, pass, partial) ==
  [code |-> code, severity |-> severity, line |-> 0, subject |-> subject,
   needs |-> needs, pass |-> pass, partial |-> partial]

MCFindings ==
  {Audit(T088, "warning", "A", None, "schedule", FALSE),
   Audit(T089, "hint", "A", None, "schedule", FALSE),
   Audit(T093, "error", "B", None, "usage", TRUE),
   Audit(T041, "hint", "B", "cfg", "cfg_parameters", FALSE),
   Audit(T050, "warning", "A", None, "names", FALSE)}

MCHits ==
  {Hit(T001, "warning", 1, "project"), Hit(T002, "error", 2, None),
   Hit(T064, "warning", 2, None), Hit(T042, "warning", 3, "d1")}

Plain == [readable |-> TRUE, broken |-> FALSE, deep |-> FALSE,
          findings |-> MCHits, allows |-> {}]
Quiet == [Plain EXCEPT !.findings = {}]

Absent == [flag |-> None, env |-> None, near |-> None]
Near   == [Absent EXCEPT !.near = "ok"]

Tools(select, ignore, symbols) == [select |-> select, ignore |-> ignore, symbols |-> symbols]

Base ==
  [rules |-> FALSE, select |-> None, ignore |-> None, symbols |-> None,
   firmware |-> "default", query |-> {}, channel |-> TRUE, audit_names |-> FALSE,
   strict |-> FALSE, no_warnings |-> FALSE, project |-> Near, config |-> Near,
   tools |-> Tools(None, None, None), dbcs |-> <<[name |-> "d1", ok |-> TRUE]>>,
   walk |-> TRUE, findings |-> MCFindings, files |-> <<Plain, Quiet>>]

Filters ==
  {[Base EXCEPT !.select = s, !.ignore = g, !.tools = t, !.strict = b, !.no_warnings = w] :
     s \in {None, {Blank}, {T064, T089}, {T002, T088}, {Typo}},
     g \in {None, {Blank, T088}, {T001, T042}},
     t \in {Tools(None, None, None), Tools({T001}, None, None), Tools({Typo}, {T041}, None),
           Tools(None, {T002, T088}, {<<T041, "B">>})},
     b \in BOOLEAN, w \in BOOLEAN}

Symbols ==
  {[Base EXCEPT !.symbols = s, !.tools = t, !.audit_names = a] :
     s \in {None, {}, {<<T088, "A">>}, {<<T089, "A">>, <<T050, "A">>}},
     t \in {Tools(None, None, None), Tools(None, None, {<<T088, "A">>})}, a \in BOOLEAN}

Place == {Absent, Near, [Near EXCEPT !.env = "bad"], [flag |-> "ok", env |-> "bad", near |-> "ok"]}

Loads ==
  {[Base EXCEPT !.project = p, !.config = c, !.dbcs = d, !.walk = w, !.query = q,
                !.channel = k] :
     p \in Place, c \in Place,
     d \in {<<>>, <<[name |-> "d1", ok |-> FALSE]>>,
           <<[name |-> "d0", ok |-> FALSE], [name |-> "d1", ok |-> TRUE]>>},
     w \in BOOLEAN, q \in {{}, {"explain"}, {"explain_units"}, {"completeness", "explain"}}, k \in BOOLEAN}

Annotations ==
  {{}, {[codes |-> {}, from |-> 1, to |-> 2]}, {[codes |-> {T064, T001}, from |-> 2, to |-> 3]},
   {[codes |-> {T090}, from |-> 1, to |-> 1], [codes |-> {T002}, from |-> 2, to |-> 2]}}

Sources ==
  {[Base EXCEPT !.select = s, !.strict = b,
      !.files = <<[Plain EXCEPT !.allows = a, !.broken = k, !.deep = d], Plain>>] :
     s \in {None, {T064, T002, T090}}, b \in BOOLEAN, a \in Annotations,
     k \in BOOLEAN, d \in BOOLEAN}

Refused ==
  {[Base EXCEPT !.rules = r, !.firmware = f] : r \in BOOLEAN, f \in {"default", "unknown"}}

Unread ==
  {[Base EXCEPT !.findings = {}, !.files = <<a, [Quiet EXCEPT !.readable = FALSE]>>,
      !.select = s] : a \in {Plain, Quiet}, s \in {None, {T041}}}

MCRuns  == Filters \cup Symbols \cup Loads \cup Sources \cup Refused \cup Unread
            \cup {[Base EXCEPT !.files = <<>>, !.project = p] : p \in Place}
=============================================================================
