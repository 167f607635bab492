----------------------------- MODULE MCSymbols -----------------------------
(***************************************************************************)
(* Documents for Symbols and Resolve, a family for each loader: what types *)
(* a component, which function a script backs, what a .m1cfg changes, and  *)
(* what DBCs add to the names a script can use.                            *)
(***************************************************************************)
EXTENDS Resolve

Enum(name, members) == [name |-> name, members |-> members, open |-> FALSE]

MCCaseVariants == {{"State", "state"}, {"Mode", "mode"}, {"On", "on"}, {"Gear", "gear"}}
MCQuantityLeaves == {"Oil Pressure", "Voltage"}
MCCatalogue == <<Enum("Universal Switch State", <<"Off", "On">>), Enum("Mode", <<"Idle">>)>>
MCLibrary == [o \in {"Calculate", "Limit"} |-> IF o = "Limit" THEN {"Min"} ELSE {"Max", "Min"}]
MCObjectMethods == {"AsInteger", "Set"}

Component(class, path) ==
  [class |-> class, path |-> path, file |-> <<>>, type |-> <<>>, qty |-> <<>>, value |-> None,
   trigger |-> None, tags |-> <<>>, ret |-> None, params |-> <<>>, axis |-> None,
   default |-> None]
Typed(class, path, type) == [Component(class, path) EXCEPT !.type = type]
Group(path) == Component("BuiltIn.GroupCompound", path)
Channel(path) == Component("BuiltIn.Channel", path)
Function(path, file) == [Component("BuiltIn.FuncUser", path) EXCEPT !.file = file]

A == <<"Root", "A">>
B == <<"Root", "A", "B">>
S == Append(A, "Sensor")

NoCfg == [present |-> FALSE, parameters |-> <<>>, tables |-> <<>>]
Input(types, components, cfg, dbcs) ==
  [types |-> types, components |-> components, cfg |-> cfg, dbcs |-> dbcs]

\* Up to n members of a set, in any order, none of them twice.
Orders(set, n) ==
  UNION {{f \in [1..k -> set] : \A i, j \in 1..k : f[i] = f[j] => i = j} : k \in 0..n}

State == Enum("State", <<"Idle", "On">>)
Variants == <<State, Enum("state", <<"Idle">>)>>

TypingPool ==
  {Group(A),
   [Group(A) EXCEPT !.tags = <<"fast", "slow">>],
   Component("MoTeC Input.Sensor", S),
   Component("_IOMethod.av_switch", S),
   Component("MoTeC Output.Switched Output", S),
   [Channel(Append(S, "Value")) EXCEPT !.tags = <<"slow">>],
   Channel(S \o <<"Value", "Filtered">>),
   Channel(Append(S, "State")),
   Channel(Append(A, "Voltage")),
   Typed("BuiltIn.Channel", Append(A, "X"), <<"::This", "STATE">>),
   Typed("BuiltIn.Channel", Append(A, "Y"), <<"MoTeC Types", "Gear">>),
   Typed("BuiltIn.Channel", Append(A, "Z"), <<"::Hardware", "gear">>),
   [Component("BuiltIn.Constant", Append(A, "K")) EXCEPT !.value = "1", !.qty = <<"K">>]}

TypingInputs ==
  {Input(types, components, NoCfg, <<>>) :
     types \in {<<>>, Variants, <<Enum("Universal Switch State", <<"Shut">>)>>},
     components \in Orders(TypingPool, 3)}

ScriptPool ==
  {Function(Append(A, "F"), <<>>), Function(Append(B, "G"), <<>>),
   Function(Append(B, "G"), <<"A", "F">>), Function(Append(B, "H"), <<"h">>),
   Function(Append(A, "F"), <<"h">>), Function(<<"F">>, <<>>), Channel(Append(A, "F")),
   Component("BuiltIn.MethodUser", <<"Root", "h">>)}
ScriptInputs == {Input(<<>>, c, NoCfg, <<>>) : c \in Orders(ScriptPool, 3)}

CfgComponents ==
  <<Group(A),
    [Component("BuiltIn.Parameter", Append(A, "P")) EXCEPT !.qty = <<"rad", "/", "s">>],
    Typed("BuiltIn.Parameter", Append(A, "Q"), <<"::This", "State">>),
    Component("BuiltIn.Parameter", Append(A, "R")),
    [Component("BuiltIn.Constant", Append(A, "K")) EXCEPT !.value = "1.5"],
    [Component("BuiltIn.Table", Append(A, "T")) EXCEPT !.axis = "prj"],
    [Channel(A \o <<"T", "Value">>) EXCEPT !.qty = <<"K">>]>>
Cell(name, type, text, unit) ==
  [name |-> name, cell |-> TRUE, type |-> type, text |-> text, unit |-> unit]
CellPool ==
  {Cell(<<"A", "P">>, "f32", "2", <<"rpm">>), Cell(Append(A, "P"), "u8", "3", <<>>),
   Cell(<<"A", "Q">>, "enum", "Idle", <<>>), Cell(<<"A", "Q">>, "enum", "Fast", <<"x">>),
   Cell(<<"A", "R">>, "enum", "Fast", <<>>), Cell(<<"A", "R">>, "enum", "On", <<>>),
   Cell(<<"A", "K">>, "s16", "7", <<"V">>), Cell(<<"A", "Gone">>, "f32", "1", <<>>),
   [Cell(<<"A", "R">>, "", None, <<>>) EXCEPT !.cell = FALSE]}
TablePool ==
  {[name |-> <<"A", "T">>, type |-> t, unit |-> u, axes |-> "cfg"] :
     t \in {"f32", "s16", "none"}, u \in {<<>>, <<"V">>}}
CfgInputs ==
  {Input(<<State, Enum("Speed", <<"Fast", "On">>)>>, CfgComponents,
         [present |-> TRUE, parameters |-> p, tables |-> t], <<>>) :
     p \in Orders(CellPool, 3), t \in Orders(TablePool, 1)}

NamePool ==
  {Group(B), Group(<<"Root", "State">>), Channel(<<"Root", "State", "Value">>),
   Channel(Append(B, "State")), Channel(Append(A, "Limit")), Channel(<<"Root", "Bus">>),
   Group(<<"Root", "Bus">>)}
Can(class, path) == Component(class, path)
Dbcs ==
  {[malformed |-> m, components |-> c] : m \in BOOLEAN,
     c \in {<<Can("BuiltIn.CAN.DBC", <<"Bus">>),
              [Typed("BuiltIn.CAN.Signal", <<"Bus", "Speed">>, <<"", "u8">>)
                 EXCEPT !.qty = <<"rad">>]>>,
            <<Can("BuiltIn.CAN.Message", <<"Root", "Bus">>), Group(<<"Bus">>)>>,
            <<Can("BuiltIn.CAN.DBC", <<"Root", "State">>)>>}}
Base == <<Group(A), [Function(Append(B, "F"), <<>>) EXCEPT !.params = <<"Timeout">>,
                                                           !.trigger = "On 10Hz"],
          Function(Append(A, "F"), <<>>)>>
NameInputs ==
  {Input(<<State>>, Base \o c, NoCfg, d) :
     c \in Orders(NamePool, 2), d \in Orders(Dbcs, 1) \cup {<<x, y>> : x, y \in Dbcs}}

MCDocuments == TypingInputs \cup ScriptInputs \cup CfgInputs \cup NameInputs

Ref(path, variants, written) == [path |-> path, variants |-> variants, written |-> written]
MCReferences ==
  {Ref(p, <<>>, w) : w \in BOOLEAN,
     p \in {<<"State">>, <<"State", "Value">>, <<"State", "Idle">>, <<"State", "Missing">>,
            <<"Bus", "Speed">>, <<"Bus", "Typo">>, <<"Limit">>, <<"Limit", "Min">>,
            <<"Idle">>, <<"Root", "A", "Limit">>, <<"This", "State">>,
            <<"Parent", "Limit">>, <<"In", "Timeout">>, <<"Library", "Limit">>}}
    \cup {Ref(<<"Bus", "$(I)">>, <<<<"Bus", "Speed">>, <<"Bus", "Typo">>>>, FALSE)}
=============================================================================
