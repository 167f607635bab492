------------------------------ MODULE Symbols ------------------------------
(***************************************************************************)
(* The symbol table of a project and the loaders that fill it: the .m1prj  *)
(* (symbols/m1prj), the .m1cfg (symbols/m1cfg.rs) and the .m1dbc files     *)
(* (symbols/m1dbc.rs), in the order project.rs and main.rs apply them.     *)
(*                                                                         *)
(* A path is the sequence of its segments, a script is named by the stem   *)
(* of its file cut into segments, and a unit is the sequence of its        *)
(* tokens.  <<>> is a missing path, file or unit, None any other missing   *)
(* attribute, and 0 no enum.                                               *)
(***************************************************************************)
EXTENDS Integers, SequencesExt

CONSTANTS
  CaseVariants,   \* sets of two names that differ only by the case of letters
  QuantityLeaves, \* the segments whose last word names a physical quantity
  Catalogue,      \* the enums of the intrinsics catalogue: [name, members]
  Documents       \* the inputs: [types, components, cfg, dbcs]

Name == STRING
Path == Seq(Name)
PrjComponent ==
  [class : Name, path : Path \ {<<>>}, file : Path, type : Seq(Name), qty : Seq(Name),
   value : Name, trigger : Name, tags : Seq(Name), ret : Name, params : Seq(Name),
   axis : Name, default : Name]
EnumEntry == [name : Name, members : Seq(Name), open : BOOLEAN]
CfgParameter == [name : Path, cell : BOOLEAN, type : Name, text : Name, unit : Seq(Name)]

\* Names that differ only by case from one name differ only by case
\* (eq_ignore_ascii_case is an equivalence).
ASSUME CaseAssumption ==
  \A x, y \in CaseVariants :
    x \intersect y # {} => \A a \in x, b \in y : a = b \/ {a, b} \in CaseVariants

ASSUME CatalogueAssumption == Catalogue \in Seq(EnumEntry)

ASSUME DocumentsAssumption ==
  \A d \in Documents :
    /\ d.types \in Seq(EnumEntry)
    /\ d.components \in Seq(PrjComponent)
    /\ d.cfg.present \in BOOLEAN /\ d.cfg.parameters \in Seq(CfgParameter)
    /\ \A i \in DOMAIN d.dbcs : d.dbcs[i].components \in Seq(PrjComponent)

VARIABLES
  input,      \* the files being loaded
  phase,      \* the loader that runs
  at,         \* the entry it handles next
  table,      \* SymbolTable
  fileGroup,  \* file_to_group: a script's file -> the group it is anchored in
  cfgParams   \* cfg_params: {} until a .m1cfg has been applied

vars == <<input, phase, at, table, fileGroup, cfgParams>>

None == "none"
Nothing == [x \in {} |-> 0]
With(f, k, v) == [x \in DOMAIN f \union {k} |-> IF x = k THEN v ELSE f[x]]
AppendAt(f, k, v) == With(f, k, (IF k \in DOMAIN f THEN f[k] ELSE <<>>) \o <<v>>)

-----------------------------------------------------------------------------
(* Value types and classes. *)

Unknown == <<"Unknown">>
EnumType(id) == <<"Enum", id>>

\* The value type of a primitive storage or cell type, Unknown for any other.
PrimitiveType(t) ==
  CASE t \in {"f32", "f64"} -> <<"Float">>
    [] t \in {"u8", "u32"} -> <<"Unsigned">>
    [] t \in {"s16", "s32"} -> <<"Integer">>
    [] t = "bool" -> <<"Boolean">>
    [] OTHER -> Unknown

ChannelClasses == {"BuiltIn.Channel", "BuiltIn.CalibrationChannel"}
TableClasses == {"BuiltIn.Table", "BuiltIn.CalibrationTable"}

KindOf(class) ==
  CASE class \in ChannelClasses -> "Channel"
    [] class \in {"BuiltIn.Parameter", "BuiltIn.CalibrationParameter",
                  "BuiltIn.IOResourceParameter"} -> "Parameter"
    [] class \in {"BuiltIn.Constant", "BuiltIn.IOResourceConstant"} -> "Constant"
    [] class \in {"BuiltIn.FuncUser", "BuiltIn.CalFuncUser",
                  "BuiltIn.FuncGenerated"} -> "Function"
    [] class \in {"BuiltIn.MethodUser", "BuiltIn.EventKernel"} -> "Method"
    [] class \in TableClasses -> "Table"
    [] class = "BuiltIn.GroupCompound" -> "Group"
    [] class = "BuiltIn.Reference" -> "Reference"
    [] class = "BuiltIn.IOCharacteristic" -> "Other"
    [] OTHER -> "Object"

IsFunction(kind) == kind \in {"Function", "Method"}

-----------------------------------------------------------------------------
(* The table. *)

\* Symbol, as its default leaves it.
BlankSymbol ==
  [path |-> <<>>, kind |-> "Other", vt |-> Unknown, assoc |-> 0, declared |-> None,
   unit |-> <<>>, file |-> <<>>, scheduled |-> FALSE, tags |-> <<>>, ret |-> None,
   params |-> <<>>, meta |-> None, default |-> None, static |-> None, dbc |-> FALSE]

EmptyTable ==
  [symbols |-> <<>>, byPath |-> Nothing, byFile |-> Nothing, byParent |-> Nothing,
   byTag |-> Nothing, enums |-> <<>>, members |-> Nothing]

TagsIndexed(f, tags, i) == FoldLeft(LAMBDA g, tag : AppendAt(g, tag, i), f, tags)

\* push: the last symbol of a path is found by it, the first function of a file.
Push(t, s) ==
  LET i == Len(t.symbols) + 1
      first == IsFunction(s.kind) /\ s.file # <<>> /\ s.file \notin DOMAIN t.byFile
  IN  [t EXCEPT
         !.symbols = Append(@, s),
         !.byPath = With(@, s.path, i),
         !.byFile = IF first THEN With(@, s.file, i) ELSE @,
         !.byParent = IF Len(s.path) > 1 THEN AppendAt(@, Front(s.path), i) ELSE @,
         !.byTag = TagsIndexed(@, s.tags, i)]

Has(t, path) == path \in DOMAIN t.byPath
Get(t, path) == t.symbols[t.byPath[path]]
HasChild(t, path, leaf) == Has(t, Append(path, leaf))
Children(t, path) ==
  IF path \in DOMAIN t.byParent
  THEN {t.symbols[t.byParent[path][i]].path : i \in DOMAIN t.byParent[path]} ELSE {}
WithTag(t, tag) ==
  IF tag \in DOMAIN t.byTag THEN Range(t.byTag[tag]) ELSE {}

\* An indexed enum can be found by its members, one of the catalogue cannot.
AddBuiltinEnum(t, e) == [t EXCEPT !.enums = Append(@, e)]
AddEnum(t, e) ==
  [AddBuiltinEnum(t, e) EXCEPT
     !.members = FoldLeft(LAMBDA f, m : AppendAt(f, m, Len(t.enums) + 1), @, e.members)]

SameName(a, b) == a = b \/ {a, b} \in CaseVariants

\* enum_by_name: the first of that very name, else the only one but for case.
EnumByName(t, name) ==
  LET exact == {i \in DOMAIN t.enums : t.enums[i].name = name}
      near == {i \in DOMAIN t.enums : SameName(t.enums[i].name, name)}
  IN  CASE exact # {} -> Min(exact)
        [] exact = {} /\ Cardinality(near) = 1 -> CHOOSE i \in near : TRUE
        [] OTHER -> 0

EnumsWithMember(t, m) == IF m \in DOMAIN t.members THEN t.members[m] ELSE <<>>
EnumHasMember(t, id, m) == m \in Range(t.enums[id].members)

-----------------------------------------------------------------------------
(* The .m1prj: enums first, then the components in document order. *)

HardwareName(n) == IF n = "sw_state" THEN "Universal Switch State" ELSE n
ClassStateEnum(class) == IF class = "_IOMethod.av_switch" THEN "sw_state" ELSE None

\* firmware_enum_name: a type is <<form, name>>, with <<>> for none.
FirmwareEnum(type) ==
  IF type # <<>> /\ type[1] \in {"MoTeC Types", "::Hardware"} THEN type[2] ELSE None

\* The placeholder a component asks for: by its type, else by its class.
Placeholder(c) ==
  IF FirmwareEnum(c.type) # None THEN FirmwareEnum(c.type) ELSE ClassStateEnum(c.class)

NoEnums == [enums |-> <<>>, members |-> Nothing]
WithEnums(t, e) == [t EXCEPT !.enums = e.enums, !.members = e.members]

AddMissing(t, e, indexed) ==
  CASE EnumByName(t, e.name) # 0 -> t
    [] EnumByName(t, e.name) = 0 /\ indexed -> AddEnum(t, e)
    [] OTHER -> AddBuiltinEnum(t, e)

\* A component of a firmware type nobody knows asks for an open placeholder.
AskedEnum(c) == [name |-> HardwareName(Placeholder(c)), members |-> <<>>, open |-> TRUE]

\* What one entry adds, and then all those of one source.
Register(t, source, x) ==
  CASE source = "project" -> AddEnum(t, [x EXCEPT !.open = FALSE])
    [] source = "catalogue" -> AddMissing(t, x, FALSE)
    [] source = "component" ->
         IF Placeholder(x) = None THEN t ELSE AddMissing(t, AskedEnum(x), TRUE)
Registered(t, source, entries) ==
  LET after[n \in 0..Len(entries)] ==
        IF n = 0 THEN t ELSE Register(after[n - 1], source, entries[n])
  IN  after[Len(entries)]

KnownEnums(types) == Registered(Registered(NoEnums, "project", types), "catalogue", Catalogue)
ParseEnums(types, components) == Registered(KnownEnums(types), "component", components)

\* ProjectXmlIndex: the pre-pass over the whole document, which keeps the class
\* and the declared tags of the last component of each path.
ClassByPath(components) ==
  [path \in {components[i].path : i \in DOMAIN components} |->
     components[Max({i \in DOMAIN components : components[i].path = path})].class]
TagsByPath(components) ==
  LET tagged == {i \in DOMAIN components : components[i].tags # <<>>}
  IN  [path \in {components[i].path : i \in tagged} |->
         components[Max({i \in tagged : components[i].path = path})].tags]
ProjectIndex(components) ==
  [classes |-> ClassByPath(components), tags |-> TagsByPath(components)]

ClassAt(index, path) == IF path \in DOMAIN index.classes THEN index.classes[path] ELSE None
DeclaredTags(index, path) == IF path \in DOMAIN index.tags THEN index.tags[path] ELSE <<>>

\* effective_tags: its own, then those of each group above it, the nearest
\* first, every one once.
EffectiveTags(index, path) ==
  LET add(tags, t) == IF t \in Range(tags) THEN tags ELSE Append(tags, t)
      above(n) == DeclaredTags(index, SubSeq(path, 1, n))
  IN  FoldLeft(LAMBDA tags, n : FoldLeft(add, tags, above(n)), DeclaredTags(index, path),
               Reverse([n \in 1..Len(path) - 1 |-> n]))

LeafType(path) == IF Last(path) \in QuantityLeaves THEN <<"Float">> ELSE Unknown

ClassType(class) ==
  CASE class \in TableClasses \union {"_IOMethod.ratio", "MoTeC Input.Sensor"} -> <<"Float">>
    [] class = "MoTeC Output.Switched Output" -> <<"Boolean">>
    [] OTHER -> Unknown

\* type_from_owner_class: past the channels above it, to the first thing that
\* is none.
OwnerType(index, path) ==
  LET owners == {n \in 1..Len(path) - 1 :
                   ClassAt(index, SubSeq(path, 1, n)) \notin ChannelClasses}
      type == IF owners = {} THEN Unknown
              ELSE ClassType(ClassAt(index, SubSeq(path, 1, Max(owners))))
  IN  IF type = Unknown THEN LeafType(path) ELSE type

StateEnum(t, class) ==
  IF ClassStateEnum(class) = None THEN 0 ELSE EnumByName(t, HardwareName(ClassStateEnum(class)))
OwnerStateEnum(t, index, path) ==
  IF Len(path) < 2 THEN 0 ELSE StateEnum(t, ClassAt(index, Front(path)))

ConstantType(value) ==
  CASE value = "true" -> <<"Boolean">> [] value = "1" -> <<"Integer">>
    [] value = "1.5" -> <<"Float">> [] OTHER -> Unknown

\* The enum a declared type names: one of the project, or one of the firmware.
DeclaredEnum(t, type) ==
  CASE type[1] = "::This" -> EnumByName(t, type[2])
    [] FirmwareEnum(type) # None -> EnumByName(t, HardwareName(FirmwareEnum(type)))
    [] OTHER -> 0

EnumOr(id, type) == IF id # 0 THEN EnumType(id) ELSE type

\* The enum a component's value belongs to, 0 for none.
AssociatedEnum(t, index, c) ==
  LET kind == KindOf(c.class)
  IN  CASE kind = "Constant" -> 0
        [] kind # "Constant" /\ c.type # <<>> -> DeclaredEnum(t, c.type)
        [] kind # "Constant" /\ c.type = <<>> /\ c.qty # <<>> -> 0
        [] kind = "Object" /\ c.type = <<>> /\ c.qty = <<>> -> StateEnum(t, c.class)
        [] kind = "Channel" /\ c.type = <<>> /\ c.qty = <<>> /\ Last(c.path) = "State" ->
             OwnerStateEnum(t, index, c.path)
        [] OTHER -> 0

ValueType(t, index, c) ==
  LET id == AssociatedEnum(t, index, c)
  IN  CASE KindOf(c.class) = "Constant" -> ConstantType(c.value)
        [] KindOf(c.class) # "Constant" /\ c.type # <<>> -> EnumOr(id, PrimitiveType(c.type[2]))
        [] KindOf(c.class) # "Constant" /\ c.type = <<>> /\ c.qty # <<>> -> <<"Float">>
        [] KindOf(c.class) = "Channel" /\ c.type = <<>> /\ c.qty = <<>> ->
             EnumOr(id, OwnerType(index, c.path))
        [] OTHER -> EnumOr(id, LeafType(c.path))

\* units.rs: the base unit of a quantity, token by token; a template has none.
MapToken(tok) ==
  CASE tok = "rad" -> "deg" [] tok = "K" -> "C" [] tok = "dK" -> "dC" [] OTHER -> tok
BaseUnit(qty) ==
  IF "$(" \in Range(qty) THEN <<>> ELSE [i \in DOMAIN qty |-> MapToken(qty[i])]

SymbolOf(t, index, c) ==
  LET kind == KindOf(c.class)
      only(k, v) == IF kind = k THEN v ELSE None
  IN  [BlankSymbol EXCEPT
         !.path = c.path, !.kind = kind, !.file = c.file,
         !.vt = ValueType(t, index, c), !.assoc = AssociatedEnum(t, index, c),
         !.declared = IF c.type = <<>> THEN None ELSE c.type[2],
         !.unit = BaseUnit(c.qty), !.scheduled = c.trigger # None,
         !.ret = IF PrimitiveType(c.ret) = Unknown THEN None ELSE c.ret,
         !.params = c.params, !.meta = only("Table", c.axis),
         !.default = only("Group", c.default), !.static = only("Constant", c.value),
         !.tags = EffectiveTags(index, c.path)]

Rooted(path) == path # <<>> /\ path[1] = "Root"
Qualify(path) == IF Rooted(path) THEN path ELSE <<"Root">> \o path

\* Mutant: the conventional file name keeps the Root of the path.
ScriptKeyRooted(c) == IF c.file # <<>> THEN c.file ELSE c.path

\* The file of a script component: the one it names, else that of its path.
ScriptKey(c) ==
  IF c.file # <<>> THEN c.file ELSE IF Rooted(c.path) THEN Tail(c.path) ELSE c.path

AnchorScript(groups, c) ==
  IF IsFunction(KindOf(c.class)) /\ Len(c.path) > 1
  THEN With(groups, ScriptKey(c), Front(c.path)) ELSE groups

-----------------------------------------------------------------------------
(* The .m1cfg and the .m1dbc files. *)

\* Mutant: a name is looked up as written only.
ResolvePathVerbatim(t, name) == IF Has(t, name) THEN name ELSE <<>>

\* resolve_path: the name as written, else under Root; <<>> when neither is.
ResolvePath(t, name) ==
  CASE Has(t, name) -> name
    [] ~Has(t, name) /\ Has(t, Qualify(name)) -> Qualify(name)
    [] OTHER -> <<>>

Update(t, path, s) == [t EXCEPT !.symbols[t.byPath[path]] = s]
\* Mutant: the unit of a cell replaces the base unit.
FillUnitAlways(s, unit) == [s EXCEPT !.unit = IF unit = <<>> THEN @ ELSE unit]
FillUnit(s, unit) == [s EXCEPT !.unit = IF @ = <<>> THEN unit ELSE @]
FillStatic(s, value) == [s EXCEPT !.static = IF @ = None THEN value ELSE @]

\* The type a cell leaves its symbol with: an enum cell only where no enum is
\* known and exactly one indexed enum has that member.
Retyped(t, s, p) ==
  LET ids == EnumsWithMember(t, p.text)
  IN  CASE p.type # "enum" -> [s EXCEPT !.vt = PrimitiveType(p.type)]
        [] p.type = "enum" /\ s.assoc = 0 /\ Len(ids) = 1 ->
             [s EXCEPT !.vt = EnumType(ids[1]), !.assoc = ids[1]]
        [] OTHER -> s

ApplyCell(t, p) ==
  LET path == ResolvePath(t, p.name)
  IN  IF ~p.cell \/ path = <<>> THEN t
      ELSE Update(t, path, FillStatic(FillUnit(Retyped(t, Get(t, path), p), p.unit), p.text))

\* Mutant: the table itself is taken for its output.
TableOutputItself(t, b) == ResolvePath(t, b.name)
\* The channel that a table drives.
TableOutput(t, b) == ResolvePath(t, Append(b.name, "Value"))

\* A cfg table is the authority on the type and unit of its Value channel, and
\* gives the table its shape.
ApplyTable(t, b) ==
  LET out == TableOutput(t, b)
      whole == ResolvePath(t, b.name)
      value(s) == [s EXCEPT !.vt = IF PrimitiveType(b.type) = Unknown THEN @
                                   ELSE PrimitiveType(b.type),
                            !.unit = IF b.unit = <<>> THEN @ ELSE b.unit]
      typed == IF out = <<>> THEN t ELSE Update(t, out, value(Get(t, out)))
  IN  IF whole = <<>> THEN typed
      ELSE Update(typed, whole, [Get(typed, whole) EXCEPT !.meta = b.axes])

IsCan(class) == class \in {"BuiltIn.CAN.DBC", "BuiltIn.CAN.Message", "BuiltIn.CAN.Signal"}

\* Mutant: a DBC and a message are groups.
DbcSymbolGrouped(c) ==
  [BlankSymbol EXCEPT !.path = c.path, !.dbc = TRUE,
                      !.kind = IF c.class = "BuiltIn.CAN.Signal" THEN "Channel" ELSE "Group"]

DbcSymbol(c) ==
  LET signal == c.class = "BuiltIn.CAN.Signal"
  IN  [BlankSymbol EXCEPT
         !.path = c.path, !.kind = IF signal THEN "Channel" ELSE "Object",
         !.vt = IF signal /\ c.type # <<>> THEN PrimitiveType(c.type[2]) ELSE Unknown,
         !.unit = IF signal THEN c.qty ELSE <<>>, !.dbc = TRUE]

\* augment: every CAN object is pushed, anything else is left out.
PushCan(t, c) == IF IsCan(c.class) THEN Push(t, DbcSymbol(c)) ELSE t
Augmented(t, components) ==
  LET after[n \in 0..Len(components)] ==
        IF n = 0 THEN t ELSE PushCan(after[n - 1], components[n])
  IN  after[Len(components)]

-----------------------------------------------------------------------------
(* Loading. *)

Init ==
  /\ input \in Documents
  /\ phase = "enums" /\ at = 1
  /\ table = EmptyTable /\ fileGroup = Nothing /\ cfgParams = {}

Enter(p) == phase' = p /\ at' = 1

RegisterEnums ==
  /\ phase = "enums" /\ Enter("components")
  /\ table' = WithEnums(table, ParseEnums(input.types, input.components))
  /\ UNCHANGED <<input, fileGroup, cfgParams>>

\* Mutant: without the pre-pass, only what stands above is known.
PushComponentSeen ==
  /\ phase = "components" /\ at <= Len(input.components)
  /\ LET c == input.components[at]
         index == ProjectIndex(SubSeq(input.components, 1, at))
     IN  /\ table' = Push(table, SymbolOf(table, index, c))
         /\ fileGroup' = AnchorScript(fileGroup, c)
  /\ at' = at + 1 /\ UNCHANGED <<input, phase, cfgParams>>

PushComponent ==
  /\ phase = "components" /\ at <= Len(input.components)
  /\ LET c == input.components[at]
     IN  /\ table' = Push(table, SymbolOf(table, ProjectIndex(input.components), c))
         /\ fileGroup' = AnchorScript(fileGroup, c)
  /\ at' = at + 1 /\ UNCHANGED <<input, phase, cfgParams>>

HasCfg == input.cfg.present

EndProject ==
  /\ phase = "components" /\ at > Len(input.components)
  /\ Enter(IF HasCfg THEN "parameters" ELSE "dbc")
  /\ UNCHANGED <<input, table, fileGroup, cfgParams>>

ApplyParameter ==
  /\ phase = "parameters" /\ at <= Len(input.cfg.parameters)
  /\ table' = ApplyCell(table, input.cfg.parameters[at])
  /\ at' = at + 1 /\ UNCHANGED <<input, phase, fileGroup, cfgParams>>

EndParameters ==
  /\ phase = "parameters" /\ at > Len(input.cfg.parameters)
  /\ Enter("tables")
  /\ UNCHANGED <<input, table, fileGroup, cfgParams>>

ApplyTables ==
  /\ phase = "tables" /\ at <= Len(input.cfg.tables)
  /\ table' = ApplyTable(table, input.cfg.tables[at])
  /\ at' = at + 1 /\ UNCHANGED <<input, phase, fileGroup, cfgParams>>

\* with_config: what the cfg declares, with or without a cell.
EndConfig ==
  /\ phase = "tables" /\ at > Len(input.cfg.tables)
  /\ cfgParams' = {Qualify(p.name) : p \in Range(input.cfg.parameters)}
  /\ Enter("dbc")
  /\ UNCHANGED <<input, table, fileGroup>>

\* A file is parsed before any of it is pushed: a malformed one adds nothing.
AugmentDbc ==
  /\ phase = "dbc" /\ at <= Len(input.dbcs)
  /\ LET d == input.dbcs[at]
     IN  table' = IF d.malformed THEN table ELSE Augmented(table, d.components)
  /\ at' = at + 1 /\ UNCHANGED <<input, phase, fileGroup, cfgParams>>

EndDbcs ==
  /\ phase = "dbc" /\ at > Len(input.dbcs)
  /\ Enter("loaded")
  /\ UNCHANGED <<input, table, fileGroup, cfgParams>>

Next ==
  \/ RegisterEnums \/ PushComponent \/ EndProject
  \/ ApplyParameter \/ EndParameters \/ ApplyTables \/ EndConfig
  \/ AugmentDbc \/ EndDbcs

Spec == Init /\ [][Next]_vars

-----------------------------------------------------------------------------
(* What the loaded project answers. *)

\* function_symbol_for_script: the first function of that file, else the one
\* the conventional path names; <<>> for none.
FunctionForScript(file) ==
  LET path == <<"Root">> \o file
  IN  CASE file \in DOMAIN table.byFile -> table.symbols[table.byFile[file]].path
        [] file \notin DOMAIN table.byFile /\ Has(table, path)
             /\ IsFunction(Get(table, path).kind) -> path
        [] OTHER -> <<>>

GroupForScript(file) == IF file \in DOMAIN fileGroup THEN fileGroup[file] ELSE <<>>

\* missing_cfg_parameters (T041).
MissingParameters ==
  IF ~HasCfg THEN {}
  ELSE {s \in Range(table.symbols) : s.kind = "Parameter" /\ s.path \notin cfgParams}

=============================================================================
