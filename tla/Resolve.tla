------------------------------ MODULE Resolve ------------------------------
(***************************************************************************)
(* Name resolution over the symbol table (resolve.rs) and the checks that  *)
(* read nothing else: unresolved references and writes to unknown targets  *)
(* (T001, T031), names that are both a channel and an enum (T103), members *)
(* an enum does not have (T020).                                           *)
(*                                                                         *)
(* A scope is [locals, group, fn]: the names declared in the script, the   *)
(* group it is anchored in and the function it backs, <<>> for none.       *)
(***************************************************************************)
EXTENDS Symbols

CONSTANTS
  Library,       \* the objects of the firmware library -> their methods
  ObjectMethods, \* the built-in methods of channels, parameters and the like
  References     \* the references scripts make: [path, variants, written]

Resolution(to, path) == [to |-> to, path |-> path]
Opaque == Resolution("Opaque", <<>>)
Unresolved == Resolution("Unresolved", <<>>)
IsUnresolved(r) == r.to = "Unresolved"

\* The symbol at a path, opaque when there is none: what an anchored name gets.
SymbolOrOpaque(t, path) == IF Has(t, path) THEN Resolution("Symbol", path) ELSE Opaque

\* parent_target: one group up for each leading Parent, <<>> above the root.
ParentTarget(path, group) ==
  LET levels == Max({n \in 1..Len(path) : \A i \in 1..n : path[i] = "Parent"})
  IN  IF Len(group) <= levels THEN <<>>
      ELSE SubSeq(group, 1, Len(group) - levels) \o SubSeq(path, levels + 1, Len(path))

\* An object of the library, one of its methods, or a member it does not have.
InLibrary(path) ==
  CASE Len(path) = 1 -> Resolution("BuiltinObject", path)
    [] Len(path) = 2 /\ path[2] \in Library[path[1]] -> Resolution("BuiltinFn", path)
    [] OTHER -> Opaque
LibraryName(path) == path # <<>> /\ path[1] \in DOMAIN Library

\* In: a declared parameter of the function, which is as good as a local.
Argument(t, path, scope) ==
  IF /\ Len(path) = 2 /\ Has(t, scope.fn)
     /\ path[2] \in Range(Get(t, scope.fn).params)
  THEN Resolution("Local", path) ELSE Opaque

Keywords == {"In", "Out", "Parent", "This", "Library", "Root"}

Anchored(t, path, scope) ==
  CASE path[1] = "In" -> Argument(t, path, scope)
    [] path[1] = "Parent" /\ scope.group # <<>> ->
         SymbolOrOpaque(t, ParentTarget(path, scope.group))
    [] path[1] = "This" /\ scope.group # <<>> ->
         SymbolOrOpaque(t, scope.group \o Tail(path))
    [] path[1] = "Library" /\ LibraryName(Tail(path)) -> InLibrary(Tail(path))
    [] OTHER -> Opaque

IsAnchored(path) ==
  \/ path[1] \in {"In", "Out", "Parent"}
  \/ Len(path) > 1 /\ path[1] \in {"This", "Library"}

\* Where a name may denote a symbol: as written, under Root, then in the group
\* and in each group above it.
Candidates(path, group) ==
  <<path, <<"Root">> \o path>>
    \o [i \in 1..Len(group) |-> SubSeq(group, 1, Len(group) + 1 - i) \o path]
Hits(t, path, group) ==
  {i \in DOMAIN Candidates(path, group) : Has(t, Candidates(path, group)[i])}

\* symbol_exists: what is no group takes any accessor, a group with a value
\* the known ones and the members of enums, any other group none.
Exposes(t, path, accessor) ==
  \/ Get(t, path).kind # "Group"
  \/ /\ HasChild(t, path, "Value")
     /\ accessor \in ObjectMethods \union {"Value"} \/ EnumsWithMember(t, accessor) # <<>>

PrefixResolves(t, path, group) ==
  \E n \in 1..Len(path) - 1 :
    LET prefix == SubSeq(path, 1, n)
    IN  \E i \in Hits(t, prefix, group) :
          Exposes(t, Candidates(prefix, group)[i], path[n + 1])

\* A name nothing was found for is a miss under a group of the project, and
\* when it stands alone in a script that has a group.
IsMiss(t, path, group) ==
  LET under == <<"Root", path[1]>>
  IN  \/ path[1] = "Root" /\ Len(path) > 1
      \/ Has(t, under) /\ Get(t, under).kind = "Group"
      \/ /\ Len(path) = 1 /\ group # <<>> /\ EnumsWithMember(t, path[1]) = <<>>
         /\ path[1] \notin {"This", "Library", "Root", "True", "False"}

ResolveIn(t, path, scope) ==
  LET hits == Hits(t, path, scope.group)
  IN  CASE Len(path) = 1 /\ path[1] \in scope.locals -> Resolution("Local", path)
        [] IsAnchored(path) -> Anchored(t, path, scope)
        [] LibraryName(path) -> InLibrary(path)
        [] hits # {} -> Resolution("Symbol", Candidates(path, scope.group)[Min(hits)])
        [] PrefixResolves(t, path, scope.group) -> Opaque
        [] OTHER -> IF IsMiss(t, path, scope.group) THEN Unresolved ELSE Opaque

-----------------------------------------------------------------------------
(* The rules. *)

\* t001_unresolved.rs: a name with $(..) in it stands for its expansions, and
\* the first of them that misses is reported; with none to list, nothing is.
IsTemplate(r) == r.variants # <<>>
Misses(t, r, scope) ==
  /\ IsUnresolved(ResolveIn(t, r.path, scope))
  /\ IsTemplate(r) => \E i \in DOMAIN r.variants : IsUnresolved(ResolveIn(t, r.variants[i], scope))
Unknowns(t, r, scope) ==
  IF ~Misses(t, r, scope) THEN {} ELSE IF r.written THEN {"T031"} ELSE {"T001"}

\* ambiguous.rs: an enum of that name, and a channel or parameter the bare name
\* reaches.
IsValue(s) == s.kind \in {"Channel", "Parameter"}
ReachableBare(t, name, group) ==
  \E i \in Hits(t, <<name>>, group) : IsValue(Get(t, Candidates(<<name>>, group)[i]))
Ambiguous(t, path, scope) ==
  /\ scope.group # <<>>
  /\ path[1] \notin Keywords \union scope.locals
  /\ EnumByName(t, path[1]) # 0
  /\ ReachableBare(t, path[1], scope.group)

\* t020_enum_member.rs: an error where no member fits under any case, and a
\* warning where the case of the member or of the enum differs.
MemberError(t, path) ==
  LET id == EnumByName(t, path[1])
  IN  /\ Len(path) = 2 /\ id # 0 /\ ~t.enums[id].open
      /\ \A m \in Range(t.enums[id].members) : ~SameName(m, path[2])
CaseWarning(t, path) ==
  LET id == EnumByName(t, path[1])
  IN  /\ Len(path) = 2 /\ id # 0 /\ ~MemberError(t, path)
      /\ t.enums[id].name # path[1] \/ ~(t.enums[id].open \/ EnumHasMember(t, id, path[2]))

-----------------------------------------------------------------------------
(* What must hold. *)

\* The scopes of the project's scripts, and the one of a script it does not
\* know.
Scopes ==
  {[locals |-> {}, group |-> GroupForScript(f), fn |-> FunctionForScript(f)] :
     f \in DOMAIN fileGroup \union {<<>>}}

Loaded == phase = "loaded"
Unique(components) ==
  \A i, j \in DOMAIN components : components[i].path = components[j].path => i = j

\* The name of a type: enums are told apart by theirs, their numbers change
\* with the order of the document.
TypeName(t, s) ==
  IF s.vt[1] = "Enum" THEN t.enums[s.vt[2]].name ELSE s.vt[1]

\* The table of a document of these components.
FromProject(types, components) ==
  LET index == ProjectIndex(components)
      after[n \in 0..Len(components)] ==
        IF n = 0 THEN WithEnums(EmptyTable, ParseEnums(types, components))
        ELSE Push(after[n - 1], SymbolOf(after[n - 1], index, components[n]))
  IN  after[Len(components)]

\* The order of the components in the .m1prj decides nothing about a symbol:
\* its type and its tags come out the same when the document is read backwards
\* (the pre-passes of index.rs and parse_enums exist for this), up to the case
\* of a firmware enum's name.
OrderFree ==
  phase = "components" /\ at > Len(input.components) /\ Unique(input.components) =>
    \A path \in DOMAIN table.byPath :
      LET reversed == FromProject(input.types, Reverse(input.components))
          here == Get(table, path)
          there == Get(reversed, path)
      IN  /\ SameName(TypeName(table, here), TypeName(reversed, there))
          /\ here.tags = there.tags

\* A function of the project tree that alone claims a script, by its file or by
\* its name, backs that script, and the script is anchored in its group: the two
\* indices the rules ask (group_for_script, function_symbol_for_script) agree,
\* whatever the order of the components, unless a DBC takes the function's name.
Shadowed(path) ==
  \E i \in DOMAIN input.dbcs : \E j \in DOMAIN input.dbcs[i].components :
    input.dbcs[i].components[j].path = path
Claims(c, file) ==
  IsFunction(KindOf(c.class)) /\ (ScriptKey(c) = file \/ c.path = <<"Root">> \o file)

ScriptsAnchored ==
  Loaded /\ Unique(input.components) =>
    \A i \in DOMAIN input.components :
      LET c == input.components[i]
          file == ScriptKey(c)
      IN  /\ {j \in DOMAIN input.components : Claims(input.components[j], file)} = {i}
          /\ Rooted(c.path) /\ Len(c.path) > 1 /\ ~Shadowed(c.path)
          => FunctionForScript(file) = c.path /\ GroupForScript(file) = Front(c.path)

\* When all components stand under Root, a parameter is reported as missing from
\* the .m1cfg (T041) exactly when no entry of the .m1cfg finds it: the audit,
\* which qualifies the names, and the loader, which looks them up, never part
\* company, and what DBCs add later does not change the answer.
OneTree == \A i \in DOMAIN input.components : Rooted(input.components[i].path)
IsTouched(s) == \E p \in Range(input.cfg.parameters) : ResolvePath(table, p.name) = s.path

MissingIsUntouched ==
  [][/\ EndConfig /\ OneTree =>
         \A s \in Range(table.symbols) :
           s.kind = "Parameter" => (s \in MissingParameters' <=> ~IsTouched(s))
     /\ AugmentDbc => MissingParameters' = MissingParameters]_vars

\* What a calibration leaves of a symbol s, whatever it says: a known value (a
\* constant's, above all) and the enum that a declared type associates.
Prevails(s, n) ==
  /\ n.path = s.path /\ n.kind = s.kind
  /\ s.static # None => n.static = s.static
  /\ s.assoc # 0 => n.assoc = s.assoc

Drives(b, s) == s.path \in {Append(b.name, "Value"), Qualify(Append(b.name, "Value"))}

CellDefers(p, s, n) ==
  /\ Prevails(s, n)
  /\ s.unit # <<>> => n.unit = s.unit
  /\ p.type = "enum" /\ s.assoc # 0 => n.vt = s.vt

TableDefers(b, s, n) ==
  /\ Prevails(s, n)
  /\ ~Drives(b, s) => n.unit = s.unit /\ n.vt = s.vt

\* The project prevails over the calibration, but for the output of a table.  No
\* entry of the .m1cfg, cell or table, replaces a value or the enum of a symbol;
\* a cell replaces no base unit, and an enum cell no type where an enum is
\* declared (a primitive cell does retype its symbol).  A table is authoritative
\* for the type and the unit of the Value channel that it drives, and for those of
\* no other symbol: there alone it replaces a base unit that the .m1prj declares.
ProjectPrevails ==
  [][\A i \in DOMAIN table.symbols :
       LET s == table.symbols[i]
           n == table'.symbols[i]
       IN  /\ ApplyParameter => CellDefers(input.cfg.parameters[at], s, n)
           /\ ApplyTables => TableDefers(input.cfg.tables[at], s, n)]_vars

\* Once the .m1prj is in, what is loaded on top only ever helps: no .m1cfg
\* entry and no DBC turns a reference that was not flagged into one that is,
\* so a DBC that is skipped can add reports of unknown names but hide none.
LoadingOnlyResolves ==
  [][ApplyParameter \/ ApplyTables \/ AugmentDbc =>
       \A scope \in Scopes, r \in References :
         Unknowns(table', r, scope) \subseteq Unknowns(table, r, scope)]_vars
=============================================================================
