--------------------------- MODULE ResolveProofs ---------------------------
(***************************************************************************)
(* The loaders and the resolver, for every document: the indices of the    *)
(* table are right at every step, a calibration does not overrule the      *)
(* project, what is loaded on top of the project only ever resolves more   *)
(* names, the two indices of the scripts agree, and the order of the       *)
(* components decides nothing.                                             *)
(***************************************************************************)
EXTENDS Resolve, FiniteSetTheorems, SequenceTheorems, WellFoundedInduction, TLAPS

Fields      == DOMAIN BlankSymbol
TableFields == DOMAIN EmptyTable

LEMMA FieldNames ==
  Fields = {"path", "kind", "vt", "assoc", "declared", "unit", "file", "scheduled", "tags",
            "ret", "params", "meta", "default", "static", "dbc"}
BY DEF Fields, BlankSymbol

LEMMA TableNames ==
  TableFields = {"symbols", "byPath", "byFile", "byParent", "byTag", "enums", "members"}
BY DEF TableFields, EmptyTable

(* A table is indexed when its symbols are a sequence of symbols, and each *)
(* path leads to a symbol of that path.                                    *)
Rows(t, n) == n \in Nat /\ t.symbols = [i \in 1..n |-> t.symbols[i]]

Indexed(t) ==
  /\ DOMAIN t = TableFields
  /\ \E n : Rows(t, n)
  /\ \A i \in DOMAIN t.symbols :
       DOMAIN t.symbols[i] = Fields /\ t.symbols[i].path \in DOMAIN t.byPath
  /\ \A p \in DOMAIN t.byPath : t.byPath[p] \in DOMAIN t.symbols /\ Get(t, p).path = p

LEMMA RowsAreSeq ==
  ASSUME NEW t, NEW n, Rows(t, n)
  PROVE  /\ t.symbols \in Seq({t.symbols[i] : i \in 1..n})
         /\ Len(t.symbols) = n /\ DOMAIN t.symbols = 1..n
<1>1. t.symbols \in [1..n -> {t.symbols[i] : i \in 1..n}]
  BY DEF Rows
<1>2. t.symbols \in Seq({t.symbols[i] : i \in 1..n})
  BY <1>1, SeqDef DEF Rows
<1>3. DOMAIN t.symbols = 1..n
  BY DEF Rows
<1>4. Len(t.symbols) = n
  BY <1>2, <1>3, LenProperties DEF Rows
<1> QED BY <1>2, <1>3, <1>4

LEMMA RowsFromParts ==
  ASSUME NEW t, NEW n \in Nat, NEW S, t.symbols \in [1..n -> S]
  PROVE  Rows(t, n)
BY DEF Rows

(* What a push does to the table: one symbol more, found by its path.      *)
LEMMA PushParts ==
  ASSUME NEW t, Indexed(t), NEW s, DOMAIN s = Fields, NEW u, u = Push(t, s)
  PROVE  \E n \in Nat :
           /\ DOMAIN t.symbols = 1..n /\ Len(t.symbols) = n
           /\ DOMAIN u.symbols = 1..(n + 1) /\ u.symbols[n + 1] = s
           /\ \A i \in 1..n : u.symbols[i] = t.symbols[i]
           /\ u.byPath = With(t.byPath, s.path, n + 1)
           /\ u.byFile = IF IsFunction(s.kind) /\ s.file # <<>> /\ s.file \notin DOMAIN t.byFile
                         THEN With(t.byFile, s.file, n + 1) ELSE t.byFile
           /\ u.enums = t.enums /\ u.members = t.members
           /\ Indexed(u)
<1>1. PICK n : Rows(t, n)
  BY DEF Indexed
<1> DEFINE S == {t.symbols[i] : i \in 1..n} \cup {s}
<1>2. n \in Nat /\ Len(t.symbols) = n /\ DOMAIN t.symbols = 1..n
  BY <1>1, RowsAreSeq DEF Rows
<1>3. t.symbols \in Seq(S)
  <2> DEFINE T == {t.symbols[i] : i \in 1..n}
  <2>1. T \subseteq S /\ t.symbols \in Seq(T)
    BY <1>1, RowsAreSeq
  <2> HIDE DEF S, T
  <2> QED BY <2>1, SeqMonotonic
<1>4. DOMAIN t = TableFields
  BY DEF Indexed
<1>5. /\ u.symbols = Append(t.symbols, s)
      /\ u.byPath = With(t.byPath, s.path, n + 1)
      /\ u.byFile = IF IsFunction(s.kind) /\ s.file # <<>> /\ s.file \notin DOMAIN t.byFile
                    THEN With(t.byFile, s.file, n + 1) ELSE t.byFile
      /\ u.enums = t.enums /\ u.members = t.members
      /\ DOMAIN u = TableFields
  BY <1>2, <1>4, TableNames DEF Push
<1> HIDE DEF S
<1>6. s \in S
  BY DEF S
<1>7. /\ Append(t.symbols, s) \in Seq(S) /\ Len(Append(t.symbols, s)) = n + 1
      /\ Append(t.symbols, s)[n + 1] = s
      /\ \A i \in 1..n : Append(t.symbols, s)[i] = t.symbols[i]
  BY <1>2, <1>3, <1>6, AppendProperties
<1>8. DOMAIN u.symbols = 1..(n + 1) /\ u.symbols \in [1..(n + 1) -> S]
  BY <1>5, <1>7, LenProperties
<1>9. Rows(u, n + 1)
  BY <1>2, <1>8, RowsFromParts
<1>10. /\ DOMAIN u.byPath = DOMAIN t.byPath \cup {s.path} /\ u.byPath[s.path] = n + 1
       /\ \A p \in DOMAIN t.byPath : p # s.path => u.byPath[p] = t.byPath[p]
  BY <1>5 DEF With
<1>11. ASSUME NEW i \in 1..(n + 1)
       PROVE  DOMAIN u.symbols[i] = Fields /\ u.symbols[i].path \in DOMAIN u.byPath
  <2>1. CASE i = n + 1
    BY <1>5, <1>7, <1>10, <2>1
  <2>2. CASE i # n + 1
    <3>1. i \in 1..n
      BY <1>2, <1>11, <2>2
    <3> QED BY <1>2, <1>5, <1>7, <1>10, <3>1 DEF Indexed
  <2> QED BY <2>1, <2>2
<1>12. ASSUME NEW p \in DOMAIN u.byPath
       PROVE  u.byPath[p] \in 1..(n + 1) /\ u.symbols[u.byPath[p]].path = p
  <2>1. CASE p = s.path
    BY <1>2, <1>5, <1>7, <1>10, <2>1
  <2>2. CASE p # s.path
    <3>1. p \in DOMAIN t.byPath /\ u.byPath[p] = t.byPath[p]
      BY <1>10, <2>2
    <3>2. t.byPath[p] \in 1..n /\ t.symbols[t.byPath[p]].path = p
      BY <1>2, <3>1 DEF Indexed, Get
    <3> QED BY <1>2, <1>5, <1>7, <3>1, <3>2
  <2> QED BY <2>1, <2>2
<1>13. Indexed(u)
  BY <1>5, <1>8, <1>9, <1>11, <1>12 DEF Indexed, Get
<1> QED BY <1>2, <1>5, <1>7, <1>8, <1>13

(* What an update does: one symbol, at a path it keeps.                    *)
Rewrites(t, u, path) ==
  /\ Indexed(u)
  /\ u.byPath = t.byPath /\ u.byFile = t.byFile /\ u.members = t.members
  /\ DOMAIN u.symbols = DOMAIN t.symbols
  /\ \A i \in DOMAIN t.symbols : i # t.byPath[path] => u.symbols[i] = t.symbols[i]

LEMMA UpdateParts ==
  ASSUME NEW t, Indexed(t), NEW path, Has(t, path),
         NEW s, DOMAIN s = Fields, s.path = path, NEW u, u = Update(t, path, s)
  PROVE  Rewrites(t, u, path) /\ Get(u, path) = s
<1>1. PICK n : Rows(t, n)
  BY DEF Indexed
<1>2. n \in Nat /\ DOMAIN t.symbols = 1..n /\ DOMAIN t = TableFields
  BY <1>1 DEF Rows, Indexed
<1>3. PICK k : k = t.byPath[path] /\ k \in 1..n /\ t.symbols[k].path = path
  BY <1>2 DEF Has, Indexed, Get
<1>4. /\ u.symbols = [t.symbols EXCEPT ![k] = s]
      /\ u.byPath = t.byPath /\ u.byFile = t.byFile /\ u.members = t.members
      /\ DOMAIN u = TableFields
  BY <1>2, <1>3, TableNames DEF Update
<1>5. /\ DOMAIN u.symbols = 1..n /\ u.symbols[k] = s
      /\ \A i \in 1..n : i # k => u.symbols[i] = t.symbols[i]
  BY <1>2, <1>3, <1>4
<1>6. Rows(u, n)
  <2>1. t.symbols = [i \in 1..n |-> t.symbols[i]]
    BY <1>1 DEF Rows
  <2>2. u.symbols \in [1..n -> {t.symbols[i] : i \in 1..n} \cup {s}]
    BY <1>3, <1>4, <2>1
  <2> QED BY <1>2, <2>2, RowsFromParts
<1>7. \A i \in 1..n : DOMAIN u.symbols[i] = Fields /\ u.symbols[i].path = t.symbols[i].path
  BY <1>2, <1>3, <1>5 DEF Indexed
<1>8. Indexed(u)
  BY <1>2, <1>4, <1>5, <1>6, <1>7 DEF Indexed, Get
<1> QED BY <1>2, <1>3, <1>4, <1>5, <1>8 DEF Rewrites, Get
-----------------------------------------------------------------------------
(* What is pushed from a DBC: CAN objects only, behind what was there.     *)
Grown(t, u, components) ==
  /\ Indexed(u)
  /\ DOMAIN t.symbols \subseteq DOMAIN u.symbols
  /\ \A i \in DOMAIN t.symbols : u.symbols[i] = t.symbols[i]
  /\ \A i \in DOMAIN u.symbols \ DOMAIN t.symbols :
       /\ u.symbols[i].kind \in {"Channel", "Object"}
       /\ \E j \in DOMAIN components : u.symbols[i].path = components[j].path
  /\ DOMAIN t.byPath \subseteq DOMAIN u.byPath
  /\ \A p \in DOMAIN u.byPath :
       \/ p \in DOMAIN t.byPath /\ u.byPath[p] = t.byPath[p]
       \/ u.byPath[p] \notin DOMAIN t.symbols
  /\ u.byFile = t.byFile /\ u.members = t.members

LEMMA GrownByNothing ==
  ASSUME NEW t, Indexed(t), NEW components PROVE Grown(t, t, components)
BY DEF Grown

LEMMA DbcSymbolParts ==
  ASSUME NEW c
  PROVE  /\ DOMAIN DbcSymbol(c) = Fields /\ DbcSymbol(c).path = c.path
         /\ DbcSymbol(c).kind \in {"Channel", "Object"} /\ DbcSymbol(c).file = <<>>
BY DEF DbcSymbol, BlankSymbol, Fields

LEMMA GrownByOne ==
  ASSUME NEW t, NEW u, NEW components, Grown(t, u, components),
         NEW j \in DOMAIN components, NEW v, v = Push(u, DbcSymbol(components[j]))
  PROVE  Grown(t, v, components)
<1>1. PICK s : s = DbcSymbol(components[j])
  OBVIOUS
<1>2. /\ DOMAIN s = Fields /\ s.path = components[j].path
      /\ s.kind \in {"Channel", "Object"} /\ s.file = <<>>
  BY <1>1, DbcSymbolParts
<1>3. PICK n \in Nat :
        /\ DOMAIN u.symbols = 1..n
        /\ DOMAIN v.symbols = 1..(n + 1) /\ v.symbols[n + 1] = s
        /\ \A i \in 1..n : v.symbols[i] = u.symbols[i]
        /\ v.byPath = With(u.byPath, s.path, n + 1)
        /\ v.byFile = IF IsFunction(s.kind) /\ s.file # <<>> /\ s.file \notin DOMAIN u.byFile
                      THEN With(u.byFile, s.file, n + 1) ELSE u.byFile
        /\ v.members = u.members /\ Indexed(v)
  BY <1>1, <1>2, PushParts DEF Grown
<1>4. /\ DOMAIN v.byPath = DOMAIN u.byPath \cup {s.path} /\ v.byPath[s.path] = n + 1
      /\ \A p \in DOMAIN u.byPath : p # s.path => v.byPath[p] = u.byPath[p]
  BY <1>3 DEF With
<1>5. n + 1 \notin DOMAIN t.symbols /\ DOMAIN t.symbols \subseteq 1..n
  BY <1>3 DEF Grown
<1>6. \A i \in DOMAIN t.symbols : i \in 1..(n + 1) /\ v.symbols[i] = t.symbols[i]
  BY <1>3, <1>5 DEF Grown
<1>7. ASSUME NEW i \in DOMAIN v.symbols \ DOMAIN t.symbols
      PROVE  /\ v.symbols[i].kind \in {"Channel", "Object"}
             /\ \E k \in DOMAIN components : v.symbols[i].path = components[k].path
  <2>1. CASE i = n + 1
    BY <1>2, <1>3, <2>1
  <2>2. CASE i \in 1..n
    BY <1>3, <1>7, <2>2 DEF Grown
  <2> QED BY <1>3, <1>7, <2>1, <2>2
<1>8. ASSUME NEW p \in DOMAIN v.byPath
      PROVE  \/ p \in DOMAIN t.byPath /\ v.byPath[p] = t.byPath[p]
             \/ v.byPath[p] \notin DOMAIN t.symbols
  <2>1. CASE p = s.path
    BY <1>4, <1>5, <2>1
  <2>2. CASE p # s.path
    BY <1>4, <1>8, <2>2 DEF Grown
  <2> QED BY <2>1, <2>2
<1>9. v.byFile = t.byFile /\ v.members = t.members
  BY <1>2, <1>3 DEF Grown
<1>10. DOMAIN t.byPath \subseteq DOMAIN v.byPath
  BY <1>4 DEF Grown
<1> QED BY <1>3, <1>6, <1>7, <1>8, <1>9, <1>10 DEF Grown

LEMMA Least ==
  ASSUME NEW T, T \subseteq Nat, T # {}
  PROVE  \E x \in T : \A y \in T : x <= y
<1> DEFINE R == OpToRel(<, Nat)
<1>1. IsWellFoundedOn(R, Nat)
  BY NatLessThanWellFounded
<1>2. \A x, y \in Nat : y < x => <<y, x>> \in R
  BY DEF OpToRel
<1> HIDE DEF R
<1>3. PICK x \in T : \A y \in T : ~(<<y, x>> \in R)
  BY <1>1, WFMin
<1>4. \A y \in T : ~(y < x)
  BY <1>2, <1>3
<1>5. \A y \in T : x <= y
  BY <1>4
<1> QED BY <1>5

(* The recursion of Augmented has a solution, over any number of           *)
(* components: without one up to some length there would be a least such.  *)
Steps(f, t, components, k) ==
  f = [n \in 0..k |-> IF n = 0 THEN t ELSE PushCan(f[n - 1], components[n])]

LEMMA StepsExist ==
  ASSUME NEW t, NEW components, NEW k \in Nat
  PROVE  \E f : Steps(f, t, components, k)
<1> DEFINE T == {m \in Nat : ~\E f : Steps(f, t, components, m)}
<1> SUFFICES ASSUME T # {} PROVE FALSE
  OBVIOUS
<1>1. T \subseteq Nat
  OBVIOUS
<1>2. PICK m \in T : \A y \in T : m <= y
  <2> HIDE DEF T
  <2> QED BY <1>1, Least
<1>3. m \in Nat /\ ~\E f : Steps(f, t, components, m)
  OBVIOUS
<1>4. CASE m = 0
  <2> DEFINE f == [n \in 0..0 |-> t]
  <2>1. Steps(f, t, components, 0)
    BY DEF Steps
  <2> QED BY <1>3, <1>4, <2>1
<1>5. CASE m # 0
  <2>1. m - 1 \in Nat /\ m - 1 \notin T
    BY <1>2, <1>3, <1>5
  <2>2. PICK g : Steps(g, t, components, m - 1)
    BY <2>1
  <2> DEFINE f == [n \in 0..m |-> IF n = 0 THEN t ELSE PushCan(g[n - 1], components[n])]
  <2>3. \A n \in 0..(m - 1) : f[n] = g[n]
    <3>1. 0..(m - 1) \subseteq 0..m
      BY <1>3
    <3> QED BY <2>2, <3>1 DEF Steps
  <2>4. \A n \in 0..m : n # 0 => f[n - 1] = g[n - 1]
    BY <1>3, <2>3
  <2>5. Steps(f, t, components, m)
    BY <2>4 DEF Steps
  <2> QED BY <1>3, <2>5
<1> QED BY <1>4, <1>5

LEMMA AugmentedGrows ==
  ASSUME NEW t, Indexed(t), NEW components \in Seq(PrjComponent)
  PROVE  Grown(t, Augmented(t, components), components)
<1>1. PICK k \in Nat : k = Len(components) /\ DOMAIN components = 1..k
  BY LenProperties
<1>2. PICK f : f = CHOOSE g : Steps(g, t, components, k)
  OBVIOUS
<1>3. Steps(f, t, components, k)
  BY <1>2, StepsExist
<1>4. Augmented(t, components) = f[k]
  BY <1>1, <1>2 DEF Augmented, Steps
<1>5. /\ f[0] = t
      /\ \A n \in 1..k : f[n] = PushCan(f[n - 1], components[n])
  <2>1. 0 \in 0..k /\ \A n \in 1..k : n \in 0..k /\ n # 0
    BY <1>1
  <2> QED BY <1>3, <2>1 DEF Steps
<1> DEFINE T == {m \in 0..k : ~Grown(t, f[m], components)}
<1>6. T = {}
  <2> SUFFICES ASSUME T # {} PROVE FALSE
    OBVIOUS
  <2>1. T \subseteq Nat
    OBVIOUS
  <2>2. PICK m \in T : \A y \in T : m <= y
    <3> HIDE DEF T
    <3> QED BY <2>1, Least
  <2>3. m \in 0..k /\ ~Grown(t, f[m], components)
    OBVIOUS
  <2>4. m # 0
    BY <1>5, <2>3, GrownByNothing
  <2>5. m \in 1..k /\ m - 1 \in 0..k /\ m - 1 \notin T
    BY <2>2, <2>3, <2>4
  <2>6. Grown(t, f[m - 1], components)
    BY <2>5
  <2>7. Grown(t, f[m], components)
    BY <1>1, <1>5, <2>5, <2>6, GrownByOne DEF PushCan
  <2> QED BY <2>3, <2>7
<1>7. k \in 0..k
  OBVIOUS
<1> QED BY <1>4, <1>6, <1>7
-----------------------------------------------------------------------------
(* What a .m1cfg does: it fills in symbols, and keeps what they are.       *)
KeepsSymbols(t, u) ==
  /\ Indexed(u)
  /\ u.byPath = t.byPath /\ u.byFile = t.byFile /\ u.members = t.members
  /\ DOMAIN u.symbols = DOMAIN t.symbols
  /\ \A i \in DOMAIN t.symbols :
       /\ u.symbols[i].path = t.symbols[i].path
       /\ u.symbols[i].kind = t.symbols[i].kind
       /\ u.symbols[i].file = t.symbols[i].file

LEMMA KeepsItself == ASSUME NEW t, Indexed(t) PROVE KeepsSymbols(t, t)
BY DEF KeepsSymbols

LEMMA KeepsOnRewrite ==
  ASSUME NEW t, Indexed(t), NEW path, Has(t, path),
         NEW s, DOMAIN s = Fields, s.path = path,
         s.kind = Get(t, path).kind, s.file = Get(t, path).file,
         NEW u, u = Update(t, path, s)
  PROVE  KeepsSymbols(t, u)
<1>1. Rewrites(t, u, path) /\ Get(u, path) = s
  BY UpdateParts
<1>2. PICK k \in DOMAIN t.symbols : k = t.byPath[path] /\ t.symbols[k].path = path
  BY DEF Has, Indexed, Get
<1>3. u.symbols[k] = s /\ t.symbols[k] = Get(t, path)
  BY <1>1, <1>2 DEF Get, Rewrites
<1> QED BY <1>1, <1>2, <1>3 DEF Rewrites, KeepsSymbols

LEMMA KeepsTwice ==
  ASSUME NEW t, NEW u, NEW v, KeepsSymbols(t, u), KeepsSymbols(u, v)
  PROVE  KeepsSymbols(t, v)
BY DEF KeepsSymbols

LEMMA Found ==
  ASSUME NEW t, NEW name, ResolvePath(t, name) # <<>>
  PROVE  Has(t, ResolvePath(t, name))
BY DEF ResolvePath

LEMMA GetFields ==
  ASSUME NEW t, Indexed(t), NEW path, Has(t, path)
  PROVE  DOMAIN Get(t, path) = Fields /\ Get(t, path).path = path
BY DEF Has, Indexed, Get

(* A cell leaves alone what the .m1prj alone decides.                      *)
LEMMA FilledCell ==
  ASSUME NEW t, NEW s, DOMAIN s = Fields, NEW p
  PROVE  LET n == FillStatic(FillUnit(Retyped(t, s, p), p.unit), p.text)
         IN  /\ DOMAIN n = Fields /\ n.path = s.path /\ n.kind = s.kind /\ n.file = s.file
             /\ CellDefers(p, s, n)
<1>1. PICK r : r = Retyped(t, s, p)
  OBVIOUS
<1>2. /\ DOMAIN r = Fields /\ r.path = s.path /\ r.kind = s.kind /\ r.file = s.file
      /\ r.static = s.static /\ r.unit = s.unit /\ (s.assoc # 0 => r.assoc = s.assoc)
      /\ (p.type = "enum" /\ s.assoc # 0 => r.vt = s.vt)
  BY <1>1, FieldNames DEF Retyped
<1>3. PICK f : f = FillUnit(r, p.unit)
  OBVIOUS
<1>4. /\ DOMAIN f = Fields /\ f.path = s.path /\ f.kind = s.kind /\ f.file = s.file
      /\ f.static = s.static /\ (s.unit # <<>> => f.unit = s.unit)
      /\ (s.assoc # 0 => f.assoc = s.assoc) /\ f.vt = r.vt
  BY <1>2, <1>3, FieldNames DEF FillUnit
<1>5. PICK n : n = FillStatic(f, p.text)
  OBVIOUS
<1>6. /\ DOMAIN n = Fields /\ n.path = s.path /\ n.kind = s.kind /\ n.file = s.file
      /\ CellDefers(p, s, n)
  BY <1>2, <1>4, <1>5, FieldNames DEF FillStatic, CellDefers, Prevails
<1> QED BY <1>1, <1>3, <1>5, <1>6

LEMMA CellParts ==
  ASSUME NEW t, Indexed(t), NEW p, NEW u, u = ApplyCell(t, p)
  PROVE  /\ KeepsSymbols(t, u)
         /\ \A i \in DOMAIN t.symbols : CellDefers(p, t.symbols[i], u.symbols[i])
<1>1. CASE u = t
  BY <1>1, KeepsItself DEF CellDefers, Prevails
<1>2. CASE u # t
  <2>1. PICK path : path = ResolvePath(t, p.name) /\ Has(t, path)
    BY <1>2, Found DEF ApplyCell
  <2>2. PICK s : s = Get(t, path)
    OBVIOUS
  <2>3. PICK n : n = FillStatic(FillUnit(Retyped(t, s, p), p.unit), p.text)
    OBVIOUS
  <2>4. u = Update(t, path, n)
    BY <1>2, <2>1, <2>2, <2>3 DEF ApplyCell
  <2>5. DOMAIN s = Fields /\ s.path = path
    BY <2>1, <2>2, GetFields
  <2>6. /\ DOMAIN n = Fields /\ n.path = path /\ n.kind = s.kind /\ n.file = s.file
        /\ CellDefers(p, s, n)
    BY <2>3, <2>5, FilledCell
  <2>7. KeepsSymbols(t, u)
    BY <2>1, <2>2, <2>4, <2>6, KeepsOnRewrite
  <2>8. Rewrites(t, u, path) /\ Get(u, path) = n
    BY <2>1, <2>4, <2>6, UpdateParts
  <2>9. ASSUME NEW i \in DOMAIN t.symbols PROVE CellDefers(p, t.symbols[i], u.symbols[i])
    <3>1. CASE i = t.byPath[path]
      BY <2>2, <2>6, <2>8, <3>1 DEF Get, Rewrites
    <3>2. CASE i # t.byPath[path]
      BY <2>8, <3>2 DEF Rewrites, CellDefers, Prevails
    <3> QED BY <3>1, <3>2
  <2> QED BY <2>7, <2>9
<1> QED BY <1>1, <1>2

(* A name is found as it is written, or below Root.                        *)
LEMMA FoundAs ==
  ASSUME NEW t, NEW name, ResolvePath(t, name) # <<>>
  PROVE  ResolvePath(t, name) \in {name, Qualify(name)}
BY DEF ResolvePath

(* A table changes a type or a unit in the channel that it drives only.    *)
LEMMA TableParts ==
  ASSUME NEW t, Indexed(t), NEW b
  PROVE  /\ KeepsSymbols(t, ApplyTable(t, b))
         /\ \A i \in DOMAIN t.symbols :
              TableDefers(b, t.symbols[i], ApplyTable(t, b).symbols[i])
<1>1. PICK out, whole : out = ResolvePath(t, Append(b.name, "Value")) /\ whole = ResolvePath(t, b.name)
  OBVIOUS
<1> DEFINE value(s) == [s EXCEPT !.vt = IF PrimitiveType(b.type) = Unknown THEN @
                                        ELSE PrimitiveType(b.type),
                                 !.unit = IF b.unit = <<>> THEN @ ELSE b.unit]
<1>2. PICK u : u = IF out = <<>> THEN t ELSE Update(t, out, value(Get(t, out)))
  OBVIOUS
<1>3. /\ KeepsSymbols(t, u)
      /\ \A i \in DOMAIN t.symbols : TableDefers(b, t.symbols[i], u.symbols[i])
  <2>1. CASE out = <<>>
    BY <1>2, <2>1, KeepsItself DEF TableDefers, Prevails
  <2>2. CASE out # <<>>
    <3>1. PICK s : s = Get(t, out)
      OBVIOUS
    <3>2. Has(t, out)
      BY <1>1, <2>2, Found
    <3>3. DOMAIN s = Fields /\ s.path = out
      BY <3>1, <3>2, GetFields
    <3>4. PICK n : n = value(s)
      OBVIOUS
    <3>5. /\ DOMAIN n = Fields /\ n.path = s.path /\ n.kind = s.kind /\ n.file = s.file
          /\ n.static = s.static /\ n.assoc = s.assoc
      BY <3>3, <3>4, FieldNames
    <3>6. u = Update(t, out, n)
      BY <1>2, <2>2, <3>1, <3>4
    <3>7. Rewrites(t, u, out) /\ Get(u, out) = n
      BY <3>2, <3>3, <3>5, <3>6, UpdateParts
    <3>8. Drives(b, s)
      BY <1>1, <2>2, <3>3, FoundAs DEF Drives
    <3>9. TableDefers(b, s, n)
      BY <3>5, <3>8 DEF TableDefers, Prevails
    <3>10. ASSUME NEW i \in DOMAIN t.symbols
           PROVE  TableDefers(b, t.symbols[i], u.symbols[i])
      <4>1. CASE i = t.byPath[out]
        BY <3>1, <3>7, <3>9, <4>1 DEF Get, Rewrites
      <4>2. CASE i # t.byPath[out]
        BY <3>7, <4>2 DEF Rewrites, TableDefers, Prevails
      <4> QED BY <4>1, <4>2
    <3>11. KeepsSymbols(t, u)
      BY <3>1, <3>2, <3>3, <3>5, <3>6, KeepsOnRewrite
    <3> QED BY <3>10, <3>11
  <2> QED BY <2>1, <2>2
<1>4. PICK v : v = IF whole = <<>> THEN u
                   ELSE Update(u, whole, [Get(u, whole) EXCEPT !.meta = b.axes])
  OBVIOUS
<1>5. v = ApplyTable(t, b)
  BY <1>1, <1>2, <1>4 DEF ApplyTable, TableOutput
<1>6. /\ KeepsSymbols(u, v)
      /\ \A i \in DOMAIN u.symbols :
           /\ Prevails(u.symbols[i], v.symbols[i])
           /\ v.symbols[i].unit = u.symbols[i].unit /\ v.symbols[i].vt = u.symbols[i].vt
           /\ v.symbols[i].static = u.symbols[i].static
           /\ v.symbols[i].assoc = u.symbols[i].assoc
  <2>1. Indexed(u)
    BY <1>3 DEF KeepsSymbols
  <2>2. CASE whole = <<>>
    BY <1>4, <2>1, <2>2, KeepsItself DEF Prevails
  <2>3. CASE whole # <<>>
    <3>1. PICK s : s = Get(u, whole)
      OBVIOUS
    <3>2. Has(u, whole)
      BY <1>1, <1>3, <2>3, Found DEF Has, KeepsSymbols
    <3>3. DOMAIN s = Fields /\ s.path = whole
      BY <2>1, <3>1, <3>2, GetFields
    <3>4. PICK n : n = [s EXCEPT !.meta = b.axes]
      OBVIOUS
    <3>5. /\ DOMAIN n = Fields /\ n.path = s.path /\ n.kind = s.kind /\ n.file = s.file
          /\ n.unit = s.unit /\ n.vt = s.vt /\ n.static = s.static /\ n.assoc = s.assoc
      BY <3>3, <3>4, FieldNames
    <3>6. v = Update(u, whole, n)
      BY <1>4, <2>3, <3>1, <3>4
    <3>7. Rewrites(u, v, whole) /\ Get(v, whole) = n
      BY <2>1, <3>2, <3>3, <3>5, <3>6, UpdateParts
    <3>8. ASSUME NEW i \in DOMAIN u.symbols
          PROVE  /\ Prevails(u.symbols[i], v.symbols[i])
                 /\ v.symbols[i].unit = u.symbols[i].unit /\ v.symbols[i].vt = u.symbols[i].vt
                 /\ v.symbols[i].static = u.symbols[i].static
                 /\ v.symbols[i].assoc = u.symbols[i].assoc
      <4>1. CASE i = u.byPath[whole]
        BY <3>1, <3>5, <3>7, <4>1 DEF Get, Rewrites, Prevails
      <4>2. CASE i # u.byPath[whole]
        BY <3>7, <4>2 DEF Rewrites, Prevails
      <4> QED BY <4>1, <4>2
    <3>9. KeepsSymbols(u, v)
      BY <2>1, <3>1, <3>2, <3>3, <3>5, <3>6, KeepsOnRewrite
    <3> QED BY <3>8, <3>9
  <2> QED BY <2>2, <2>3
<1>7. KeepsSymbols(t, v)
  BY <1>3, <1>6, KeepsTwice
<1>8. ASSUME NEW i \in DOMAIN t.symbols PROVE TableDefers(b, t.symbols[i], v.symbols[i])
  BY <1>3, <1>6 DEF KeepsSymbols, TableDefers, Prevails
<1> QED BY <1>5, <1>7, <1>8
-----------------------------------------------------------------------------
(* The indices are right at every step of the loaders.                     *)
IndexInv ==
  /\ input \in Documents
  /\ phase \in {"enums", "components", "parameters", "tables", "dbc", "loaded"}
  /\ at \in Nat \ {0}
  /\ Indexed(table)
  /\ phase = "enums" => table.symbols = <<>>
  /\ phase \in {"parameters", "tables"} => HasCfg

LEMMA DocumentParts ==
  ASSUME IndexInv
  PROVE  /\ input.components \in Seq(PrjComponent)
         /\ Len(input.components) \in Nat
         /\ DOMAIN input.components = 1..Len(input.components)
         /\ input.cfg.parameters \in Seq(CfgParameter)
         /\ \A i \in DOMAIN input.dbcs : input.dbcs[i].components \in Seq(PrjComponent)
BY DocumentsAssumption, LenProperties DEF IndexInv

LEMMA EmptyIsIndexed == Indexed(EmptyTable)
<1>1. Rows(EmptyTable, 0)
  BY DEF Rows, EmptyTable
<1> QED BY <1>1 DEF Indexed, EmptyTable, TableFields, Nothing

LEMMA EnumsApart ==
  ASSUME NEW t, Indexed(t), NEW e, NEW u, u = WithEnums(t, e)
  PROVE  /\ Indexed(u) /\ u.symbols = t.symbols /\ u.byPath = t.byPath /\ u.byFile = t.byFile
<1>1. DOMAIN t = TableFields
  BY DEF Indexed
<1>2. /\ u.symbols = t.symbols /\ u.byPath = t.byPath /\ u.byFile = t.byFile
      /\ DOMAIN u = TableFields
  BY <1>1, TableNames DEF WithEnums
<1> QED BY <1>2 DEF Indexed, Rows, Get

LEMMA SymbolParts ==
  ASSUME NEW t, NEW index, NEW c
  PROVE  LET s == SymbolOf(t, index, c)
         IN  DOMAIN s = Fields /\ s.path = c.path /\ s.kind = KindOf(c.class) /\ s.file = c.file
BY DEF SymbolOf, BlankSymbol, Fields

LEMMA IndexStep ==
  ASSUME IndexInv, [Next]_vars
  PROVE  IndexInv'
<1>1. CASE RegisterEnums
  <2>1. PICK e : table' = WithEnums(table, e)
    BY <1>1 DEF RegisterEnums
  <2>2. Indexed(table)'
    <3>1. PICK u : u = table' /\ u = WithEnums(table, e)
      BY <2>1
    <3>2. Indexed(u)
      BY <3>1, EnumsApart DEF IndexInv
    <3> QED BY <3>1, <3>2 DEF Indexed, Rows, Get
  <2> QED BY <1>1, <2>2 DEF RegisterEnums, Enter, IndexInv
<1>2. CASE PushComponent
  <2>1. PICK s, u : /\ s = SymbolOf(table, ProjectIndex(input.components), input.components[at])
                    /\ u = Push(table, s) /\ table' = u
    BY <1>2 DEF PushComponent
  <2>2. DOMAIN s = Fields
    BY <2>1, SymbolParts
  <2>3. Indexed(u)
    BY <2>1, <2>2, PushParts DEF IndexInv
  <2>4. Indexed(table)'
    BY <2>1, <2>3 DEF Indexed, Rows, Get
  <2> QED BY <1>2, <2>4 DEF PushComponent, IndexInv
<1>3. CASE ApplyParameter \/ ApplyTables
  <2>1. PICK u : /\ u = table'
                 /\ \/ u = ApplyCell(table, input.cfg.parameters[at])
                    \/ u = ApplyTable(table, input.cfg.tables[at])
    BY <1>3 DEF ApplyParameter, ApplyTables
  <2>2. Indexed(u)
    BY <2>1, CellParts, TableParts DEF IndexInv, KeepsSymbols
  <2>3. Indexed(table)'
    BY <2>1, <2>2 DEF Indexed, Rows, Get
  <2> QED BY <1>3, <2>3 DEF ApplyParameter, ApplyTables, IndexInv, HasCfg
<1>4. CASE AugmentDbc
  <2>1. PICK u : /\ u = table'
                 /\ \/ u = table
                    \/ u = Augmented(table, input.dbcs[at].components)
    BY <1>4 DEF AugmentDbc
  <2>2. Indexed(u)
    <3>1. CASE u = table
      BY <3>1 DEF IndexInv
    <3>2. CASE u = Augmented(table, input.dbcs[at].components)
      <4>1. input.dbcs[at].components \in Seq(PrjComponent)
        BY <1>4, DocumentParts DEF AugmentDbc, IndexInv
      <4> QED BY <3>2, <4>1, AugmentedGrows DEF IndexInv, Grown
    <3> QED BY <2>1, <3>1, <3>2
  <2>3. Indexed(table)'
    BY <2>1, <2>2 DEF Indexed, Rows, Get
  <2> QED BY <1>4, <2>3 DEF AugmentDbc, IndexInv
<1>5. CASE EndProject \/ EndParameters \/ EndConfig \/ EndDbcs \/ UNCHANGED vars
  <2>1. table' = table
    BY <1>5 DEF EndProject, EndParameters, EndConfig, EndDbcs, vars
  <2>2. Indexed(table)'
    BY <2>1 DEF IndexInv, Indexed, Rows, Get
  <2> QED BY <1>5, <2>2 DEF EndProject, EndParameters, EndConfig, EndDbcs, Enter, vars,
                            IndexInv, HasCfg
<1> QED BY <1>1, <1>2, <1>3, <1>4, <1>5 DEF Next

(* Every path of the table leads to a symbol of that path, through every   *)
(* loader (SymbolTable::push, the m1cfg and m1dbc loaders).                *)
THEOREM IndicesCorrect == Spec => []IndexInv
<1>1. Init => IndexInv
  <2> SUFFICES ASSUME Init PROVE IndexInv
    OBVIOUS
  <2>1. table = EmptyTable /\ table.symbols = <<>>
    BY DEF Init, EmptyTable
  <2> QED BY <2>1, EmptyIsIndexed DEF Init, IndexInv
<1> QED BY <1>1, IndexStep, PTL DEF Spec

(* No entry of a .m1cfg replaces a known value or an enum the .m1prj has,  *)
(* no cell a base unit, and a table the type and the unit of the channel   *)
(* it drives only, whatever the documents (symbols/m1cfg.rs augment).      *)
THEOREM ProjectDecides == Spec => ProjectPrevails
<1>1. IndexInv /\ [Next]_vars =>
        [\A i \in DOMAIN table.symbols :
           LET s == table.symbols[i]
               n == table'.symbols[i]
           IN  /\ ApplyParameter => CellDefers(input.cfg.parameters[at], s, n)
               /\ ApplyTables => TableDefers(input.cfg.tables[at], s, n)]_vars
  <2> SUFFICES ASSUME IndexInv, NEW i \in DOMAIN table.symbols
               PROVE  /\ ApplyParameter => CellDefers(input.cfg.parameters[at], table.symbols[i],
                                                      table'.symbols[i])
                      /\ ApplyTables => TableDefers(input.cfg.tables[at], table.symbols[i],
                                                    table'.symbols[i])
    OBVIOUS
  <2>1. ASSUME ApplyParameter
        PROVE  CellDefers(input.cfg.parameters[at], table.symbols[i], table'.symbols[i])
    <3>1. PICK u : u = table' /\ u = ApplyCell(table, input.cfg.parameters[at])
      BY <2>1 DEF ApplyParameter
    <3> QED BY <3>1, CellParts DEF IndexInv
  <2>2. ASSUME ApplyTables
        PROVE  TableDefers(input.cfg.tables[at], table.symbols[i], table'.symbols[i])
    <3>1. PICK u : u = table' /\ u = ApplyTable(table, input.cfg.tables[at])
      BY <2>2 DEF ApplyTables
    <3> QED BY <3>1, TableParts DEF IndexInv
  <2> QED BY <2>1, <2>2
<1> QED BY <1>1, IndicesCorrect, PTL DEF Spec, ProjectPrevails
-----------------------------------------------------------------------------
(* A name is unresolved when each way to resolve it fails.                 *)
Missed(t, path, scope) ==
  /\ ~(Len(path) = 1 /\ path[1] \in scope.locals)
  /\ ~IsAnchored(path)
  /\ ~LibraryName(path)
  /\ Hits(t, path, scope.group) = {}
  /\ ~PrefixResolves(t, path, scope.group)
  /\ IsMiss(t, path, scope.group)

LEMMA LibraryResolves ==
  ASSUME NEW path PROVE ~IsUnresolved(InLibrary(path))
BY DEF IsUnresolved, InLibrary, Resolution, Opaque

LEMMA AnchoredResolves ==
  ASSUME NEW t, NEW path, NEW scope PROVE ~IsUnresolved(Anchored(t, path, scope))
<1>1. \A p : ~IsUnresolved(SymbolOrOpaque(t, p))
  BY DEF IsUnresolved, SymbolOrOpaque, Resolution, Opaque
<1>2. ~IsUnresolved(Argument(t, path, scope))
  BY DEF IsUnresolved, Argument, Resolution, Opaque
<1>3. ~IsUnresolved(Opaque)
  BY DEF IsUnresolved, Resolution, Opaque
<1>4. \A p : ~IsUnresolved(InLibrary(p))
  BY LibraryResolves
<1> QED BY <1>1, <1>2, <1>3, <1>4 DEF Anchored

LEMMA UnresolvedParts ==
  ASSUME NEW t, NEW path, NEW scope
  PROVE  IsUnresolved(ResolveIn(t, path, scope)) <=> Missed(t, path, scope)
<1>1. IsUnresolved(Unresolved) /\ ~IsUnresolved(Opaque)
  BY DEF IsUnresolved, Resolution, Unresolved, Opaque
<1>2. \A p : ~IsUnresolved(Resolution("Local", p)) /\ ~IsUnresolved(Resolution("Symbol", p))
  BY DEF IsUnresolved, Resolution
<1>3. ~IsUnresolved(Anchored(t, path, scope)) /\ ~IsUnresolved(InLibrary(path))
  BY AnchoredResolves, LibraryResolves
<1> QED BY <1>1, <1>2, <1>3 DEF ResolveIn, Missed

(* What is loaded on top helps: no path is lost, no group is new, and the  *)
(* members of the enums are the same.                                      *)
Helps(t, u) ==
  /\ \A p : Has(t, p) => Has(u, p)
  /\ \A p : Has(u, p) /\ Get(u, p).kind = "Group" => Has(t, p) /\ Get(t, p).kind = "Group"
  /\ u.members = t.members

LEMMA KeptHelps ==
  ASSUME NEW t, NEW u, Indexed(t), KeepsSymbols(t, u) PROVE Helps(t, u)
BY DEF Helps, KeepsSymbols, Has, Get, Indexed

LEMMA GrownHelps ==
  ASSUME NEW t, NEW u, NEW components, Indexed(t), Grown(t, u, components) PROVE Helps(t, u)
<1>1. \A p : Has(t, p) => Has(u, p)
  BY DEF Grown, Has
<1>2. ASSUME NEW p, Has(u, p), Get(u, p).kind = "Group"
      PROVE  Has(t, p) /\ Get(t, p).kind = "Group"
  <2>1. u.byPath[p] \in DOMAIN u.symbols /\ u.symbols[u.byPath[p]].kind = "Group"
    BY <1>2 DEF Grown, Indexed, Has, Get
  <2>2. u.byPath[p] \in DOMAIN t.symbols
    BY <2>1 DEF Grown
  <2>3. p \in DOMAIN t.byPath /\ u.byPath[p] = t.byPath[p]
    BY <1>2, <2>2 DEF Grown, Has
  <2> QED BY <2>1, <2>2, <2>3 DEF Grown, Has, Get
<1> QED BY <1>1, <1>2 DEF Helps, Grown

LEMMA HelpResolves ==
  ASSUME NEW t, NEW u, Helps(t, u), NEW path, NEW scope, IsUnresolved(ResolveIn(u, path, scope))
  PROVE  IsUnresolved(ResolveIn(t, path, scope))
<1> DEFINE group == scope.group
<1>1. Missed(u, path, scope)
  BY UnresolvedParts
<1>2. \A p : Hits(t, p, group) \subseteq Hits(u, p, group)
  BY DEF Helps, Hits
<1>3. \A m : EnumsWithMember(u, m) = EnumsWithMember(t, m)
  BY DEF Helps, EnumsWithMember
<1>4. ASSUME NEW p, NEW accessor, Has(t, p), Exposes(t, p, accessor)
      PROVE  Exposes(u, p, accessor)
  BY <1>3, <1>4 DEF Exposes, Helps, HasChild
<1>5. PrefixResolves(t, path, group) => PrefixResolves(u, path, group)
  <2> SUFFICES ASSUME NEW n \in 1..Len(path) - 1,
                      NEW i \in Hits(t, SubSeq(path, 1, n), group),
                      Exposes(t, Candidates(SubSeq(path, 1, n), group)[i], path[n + 1])
               PROVE  PrefixResolves(u, path, group)
    BY DEF PrefixResolves
  <2>1. Has(t, Candidates(SubSeq(path, 1, n), group)[i])
    BY DEF Hits
  <2>2. Exposes(u, Candidates(SubSeq(path, 1, n), group)[i], path[n + 1])
    BY <1>4, <2>1
  <2>3. i \in Hits(u, SubSeq(path, 1, n), group)
    BY <1>2
  <2> QED BY <2>2, <2>3 DEF PrefixResolves
<1>6. IsMiss(u, path, group) => IsMiss(t, path, group)
  BY <1>3 DEF IsMiss, Helps
<1>7. Missed(t, path, scope)
  BY <1>1, <1>2, <1>5, <1>6 DEF Missed
<1> QED BY <1>7, UnresolvedParts

LEMMA HelpReports ==
  ASSUME NEW t, NEW u, Helps(t, u), NEW r, NEW scope
  PROVE  Unknowns(u, r, scope) \subseteq Unknowns(t, r, scope)
<1>1. Misses(u, r, scope) => Misses(t, r, scope)
  BY HelpResolves DEF Misses
<1> QED BY <1>1 DEF Unknowns

(* No .m1cfg and no DBC makes a reference unknown that was known before,   *)
(* whatever they hold (project.rs with_config, main.rs load_project).      *)
THEOREM LoadingHelps == Spec => LoadingOnlyResolves
<1>1. IndexInv /\ [Next]_vars =>
        [ApplyParameter \/ ApplyTables \/ AugmentDbc =>
           \A scope \in Scopes, r \in References :
             Unknowns(table', r, scope) \subseteq Unknowns(table, r, scope)]_vars
  <2> SUFFICES ASSUME IndexInv, ApplyParameter \/ ApplyTables \/ AugmentDbc
               PROVE  Helps(table, table')
    BY HelpReports
  <2>1. PICK u : u = table'
    OBVIOUS
  <2>2. Indexed(table)
    BY DEF IndexInv
  <2>3. CASE ApplyParameter
    BY <2>1, <2>2, <2>3, CellParts, KeptHelps DEF ApplyParameter
  <2>4. CASE ApplyTables
    <3>1. u = ApplyTable(table, input.cfg.tables[at])
      BY <2>1, <2>4 DEF ApplyTables
    <3>2. KeepsSymbols(table, u)
      BY <2>2, <3>1, TableParts
    <3> QED BY <2>1, <2>2, <3>2, KeptHelps
  <2>5. CASE AugmentDbc
    <3>1. CASE u = table
      BY <2>1, <3>1 DEF Helps
    <3>2. CASE u # table
      <4>1. u = Augmented(table, input.dbcs[at].components)
            /\ input.dbcs[at].components \in Seq(PrjComponent)
        BY <2>1, <2>5, <3>2, DocumentParts DEF AugmentDbc, IndexInv
      <4> QED BY <2>1, <2>2, <4>1, AugmentedGrows, GrownHelps
    <3> QED BY <3>1, <3>2
  <2> QED BY <2>3, <2>4, <2>5
<1> QED BY <1>1, IndicesCorrect, PTL DEF Spec, LoadingOnlyResolves
-----------------------------------------------------------------------------
(* The symbols of the project are its components in document order; what   *)
(* comes behind them is from a DBC.                                        *)
Count ==
  IF phase = "enums" THEN 0 ELSE IF phase = "components" THEN at - 1
  ELSE Len(input.components)

SourceInv ==
  /\ Count \in 0..Len(input.components)
  /\ 1..Count \subseteq DOMAIN table.symbols
  /\ \A i \in 1..Count :
       /\ table.symbols[i].path = input.components[i].path
       /\ table.symbols[i].kind = KindOf(input.components[i].class)
       /\ table.symbols[i].file = input.components[i].file
  /\ \A i \in DOMAIN table.symbols \ 1..Count :
       /\ phase \in {"dbc", "loaded"}
       /\ table.symbols[i].kind \in {"Channel", "Object"}
       /\ Shadowed(table.symbols[i].path)

LEMMA AllPushed ==
  ASSUME IndexInv, SourceInv, EndProject
  PROVE  at - 1 = Len(input.components)
<1>1. Len(input.components) \in Nat
  BY DocumentParts
<1>2. at \in Nat /\ at > Len(input.components) /\ at - 1 \in 0..Len(input.components)
  BY DEF EndProject, IndexInv, SourceInv, Count
<1> QED BY <1>1, <1>2

LEMMA SourceKept ==
  ASSUME SourceInv, NEW u, u = table', KeepsSymbols(table, u), input' = input, Count' = Count,
         phase' = phase \/ phase' \in {"dbc", "loaded"}
  PROVE  SourceInv'
BY DEF SourceInv, KeepsSymbols, Shadowed

LEMMA SourceStep ==
  ASSUME IndexInv, SourceInv, [Next]_vars
  PROVE  SourceInv'
<1>1. CASE RegisterEnums
  <2>1. PICK e : table' = WithEnums(table, e)
    BY <1>1 DEF RegisterEnums
  <2>2. table'.symbols = table.symbols /\ table.symbols = <<>>
    BY <1>1, <2>1, EnumsApart DEF IndexInv, RegisterEnums
  <2>3. input' = input /\ Count' = 0 /\ Len(input.components) \in Nat
    BY <1>1, DocumentParts DEF RegisterEnums, Enter, Count
  <2>4. DOMAIN table'.symbols = {} /\ 1..0 = {} /\ 0 \in 0..Len(input.components)
    BY <2>2, <2>3
  <2> QED BY <2>3, <2>4 DEF SourceInv
<1>2. CASE PushComponent
  <2>1. PICK s, u : /\ s = SymbolOf(table, ProjectIndex(input.components), input.components[at])
                    /\ u = Push(table, s) /\ table' = u
    BY <1>2 DEF PushComponent
  <2>2. /\ DOMAIN s = Fields /\ s.path = input.components[at].path
        /\ s.kind = KindOf(input.components[at].class) /\ s.file = input.components[at].file
    BY <2>1, SymbolParts
  <2>3. PICK n \in Nat :
          /\ DOMAIN table.symbols = 1..n
          /\ DOMAIN u.symbols = 1..(n + 1) /\ u.symbols[n + 1] = s
          /\ \A i \in 1..n : u.symbols[i] = table.symbols[i]
    BY <2>1, <2>2, PushParts DEF IndexInv
  <2>4. /\ input' = input /\ Count = at - 1 /\ Count' = at /\ at \in Nat \ {0}
        /\ at <= Len(input.components) /\ Len(input.components) \in Nat
    BY <1>2, DocumentParts DEF PushComponent, IndexInv, Count
  <2>5. n = at - 1
    <3>1. 1..(at - 1) \subseteq 1..n /\ 1..n \subseteq 1..(at - 1)
      BY <1>2, <2>3, <2>4 DEF SourceInv, PushComponent
    <3>2. CASE n < at - 1
      BY <2>4, <3>1, <3>2
    <3>3. CASE at - 1 < n
      BY <2>4, <3>1, <3>3
    <3> QED BY <2>4, <3>2, <3>3
  <2>6. \A i \in 1..at : i \in 1..n \/ i = at
    BY <2>4, <2>5
  <2>7. ASSUME NEW i \in 1..at
        PROVE  /\ u.symbols[i].path = input.components[i].path
               /\ u.symbols[i].kind = KindOf(input.components[i].class)
               /\ u.symbols[i].file = input.components[i].file
    <3>1. CASE i = at
      BY <2>2, <2>3, <2>4, <2>5, <3>1
    <3>2. CASE i \in 1..n
      BY <2>3, <2>4, <2>5, <3>2 DEF SourceInv
    <3> QED BY <2>6, <3>1, <3>2
  <2>8. DOMAIN u.symbols = 1..at /\ at \in 0..Len(input.components)
    BY <2>3, <2>4, <2>5
  <2> QED BY <2>1, <2>4, <2>7, <2>8 DEF SourceInv
<1>3. CASE ApplyParameter \/ ApplyTables
  <2>1. PICK u : /\ u = table'
                 /\ \/ u = ApplyCell(table, input.cfg.parameters[at])
                    \/ u = ApplyTable(table, input.cfg.tables[at])
    BY <1>3 DEF ApplyParameter, ApplyTables
  <2>2. KeepsSymbols(table, u)
    BY <2>1, CellParts, TableParts DEF IndexInv
  <2>3. input' = input /\ Count' = Count /\ phase' = phase
    BY <1>3 DEF ApplyParameter, ApplyTables, Count
  <2> QED BY <2>1, <2>2, <2>3, SourceKept
<1>4. CASE AugmentDbc
  <2>1. input' = input /\ Count' = Count /\ phase' = phase /\ phase = "dbc"
    BY <1>4 DEF AugmentDbc, Count
  <2>2. PICK u : u = table'
    OBVIOUS
  <2>3. CASE u = table
    BY <2>1, <2>2, <2>3, SourceKept, KeepsItself DEF IndexInv
  <2>4. CASE u # table
    <3>2. PICK components : /\ components = input.dbcs[at].components
                            /\ u = Augmented(table, components)
      BY <1>4, <2>2, <2>4 DEF AugmentDbc
    <3>3. at \in DOMAIN input.dbcs /\ components \in Seq(PrjComponent)
      BY <1>4, <3>2, DocumentParts DEF AugmentDbc, IndexInv
    <3>4. Grown(table, u, components)
      BY <3>2, <3>3, AugmentedGrows DEF IndexInv
    <3>5. \A i \in 1..Count : i \in DOMAIN u.symbols /\ u.symbols[i] = table.symbols[i]
      BY <3>4 DEF Grown, SourceInv
    <3>6. ASSUME NEW i \in DOMAIN u.symbols \ 1..Count
          PROVE  u.symbols[i].kind \in {"Channel", "Object"} /\ Shadowed(u.symbols[i].path)
      <4>1. CASE i \in DOMAIN table.symbols
        BY <3>4, <3>6, <4>1 DEF Grown, SourceInv
      <4>2. CASE i \notin DOMAIN table.symbols
        BY <3>2, <3>3, <3>4, <3>6, <4>2 DEF Grown, Shadowed
      <4> QED BY <4>1, <4>2
    <3>7. \A p : Shadowed(p)' <=> Shadowed(p)
      BY <2>1 DEF Shadowed
    <3> QED BY <2>1, <2>2, <3>5, <3>6, <3>7 DEF SourceInv
  <2> QED BY <2>3, <2>4
<1>5. CASE EndProject \/ EndParameters \/ EndConfig \/ EndDbcs \/ UNCHANGED vars
  <2>1. input' = input /\ table' = table
    BY <1>5 DEF EndProject, EndParameters, EndConfig, EndDbcs, vars
  <2>2. Count' = Count /\ (phase' = phase \/ phase \notin {"dbc", "loaded"} \/ phase' = "loaded")
    <3>1. CASE EndProject
      <4>1. at - 1 = Len(input.components)
        BY <3>1, AllPushed
      <4> QED BY <2>1, <3>1, <4>1 DEF EndProject, Enter, Count
    <3>2. CASE EndParameters \/ EndConfig \/ EndDbcs \/ UNCHANGED vars
      BY <2>1, <3>2 DEF EndParameters, EndConfig, EndDbcs, Enter, Count, vars
    <3> QED BY <1>5, <3>1, <3>2
  <2>3. \A p : Shadowed(p)' <=> Shadowed(p)
    BY <2>1 DEF Shadowed
  <2> QED BY <2>1, <2>2, <2>3 DEF SourceInv
<1> QED BY <1>1, <1>2, <1>3, <1>4, <1>5 DEF Next

THEOREM SourcesKept == Spec => [](IndexInv /\ SourceInv)
<1>1. Init => SourceInv
  <2> SUFFICES ASSUME Init PROVE SourceInv
    OBVIOUS
  <2>1. table.symbols = <<>> /\ Count = 0
    BY DEF Init, EmptyTable, Count
  <2>2. Len(input.components) \in Nat
    BY LenProperties, DocumentsAssumption DEF Init
  <2> QED BY <2>1, <2>2 DEF SourceInv
<1> QED BY <1>1, SourceStep, IndicesCorrect, PTL DEF Spec
-----------------------------------------------------------------------------
(* Where all names stand under Root, qualifying a name and looking it up   *)
(* lead to the same parameter.                                             *)
LEMMA QualifiedIsFound ==
  ASSUME NEW t, \A p : Has(t, p) => Rooted(p), NEW path, Has(t, path), NEW name
  PROVE  Qualify(name) = path <=> ResolvePath(t, name) = path
<1>1. Rooted(path) /\ path # <<>>
  BY DEF Rooted
<1>2. CASE Has(t, name)
  <2>1. ResolvePath(t, name) = name
    BY <1>2 DEF ResolvePath
  <2>2. Qualify(name) = name
    BY <1>2 DEF Qualify
  <2> QED BY <2>1, <2>2
<1>3. CASE ~Has(t, name) /\ Has(t, Qualify(name))
  BY <1>3 DEF ResolvePath
<1>4. CASE ~Has(t, name) /\ ~Has(t, Qualify(name))
  <2>1. ResolvePath(t, name) = <<>>
    BY <1>4 DEF ResolvePath
  <2> QED BY <1>1, <1>4, <2>1
<1> QED BY <1>2, <1>3, <1>4

LEMMA ConfigJudged ==
  ASSUME IndexInv, SourceInv, EndConfig, OneTree,
         NEW s \in Range(table.symbols), s.kind = "Parameter"
  PROVE  s \in MissingParameters' <=> ~IsTouched(s)
<1>1. /\ phase = "tables" /\ HasCfg /\ input' = input /\ table' = table
      /\ cfgParams' = {Qualify(p.name) : p \in Range(input.cfg.parameters)}
  BY DEF EndConfig, IndexInv
<1>2. \A p : Has(table, p) => Rooted(p)
  BY <1>1 DEF Has, Indexed, IndexInv, Get, SourceInv, OneTree, Count
<1>3. Has(table, s.path)
  BY DEF Range, IndexInv, Indexed, Has
<1>4. s \in MissingParameters' <=> s.path \notin cfgParams'
  BY <1>1 DEF MissingParameters, HasCfg
<1>5. \A p : Qualify(p.name) = s.path <=> ResolvePath(table, p.name) = s.path
  BY <1>2, <1>3, QualifiedIsFound
<1> QED BY <1>1, <1>4, <1>5 DEF IsTouched

LEMMA DbcAddsNoParameter ==
  ASSUME IndexInv, AugmentDbc
  PROVE  MissingParameters' = MissingParameters
<1>1. input' = input /\ cfgParams' = cfgParams
  BY DEF AugmentDbc
<1>2. CASE table' = table
  BY <1>1, <1>2 DEF MissingParameters, HasCfg
<1>3. CASE table' # table
  <2>1. PICK u, components : /\ u = table' /\ components = input.dbcs[at].components
                             /\ u = Augmented(table, components)
    BY <1>3 DEF AugmentDbc
  <2>2. components \in Seq(PrjComponent)
    BY <2>1, DocumentParts DEF AugmentDbc, IndexInv
  <2>3. Grown(table, u, components)
    BY <2>1, <2>2, AugmentedGrows DEF IndexInv
  <2>4. {s \in Range(u.symbols) : s.kind = "Parameter"}
          = {s \in Range(table.symbols) : s.kind = "Parameter"}
    BY <2>3 DEF Grown, Range
  <2>5. \A s : s.kind = "Parameter" => (s \in Range(u.symbols) <=> s \in Range(table.symbols))
    BY <2>4
  <2> QED BY <1>1, <2>1, <2>5 DEF MissingParameters, HasCfg
<1> QED BY <1>2, <1>3

(* T041 names the parameters that no entry of the .m1cfg reached, and no   *)
(* others (project.rs missing_cfg_parameters against m1cfg.rs              *)
(* resolve_path), and no DBC changes that.                                 *)
THEOREM MissingCorrect == Spec => MissingIsUntouched
<1>1. IndexInv /\ SourceInv /\ [Next]_vars =>
        [/\ EndConfig /\ OneTree =>
              \A s \in Range(table.symbols) :
                s.kind = "Parameter" => (s \in MissingParameters' <=> ~IsTouched(s))
         /\ AugmentDbc => MissingParameters' = MissingParameters]_vars
  BY ConfigJudged, DbcAddsNoParameter
<1> QED BY <1>1, SourcesKept, PTL DEF Spec, MissingIsUntouched
-----------------------------------------------------------------------------
(* The two indices of the scripts, after the first components.             *)
Component(i) == input.components[i]
IsScript(c)  == IsFunction(KindOf(c.class))

FileInv ==
  /\ \A f \in DOMAIN table.byFile :
       /\ f # <<>> /\ table.byFile[f] \in 1..Count
       /\ IsScript(Component(table.byFile[f])) /\ Component(table.byFile[f]).file = f
  /\ \A i \in 1..Count :
       IsScript(Component(i)) /\ Component(i).file # <<>> => Component(i).file \in DOMAIN table.byFile

GroupInv ==
  /\ \A f \in DOMAIN fileGroup : \E i \in 1..Count :
       /\ IsScript(Component(i)) /\ Len(Component(i).path) > 1
       /\ ScriptKey(Component(i)) = f /\ fileGroup[f] = Front(Component(i).path)
  /\ \A i \in 1..Count :
       IsScript(Component(i)) /\ Len(Component(i).path) > 1
         => ScriptKey(Component(i)) \in DOMAIN fileGroup

LEMMA OneMore ==
  ASSUME IndexInv, PushComponent
  PROVE  /\ Count \in Nat /\ at = Count + 1 /\ Count' = at /\ input' = input
         /\ at \in 1..at /\ 1..Count \subseteq 1..at
         /\ \A i \in 1..at : i = at \/ i \in 1..Count
<1>1. Count = at - 1 /\ Count' = at /\ input' = input /\ at \in Nat \ {0}
  BY DEF PushComponent, IndexInv, Count
<1> QED BY <1>1

LEMMA FileStep ==
  ASSUME IndexInv, SourceInv, FileInv, [Next]_vars
  PROVE  FileInv'
<1>1. ASSUME UNCHANGED input, Count' = Count, table'.byFile = table.byFile
      PROVE  FileInv'
  BY <1>1 DEF FileInv, Component
<1>2. CASE RegisterEnums
  <2>1. PICK e : table' = WithEnums(table, e)
    BY <1>2 DEF RegisterEnums
  <2>2. table'.byFile = table.byFile
    BY <2>1, EnumsApart DEF IndexInv
  <2> QED BY <1>1, <1>2, <2>2 DEF RegisterEnums, Enter, Count
<1>3. CASE PushComponent
  <2>1. PICK s, u : /\ s = SymbolOf(table, ProjectIndex(input.components), Component(at))
                    /\ u = Push(table, s) /\ table' = u
    BY <1>3 DEF PushComponent, Component
  <2>2. /\ DOMAIN s = Fields /\ s.file = Component(at).file
        /\ IsFunction(s.kind) <=> IsScript(Component(at))
    BY <2>1, SymbolParts DEF IsScript
  <2>3. PICK n \in Nat :
          /\ DOMAIN table.symbols = 1..n
          /\ u.byFile = IF IsFunction(s.kind) /\ s.file # <<>> /\ s.file \notin DOMAIN table.byFile
                        THEN With(table.byFile, s.file, n + 1) ELSE table.byFile
    BY <2>1, <2>2, PushParts DEF IndexInv
  <2>4. /\ Count \in Nat /\ at = Count + 1 /\ Count' = at /\ input' = input
        /\ at \in 1..at /\ 1..Count \subseteq 1..at
        /\ \A i \in 1..at : i = at \/ i \in 1..Count
    BY <1>3, OneMore
  <2>5. n + 1 = at
    <3>1. 1..Count \subseteq 1..n /\ 1..n \subseteq 1..Count
      BY <1>3, <2>3 DEF SourceInv, PushComponent
    <3>2. CASE n < Count
      BY <2>4, <3>1, <3>2
    <3>3. CASE Count < n
      BY <2>4, <3>1, <3>3
    <3> QED BY <2>4, <3>2, <3>3
  <2>6. \A i : Component(i)' = Component(i)
    BY <2>4 DEF Component
  <2>7. \A f \in DOMAIN u.byFile : \/ f \in DOMAIN table.byFile /\ u.byFile[f] = table.byFile[f]
                                   \/ /\ f = s.file /\ u.byFile[f] = at /\ f # <<>>
                                      /\ IsScript(Component(at))
    BY <2>2, <2>3, <2>5 DEF With
  <2>8. /\ DOMAIN table.byFile \subseteq DOMAIN u.byFile
        /\ IsScript(Component(at)) /\ Component(at).file # <<>>
             => Component(at).file \in DOMAIN u.byFile
    BY <2>2, <2>3 DEF With
  <2>9. ASSUME NEW f \in DOMAIN u.byFile
        PROVE  /\ f # <<>> /\ u.byFile[f] \in 1..at
               /\ IsScript(Component(u.byFile[f])) /\ Component(u.byFile[f]).file = f
    BY <2>2, <2>4, <2>7 DEF FileInv
  <2>10. ASSUME NEW i \in 1..at, IsScript(Component(i)), Component(i).file # <<>>
         PROVE  Component(i).file \in DOMAIN u.byFile
    BY <2>4, <2>8, <2>10 DEF FileInv
  <2> QED BY <2>1, <2>4, <2>6, <2>9, <2>10 DEF FileInv
<1>4. CASE ApplyParameter \/ ApplyTables
  <2>1. PICK u : /\ u = table'
                 /\ \/ u = ApplyCell(table, input.cfg.parameters[at])
                    \/ u = ApplyTable(table, input.cfg.tables[at])
    BY <1>4 DEF ApplyParameter, ApplyTables
  <2>2. u.byFile = table.byFile
    BY <2>1, CellParts, TableParts DEF IndexInv, KeepsSymbols
  <2> QED BY <1>1, <1>4, <2>1, <2>2 DEF ApplyParameter, ApplyTables, Count
<1>5. CASE AugmentDbc
  <2>1. table'.byFile = table.byFile
    <3>1. PICK u : u = table' /\ (u = table \/ u = Augmented(table, input.dbcs[at].components))
      BY <1>5 DEF AugmentDbc
    <3>2. input.dbcs[at].components \in Seq(PrjComponent)
      BY <1>5, DocumentParts DEF AugmentDbc, IndexInv
    <3>3. u.byFile = table.byFile
      BY <3>1, <3>2, AugmentedGrows DEF IndexInv, Grown
    <3> QED BY <3>1, <3>3
  <2> QED BY <1>1, <1>5, <2>1 DEF AugmentDbc, Count
<1>6. CASE EndProject
  <2>1. at - 1 = Len(input.components)
    BY <1>6, AllPushed
  <2> QED BY <1>1, <1>6, <2>1 DEF EndProject, Enter, Count
<1>7. CASE EndParameters \/ EndConfig \/ EndDbcs \/ UNCHANGED vars
  BY <1>1, <1>7 DEF EndParameters, EndConfig, EndDbcs, Enter, Count, vars
<1> QED BY <1>2, <1>3, <1>4, <1>5, <1>6, <1>7 DEF Next

LEMMA GroupStep ==
  ASSUME IndexInv, SourceInv, GroupInv, [Next]_vars
  PROVE  GroupInv'
<1>1. ASSUME UNCHANGED <<input, fileGroup>>, Count' = Count
      PROVE  GroupInv'
  BY <1>1 DEF GroupInv, Component
<1>2. CASE PushComponent
  <2>1. /\ Count \in Nat /\ at = Count + 1 /\ Count' = at /\ input' = input
        /\ at \in 1..at /\ 1..Count \subseteq 1..at
        /\ \A i \in 1..at : i = at \/ i \in 1..Count
    BY <1>2, OneMore
  <2>2. PICK g : g = fileGroup' /\ g = AnchorScript(fileGroup, Component(at))
    BY <1>2 DEF PushComponent, Component
  <2>3. \A i : Component(i)' = Component(i)
    BY <2>1 DEF Component
  <2>4. /\ DOMAIN fileGroup \subseteq DOMAIN g
        /\ IsScript(Component(at)) /\ Len(Component(at).path) > 1
             => ScriptKey(Component(at)) \in DOMAIN g
        /\ \A f \in DOMAIN g :
             \/ f \in DOMAIN fileGroup /\ g[f] = fileGroup[f]
             \/ /\ IsScript(Component(at)) /\ Len(Component(at).path) > 1
                /\ ScriptKey(Component(at)) = f /\ g[f] = Front(Component(at).path)
    BY <2>2 DEF AnchorScript, With, IsScript
  <2>5. ASSUME NEW f \in DOMAIN g
        PROVE  \E i \in 1..at :
                 /\ IsScript(Component(i)) /\ Len(Component(i).path) > 1
                 /\ ScriptKey(Component(i)) = f /\ g[f] = Front(Component(i).path)
    BY <2>1, <2>4 DEF GroupInv
  <2>6. ASSUME NEW i \in 1..at, IsScript(Component(i)), Len(Component(i).path) > 1
        PROVE  ScriptKey(Component(i)) \in DOMAIN g
    BY <2>1, <2>4, <2>6 DEF GroupInv
  <2> QED BY <2>1, <2>2, <2>3, <2>5, <2>6 DEF GroupInv
<1>3. CASE EndProject
  <2>1. at - 1 = Len(input.components)
    BY <1>3, AllPushed
  <2> QED BY <1>1, <1>3, <2>1 DEF EndProject, Enter, Count
<1>4. CASE \/ RegisterEnums \/ ApplyParameter \/ ApplyTables \/ AugmentDbc
           \/ EndParameters \/ EndConfig \/ EndDbcs \/ UNCHANGED vars
  BY <1>1, <1>4 DEF RegisterEnums, ApplyParameter, ApplyTables, AugmentDbc,
                    EndParameters, EndConfig, EndDbcs, Enter, Count, vars
<1> QED BY <1>2, <1>3, <1>4 DEF Next

LEMMA RootAndTail ==
  ASSUME NEW path \in Seq(Name), Rooted(path)
  PROVE  <<"Root">> \o Tail(path) = path
<1>1. path # <<>> /\ path[1] = "Root" /\ <<"Root">> \in Seq(Name)
  BY DEF Rooted, Name
<1>2. /\ Tail(path) \in Seq(Name) /\ Len(Tail(path)) = Len(path) - 1
      /\ \A i \in 1..Len(Tail(path)) : Tail(path)[i] = path[i + 1]
  BY <1>1, HeadTailProperties
<1>3. PICK p, n : p = <<"Root">> \o Tail(path) /\ n = Len(path) /\ n \in Nat
  BY LenProperties
<1>4. n > 0
  BY <1>1, <1>3, EmptySeq, LenProperties
<1>5. /\ p \in Seq(Name) /\ Len(p) = n
      /\ \A i \in 1..n : p[i] = IF i <= 1 THEN "Root" ELSE Tail(path)[i - 1]
  <2>1. Len(<<"Root">>) = 1 /\ <<"Root">>[1] = "Root"
    OBVIOUS
  <2> QED BY <1>1, <1>2, <1>3, <2>1, ConcatProperties
<1>6. \A i \in 1..n : p[i] = path[i]
  BY <1>1, <1>2, <1>3, <1>4, <1>5
<1> QED BY <1>3, <1>5, <1>6, SeqEqual

(* group_for_script and function_symbol_for_script agree on the script of  *)
(* a function that alone claims it, whatever else the project holds and in *)
(* whatever order (m1prj/component.rs, symbols/mod.rs push).               *)
THEOREM ScriptsAgree == Spec => []ScriptsAnchored
<1>1. Init => FileInv /\ GroupInv
  BY DEF Init, FileInv, GroupInv, EmptyTable, Nothing, Count
<1>2. IndexInv /\ SourceInv /\ FileInv /\ GroupInv => ScriptsAnchored
  <2> SUFFICES ASSUME IndexInv, SourceInv, FileInv, GroupInv, Loaded, Unique(input.components),
                      NEW i \in DOMAIN input.components,
                      NEW c, c = Component(i), NEW file, file = ScriptKey(c),
                      {j \in DOMAIN input.components : Claims(Component(j), file)} = {i},
                      Rooted(c.path), Len(c.path) > 1, ~Shadowed(c.path)
               PROVE  FunctionForScript(file) = c.path /\ GroupForScript(file) = Front(c.path)
    BY DEF ScriptsAnchored, Component
  <2>1. /\ Count = Len(input.components) /\ DOMAIN input.components = 1..Count /\ i \in 1..Count
        /\ c \in PrjComponent /\ c.path \in Seq(Name)
    <3>1. Count = Len(input.components) /\ DOMAIN input.components = 1..Count /\ i \in 1..Count
      BY DocumentParts DEF Loaded, Count
    <3>2. input.components \in Seq(PrjComponent) /\ i \in 1..Len(input.components)
      BY <3>1, DocumentParts
    <3>3. c \in PrjComponent
      BY <3>2, ElementOfSeq DEF Component
    <3>4. c.path \in Seq(Name)
      BY <3>3 DEF PrjComponent, Path
    <3> QED BY <3>1, <3>3, <3>4
  <2>2. IsScript(c) /\ \A j \in 1..Count : Claims(Component(j), file) => j = i
    BY <2>1 DEF Claims, IsScript, Component
  <2>3. \A j \in 1..Count : IsScript(Component(j)) /\ ScriptKey(Component(j)) = file => j = i
    BY <2>2 DEF Claims, IsScript
  <2>4. /\ \A k \in 1..Count : k \in DOMAIN table.symbols
        /\ \A k \in 1..Count : table.symbols[k].path = Component(k).path
        /\ \A k \in 1..Count : table.symbols[k].kind = KindOf(Component(k).class)
    BY DEF SourceInv, Component
  <2>5. FunctionForScript(file) = c.path
    <3>1. CASE file \in DOMAIN table.byFile
      <4>1. PICK k : k = table.byFile[file]
        OBVIOUS
      <4>2. k \in 1..Count /\ IsScript(Component(k)) /\ ScriptKey(Component(k)) = file
        BY <3>1, <4>1 DEF FileInv, ScriptKey
      <4>3. k = i
        BY <2>3, <4>2
      <4> QED BY <2>1, <2>4, <3>1, <4>1, <4>3 DEF FunctionForScript
    <3>2. CASE file \notin DOMAIN table.byFile
      <4>1. c.file = <<>>
        BY <2>1, <2>2, <3>2 DEF FileInv, ScriptKey
      <4>2. file = Tail(c.path) /\ <<"Root">> \o file = c.path
        BY <2>1, <4>1, RootAndTail DEF ScriptKey
      <4>3. Has(table, c.path)
        BY <2>1, <2>4 DEF IndexInv, Indexed, Has
      <4>4. PICK k : k = table.byPath[c.path] /\ k \in DOMAIN table.symbols
                     /\ table.symbols[k].path = c.path
        BY <4>3 DEF IndexInv, Indexed, Has, Get
      <4>5. k \in 1..Count
        BY <4>4 DEF SourceInv
      <4>6. k = i
        BY <2>1, <2>4, <4>4, <4>5 DEF Unique, Component
      <4>7. IsFunction(Get(table, c.path).kind)
        BY <2>1, <2>2, <2>4, <4>4, <4>6 DEF Get, IsScript
      <4> QED BY <3>2, <4>2, <4>3, <4>7 DEF FunctionForScript
    <3> QED BY <3>1, <3>2
  <2>6. GroupForScript(file) = Front(c.path)
    <3>1. file \in DOMAIN fileGroup
      BY <2>1, <2>2 DEF GroupInv
    <3>2. PICK k \in 1..Count : /\ IsScript(Component(k)) /\ ScriptKey(Component(k)) = file
                                /\ fileGroup[file] = Front(Component(k).path)
      BY <3>1 DEF GroupInv
    <3>3. k = i
      BY <2>3, <3>2
    <3> QED BY <3>1, <3>2, <3>3 DEF GroupForScript
  <2> QED BY <2>5, <2>6
<1>3. IndexInv /\ SourceInv /\ FileInv /\ GroupInv /\ [Next]_vars => FileInv' /\ GroupInv'
  BY FileStep, GroupStep
<1> QED BY <1>1, <1>2, <1>3, SourcesKept, PTL DEF Spec

-----------------------------------------------------------------------------
(* Names up to case.                                                       *)
LEMMA SameNameBack == ASSUME NEW a, NEW b, SameName(a, b) PROVE SameName(b, a)
<1>1. {a, b} = {b, a}
  OBVIOUS
<1> QED BY <1>1 DEF SameName

LEMMA SameNameThrough ==
  ASSUME NEW a, NEW b, NEW c, SameName(a, b), SameName(b, c)
  PROVE  SameName(a, c)
<1>1. CASE a = b \/ b = c
  BY <1>1 DEF SameName
<1>2. CASE {a, b} \in CaseVariants /\ {b, c} \in CaseVariants
  <2>1. {a, b} \intersect {b, c} # {} /\ a \in {a, b} /\ c \in {b, c}
    OBVIOUS
  <2> QED BY <1>2, <2>1, CaseAssumption DEF SameName
<1> QED BY <1>1, <1>2 DEF SameName

(* What a table answers for the name of an enum.                           *)
Enums(t, n) ==
  /\ n \in Nat /\ t.enums = [i \in 1..n |-> t.enums[i]]

Near(t, n, name) == {i \in 1..n : SameName(t.enums[i].name, name)}

LEMMA Lookup ==
  ASSUME NEW t, NEW n, Enums(t, n), NEW name, NEW id, id = EnumByName(t, name)
  PROVE  /\ id # 0 => id \in 1..n /\ SameName(t.enums[id].name, name)
         /\ (\E i \in 1..n : t.enums[i].name = name) => id # 0 /\ t.enums[id].name = name
         /\ id # 0 <=> \/ \E i \in 1..n : t.enums[i].name = name
                       \/ \E i \in 1..n : Near(t, n, name) = {i}
<1> DEFINE exact == {i \in DOMAIN t.enums : t.enums[i].name = name}
           near == {i \in DOMAIN t.enums : SameName(t.enums[i].name, name)}
<1>1. n \in Nat /\ DOMAIN t.enums = 1..n
  BY DEF Enums
<1>2. near = Near(t, n, name)
  BY <1>1 DEF Near
<1>3. CASE exact # {}
  <2>1. id = Min(exact)
    BY <1>3 DEF EnumByName
  <2>2. exact \subseteq Nat
    BY <1>1
  <2>3. PICK x \in exact : \A y \in exact : x <= y
    <3> HIDE DEF exact
    <3> QED BY <1>3, <2>2, Least
  <2>4. Min(exact) \in exact
    <3> HIDE DEF exact
    <3> QED BY <2>3 DEF Min
  <2>5. id \in 1..n /\ t.enums[id].name = name /\ id # 0
    BY <1>1, <2>1, <2>4
  <2> QED BY <2>5 DEF SameName
<1>4. CASE exact = {}
  <2>1. IsFiniteSet(near)
    <3>1. IsFiniteSet(1..n)
      BY <1>1, FS_Interval
    <3> QED BY <1>1, <3>1, FS_Subset
  <2>2. Cardinality(near) = 1 <=> \E i : near = {i}
    <3> HIDE DEF near
    <3> QED BY <2>1, FS_Singleton
  <2>3. ~\E i \in 1..n : t.enums[i].name = name
    BY <1>1, <1>4
  <2>4. CASE Cardinality(near) = 1
    <3>1. PICK i : near = {i}
      BY <2>2, <2>4
    <3>2. i \in near
      <4> HIDE DEF near
      <4> QED BY <3>1
    <3>3. id = CHOOSE j \in near : TRUE
      BY <1>4, <2>4 DEF EnumByName
    <3>4. id = i
      <4> HIDE DEF near
      <4> QED BY <3>1, <3>3
    <3>5. i \in 1..n /\ SameName(t.enums[i].name, name) /\ i # 0
      BY <1>1, <3>2
    <3> HIDE DEF near
    <3> QED BY <1>2, <2>3, <3>1, <3>4, <3>5
  <2>5. CASE Cardinality(near) # 1
    <3>1. id = 0
      BY <1>4, <2>5 DEF EnumByName
    <3>2. ~\E i : near = {i}
      BY <2>2, <2>5
    <3> HIDE DEF near
    <3> QED BY <1>2, <2>3, <3>1, <3>2
  <2> QED BY <2>4, <2>5
<1> QED BY <1>3, <1>4

LEMMA LookupSilent ==
  ASSUME NEW t, NEW n, Enums(t, n), NEW name, EnumByName(t, name) = 0,
         NEW i \in 1..n, SameName(t.enums[i].name, name)
  PROVE  /\ t.enums[i].name # name
         /\ \E j \in 1..n : j # i /\ SameName(t.enums[j].name, name)
<1>1. ~\E k \in 1..n : t.enums[k].name = name
  BY Lookup
<1>2. Near(t, n, name) # {i}
  BY Lookup
<1>3. i \in Near(t, n, name)
  BY DEF Near
<1>4. PICK j \in Near(t, n, name) : j # i
  BY <1>2, <1>3
<1> QED BY <1>1, <1>4 DEF Near

(* What the firmware types of a document add to the enums known before: a  *)
(* table of these names extends them when what is new was asked for and    *)
(* not found, everything asked for is found, and two new enums differ only *)
(* by case where two of the known ones do already.                         *)
Crowded(t, n, name) ==
  \E i, j \in 1..n : i # j /\ SameName(t.enums[i].name, name) /\ SameName(t.enums[j].name, name)

Extends(t, m, u, n, names) ==
  /\ Enums(t, m) /\ Enums(u, n) /\ m <= n
  /\ \A i \in 1..m : u.enums[i] = t.enums[i]
  /\ \A i \in m + 1..n :
       u.enums[i].name \in names /\ EnumByName(t, u.enums[i].name) = 0
  /\ \A name \in names : EnumByName(u, name) # 0
  /\ \A i, j \in m + 1..n :
       i # j /\ SameName(u.enums[i].name, u.enums[j].name) => Crowded(t, m, u.enums[i].name)

LEMMA CrowdedSame ==
  ASSUME NEW t, NEW n, NEW a, NEW b, SameName(a, b), Crowded(t, n, a)
  PROVE  Crowded(t, n, b)
BY SameNameThrough DEF Crowded

(* A new enum has no known one of its name, or several up to case.         *)
LEMMA NewOrCrowded ==
  ASSUME NEW t, NEW m, NEW u, NEW n, NEW names, Extends(t, m, u, n, names),
         NEW i \in m + 1..n, NEW k \in 1..m, SameName(t.enums[k].name, u.enums[i].name)
  PROVE  Crowded(t, m, u.enums[i].name)
<1>1. Enums(t, m) /\ EnumByName(t, u.enums[i].name) = 0
  BY DEF Extends
<1>2. PICK j \in 1..m : j # k /\ SameName(t.enums[j].name, u.enums[i].name)
  BY <1>1, LookupSilent
<1> QED BY <1>2 DEF Crowded

EnumAdded(u, n, v, k, e) ==
  /\ k = n + 1 /\ Enums(v, k) /\ v.enums[k] = e
  /\ \A i \in 1..n : v.enums[i] = u.enums[i]

LEMMA AppendEnum ==
  ASSUME NEW u, NEW n, Enums(u, n), NEW k, k = n + 1,
         NEW e, NEW v, v.enums = Append(u.enums, e)
  PROVE  EnumAdded(u, n, v, k, e)
<1> DEFINE S == {u.enums[i] : i \in 1..n} \union {e}
<1>1. n \in Nat /\ k \in Nat /\ u.enums = [i \in 1..n |-> u.enums[i]]
  BY DEF Enums
<1>2. u.enums \in [1..n -> S]
  BY <1>1
<1>3. u.enums \in Seq(S) /\ e \in S
  BY <1>1, <1>2, SeqDef
<1>4. Len(u.enums) = n
  BY <1>1, <1>3, LenProperties
<1> HIDE DEF S
<1>5. /\ Append(u.enums, e) \in Seq(S) /\ Len(Append(u.enums, e)) = k
      /\ \A i \in 1..n : Append(u.enums, e)[i] = u.enums[i]
      /\ Append(u.enums, e)[k] = e
  BY <1>3, <1>4, AppendProperties
<1>6. Append(u.enums, e) = [i \in 1..k |-> Append(u.enums, e)[i]]
  BY <1>1, <1>5, LenProperties
<1> QED BY <1>1, <1>5, <1>6 DEF Enums, EnumAdded

LEMMA ExtendsByOne ==
  ASSUME NEW t, NEW m, NEW u, NEW n, NEW names, Extends(t, m, u, n, names),
         NEW e, EnumByName(u, e.name) = 0,
         NEW v, NEW k, EnumAdded(u, n, v, k, e)
  PROVE  Extends(t, m, v, k, names \union {e.name})
<1> DEFINE name == e.name
<1> HIDE DEF name
<1>1. /\ Enums(t, m) /\ Enums(u, n) /\ m <= n /\ m \in Nat /\ n \in Nat
      /\ \A i \in 1..m : u.enums[i] = t.enums[i]
  BY DEF Extends, Enums
<1>2. /\ Enums(v, k) /\ v.enums[k] = e /\ v.enums[k].name = name /\ k \in Nat
      /\ \A i \in 1..n : v.enums[i] = u.enums[i]
  <2>1. Enums(v, k) /\ v.enums[k] = e /\ k = n + 1
    BY DEF EnumAdded
  <2>2. \A i \in 1..n : v.enums[i] = u.enums[i]
    BY DEF EnumAdded
  <2> QED BY <1>1, <2>1, <2>2 DEF name
<1>3. EnumByName(u, name) = 0
  BY DEF name
<1>4. /\ k = n + 1 /\ 1..m \subseteq 1..n /\ m + 1..n \subseteq 1..n
      /\ \A i \in m + 1..k : i = k \/ i \in m + 1..n
      /\ \A i \in 1..n : i \in 1..m \/ i \in m + 1..n
      /\ \A i \in 1..k : i = k \/ i \in 1..n
      /\ 1..n \subseteq 1..k /\ k \in 1..k
  BY <1>1 DEF EnumAdded
<1>5. EnumByName(t, name) = 0
  <2> SUFFICES ASSUME EnumByName(t, name) # 0 PROVE FALSE
    OBVIOUS
  <2>1. ~\E i \in 1..n : u.enums[i].name = name
    BY <1>1, <1>3, Lookup
  <2>2. PICK i \in 1..m : Near(t, m, name) = {i}
    <3>1. ~\E i \in 1..m : t.enums[i].name = name
      BY <1>1, <1>4, <2>1
    <3> QED BY <1>1, <3>1, Lookup
  <2>3. SameName(t.enums[i].name, name) /\ i \in 1..n /\ SameName(u.enums[i].name, name)
    BY <1>1, <1>4, <2>2 DEF Near
  <2>4. PICK j \in 1..n : j # i /\ SameName(u.enums[j].name, name)
    BY <1>1, <1>3, <2>3, LookupSilent
  <2>5. j \notin 1..m
    BY <1>1, <2>2, <2>4 DEF Near
  <2>6. SameName(t.enums[i].name, u.enums[j].name) /\ j \in m + 1..n
    BY <1>4, <2>3, <2>4, <2>5, SameNameBack, SameNameThrough
  <2>7. Crowded(t, m, name)
    BY <2>4, <2>6, NewOrCrowded, CrowdedSame
  <2> QED BY <2>2, <2>7 DEF Crowded, Near
<1>6. ASSUME NEW i \in m + 1..n, SameName(u.enums[i].name, name)
      PROVE  Crowded(t, m, u.enums[i].name)
  <2>1. i \in 1..n
    BY <1>4
  <2>2. PICK j \in 1..n : j # i /\ SameName(u.enums[j].name, name)
    BY <1>1, <1>3, <1>6, <2>1, LookupSilent
  <2>3. SameName(u.enums[j].name, u.enums[i].name) /\ SameName(u.enums[i].name, u.enums[j].name)
    BY <1>6, <2>2, SameNameBack, SameNameThrough
  <2>4. CASE j \in m + 1..n
    BY <2>2, <2>3, <2>4 DEF Extends
  <2>5. CASE j \in 1..m
    BY <1>1, <2>3, <2>5, NewOrCrowded
  <2> QED BY <1>4, <2>4, <2>5
<1>7. ASSUME NEW other \in names PROVE EnumByName(v, other) # 0
  <2>1. EnumByName(u, other) # 0
    BY DEF Extends
  <2>2. CASE \E i \in 1..n : u.enums[i].name = other
    <3>1. \E i \in 1..k : v.enums[i].name = other
      BY <1>2, <1>4, <2>2
    <3> QED BY <1>2, <3>1, Lookup
  <2>3. CASE ~\E i \in 1..n : u.enums[i].name = other
    <3>1. PICK i \in 1..n : Near(u, n, other) = {i}
      BY <1>1, <2>1, <2>3, Lookup
    <3>2. SameName(u.enums[i].name, other)
      BY <3>1 DEF Near
    <3>3. ~SameName(name, other)
      <4> SUFFICES ASSUME SameName(name, other) PROVE FALSE
        OBVIOUS
      <4>1. SameName(u.enums[i].name, name)
        BY <3>2, SameNameBack, SameNameThrough
      <4>2. PICK j \in 1..n : j # i /\ SameName(u.enums[j].name, name)
        BY <1>1, <1>3, <4>1, LookupSilent
      <4>3. SameName(u.enums[j].name, other)
        BY <4>2, SameNameThrough
      <4> QED BY <3>1, <4>2, <4>3 DEF Near
    <3>4. Near(v, k, other) = {i}
      BY <1>2, <1>4, <3>1, <3>3 DEF Near
    <3>5. i \in 1..k
      BY <1>4
    <3> QED BY <1>2, <3>4, <3>5, Lookup
  <2> QED BY <2>2, <2>3
<1>8. EnumByName(v, name) # 0
  BY <1>2, <1>4, Lookup
<1>9. ASSUME NEW i \in m + 1..k
      PROVE  v.enums[i].name \in names \union {name} /\ EnumByName(t, v.enums[i].name) = 0
  <2>1. CASE i = k
    BY <1>2, <1>5, <2>1
  <2>2. CASE i \in m + 1..n
    BY <1>2, <1>4, <2>2 DEF Extends
  <2> QED BY <1>4, <2>1, <2>2
<1>10. ASSUME NEW i \in m + 1..k, NEW j \in m + 1..k, i # j,
              SameName(v.enums[i].name, v.enums[j].name)
       PROVE  Crowded(t, m, v.enums[i].name)
  <2>1. CASE i = k
    <3>1. j \in m + 1..n /\ j \in 1..n
      BY <1>4, <1>10, <2>1
    <3>2. SameName(name, u.enums[j].name) /\ SameName(u.enums[j].name, name)
      BY <1>2, <1>10, <2>1, <3>1, SameNameBack
    <3> QED BY <1>2, <1>6, <2>1, <3>1, <3>2, CrowdedSame
  <2>2. CASE i \in m + 1..n /\ j = k
    <3>1. v.enums[i] = u.enums[i] /\ v.enums[j].name = name
      BY <1>2, <1>4, <2>2
    <3> QED BY <1>6, <1>10, <2>2, <3>1
  <2>3. CASE i \in m + 1..n /\ j \in m + 1..n
    <3>1. v.enums[i] = u.enums[i] /\ v.enums[j] = u.enums[j]
      BY <1>2, <1>4, <2>3
    <3> QED BY <1>10, <2>3, <3>1 DEF Extends
  <2> QED BY <1>4, <2>1, <2>2, <2>3
<1>11. m <= k /\ \A i \in 1..m : v.enums[i] = t.enums[i]
  BY <1>1, <1>2, <1>4
<1>12. \A other \in names \union {name} : EnumByName(v, other) # 0
  BY <1>7, <1>8
<1>13. Extends(t, m, v, k, names \union {name})
  BY <1>1, <1>2, <1>9, <1>10, <1>11, <1>12 DEF Extends
<1> QED BY <1>13 DEF name

(* Two ways to extend a table by the same names answer alike.              *)
LEMMA AnswersAgree ==
  ASSUME NEW t, NEW m, NEW names, NEW u, NEW n, Extends(t, m, u, n, names),
         NEW v, NEW k, Extends(t, m, v, k, names), NEW name, EnumByName(u, name) # 0
  PROVE  EnumByName(v, name) # 0
<1>1. /\ Enums(t, m) /\ Enums(u, n) /\ Enums(v, k) /\ m <= n /\ m <= k
      /\ m \in Nat /\ n \in Nat /\ k \in Nat
      /\ \A i \in 1..m : u.enums[i] = t.enums[i] /\ v.enums[i] = t.enums[i]
  BY DEF Extends, Enums
<1>2. /\ 1..m \subseteq 1..n /\ 1..m \subseteq 1..k /\ m + 1..k \subseteq 1..k
      /\ \A i \in 1..n : i \in 1..m \/ i \in m + 1..n
      /\ \A i \in 1..k : i \in 1..m \/ i \in m + 1..k
  BY <1>1
<1>3. CASE \E i \in 1..n : u.enums[i].name = name
  <2>1. PICK i \in 1..n : u.enums[i].name = name
    BY <1>3
  <2>2. CASE i \in 1..m
    <3>1. \E j \in 1..k : v.enums[j].name = name
      BY <1>1, <1>2, <2>1, <2>2
    <3> QED BY <1>1, <3>1, Lookup
  <2>3. CASE i \in m + 1..n
    BY <2>1, <2>3 DEF Extends
  <2> QED BY <1>2, <2>2, <2>3
<1>4. CASE ~\E i \in 1..n : u.enums[i].name = name
  <2>1. PICK i \in 1..n : Near(u, n, name) = {i}
    BY <1>1, <1>4, Lookup
  <2>2. SameName(u.enums[i].name, name)
    BY <2>1 DEF Near
  <2>3. ~Crowded(t, m, name)
    BY <1>1, <1>2, <2>1 DEF Crowded, Near
  <2>4. CASE i \in 1..m
    <3>1. ASSUME NEW j \in 1..k, SameName(v.enums[j].name, name) PROVE j = i
      <4>1. CASE j \in 1..m
        BY <1>1, <1>2, <2>1, <3>1, <4>1 DEF Near
      <4>2. CASE j \in m + 1..k
        <5>1. SameName(t.enums[i].name, v.enums[j].name)
          BY <1>1, <2>2, <2>4, <3>1, SameNameBack, SameNameThrough
        <5> QED BY <2>3, <2>4, <3>1, <4>2, <5>1, NewOrCrowded, CrowdedSame
      <4> QED BY <1>2, <4>1, <4>2
    <3>2. i \in 1..k /\ SameName(v.enums[i].name, name)
      BY <1>1, <1>2, <2>2, <2>4
    <3>3. Near(v, k, name) = {i}
      BY <3>1, <3>2 DEF Near
    <3> QED BY <1>1, <3>2, <3>3, Lookup
  <2>5. CASE i \in m + 1..n
    <3> DEFINE asked == u.enums[i].name
    <3>1. asked \in names
      BY <2>5 DEF Extends
    <3>2. PICK j : j = EnumByName(v, asked)
      OBVIOUS
    <3>3. j # 0
      BY <3>1, <3>2 DEF Extends
    <3>4. j \in 1..k /\ SameName(v.enums[j].name, asked)
      BY <1>1, <3>2, <3>3, Lookup
    <3>5. SameName(v.enums[j].name, name)
      BY <2>2, <3>4, SameNameThrough
    <3>6. \A l \in 1..m : ~SameName(t.enums[l].name, name)
      <4>1. \A l \in 1..m : l # i
        BY <1>1, <2>5
      <4> QED BY <1>1, <1>2, <2>1, <4>1 DEF Near
    <3>7. ASSUME NEW l \in 1..k, SameName(v.enums[l].name, name) PROVE l = j
      <4>1. l \in m + 1..k /\ j \in m + 1..k
        BY <1>1, <1>2, <3>4, <3>5, <3>6, <3>7
      <4>2. SameName(v.enums[l].name, v.enums[j].name)
        BY <3>5, <3>7, SameNameBack, SameNameThrough
      <4>3. l # j => Crowded(t, m, v.enums[l].name)
        BY <4>1, <4>2 DEF Extends
      <4> QED BY <2>3, <3>7, <4>3, CrowdedSame
    <3>8. Near(v, k, name) = {j}
      BY <3>4, <3>5, <3>7 DEF Near
    <3> QED BY <1>1, <3>4, <3>8, Lookup
  <2> QED BY <1>2, <2>4, <2>5
<1> QED BY <1>3, <1>4

(* The recursion of Registered has a solution, as that of Augmented has.   *)
RegisterSteps(f, t, source, entries, k) ==
  f = [n \in 0..k |-> IF n = 0 THEN t ELSE Register(f[n - 1], source, entries[n])]

LEMMA RegisterStepsExist ==
  ASSUME NEW t, NEW source, NEW entries, NEW k \in Nat
  PROVE  \E f : RegisterSteps(f, t, source, entries, k)
<1> DEFINE T == {m \in Nat : ~\E f : RegisterSteps(f, t, source, entries, m)}
<1> SUFFICES ASSUME T # {} PROVE FALSE
  OBVIOUS
<1>1. T \subseteq Nat
  OBVIOUS
<1>2. PICK m \in T : \A y \in T : m <= y
  <2> HIDE DEF T
  <2> QED BY <1>1, Least
<1>3. m \in Nat /\ ~\E f : RegisterSteps(f, t, source, entries, m)
  OBVIOUS
<1>4. CASE m = 0
  <2> DEFINE f == [n \in 0..0 |-> t]
  <2>1. RegisterSteps(f, t, source, entries, 0)
    BY DEF RegisterSteps
  <2> QED BY <1>3, <1>4, <2>1
<1>5. CASE m # 0
  <2>1. m - 1 \in Nat /\ m - 1 \notin T
    BY <1>2, <1>3, <1>5
  <2>2. PICK g : RegisterSteps(g, t, source, entries, m - 1)
    BY <2>1
  <2> DEFINE f == [n \in 0..m |->
                     IF n = 0 THEN t ELSE Register(g[n - 1], source, entries[n])]
  <2>3. \A n \in 0..(m - 1) : f[n] = g[n]
    <3>1. 0..(m - 1) \subseteq 0..m
      BY <1>3
    <3> QED BY <2>2, <3>1 DEF RegisterSteps
  <2>4. \A n \in 0..m : n # 0 => f[n - 1] = g[n - 1]
    BY <1>3, <2>3
  <2>5. RegisterSteps(f, t, source, entries, m)
    BY <2>4 DEF RegisterSteps
  <2> QED BY <1>3, <2>5
<1> QED BY <1>4, <1>5

LEMMA RegisteredSteps ==
  ASSUME NEW t, NEW source, NEW entries, NEW k \in Nat, k = Len(entries)
  PROVE  \E f : /\ f[0] = t /\ f[k] = Registered(t, source, entries)
                /\ \A n \in 1..k : f[n] = Register(f[n - 1], source, entries[n])
<1>1. PICK f : f = CHOOSE g : RegisterSteps(g, t, source, entries, k)
  OBVIOUS
<1>2. RegisterSteps(f, t, source, entries, k)
  BY <1>1, RegisterStepsExist
<1>3. Registered(t, source, entries) = f[k]
  BY <1>1 DEF Registered, RegisterSteps
<1>4. 0 \in 0..k /\ \A n \in 1..k : n \in 0..k /\ n # 0
  OBVIOUS
<1>5. f[0] = t /\ \A n \in 1..k : f[n] = Register(f[n - 1], source, entries[n])
  BY <1>2, <1>4 DEF RegisterSteps
<1> QED BY <1>3, <1>5

(* A store of enums is a record of the two indices.                        *)
Store(t, n) == DOMAIN t = {"enums", "members"} /\ Enums(t, n)

LEMMA AddEnumParts ==
  ASSUME NEW t, NEW n, Store(t, n), NEW k, k = n + 1,
         NEW e, NEW u, u = AddEnum(t, e) \/ u = AddBuiltinEnum(t, e)
  PROVE  Store(u, k) /\ EnumAdded(t, n, u, k, e)
<1>1. DOMAIN t = {"enums", "members"} /\ Enums(t, n)
  BY DEF Store
<1>2. DOMAIN u = {"enums", "members"} /\ u.enums = Append(t.enums, e)
  <2>1. CASE u = AddBuiltinEnum(t, e)
    BY <1>1, <2>1 DEF AddBuiltinEnum
  <2>2. CASE u = AddEnum(t, e)
    <3>1. PICK m : u = [AddBuiltinEnum(t, e) EXCEPT !.members = m]
      BY <2>2 DEF AddEnum
    <3> QED BY <1>1, <3>1 DEF AddBuiltinEnum
  <2> QED BY <2>1, <2>2
<1> HIDE DEF Enums
<1>3. EnumAdded(t, n, u, k, e)
  BY <1>1, <1>2, AppendEnum
<1> QED BY <1>2, <1>3 DEF Store, EnumAdded

(* One entry adds an enum or nothing.                                      *)
LEMMA RegisterParts ==
  ASSUME NEW t, NEW n, Store(t, n), NEW source \in {"project", "catalogue", "component"},
         NEW x, NEW u, u = Register(t, source, x)
  PROVE  \E k : Store(u, k)
<1>1. CASE source = "project"
  <2>1. PICK e : u = AddEnum(t, e)
    BY <1>1 DEF Register
  <2> QED BY <2>1, AddEnumParts
<1>2. CASE source # "project"
  <2>1. u = t \/ \E e, b : u = AddMissing(t, e, b)
    BY <1>2 DEF Register
  <2>2. ASSUME NEW e, NEW b, u = AddMissing(t, e, b)
        PROVE  u = t \/ u = AddEnum(t, e) \/ u = AddBuiltinEnum(t, e)
    BY <2>2 DEF AddMissing
  <2>3. u = t \/ \E e : u = AddEnum(t, e) \/ u = AddBuiltinEnum(t, e)
    BY <2>1, <2>2
  <2> QED BY <2>3, AddEnumParts
<1> QED BY <1>1, <1>2

LEMMA RegisteredStore ==
  ASSUME NEW t, NEW n, Store(t, n), NEW source \in {"project", "catalogue", "component"},
         NEW entries, Len(entries) \in Nat
  PROVE  \E k : Store(Registered(t, source, entries), k)
<1>1. PICK k \in Nat : k = Len(entries)
  OBVIOUS
<1>2. PICK f : /\ f[0] = t /\ f[k] = Registered(t, source, entries)
               /\ \A i \in 1..k : f[i] = Register(f[i - 1], source, entries[i])
  BY <1>1, RegisteredSteps, SMTT(30)
<1> DEFINE T == {m \in 0..k : ~\E j : Store(f[m], j)}
<1>3. T = {}
  <2> SUFFICES ASSUME T # {} PROVE FALSE
    OBVIOUS
  <2>1. T \subseteq Nat
    OBVIOUS
  <2>2. PICK m \in T : \A y \in T : m <= y
    <3> HIDE DEF T
    <3> QED BY <2>1, Least
  <2>3. m \in 0..k /\ ~\E j : Store(f[m], j)
    OBVIOUS
  <2>4. m # 0
    BY <1>2, <2>3
  <2>5. m \in 1..k /\ m - 1 \in 0..k /\ m - 1 \notin T
    BY <2>2, <2>3, <2>4
  <2>6. PICK j : Store(f[m - 1], j)
    BY <2>5
  <2> QED BY <1>2, <2>3, <2>5, <2>6, RegisterParts
<1>4. k \in 0..k
  OBVIOUS
<1> QED BY <1>2, <1>3, <1>4

LEMMA KnownStore ==
  ASSUME NEW types \in Seq(EnumEntry)
  PROVE  \E m : Store(KnownEnums(types), m)
<1>1. Len(types) \in Nat /\ Len(Catalogue) \in Nat
  BY LenProperties, CatalogueAssumption
<1>2. Store(NoEnums, 0)
  BY DEF Store, Enums, NoEnums
<1>3. PICK n : Store(Registered(NoEnums, "project", types), n)
  BY <1>1, <1>2, RegisteredStore
<1> QED BY <1>1, <1>3, RegisteredStore DEF KnownEnums

(* The names the first components ask for.                                 *)
Asked(components, k) ==
  {AskedEnum(components[i]).name : i \in {j \in 1..k : Placeholder(components[j]) # None}}

LEMMA AskedExtends ==
  ASSUME NEW t, NEW m, Store(t, m), NEW components, Len(components) \in Nat
  PROVE  \E n : Extends(t, m, Registered(t, "component", components), n,
                        Asked(components, Len(components)))
<1>1. PICK k \in Nat : k = Len(components)
  OBVIOUS
<1>2. PICK f : /\ f[0] = t /\ f[k] = Registered(t, "component", components)
               /\ \A i \in 1..k : f[i] = Register(f[i - 1], "component", components[i])
  BY <1>1, RegisteredSteps
<1> DEFINE Fine(i) == \E n : Store(f[i], n) /\ Extends(t, m, f[i], n, Asked(components, i))
           T == {i \in 0..k : ~Fine(i)}
<1>3. T = {}
  <2> SUFFICES ASSUME T # {} PROVE FALSE
    OBVIOUS
  <2>1. T \subseteq Nat
    OBVIOUS
  <2>2. PICK i \in T : \A y \in T : i <= y
    <3> HIDE DEF T
    <3> QED BY <2>1, Least
  <2>3. i \in 0..k /\ ~Fine(i)
    OBVIOUS
  <2>4. i # 0
    <3>1. Asked(components, 0) = {}
      BY DEF Asked
    <3>2. m \in Nat /\ Enums(t, m) /\ \A j \in m + 1..m : FALSE
      BY DEF Store, Enums
    <3>3. Extends(t, m, t, m, {})
      BY <3>2 DEF Extends
    <3> QED BY <1>2, <2>3, <3>1, <3>3
  <2>5. i \in 1..k /\ i - 1 \in 0..k /\ i - 1 \notin T
    BY <2>2, <2>3, <2>4
  <2>6. PICK u, n : /\ u = f[i - 1] /\ Store(u, n)
                    /\ Extends(t, m, u, n, Asked(components, i - 1))
    BY <2>5
  <2>7. PICK c, v : c = components[i] /\ v = f[i] /\ v = Register(u, "component", c)
    BY <1>2, <2>5, <2>6
  <2>8. CASE Placeholder(c) = None
    <3>1. v = u
      BY <2>7, <2>8 DEF Register
    <3>2. Asked(components, i) = Asked(components, i - 1)
      <4>1. \A j \in 1..i : j = i \/ j \in 1..i - 1
        BY <2>5
      <4>2. 1..i - 1 \subseteq 1..i
        BY <2>5
      <4> QED BY <2>7, <2>8, <4>1, <4>2 DEF Asked
    <3> QED BY <2>3, <2>6, <2>7, <3>1, <3>2
  <2>9. CASE Placeholder(c) # None
    <3>1. PICK e : e = AskedEnum(c)
      OBVIOUS
    <3>2. v = AddMissing(u, e, TRUE)
      BY <2>7, <2>9, <3>1 DEF Register
    <3>3. Asked(components, i) = Asked(components, i - 1) \union {e.name}
      <4>1. \A j \in 1..i : j = i \/ j \in 1..i - 1
        BY <2>5
      <4>2. 1..i - 1 \subseteq 1..i /\ i \in 1..i
        BY <2>5
      <4> QED BY <2>7, <2>9, <3>1, <4>1, <4>2 DEF Asked
    <3>4. CASE EnumByName(u, e.name) # 0
      <4>1. v = u
        BY <3>2, <3>4 DEF AddMissing
      <4>2. Extends(t, m, u, n, Asked(components, i))
        BY <2>6, <3>3, <3>4 DEF Extends
      <4> QED BY <2>3, <2>6, <2>7, <4>1, <4>2
    <3>5. CASE EnumByName(u, e.name) = 0
      <4>1. v = AddEnum(u, e)
        BY <3>2, <3>5 DEF AddMissing
      <4>2. PICK l : l = n + 1
        OBVIOUS
      <4>3. Store(v, l) /\ EnumAdded(u, n, v, l, e)
        BY <2>6, <4>1, <4>2, AddEnumParts
      <4>5. Extends(t, m, v, l, Asked(components, i))
        BY <2>6, <3>3, <3>5, <4>3, ExtendsByOne
      <4> QED BY <2>3, <2>7, <4>3, <4>5
    <3> QED BY <3>4, <3>5
  <2> QED BY <2>8, <2>9
<1>4. k \in 0..k
  OBVIOUS
<1> QED BY <1>1, <1>2, <1>3, <1>4

(* The order in which the components ask decides nothing about what the    *)
(* table answers, up to the case of a name.                                *)
SameAnswers(t, u) ==
  \A name : LET i == EnumByName(t, name)
                j == EnumByName(u, name)
            IN  /\ i = 0 <=> j = 0
                /\ i # 0 => SameName(t.enums[i].name, u.enums[j].name)

LEMMA AskedReversed ==
  ASSUME NEW components, NEW k \in Nat, k = Len(components)
  PROVE  Asked(Reverse(components), k) = Asked(components, k)
<1>1. \A i \in 1..k : k - i + 1 \in 1..k /\ k - (k - i + 1) + 1 = i
  OBVIOUS
<1>2. \A i \in 1..k : Reverse(components)[i] = components[k - i + 1]
  BY DEF Reverse
<1>3. \A i \in 1..k : components[i] = Reverse(components)[k - i + 1]
  BY <1>1, <1>2
<1>4. Asked(Reverse(components), k) \subseteq Asked(components, k)
  BY <1>1, <1>2 DEF Asked
<1>5. Asked(components, k) \subseteq Asked(Reverse(components), k)
  BY <1>1, <1>3 DEF Asked
<1> QED BY <1>4, <1>5

LEMMA ReverseParts ==
  ASSUME NEW S, NEW components \in Seq(S)
  PROVE  /\ Reverse(components) \in Seq(S) /\ Len(Reverse(components)) = Len(components)
         /\ \A i \in 1..Len(components) :
              /\ Reverse(components)[i] = components[Len(components) - i + 1]
              /\ Len(components) - i + 1 \in 1..Len(components)
<1>1. PICK k \in Nat : k = Len(components) /\ components \in [1..k -> S]
  BY LenProperties
<1>2. \A i \in 1..k : k - i + 1 \in 1..k
  OBVIOUS
<1>3. Reverse(components) = [i \in 1..k |-> components[k - i + 1]]
  BY <1>1 DEF Reverse
<1>4. Reverse(components) \in [1..k -> S]
  BY <1>1, <1>2, <1>3
<1>5. Reverse(components) \in Seq(S)
  BY <1>4, SeqDef
<1>6. Len(Reverse(components)) = k
  BY <1>1, <1>4, <1>5, LenProperties
<1> QED BY <1>1, <1>2, <1>3, <1>5, <1>6

LEMMA EnumsAgree ==
  ASSUME NEW types \in Seq(EnumEntry), NEW components \in Seq(PrjComponent)
  PROVE  SameAnswers(ParseEnums(types, components), ParseEnums(types, Reverse(components)))
<1>1. PICK m : Store(KnownEnums(types), m)
  BY KnownStore
<1>2. PICK k \in Nat : k = Len(components) /\ k = Len(Reverse(components))
  BY LenProperties, ReverseParts
<1>3. PICK t, u, names : /\ t = ParseEnums(types, components)
                         /\ u = ParseEnums(types, Reverse(components))
                         /\ names = Asked(components, k)
  OBVIOUS
<1>4. PICK n : Extends(KnownEnums(types), m, t, n, names)
  BY <1>1, <1>2, <1>3, AskedExtends DEF ParseEnums
<1>5. PICK l : Extends(KnownEnums(types), m, u, l, names)
  BY <1>1, <1>2, <1>3, AskedExtends, AskedReversed DEF ParseEnums
<1>6. Enums(t, n) /\ Enums(u, l)
  BY <1>4, <1>5 DEF Extends
<1>7. ASSUME NEW name, NEW i, NEW j, i = EnumByName(t, name), j = EnumByName(u, name)
      PROVE  (i = 0 <=> j = 0) /\ (i # 0 => SameName(t.enums[i].name, u.enums[j].name))
  <2>1. i # 0 => j # 0
    BY <1>4, <1>5, <1>7, AnswersAgree
  <2>2. j # 0 => i # 0
    BY <1>4, <1>5, <1>7, AnswersAgree
  <2>3. i # 0 => SameName(t.enums[i].name, name)
    BY <1>6, <1>7, Lookup
  <2>4. j # 0 => SameName(u.enums[j].name, name)
    BY <1>6, <1>7, Lookup
  <2> QED BY <2>1, <2>2, <2>3, <2>4, SameNameBack, SameNameThrough
<1>8. SameAnswers(t, u)
  BY <1>7 DEF SameAnswers
<1> QED BY <1>3, <1>8

(* With one component to a path the pre-pass finds the same however the    *)
(* document is read.                                                       *)
LEMMA MaxOfOne == ASSUME NEW i \in Nat PROVE Max({i}) = i
<1>1. PICK S : S = {i}
  OBVIOUS
<1>2. Max(S) \in S
  <2>1. \E x \in S : \A y \in S : x >= y
    BY <1>1
  <2> QED BY <2>1 DEF Max
<1> QED BY <1>1, <1>2

LEMMA IndexAt ==
  ASSUME NEW components \in Seq(PrjComponent), Unique(components),
         NEW i \in DOMAIN components, NEW c, c = components[i]
  PROVE  LET index == ProjectIndex(components)
         IN  /\ c.path \in DOMAIN index.classes /\ index.classes[c.path] = c.class
             /\ c.path \in DOMAIN index.tags <=> c.tags # <<>>
             /\ c.tags # <<>> => index.tags[c.path] = c.tags
<1>1. i \in Nat
  BY LenProperties
<1>2. ProjectIndex(components).classes = ClassByPath(components)
      /\ ProjectIndex(components).tags = TagsByPath(components)
  BY DEF ProjectIndex
<1>3. \A j \in DOMAIN components : components[j].path = c.path <=> j = i
  BY DEF Unique
<1>4. {j \in DOMAIN components : components[j].path = c.path} = {i}
  BY <1>3
<1>5. c.path \in DOMAIN ClassByPath(components) /\ ClassByPath(components)[c.path] = c.class
  BY <1>1, <1>4, MaxOfOne DEF ClassByPath
<1> DEFINE tagged == {j \in DOMAIN components : components[j].tags # <<>>}
<1>6. c.path \in DOMAIN TagsByPath(components) <=> c.tags # <<>>
  <2>1. DOMAIN TagsByPath(components) = {components[j].path : j \in tagged}
    BY DEF TagsByPath
  <2> QED BY <1>3, <2>1
<1>7. ASSUME c.tags # <<>> PROVE TagsByPath(components)[c.path] = c.tags
  <2>1. {j \in tagged : components[j].path = c.path} = {i}
    BY <1>3, <1>7
  <2>2. c.path \in {components[j].path : j \in tagged}
    BY <1>7
  <2> QED BY <1>1, <2>1, <2>2, MaxOfOne DEF TagsByPath
<1> QED BY <1>2, <1>5, <1>6, <1>7

LEMMA IndexReversed ==
  ASSUME NEW components \in Seq(PrjComponent), Unique(components)
  PROVE  ProjectIndex(Reverse(components)) = ProjectIndex(components)
<1>1. PICK back, k : back = Reverse(components) /\ k = Len(components)
  OBVIOUS
<1>2. /\ back \in Seq(PrjComponent) /\ k \in Nat
      /\ DOMAIN components = 1..k /\ DOMAIN back = 1..k
      /\ \A i \in 1..k : back[i] = components[k - i + 1] /\ k - i + 1 \in 1..k
  BY <1>1, ReverseParts, LenProperties
<1>3. \A i \in 1..k : components[i] = back[k - i + 1]
  <2>1. \A i \in 1..k : k - (k - i + 1) + 1 = i
    BY <1>2
  <2> QED BY <1>2, <2>1
<1>4. Unique(back)
  <2> SUFFICES ASSUME NEW i \in 1..k, NEW j \in 1..k, back[i].path = back[j].path PROVE i = j
    BY <1>2 DEF Unique
  <2>1. components[k - i + 1].path = components[k - j + 1].path
        /\ k - i + 1 \in DOMAIN components /\ k - j + 1 \in DOMAIN components
    BY <1>2
  <2>2. k - i + 1 = k - j + 1
    BY <2>1 DEF Unique
  <2> QED BY <1>2, <2>2
<1> DEFINE a == ProjectIndex(components)
           b == ProjectIndex(back)
<1>5. a.classes = ClassByPath(components) /\ b.classes = ClassByPath(back)
      /\ a.tags = TagsByPath(components) /\ b.tags = TagsByPath(back)
  BY DEF ProjectIndex
<1>6. DOMAIN a.classes = {components[i].path : i \in 1..k}
      /\ DOMAIN b.classes = {back[i].path : i \in 1..k}
  BY <1>2, <1>5 DEF ClassByPath
<1>7. DOMAIN a.tags \subseteq DOMAIN a.classes /\ DOMAIN b.tags \subseteq DOMAIN b.classes
  BY <1>2, <1>5, <1>6 DEF TagsByPath
<1>8. DOMAIN a.classes = DOMAIN b.classes
  <2>1. \A p \in DOMAIN a.classes : p \in DOMAIN b.classes
    BY <1>2, <1>3, <1>6
  <2>2. \A p \in DOMAIN b.classes : p \in DOMAIN a.classes
    BY <1>2, <1>6
  <2> QED BY <2>1, <2>2
<1>9. ASSUME NEW p \in DOMAIN a.classes
      PROVE  /\ a.classes[p] = b.classes[p]
             /\ p \in DOMAIN a.tags <=> p \in DOMAIN b.tags
             /\ p \in DOMAIN a.tags => a.tags[p] = b.tags[p]
  <2>1. PICK i \in 1..k : components[i].path = p
    BY <1>6
  <2>2. PICK c, j : c = components[i] /\ j = k - i + 1 /\ j \in 1..k /\ c = back[j] /\ c.path = p
    BY <1>2, <1>3, <2>1
  <2>3. a.classes[p] = c.class /\ (p \in DOMAIN a.tags <=> c.tags # <<>>)
        /\ (c.tags # <<>> => a.tags[p] = c.tags)
    BY <1>2, <2>2, IndexAt
  <2>4. b.classes[p] = c.class /\ (p \in DOMAIN b.tags <=> c.tags # <<>>)
        /\ (c.tags # <<>> => b.tags[p] = c.tags)
    BY <1>2, <1>4, <2>2, IndexAt
  <2> QED BY <2>3, <2>4
<1>10. a.classes = b.classes
  <2>1. a.classes = [p \in DOMAIN a.classes |-> a.classes[p]]
        /\ b.classes = [p \in DOMAIN b.classes |-> b.classes[p]]
    BY <1>5 DEF ClassByPath
  <2> HIDE DEF a, b
  <2> QED BY <1>8, <1>9, <2>1
<1>11. a.tags = b.tags
  <2>1. a.tags = [p \in DOMAIN a.tags |-> a.tags[p]] /\ b.tags = [p \in DOMAIN b.tags |-> b.tags[p]]
    BY <1>5 DEF TagsByPath
  <2> HIDE DEF a, b
  <2>2. DOMAIN a.tags = DOMAIN b.tags
    BY <1>7, <1>8, <1>9
  <2>3. \A p \in DOMAIN a.tags : a.tags[p] = b.tags[p]
    BY <1>7, <1>9
  <2> QED BY <2>1, <2>2, <2>3
<1>12. a = [classes |-> a.classes, tags |-> a.tags] /\ b = [classes |-> b.classes, tags |-> b.tags]
  BY DEF ProjectIndex
<1>13. a = b
  <2> HIDE DEF a, b
  <2> QED BY <1>10, <1>11, <1>12
<1> QED BY <1>1, <1>13

-----------------------------------------------------------------------------
(* A symbol's type depends on the table only through its answers.          *)
LEMMA AnswersOfEnums ==
  ASSUME NEW t, NEW u, t.enums = u.enums, NEW name
  PROVE  EnumByName(t, name) = EnumByName(u, name)
BY DEF EnumByName

LEMMA AnswersCarried ==
  ASSUME NEW t, NEW u, SameAnswers(t, u), NEW v, NEW w, v.enums = t.enums, w.enums = u.enums
  PROVE  SameAnswers(v, w)
<1>1. \A name : EnumByName(v, name) = EnumByName(t, name) /\ EnumByName(w, name) = EnumByName(u, name)
  BY AnswersOfEnums
<1> QED BY <1>1 DEF SameAnswers

LEMMA AssociatedAlike ==
  ASSUME NEW t, NEW u, SameAnswers(t, u), NEW index, NEW c,
         NEW i, i = AssociatedEnum(t, index, c), NEW j, j = AssociatedEnum(u, index, c)
  PROVE  /\ i = 0 <=> j = 0
         /\ i # 0 => SameName(t.enums[i].name, u.enums[j].name)
<1>1. \A class : \/ StateEnum(t, class) = 0 /\ StateEnum(u, class) = 0
                 \/ \E q : StateEnum(t, class) = EnumByName(t, q) /\ StateEnum(u, class) = EnumByName(u, q)
  BY DEF StateEnum
<1>2. \A path : LET a == OwnerStateEnum(t, index, path)
                    b == OwnerStateEnum(u, index, path)
                IN  (a = 0 /\ b = 0) \/ \E q : a = EnumByName(t, q) /\ b = EnumByName(u, q)
  BY <1>1 DEF OwnerStateEnum
<1>3. \A type : LET a == DeclaredEnum(t, type)
                    b == DeclaredEnum(u, type)
                IN  (a = 0 /\ b = 0) \/ \E q : a = EnumByName(t, q) /\ b = EnumByName(u, q)
  BY DEF DeclaredEnum
<1>4. (i = 0 /\ j = 0) \/ \E q : i = EnumByName(t, q) /\ j = EnumByName(u, q)
  BY <1>1, <1>2, <1>3 DEF AssociatedEnum
<1> QED BY <1>4 DEF SameAnswers

PlainTypes == {<<"Float">>, <<"Unsigned">>, <<"Integer">>, <<"Boolean">>, <<"Unknown">>}

LEMMA TypesArePlain ==
  /\ \A x : PrimitiveType(x) \in PlainTypes /\ LeafType(x) \in PlainTypes
            /\ ClassType(x) \in PlainTypes /\ ConstantType(x) \in PlainTypes
  /\ \A index, path : OwnerType(index, path) \in PlainTypes
<1>1. Unknown \in PlainTypes
  BY DEF PlainTypes, Unknown
<1>2. \A x : PrimitiveType(x) \in PlainTypes
  BY DEF PrimitiveType, PlainTypes, Unknown
<1>3. \A x : LeafType(x) \in PlainTypes
  BY DEF LeafType, PlainTypes, Unknown
<1>4. \A x : ClassType(x) \in PlainTypes
  BY DEF ClassType, PlainTypes, Unknown
<1>5. \A x : ConstantType(x) \in PlainTypes
  BY DEF ConstantType, PlainTypes, Unknown
<1>6. \A index, path : OwnerType(index, path) \in PlainTypes
  BY <1>1, <1>3, <1>4 DEF OwnerType
<1> QED BY <1>2, <1>3, <1>4, <1>5, <1>6

NameOfType(t, vt) == IF vt[1] = "Enum" THEN t.enums[vt[2]].name ELSE vt[1]

LEMMA TypesAlike ==
  ASSUME NEW t, NEW u, SameAnswers(t, u), NEW index, NEW c,
         NEW v, v = ValueType(t, index, c), NEW w, w = ValueType(u, index, c)
  PROVE  SameName(NameOfType(t, v), NameOfType(u, w))
<1>1. PICK i, j : i = AssociatedEnum(t, index, c) /\ j = AssociatedEnum(u, index, c)
  OBVIOUS
<1>2. \E x \in PlainTypes :
        \/ v = x /\ w = x
        \/ v = EnumOr(i, x) /\ w = EnumOr(j, x)
  <2>1. <<"Float">> \in PlainTypes
    BY DEF PlainTypes
  <2>2. \A x : PrimitiveType(x) \in PlainTypes /\ LeafType(x) \in PlainTypes
               /\ ConstantType(x) \in PlainTypes
    BY TypesArePlain
  <2>3. OwnerType(index, c.path) \in PlainTypes
    BY TypesArePlain
  <2> HIDE DEF PlainTypes
  <2> QED BY <1>1, <2>1, <2>2, <2>3 DEF ValueType
<1>3. PICK x \in PlainTypes : \/ v = x /\ w = x
                              \/ v = EnumOr(i, x) /\ w = EnumOr(j, x)
  BY <1>2
<1>4. x[1] # "Enum"
  BY DEF PlainTypes
<1>5. (i = 0 <=> j = 0) /\ (i # 0 => SameName(t.enums[i].name, u.enums[j].name))
  BY <1>1, AssociatedAlike
<1>6. CASE v = x /\ w = x
  BY <1>4, <1>6 DEF NameOfType, SameName
<1>7. CASE i # 0 /\ v = EnumOr(i, x) /\ w = EnumOr(j, x)
  <2>1. v = <<"Enum", i>> /\ w = <<"Enum", j>>
    BY <1>5, <1>7 DEF EnumOr, EnumType
  <2> QED BY <1>5, <1>7, <2>1 DEF NameOfType
<1>8. i = 0 => EnumOr(i, x) = x /\ EnumOr(j, x) = x
  BY <1>5 DEF EnumOr
<1> QED BY <1>3, <1>6, <1>7, <1>8

(* A table holds the first components when its symbols are theirs, typed   *)
(* by what these enums answer.                                             *)
HoldsFirst(t, enums, index, components, k) ==
  /\ Indexed(t) /\ t.enums = enums
  /\ DOMAIN t.symbols = 1..k
  /\ \A i \in 1..k :
       /\ t.symbols[i].path = components[i].path
       /\ t.symbols[i].tags = EffectiveTags(index, components[i].path)
       /\ \E w : w.enums = enums /\ t.symbols[i].vt = ValueType(w, index, components[i])

LEMMA SymbolTyped ==
  ASSUME NEW t, NEW index, NEW c
  PROVE  /\ SymbolOf(t, index, c).vt = ValueType(t, index, c)
         /\ SymbolOf(t, index, c).tags = EffectiveTags(index, c.path)
BY DEF SymbolOf, BlankSymbol

LEMMA HoldsOneMore ==
  ASSUME NEW t, NEW enums, NEW index, NEW components, NEW k \in Nat,
         HoldsFirst(t, enums, index, components, k), NEW l, l = k + 1,
         NEW u, u = Push(t, SymbolOf(t, index, components[l]))
  PROVE  HoldsFirst(u, enums, index, components, l)
<1>1. PICK s : s = SymbolOf(t, index, components[l])
  OBVIOUS
<1>2. /\ DOMAIN s = Fields /\ s.path = components[l].path
      /\ s.vt = ValueType(t, index, components[l])
      /\ s.tags = EffectiveTags(index, components[l].path)
  BY <1>1, SymbolParts, SymbolTyped
<1>3. Indexed(t) /\ t.enums = enums /\ DOMAIN t.symbols = 1..k
  BY DEF HoldsFirst
<1>4. PICK n \in Nat : /\ DOMAIN t.symbols = 1..n
                       /\ DOMAIN u.symbols = 1..(n + 1) /\ u.symbols[n + 1] = s
                       /\ \A i \in 1..n : u.symbols[i] = t.symbols[i]
                       /\ u.enums = t.enums /\ Indexed(u)
  BY <1>1, <1>2, <1>3, PushParts
<1>5. n = k
  <2>1. 1..n = 1..k
    BY <1>3, <1>4
  <2> QED BY <1>4, <2>1
<1>6. ASSUME NEW i \in 1..l
      PROVE  /\ u.symbols[i].path = components[i].path
             /\ u.symbols[i].tags = EffectiveTags(index, components[i].path)
             /\ \E w : w.enums = enums /\ u.symbols[i].vt = ValueType(w, index, components[i])
  <2>1. CASE i = l
    BY <1>2, <1>3, <1>4, <1>5, <2>1
  <2>2. CASE i # l
    <3>1. i \in 1..k
      BY <2>2
    <3>2. u.symbols[i] = t.symbols[i]
      BY <1>4, <1>5, <3>1
    <3> QED BY <3>1, <3>2 DEF HoldsFirst
  <2> QED BY <2>1, <2>2
<1>7. DOMAIN u.symbols = 1..l
  BY <1>4, <1>5
<1> QED BY <1>3, <1>4, <1>6, <1>7 DEF HoldsFirst

LEMMA EnumsOnly ==
  ASSUME NEW e, NEW t, t = WithEnums(EmptyTable, e), NEW index, NEW components
  PROVE  HoldsFirst(t, e.enums, index, components, 0)
<1>1. Indexed(t) /\ t.symbols = <<>>
  BY EmptyIsIndexed, EnumsApart DEF EmptyTable
<1>2. t.enums = e.enums
  BY DEF WithEnums, EmptyTable
<1> QED BY <1>1, <1>2 DEF HoldsFirst

(* What FromProject puts together.                                         *)
PushSteps(f, t, index, components, k) ==
  f = [n \in 0..k |-> IF n = 0 THEN t
                      ELSE Push(f[n - 1], SymbolOf(f[n - 1], index, components[n]))]

LEMMA PushStepsExist ==
  ASSUME NEW t, NEW index, NEW components, NEW k \in Nat
  PROVE  \E f : PushSteps(f, t, index, components, k)
<1> DEFINE T == {m \in Nat : ~\E f : PushSteps(f, t, index, components, m)}
<1> SUFFICES ASSUME T # {} PROVE FALSE
  OBVIOUS
<1>1. T \subseteq Nat
  OBVIOUS
<1>2. PICK m \in T : \A y \in T : m <= y
  <2> HIDE DEF T
  <2> QED BY <1>1, Least
<1>3. m \in Nat /\ ~\E f : PushSteps(f, t, index, components, m)
  OBVIOUS
<1>4. CASE m = 0
  <2> DEFINE f == [n \in 0..0 |-> t]
  <2>1. PushSteps(f, t, index, components, 0)
    BY DEF PushSteps
  <2> QED BY <1>3, <1>4, <2>1
<1>5. CASE m # 0
  <2>1. m - 1 \in Nat /\ m - 1 \notin T
    BY <1>2, <1>3, <1>5
  <2>2. PICK g : PushSteps(g, t, index, components, m - 1)
    BY <2>1
  <2> DEFINE f == [n \in 0..m |-> IF n = 0 THEN t
                     ELSE Push(g[n - 1], SymbolOf(g[n - 1], index, components[n]))]
  <2>3. \A n \in 0..(m - 1) : f[n] = g[n]
    <3>1. 0..(m - 1) \subseteq 0..m
      BY <1>3
    <3> QED BY <2>2, <3>1 DEF PushSteps
  <2>4. \A n \in 0..m : n # 0 => f[n - 1] = g[n - 1]
    <3>1. \A n \in 0..m : n # 0 => n - 1 \in 0..(m - 1)
      BY <1>3
    <3> HIDE DEF f
    <3> QED BY <2>3, <3>1
  <2>5. PushSteps(f, t, index, components, m)
    BY <2>4 DEF PushSteps
  <2> QED BY <1>3, <2>5
<1> QED BY <1>4, <1>5

LEMMA FromProjectHolds ==
  ASSUME NEW types, NEW components \in Seq(PrjComponent)
  PROVE  HoldsFirst(FromProject(types, components), ParseEnums(types, components).enums,
                    ProjectIndex(components), components, Len(components))
<1>1. PICK k \in Nat : k = Len(components)
  BY LenProperties
<1>2. PICK e, t, index : /\ e = ParseEnums(types, components)
                         /\ t = WithEnums(EmptyTable, e)
                         /\ index = ProjectIndex(components)
  OBVIOUS
<1>3. PICK f : f = CHOOSE g : PushSteps(g, t, index, components, k)
  OBVIOUS
<1>4. PushSteps(f, t, index, components, k)
  BY <1>3, PushStepsExist
<1>5. FromProject(types, components) = f[k]
  BY <1>1, <1>2, <1>3 DEF FromProject, PushSteps
<1>6. /\ f[0] = t
      /\ \A n \in 1..k : f[n] = Push(f[n - 1], SymbolOf(f[n - 1], index, components[n]))
  <2>1. 0 \in 0..k /\ \A n \in 1..k : n \in 0..k /\ n # 0
    OBVIOUS
  <2> QED BY <1>4, <2>1 DEF PushSteps
<1> DEFINE T == {m \in 0..k : ~HoldsFirst(f[m], e.enums, index, components, m)}
<1>7. T = {}
  <2> SUFFICES ASSUME T # {} PROVE FALSE
    OBVIOUS
  <2>1. T \subseteq Nat
    OBVIOUS
  <2>2. PICK m \in T : \A y \in T : m <= y
    <3> HIDE DEF T
    <3> QED BY <2>1, Least
  <2>3. m \in 0..k /\ ~HoldsFirst(f[m], e.enums, index, components, m)
    OBVIOUS
  <2>4. m # 0
    BY <1>2, <1>6, <2>3, EnumsOnly
  <2>5. m \in 1..k /\ m - 1 \in 0..k /\ m - 1 \notin T
    BY <2>2, <2>3, <2>4
  <2>6. PICK u, l : l \in Nat /\ l = m - 1 /\ u = f[l] /\ HoldsFirst(u, e.enums, index, components, l)
    <3>1. PICK l : l = m - 1
      OBVIOUS
    <3>2. l \in Nat /\ HoldsFirst(f[l], e.enums, index, components, l)
      BY <2>5, <3>1
    <3> QED BY <3>1, <3>2
  <2>7. f[m] = Push(u, SymbolOf(u, index, components[m])) /\ m = l + 1
    BY <1>6, <2>5, <2>6
  <2> QED BY <2>3, <2>6, <2>7, HoldsOneMore
<1>8. k \in 0..k
  OBVIOUS
<1> QED BY <1>1, <1>2, <1>5, <1>7, <1>8

(* While the components are read the table holds those read.               *)
ProjectInv ==
  phase = "components" =>
    HoldsFirst(table, ParseEnums(input.types, input.components).enums,
               ProjectIndex(input.components), input.components, Count)

LEMMA ProjectStep ==
  ASSUME IndexInv, ProjectInv, phase = "enums" => table = EmptyTable, [Next]_vars
  PROVE  ProjectInv'
<1>1. CASE RegisterEnums
  <2>1. PICK e, t : /\ e = ParseEnums(input.types, input.components)
                    /\ t = WithEnums(EmptyTable, e) /\ table' = t
    BY <1>1 DEF RegisterEnums
  <2>2. input' = input /\ Count' = 0
    BY <1>1 DEF RegisterEnums, Enter, Count
  <2> QED BY <2>1, <2>2, EnumsOnly DEF ProjectInv
<1>2. CASE PushComponent
  <2>1. /\ Count \in Nat /\ at = Count + 1 /\ Count' = at /\ input' = input
        /\ phase = "components"
    BY <1>2, OneMore DEF PushComponent
  <2>2. PICK u, index : /\ index = ProjectIndex(input.components) /\ table' = u
                        /\ u = Push(table, SymbolOf(table, index, input.components[at]))
    BY <1>2 DEF PushComponent
  <2>3. PICK enums, k : /\ enums = ParseEnums(input.types, input.components).enums
                        /\ k \in Nat /\ k = Count /\ at = k + 1
    BY <2>1
  <2>4. HoldsFirst(table, enums, index, input.components, k)
    BY <2>1, <2>2, <2>3 DEF ProjectInv
  <2>5. HoldsFirst(u, enums, index, input.components, at)
    BY <2>2, <2>3, <2>4, HoldsOneMore
  <2> QED BY <2>1, <2>2, <2>3, <2>5 DEF ProjectInv
<1>3. CASE phase' # "components"
  BY <1>3 DEF ProjectInv
<1>4. CASE UNCHANGED vars
  BY <1>4 DEF ProjectInv, Count, vars
<1>5. CASE EndProject \/ ApplyParameter \/ EndParameters \/ ApplyTables \/ EndConfig
           \/ AugmentDbc \/ EndDbcs
  <2>1. phase' # "components"
    BY <1>5 DEF EndProject, ApplyParameter, EndParameters, ApplyTables, EndConfig,
                AugmentDbc, EndDbcs, Enter
  <2> QED BY <2>1 DEF ProjectInv
<1> QED BY <1>1, <1>2, <1>4, <1>5 DEF Next

(* The order of the components in the .m1prj decides nothing about a       *)
(* symbol's type and tags, which is what the pre-passes of index.rs and    *)
(* parse_enums are for.                                                    *)
THEOREM OrderIsFree == Spec => []OrderFree
<1> DEFINE EmptyFirst == phase = "enums" => table = EmptyTable
<1>1. Init => ProjectInv /\ EmptyFirst
  BY DEF Init, ProjectInv
<1>2. IndexInv /\ ProjectInv /\ EmptyFirst /\ [Next]_vars => ProjectInv' /\ EmptyFirst'
  <2>1. EmptyFirst /\ [Next]_vars => EmptyFirst'
    BY DEF Next, vars, RegisterEnums, PushComponent, EndProject, ApplyParameter, EndParameters,
           ApplyTables, EndConfig, AugmentDbc, EndDbcs, Enter
  <2> QED BY <2>1, ProjectStep
<1>3. IndexInv /\ SourceInv /\ ProjectInv => OrderFree
  <2> SUFFICES ASSUME IndexInv, SourceInv, ProjectInv, phase = "components",
                      at > Len(input.components), Unique(input.components),
                      NEW path \in DOMAIN table.byPath,
                      NEW back, back = Reverse(input.components),
                      NEW reversed, reversed = FromProject(input.types, back),
                      NEW here, here = Get(table, path),
                      NEW there, there = Get(reversed, path)
               PROVE  /\ SameName(TypeName(table, here), TypeName(reversed, there))
                      /\ here.tags = there.tags
    BY DEF OrderFree
  <2>1. PICK n \in Nat : n = Len(input.components)
    BY DocumentParts
  <2>2. Count = n
    BY <2>1 DEF IndexInv, SourceInv, Count
  <2>3. /\ input.components \in Seq(PrjComponent) /\ input.types \in Seq(EnumEntry)
        /\ DOMAIN input.components = 1..n
    BY <2>1, DocumentParts, DocumentsAssumption DEF IndexInv
  <2>4. /\ back \in Seq(PrjComponent) /\ Len(back) = n
        /\ \A i \in 1..n : back[i] = input.components[n - i + 1] /\ n - i + 1 \in 1..n
    BY <2>1, <2>3, ReverseParts
  <2>5. PICK index, e, b : /\ index = ProjectIndex(input.components) /\ index = ProjectIndex(back)
                           /\ e = ParseEnums(input.types, input.components)
                           /\ b = ParseEnums(input.types, back)
    BY <2>3, IndexReversed
  <2>6. HoldsFirst(table, e.enums, index, input.components, n)
    BY <2>2, <2>5 DEF ProjectInv
  <2>7. HoldsFirst(reversed, b.enums, index, back, n)
    BY <2>4, <2>5, FromProjectHolds
  <2>8. PICK i \in 1..n : i = table.byPath[path] /\ here = table.symbols[i] /\ here.path = path
    BY <2>6 DEF HoldsFirst, Indexed, Get
  <2>9. PICK c : c = input.components[i] /\ c.path = path
    BY <2>6, <2>8 DEF HoldsFirst
  <2>10. PICK j \in 1..n : there = reversed.symbols[j] /\ there.path = path
    <3>1. PICK k \in 1..n : k = n - i + 1
      BY <2>4
    <3>2. back[k] = c
      <4>1. n - k + 1 = i
        BY <3>1
      <4> QED BY <2>4, <2>9, <4>1
    <3>3. reversed.symbols[k].path = path
      BY <2>7, <2>9, <3>2 DEF HoldsFirst
    <3>4. path \in DOMAIN reversed.byPath
      BY <2>7, <3>3 DEF HoldsFirst, Indexed
    <3> QED BY <2>7, <3>4 DEF HoldsFirst, Indexed, Get
  <2>11. back[j] = c
    <3>1. back[j].path = path
      BY <2>7, <2>10 DEF HoldsFirst
    <3>2. PICK l \in 1..n : l = n - j + 1 /\ back[j] = input.components[l]
      BY <2>4
    <3>3. l = i
      BY <2>3, <2>9, <3>1, <3>2 DEF Unique
    <3> QED BY <2>9, <3>2, <3>3
  <2>12. here.tags = there.tags
    BY <2>6, <2>7, <2>8, <2>9, <2>10, <2>11 DEF HoldsFirst
  <2>13. PICK w : w.enums = e.enums /\ here.vt = ValueType(w, index, c)
    BY <2>6, <2>8, <2>9 DEF HoldsFirst
  <2>14. PICK x : x.enums = b.enums /\ there.vt = ValueType(x, index, c)
    BY <2>7, <2>10, <2>11 DEF HoldsFirst
  <2>15. SameAnswers(e, b)
    BY <2>3, <2>5, EnumsAgree
  <2>16. SameName(NameOfType(w, here.vt), NameOfType(x, there.vt))
    BY <2>13, <2>14, <2>15, AnswersCarried, TypesAlike
  <2>17. table.enums = w.enums /\ reversed.enums = x.enums
    BY <2>6, <2>7, <2>13, <2>14 DEF HoldsFirst
  <2>18. /\ TypeName(table, here) = NameOfType(w, here.vt)
         /\ TypeName(reversed, there) = NameOfType(x, there.vt)
    BY <2>17 DEF TypeName, NameOfType
  <2> QED BY <2>12, <2>16, <2>18
<1> QED BY <1>1, <1>2, <1>3, SourcesKept, PTL DEF Spec
=============================================================================
