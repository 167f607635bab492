------------------------- MODULE CrossScriptProofs -------------------------
(***************************************************************************)
(* The cross-script solver, for any number of channels and scripts and any *)
(* write summaries: its types, the forest of its causes, that its sweep    *)
(* implements TaintPropagation, hence returns the least fixpoint, and that *)
(* every chain it renders follows real writes back to a source.            *)
(***************************************************************************)
EXTENDS CrossScript, SequenceTheorems, TLAPS

LEMMA OriginFacts == /\ Own \in Origin /\ Own \notin Channel
                     /\ Channel \subseteq Origin
                     /\ Loop \notin Origin
BY CountsAssumption DEF Own, Origin, Channel, Loop

WalkType == [of : Origin, cur : Origin, visited : SUBSET Channel]

LEMMA NoWalkType == NoWalk \in WalkType
<1>1. Own \in Origin
  BY DEF Origin
<1>2. {} \in SUBSET Channel
  OBVIOUS
<1>3. QED
  BY <1>1, <1>2 DEF NoWalk, WalkType

(* What the contributions are, element by element.                         *)
LEMMA ContributionParts ==
  \A k : k \in Contributions <=>
    \E c \in Channel : \E i \in DOMAIN writers[c] :
      \E d \in {Own} \cup Reads(c, i) : k = <<c, i, d>>
BY DEF Contributions

LEMMA DepsAreChannels ==
  ASSUME NEW t \in Taint
  PROVE  DOMAIN t.deps \in SUBSET Channel /\ t.deps \in [DOMAIN t.deps -> BOOLEAN]
<1>1. t.deps \in Deps
  BY DEF Taint
<1>2. PICK D \in SUBSET Channel : t.deps \in [D -> BOOLEAN]
  BY <1>1 DEF Deps
<1>3. QED
  BY <1>2

(* Where each contribution leads: a channel, one of its writers, and a     *)
(* source that is Own or one of the channels the written value reads.      *)
LEMMA ContributionTypes ==
  ASSUME TypeOK, NEW k \in Contributions
  PROVE  /\ k[1] \in Channel
         /\ k[2] \in DOMAIN writers[k[1]]
         /\ writers[k[1]][k[2]] \in Writer
         /\ k[3] = Own \/ (k[3] \in Channel /\ k[3] # Own /\ k[3] \in Reads(k[1], k[2]))
<1>1. PICK c \in Channel : \E i \in DOMAIN writers[c] :
        \E d \in {Own} \cup Reads(c, i) : k = <<c, i, d>>
  BY ContributionParts
<1>2. PICK i \in DOMAIN writers[c] :
        \E d \in {Own} \cup Reads(c, i) : k = <<c, i, d>>
  BY <1>1
<1>3. PICK d \in {Own} \cup Reads(c, i) : k = <<c, i, d>>
  BY <1>2
<1>4. writers[c] \in Seq(Writer)
  BY DEF TypeOK
<1>5. writers[c][i] \in Writer
  BY <1>4
<1>6. DOMAIN writers[c][i].taint.deps \in SUBSET Channel
  BY <1>5, DepsAreChannels DEF Writer
<1>7. QED
  BY <1>3, <1>5, <1>6, OriginFacts DEF Reads

(* Joining a contribution keeps an entry an entry.                         *)
LEMMA UpgradedType ==
  ASSUME NEW entry \in Entry \cup {Untainted}, NEW latched \in BOOLEAN,
         NEW cause \in Cause
  PROVE  /\ Upgraded(entry, latched, cause) \in Entry
         /\ Upgraded(entry, latched, cause) # Untainted
BY UntaintedAssumption DEF Upgraded, Entry

LEMMA ContributeType ==
  ASSUME TypeOK, NEW k \in Contributions, Gives(k)
  PROVE  /\ GivesLatched(k) \in BOOLEAN
         /\ CauseOf(k) \in Cause
<1>1. writers[k[1]][k[2]] \in Writer
  BY ContributionTypes
<1>2. writers[k[1]][k[2]].taint \in Taint /\ writers[k[1]][k[2]].script \in Script
  BY <1>1 DEF Writer
<1>3. CauseOf(k) \in Cause
  BY <1>2, ContributionTypes, OriginFacts DEF CauseOf, Cause
<1>4. CASE k[3] = Own
  BY <1>2, <1>3, <1>4 DEF GivesLatched, Taint
<1>5. CASE k[3] # Own
  <2>1. k[3] \in Channel /\ k[3] \in DOMAIN writers[k[1]][k[2]].taint.deps
    BY <1>5, ContributionTypes DEF Reads
  <2>2. writers[k[1]][k[2]].taint.deps[k[3]] \in BOOLEAN
    BY <1>2, <2>1, DepsAreChannels
  <2>3. state[k[3]] \in Entry
    BY <1>5, <2>1 DEF Gives, IsTainted, TypeOK
  <2>4. QED
    BY <1>3, <1>5, <2>2, <2>3 DEF GivesLatched, Entry
<1>6. QED
  BY <1>4, <1>5

LEMMA CollectedType ==
  ASSUME TypeOK, NEW s \in Script
  PROVE  Collected(s) \in [Channel -> Seq(Writer)]
<1>1. ASSUME NEW c \in Channel
      PROVE  writers[c] \o [i \in DOMAIN project[s].writes[c] |->
                              [script |-> s, taint |-> project[s].writes[c][i]]]
             \in Seq(Writer)
  <2>1. project[s].writes[c] \in Seq(Taint)
    BY DEF TypeOK, Summary
  <2>2. [i \in DOMAIN project[s].writes[c] |->
           [script |-> s, taint |-> project[s].writes[c][i]]] \in Seq(Writer)
    <3> DEFINE written == project[s].writes[c]
               record  == [i \in DOMAIN written |->
                             [script |-> s, taint |-> written[i]]]
    <3>1. Len(written) \in Nat /\ DOMAIN written = 1..Len(written)
      BY <2>1, LenProperties
    <3>2. \A i \in 1..Len(written) : written[i] \in Taint
      BY <2>1, ElementOfSeq
    <3>3. record \in [1..Len(written) -> Writer]
      BY <3>1, <3>2 DEF Writer
    <3>4. QED
      BY <3>1, <3>3, SeqDef
  <2>3. writers[c] \in Seq(Writer)
    BY DEF TypeOK
  <2>4. QED
    BY <2>2, <2>3, ConcatProperties
<1>2. QED
  BY <1>1 DEF Collected

(* The contributions are a function of `writers` alone.                    *)
LEMMA ContributionsKept ==
  ASSUME UNCHANGED writers
  PROVE  Contributions' = Contributions
BY DEF Contributions, Reads

(* Type correctness of the solver: `TypeOK` of the run.                    *)
THEOREM TypeCorrect == Spec => []TypeOK
<1>1. Init => TypeOK
  <2> SUFFICES ASSUME Init PROVE TypeOK
    OBVIOUS
  <2>1. project \in [Script -> Summary] /\ phase \in Phase /\ changed \in BOOLEAN
    BY ProjectsAssumption DEF Init, Phase
  <2>2. nextScript \in 1..(NumScripts + 1)
    BY CountsAssumption DEF Init
  <2>3. /\ writers \in [Channel -> Seq(Writer)]
        /\ chains \in [Channel -> Seq(Link)]
    BY EmptySeq DEF Init
  <2>4. /\ state \in [Channel -> Entry \cup {Untainted}]
        /\ pending \subseteq IF phase = "collect" THEN {} ELSE Contributions
    BY DEF Init
  <2>5. walk = NoWalk /\ walk \in WalkType
    BY NoWalkType DEF Init
  <2>6. QED
    BY <2>1, <2>2, <2>3, <2>4, <2>5 DEF TypeOK, WalkType
<1>2. TypeOK /\ [Next]_vars => TypeOK'
  <2> SUFFICES ASSUME TypeOK, [Next]_vars PROVE TypeOK'
    OBVIOUS
  <2>1. CASE Collect
    <3>1. nextScript \in Script
      BY <2>1, CountsAssumption DEF Collect, TypeOK, Script
    <3>2. writers' \in [Channel -> Seq(Writer)]
      BY <2>1, <3>1, CollectedType DEF Collect, TypeOK
    <3>3. nextScript' \in 1..(NumScripts + 1)
      BY <2>1, <3>1, CountsAssumption DEF Collect, Script
    <3>4. pending' = {}
      BY <2>1 DEF Collect, TypeOK
    <3>5. QED
      BY <2>1, <3>2, <3>3, <3>4 DEF Collect, TypeOK
  <2>2. CASE BeginFixpoint \/ SweepAgain
    <3>1. pending' = Contributions'
      BY <2>2, ContributionsKept DEF BeginFixpoint, SweepAgain
    <3>2. QED
      BY <2>2, <3>1 DEF BeginFixpoint, SweepAgain, TypeOK, Phase
  <2>3. ASSUME NEW k \in pending, Contribute(k) PROVE TypeOK'
    <3>1. k \in Contributions /\ phase = "sweep"
      BY <2>3 DEF Contribute, TypeOK
    <3>2. state' \in [Channel -> Entry \cup {Untainted}]
      <4>1. CASE ~Gives(k)
        BY <2>3, <4>1 DEF Contribute, TypeOK
      <4>2. CASE Gives(k)
        <5>1. Upgraded(state[k[1]], GivesLatched(k), CauseOf(k)) \in Entry
          BY <3>1, <4>2, ContributionTypes, ContributeType, UpgradedType
             DEF TypeOK
        <5>2. QED
          BY <2>3, <4>2, <5>1 DEF Contribute, TypeOK
      <4>3. QED
        BY <4>1, <4>2
    <3>3. changed' \in BOOLEAN
      BY <2>3 DEF Contribute
    <3>4. pending' \subseteq Contributions'
      BY <2>3, <3>1, ContributionsKept DEF Contribute, TypeOK
    <3>5. QED
      BY <2>3, <3>1, <3>2, <3>3, <3>4 DEF Contribute, TypeOK
  <2>4. CASE EndFixpoint \/ Finish
    <3>1. Contributions' = Contributions
      BY <2>4, ContributionsKept DEF EndFixpoint, Finish
    <3>2. QED
      BY <2>4, <3>1 DEF EndFixpoint, Finish, TypeOK, Phase
  <2>5. ASSUME NEW c \in Unrendered, StartChain(c) PROVE TypeOK'
    <3>1. Contributions' = Contributions
      BY <2>5, ContributionsKept DEF StartChain
    <3>2. c \in Channel
      BY DEF Unrendered
    <3>3. QED
      BY <2>5, <3>1, <3>2, OriginFacts DEF StartChain, TypeOK
  <2>6. CASE WalkChain
    <3>1. Contributions' = Contributions
      BY <2>6, ContributionsKept DEF WalkChain
    <3>2. walk.cur \in Channel /\ walk.of \in Channel /\ walk.visited \subseteq Channel
      BY <2>6 DEF WalkChain, TypeOK
    <3>3. CASE walk.cur \in walk.visited
      <4>1. [channel |-> walk.cur, from |-> Loop] \in Link
        BY <3>2 DEF Link
      <4>2. chains' = [chains EXCEPT ![walk.of] =
                         Append(@, [channel |-> walk.cur, from |-> Loop])]
            /\ walk' = NoWalk
        BY <2>6, <3>3 DEF WalkChain
      <4>3. chains' \in [Channel -> Seq(Link)]
        BY <3>2, <4>1, <4>2 DEF TypeOK
      <4>4. QED
        BY <2>6, <3>1, <4>2, <4>3, NoWalkType DEF WalkChain, TypeOK, WalkType
    <3>4. CASE walk.cur \notin walk.visited /\ ~IsTainted(walk.cur)
      BY <2>6, <3>1, <3>4, NoWalkType DEF WalkChain, TypeOK, WalkType
    <3>5. CASE walk.cur \notin walk.visited /\ IsTainted(walk.cur)
      <4> DEFINE from == state[walk.cur].cause.from
      <4>1. from \in Origin
        BY <3>2, <3>5 DEF IsTainted, TypeOK, Entry, Cause
      <4>2. [channel |-> walk.cur, from |-> from] \in Link
        BY <3>2, <4>1 DEF Link
      <4>3. chains' = [chains EXCEPT ![walk.of] =
                         Append(@, [channel |-> walk.cur, from |-> from])]
        BY <2>6, <3>5 DEF WalkChain
      <4>4. chains' \in [Channel -> Seq(Link)]
        BY <3>2, <4>2, <4>3 DEF TypeOK
      <4>5. walk' = NoWalk \/
            /\ walk' = [walk EXCEPT !.cur = from, !.visited = @ \cup {walk.cur}]
            /\ from \in Channel
        BY <2>6, <3>5, <4>1 DEF WalkChain, Origin
      <4>6. /\ walk' \in [of : Origin, cur : Origin, visited : SUBSET Channel]
            /\ walk' = NoWalk \/ (walk'.of \in Channel /\ walk'.cur \in Channel)
        <5>1. CASE walk' = NoWalk
          BY <5>1, NoWalkType DEF WalkType
        <5>2. CASE walk' # NoWalk
          BY <3>2, <4>1, <4>5, <5>2 DEF TypeOK
        <5>3. QED
          BY <5>1, <5>2
      <4>7. QED
        BY <2>6, <3>1, <4>4, <4>6 DEF WalkChain, TypeOK
    <3>6. QED
      BY <3>3, <3>4, <3>5
  <2>7. CASE UNCHANGED vars
    <3>1. Contributions' = Contributions
      BY <2>7, ContributionsKept DEF vars
    <3>2. QED
      BY <2>7, <3>1 DEF vars, TypeOK
  <2>8. QED
    BY <2>1, <2>2, <2>3, <2>4, <2>5, <2>6, <2>7 DEF Next, Done
<1>3. QED
  BY <1>1, <1>2, PTL DEF Spec
----------------------------------------------------------------------------
(* Only a contribution changes the state map, and only at its channel.     *)
LEMMA StateChange ==
  ASSUME TypeOK, [Next]_vars
  PROVE  \/ state' = state
         \/ \E k \in Contributions :
              /\ phase = "sweep" /\ k \in pending /\ Contribute(k)
              /\ Gives(k)
              /\ state' = [state EXCEPT ![k[1]] =
                             Upgraded(@, GivesLatched(k), CauseOf(k))]
<1>1. ASSUME NEW k \in pending, Contribute(k), state' # state
      PROVE  /\ k \in Contributions /\ phase = "sweep" /\ Gives(k)
             /\ state' = [state EXCEPT ![k[1]] =
                            Upgraded(@, GivesLatched(k), CauseOf(k))]
  BY <1>1 DEF Contribute, TypeOK
<1>2. ASSUME state' # state PROVE \E k \in pending : Contribute(k)
  BY <1>2 DEF Next, Collect, BeginFixpoint, SweepAgain, EndFixpoint,
              StartChain, WalkChain, Finish, Done, vars
<1>3. QED
  BY <1>1, <1>2

(* Upgrading keeps the cause and the latch of a channel already tainted.   *)
LEMMA UpgradeKeeps ==
  ASSUME NEW entry \in Entry, NEW latched \in BOOLEAN, NEW cause \in Cause
  PROVE  /\ Upgraded(entry, latched, cause).cause = entry.cause
         /\ Upgraded(entry, latched, cause).latched = (entry.latched \/ latched)
BY UntaintedAssumption DEF Upgraded, Entry

LEMMA UpgradeFirst ==
  ASSUME NEW latched \in BOOLEAN, NEW cause \in Cause
  PROVE  /\ Upgraded(Untainted, latched, cause).cause = cause
         /\ Upgraded(Untainted, latched, cause).latched = latched
BY DEF Upgraded

(* Taint, cause and latch of a channel survive every step.                 *)
LEMMA StateGrows ==
  ASSUME TypeOK, [Next]_vars, NEW c \in Channel, IsTainted(c)
  PROVE  /\ state'[c] # Untainted
         /\ state'[c].cause = state[c].cause
         /\ state[c].latched => state'[c].latched
<1>1. CASE state' = state
  BY <1>1 DEF IsTainted
<1>2. CASE state' # state
  <2>1. PICK k \in Contributions :
          /\ Gives(k)
          /\ state' = [state EXCEPT ![k[1]] =
                         Upgraded(@, GivesLatched(k), CauseOf(k))]
    BY <1>2, StateChange
  <2>2. CASE c # k[1]
    BY <2>1, <2>2 DEF IsTainted, TypeOK
  <2>3. CASE c = k[1]
    <3>1. state[c] \in Entry
      BY DEF IsTainted, TypeOK
    <3>2. GivesLatched(k) \in BOOLEAN /\ CauseOf(k) \in Cause
      BY <2>1, ContributeType
    <3>3. state'[c] = Upgraded(state[c], GivesLatched(k), CauseOf(k))
      BY <2>1, <2>3 DEF TypeOK
    <3>4. state'[c] # Untainted
      BY <3>1, <3>2, <3>3, UpgradedType
    <3>5. /\ state'[c].cause = state[c].cause
          /\ state'[c].latched = (state[c].latched \/ GivesLatched(k))
      BY <3>1, <3>2, <3>3, UpgradeKeeps
    <3>6. state[c].latched \in BOOLEAN
      BY <3>1 DEF Entry
    <3>7. QED
      BY <3>2, <3>4, <3>5, <3>6
  <2>4. QED
    BY <2>2, <2>3
<1>3. QED
  BY <1>1, <1>2

(* Once a channel is tainted no step takes its taint or latch back, or     *)
(* rewrites the cause it was first tainted by.                             *)
THEOREM FirstCauseKept == Spec => FirstCauseWins
<1>1. TypeOK /\ [Next]_vars =>
        [\A c \in Channel :
           IsTainted(c) => /\ state'[c] # Untainted
                           /\ state'[c].cause = state[c].cause
                           /\ state[c].latched => state'[c].latched]_vars
  BY StateGrows
<1>2. QED
  BY <1>1, TypeCorrect, PTL DEF Spec, FirstCauseWins
----------------------------------------------------------------------------
(* A cause is Own or a channel tainted before: with it, the forest of      *)
(* causes is inductive, because the channel a step adds is nobody's cause. *)
CauseKnown ==
  \A c \in TaintedChannels :
    state[c].cause.from = Own \/ state[c].cause.from \in TaintedChannels

LEMMA ForestStep ==
  ASSUME TypeOK, [Next]_vars, CauseKnown, CauseForest
  PROVE  CauseKnown' /\ CauseForest'
<1>1. CASE state' = state
  BY <1>1 DEF CauseKnown, CauseForest, TaintedChannels, IsTainted
<1>2. CASE state' # state
  <2>1. PICK k \in Contributions :
          /\ Gives(k)
          /\ state' = [state EXCEPT ![k[1]] =
                         Upgraded(@, GivesLatched(k), CauseOf(k))]
    BY <1>2, StateChange
  <2> DEFINE x == k[1]
  <2>2. x \in Channel /\ GivesLatched(k) \in BOOLEAN /\ CauseOf(k) \in Cause
    BY <2>1, ContributionTypes, ContributeType
  <2>3. state'[x] = Upgraded(state[x], GivesLatched(k), CauseOf(k))
    BY <2>1, <2>2 DEF TypeOK
  <2>4. state'[x] # Untainted
    BY <2>2, <2>3, UpgradedType DEF TypeOK
  <2>5. \A c \in Channel : c # x => state'[c] = state[c]
    BY <2>1 DEF TypeOK
  <2>6. TaintedChannels' = TaintedChannels \cup {x}
    BY <2>2, <2>4, <2>5 DEF TaintedChannels, IsTainted
  <2>7. CASE IsTainted(x)
    <3>1. TaintedChannels' = TaintedChannels
      BY <2>2, <2>6, <2>7 DEF TaintedChannels
    <3>2. \A c \in TaintedChannels : state'[c].cause = state[c].cause
      BY StateGrows DEF TaintedChannels
    <3>3. QED
      BY <3>1, <3>2 DEF CauseKnown, CauseForest
  <2>8. CASE ~IsTainted(x)
    <3> DEFINE from == state'[x].cause.from
    <3>1. from = k[3]
      BY <2>2, <2>3, <2>8, UpgradeFirst DEF IsTainted, CauseOf
    <3>2. from = Own \/ from \in TaintedChannels
      BY <2>1, <3>1, ContributionTypes DEF Gives, TaintedChannels
    <3>3. x \notin TaintedChannels /\ x # Own
      BY <2>2, <2>8, OriginFacts DEF TaintedChannels
    <3>4. \A c \in TaintedChannels : state'[c] = state[c]
      BY <2>5, <3>3 DEF TaintedChannels
    <3>5. CauseKnown'
      BY <2>6, <3>2, <3>4 DEF CauseKnown
    <3>6. ASSUME NEW S \in SUBSET TaintedChannels', S # {}
          PROVE  \E c \in S : state'[c].cause.from \notin S
      <4>1. CASE S \subseteq TaintedChannels
        BY <3>4, <3>6, <4>1 DEF CauseForest
      <4>2. CASE S = {x}
        BY <3>2, <3>3, <4>2
      <4>3. CASE x \in S /\ S \ {x} # {}
        <5>1. S \ {x} \in SUBSET TaintedChannels
          BY <2>6
        <5>2. PICK c \in S \ {x} : state[c].cause.from \notin S \ {x}
          BY <4>3, <5>1 DEF CauseForest
        <5>3. state[c].cause.from # x
          BY <3>3, <5>1, <5>2 DEF CauseKnown
        <5>4. QED
          BY <3>4, <5>1, <5>2, <5>3
      <4>4. QED
        BY <2>6, <3>6, <4>1, <4>2, <4>3
    <3>7. QED
      BY <3>5, <3>6 DEF CauseForest
  <2>9. QED
    BY <2>7, <2>8
<1>3. QED
  BY <1>1, <1>2

(* The comment on `render`: first-cause-wins makes the cause graph a       *)
(* forest rooted at local causes.                                          *)
THEOREM CausesFormForest == Spec => [](CauseKnown /\ CauseForest)
<1>1. Init => CauseKnown /\ CauseForest
  BY DEF Init, CauseKnown, CauseForest, TaintedChannels, IsTainted
<1>2. QED
  BY <1>1, ForestStep, TypeCorrect, PTL DEF Spec
----------------------------------------------------------------------------
(* The sweep implements TaintPropagation: what `writers` holds is exactly  *)
(* what the analysable scripts write, a sweep that changed nothing has     *)
(* satisfied every contribution, and so the state map it hands to `render` *)
(* is the least fixpoint of the project's flow graph.                      *)
(* `writers` holds nothing but written values, and after script s has been *)
(* collected it holds all of s's.                                          *)
WritersSound ==
  \A c \in Channel : \A i \in DOMAIN writers[c] :
    writers[c][i].taint \in WrittenTo(c)

WritersComplete ==
  \A c \in Channel : \A s \in Script :
    s < nextScript /\ ~project[s].skipped =>
      \A i \in DOMAIN project[s].writes[c] :
        \E j \in DOMAIN writers[c] :
          writers[c][j].taint = project[s].writes[c][i]

CollectInv == /\ WritersSound
              /\ WritersComplete
              /\ phase # "collect" => nextScript > NumScripts

(* A contribution has been taken into account by the state map.            *)
Satisfied(k) ==
  Gives(k) => IsTainted(k[1]) /\ (GivesLatched(k) => state[k[1]].latched)

SweepInv ==
  /\ phase = "sweep" /\ ~changed =>
       \A k \in Contributions \ pending : Satisfied(k)
  /\ phase \in {"render", "done"} => \A k \in Contributions : Satisfied(k)
----------------------------------------------------------------------------
LEMMA WrittenParts ==
  ASSUME NEW c
  PROVE  \A t : t \in WrittenTo(c) <=>
           \E s \in Script : /\ ~project[s].skipped
                             /\ \E i \in DOMAIN project[s].writes[c] :
                                  t = project[s].writes[c][i]
BY DEF WrittenTo

(* A concatenation holds the elements of both sequences and no others, the *)
(* first sequence's at their old places.                                   *)
Joins(ab, a, b) ==
  /\ \A i \in DOMAIN a : i \in DOMAIN ab /\ ab[i] = a[i]
  /\ \A i \in DOMAIN b : \E j \in DOMAIN ab : ab[j] = b[i]
  /\ \A j \in DOMAIN ab : \/ j \in DOMAIN a /\ ab[j] = a[j]
                          \/ \E i \in DOMAIN b : ab[j] = b[i]

LEMMA ConcatJoins ==
  ASSUME NEW S, NEW a \in Seq(S), NEW b \in Seq(S), NEW ab, ab = a \o b
  PROVE  Joins(ab, a, b)
<1>1. /\ Len(a) \in Nat /\ DOMAIN a = 1..Len(a)
      /\ Len(b) \in Nat /\ DOMAIN b = 1..Len(b)
  BY LenProperties
<1>2. DOMAIN ab = 1..(Len(a) + Len(b))
  BY ConcatProperties, LenProperties
<1>3. \A i \in 1..(Len(a) + Len(b)) :
        ab[i] = IF i <= Len(a) THEN a[i] ELSE b[i - Len(a)]
  BY ConcatProperties
<1>4. \A i \in DOMAIN a : i \in DOMAIN ab /\ ab[i] = a[i]
  BY <1>1, <1>2, <1>3
<1>5. ASSUME NEW i \in DOMAIN b PROVE \E j \in DOMAIN ab : ab[j] = b[i]
  <2>1. i + Len(a) \in DOMAIN ab /\ ab[i + Len(a)] = b[i]
    BY <1>1, <1>2, <1>3
  <2>2. QED
    BY <2>1
<1>6. ASSUME NEW j \in DOMAIN ab
      PROVE  \/ j \in DOMAIN a /\ ab[j] = a[j]
             \/ \E i \in DOMAIN b : ab[j] = b[i]
  <2>1. CASE j <= Len(a)
    BY <1>1, <1>2, <1>3, <2>1
  <2>2. CASE ~(j <= Len(a))
    <3>1. j - Len(a) \in DOMAIN b /\ ab[j] = b[j - Len(a)]
      BY <1>1, <1>2, <1>3, <2>2
    <3>2. QED
      BY <3>1
  <2>3. QED
    BY <2>1, <2>2
<1>7. QED
  BY <1>4, <1>5, <1>6 DEF Joins

(* What collecting a script adds to the writers of a channel.              *)
LEMMA CollectedParts ==
  ASSUME TypeOK, NEW s \in Script, NEW c \in Channel
  PROVE  /\ \A i \in DOMAIN writers[c] :
              i \in DOMAIN Collected(s)[c] /\ Collected(s)[c][i] = writers[c][i]
         /\ \A i \in DOMAIN project[s].writes[c] :
              \E j \in DOMAIN Collected(s)[c] :
                Collected(s)[c][j].taint = project[s].writes[c][i]
         /\ \A j \in DOMAIN Collected(s)[c] :
              \/ /\ j \in DOMAIN writers[c]
                 /\ Collected(s)[c][j] = writers[c][j]
              \/ \E i \in DOMAIN project[s].writes[c] :
                   Collected(s)[c][j].taint = project[s].writes[c][i]
<1>1. PICK written : written = project[s].writes[c]
  OBVIOUS
<1>2. PICK record : record = [i \in DOMAIN written |->
                                [script |-> s, taint |-> written[i]]]
  OBVIOUS
<1>3. /\ written \in Seq(Taint) /\ writers[c] \in Seq(Writer)
      /\ Collected(s)[c] = writers[c] \o record
  BY <1>1, <1>2 DEF TypeOK, Summary, Collected
<1>4. /\ Len(written) \in Nat /\ DOMAIN written = 1..Len(written)
      /\ \A i \in 1..Len(written) : written[i] \in Taint
  BY <1>3, LenProperties, ElementOfSeq
<1>5. record \in [1..Len(written) -> Writer]
  BY <1>2, <1>4 DEF Writer
<1>6. record \in Seq(Writer)
  BY <1>4, <1>5, SeqDef
<1>7. DOMAIN record = DOMAIN written
      /\ \A i \in DOMAIN written : record[i].taint = written[i]
  BY <1>2
<1>8. PICK new : new = Collected(s)[c] /\ new = writers[c] \o record
  BY <1>3
<1>9. Joins(new, writers[c], record)
  BY <1>3, <1>6, <1>8, ConcatJoins
<1>10. \A i \in DOMAIN writers[c] : i \in DOMAIN new /\ new[i] = writers[c][i]
  BY <1>9 DEF Joins
<1>11. \A i \in DOMAIN written : \E j \in DOMAIN new : new[j].taint = written[i]
  BY <1>7, <1>9 DEF Joins
<1>12. \A j \in DOMAIN new : \/ j \in DOMAIN writers[c] /\ new[j] = writers[c][j]
                            \/ \E i \in DOMAIN written : new[j].taint = written[i]
  BY <1>7, <1>9 DEF Joins
<1>13. QED
  BY <1>1, <1>8, <1>10, <1>11, <1>12

LEMMA CollectStep ==
  ASSUME TypeOK, CollectInv, [Next]_vars
  PROVE  CollectInv'
<1>1. CASE Collect
  <2>1. nextScript \in Script /\ nextScript' = nextScript + 1
    BY <1>1, CountsAssumption DEF Collect, TypeOK, Script
  <2>2. project' = project /\ \A c : WrittenTo(c)' = WrittenTo(c)
    BY <1>1 DEF Collect, WrittenTo
  <2>3. phase' = "collect"
    BY <1>1 DEF Collect
  <2>4. CASE project[nextScript].skipped
    <3>1. writers' = writers
      BY <1>1, <2>4 DEF Collect
    <3>2. WritersSound'
      BY <2>2, <3>1 DEF CollectInv, WritersSound
    <3>3. WritersComplete'
      BY <2>1, <2>2, <2>4, <3>1 DEF CollectInv, WritersComplete, Script
    <3>4. QED
      BY <2>3, <3>2, <3>3 DEF CollectInv
  <2>5. CASE ~project[nextScript].skipped
    <3>1. writers' = Collected(nextScript)
      BY <1>1, <2>5 DEF Collect
    <3>2. ASSUME NEW c \in Channel, NEW j \in DOMAIN writers'[c]
          PROVE  writers'[c][j].taint \in WrittenTo(c)
      <4>1. CASE j \in DOMAIN writers[c] /\ writers'[c][j] = writers[c][j]
        BY <4>1 DEF CollectInv, WritersSound
      <4>2. CASE \E i \in DOMAIN project[nextScript].writes[c] :
                   writers'[c][j].taint = project[nextScript].writes[c][i]
        BY <2>1, <2>5, <4>2, WrittenParts
      <4>3. QED
        BY <2>1, <3>1, <3>2, <4>1, <4>2, CollectedParts
    <3>3. ASSUME NEW c \in Channel, NEW s \in Script,
                 s < nextScript + 1, ~project[s].skipped,
                 NEW i \in DOMAIN project[s].writes[c]
          PROVE  \E j \in DOMAIN writers'[c] :
                   writers'[c][j].taint = project[s].writes[c][i]
      <4>1. CASE s = nextScript
        BY <2>1, <3>1, <4>1, CollectedParts
      <4>2. CASE s < nextScript
        <5>1. PICK j \in DOMAIN writers[c] :
                writers[c][j].taint = project[s].writes[c][i]
          BY <3>3, <4>2 DEF CollectInv, WritersComplete
        <5>2. j \in DOMAIN writers'[c] /\ writers'[c][j] = writers[c][j]
          BY <2>1, <3>1, CollectedParts
        <5>3. QED
          BY <5>1, <5>2
      <4>3. QED
        BY <2>1, <3>3, <4>1, <4>2 DEF Script
    <3>4. QED
      BY <2>1, <2>2, <2>3, <3>2, <3>3
         DEF CollectInv, WritersSound, WritersComplete
  <2>6. QED
    BY <2>4, <2>5
<1>2. CASE ~Collect
  <2>1. UNCHANGED <<project, writers, nextScript>>
        /\ (phase' = phase \/ phase # "collect" \/ nextScript > NumScripts)
    BY <1>2 DEF Next, BeginFixpoint, SweepAgain, EndFixpoint, Contribute,
                StartChain, WalkChain, Finish, Done, vars
  <2>2. \A c : WrittenTo(c)' = WrittenTo(c)
    BY <2>1 DEF WrittenTo
  <2>3. QED
    BY <2>1, <2>2 DEF CollectInv, WritersSound, WritersComplete
<1>3. QED
  BY <1>1, <1>2
----------------------------------------------------------------------------
(* A contribution that gives nothing new leaves the state map as it is.    *)
LEMMA NoChangeIsIdle ==
  ASSUME TypeOK, NEW k \in pending, Contribute(k), ~changed'
  PROVE  ~changed /\ state' = state /\ Satisfied(k)
<1>1. k \in Contributions /\ ~changed
  BY DEF Contribute, TypeOK
<1>2. CASE ~Gives(k)
  BY <1>1, <1>2 DEF Contribute, Satisfied
<1>3. CASE Gives(k)
  <2>1. ~Changes(state[k[1]], GivesLatched(k))
    BY <1>3 DEF Contribute
  <2>2. /\ k[1] \in Channel /\ state[k[1]] \in Entry
        /\ GivesLatched(k) \in BOOLEAN /\ IsTainted(k[1])
    BY <1>1, <1>3, <2>1, ContributionTypes, ContributeType
       DEF Changes, TypeOK, IsTainted
  <2>3. state[k[1]].latched \in BOOLEAN
    BY <2>2 DEF Entry
  <2>4. (state[k[1]].latched \/ GivesLatched(k)) = state[k[1]].latched
    BY <2>1, <2>2, <2>3 DEF Changes
  <2>5. Upgraded(state[k[1]], GivesLatched(k), CauseOf(k)) = state[k[1]]
    BY <2>2, <2>4 DEF Upgraded, IsTainted, Entry
  <2>6. state' = state
    BY <1>3, <2>2, <2>5 DEF Contribute, TypeOK
  <2>7. GivesLatched(k) => state[k[1]].latched
    BY <2>2, <2>3, <2>4
  <2>8. QED
    BY <1>1, <2>2, <2>6, <2>7 DEF Satisfied
<1>4. QED
  BY <1>2, <1>3

LEMMA SatisfiedKept ==
  ASSUME UNCHANGED <<writers, state>>
  PROVE  /\ Contributions' = Contributions
         /\ \A k : Satisfied(k)' = Satisfied(k)
BY ContributionsKept DEF Satisfied, Gives, GivesLatched, IsTainted

LEMMA SweepStep ==
  ASSUME TypeOK, SweepInv, [Next]_vars
  PROVE  SweepInv'
<1>1. CASE Collect
  BY <1>1 DEF Collect, SweepInv
<1>2. CASE BeginFixpoint \/ SweepAgain
  <2>1. Contributions' = Contributions
    BY <1>2, ContributionsKept DEF BeginFixpoint, SweepAgain
  <2>2. QED
    BY <1>2, <2>1 DEF BeginFixpoint, SweepAgain, SweepInv
<1>3. ASSUME NEW k \in pending, Contribute(k) PROVE SweepInv'
  <2>1. phase' = "sweep"
    BY <1>3 DEF Contribute
  <2>2. ASSUME ~changed', NEW j \in (Contributions \ pending)'
        PROVE  Satisfied(j)'
    <3>1. /\ ~changed /\ UNCHANGED <<writers, state>> /\ Satisfied(k)
          /\ pending' = pending \ {k} /\ phase = "sweep"
      BY <1>3, <2>2, NoChangeIsIdle DEF Contribute
    <3>2. j \in Contributions \ pending \/ j = k
      BY <2>2, <3>1, SatisfiedKept
    <3>3. Satisfied(j)
      BY <3>1, <3>2 DEF SweepInv
    <3>4. QED
      BY <3>1, <3>3, SatisfiedKept
  <2>3. QED
    BY <2>1, <2>2 DEF SweepInv
<1>4. CASE EndFixpoint
  <2>1. /\ UNCHANGED <<writers, state>> /\ ~changed /\ pending = {}
        /\ phase = "sweep" /\ phase' = "render"
    BY <1>4 DEF EndFixpoint
  <2>2. \A k \in Contributions : Satisfied(k)
    BY <2>1 DEF SweepInv
  <2>3. QED
    BY <2>1, <2>2, SatisfiedKept DEF SweepInv
<1>5. CASE WalkChain \/ Finish \/ UNCHANGED vars
           \/ \E c \in Unrendered : StartChain(c)
  <2>1. /\ UNCHANGED <<writers, state, pending, changed>>
        /\ phase' = phase \/ (phase = "render" /\ phase' = "done")
    BY <1>5 DEF WalkChain, Finish, StartChain, vars
  <2>2. QED
    BY <2>1, SatisfiedKept DEF SweepInv
<1>6. QED
  BY <1>1, <1>2, <1>3, <1>4, <1>5 DEF Next, Done

(* The strengthening the refinement needs, as an invariant of the solver.  *)
THEOREM SolverInvariant == Spec => [](TypeOK /\ CollectInv /\ SweepInv)
<1>1. Init => CollectInv /\ SweepInv
  <2> SUFFICES ASSUME Init PROVE CollectInv /\ SweepInv
    OBVIOUS
  <2>1. phase = "collect" /\ nextScript = 1
        /\ \A c \in Channel : DOMAIN writers[c] = {}
    BY DEF Init
  <2>2. WritersSound
    BY <2>1 DEF WritersSound
  <2>3. \A s \in Script : ~(s < nextScript)
    BY <2>1, CountsAssumption DEF Script
  <2>4. QED
    BY <2>1, <2>2, <2>3 DEF CollectInv, SweepInv, WritersComplete
<1>2. QED
  BY <1>1, CollectStep, SweepStep, TypeCorrect, PTL DEF Spec
----------------------------------------------------------------------------
LEMMA WrittenAreTaints ==
  ASSUME TypeOK, NEW c \in Channel, NEW t \in WrittenTo(c)
  PROVE  t \in Taint /\ DOMAIN t.deps \subseteq Channel
<1>1. PICK s \in Script : \E i \in DOMAIN project[s].writes[c] :
        t = project[s].writes[c][i]
  BY WrittenParts
<1>2. PICK i \in DOMAIN project[s].writes[c] : t = project[s].writes[c][i]
  BY <1>1
<1>3. project[s].writes[c] \in Seq(Taint)
  BY DEF TypeOK, Summary
<1>4. t \in Taint
  BY <1>2, <1>3, LenProperties, ElementOfSeq
<1>5. QED
  BY <1>4, DepsAreChannels

(* After collection every written value has its contributions in `writers`.*)
LEMMA WrittenContributes ==
  ASSUME TypeOK, CollectInv, phase # "collect",
         NEW c \in Channel, NEW t \in WrittenTo(c),
         NEW d \in {Own} \cup DOMAIN t.deps
  PROVE  \E k \in Contributions :
           k[1] = c /\ k[3] = d /\ writers[k[1]][k[2]].taint = t
<1>1. PICK s \in Script : ~project[s].skipped /\ \E i \in DOMAIN project[s].writes[c] :
        t = project[s].writes[c][i]
  BY WrittenParts
<1>2. s < nextScript
  BY <1>1, CountsAssumption DEF CollectInv, Script, TypeOK
<1>3. PICK j \in DOMAIN writers[c] : writers[c][j].taint = t
  BY <1>1, <1>2 DEF CollectInv, WritersComplete
<1>4. <<c, j, d>> \in Contributions
  BY <1>3, ContributionParts DEF Reads
<1>5. QED
  BY <1>3, <1>4

(* Satisfying every contribution closes the state map under the project's  *)
(* flow graph.                                                             *)
LEMMA SatisfiedIsClosed ==
  ASSUME TypeOK, CollectInv, phase # "collect",
         \A k \in Contributions : Satisfied(k)
  PROVE  Propagation!Closed(TaintedChannels, LatchedChannels)
<1> SUFFICES ASSUME NEW c \in Channel
             PROVE  /\ Propagation!TaintReaches(TaintedChannels, c) => IsTainted(c)
                    /\ Propagation!LatchReaches(TaintedChannels, LatchedChannels, c)
                         => IsTainted(c) /\ state[c].latched
  BY DEF Propagation!Closed, TaintedChannels, LatchedChannels
<1>1. ASSUME NEW t \in WrittenTo(c), OwnSource(t)
      PROVE  IsTainted(c) /\ (t.latched => state[c].latched)
  <2>1. PICK k \in Contributions :
          k[1] = c /\ k[3] = Own /\ writers[k[1]][k[2]].taint = t
    BY WrittenContributes
  <2>2. Gives(k) /\ (GivesLatched(k) <=> t.latched)
    BY <1>1, <2>1 DEF Gives, GivesLatched, OwnSource
  <2>3. QED
    BY <2>1, <2>2 DEF Satisfied
<1>2. ASSUME NEW t \in WrittenTo(c), NEW d \in DOMAIN t.deps, d \in TaintedChannels
      PROVE  /\ IsTainted(c)
             /\ t.deps[d] \/ state[d].latched => state[c].latched
  <2>1. PICK k \in Contributions :
          k[1] = c /\ k[3] = d /\ writers[k[1]][k[2]].taint = t
    BY WrittenContributes
  <2>2. d # Own
    BY <1>2, OriginFacts DEF TaintedChannels
  <2>3. Gives(k) /\ (GivesLatched(k) <=> (state[d].latched \/ t.deps[d]))
    BY <1>2, <2>1, <2>2 DEF Gives, GivesLatched, TaintedChannels
  <2>4. QED
    BY <2>1, <2>3 DEF Satisfied
<1>3. ASSUME Propagation!TaintReaches(TaintedChannels, c) PROVE IsTainted(c)
  BY <1>1, <1>2, <1>3 DEF Propagation!TaintReaches, FlowGraph
<1>4. ASSUME Propagation!LatchReaches(TaintedChannels, LatchedChannels, c)
      PROVE  IsTainted(c) /\ state[c].latched
  BY <1>1, <1>2, <1>4 DEF Propagation!LatchReaches, FlowGraph, LatchedChannels
<1>5. QED
  BY <1>3, <1>4
----------------------------------------------------------------------------
(* A contribution that changes the state map is one channel spreading: its *)
(* taint and latch have a reason in the project's flow graph.              *)
LEMMA ContributionSpreads ==
  ASSUME TypeOK, CollectInv, [Next]_vars, state' # state
  PROVE  \E c \in Channel : Propagation!Spread(c)
<1>1. PICK k \in Contributions :
        /\ phase = "sweep" /\ Contribute(k) /\ Gives(k)
        /\ state' = [state EXCEPT ![k[1]] =
                       Upgraded(@, GivesLatched(k), CauseOf(k))]
  BY StateChange
<1> DEFINE c == k[1]
           t == writers[c][k[2]].taint
           d == k[3]
<1>2. /\ c \in Channel /\ k[2] \in DOMAIN writers[c]
      /\ GivesLatched(k) \in BOOLEAN /\ CauseOf(k) \in Cause
  BY <1>1, ContributionTypes, ContributeType
<1>3. t \in WrittenTo(c)
  BY <1>2 DEF CollectInv, WritersSound
<1>4. d = Own \/ (d # Own /\ d \in DOMAIN t.deps /\ d \in Channel)
  BY ContributionTypes DEF Reads
<1>5. Propagation!TaintReaches(TaintedChannels, c)
  <2>1. CASE d = Own
    BY <1>1, <1>2, <1>3, <2>1
       DEF Propagation!TaintReaches, FlowGraph, Gives, OwnSource
  <2>2. CASE d # Own
    BY <1>1, <1>2, <1>3, <1>4, <2>2
       DEF Propagation!TaintReaches, FlowGraph, Gives, TaintedChannels
  <2>3. QED
    BY <2>1, <2>2
<1>6. GivesLatched(k) => Propagation!LatchReaches(TaintedChannels, LatchedChannels, c)
  <2>1. CASE d = Own
    BY <1>1, <1>2, <1>3, <2>1
       DEF Propagation!LatchReaches, FlowGraph, Gives, GivesLatched, OwnSource
  <2>2. CASE d # Own
    BY <1>1, <1>2, <1>3, <1>4, <2>2
       DEF Propagation!LatchReaches, FlowGraph, Gives, GivesLatched,
           TaintedChannels, LatchedChannels
  <2>3. QED
    BY <2>1, <2>2
<1>7. /\ state'[c] = Upgraded(state[c], GivesLatched(k), CauseOf(k))
      /\ \A x \in Channel : x # c => state'[x] = state[x]
  BY <1>1, <1>2 DEF TypeOK
<1>8. state'[c] # Untainted
  BY <1>2, <1>7, UpgradedType DEF TypeOK
<1>9. TaintedChannels' = TaintedChannels \cup {c}
  BY <1>2, <1>7, <1>8 DEF TaintedChannels, IsTainted
<1>10. state'[c].latched <=> (IsTainted(c) /\ state[c].latched) \/ GivesLatched(k)
  <2>1. CASE IsTainted(c)
    <3>1. state[c] \in Entry
      BY <1>2, <2>1 DEF IsTainted, TypeOK
    <3>2. state'[c].latched = (state[c].latched \/ GivesLatched(k))
      BY <1>2, <1>7, <3>1, UpgradeKeeps
    <3>3. QED
      BY <2>1, <3>2
  <2>2. CASE ~IsTainted(c)
    BY <1>2, <1>7, <2>2, UpgradeFirst DEF IsTainted
  <2>3. QED
    BY <2>1, <2>2
<1>11. LatchedChannels' = IF GivesLatched(k) THEN LatchedChannels \cup {c}
                          ELSE LatchedChannels
  BY <1>2, <1>7, <1>8, <1>9, <1>10
     DEF LatchedChannels, TaintedChannels, IsTainted
<1>12. UNCHANGED <<project, phase>>
  BY <1>1 DEF Contribute
<1>13. FlowGraph' = FlowGraph
  BY <1>12 DEF FlowGraph, WrittenTo, OwnSource
<1>14. QED
  BY <1>1, <1>2, <1>5, <1>6, <1>9, <1>11, <1>12, <1>13
     DEF Propagation!Spread

(* Each step of the solver is a step of the propagation or leaves what the *)
(* propagation sees unchanged.                                             *)
LEMMA StepRefines ==
  ASSUME TypeOK, CollectInv, SweepInv, [Next]_vars
  PROVE  [Propagation!Next]_(Propagation!vars)
<1>1. CASE state' # state
  BY <1>1, ContributionSpreads DEF Propagation!Next
<1>2. CASE state' = state /\ EndFixpoint
  <2>1. Propagation!Closed(TaintedChannels, LatchedChannels)
    <3>1. \A k \in Contributions : Satisfied(k)
      BY <1>2 DEF EndFixpoint, SweepInv
    <3>2. phase # "collect"
      BY <1>2 DEF EndFixpoint
    <3>3. QED
      BY <3>1, <3>2, SatisfiedIsClosed
  <2>2. FlowGraph' = FlowGraph /\ UNCHANGED <<TaintedChannels, LatchedChannels>>
    BY <1>2 DEF EndFixpoint, FlowGraph, WrittenTo, OwnSource,
                TaintedChannels, LatchedChannels, IsTainted
  <2>3. phase = "sweep" /\ phase' = "render"
    BY <1>2 DEF EndFixpoint
  <2>4. QED
    BY <2>1, <2>2, <2>3 DEF Propagation!Next, Propagation!Settle
<1>3. CASE state' = state /\ ~EndFixpoint
  <2>1. project' = project /\ (phase \in {"render", "done"})' = (phase \in {"render", "done"})
    BY <1>3 DEF Next, Collect, BeginFixpoint, Contribute, SweepAgain,
                StartChain, WalkChain, Finish, Done, vars
  <2>2. FlowGraph' = FlowGraph /\ UNCHANGED <<TaintedChannels, LatchedChannels>>
    BY <1>3, <2>1 DEF FlowGraph, WrittenTo, OwnSource,
                      TaintedChannels, LatchedChannels, IsTainted
  <2>3. QED
    BY <2>1, <2>2 DEF Propagation!vars
<1>4. QED
  BY <1>1, <1>2, <1>3

(* The solver implements the order-free propagation.                       *)
THEOREM SolverRefines == Spec => RefinesPropagation
<1>1. Init => Propagation!Init
  <2> SUFFICES ASSUME Init PROVE Propagation!Init
    OBVIOUS
  <2>1. TaintedChannels = {} /\ LatchedChannels = {} /\ phase = "collect"
    BY DEF Init, TaintedChannels, LatchedChannels, IsTainted
  <2>2. FlowGraph \in Propagation!Flow
    BY DEF FlowGraph, Propagation!Flow
  <2>3. QED
    BY <2>1, <2>2 DEF Propagation!Init
<1>2. QED
  BY <1>1, StepRefines, SolverInvariant, PTL
     DEF Spec, RefinesPropagation, Propagation!Spec
----------------------------------------------------------------------------
(* What the propagation promises, for its instance here; the argument uses *)
(* nothing of how the solver keeps the graph and the two sets.             *)

(* Growing what is known never unlearns a reason: both reaching relations  *)
(* are monotone in the sets of channels already tainted and latched.       *)
LEMMA ReachesMonotone ==
  ASSUME NEW S, NEW K, NEW T, NEW L, S \subseteq T, K \subseteq L,
         NEW c
  PROVE  /\ Propagation!TaintReaches(S, c) => Propagation!TaintReaches(T, c)
         /\ Propagation!LatchReaches(S, K, c) => Propagation!LatchReaches(T, L, c)
BY DEF Propagation!TaintReaches, Propagation!LatchReaches

(* No channel is tainted or latched without a path in the flow graph,      *)
(* however the propagation goes.                                           *)
THEOREM PropagationSound == RefinesPropagation => []Propagation!OnlyReachable
<1>1. Propagation!Init => Propagation!OnlyReachable
  BY DEF Propagation!Init, Propagation!OnlyReachable
<1>2. Propagation!OnlyReachable /\ [Propagation!Next]_(Propagation!vars)
        => Propagation!OnlyReachable'
  <2> SUFFICES ASSUME Propagation!OnlyReachable, [Propagation!Next]_(Propagation!vars),
                      NEW T \in SUBSET Channel, NEW L \in SUBSET Channel,
                      Propagation!Closed(T, L)'
               PROVE  TaintedChannels' \subseteq T /\ LatchedChannels' \subseteq L
    BY DEF Propagation!OnlyReachable
  <2>1. FlowGraph' = FlowGraph
    BY DEF Propagation!Next, Propagation!Spread, Propagation!Settle, Propagation!vars
  <2>2. Propagation!Closed(T, L)
    BY <2>1 DEF Propagation!Closed, Propagation!TaintReaches, Propagation!LatchReaches
  <2>3. TaintedChannels \subseteq T /\ LatchedChannels \subseteq L
    BY <2>2 DEF Propagation!OnlyReachable
  <2>4. ASSUME NEW c \in Channel, Propagation!Spread(c)
        PROVE  TaintedChannels' \subseteq T /\ LatchedChannels' \subseteq L
    <3>1. Propagation!TaintReaches(T, c)
      BY <2>3, <2>4, ReachesMonotone DEF Propagation!Spread
    <3>2. c \in T
      BY <2>2, <3>1 DEF Propagation!Closed
    <3>3. Propagation!LatchReaches(TaintedChannels, LatchedChannels, c) => c \in L
      BY <2>2, <2>3, ReachesMonotone DEF Propagation!Closed
    <3>4. QED
      BY <2>3, <2>4, <3>2, <3>3 DEF Propagation!Spread
  <2>5. CASE UNCHANGED <<TaintedChannels, LatchedChannels>>
    BY <2>3, <2>5
  <2>6. QED
    BY <2>4, <2>5 DEF Propagation!Next, Propagation!Settle, Propagation!vars
<1>3. QED
  BY <1>1, <1>2, PTL DEF RefinesPropagation, Propagation!Spec

(* Settled means the least fixpoint: sound, and closed because Settle is   *)
(* the only way to settle and nothing spreads afterwards.                  *)
THEOREM PropagationExact == RefinesPropagation => []Propagation!LeastFixpoint
<1> DEFINE Settled == phase \in {"render", "done"}
           Finished == Settled => Propagation!Closed(TaintedChannels, LatchedChannels)
<1>1. Propagation!Init => Finished
  BY DEF Propagation!Init
<1>2. Finished /\ [Propagation!Next]_(Propagation!vars) => Finished'
  <2> SUFFICES ASSUME Finished, [Propagation!Next]_(Propagation!vars), Settled'
               PROVE  Propagation!Closed(TaintedChannels, LatchedChannels)'
    OBVIOUS
  <2>1. /\ UNCHANGED <<FlowGraph, TaintedChannels, LatchedChannels>>
        /\ Propagation!Closed(TaintedChannels, LatchedChannels)
    BY DEF Propagation!Next, Propagation!Settle, Propagation!Spread, Propagation!vars
  <2>2. QED
    BY <2>1 DEF Propagation!Closed, Propagation!TaintReaches, Propagation!LatchReaches
<1>3. Propagation!OnlyReachable /\ Finished => Propagation!LeastFixpoint
  BY DEF Propagation!LeastFixpoint
<1>4. QED
  BY <1>1, <1>2, <1>3, PropagationSound, PTL DEF RefinesPropagation, Propagation!Spec

(* Hence what the propagation promises, the solver delivers: the map it    *)
(* renders is the least fixpoint of the project's flow graph.              *)
THEOREM SolverExact == Spec => []SolvedExactly
BY SolverRefines, PropagationExact, PTL DEF SolvedExactly
----------------------------------------------------------------------------
(* The cause on record for a tainted channel is a write that really reads  *)
(* that channel, or is a source itself.                                    *)
CauseReal ==
  \A c \in TaintedChannels : RealLink([channel |-> c, from |-> state[c].cause.from])

(* A chain that starts at c and follows the causes on record, never twice  *)
(* through one channel.                                                    *)
Follows(chain, c) ==
  /\ chain # <<>> => chain[1].channel = c
  /\ \A i \in 1..Len(chain) :
       /\ chain[i].channel \in TaintedChannels
       /\ chain[i].from = state[chain[i].channel].cause.from
  /\ \A i \in 1..(Len(chain) - 1) : chain[i].from = chain[i + 1].channel
  /\ \A i, j \in 1..Len(chain) : chain[i].channel = chain[j].channel => i = j

Passed(chain) == {chain[i].channel : i \in 1..Len(chain)}

(* Where a chain from c has led to, and the link that goes on from there.  *)
At(chain, c)   == IF chain = <<>> THEN c ELSE chain[Len(chain)].from
IsLinkOf(l, x) == l.channel = x /\ l.from = state[x].cause.from

(* The chain being rendered leads to the channel the walk stands at; the   *)
(* others are finished.                                                    *)
Walking(chain) ==
  /\ phase = "render"
  /\ walk.of \in TaintedChannels /\ walk.cur \in TaintedChannels
  /\ Follows(chain, walk.of)
  /\ walk.cur = At(chain, walk.of)
  /\ walk.visited = Passed(chain)

Finished(chain, c) == Follows(chain, c) /\ chain[Len(chain)].from = Own

RenderInv ==
  /\ phase \in {"collect", "sweep"} =>
       walk = NoWalk /\ \A c \in Channel : chains[c] = <<>>
  /\ phase = "done" => walk = NoWalk /\ Unrendered = {}
  /\ walk # NoWalk => Walking(chains[walk.of])
  /\ \A c \in Channel : chains[c] # <<>> /\ walk.of # c => Finished(chains[c], c)

LEMMA RealCause ==
  ASSUME TypeOK, CollectInv, CauseReal, [Next]_vars
  PROVE  CauseReal'
<1>1. CASE state' = state
  <2>1. \A c : WrittenTo(c)' = WrittenTo(c)
    BY DEF Next, Collect, BeginFixpoint, SweepAgain, EndFixpoint, Contribute,
           StartChain, WalkChain, Finish, Done, vars, WrittenTo
  <2> QED BY <1>1, <2>1 DEF CauseReal, RealLink, OwnSource, TaintedChannels, IsTainted
<1>2. CASE state' # state
  <2>1. PICK k \in Contributions :
          /\ phase = "sweep" /\ Contribute(k) /\ Gives(k)
          /\ state' = [state EXCEPT ![k[1]] =
                         Upgraded(@, GivesLatched(k), CauseOf(k))]
    BY <1>2, StateChange
  <2> DEFINE x == k[1]
             t == writers[x][k[2]].taint
  <2>2. /\ x \in Channel /\ k[2] \in DOMAIN writers[x]
        /\ GivesLatched(k) \in BOOLEAN /\ CauseOf(k) \in Cause
    BY <2>1, ContributionTypes, ContributeType
  <2>3. t \in WrittenTo(x)
    BY <2>2 DEF CollectInv, WritersSound
  <2>4. RealLink([channel |-> x, from |-> k[3]])
    BY <2>1, <2>2, <2>3, ContributionTypes DEF RealLink, Gives, Reads, OwnSource
  <2>5. \A l : RealLink(l)' = RealLink(l)
    BY <2>1 DEF Contribute, RealLink, WrittenTo, OwnSource
  <2>6. /\ state'[x] = Upgraded(state[x], GivesLatched(k), CauseOf(k))
        /\ \A c \in Channel : c # x => state'[c] = state[c]
    BY <2>1, <2>2 DEF TypeOK
  <2>7. ASSUME NEW c \in Channel, state'[c] # Untainted
        PROVE  RealLink([channel |-> c, from |-> state'[c].cause.from])
    <3>1. CASE IsTainted(c)
      BY <3>1, StateGrows DEF CauseReal, TaintedChannels
    <3>2. CASE ~IsTainted(c)
      <4>1. c = x
        BY <2>6, <2>7, <3>2 DEF IsTainted
      <4>2. state'[c].cause.from = k[3]
        BY <2>2, <2>6, <3>2, <4>1, UpgradeFirst DEF IsTainted, CauseOf
      <4> QED BY <2>4, <4>1, <4>2
    <3> QED BY <3>1, <3>2
  <2> QED BY <2>5, <2>7 DEF CauseReal, TaintedChannels, IsTainted
<1> QED BY <1>1, <1>2

(* A walk back along the causes never meets a channel it has passed: what  *)
(* it has passed since would be a set that accounts for itself.            *)
LEMMA NeverLoops ==
  ASSUME CauseForest, NEW c, NEW chain, Len(chain) \in Nat, chain # <<>>, Follows(chain, c)
  PROVE  chain[Len(chain)].from \notin Passed(chain)
<1> SUFFICES ASSUME NEW j \in 1..Len(chain), chain[Len(chain)].from = chain[j].channel
             PROVE  FALSE
  BY DEF Passed
<1> DEFINE S == {chain[i].channel : i \in j..Len(chain)}
<1>1. S \in SUBSET TaintedChannels /\ chain[j].channel \in S
  BY DEF Follows
<1>2. PICK x \in S : state[x].cause.from \notin S
  BY <1>1 DEF CauseForest
<1>3. PICK i \in j..Len(chain) : x = chain[i].channel
  BY <1>2
<1>4. i \in 1..Len(chain) /\ state[x].cause.from = chain[i].from
  BY <1>3 DEF Follows
<1>5. CASE i = Len(chain)
  BY <1>1, <1>2, <1>4, <1>5
<1>6. CASE i # Len(chain)
  <2>1. i \in 1..(Len(chain) - 1) /\ i + 1 \in j..Len(chain)
    BY <1>3, <1>6
  <2>2. chain[i].from = chain[i + 1].channel
    BY <2>1 DEF Follows
  <2> QED BY <1>2, <1>4, <2>1, <2>2
<1> QED BY <1>5, <1>6

(* A chain goes on where its last link leads.                              *)
LEMMA FollowsOn ==
  ASSUME NEW c, NEW chain \in Seq(Link), Follows(chain, c),
         NEW x \in TaintedChannels, x \notin Passed(chain),
         x = At(chain, c), NEW l \in Link, IsLinkOf(l, x)
  PROVE  LET longer == Append(chain, l)
         IN  /\ longer # <<>> /\ longer[Len(longer)] = l
             /\ Follows(longer, c) /\ Passed(longer) = Passed(chain) \cup {x}
<1>0. PICK longer : longer = Append(chain, l)
  OBVIOUS
<1>1. PICK n \in Nat : n = Len(chain) /\ DOMAIN chain = 1..n
  BY LenProperties
<1>2. /\ Len(longer) = n + 1 /\ longer[n + 1] = l /\ longer # <<>>
      /\ \A i \in 1..n : longer[i] = chain[i]
  BY <1>0, <1>1, AppendProperties
<1>3. chain # <<>> <=> n # 0
  BY <1>1, EmptySeq
<1>4. l.channel = x /\ l.from = state[x].cause.from
  BY DEF IsLinkOf
<1>5. longer[1].channel = c
  BY <1>1, <1>2, <1>3, <1>4 DEF Follows, At
<1>6. ASSUME NEW i \in 1..(n + 1)
      PROVE  /\ longer[i].channel \in TaintedChannels
             /\ longer[i].from = state[longer[i].channel].cause.from
  <2>1. CASE i = n + 1
    BY <1>2, <1>4, <2>1
  <2>2. CASE i \in 1..n
    <3>1. chain[i].channel \in TaintedChannels /\ chain[i].from = state[chain[i].channel].cause.from
      BY <1>1, <2>2 DEF Follows
    <3> QED BY <1>2, <2>2, <3>1
  <2>3. i = n + 1 \/ i \in 1..n
    BY <1>6
  <2> QED BY <2>1, <2>2, <2>3
<1>7. ASSUME NEW i \in 1..n PROVE longer[i].from = longer[i + 1].channel
  <2>1. CASE i = n
    BY <1>1, <1>2, <1>3, <1>4, <1>7, <2>1 DEF At
  <2>2. CASE i # n
    <3>1. i \in 1..(n - 1) /\ i + 1 \in 1..n
      BY <1>7, <2>2
    <3> QED BY <1>1, <1>2, <3>1 DEF Follows
  <2> QED BY <2>1, <2>2
<1>8. \A i \in 1..n : chain[i].channel # x
  BY <1>1 DEF Passed
<1>9. ASSUME NEW i \in 1..(n + 1), NEW j \in 1..(n + 1), longer[i].channel = longer[j].channel
      PROVE  i = j
  <2>1. CASE i \in 1..n /\ j \in 1..n
    BY <1>1, <1>2, <1>9, <2>1 DEF Follows
  <2>2. CASE i = n + 1 \/ j = n + 1
    BY <1>2, <1>4, <1>8, <1>9, <2>2
  <2> QED BY <2>1, <2>2
<1>10. Passed(longer) = Passed(chain) \cup {x}
  <2>1. \A i \in 1..(n + 1) : i \in 1..n \/ i = n + 1
    OBVIOUS
  <2>2. n + 1 \in 1..(n + 1) /\ 1..n \subseteq 1..(n + 1)
    OBVIOUS
  <2> QED BY <1>1, <1>2, <1>4, <2>1, <2>2 DEF Passed
<1>11. Follows(longer, c)
  <2>1. Len(longer) - 1 = n
    BY <1>2
  <2> QED BY <1>2, <1>5, <1>6, <1>7, <1>9, <2>1 DEF Follows
<1> QED BY <1>0, <1>1, <1>2, <1>10, <1>11

LEMMA RenderStep ==
  ASSUME TypeOK, CauseKnown, CauseForest, RenderInv, [Next]_vars
  PROVE  RenderInv'
<1>1. CASE \/ Collect \/ BeginFixpoint \/ SweepAgain \/ EndFixpoint
           \/ \E k \in pending : Contribute(k)
  <2>1. /\ UNCHANGED <<chains, walk>> /\ phase \in {"collect", "sweep"}
        /\ phase' \in {"collect", "sweep", "render"}
    BY <1>1 DEF Collect, BeginFixpoint, SweepAgain, EndFixpoint, Contribute
  <2>2. walk = NoWalk /\ \A c \in Channel : chains[c] = <<>>
    BY <2>1 DEF RenderInv
  <2> QED BY <2>1, <2>2 DEF RenderInv, Unrendered, NoWalk
<1>2. ASSUME state' = state
      PROVE  /\ TaintedChannels' = TaintedChannels
             /\ \A chain, c : Follows(chain, c)' <=> Follows(chain, c)
             /\ \A chain, c : Finished(chain, c)' <=> Finished(chain, c)
  BY <1>2 DEF Follows, Finished, TaintedChannels, IsTainted
<1>3. ASSUME NEW c \in Unrendered, StartChain(c) PROVE RenderInv'
  <2>1. /\ c \in Channel /\ c \in TaintedChannels /\ chains[c] = <<>> /\ c # Own
        /\ phase = "render" /\ phase' = "render" /\ walk = NoWalk
        /\ walk' = [of |-> c, cur |-> c, visited |-> {}]
        /\ state' = state /\ chains' = chains
    BY <1>3, OriginFacts DEF StartChain, Unrendered, TaintedChannels
  <2>2. Follows(<<>>, c) /\ Passed(<<>>) = {}
    BY DEF Follows, Passed
  <2>3. Walking(chains[c])'
    BY <1>2, <2>1, <2>2 DEF Walking, Passed, At
  <2>4. \A d \in Channel : chains[d] # <<>> => Finished(chains[d], d)
    BY <2>1, OriginFacts DEF RenderInv, NoWalk
  <2> QED BY <1>2, <2>1, <2>3, <2>4 DEF RenderInv
<1>4. CASE WalkChain
  <2>0. PICK of, x, chain, from, l :
          /\ of = walk.of /\ x = walk.cur /\ chain = chains[of]
          /\ from = state[x].cause.from /\ l = [channel |-> x, from |-> from]
    OBVIOUS
  <2>1. /\ phase = "render" /\ phase' = "render" /\ walk # NoWalk
        /\ state' = state /\ of \in Channel /\ x \in Channel
    BY <2>0, <1>4 DEF WalkChain, TypeOK
  <2>2. Walking(chain) /\ chains \in [Channel -> Seq(Link)] /\ chain \in Seq(Link)
    BY <2>0, <2>1 DEF RenderInv, TypeOK
  <2>3. x \in TaintedChannels /\ Follows(chain, of) /\ walk.visited = Passed(chain)
        /\ x = At(chain, of)
    BY <2>0, <2>2 DEF Walking
  <2>4. x \notin walk.visited
    <3>1. CASE chain = <<>>
      BY <2>0, <2>3, <3>1 DEF Passed
    <3>2. CASE chain # <<>>
      BY <2>0, <2>2, <2>3, <3>2, NeverLoops, LenProperties DEF At
    <3> QED BY <3>1, <3>2
  <2>5. from \in Origin /\ (from = Own \/ from \in TaintedChannels)
    BY <2>0, <2>1, <2>3 DEF CauseKnown, TypeOK, TaintedChannels, IsTainted, Entry, Cause
  <2>6. l \in Link
    BY <2>0, <2>1, <2>5 DEF Link
  <2>7. /\ chains' = [chains EXCEPT ![of] = Append(chain, l)]
        /\ walk' = IF from = Own THEN NoWalk
                   ELSE [walk EXCEPT !.cur = from, !.visited = @ \cup {x}]
    BY <2>0, <1>4, <2>3, <2>4 DEF WalkChain, TaintedChannels
  <2>8. PICK longer : longer = Append(chain, l)
    OBVIOUS
  <2>9. /\ chains'[of] = longer
        /\ \A d \in Channel : d # of => chains'[d] = chains[d]
    BY <2>0, <2>1, <2>2, <2>7, <2>8
  <2>10. /\ longer # <<>> /\ longer[Len(longer)] = l /\ Follows(longer, of)
         /\ Passed(longer) = Passed(chain) \cup {x}
    <3>1. x \notin Passed(chain) /\ IsLinkOf(l, x)
      BY <2>0, <2>3, <2>4 DEF IsLinkOf
    <3> QED BY <2>2, <2>3, <2>6, <2>8, <3>1, FollowsOn
  <2>11. \A d \in Channel : d # of /\ chains[d] # <<>> => Finished(chains[d], d)
    BY <2>0 DEF RenderInv
  <2>12. CASE from = Own
    <3>1. walk' = NoWalk /\ Finished(longer, of)
      BY <2>0, <2>7, <2>10, <2>12 DEF Finished
    <3>2. \A d \in Channel : chains'[d] # <<>> => Finished(chains'[d], d)
      BY <2>0, <2>9, <2>11, <3>1
    <3> QED BY <1>2, <2>1, <3>1, <3>2 DEF RenderInv
  <2>13. CASE from # Own
    <3>1. walk' = [of |-> of, cur |-> from, visited |-> Passed(longer)]
      BY <2>0, <2>3, <2>7, <2>10, <2>13 DEF TypeOK
    <3>2. Walking(longer)'
      <4>1. /\ walk'.of = of /\ walk'.cur = from /\ walk'.visited = Passed(longer)
            /\ phase' = "render" /\ from \in TaintedChannels' /\ of \in TaintedChannels'
        BY <2>0, <1>2, <2>1, <2>2, <2>5, <2>13, <3>1 DEF Walking
      <4>2. Follows(longer, of)' /\ longer[Len(longer)].from = from /\ longer # <<>>
        BY <2>0, <1>2, <2>1, <2>10
      <4> QED BY <4>1, <4>2 DEF Walking, Passed, At
    <3>3. \A d \in Channel : chains'[d] # <<>> /\ of # d => Finished(chains'[d], d)
      BY <2>0, <2>9, <2>11
    <3> QED BY <1>2, <2>1, <2>9, <3>1, <3>2, <3>3 DEF RenderInv
  <2> QED BY <2>12, <2>13
<1>5. CASE Finish
  BY <1>2, <1>5, OriginFacts DEF Finish, RenderInv, NoWalk, Unrendered, IsTainted
<1>6. CASE UNCHANGED vars
  BY <1>2, <1>6 DEF vars, RenderInv, Walking, Unrendered, IsTainted, At
<1> QED BY <1>1, <1>3, <1>4, <1>5, <1>6 DEF Next, Done

(* What `render` prints of a tainted channel is a true account of it: the  *)
(* writes it names are writes of the project, each reads what the next one *)
(* writes, none is named twice, and the last is itself a source.           *)
THEOREM ProvenanceCorrect == Spec => []ProvenanceGrounded
<1>1. Init => CauseReal /\ RenderInv
  BY DEF Init, CauseReal, RenderInv, TaintedChannels, IsTainted, Unrendered
<1>2. CauseReal /\ RenderInv => ProvenanceGrounded
  <2> SUFFICES ASSUME CauseReal, RenderInv, phase = "done", NEW c \in TaintedChannels
               PROVE  /\ chains[c] # <<>> /\ Finished(chains[c], c)
                      /\ \A i \in 1..Len(chains[c]) : RealLink(chains[c][i])
    BY DEF ProvenanceGrounded, Finished, Follows
  <2>1. c \in Channel /\ walk = NoWalk /\ chains[c] # <<>>
    BY DEF RenderInv, Unrendered, TaintedChannels
  <2>2. Finished(chains[c], c)
    BY <2>1, OriginFacts DEF RenderInv, NoWalk
  <2>3. ASSUME NEW i \in 1..Len(chains[c]) PROVE RealLink(chains[c][i])
    BY <2>2 DEF Finished, Follows, CauseReal, RealLink
  <2> QED BY <2>1, <2>2, <2>3
<1>3. TypeOK /\ CollectInv /\ SweepInv /\ CauseKnown /\ CauseForest /\ CauseReal /\ RenderInv
        /\ [Next]_vars => CauseReal' /\ RenderInv'
  BY RealCause, RenderStep
<1> QED BY <1>1, <1>2, <1>3, SolverInvariant, CausesFormForest, PTL DEF Spec
============================================================================
