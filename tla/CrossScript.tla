--------------------------- MODULE CrossScript ---------------------------
(***************************************************************************)
(* src/cross_script.rs: the project-wide solver that decides which         *)
(* channels can carry a NaN/Inf and renders, for each, the chain of writes *)
(* it came through.                                                        *)
(*                                                                         *)
(* Three phases, as in `solve`: collect every analysable script's write    *)
(* summary into `writers`; sweep `writers` until a whole sweep changes     *)
(* nothing (`fixpoint`); walk each tainted channel's causes back to their  *)
(* origin (`render`).  Channel paths and script names are abstracted to    *)
(* their rank: channels in the order of the BTreeMaps keyed by path,       *)
(* scripts in the order they are passed in.  What a script writes is the   *)
(* walker's business (InvalidValue); here a summary is any value it can    *)
(* return.                                                                 *)
(***************************************************************************)
EXTENDS Naturals, Sequences

CONSTANTS
  NumChannels,   \* canonical project symbols, ranked by path
  NumScripts,    \* scripts of the project, in the order given
  Projects,      \* the script collections the solver may be run on
  Untainted      \* absence from the solver's maps

Channel == 1..NumChannels
Script  == 1..NumScripts

(* Where a taint comes from: the writer's own expression, or a channel.    *)
Own    == 0
Origin == Channel \cup {Own}

(***************************************************************************)
(* A written value's taint (invalid_value.rs `Taint`, its message text     *)
(* left out): deps maps each channel the value reads to "through a         *)
(* stateful function".  A sanitised value has had its deps cleared.        *)
(***************************************************************************)
Deps  == UNION {[D -> BOOLEAN] : D \in SUBSET Channel}
Taint == [invalid : BOOLEAN, sanitised : BOOLEAN, latched : BOOLEAN,
          deps : Deps]

(* What the solver sees of a script: whether it is skipped (a syntax error *)
(* or a CST too deep to recurse over) and, per channel, the taints it      *)
(* writes in document order.                                               *)
Summary == [skipped : BOOLEAN, writes : [Channel -> Seq(Taint)]]

ASSUME CountsAssumption == NumChannels \in Nat /\ NumScripts \in Nat
ASSUME ProjectsAssumption == Projects \subseteq [Script -> Summary]

Writer == [script : Script, taint : Taint]
Cause  == [from : Origin, script : Script]
Entry  == [latched : BOOLEAN, cause : Cause]

ASSUME UntaintedAssumption == Untainted \notin Entry

VARIABLES
  project,   \* the scripts' summaries, fixed for the run
  phase,     \* "collect", "sweep", "render" or "done"
  nextScript,\* script `solve` summarises next
  writers,   \* writers of each channel, in collection order
  state,     \* BTreeMap channel -> (latched, cause)
  pending,   \* contributions this sweep has not looked at yet
  changed,   \* this sweep has changed `state`
  chains,    \* rendered provenance of each channel, <<>> until rendered
  walk       \* the chain being rendered: channel, position, channels visited

vars == <<project, phase, nextScript, writers, state, pending, changed,
          chains, walk>>
-----------------------------------------------------------------------------
(* Contribution <<c, i, d>>: the i-th writer of channel c contributes to c *)
(* its own taint (d = Own) or that of channel d, which it reads.  Ordered  *)
(* as the loops of `fixpoint` visit them: channels, then writers, then the *)
(* writer's own taint before its deps.                                     *)
Reads(c, i) == DOMAIN writers[c][i].taint.deps

Contributions ==
  UNION {UNION {{<<c, i, d>> : d \in {Own} \cup Reads(c, i)}
                 : i \in DOMAIN writers[c]} : c \in Channel}

Before(j, k) ==
  \/ j[1] < k[1]
  \/ j[1] = k[1] /\ j[2] < k[2]
  \/ j[1] = k[1] /\ j[2] = k[2] /\ j[3] < k[3]

IsTainted(c) == state[c] # Untainted

(* Whether a contribution has taint to give now, and whether it is latched. *)
Gives(k) ==
  LET taint == writers[k[1]][k[2]].taint
  IN  IF k[3] = Own THEN taint.invalid /\ ~taint.sanitised
                    ELSE IsTainted(k[3])

(* Mutant: a read through a filter does not latch by itself.               *)
GivesLatchedDirect(k) ==
  IF k[3] = Own THEN writers[k[1]][k[2]].taint.latched ELSE state[k[3]].latched

GivesLatched(k) ==
  LET taint == writers[k[1]][k[2]].taint
  IN  IF k[3] = Own THEN taint.latched
                    ELSE state[k[3]].latched \/ taint.deps[k[3]]

(* Mutants: the cause names the channel written, or the script that        *)
(* collection stopped at.                                                  *)
CauseOfWritten(k) == [from |-> IF k[3] = Own THEN Own ELSE k[1],
                      script |-> writers[k[1]][k[2]].script]
CauseOfLastScript(k) == [from |-> k[3], script |-> nextScript]

CauseOf(k) == [from |-> k[3], script |-> writers[k[1]][k[2]].script]

(* Mutants: an escalation rewrites the cause; the latch is overwritten.    *)
UpgradedRewriting(entry, latched, cause) ==
  IF entry = Untainted \/ (latched /\ ~entry.latched)
  THEN [latched |-> latched, cause |-> cause] ELSE entry
UpgradedOverwriting(entry, latched, cause) ==
  IF entry = Untainted THEN [latched |-> latched, cause |-> cause]
  ELSE [entry EXCEPT !.latched = latched]

(* `upgrade`: the entry of a channel after joining a contribution into it, *)
(* and whether that changed anything.  The first cause is kept; a later    *)
(* latched contribution flips the bit.                                     *)
Upgraded(entry, latched, cause) ==
  IF entry = Untainted THEN [latched |-> latched, cause |-> cause]
  ELSE [entry EXCEPT !.latched = @ \/ latched]

(* Mutants: an escalation counts as no change; a latch always counts.      *)
ChangesOnInsert(entry, latched) == entry = Untainted
ChangesOnLatch(entry, latched)  == entry = Untainted \/ latched

Changes(entry, latched) == entry = Untainted \/ (latched /\ ~entry.latched)
-----------------------------------------------------------------------------
NoWalk == [of |-> Own, cur |-> Own, visited |-> {}]

Init ==
  /\ project \in Projects
  /\ phase = "collect"
  /\ nextScript = 1
  /\ writers = [c \in Channel |-> <<>>]
  /\ state = [c \in Channel |-> Untainted]
  /\ pending = {}
  /\ changed = FALSE
  /\ chains = [c \in Channel |-> <<>>]
  /\ walk = NoWalk

(* `solve`: append one script's write summary to `writers`, or skip it.    *)
Collected(s) ==
  [c \in Channel |->
     LET written == project[s].writes[c]
     IN  writers[c] \o [i \in DOMAIN written |->
                          [script |-> s, taint |-> written[i]]]]

Collect ==
  /\ phase = "collect"
  /\ nextScript <= NumScripts
  /\ writers' = IF project[nextScript].skipped THEN writers
                ELSE Collected(nextScript)
  /\ nextScript' = nextScript + 1
  /\ UNCHANGED <<project, phase, state, pending, changed, chains, walk>>

(* Enter `fixpoint`: the first sweep starts with an empty state.           *)
BeginFixpoint ==
  /\ phase = "collect"
  /\ nextScript > NumScripts
  /\ phase' = "sweep"
  /\ pending' = Contributions
  /\ changed' = FALSE
  /\ UNCHANGED <<project, nextScript, writers, state, chains, walk>>

(* One contribution of the sweep, joined into the state of its channel.    *)
Contribute(k) ==
  /\ phase = "sweep"
  /\ \A j \in pending \ {k} : Before(k, j)
  /\ pending' = pending \ {k}
  /\ state' = IF Gives(k)
              THEN [state EXCEPT ![k[1]] =
                      Upgraded(@, GivesLatched(k), CauseOf(k))]
              ELSE state
  /\ changed' = (changed \/ (Gives(k) /\ Changes(state[k[1]], GivesLatched(k))))
  /\ UNCHANGED <<project, phase, nextScript, writers, chains, walk>>

(* The end of a sweep that changed something: sweep again.                 *)
SweepAgain ==
  /\ phase = "sweep"
  /\ pending = {}
  /\ changed
  /\ pending' = Contributions
  /\ changed' = FALSE
  /\ UNCHANGED <<project, phase, nextScript, writers, state, chains, walk>>

(* The end of a sweep that changed nothing: hand the state to `render`.    *)
EndFixpoint ==
  /\ phase = "sweep"
  /\ pending = {}
  /\ ~changed
  /\ phase' = "render"
  /\ UNCHANGED <<project, nextScript, writers, state, pending, changed,
                 chains, walk>>
-----------------------------------------------------------------------------
(* `render`.  A link of a chain names a channel and where its taint came   *)
(* from: Own, an upstream channel, or Loop when the walk met a channel it  *)
(* had already visited ("closes a feedback loop").                         *)
Loop == NumChannels + 1
Link == [channel : Channel, from : Origin \cup {Loop}]

(* Channels are rendered in the order of the state map.                    *)
Unrendered == {c \in Channel : IsTainted(c) /\ chains[c] = <<>>}

StartChain(c) ==
  /\ phase = "render"
  /\ walk = NoWalk
  /\ \A d \in Unrendered \ {c} : c < d
  /\ walk' = [of |-> c, cur |-> c, visited |-> {}]
  /\ UNCHANGED <<project, phase, nextScript, writers, state, pending,
                 changed, chains>>

(* One turn of the walk: it stops at a channel it has visited, at one      *)
(* without a state, or at an own source; otherwise it goes on upstream.    *)
WalkChain ==
  LET cur  == walk.cur
      met  == cur \in walk.visited
      from == IF met THEN Loop ELSE state[cur].cause.from
  IN  /\ phase = "render"
      /\ walk # NoWalk
      /\ chains' = IF met \/ IsTainted(cur)
                   THEN [chains EXCEPT ![walk.of] =
                           Append(@, [channel |-> cur, from |-> from])]
                   ELSE chains
      /\ walk' = IF met \/ ~IsTainted(cur) \/ from = Own THEN NoWalk
                 ELSE [walk EXCEPT !.cur = from, !.visited = @ \cup {cur}]
      /\ UNCHANGED <<project, phase, nextScript, writers, state, pending,
                     changed>>

Finish ==
  /\ phase = "render"
  /\ walk = NoWalk
  /\ Unrendered = {}
  /\ phase' = "done"
  /\ UNCHANGED <<project, nextScript, writers, state, pending, changed,
                 chains, walk>>

(* The solver has returned; nothing more happens.                          *)
Done == phase = "done" /\ UNCHANGED vars

Next ==
  \/ Collect
  \/ BeginFixpoint
  \/ \E k \in pending : Contribute(k)
  \/ SweepAgain
  \/ EndFixpoint
  \/ \E c \in Unrendered : StartChain(c)
  \/ WalkChain
  \/ Finish
  \/ Done

Spec == Init /\ [][Next]_vars

(* A single thread runs the solver to completion.                          *)
FairSpec == Spec /\ WF_vars(Next)
-----------------------------------------------------------------------------
Phase == {"collect", "sweep", "render", "done"}

TypeOK ==
  /\ project \in [Script -> Summary]
  /\ phase \in Phase
  /\ nextScript \in 1..(NumScripts + 1)
  /\ writers \in [Channel -> Seq(Writer)]
  /\ state \in [Channel -> Entry \cup {Untainted}]
  /\ pending \subseteq IF phase = "collect" THEN {} ELSE Contributions
  /\ changed \in BOOLEAN
  /\ chains \in [Channel -> Seq(Link)]
  /\ walk \in [of : Origin, cur : Origin, visited : SUBSET Channel]
  /\ walk = NoWalk \/ (walk.of \in Channel /\ walk.cur \in Channel)

(* A written value that is a source of taint of its own.                   *)
OwnSource(t) == t.invalid /\ ~t.sanitised

(* The flow graph of the project, read off the summaries of the scripts    *)
(* that are not skipped, and not off the solver's `writers`.               *)
WrittenTo(c) ==
  UNION {{project[s].writes[c][i] : i \in DOMAIN project[s].writes[c]}
          : s \in {r \in Script : ~project[r].skipped}}

FlowGraph ==
  [own        |-> {c \in Channel : \E t \in WrittenTo(c) : OwnSource(t)},
   ownLatched |-> {c \in Channel : \E t \in WrittenTo(c) :
                                     OwnSource(t) /\ t.latched},
   reads      |-> {e \in Channel \X Channel : \E t \in WrittenTo(e[1]) :
                                              e[2] \in DOMAIN t.deps},
   stateful   |-> {e \in Channel \X Channel : \E t \in WrittenTo(e[1]) :
                     e[2] \in DOMAIN t.deps /\ t.deps[e[2]]}]

TaintedChannels == {c \in Channel : IsTainted(c)}
LatchedChannels == {c \in TaintedChannels : state[c].latched}

Propagation == INSTANCE TaintPropagation
                 WITH flow    <- FlowGraph,
                      tainted <- TaintedChannels,
                      latched <- LatchedChannels,
                      settled <- phase \in {"render", "done"}

(* The three phases implement the order-free propagation: every insertion  *)
(* or escalation of a sweep is one channel learning something it may       *)
(* learn, and the sweep ends only when nothing is left to learn.           *)
RefinesPropagation == Propagation!Spec

(* When `fixpoint` returns, the state map holds exactly the channels that  *)
(* an own source reaches, and marks latched exactly those it reaches       *)
(* through a stateful function: nothing missed by stopping early, nothing  *)
(* added by the order of the sweep.                                        *)
SolvedExactly == Propagation!LeastFixpoint

(* "First-cause-wins makes the cause graph a forest rooted at `Local`      *)
(* causes": every set of tainted channels has a member whose cause lies    *)
(* outside the set, so no set of channels accounts for itself.             *)
CauseForest ==
  \A S \in SUBSET TaintedChannels :
    S # {} => \E c \in S : state[c].cause.from \notin S

(* A rendered chain starts at its channel, follows writes that really read *)
(* the next channel of the chain, names no channel twice, and ends in a    *)
(* write that is itself a source; it never "closes a feedback loop".       *)
RealLink(l) ==
  \E t \in WrittenTo(l.channel) :
    IF l.from = Own THEN OwnSource(t) ELSE l.from \in DOMAIN t.deps

ProvenanceGrounded ==
  phase = "done" =>
    \A c \in TaintedChannels :
      LET chain == chains[c]
          last  == Len(chain)
      IN  /\ chain # <<>>
          /\ chain[1].channel = c
          /\ chain[last].from = Own
          /\ \A i \in 1..(last - 1) : chain[i].from = chain[i + 1].channel
          /\ \A i \in 1..last : RealLink(chain[i])
          /\ \A i, j \in 1..last :
               chain[i].channel = chain[j].channel => i = j

(* No step of the solver takes a taint or a latch back, or rewrites the    *)
(* cause a channel was first tainted by.                                   *)
FirstCauseWins ==
  [][\A c \in Channel :
       IsTainted(c) => /\ state'[c] # Untainted
                       /\ state'[c].cause = state[c].cause
                       /\ state[c].latched => state'[c].latched]_vars

(* The sweep ends even when scripts feed back into one another, and every  *)
(* walk back along the causes ends.                                        *)
Terminates == <>(phase = "done")
=============================================================================
