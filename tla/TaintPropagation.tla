------------------------- MODULE TaintPropagation -------------------------
(***************************************************************************)
(* What the cross-script invalid-value solver promises, without saying in  *)
(* which order it works.                                                   *)
(*                                                                         *)
(* A flow graph says which channels some script writes with an invalid     *)
(* (NaN/Inf) value of its own, and which channels each write reads.  Taint *)
(* and the latch bit spread along it one channel at a time, in any order,  *)
(* until nothing is left to spread; only then is the answer settled.  The  *)
(* sweep of CrossScript is one such order.                                 *)
(***************************************************************************)

CONSTANT Channel          \* canonical symbol paths of the project

VARIABLES
  flow,      \* the flow graph, fixed for the run
  tainted,   \* channels known to carry an invalid value
  latched,   \* those whose invalid value passed a stateful function
  settled    \* the answer is final

vars == <<flow, tainted, latched, settled>>

(* own: written with a locally invalid value; ownLatched: with one that    *)
(* already passed a stateful function.  <<c, d>> \in reads: a write of c   *)
(* reads d; \in stateful: it does so through a stateful function.          *)
Flow == [own        : SUBSET Channel,
         ownLatched : SUBSET Channel,
         reads      : SUBSET (Channel \X Channel),
         stateful   : SUBSET (Channel \X Channel)]

(* What makes channel c tainted, given the channels T tainted so far.      *)
TaintReaches(T, c) ==
  \/ c \in flow.own
  \/ \E d \in T : <<c, d>> \in flow.reads

(* What makes c latched, given T tainted and L latched so far.             *)
LatchReaches(T, L, c) ==
  \/ c \in flow.ownLatched
  \/ \E d \in T : <<c, d>> \in flow.stateful
  \/ \E d \in L : <<c, d>> \in flow.reads

(* T and L have nothing left to spread.                                    *)
Closed(T, L) == \A c \in Channel : /\ TaintReaches(T, c) => c \in T
                                   /\ LatchReaches(T, L, c) => c \in L

TypeOK == /\ flow \in Flow
          /\ tainted \subseteq Channel
          /\ latched \subseteq Channel
          /\ settled \in BOOLEAN
-----------------------------------------------------------------------------
Init == /\ flow \in Flow
        /\ tainted = {}
        /\ latched = {}
        /\ settled = FALSE

(* One channel learns that it is tainted, latched, or both at once.        *)
Spread(c) ==
  /\ ~settled
  /\ TaintReaches(tainted, c)
  /\ tainted' = tainted \cup {c}
  /\ \/ latched' = latched
     \/ LatchReaches(tainted, latched, c) /\ latched' = latched \cup {c}
  /\ UNCHANGED <<flow, settled>>

Settle ==
  /\ ~settled
  /\ Closed(tainted, latched)
  /\ settled' = TRUE
  /\ UNCHANGED <<flow, tainted, latched>>

Next == Settle \/ \E c \in Channel : Spread(c)

Spec == Init /\ [][Next]_vars
-----------------------------------------------------------------------------
(* Nothing is ever tainted or latched without cause: what is known lies    *)
(* inside every pair of sets that the flow graph cannot grow.              *)
OnlyReachable ==
  \A T, L \in SUBSET Channel :
    Closed(T, L) => tainted \subseteq T /\ latched \subseteq L

(* The settled answer is the least fixpoint of the flow graph, hence the   *)
(* same for every order in which the scripts and channels are visited.     *)
LeastFixpoint == OnlyReachable /\ (settled => Closed(tainted, latched))
=============================================================================
