---------------------------- MODULE Reachability ----------------------------
(***************************************************************************)
(* schedule.rs: what the scheduled functions reach over calls.  T111 warns *)
(* of flash-backed channels when no reachable function preserves them      *)
(* (check_flash_preserve); T104 flags the user functions nothing scheduled *)
(* reaches (check_reachability).  Each audit runs a worklist of its own    *)
(* over the call graph, one after the other.                               *)
(***************************************************************************)
EXTENDS Integers, Sequences

CONSTANTS
  Function,       \* functions and methods, numbered in the order of their paths
  UserFunction,   \* those is_user_function accepts
  Projects        \* the projects under study

(* A script that backs a function; script_io gives up on one that does not *)
(* parse.                                                                  *)
Script ==
  [fn : Function, calls : SUBSET Function, preserves : BOOLEAN, broken : BOOLEAN]

(* roots: the scheduled user functions, in the order of the symbol table.  *)
Project == [scripts : Seq(Script), roots : Seq(UserFunction), flash : BOOLEAN]

ASSUME ReachabilityAssumption ==
  /\ Function \subseteq Int
  /\ UserFunction \subseteq Function
  /\ Projects \subseteq Project

VARIABLES
  project,
  audit,       \* "T111", then "T104"
  phase,       \* "begin", "search" or "done"
  queue,       \* the worklist, popped at its end
  todo,        \* callees of the function just visited, still to be queued
  reachable,
  warned,      \* T111 was reported
  orphans      \* the functions T104 reports

vars == <<project, audit, phase, queue, todo, reachable, warned, orphans>>

(* The scripts analysed, and of two that back one function the later.      *)
Ios == {i \in DOMAIN project.scripts : ~project.scripts[i].broken}

Backs(i, f) ==
  /\ i \in Ios
  /\ project.scripts[i].fn = f
  /\ \A j \in Ios : project.scripts[j].fn = f => j <= i

Callees(f) == UNION {project.scripts[i].calls : i \in {j \in Ios : Backs(j, f)}}

(* Mutant: any script of the project satisfies the audit, run or not.      *)
PreservesAnywhere(f) == \E i \in Ios : project.scripts[i].preserves
Preserves(f) == \E i \in Ios : Backs(i, f) /\ project.scripts[i].preserves
-----------------------------------------------------------------------------
Init ==
  /\ project \in Projects
  /\ audit = "T111"
  /\ phase = "begin"
  /\ queue = <<>>
  /\ todo = {}
  /\ reachable = {}
  /\ warned = FALSE
  /\ orphans = {}

(* Mutant: the second audit goes on with what the first has visited.       *)
FreshKept == reachable
Fresh     == {}

Begin ==
  /\ phase = "begin"
  /\ audit = "T111" => project.flash
  /\ phase' = "search"
  /\ queue' = project.roots
  /\ reachable' = Fresh
  /\ UNCHANGED <<project, audit, todo, warned, orphans>>

(* Nothing is stored in flash: T111 has nothing to look for.               *)
SkipFlash ==
  /\ phase = "begin"
  /\ audit = "T111"
  /\ ~project.flash
  /\ audit' = "T104"
  /\ UNCHANGED <<project, phase, queue, todo, reachable, warned, orphans>>

Opens(f) == f \notin reachable

Marked(f) == reachable \cup {f}

Popped == SubSeq(queue, 1, Len(queue) - 1)
Last   == queue[Len(queue)]

(* The last function of the worklist; one reached before is passed over.   *)
Visit ==
  /\ phase = "search"
  /\ todo = {}
  /\ queue # <<>>
  /\ ~(audit = "T111" /\ Opens(Last) /\ Preserves(Last))
  /\ queue' = Popped
  /\ todo' = IF Opens(Last) THEN Callees(Last) ELSE {}
  /\ reachable' = Marked(Last)
  /\ UNCHANGED <<project, audit, phase, warned, orphans>>

(* T111 returns at the first function that preserves.                      *)
Satisfied ==
  /\ phase = "search"
  /\ todo = {}
  /\ queue # <<>>
  /\ audit = "T111"
  /\ Opens(Last)
  /\ Preserves(Last)
  /\ queue' = Popped
  /\ reachable' = Marked(Last)
  /\ audit' = "T104"
  /\ phase' = "begin"
  /\ UNCHANGED <<project, todo, warned, orphans>>

(* A callee is queued unless it has been reached.                          *)
Queue(f) ==
  /\ phase = "search"
  /\ \A g \in todo : f <= g
  /\ todo' = todo \ {f}
  /\ queue' = IF f \in reachable THEN queue ELSE Append(queue, f)
  /\ UNCHANGED <<project, audit, phase, reachable, warned, orphans>>

Warn ==
  /\ phase = "search"
  /\ todo = {}
  /\ queue = <<>>
  /\ audit = "T111"
  /\ warned' = TRUE
  /\ audit' = "T104"
  /\ phase' = "begin"
  /\ UNCHANGED <<project, queue, todo, reachable, orphans>>

(* Mutant: functions that are not the user's are flagged, too.             *)
FlaggedAny(f) == f \notin reachable
Flagged(f)    == f \in UserFunction /\ f \notin reachable

(* One report for each analysed script; the set has their functions.       *)
Flag ==
  /\ phase = "search"
  /\ todo = {}
  /\ queue = <<>>
  /\ audit = "T104"
  /\ orphans' = {f \in {project.scripts[i].fn : i \in Ios} : Flagged(f)}
  /\ phase' = "done"
  /\ UNCHANGED <<project, audit, queue, todo, reachable, warned>>

Done == phase = "done" /\ UNCHANGED vars

Next ==
  \/ Begin \/ SkipFlash \/ Visit \/ Satisfied \/ Warn \/ Flag \/ Done
  \/ \E f \in todo : Queue(f)

Spec == Init /\ [][Next]_vars

(* A single thread runs the two audits to completion.                      *)
-----------------------------------------------------------------------------
TypeOK ==
  /\ project \in Projects
  /\ audit \in {"T111", "T104"}
  /\ phase \in {"begin", "search", "done"}
  /\ queue \in Seq(Function)
  /\ todo \subseteq Function
  /\ reachable \subseteq Function
  /\ warned \in BOOLEAN
  /\ orphans \subseteq UserFunction

Roots == {project.roots[i] : i \in DOMAIN project.roots}

(* Everything the roots call, directly or not: what every set has that     *)
(* holds the roots and, with a function, what the analysed script calls    *)
(* that backs it.                                                          *)
ClosedSet(S) ==
  /\ Roots \subseteq S
  /\ \A f \in S : Callees(f) \subseteq S

Executed == {f \in Function : \A S \in SUBSET Function : ClosedSet(S) => f \in S}

(* T104 flags exactly the user functions with an analysed script that no   *)
(* root executes, however the worklist went about it.                      *)
OrphansExact ==
  phase = "done" =>
    orphans = {f \in UserFunction :
                 /\ \E i \in Ios : project.scripts[i].fn = f
                 /\ f \notin Executed}

(* "An orphan helper does not satisfy the audit because it never runs":    *)
(* T111 warns exactly if something is kept in flash and none of the        *)
(* scripts that preserve backs a function some root executes.              *)
WarnedExact ==
  phase = "done" =>
    (warned <=>
       /\ project.flash
       /\ \A i \in Ios : project.scripts[i].preserves =>
            \A f \in Executed : ~Backs(i, f))
=============================================================================
