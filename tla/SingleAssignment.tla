-------------------------- MODULE SingleAssignment --------------------------
(***************************************************************************)
(* The single-assignment checks together: T040 on every body by itself and *)
(* T102 across calls, with the counts of flow.rs, against the execution    *)
(* paths of the program.                                                   *)
(***************************************************************************)
EXTENDS CallInlining

(* The paths of every function with the calls followed to a depth.  A      *)
(* function without a script does nothing, and without call cycles no      *)
(* chain of calls is longer than the functions are many.                   *)
ExecutionsTo ==
  LET runs[d \in 0..Cardinality(Function)] ==
        [f \in Function |->
           IF d > 0 /\ f \in Indexed
           THEN Paths(f, program.body[f], runs[d - 1]) ELSE {Still}]
  IN  runs
ExecutionsOf == ExecutionsTo[Cardinality(Function)]

AssignedAlone(f) ==
  IF f \in Indexed THEN SingleAssignment(program.body[f]) ELSE {}

AllEnumerated == \A f \in Indexed : Enumerated(program.body[f])
AllRun        == \A f \in Indexed : NoneEmpty(program.body[f])

TwiceOn(p, c) == p[c].times >= 2
Split(p, c)   == Cardinality(p[c].by) >= 2

(* T040 reports a channel of a body only if one path of that body, calls   *)
(* aside, assigns it twice: exclusive arms are never added up.  An expand  *)
(* over an empty range is counted as one copy.                             *)
T040Sound ==
  phase = "done" /\ AllRun =>
    \A f \in Indexed : \A c \in AssignedAlone(f) :
      \E p \in Paths(f, program.body[f], [g \in Function |-> {Still}]) :
        TwiceOn(p, c)

(* T102 reports a channel only if one path from that root, through all the *)
(* calls on it, assigns it twice.                                          *)
T102Sound ==
  phase = "done" /\ Acyclic /\ AllRun =>
    LET executions == ExecutionsOf
    IN  \A r \in reports : \E p \in executions[r.root] : TwiceOn(p, r.channel)

(* Between them, T040 and T102 miss no double assignment that two          *)
(* functions share on a path from a scheduled function, nor one that a     *)
(* function on such a path commits alone, unless a count wraps.            *)
DoubleAssignmentReported ==
  phase = "done" /\ Acyclic /\ AllEnumerated /\ NoCountWraps =>
    LET executions == ExecutionsOf
    IN  \A root \in program.scheduled \cap Indexed, c \in Channel :
          (\E p \in executions[root] : TwiceOn(p, c) /\ Split(p, c)) =>
            \/ c \in ReportedChannels
            \/ \E f \in CallClosure(root) : c \in AssignedAlone(f)

(* The doc of check_cross_fn_assignment: "the genuine cross-function       *)
(* split ..., never a lone helper".                                        *)
NeverALoneHelper ==
  phase = "done" /\ Acyclic =>
    LET executions == ExecutionsOf
    IN  \A r \in reports :
          \E p \in executions[r.root] : TwiceOn(p, r.channel) /\ Split(p, r.channel)
=============================================================================
