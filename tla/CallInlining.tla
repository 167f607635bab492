---------------------------- MODULE CallInlining ----------------------------
(***************************************************************************)
(* schedule.rs, check_cross_fn_assignment (T102): a channel assigned more  *)
(* than once on one execution path across function calls.  The counts of   *)
(* every function body are computed with each call expanded to the counts  *)
(* of its callee, by a recursion (inlined_counts) that is modelled by the  *)
(* stack of its activations.  It shares a memo across the whole call graph *)
(* and cuts a call back into a function that is still on the stack.        *)
(*                                                                         *)
(* A body is counted by Flow.                                              *)
(***************************************************************************)
EXTENDS Flow

CONSTANTS
  Body,            \* the bodies of functions
  Missing,         \* not a Body: no script backs the function, or it fails to parse
  NotYet,          \* no entry in the memo
  Programs         \* the projects under study

(* A project: the bodies of its functions, the order of those with a       *)
(* script, and the user functions a schedule event triggers.               *)
Program ==
  [body : [Function -> Body \cup {Missing}], order : Seq(Function),
   scheduled : SUBSET Function]

(* Every function with a script that parses has one place in the order.    *)
ASSUME CallInliningAssumption ==
  /\ IsFiniteSet(Function)
  /\ \A b \in Body : IsBody(b)
  /\ Missing \notin Body
  /\ NotYet \notin Tally
  /\ Programs \subseteq Program
  /\ \A p \in Programs : Range(p.order) = {f \in Function : p.body[f] \in Body}

VARIABLES
  program,
  phase,     \* "inline", "report" or "done"
  next,      \* the position in program.order of the next root
  stack,     \* the activations of inlined_counts: [fn, todo]
  memo,      \* Function -> the memoised counts, or NotYet
  reports    \* the T102 findings: [channel, root, writers]

vars == <<program, phase, next, stack, memo, reports>>

(* The functions `index` knows: those backed by a script that parses.      *)
Indexed == {f \in Function : program.body[f] # Missing}

CalledBy(f) ==
  IF f \in Indexed THEN Range(UserCallees(program.body[f])) ELSE {}

Visiting == {stack[i].fn : i \in DOMAIN stack}

SelfCounts(f) ==
  IF f \in Indexed THEN ChannelCounts(program.body[f], NoCalls) ELSE Zero

(* The expander a body is counted with; a callee the memo lacks adds       *)
(* nothing.                                                                *)
ExpanderWithSelf ==
  [f \in Function |->
     IF memo[f] = NotYet THEN Zero
     ELSE [c \in Channel |-> memo[f][c] + SelfCounts(f)[c]]]
Expander == [f \in Function |-> IF memo[f] = NotYet THEN Zero ELSE memo[f]]

(* Everything reachable from f over calls, f included.                     *)
CallClosure(f) ==
  {g \in Function :
     \A S \in SUBSET Function :
       f \in S /\ (\A h \in S : CalledBy(h) \subseteq S) => g \in S}

Activation(f) == [fn |-> f, todo |-> UserCallees(program.body[f])]
Below(s, t) == \A c \in Channel : s[c] <= t[c]
-----------------------------------------------------------------------------
Init ==
  /\ program \in Programs
  /\ phase = "inline"
  /\ next = 1
  /\ stack = <<>>
  /\ memo = [f \in Function |-> NotYet]
  /\ reports = {}

(* The loop over all contexts: a function whose counts are memoised is     *)
(* not counted again.                                                      *)
NextRoot ==
  /\ phase = "inline"
  /\ stack = <<>>
  /\ next \in DOMAIN program.order
  /\ next' = next + 1
  /\ stack' = IF memo[program.order[next]] = NotYet
              THEN <<Activation(program.order[next])>> ELSE <<>>
  /\ UNCHANGED <<program, phase, memo, reports>>

Top == stack[Len(stack)]

(* What becomes of the next callee of the activation on top: it is already *)
(* memoised,                                                               *)
Memoised(f) == memo[f] # NotYet

(* or it gets empty counts, for it has no body to count or is still being  *)
(* counted further down the stack,                                         *)
CutOffUnguarded(f) == f \notin Indexed
CutOffDeep(f)      == f \notin Indexed \/ Len(stack) > 1
CutOff(f)          == f \notin Indexed \/ f \in Visiting

AdvancedNot == stack
Advanced    == [stack EXCEPT ![Len(stack)].todo = Tail(@)]

(* or it is counted first.                                                 *)
Descend ==
  /\ phase = "inline"
  /\ stack # <<>>
  /\ Top.todo # <<>>
  /\ LET f == Head(Top.todo)
     IN  /\ memo' = IF ~Memoised(f) /\ CutOff(f)
                    THEN [memo EXCEPT ![f] = Zero] ELSE memo
         /\ stack' = IF Memoised(f) \/ CutOff(f) THEN Advanced
                     ELSE Append(Advanced, Activation(f))
  /\ UNCHANGED <<program, phase, next, reports>>

(* All callees of the function on top are memoised: count it.              *)
Return ==
  /\ phase = "inline"
  /\ stack # <<>>
  /\ Top.todo = <<>>
  /\ memo' = [memo EXCEPT ![Top.fn] = ChannelCounts(program.body[Top.fn], Expander)]
  /\ stack' = SubSeq(stack, 1, Len(stack) - 1)
  /\ UNCHANGED <<program, phase, next, reports>>

BeginReportAtZero ==
  /\ phase = "inline"
  /\ stack = <<>>
  /\ next \notin DOMAIN program.order
  /\ phase' = "report"
  /\ next' = 0
  /\ UNCHANGED <<program, stack, memo, reports>>

BeginReport ==
  /\ phase = "inline"
  /\ stack = <<>>
  /\ next \notin DOMAIN program.order
  /\ phase' = "report"
  /\ next' = 1
  /\ UNCHANGED <<program, stack, memo, reports>>

WritersOf(root, c) == {f \in CallClosure(root) : SelfCounts(f)[c] >= 1}

(* A channel is reported at a root where a path assigns it twice, unless a *)
(* function of the closure does so alone or is alone in assigning it.      *)
Reportable(root, c) ==
  /\ Expander[root][c] >= 2
  /\ \A f \in CallClosure(root) : SelfCounts(f)[c] < 2
  /\ Cardinality(WritersOf(root, c)) >= 2

ReportedChannels == {r.channel : r \in reports}

(* One scheduled root of the loop; each channel is reported once.          *)
ReportRoot ==
  LET root == program.order[next]
  IN  /\ phase = "report"
      /\ next \in DOMAIN program.order
      /\ next' = next + 1
      /\ reports' =
           reports \cup
             {[channel |-> c, root |-> root, writers |-> WritersOf(root, c)] :
                c \in {d \in Channel \ ReportedChannels :
                         root \in program.scheduled /\ Reportable(root, d)}}
      /\ UNCHANGED <<program, phase, stack, memo>>

EndReport ==
  /\ phase = "report"
  /\ next \notin DOMAIN program.order
  /\ phase' = "done"
  /\ UNCHANGED <<program, next, stack, memo, reports>>

Done == phase = "done" /\ UNCHANGED vars

Next == NextRoot \/ Descend \/ Return \/ BeginReport \/ ReportRoot \/ EndReport \/ Done

Spec == Init /\ [][Next]_vars

(* A single thread runs the audit to completion.                           *)
FairSpec == Spec /\ WF_vars(Next)
-----------------------------------------------------------------------------
Frame == [fn : Function, todo : Seq(Function)]

TypeOK ==
  /\ program \in Programs
  /\ phase \in {"inline", "report", "done"}
  /\ next \in 1..(Len(program.order) + 1)
  /\ stack \in Seq(Frame)
  /\ memo \in [Function -> Tally \cup {NotYet}]
  /\ reports \subseteq
       [channel : Channel, root : Function, writers : SUBSET Function]

(* The recursion guard: no function is activated twice, every activation   *)
(* was called by the one below it, and nothing on the stack is left        *)
(* without a script.  So the recursion is no deeper than the functions are *)
(* many, whatever call cycles the scripts contain.                         *)
StackIsCallPath ==
  /\ \A i, j \in DOMAIN stack : stack[i].fn = stack[j].fn => i = j
  /\ \A i \in DOMAIN stack : stack[i].fn \in Indexed
  /\ \A i \in DOMAIN stack :
       i > 1 => stack[i].fn \in CalledBy(stack[i - 1].fn)

Acyclic == \A f \in Function : \A g \in CalledBy(f) : f \notin CallClosure(g)

(* What the recursion stands for: the counts of every function with the    *)
(* calls expanded to a depth, and nothing known of those below it.  Without *)
(* call cycles the number of functions is deep enough for all of them.     *)
InlinedTo ==
  LET counts[d \in 0..Cardinality(Function)] ==
        [f \in Function |->
           IF d > 0 /\ f \in Indexed
           THEN ChannelCounts(program.body[f], counts[d - 1]) ELSE Zero]
  IN  counts
InlinedFully == InlinedTo[Cardinality(Function)]

(* No addition on the way wraps.                                           *)
NoCountWraps ==
  \A d \in 0..Cardinality(Function) - 1 : \A f \in Indexed :
    NothingWraps(program.body[f], InlinedTo[d])

(* Without call cycles, every memo entry is the count of all the paths of  *)
(* the function, however the shared memo was filled: no function is        *)
(* counted while one of its callees is missing from the memo.              *)
MemoExact ==
  Acyclic =>
    \A f \in Function : memo[f] # NotYet => memo[f] = InlinedFully[f]

(* "A call back into a function still on the stack contributes nothing,    *)
(* terminating the recursion with a safe under-approximation": with call   *)
(* cycles too, no memo entry exceeds the counts with the calls followed as *)
(* deep as the functions are many, the ones a cycle left incomplete        *)
(* included.  An addition that wraps can make more calls count less.       *)
UnderApproximates ==
  NoCountWraps =>
    \A f \in Function : memo[f] # NotYet => Below(memo[f], InlinedFully[f])

(* The recursion and the two loops end, call cycles or not.                *)
Terminates == <>(phase = "done")
=============================================================================
