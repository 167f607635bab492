------------------------- MODULE ReachabilityProofs -------------------------
(***************************************************************************)
(* Both worklists compute what the roots execute: what is marked, queued   *)
(* or about to be queued is executed, and whatever a marked function calls *)
(* is one of the three, so that with nothing queued the marks are closed.  *)
(***************************************************************************)
EXTENDS Reachability, SequenceTheorems, TLAPS

Queued == {queue[i] : i \in DOMAIN queue}

(* One search: sound, complete up to the work left, and of T111 without a  *)
(* preserving function so far.                                             *)
SearchSound ==
  phase = "search" => reachable \cup todo \cup Queued \subseteq Executed

SearchComplete ==
  phase = "search" =>
    /\ Roots \subseteq reachable \cup Queued
    /\ \A f \in reachable : Callees(f) \subseteq reachable \cup todo \cup Queued

SearchSilent ==
  phase = "search" /\ audit = "T111" =>
    /\ project.flash
    /\ \A f \in reachable : ~Preserves(f)

SearchOver == phase # "search" => todo = {}

(* What has been concluded.                                                *)
WarnedRight ==
  warned <=> /\ audit = "T104"
             /\ project.flash
             /\ \A f \in Executed : ~Preserves(f)

OrphansRight ==
  phase = "done" =>
    /\ audit = "T104"
    /\ orphans = {f \in UserFunction :
                    /\ \E i \in Ios : project.scripts[i].fn = f
                    /\ f \notin Executed}

IInv ==
  /\ TypeOK
  /\ SearchSound
  /\ SearchComplete
  /\ SearchSilent
  /\ SearchOver
  /\ WarnedRight
  /\ OrphansRight
-----------------------------------------------------------------------------
LEMMA ProjectType ==
  ASSUME project \in Projects
  PROVE  /\ project.scripts \in Seq(Script)
         /\ project.roots \in Seq(UserFunction)
         /\ project.roots \in Seq(Function)
         /\ Roots \subseteq Function
         /\ \A f : Callees(f) \subseteq Function
         /\ \A i \in Ios : project.scripts[i] \in Script
<1>1. project \in Project
  BY ReachabilityAssumption
<1>2. project.scripts \in Seq(Script) /\ project.roots \in Seq(UserFunction)
  BY <1>1 DEF Project
<1>3. project.roots \in Seq(Function)
  BY <1>2, ReachabilityAssumption, SeqMonotonic
<1>4. Roots \subseteq Function
  BY <1>3, ElementOfSeq, LenProperties DEF Roots
<1>5. \A i \in Ios : project.scripts[i] \in Script
  BY <1>2, ElementOfSeq, LenProperties DEF Ios
<1>6. \A f : Callees(f) \subseteq Function
  BY <1>5 DEF Callees, Script
<1> QED
  BY <1>2, <1>3, <1>4, <1>5, <1>6

(* What is executed is closed, and within whatever else is.                *)
LEMMA ExecutedIsLeast ==
  ASSUME project \in Projects
  PROVE  /\ ClosedSet(Executed)
         /\ Executed \subseteq Function
         /\ \A S \in SUBSET Function : ClosedSet(S) => Executed \subseteq S
<1>1. Roots \subseteq Executed
  BY ProjectType DEF Executed, ClosedSet
<1>2. ASSUME NEW f \in Executed
      PROVE  Callees(f) \subseteq Executed
  <2>1. SUFFICES ASSUME NEW g \in Callees(f), NEW S \in SUBSET Function, ClosedSet(S)
                 PROVE  g \in S
    BY ProjectType DEF Executed
  <2>2. f \in S
    BY <2>1 DEF Executed
  <2> QED
    BY <2>1, <2>2 DEF ClosedSet
<1>3. ClosedSet(Executed)
  BY <1>1, <1>2 DEF ClosedSet
<1> QED
  BY <1>3 DEF Executed

(* A worklist that has run out has marked exactly what is executed.        *)
LEMMA SearchExact ==
  ASSUME IInv, phase = "search", todo = {}, queue = <<>>
  PROVE  reachable = Executed
<1>1. Queued = {}
  BY DEF Queued
<1>2. ClosedSet(reachable)
  BY <1>1 DEF IInv, SearchComplete, ClosedSet
<1>3. project \in Projects /\ reachable \in SUBSET Function
  BY DEF IInv, TypeOK
<1>4. Executed \subseteq reachable
  BY <1>2, <1>3, ExecutedIsLeast
<1>5. reachable \subseteq Executed
  BY DEF IInv, SearchSound
<1> QED
  BY <1>4, <1>5

(* Popping takes the last function from the worklist and no other.         *)
LEMMA PoppedQueue ==
  ASSUME queue \in Seq(Function), queue # <<>>
  PROVE  /\ Last \in Function
         /\ Popped \in Seq(Function)
         /\ Queued = {Popped[i] : i \in DOMAIN Popped} \cup {Last}
<1>1. PICK n \in Nat : Len(queue) = n /\ DOMAIN queue = 1..n
  BY LenProperties
<1>2. n # 0
  BY <1>1, EmptySeq
<1>3. /\ Popped \in Seq(Function)
      /\ Len(Popped) = n - 1
      /\ \A i \in 1..(n - 1) : Popped[i] = queue[i]
  BY <1>1, <1>2, SubSeqProperties DEF Popped
<1>4. DOMAIN Popped = 1..(n - 1)
  BY <1>3, LenProperties
<1>5. Last = queue[n] /\ n \in 1..n /\ 1..n = 1..(n - 1) \cup {n}
  BY <1>1, <1>2 DEF Last
<1>6. Last \in Function
  BY <1>1, <1>5, ElementOfSeq
<1>7. Queued = {queue[i] : i \in 1..(n - 1)} \cup {queue[n]}
  BY <1>1, <1>5 DEF Queued
<1>8. {queue[i] : i \in 1..(n - 1)} = {Popped[i] : i \in DOMAIN Popped}
  BY <1>3, <1>4
<1> QED
  BY <1>3, <1>5, <1>6, <1>7, <1>8

(* Nothing changes what the project is.                                    *)
LEMMA SameProject ==
  ASSUME project' = project
  PROVE  /\ Executed' = Executed
         /\ Roots' = Roots
         /\ Ios' = Ios
         /\ \A f : Callees(f)' = Callees(f)
         /\ \A f : Preserves(f)' = Preserves(f)
<1>1. Roots' = Roots /\ Ios' = Ios
  BY DEF Roots, Ios
<1>2. \A i, f : Backs(i, f)' = Backs(i, f)
  BY <1>1 DEF Backs
<1>3. \A f : Callees(f)' = Callees(f)
  BY <1>1, <1>2 DEF Callees
<1>4. \A f : Preserves(f)' = Preserves(f)
  BY <1>1, <1>2 DEF Preserves
<1>5. Executed' = Executed
  BY <1>1, <1>3 DEF Executed, ClosedSet
<1> QED
  BY <1>1, <1>3, <1>4, <1>5
-----------------------------------------------------------------------------
LEMMA TypeHolds == ASSUME TypeOK, [Next]_vars PROVE TypeOK'
<1> USE DEF TypeOK
<1>1. project \in Projects
  OBVIOUS
<1>2. \A f : Callees(f) \subseteq Function
  BY <1>1, ProjectType
<1>3. CASE Begin
  BY <1>1, <1>3, ProjectType DEF Begin, Fresh
<1>4. CASE SkipFlash
  BY <1>4 DEF SkipFlash
<1>5. CASE Visit
  BY <1>2, <1>5, PoppedQueue DEF Visit, Marked
<1>6. CASE Satisfied
  BY <1>6, PoppedQueue DEF Satisfied, Marked
<1>7. CASE \E f \in todo : Queue(f)
  <2>1. PICK f \in todo : Queue(f)
    BY <1>7
  <2>2. f \in Function /\ Append(queue, f) \in Seq(Function)
    BY <2>1, AppendProperties
  <2> QED
    BY <2>1, <2>2 DEF Queue
<1>8. CASE Warn
  BY <1>8 DEF Warn
<1>9. CASE Flag
  BY <1>9 DEF Flag, Flagged
<1>10. CASE Done \/ UNCHANGED vars
  BY <1>10 DEF Done, vars
<1> QED
  BY <1>3, <1>4, <1>5, <1>6, <1>7, <1>8, <1>9, <1>10 DEF Next

(* A search begins with the roots queued and nothing marked.               *)
LEMMA BeginKeeps ==
  ASSUME IInv, Begin PROVE IInv'
<1>1. TypeOK' /\ project \in Projects /\ project' = project
  BY TypeHolds DEF IInv, Next, TypeOK, Begin
<1>2. /\ audit' = audit /\ warned' = warned /\ todo' = {} /\ phase' = "search"
      /\ audit = "T111" => project.flash
  BY DEF Begin, IInv, SearchOver
<1>3. reachable' = {} /\ Queued' = Roots
  BY DEF Begin, Fresh, Queued, Roots
<1>4. Roots \subseteq Executed
  BY <1>1, ExecutedIsLeast DEF ClosedSet
<1>5. SearchSound' /\ SearchComplete'
  BY <1>1, <1>2, <1>3, <1>4, SameProject DEF SearchSound, SearchComplete
<1>6. SearchSilent' /\ SearchOver' /\ OrphansRight'
  BY <1>1, <1>2, <1>3 DEF SearchSilent, SearchOver, OrphansRight
<1>7. WarnedRight'
  BY <1>1, <1>2, SameProject DEF IInv, WarnedRight
<1> QED
  BY <1>1, <1>5, <1>6, <1>7 DEF IInv

(* A visit moves a function from the worklist to the marks, with its       *)
(* callees to be queued, or finds it marked already.                       *)
LEMMA VisitKeeps ==
  ASSUME IInv, Visit PROVE IInv'
<1>1. TypeOK' /\ TypeOK /\ project \in Projects /\ project' = project
  BY TypeHolds DEF IInv, Next, TypeOK, Visit
<1>2. /\ audit' = audit /\ warned' = warned /\ phase' = phase
      /\ phase = "search" /\ todo = {}
      /\ reachable' = reachable \cup {Last}
      /\ todo' = IF Last \notin reachable THEN Callees(Last) ELSE {}
      /\ audit = "T111" => Last \in reachable \/ ~Preserves(Last)
  BY DEF Visit, Marked, Opens
<1>3. Queued = Queued' \cup {Last}
  <2>1. queue' = Popped
    BY DEF Visit
  <2>2. Queued' = {Popped[i] : i \in DOMAIN Popped}
    BY <2>1 DEF Queued
  <2> QED
    BY <1>1, <2>2, PoppedQueue DEF Visit, TypeOK
<1>4. Last \in Executed
  BY <1>2, <1>3 DEF IInv, SearchSound
<1>5. Callees(Last) \subseteq Executed
  BY <1>1, <1>4, ExecutedIsLeast DEF ClosedSet
<1>6. SearchSound'
  BY <1>1, <1>2, <1>3, <1>4, <1>5, SameProject DEF IInv, SearchSound
<1>7. SearchComplete'
  <2>1. Roots' \subseteq reachable' \cup Queued'
    BY <1>1, <1>2, <1>3, SameProject DEF IInv, SearchComplete
  <2>2. ASSUME NEW f \in reachable
        PROVE  Callees(f) \subseteq reachable' \cup todo' \cup Queued'
    BY <1>2, <1>3 DEF IInv, SearchComplete
  <2>3. Callees(Last) \subseteq reachable' \cup todo' \cup Queued'
    BY <1>2, <2>2
  <2>4. \A f \in reachable' : Callees(f)' \subseteq reachable' \cup todo' \cup Queued'
    BY <1>1, <1>2, <2>2, <2>3, SameProject
  <2> QED
    BY <2>1, <2>4 DEF SearchComplete
<1>8. SearchSilent'
  BY <1>1, <1>2, SameProject DEF IInv, SearchSilent
<1>9. SearchOver' /\ OrphansRight'
  BY <1>2 DEF SearchOver, OrphansRight
<1>10. WarnedRight'
  BY <1>1, <1>2, SameProject DEF IInv, WarnedRight
<1> QED
  BY <1>1, <1>6, <1>7, <1>8, <1>9, <1>10 DEF IInv

(* Queueing a callee loses it only if it is marked.                        *)
LEMMA QueueKeeps ==
  ASSUME IInv, NEW f \in todo, Queue(f) PROVE IInv'
<1>1. TypeOK' /\ TypeOK /\ project \in Projects /\ project' = project
  BY TypeHolds DEF IInv, Next, TypeOK, Queue
<1>2. /\ audit' = audit /\ warned' = warned /\ phase' = phase
      /\ phase = "search" /\ reachable' = reachable
      /\ todo' = todo \ {f}
  BY DEF Queue
<1>3. /\ f \in reachable => Queued' = Queued
      /\ f \notin reachable => Queued' = Queued \cup {f}
  <2>1. CASE f \in reachable
    BY <2>1 DEF Queue, Queued
  <2>2. CASE f \notin reachable
    <3>1. queue' = Append(queue, f)
      BY <2>2 DEF Queue
    <3>2. PICK n \in Nat : Len(queue) = n /\ DOMAIN queue = 1..n
      BY <1>1, LenProperties DEF TypeOK
    <3>3. f \in Function /\ queue \in Seq(Function)
      BY <1>1 DEF TypeOK
    <3>4. /\ DOMAIN queue' = 1..(n + 1)
          /\ queue'[n + 1] = f
          /\ \A i \in 1..n : queue'[i] = queue[i]
      BY <3>1, <3>2, <3>3, AppendProperties, LenProperties
    <3>5. 1..(n + 1) = 1..n \cup {n + 1}
      OBVIOUS
    <3> QED
      BY <2>2, <3>2, <3>4, <3>5 DEF Queued
  <2> QED
    BY <2>1, <2>2
<1>4. SearchSound'
  BY <1>1, <1>2, <1>3, SameProject DEF IInv, SearchSound
<1>5. SearchComplete'
  BY <1>1, <1>2, <1>3, SameProject DEF IInv, SearchComplete
<1>6. SearchSilent' /\ SearchOver' /\ OrphansRight'
  BY <1>1, <1>2, SameProject DEF IInv, SearchSilent, SearchOver, OrphansRight
<1>7. WarnedRight'
  BY <1>1, <1>2, SameProject DEF IInv, WarnedRight
<1> QED
  BY <1>1, <1>4, <1>5, <1>6, <1>7 DEF IInv

(* What the steps conclude that end a search, or skip the first.           *)
LEMMA ConclusionRight ==
  ASSUME IInv, SkipFlash \/ Satisfied \/ Warn \/ Flag PROVE IInv'
<1>1. TypeOK' /\ TypeOK /\ project \in Projects /\ project' = project
  BY TypeHolds DEF IInv, Next, TypeOK, SkipFlash, Satisfied, Warn, Flag
<1>2. phase' # "search" /\ todo' = {}
  BY DEF SkipFlash, Satisfied, Warn, Flag, IInv, SearchOver
<1>3. SearchSound' /\ SearchComplete' /\ SearchSilent' /\ SearchOver'
  BY <1>2 DEF SearchSound, SearchComplete, SearchSilent, SearchOver
<1>4. CASE SkipFlash
  <2>1. WarnedRight'
    BY <1>1, <1>4 DEF SkipFlash, IInv, WarnedRight
  <2> QED
    BY <1>1, <1>3, <1>4, <2>1 DEF SkipFlash, IInv, OrphansRight
<1>5. CASE Satisfied
  <2>1. Last \in Executed
    BY <1>1, <1>5, PoppedQueue DEF Satisfied, IInv, SearchSound, TypeOK
  <2>2. warned' = FALSE /\ Preserves(Last) /\ phase' = "begin"
    BY <1>1, <1>5 DEF Satisfied, IInv, WarnedRight, TypeOK
  <2>3. WarnedRight'
    BY <1>1, <2>1, <2>2, SameProject DEF WarnedRight
  <2> QED
    BY <1>1, <1>3, <2>2, <2>3 DEF IInv, OrphansRight
<1>6. CASE Warn
  <2>1. reachable = Executed
    BY <1>6, SearchExact DEF Warn
  <2>2. warned' = TRUE /\ audit' = "T104" /\ phase' = "begin"
    BY <1>6 DEF Warn
  <2>3. project.flash /\ \A f \in Executed : ~Preserves(f)
    BY <1>6, <2>1 DEF Warn, IInv, SearchSilent
  <2>4. WarnedRight'
    BY <1>1, <2>2, <2>3, SameProject DEF WarnedRight
  <2> QED
    BY <1>1, <1>3, <2>2, <2>4 DEF IInv, OrphansRight
<1>7. CASE Flag
  <2>1. reachable = Executed
    BY <1>7, SearchExact DEF Flag
  <2>2. /\ warned' = warned /\ audit' = audit /\ audit = "T104"
        /\ orphans' = {f \in {project.scripts[i].fn : i \in Ios} : Flagged(f)}
    BY <1>7 DEF Flag
  <2>3. orphans' = {f \in UserFunction :
                      /\ \E i \in Ios : project.scripts[i].fn = f
                      /\ f \notin Executed}
    BY <2>1, <2>2 DEF Flagged
  <2>4. OrphansRight'
    BY <1>1, <2>2, <2>3, SameProject DEF OrphansRight
  <2>5. WarnedRight'
    BY <1>1, <2>2, SameProject DEF IInv, WarnedRight
  <2> QED
    BY <1>1, <1>3, <2>4, <2>5 DEF IInv
<1> QED
  BY <1>4, <1>5, <1>6, <1>7

LEMMA InvariantHolds == Spec => []IInv
<1>1. Init => IInv
  <2> SUFFICES ASSUME Init PROVE IInv
    OBVIOUS
  <2>1. TypeOK
    BY EmptySeq DEF Init, TypeOK
  <2>2. SearchSound /\ SearchComplete /\ SearchSilent /\ SearchOver
    BY DEF Init, SearchSound, SearchComplete, SearchSilent, SearchOver
  <2> QED
    BY <2>1, <2>2 DEF Init, IInv, WarnedRight, OrphansRight
<1>2. IInv /\ [Next]_vars => IInv'
  <2> SUFFICES ASSUME IInv, [Next]_vars PROVE IInv'
    OBVIOUS
  <2>1. CASE UNCHANGED vars
    <3>1. /\ project' = project /\ audit' = audit /\ phase' = phase
          /\ queue' = queue /\ todo' = todo /\ reachable' = reachable
          /\ warned' = warned /\ orphans' = orphans
      BY <2>1 DEF vars
    <3>2. Queued' = Queued
      BY <3>1 DEF Queued
    <3>3. TypeOK' /\ SearchOver'
      BY <3>1 DEF IInv, TypeOK, SearchOver
    <3>4. SearchSound' /\ SearchComplete' /\ SearchSilent'
      BY <3>1, <3>2, SameProject DEF IInv, SearchSound, SearchComplete, SearchSilent
    <3>5. WarnedRight'
      BY <3>1, SameProject DEF IInv, WarnedRight
    <3>6. OrphansRight'
      BY <3>1, SameProject DEF IInv, OrphansRight
    <3> QED
      BY <3>3, <3>4, <3>5, <3>6 DEF IInv
  <2>2. CASE Done
    BY <2>1, <2>2 DEF Done
  <2> QED
    BY <2>1, <2>2, BeginKeeps, VisitKeeps, QueueKeeps, ConclusionRight DEF Next
<1> QED
  BY <1>1, <1>2, PTL DEF Spec

(* Every reachable state of the two audits has its type.                   *)
THEOREM TypeCorrect == Spec => []TypeOK
<1>1. IInv => TypeOK
  BY DEF IInv
<1> QED
  BY <1>1, InvariantHolds, PTL

(* T104 flags exactly the user functions that no root executes, for every  *)
(* project and however its calls loop.                                     *)
THEOREM OrphansCorrect == Spec => []OrphansExact
<1>1. IInv => OrphansExact
  BY DEF IInv, OrphansRight, OrphansExact
<1> QED
  BY <1>1, InvariantHolds, PTL

(* T111 warns exactly if something is kept in flash and nothing that is    *)
(* executed preserves it.                                                  *)
THEOREM WarningCorrect == Spec => []WarnedExact
<1>1. IInv => WarnedExact
  <2> SUFFICES ASSUME IInv, phase = "done" PROVE WarnedExact
    BY DEF WarnedExact
  <2>1. warned <=> project.flash /\ \A f \in Executed : ~Preserves(f)
    BY DEF IInv, WarnedRight, OrphansRight
  <2> QED
    BY <2>1 DEF WarnedExact, Preserves
<1> QED
  BY <1>1, InvariantHolds, PTL
=============================================================================
