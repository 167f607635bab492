----------------------------- MODULE MCSchedule -----------------------------
(***************************************************************************)
(* Three scripts over three channels at two rates, and five scripts that   *)
(* all depend on one another.  The names of the functions are numbered     *)
(* from 11, and not in the order of the scripts; a function may be backed  *)
(* by two scripts.                                                         *)
(***************************************************************************)
EXTENDS Schedule

MCName    == 11..15
MCChannel == {"a", "b", "c"}

Io(fn, rate, writes, reads, calls) ==
  [fn |-> fn, rate |-> rate, writes |-> writes, reads |-> reads, calls |-> calls]

First ==
  {Io(12, 100, {"a"}, reads, calls) :
     reads \in {{}, {"b"}, {"b", "c"}}, calls \in {{}, {11}, {12, 13}}}
Second ==
  {Io(11, rate, writes, reads, calls) :
     rate \in {100, 50, NoRate}, writes \in {{"b"}, {"b", "c"}},
     reads \in {{"a"}, {"a", "b", "c"}}, calls \in {{12}, {13, 14}}}
Third ==
  {Io(fn, rate, {"c"}, reads, calls) :
     fn \in {13, 11}, rate \in {100, NoRate},
     reads \in {{"a"}, {"a", "b"}}, calls \in {{}, {11}, {13}}}

(* Every script writes its own channel and reads all: the worst fan-out.   *)
Everyone ==
  [i \in 1..5 |-> Io(16 - i, 100, MCChannel, MCChannel, MCName)]

MCProjects == {<<p, q, r>> : p \in First, q \in Second, r \in Third} \cup {Everyone}
=============================================================================
