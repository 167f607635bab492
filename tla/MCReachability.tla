--------------------------- MODULE MCReachability ---------------------------
(***************************************************************************)
(* Four functions, the last one generated and not the user's.  Any of them *)
(* may call the others, the first two may be scheduled, and the first may  *)
(* be backed by a second script.                                           *)
(***************************************************************************)
EXTENDS Reachability

MCFunction == 1..4
MCUser     == 1..3

Backing(f, calls, preserves, broken) ==
  [fn |-> f, calls |-> calls, preserves |-> preserves, broken |-> broken]

First  == {Backing(1, c, FALSE, b) : c \in {{}, {2, 3}, {1, 4}}, b \in BOOLEAN}
Second == {Backing(2, c, p, FALSE) : c \in {{}, {1}, {2, 3}}, p \in BOOLEAN}
Third  == {Backing(3, c, p, FALSE) : c \in {{2}, {1, 4}}, p \in BOOLEAN}
Fourth == {Backing(4, {3}, FALSE, FALSE), Backing(1, {3}, TRUE, FALSE)}

MCProjects ==
  {[scripts |-> <<a, b, c, d>>, roots |-> r, flash |-> h] :
     a \in First, b \in Second, c \in Third, d \in Fourth,
     r \in {<<>>, <<1>>, <<2, 1>>}, h \in BOOLEAN}
=============================================================================
