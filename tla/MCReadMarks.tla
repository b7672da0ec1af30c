----------------------------- MODULE MCReadMarks -----------------------------
(* Two boards and a file that has room for the marks of both, but not when   *)
(* both lists are full.                                                      *)
EXTENDS ReadMarks, TLC

CONSTANTS a, b, x, w1, w2

MCHomes == {Cells([board |-> a, marks |-> <<3, 1>>])}

\* Older than all marks.
MCJunk == {0}

\* A list that goes up, as a difference beyond an int leaves it.
MCWrecks == {Cells([board |-> a, marks |-> <<-9, 3>>])}

MCCrews == {{"telnet", "api"}, {"telnet", w1}, {w1, w2}}

Symmetry == Permutations({w1, w2})
==============================================================================
