------------------------------ MODULE Sessions ------------------------------
(***************************************************************************)
(* What the session cache promises, without its tables: every login opens  *)
(* a session with an id never used before, at the cost of at most one of   *)
(* the user's own web sessions and of sessions that were due anyway; a     *)
(* session ends once; nobody holds more than Quota web sessions.  The      *)
(* promise is void ("overrun", "misdirected") once the table was full or a *)
(* stale cookie has ended the session of somebody else.                    *)
(***************************************************************************)
EXTENDS Integers, FiniteSets

CONSTANTS Users, Quota

VARIABLES live,   \* the open sessions
          due,    \* those that have idled or lasted too long, or were kicked
          last,   \* the greatest session id given out
          void    \* the reasons why the promise no longer holds

vars == <<live, due, last, void>>

Session == [sid : Nat, user : Users, web : BOOLEAN]
WebOf(S, u) == {s \in S : s.user = u /\ s.web}

Init == live = {} /\ due = {} /\ last = 0 /\ void = {}

\* A login of u that succeeds.
Open(u, web) ==
  \E out \in SUBSET WebOf(live, u), over \in SUBSET due :
    /\ Cardinality(out) <= 1
    /\ last' = last + 1
    /\ live' = (live \ (out \cup over)) \cup {[sid |-> last', user |-> u, web |-> web]}
    /\ Cardinality(WebOf(live', u)) <= Quota
    /\ due' \subseteq live'
    /\ UNCHANGED void

\* A login that finds no place: its id is spent.
Refuse ==
  /\ last' = last + 1
  /\ due' \subseteq live
  /\ UNCHANGED <<live, void>>

\* A logout, or the end of a process.
Close(s) ==
  /\ live' = live \ {s}
  /\ due' \subseteq live'
  /\ UNCHANGED <<last, void>>

\* Time passes, sessions are used, kicked, or their process dies.
Age == due' \subseteq live /\ UNCHANGED <<live, last, void>>

Void == void # {} \/ void' # {}

Next ==
  \/ \E u \in Users, web \in BOOLEAN : Open(u, web)
  \/ Refuse
  \/ \E s \in live : Close(s)
  \/ Age
  \/ Void

Spec == Init /\ [][Next]_vars
=============================================================================
