------------------------------ MODULE TurnTaking ------------------------------
(***************************************************************************)
(* What the write arbiter of a shared TTY promises (types/tty.go, the      *)
(* constant _waiteWaitDuration and the two comments "slave is writing"):   *)
(* the keyboard is taken in turns.  A writer whose input reaches the TTY   *)
(* keeps the turn, and another one may only take it over after everybody   *)
(* else has been silent for Wait.                                          *)
(***************************************************************************)
EXTENDS Integers

CONSTANTS
  Writers,   \* the browsers that may type into one TTY
  Wait       \* the silence that passes the turn on

VARIABLES
  now,       \* the clock
  wrote      \* when each writer last got input through

\* The zero time.Time: longer ago than Wait at any moment.
Never == 0 - Wait - 1

Init ==
  /\ now = 0
  /\ wrote = [w \in Writers |-> Never]

Tick ==
  /\ now' = now + 1
  /\ UNCHANGED wrote

Write(w) ==
  /\ \A v \in Writers \ {w} : now - wrote[v] >= Wait
  /\ wrote' = [wrote EXCEPT ![w] = now]
  /\ UNCHANGED now

Next == Tick \/ \E w \in Writers : Write(w)

Spec == Init /\ [][Next]_<<now, wrote>>

\* What that comes to in each state: the last inputs of two writers are at
\* least Wait apart.
Apart ==
  \A v, w \in Writers : v # w /\ wrote[v] # Never /\ wrote[w] # Never =>
    wrote[w] - wrote[v] >= Wait \/ wrote[v] - wrote[w] >= Wait
=============================================================================
