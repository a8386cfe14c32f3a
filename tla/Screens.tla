------------------------------- MODULE Screens -------------------------------
(***************************************************************************)
(* What virtual terminals promise: every terminal has a screen of its own, *)
(* on which the programs and the keyboard echo of that terminal draw,      *)
(* whether it is on display or not; and the monitor shows, at every        *)
(* moment, the screen of the terminal on display.  A program that asks for *)
(* the screen itself is lent the one on display, which is its own          *)
(* terminal's only if that is on display; nobody else draws there.         *)
(***************************************************************************)
EXTENDS Integers

CONSTANTS
  NumTerminals,
  Values      (* what can be drawn *)

VARIABLES
  screen,     (* screen[t]: the last drawing on t and the terminal it is of *)
  display,    (* the terminal on display                                    *)
  monitor,    (* what the video hardware shows                              *)
  lent        (* << t, s >>: a program of terminal t was lent the screen s  *)

vars == << screen, display, monitor, lent >>

Terminals == 0 .. NumTerminals - 1

Drawings == Terminals \X Values

\* Screens start with anything on them.
Init ==
  /\ DOMAIN screen = Terminals
  /\ display = 0
  /\ monitor = screen[display]
  /\ lent = {}

\* A program of terminal t draws v on screen s.
Draw(t, s, v) ==
  /\ s = t \/ << t, s >> \in lent
  /\ screen' = [screen EXCEPT ![s] = << t, v >>]
  /\ UNCHANGED << display, lent >>

\* The user looks at terminal t.
Show(t) == display' = t /\ UNCHANGED << screen, lent >>

\* A program of terminal t is lent the screen on display; any may be given back.
Lend(t) == lent' \subseteq lent \cup {<< t, display >>} /\ UNCHANGED << screen, display >>

Next ==
  /\ \E t \in Terminals :
       \/ Show(t)
       \/ Lend(t)
       \/ \E s \in Terminals, v \in Values : Draw(t, s, v)
  /\ monitor' = screen'[display']

Spec == Init /\ [][Next]_vars
=============================================================================
