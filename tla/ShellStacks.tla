----------------------------- MODULE ShellStacks -----------------------------
(***************************************************************************)
(* What the mp3 kernel promises its users, without slots, page directories *)
(* or saved registers: each terminal has a stack of programs, whose top is *)
(* the one running; executing pushes, halting pops, and the bottom of a    *)
(* stack is a program that is never popped.  The processor goes round the  *)
(* terminals in use, and one terminal is on display.                       *)
(***************************************************************************)
EXTENDS Integers, FiniteSets, Sequences, SequencesExt

CONSTANTS NumProcs, NumTerminals, Programs, Shell

VARIABLES
  stack,    (* stack[t]: the programs of terminal t, the running one last *)
  turn,     (* the terminal whose program has the processor               *)
  display   (* the terminal on display                                    *)

vars == << stack, turn, display >>

Terminals == 0 .. NumTerminals - 1

InUse(t) == stack[t] # << >>

\* One more program fits.
Room == Cardinality(UNION {{t} \X DOMAIN stack[t] : t \in Terminals}) < NumProcs

Init ==
  /\ stack = [t \in Terminals |-> << >>]
  /\ turn = 0
  /\ display = 0

\* The running program executes f; the first program of all is the shell.
Push(f) ==
  /\ Room
  /\ ~InUse(turn) => f = Shell
  /\ stack' = [stack EXCEPT ![turn] = Append(@, f)]
  /\ UNCHANGED << turn, display >>

\* The running program halts and the one that executed it goes on.
Pop ==
  /\ Len(stack[turn]) > 1
  /\ stack' = [stack EXCEPT ![turn] = Front(@)]
  /\ UNCHANGED << turn, display >>

\* The processor passes to t, skipping only terminals not in use.
Pass(t) ==
  /\ InUse(turn)
  /\ InUse(t)
  /\ \A u \in Terminals :
       (u - turn - 1) % NumTerminals < (t - turn - 1) % NumTerminals => ~InUse(u)
  /\ turn' = t
  /\ UNCHANGED << stack, display >>

\* The user looks at terminal t; a terminal not in use gets a shell first,
\* and stays out of reach while there is no room for one.
Show(t) ==
  /\ InUse(turn)
  /\ InUse(t) \/ Room
  /\ stack' = IF InUse(t) THEN stack ELSE [stack EXCEPT ![t] = << Shell >>]
  /\ display' = t
  /\ UNCHANGED turn

Next ==
  \/ \E f \in Programs : Push(f)
  \/ Pop
  \/ \E t \in Terminals : Pass(t) \/ Show(t)

Spec == Init /\ [][Next]_vars
=============================================================================
