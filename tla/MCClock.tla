------------------------------- MODULE MCClock -------------------------------
(***************************************************************************)
(* Two processes, a clock of eight interrupts a second instead of 1024: a  *)
(* read waits for four of them at the default frequency 2, then for two    *)
(* and for one.  rtc_write refuses 0, 3 and 16; enable_irq ignores 16.     *)
(***************************************************************************)
EXTENDS Clock

MCProcs == {1, 2}
MCRequests == {0, 3, 4, 8, 16}
MCNumbers == {0, 2, 8, 15, 16}
==============================================================================
