------------------------------ MODULE MCKernel ------------------------------
(***************************************************************************)
(* Small kernels for TLC: slots and terminals are numbers, programs and    *)
(* files model values.                                                     *)
(***************************************************************************)
EXTENDS KernelProperties

CONSTANTS sh, prog, text, none

MCPrograms == {sh, prog}
MCDataFiles == {text}
=============================================================================
