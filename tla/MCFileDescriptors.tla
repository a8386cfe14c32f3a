-------------------------- MODULE MCFileDescriptors --------------------------
(***************************************************************************)
(* Five descriptors, two files, one of them shorter than most requests,    *)
(* and a directory of two entries.                                         *)
(***************************************************************************)
EXTENDS FileDescriptors, TLC

CONSTANTS short, long

MCRegular == {short, long}
MCLength == short :> 1 @@ long :> 4
MCRequests == {0, 1, 2, 3, 4, 1024}
=============================================================================
