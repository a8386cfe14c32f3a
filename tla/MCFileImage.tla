----------------------------- MODULE MCFileImage -----------------------------
(***************************************************************************)
(* Every directory of up to three files with names of up to two characters *)
(* (a program may ask for three), each of one of six kinds: an executable, *)
(* a data file, an executable with an invalid data block, a file of the    *)
(* first byte of the magic number, an empty file and the directory.  The   *)
(* magic number has two bytes.                                             *)
(***************************************************************************)
EXTENDS FileImage

MCKinds == {"shell", "text", "corrupt", "stub", "empty", "directory"}
MCFiletype == [k \in MCKinds |-> IF k = "directory" THEN 1 ELSE 2]
MCSize == [k \in MCKinds |->
  CASE k = "shell" -> 3 [] k = "text" -> 4 [] k = "corrupt" -> 3 [] k = "stub" -> 1
    [] k = "empty" -> 0 [] k = "directory" -> 0]
MCSound == [MCSize EXCEPT !["corrupt"] = 2]
MCExecutable == MCKinds \ {"text"}
==============================================================================
