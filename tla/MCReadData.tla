------------------------------ MODULE MCReadData ------------------------------
(***************************************************************************)
(* Every file of up to three blocks of two bytes over two data blocks, one *)
(* behind them and one before, read from every offset.  The last length is *)
(* larger than any file: a negative nbytes, which read_data takes as       *)
(* unsigned.                                                               *)
(***************************************************************************)
EXTENDS ReadData

MCBlockNums == -1 .. data_count

MCLengths == 0 .. BlockSize * MaxBlocks \cup {1000}
=============================================================================
