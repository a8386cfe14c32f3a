------------------------------- MODULE ReadData -------------------------------
(***************************************************************************)
(* read_data of the mp3 file system: copies part of a file, block by       *)
(* block, into the caller's buffer.  A byte of the image is named by its   *)
(* place, << data block, index >>, so that a copy shows where it is from;  *)
(* blocks with negative numbers lie before the data blocks: the inodes,    *)
(* the boot block, and what is in memory before the image.                 *)
(*                                                                         *)
(* An inode may name data blocks the image does not have: block numbers    *)
(* are signed, and compared so.  A file's length fits the block numbers an *)
(* inode can hold.                                                         *)
(***************************************************************************)
EXTENDS Integers, Sequences

CONSTANTS
  BlockSize,    (* NUM_B_IN_FOUR_KB                               *)
  MaxBlocks,    (* block numbers in an inode                      *)
  data_count,   (* data blocks of the image                       *)
  BlockNums,    (* what inodes may hold as block numbers: int32_t *)
  Lengths       (* numbers of bytes that callers ask for          *)

ASSUME ReadDataAssumption ==
  /\ BlockSize \in Nat \ {0}
  /\ MaxBlocks \in Nat \ {0}
  /\ data_count \in Nat
  /\ BlockNums \subseteq Int
  /\ Lengths \subseteq Nat

VARIABLES
  size,                  (* inode_block->length                     *)
  data_block_num,        (* inode_block->data_block_num             *)
  valid_inode,           (* inode < inode_count                     *)
  start,                 (* the argument offset                     *)
  length,                (* the argument length                     *)
  offset,                (* the variable offset                     *)
  index_in_inode,
  index_in_data_block,
  buf,                   (* the bytes copied; count is its length   *)
  pc,
  result

arguments == << size, data_block_num, valid_inode, start, length >>
readVars == << arguments, offset, index_in_inode, index_in_data_block, buf, pc, result >>

ReadTypeOK ==
  /\ size \in 0 .. MaxBlocks * BlockSize
  /\ data_block_num \in [0 .. MaxBlocks - 1 -> BlockNums]
  /\ valid_inode \in BOOLEAN
  /\ start \in Nat
  /\ length \in Lengths
  /\ offset \in Nat
  /\ index_in_inode \in 0 .. MaxBlocks
  /\ index_in_data_block \in 0 .. BlockSize
  /\ buf \in Seq(BlockNums \X (0 .. BlockSize - 1))
  /\ pc \in {"check", "block", "copy", "done"}
  /\ result \in Int

\* The call, and the locals computed from its arguments.
ReadInit ==
  /\ size \in 0 .. MaxBlocks * BlockSize
  /\ data_block_num \in [0 .. MaxBlocks - 1 -> BlockNums]
  /\ valid_inode \in BOOLEAN
  /\ start \in 0 .. MaxBlocks * BlockSize + 1
  /\ length \in Lengths
  /\ offset = start
  /\ index_in_inode = 0
  /\ index_in_data_block = 0
  /\ buf = << >>
  /\ pc = "check"
  /\ result = 0

Return(r) == pc' = "done" /\ result' = r

\* The two checks before the loop.
Check ==
  /\ pc = "check"
  /\ \/ ~valid_inode /\ Return(-1) /\ UNCHANGED << index_in_inode, index_in_data_block >>
     \/ /\ valid_inode /\ offset >= size
        /\ Return(Len(buf))
        /\ UNCHANGED << index_in_inode, index_in_data_block >>
     \/ /\ valid_inode /\ offset < size
        /\ index_in_inode' = offset \div BlockSize
        /\ index_in_data_block' = offset % BlockSize
        /\ pc' = "block"
        /\ UNCHANGED result
  /\ UNCHANGED << arguments, offset, buf >>

\* Top of the outer loop: the block number is looked up and checked, as a
\* signed number and against the upper bound only.
Block ==
  /\ pc = "block"
  /\ \/ data_block_num[index_in_inode] >= data_count /\ Return(-1)
     \/ /\ data_block_num[index_in_inode] < data_count
        /\ pc' = "copy"
        /\ UNCHANGED result
  /\ UNCHANGED << arguments, offset, index_in_inode, index_in_data_block, buf >>

\* Seeded fault: the copy does not stop at the end of the file.
MoreToCopy_Fault == Len(buf) < length /\ index_in_data_block < BlockSize

\* Condition of the inner loop.
MoreToCopy ==
  /\ Len(buf) < length
  /\ index_in_data_block < BlockSize
  /\ offset < size

\* One turn of the inner loop.
CopyByte ==
  /\ pc = "copy"
  /\ MoreToCopy
  /\ buf' = Append(buf, << data_block_num[index_in_inode], index_in_data_block >>)
  /\ index_in_data_block' = index_in_data_block + 1
  /\ offset' = offset + 1
  /\ UNCHANGED << arguments, index_in_inode, pc, result >>

\* Whether the outer loop ends.
Finished == Len(buf) >= length \/ offset >= size

\* Bottom of the outer loop.
EndBlock ==
  /\ pc = "copy"
  /\ ~MoreToCopy
  /\ index_in_data_block' = 0
  /\ index_in_inode' = index_in_inode + 1
  /\ \/ Finished /\ Return(Len(buf))
     \/ ~Finished /\ pc' = "block" /\ UNCHANGED result
  /\ UNCHANGED << arguments, offset, buf >>

Done == pc = "done" /\ UNCHANGED readVars

ReadNext == Check \/ Block \/ CopyByte \/ EndBlock \/ Done

ReadSpec == ReadInit /\ [][ReadNext]_readVars

-----------------------------------------------------------------------------
(***************************************************************************)
(* The reference: the file as one sequence of bytes, what a read of it     *)
(* should give, and the blocks that hold those bytes (at least the one     *)
(* the read starts in).                                                    *)
(***************************************************************************)
ByteAt(o) == << data_block_num[o \div BlockSize], o % BlockSize >>

Available ==
  IF start >= size THEN 0
  ELSE IF length < size - start THEN length ELSE size - start

Blocks ==
  IF start >= size THEN {}
  ELSE start \div BlockSize ..
         (start + IF Available = 0 THEN 0 ELSE Available - 1) \div BlockSize

\* No number in the way that the check refuses.
Readable == valid_inode /\ \A b \in Blocks : data_block_num[b] < data_count

(***************************************************************************)
(* read_data returns -1 for an invalid inode and for a block number that   *)
(* is too large, when it comes to it, and otherwise every byte of the file *)
(* from offset on, up to length of them, in order: across block            *)
(* boundaries, for reads that end on one, and for files that do.  What it  *)
(* copied before it met an invalid block is right as well (vfs.c:318 to    *)
(* 387).                                                                   *)
(***************************************************************************)
ReadsTheFile ==
  /\ \A i \in 1 .. Len(buf) : buf[i] = ByteAt(start + i - 1)
  /\ Len(buf) =< Available
  /\ pc = "done" => result = IF Readable THEN Available ELSE -1
  /\ pc = "done" /\ Readable => Len(buf) = Available

(***************************************************************************)
(* read_data looks up no block number behind the file's last block, which  *)
(* may lie outside the inode: after a block is finished, the next is read  *)
(* only if the file goes on.                                               *)
(***************************************************************************)
InsideFile == pc = "block" => index_in_inode * BlockSize < size

(***************************************************************************)
(* A read of a file without negative block numbers copies bytes of the     *)
(* image's data blocks and nothing else: those it comes to, whatever       *)
(* numbers the others are (vfs.c:353 to 361).                              *)
(***************************************************************************)
OnlyData ==
  (\A b \in Blocks : data_block_num[b] >= 0) =>
     \A i \in 1 .. Len(buf) : buf[i][1] \in 0 .. data_count - 1

(***************************************************************************)
(* Wherever read_data stops, it has copied a part of the file in order and *)
(* without a gap, all of it from data blocks unless the file has a         *)
(* negative number, has looked up only block numbers the inode holds for   *)
(* the file, and its locals are in range.                                  *)
(***************************************************************************)
CopySound == ReadTypeOK /\ ReadsTheFile /\ InsideFile /\ OnlyData
=============================================================================
