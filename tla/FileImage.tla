------------------------------ MODULE FileImage ------------------------------
(***************************************************************************)
(* The directory of the mp3 file image, as programs see it: looking names  *)
(* up (read_dentry_by_name, strncmp), reading the directory entry by entry *)
(* (directory_read), and load_program, which copies an executable into the *)
(* page of a process.  The image itself never changes.                     *)
(*                                                                         *)
(* A name in the image is a field of FILENAME_LEN characters, padded with  *)
(* NUL if shorter; a name of a program is a string.  A byte of a file is   *)
(* << kind of file, index >>.                                              *)
(***************************************************************************)
EXTENDS Integers, Sequences, FiniteSets

CONSTANTS
  FILENAME_LEN,  (* 32                                                    *)
  NUM_FILES,     (* 63                                                    *)
  Chars, NUL,    (* characters; the one that ends strings                 *)
  Magic,         (* how many bytes the magic number has, 4                *)
  Kinds,         (* kinds of files                                        *)
  Filetype,      (* what their entries say they are                       *)
  Size, Sound,   (* length; how much lies before an invalid data block    *)
  Executable     (* those that begin like the magic number, as far as     *)
                 (* they go: a shorter file may be one                    *)

ASSUME FileImageAssumption ==
  /\ FILENAME_LEN \in Nat \ {0} /\ NUM_FILES \in Nat \ {0}
  /\ Magic \in Nat \ {0}
  /\ NUL \notin Chars
  /\ Filetype \in [Kinds -> 0 .. 3]
  /\ Size \in [Kinds -> Nat] /\ Sound \in [Kinds -> Nat]
  /\ \A k \in Kinds : Sound[k] =< Size[k]
  /\ \A k \in Kinds : Size[k] = 0 => k \in Executable

VARIABLES
  direntries,     (* the directory                                        *)
  file_position,  (* of the open directory                                *)
  listing,        (* the names a program has read from it                 *)
  ended,          (* it got an empty name or -1                           *)
  page,           (* where load_program copies to                         *)
  loaded          (* the file load_program last reported success for, or  *)
                  (* None if it failed                                    *)

imageVars == << direntries, file_position, listing, ended, page, loaded >>

None == "none"
Indices == 0 .. NUM_FILES - 1
Fields == [1 .. FILENAME_LEN -> Chars \cup {NUL}]
Strings == UNION {[1 .. n -> Chars] : n \in 0 .. FILENAME_LEN + 1}
Dentries == [filename : Fields, kind : Kinds]
Bytes == UNION {{k} \X (1 .. Size[k]) : k \in Kinds}

Field(s) == [i \in 1 .. FILENAME_LEN |-> IF i =< Len(s) THEN s[i] ELSE NUL]

\* The string an entry's name field holds, as directory_read's loop copies it:
\* all before its first NUL.
StringOf(field) ==
  [i \in {n \in 1 .. FILENAME_LEN : \A j \in 1 .. n : field[j] # NUL} |-> field[i]]

\* The images: distinct names, then entries all zero.
Directories ==
  {d \in [Indices -> Dentries] :
     /\ \A i \in Indices : \E s \in Strings : Len(s) =< FILENAME_LEN /\ d[i].filename = Field(s)
     /\ \A i, j \in Indices :
          /\ i < j /\ StringOf(d[i].filename) = << >>
             => StringOf(d[j].filename) = << >>
          /\ i # j /\ StringOf(d[i].filename) # << >>
             => d[i].filename # d[j].filename}

ImageTypeOK ==
  /\ direntries \in [Indices -> Dentries]
  /\ file_position \in 0 .. NUM_FILES
  /\ listing \in Seq(Strings) /\ Len(listing) =< NUM_FILES
  /\ ended \in BOOLEAN
  /\ page \in Seq(Bytes)
  /\ loaded \in Kinds \cup {None}

ImageInit ==
  /\ direntries \in Directories
  /\ file_position = 0
  /\ listing = << >> /\ ended = FALSE
  /\ page = << >>
  /\ loaded = None

-----------------------------------------------------------------------------
(* Names *)

\* Character i of a string, the NUL at its end included.
CharAt(s, i) == IF i =< Len(s) THEN s[i] ELSE NUL

\* Seeded fault: the comparison ends with the shorter name.
Same_Fault(s, field, n) ==
  \A i \in 1 .. n : CharAt(s, i) = field[i] \/ NUL \in {CharAt(s, i), field[i]}

(***************************************************************************)
(* strncmp(s, field, n) = 0: equal up to the first NUL or for n characters.*)
(***************************************************************************)
Same(s, field, n) ==
  \A i \in 1 .. n :
    (\A j \in 1 .. i - 1 : CharAt(s, j) # NUL) => CharAt(s, i) = field[i]

\* read_dentry_by_index gives an entry.
ValidIndex(index) == index \in Indices

\* read_dentry_by_name: the index of the first entry of that name, or -1.
read_dentry_by_name(fname) ==
  LET matches ==
        {i \in Indices : Same(fname, direntries[i].filename, FILENAME_LEN)}
  IN IF fname = << >> \/ matches = {} THEN -1
     ELSE CHOOSE i \in matches : \A j \in matches : i =< j

\* The test before a name is looked up.
TooLong(filename) == Len(filename) >= FILENAME_LEN + 1

\* What file_open and load_program find.
Lookup(filename) ==
  IF TooLong(filename) THEN -1 ELSE read_dentry_by_name(filename)

-----------------------------------------------------------------------------
(* Operations *)

\* directory_read; the program stops at an empty name or an error.
directory_read ==
  /\ ~ended
  /\ IF ValidIndex(file_position)
     THEN LET name == StringOf(direntries[file_position].filename) IN
          /\ file_position' = file_position + 1
          /\ ended' = (name = << >>)
          /\ listing' = IF name = << >> THEN listing ELSE Append(listing, name)
     ELSE ended' = TRUE /\ UNCHANGED << file_position, listing >>
  /\ UNCHANGED << direntries, page, loaded >>

\* Opening the directory again.
directory_open ==
  /\ ended
  /\ file_position' = 0 /\ listing' = << >> /\ ended' = FALSE
  /\ UNCHANGED << direntries, page, loaded >>

\* Byte i of a file, and the page with the first n bytes of a file over it.
Byte(k, i) == << k, i >>
Overwritten(k, n) ==
  [i \in 1 .. n |-> Byte(k, i)] \o SubSeq(page, n + 1, Len(page))

\* The page starts with the magic number: byte i of any executable is its ith.
HasMagic(p) ==
  /\ Len(p) >= Magic
  /\ \A i \in 1 .. Magic : \E k \in Executable : p[i] = Byte(k, i)

\* Seeded fault: a file of which only a part was read is run.
WholeRead_Fault(k) == TRUE

\* read_data gave as many bytes as the file has.
WholeRead(k) == Sound[k] = Size[k]

(***************************************************************************)
(* load_program: the file is in the page before anything is known of it.   *)
(***************************************************************************)
load_program(filename) ==
  LET index == Lookup(filename)
      kind == direntries[index].kind
  IN
  /\ IF index = -1 THEN loaded' = None /\ UNCHANGED page
     ELSE IF Filetype[kind] # 2 THEN loaded' = None /\ UNCHANGED page
     ELSE /\ page' = Overwritten(kind, Sound[kind])
          /\ loaded' = IF WholeRead(kind) /\ HasMagic(page') THEN kind
                                                              ELSE None
  /\ UNCHANGED << direntries, file_position, listing, ended >>

ImageNext ==
  \/ \E s \in Strings : load_program(s)
  \/ directory_read
  \/ directory_open

ImageSpec == ImageInit /\ [][ImageNext]_imageVars

-----------------------------------------------------------------------------
(* Properties *)

Names == {i \in Indices : StringOf(direntries[i].filename) # << >>}

(***************************************************************************)
(* A name finds the file of that name and no other: also a name that fills *)
(* its field and has no NUL there, one that is the beginning of another,   *)
(* and one that is longer than any (file_open, strncmp).                   *)
(***************************************************************************)
FindsByName ==
  \A s \in Strings :
    LET named == {i \in Names : StringOf(direntries[i].filename) = s}
    IN {Lookup(s)} = IF named = {} THEN {-1} ELSE named

(***************************************************************************)
(* What a program lists of the directory is every file, once and in order, *)
(* under a name that opens that file (directory_read with file_open).      *)
(***************************************************************************)
ListsTheFiles ==
  /\ \A i \in 1 .. Len(listing) : Lookup(listing[i]) = i - 1
  /\ ended => Len(listing) = Cardinality(Names)

(***************************************************************************)
(* load_program reports success only for a file that is whole in the page  *)
(* (vfs.c:46, "fail if entire executable file was not read") and that      *)
(* begins like the magic number; the page then has all of that number.  A  *)
(* file shorter than it passes only where the page still held the rest.    *)
(***************************************************************************)
LoadedWhole ==
  loaded # None =>
    /\ Len(page) >= Size[loaded]
    /\ \A i \in 1 .. Size[loaded] : page[i] = Byte(loaded, i)
    /\ loaded \in Executable
    /\ HasMagic(page)

(***************************************************************************)
(* The two ways a program has to the files agree, whatever the names: what *)
(* the directory lists is what open finds, and it is everything.           *)
(***************************************************************************)
NamesFind == ImageTypeOK /\ ListsTheFiles /\ FindsByName
=============================================================================
