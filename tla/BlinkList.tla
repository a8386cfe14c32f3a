------------------------------ MODULE BlinkList ------------------------------
(***************************************************************************)
(* mp1: characters that blink on the text screen.                          *)
(*                                                                         *)
(* A linked list of blink structures is changed by the ioctl operations    *)
(* add, remove and sync, one at a time, and walked by mp1_rtc_tasklet at   *)
(* every interrupt of the clock.  The tasklet runs to its end between any  *)
(* two instructions of an ioctl, which takes no lock: each store that the  *)
(* tasklet can see, and each load it can make stale, is an action.  find   *)
(* changes nothing here.  The two characters of a structure are            *)
(* abstracted to 1 and 0, the values of STATUS they stand for.             *)
(*                                                                         *)
(* mp1_ioctl_add frees a structure that is off the screen while it is on   *)
(* the list.  From then on the list is whatever that memory holds, and the *)
(* model stops: eip is "lost".                                             *)
(***************************************************************************)
EXTENDS Integers, FiniteSets, Sequences, SequencesExt

CONSTANTS
  Cells,       (* where mp1_malloc can put a structure            *)
  Locations,   (* places on the screen, 0 .. 1999                 *)
  OffScreen,   (* other values of LOCATION                        *)
  Lengths,     (* values of ON_LENGTH and OFF_LENGTH              *)
  Width,       (* 2^16, the range of COUNTDOWN                    *)
  Null

ASSUME BlinkListAssumption ==
  /\ IsFiniteSet(Cells)
  /\ Width \in Nat \ {0, 1}
  /\ Lengths # {} /\ Lengths \subseteq 0 .. Width - 1
  /\ Null \notin Cells
  /\ Locations # {} /\ Locations \cap OffScreen = {}

VARIABLES
  mp1_list_head,
  node,        (* the structure in each cell                      *)
  allocated,   (* the cells malloc gave out                       *)
  screen,      (* the character at each location, 2 before any    *)
  eip,          (* the next instruction of the ioctl that runs     *)
  esi, edi,    (* its registers: the structures it works on       *)
  bx           (* and the value or the character it carries       *)

registers == << esi, edi, bx >>
blinkVars == << mp1_list_head, node, allocated, screen, eip, registers >>

Structures ==
  [location : Locations \cup OffScreen, on_length : Lengths, off_length : Lengths,
   countdown : 0 .. Width - 1, status : {0, 1}, next : Cells \cup {Null}]

\* What is in a cell that is not allocated does not matter.
Garbage ==
  [location |-> CHOOSE l \in Locations : TRUE, on_length |-> CHOOSE n \in Lengths : TRUE,
   off_length |-> CHOOSE n \in Lengths : TRUE, countdown |-> 0, status |-> 0,
   next |-> Null]

BlinkTypeOK ==
  /\ mp1_list_head \in Cells \cup {Null}
  /\ node \in [Cells -> Structures]
  /\ allocated \subseteq Cells
  /\ screen \in [Locations -> 0 .. 2]
  /\ eip \in {"idle", "link", "check", "free", "lengths", "load countdown",
             "store countdown", "load status", "store status", "load char", "poke",
             "lost"}
  /\ esi \in Cells \cup {Null}
  /\ edi \in Cells \cup {Null}
  /\ bx \in 0 .. Width - 1

BlinkInit ==
  /\ mp1_list_head = Null
  /\ node = [c \in Cells |-> Garbage]
  /\ allocated = {}
  /\ screen = [l \in Locations |-> 2]
  /\ eip = "idle"
  /\ esi = Null
  /\ edi = Null
  /\ bx = 0

\* The cells from a head on along NEXT, cut off where a cycle would go on for ever.
Path(head, nodes) ==
  LET way[n \in 0 .. Cardinality(Cells)] ==
        IF n = 0 THEN << >>
        ELSE LET s == way[n - 1]
                 next == IF s = << >> THEN head ELSE nodes[Last(s)].next
             IN  IF next = Null THEN s ELSE Append(s, next)
  IN  way[Cardinality(Cells)]

List == Path(mp1_list_head, node)
Listed == ToSet(List)

\* mp1_search: the first structure with this location.
Found(c, l) ==
  LET list == List
  IN  /\ node[c].location = l
      /\ \E i \in DOMAIN list :
           /\ list[i] = c
           /\ \A j \in 1 .. i - 1 : node[list[j]].location # l

\* mp1_poke, which is given a location of the screen only.
Poked(l, char) == [screen EXCEPT ![l] = char]

-----------------------------------------------------------------------------
(***************************************************************************)
(* mp1_ioctl_add.  The structure is filled in before the list can reach    *)
(* it; the location is checked afterwards.                                 *)
(***************************************************************************)

\* Seeded fault: the store to NEXT is forgotten.
Filled_Fault(l, on, off) ==
  [location |-> l, on_length |-> on, off_length |-> off, countdown |-> on,
   status |-> 1, next |-> Null]

\* The fields of the new structure.
Filled(l, on, off) ==
  [location |-> l, on_length |-> on, off_length |-> off, countdown |-> on,
   status |-> 1, next |-> mp1_list_head]

Add ==
  /\ eip = "idle"
  /\ \E c \in Cells \ allocated, l \in Locations \cup OffScreen, on, off \in Lengths :
       /\ allocated' = allocated \cup {c}
       /\ node' = [node EXCEPT ![c] = Filled(l, on, off)]
       /\ esi' = c
  /\ eip' = "link"
  /\ UNCHANGED << mp1_list_head, screen, edi, bx >>

Link ==
  /\ eip = "link"
  /\ mp1_list_head' = esi
  /\ eip' = "check"
  /\ UNCHANGED << node, allocated, screen, registers >>

\* ja clr_add, or the poke of ON_CHAR
Check ==
  /\ eip = "check"
  /\ \/ /\ node[esi].location \in OffScreen
        /\ eip' = "free"
        /\ UNCHANGED << edi, bx >>
     \/ /\ node[esi].location \in Locations
        /\ edi' = esi
        /\ bx' = 1
        /\ eip' = "poke"
  /\ UNCHANGED << mp1_list_head, node, allocated, screen, esi >>

\* mp1_free, at clr_add and at the end of mp1_ioctl_remove
Free ==
  /\ eip = "free"
  /\ allocated' = allocated \ {esi}
  /\ \/ /\ esi \notin Listed
        /\ node' = [node EXCEPT ![esi] = Garbage]
        /\ eip' = "idle"
     \/ /\ esi \in Listed
        /\ eip' = "lost"
        /\ UNCHANGED node
  /\ esi' = Null
  /\ UNCHANGED << mp1_list_head, screen, edi, bx >>

Poke ==
  /\ eip = "poke"
  /\ screen' = Poked(node[edi].location, bx)
  /\ esi' = Null /\ edi' = Null /\ bx' = 0
  /\ eip' = "idle"
  /\ UNCHANGED << mp1_list_head, node, allocated >>

\* mp1_ioctl_remove(l): unlink, then free.
Unlink(l) ==
  /\ eip = "idle"
  /\ \E c \in Cells :
       /\ Found(c, l)
       /\ IF c = mp1_list_head
          THEN mp1_list_head' = node[c].next /\ UNCHANGED node
          ELSE \E prev \in Listed :
                 /\ node[prev].next = c
                 /\ node' = [node EXCEPT ![prev].next = node[c].next]
                 /\ UNCHANGED mp1_list_head
       /\ esi' = c
  /\ eip' = "free"
  /\ UNCHANGED << allocated, screen, edi, bx >>

-----------------------------------------------------------------------------
(***************************************************************************)
(* mp1_ioctl_sync: the second location takes over the times and the state  *)
(* of the first.  Each field is loaded and stored by an instruction of its *)
(* own; the lengths, which the tasklet only reads, are loaded and stored   *)
(* in one action.                                                          *)
(***************************************************************************)
Sync(first, second) ==
  /\ eip = "idle"
  /\ \E c, d \in Cells : Found(c, first) /\ Found(d, second) /\ esi' = c /\ edi' = d
  /\ eip' = "lengths"
  /\ UNCHANGED << mp1_list_head, node, allocated, screen, bx >>

CopyLengths ==
  /\ eip = "lengths"
  /\ node' = [node EXCEPT ![edi].on_length = node[esi].on_length,
                          ![edi].off_length = node[esi].off_length]
  /\ eip' = "load countdown"
  /\ UNCHANGED << mp1_list_head, allocated, screen, registers >>

Load(at, value, then) ==
  /\ eip = at
  /\ bx' = value
  /\ eip' = then
  /\ UNCHANGED << mp1_list_head, node, allocated, screen, esi, edi >>

StoreCountdown ==
  /\ eip = "store countdown"
  /\ node' = [node EXCEPT ![edi].countdown = bx]
  /\ eip' = "load status"
  /\ UNCHANGED << mp1_list_head, allocated, screen, registers >>

StoreStatus ==
  /\ eip = "store status"
  /\ node' = [node EXCEPT ![edi].status = bx]
  /\ eip' = "load char"
  /\ UNCHANGED << mp1_list_head, allocated, screen, registers >>

SyncStep ==
  \/ \E first, second \in Locations : Sync(first, second)
  \/ CopyLengths
  \/ Load("load countdown", node[esi].countdown, "store countdown")
  \/ StoreCountdown
  \/ Load("load status", node[esi].status, "store status")
  \/ StoreStatus
  \/ Load("load char", node[edi].status, "poke")

-----------------------------------------------------------------------------
(***************************************************************************)
(* mp1_rtc_tasklet.                                                        *)
(***************************************************************************)

\* decw, and 16 bits of it
CountedDown(s) == (s.countdown - 1) % Width

Expires(s) == CountedDown(s) = 0

\* Seeded fault: the status is not stored.
Ticked_Fault(s) ==
  [s EXCEPT !.countdown = IF ~Expires(s) THEN CountedDown(s)
                          ELSE IF s.status = 0 THEN s.on_length ELSE s.off_length]

Ticked(s) ==
  IF ~Expires(s) THEN [s EXCEPT !.countdown = CountedDown(s)]
  ELSE [s EXCEPT !.status = 1 - s.status,
                 !.countdown = IF s.status = 0 THEN s.on_length ELSE s.off_length]

\* The last structure of the list that pokes at l in this walk.
LastPoke(c, l) ==
  LET list == List
      pokes(d) == Expires(node[d]) /\ node[d].location = l
  IN  /\ pokes(c)
      /\ \E i \in DOMAIN list :
           /\ list[i] = c
           /\ \A j \in i + 1 .. Len(list) : ~pokes(list[j])

Tick ==
  /\ eip # "lost"
  /\ LET listed == Listed
     IN  /\ node' = [c \in Cells |-> IF c \in listed THEN Ticked(node[c]) ELSE node[c]]
         /\ screen' = [l \in Locations |->
              IF \E c \in listed : LastPoke(c, l)
              THEN 1 - node[CHOOSE c \in listed : LastPoke(c, l)].status
              ELSE screen[l]]
  /\ UNCHANGED << mp1_list_head, allocated, eip, registers >>

-----------------------------------------------------------------------------
Lost == eip = "lost" /\ UNCHANGED blinkVars

BlinkNext ==
  \/ Add \/ Link \/ Check \/ Free \/ Poke
  \/ \E l \in Locations : Unlink(l)
  \/ SyncStep
  \/ Tick
  \/ Lost

BlinkSpec == BlinkInit /\ [][BlinkNext]_blinkVars

(***************************************************************************)
(* The clock keeps interrupting, and an ioctl that started runs on.        *)
(***************************************************************************)
FairBlinkSpec == BlinkSpec /\ WF_blinkVars(Tick) /\ WF_blinkVars(eip # "idle" /\ (Link \/ Check \/ Free \/ Poke \/ SyncStep))

-----------------------------------------------------------------------------
(***************************************************************************)
(* At every tick the tasklet finds a list that ends, without a structure   *)
(* twice on it, and every structure on it is allocated; and no structure   *)
(* is lost: one that is allocated is on the list, or in the hands of the   *)
(* add or remove that is running (mp1_ioctl_add, mp1_ioctl_remove).  This  *)
(* is so until mp1_ioctl_add refuses a location, and only that can end it. *)
(***************************************************************************)
ListSound ==
  /\ List # << >> => node[Last(List)].next = Null
  /\ IsInjective(List)
  /\ Listed \subseteq allocated
  /\ \A c \in allocated : c \in Listed \/ (c = esi /\ eip \in {"link", "free"})

(***************************************************************************)
(* A structure that is alone at its location blinks: both its characters   *)
(* come up on the screen again and again, whatever is added and removed in *)
(* between, from the first tick that finds it on and even when a length is *)
(* zero and COUNTDOWN goes all the way round; provided that the program    *)
(* does not go on synchronising for ever, which can keep it from expiring, *)
(* and that no location was refused.                                       *)
(***************************************************************************)
Alone(c) ==
  /\ eip # "lost"
  /\ c \in Listed
  /\ node[c].location \in Locations
  /\ \A d \in Listed \ {c} : node[d].location # node[c].location

Blinks ==
  <>[][~SyncStep]_blinkVars =>
    \A c \in Cells, char \in {0, 1} :
      []<>(Alone(c) => screen[node[c].location] = char)

(***************************************************************************)
(* mp1_rtc_tasklet may walk the list between any two instructions of       *)
(* mp1_ioctl_add, mp1_ioctl_remove and mp1_ioctl_sync: it always ends, and *)
(* what it finds on the way is allocated and in range.  What can break     *)
(* that is a structure off the screen, which mp1_ioctl_add frees without   *)
(* taking it off the list (mp1.S:158 to 170).                              *)
(***************************************************************************)
BlinkListInv ==
  /\ BlinkTypeOK
  /\ eip # "lost" => ListSound
  /\ eip = "lost" => \E c \in Listed \ allocated : node[c].location \in OffScreen
=============================================================================
