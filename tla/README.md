# A TLA+ model of the course's three projects

The repository holds three programs: **mp1**, a Linux kernel module that makes
characters on the text screen blink; **mp2**, a maze game with its mode X
graphics and the driver of a serial game controller (the "Tux"); and **mp3**, a
small operating system for one x86 processor with three virtual terminals.
This directory models all three. mp3 is the largest and the most concurrent: processes
and the scheduler, the video pages of the terminals, line input, file
descriptors, the file image, the interrupt controllers and the clock. Of mp2 the
driver, the threads, the maze and the drawing are modelled, of mp1 the whole module.

Everything here is translated from the code. `PROJECT.json` gives, for every
definition that models code, the lines it stands for.

## 1. Inventory

### mp3, the kernel (`mp3/student-distrib/`)

| Part | State it keeps | Operations | Interacts with |
|---|---|---|---|
| Processes (`syscalls.c`, `pcb.h`) | `active[]`, `curr_process`, one PCB and kernel stack per slot, CR3, `tss.esp0`, the 4 MB page of each slot | `execute`, `halt` | terminals (`active_process`), scheduler, file image (`load_program`) |
| Scheduler (`scheduler.c`, `context_switch.S`, `interrupt_handler.S`) | `terminal_iter`; `current_eip/esp/ebp`, `is_user_mode` in each PCB; IRQ0 at the PIC | `schedule` on every timer interrupt, EOI | processes, terminals |
| Virtual terminals (`terminal.c`) | `terminals[]`: buffer, cursor, `video_start`, `active_process`; `active_terminal_index`; three storage pages | `switch_terminal`, `terminal_putc`, `terminal_write`, `clear_terminal` | processes, paging |
| Line input (`terminal.c`) | `buffer`, `chars_in_buffer` of each terminal; modifier flags | `handle_keypress` (interrupt), `terminal_read` (polls) | scheduler: a reader is preempted while it polls |
| Paging, `vidmap` (`paging.c`, `syscalls.c`) | a page directory per slot, `video_mem_page_table` | `vidmap`, remapping in `switch_terminal` | terminals |
| File descriptors (`syscalls.c`, `vfs.c`) | `file_array[8]` in each PCB | `open`, `close`, `read`, `write`, `halt`'s clean-up | terminal, RTC, file image |
| File image (`vfs.c`) | read-only; the page `load_program` copies into; the position in the directory | `read_dentry_by_name/index`, `directory_read`, `read_data`, `load_program` | descriptors, `execute` |
| RTC (`rtc.c`) | `rtc_count` in each PCB, the frequency in the descriptor, register C of the chip | `rtc_init`, `rtc_open`, `rtc_read` (polls), `rtc_write`, `rtc_close`, `rtc_int` (interrupt) | descriptors, PIC |
| PIC (`i8259.c`) | two mask bytes; masks, pending and served lines of two chips | `i8259_init`, `enable_irq`, `disable_irq`, `send_eoi` | every handler |
| Boot, tables, exceptions, library | – | straight-line | – |

*Hard behaviour.* The timer and the keyboard interrupt any process outside its
critical sections; a shell is set up inside a keyboard interrupt under another
process's feet; a process is resumed from fields that also hold leftovers of
earlier turns and earlier owners of the slot; IRQ0 is acknowledged on two
different paths; the reader of a terminal polls memory that an interrupt
handler changes; mappings must be redirected in every slot at every switch of
the display.

*What makes it correct.* The programs of each terminal form one chain ending in
its `active_process`; slots come back; page directory, kernel stack and
`curr_process` belong to the same process; nobody is resumed from registers
that do not describe its stack; an interrupt in service is always going to be
acknowledged, and by its own handler; the masks are the ones asked for; every
process's countdown of the clock counts every interrupt; terminals are served in turn; each terminal has a screen of its
own; typed characters are delivered in order, each once; descriptors are usable
by the functions they dispatch to and do not disturb each other; a read returns
exactly the bytes of the file; names find their file and no other, however long
they are; a program that starts is whole in its page.

### mp2, the game (`mp2/`)

| Part | State | Operations | Interacts with |
|---|---|---|---|
| Line discipline (`module/tuxctl-ld.c`) | receive and transmit rings, two saved bytes | receive, `get`, `put`, write wake-up, framing of packets | serial driver, Tux driver |
| Tux driver (`module/tuxctl-ioctl.c`) | buttons, LED buffer, `spam` flag | `TUX_INIT`, `TUX_BUTTONS`, `TUX_SET_LED`; packets EVENT, ACK, RESET | line discipline, the game |
| Game threads (`mazegame.c`) | `next_dir`, `dir`, `move_cnt`, `quit_flag`, `winner`, `buttons_pressed`, a mutex and a condition variable | keyboard, clock and Tux thread | maze, driver |
| Maze (`maze.c`) | the maze with fruits and mist | `make_maze`, `unveil_space`, `find_open_directions`, `check_for_fruit` | game |
| Mode X (`modex.c`, `blocks.s`, `text.c`) | build buffer with its fences, logical view window, page flip, VGA registers | change of mode, scrolling, drawing, status bar | game |
| Input, assertions (`input.c`, `assert.c`) | escape-sequence state; a stack of clean-up functions | `get_command`; push, pop, run | not linked into the game (`mp2/Makefile`) |

*Hard behaviour.* ioctl and interrupt race on the `spam` flag and on the LED
buffer; bytes are lost and packets resynchronised; three threads share the
direction and have to end together, one of them asleep on a condition variable;
the player turns back between two squares, while the maze knows only squares; the window of the build buffer moves in memory and is
copied to four planes, each at an address of its own. *What makes it correct:* LED
commands do not overlap and are not blocked for ever; framing recovers after a
lost byte; every maze is connected and can be won; the player stays in the
corridors; what is on the screen is the present maze; every thread ends when
the game does, and the terminal has its settings again.

### mp1, blinking characters (`mp1/`)

A linked list of structures, changed by four ioctl operations (add, remove,
find, sync) and walked by a tasklet at every timer tick (`mp1.S`). *Hard:* the
tasklet runs between any two steps of an ioctl; `add` fails half way.
*Correct:* every element of the list is allocated, every character on the
screen is the one its structure's status says, blinking goes on.

## 2. Modules

| Module | Stands for |
|---|---|
| `Kernel` | `execute`, `halt`, `schedule` with its EOI, `switch_terminal`: slots, PCBs, hardware state, contexts |
| `KernelProperties` | its properties, the inductive invariant and the refinement mapping |
| `ShellStacks` | abstract: one stack of programs per terminal, round robin, one display |
| `KernelProofs` | the theorems about `Kernel` |
| `VirtualTerminals` | `video_start`, storage pages, `vidmap` mappings, the copies of `switch_terminal` |
| `Screens` | abstract: one screen per terminal, the monitor shows the displayed one |
| `TerminalInput` | `handle_keypress` against `terminal_read`, load by load |
| `InputQueue` | abstract: a queue with a place kept for the newline |
| `TerminalText` | the screen of that terminal: echo, `terminal_write`, backspace, scrolling, the blue screen |
| `TerminalProofs` | mappings and the refinement of `Screens`; the screen, type correctness and the refinement of `InputQueue` |
| `FileDescriptors` | the `file_array` of one slot, over all programs that run in it |
| `ReadData` | `read_data`, byte by byte, against a reference definition of the file |
| `FileProofs` | entries are usable and keep apart, reads follow one another; what `read_data` has copied when it returns; names find their files; whole programs are run |
| `FileImage` | the directory, look-up of names, `load_program` |
| `Clock` | the two 8259s, the RTC and its virtual clocks, the three interrupt handlers |
| `ClockProofs` | masks, acknowledgements and countdowns |
| `BlinkList` | the list of mp1, its ioctl operations instruction by instruction, and the tasklet |
| `TuxLine` | the rings, the framing and the sending of the line discipline, as operators |
| `Tux` | the Tux driver over `TuxLine`, with its caller, the serial line and the controller |
| `DriverProofs` | mp1: the blink list under the tasklet; the Tux driver: buttons of one moment, whole commands, an answer to every LED command, the last LEDs on display |
| `Maze` | `make_maze` and what the maze's array holds |
| `MazeGame` | a level: motion, view, mist, fruit, exit, drawing; over `Maze` |
| `MazeGameProofs` | every maze is connected, the player stays on the paths, the view follows, a level stays sound, the screen is up to date |
| `GameThreads` | main, the keyboard, the Tux and the clock thread |
| `GameThreadsProofs` | no lost signal, arrows, the end of a game |
| `Vga` | the VGA's registers and the programming of its two modes, as operators |
| `ModeX` | the build buffer, the window, the planes and the status bar; over `Vga` |
| `ModeXProofs` | the window, what is shown of it, the bar and the registers |
| `MC*` | small instances for TLC |

Operators named `..._Fault...` are the code with one plausible mistake put in
(a dropped guard, a missing reset, a wrong index). No action uses them: they
are there to show, by putting one in place of the definition it follows, that
the properties notice the mistake. `PROJECT.json` ("mutants") says which fault
each property was seen to notice.

How the modules fit together: `Kernel` decides who runs and whose terminal is on
display, `VirtualTerminals` what that does to the pages, `Clock` when an interrupt
may come between and how it is acknowledged; `TerminalInput`, `FileDescriptors`,
`ReadData` and `FileImage` are the system calls of one process; `TerminalText` composes
`TerminalInput` with the screen it echoes to. `Tux` composes
`TuxLine` with a caller, a line and a device, `MazeGame` composes the player with
`Maze`, `ModeX` the build buffer with `Vga`; `GameThreads` is the frame `MazeGame`'s
ticks run in.

### Kernel

A process is a slot `1..NumProcs`; `0` is the boot stack. The variables carry
the names of the code's fields (`active`, `active_process`, `parent_num`,
`terminal_index`, `is_user_mode`, `current_eip`, `curr_process`, ...); `cr3` and
`esp0` say whose page directory and kernel stack are loaded, `image` what was
last copied into a slot's page, `in_service` that IRQ0 is raised and not yet
acknowledged. `point` is no variable of the program: it records where each
process has really stopped, so that a resumption from fields that say something
else shows (the point becomes `"lost"`).

* `Execute`, `ExecuteFails`: `execute` of a program, and of a file without the
  magic number, which overwrites the free slot's page before it fails. Every copy
  (`load_program`) goes through a page directory (`DirectoryFor`: the one `execute` and
  `switch_terminal` load for the free slot), and so into the page that directory
  maps; a copy through the wrong one would leave something else in the page of a
  running program, and the root shell's `halt`, which starts again whatever its page
  holds, would show it.
* `HaltChild`, `HaltRoot`: the two ends of `halt`.
* `Schedule`, `TimerEoi`: `schedule` up to the jump into the next process, and the
  EOI in the tail of `scheduler_handler`, run by the process switched to.
* `ShowTerminal`, `OpenTerminal`: the two paths of `switch_terminal`.

*Atomicity.* `execute` and `halt` run with interrupts off to their end, and the
two handlers run behind interrupt gates, so each is one action. System calls
enter through a trap gate and can be interrupted anywhere else. Between
`schedule` and the EOI nothing can interrupt, for IRQ0 has the highest priority
at the PIC and is in service.

*Refinement.* `ImplementsShellStacks` maps the chain of PCBs that ends in a
terminal's `active_process` (`ChainOf`) to a stack of images (`StackOf`). Slots, directories and saved
registers vanish; what is left is push, pop, pass the processor on, show.

### VirtualTerminals

A page is abstracted to its last drawing and the terminal whose program drew
it. `TerminalPut` is any drawing by the kernel for a terminal, `MappedPut` a
store through `vidmap`'s pointer, `SwitchTerminal` both paths of
`switch_terminal`: save the old screen, load the new one, redirect
`video_start` and the mappings of *all* slots. A slot keeps the page table entry
of its last program when it changes hands. `vidmap` maps the page of the terminal on
display, which is not the caller's when the caller runs in the background (see 5):
`vidmapped` records whose screen a slot's mapping was lent, and `Screens` has the same
in its abstract form: a program draws on its own screen and on a screen `lent` to
its terminal.

### TerminalInput

`terminal_read` polls: it compares `chars_in_buffer` with `num_bytes`
(`PollCount`), loads it again for an index (`PollIndex`), and looks into the
buffer (`PollLook`); then the critical section copies (`Copy`). The kernel is
built without optimisation (`Makefile`: no `-O`), so each of these loads happens.
Keys and backspaces (`KeyPress`, `Backspace`) fall between any two. With
nothing typed the loop reads `buffer[-1]`: a nondeterministic byte. A negative
`num_bytes` is compared as unsigned in the critical section.

### TerminalText

It extends `TerminalInput` with the cells and the cursor of that terminal's page, and
with `on_display`. `Typed` and `Erased` are the whole keyboard handler: the buffer
and the echo. `terminal_write` and the messages of exceptions are written one
character a step (`PutNext`) with interrupts off, so nothing else happens while
characters are left in `writing`. `terminal_putc` draws, ends the row and
scrolls; a backspace goes back over the end of a row; Ctrl+L (`Cleared`) blanks the
page; `switch_terminal` takes the terminal off the display and back. `Exception` is
any exception's handler: the blue screen if this terminal is on display, and
`stop()`, after which only the message is still written. What a cell holds is
abstracted to drawn, blank, blue and never written.

### FileDescriptors

One action per call: `OpenFile`, `OpenClock` (which calls `file_open` twice),
`Close`, `FileRead`, `DirectoryRead`, `RtcWrite`, `Start`, `HaltChild`, `HaltRoot`.
`read` and `write` are the checks of the two system calls and the dispatch on the
entry's table of operations. `held` is what the program was told of, `delivered`
how many bytes each descriptor gave it; neither is kept by the kernel. Calls that
are refused change nothing and are no actions. What `read_data` returns
(`BytesRead`) is what module `ReadData` shows that it returns.

### ReadData

A byte of the image is named by its place, so a copy shows where it came from.
`Check` are the two checks before the loop, `Block` and `EndBlock` the top and
the bottom of the outer loop, `CopyByte` a turn of the inner one. Block numbers are
signed and compared with `data_count` as such, so that a negative one passes the
check, and names a block before the data blocks. The call's arguments and the file
are chosen in `Init`.

### BlinkList

`esi`, `edi` and `bx` are the registers of the ioctl that runs, `pc` its next
instruction that the tasklet can see or that reads what the tasklet changes;
`Tick`, a whole walk of `mp1_rtc_tasklet`, can come between any two. `Add` fills the
structure, `Link` stores the head, `Check` looks at the location; `Unlink` is
`mp1_ioctl_remove` up to `mp1_free`; `SyncStep` is `mp1_ioctl_sync`, load by load. A cell
that is freed while on the list keeps its contents until it is given out again.
An `add` at a location off the screen (`OffScreen`) is refused by `Check` when it is
linked already, and `Free` leaves it linked: from there on what the list holds is
whatever the allocator makes of that memory, and the model stops (`eip = "lost"`).
`mp1_ioctl_find`, and calls that are refused before they store anything, change
nothing and are no actions.

### FileImage

A file's name in the image is a field of `FILENAME_LEN` characters padded with NUL,
and a full field has no NUL at all; a program's names are strings that may be one
character longer. `Same` is `strncmp` with its stop at the first NUL,
`read_dentry_by_name` the search, `directory_read` and `directory_open` the listing
with its position. `load_program` copies the file block by block over the page,
in which the last program still is, fails when the copy fails, and looks for the
magic number in the page. The directory is any that `ImageInit` can choose.

### Clock

The two interrupt controllers (`master`, `slave`: masked, pending and served
lines), the RTC chip and its line, the two mask bytes, and for every process the
stack of handlers it is in (`context`). `entry()` makes the calls of `BootOrder` one by
one (`BootCall`), any calls of `enable_irq` and `disable_irq` may follow (`IrqCalls`), with
any numbers, the cascade's IRQ 2 and numbers of no line among them, as the loop of
`irq_test` would make; `Launch` is the first `execute`. `PitTick`, `KeyPress` and `RtcTick` raise a
line whenever they like; `Interrupt` takes the vector the controllers give if the
running process has interrupts on. The handlers run behind interrupt gates in
the steps another line may rise between: `RtcInt` (count all PCBs down, read
register C), `RtcEoi`, `KeyHandler`, `Schedule` and `TimerEoi`; a process `schedule` goes
back to is in the handler's "tail" with interrupts on and IRQ0 in service.
`rtc_open`, `rtc_write`, `rtc_close` and `rtc_read` are the calls, `ReadReturn` the end of the
polling loop. The chips are external: lines, masks, priorities and cascade, as
far as the code relies on them. `wanted`, `asked` and `seen` are auxiliary: the lines
asked for (enabling a line of the slave asks for IRQ 2 as well, `AskedFor`), and
what a read should count.

### TuxLine and Tux

A ring is the sequence of the bytes in it. `Receive(k)` is a receive interrupt
with `k` bytes: fill the ring, take the two saved bytes and as many more as fit
into `packet`. While there are more than two bytes in `packet` (`Framing`) the
callback is at work and nothing else moves: `HandlePacket` takes a packet off,
changes the driver's state and `Put`s the replies, `SkipByte` passes over a byte that
starts none. `WriteWakeup` is the serial driver's call. The caller runs one ioctl
at a time, and interrupts come between any two of its steps: `TuxInit`,
`TuxSetLed` (its bytes into the buffer by `StoreByte`), and then `PutBytes`,
`AskRoom`, `PopBytes`, `WriteBytes` of `tuxctl_ldisc_put`, and `SetFlag`. `TuxButtons` is what
the third ioctl returns. The controller (`DeviceByte`, `Press`, `Reset`) is external, as
`mtcp.h` describes it: it answers commands with packets, locks up at a byte that
is no command and starts again after a reset. `LoseByte` is the line. `lost`, `over`,
`burst`, `early` and `ready` record what happened that the properties have to know
(bytes lost, the serial driver over its room, a burst larger than the callback
takes, LEDs restored before they were first set, `TUX_INIT` called), and `raced` that
an acknowledgement was handled after its LED command was sent and before `SetFlag`.
`count` is what the run bounds. The controller takes a byte, and its user resets it,
whenever they like, between any two steps of an ioctl as well.

### Maze and MazeGame

The array is a set of cells for each of its bits, and a cell is an index, so
that the last column of a row and the first of the next are one cell as in the
code. `make_maze` is `StartWorm` and `WormTurn` until the worms have eaten their share,
`MarkFirst`, then `Connect` (a random pick, or a scan from where the last one was,
until no point is unreached), `ClearMarks` (with all inner walls removed in the
`GOD_MODE` build), `AddFruit` and `PlaceExit`; every random choice is open.
`MazeGame` adds the loop of `rtc_thread` without the waiting: `Prepare` is the start
of a level, `Steer` a direction from either thread, `Tick` one tick (choose a
direction at a square, turn back between squares, draw, move, pan the view,
unveil, eat), `Win` the tick that finds the level won, `Show` the frame after one
or more ticks. Of the picture it keeps, for each lattice point in view, which
pictures its pixels come from: a whole block replaces them, a line at the view's
edge or a player off the lattice adds to them.

### GameThreads

The mutex, the condition variable and the two flags. The keyboard thread reads
byte by byte (`KbdLoop`, `Getc`, `KbdLock`, `KbdSet`), with the state of its escape
sequence; the clock thread plays levels (`Level`, `StartLevel`, `Read`, `Poll`, `RtcLock`,
`SetPressed`, `Signal`, `Turn`, `Frame`); the Tux thread waits (`TuxLoop`, `TuxTest`, `TuxWake`,
`TuxButton`), also woken for nothing (`Spurious`); `main` sets the terminal and the
display up, creates the threads, joins two and cancels the third (`Setup`, which sets
`O_NONBLOCK` before the settings and may fail after either,
`EnterModeX`, `Create`, `Join`, `Restore`). The user types (`Type`: arrow keys, letters that
look like parts of one, the key that quits) and holds buttons (`Hold`). A step is
what a thread does between two accesses of something shared.

### Vga and ModeX

`Vga` holds the tables of the two modes and the effect of the port writes on the
registers: locked CRTC registers, the flip-flop of the attribute port, write
masks. The registers and ports are external, the tables and the sequence of
writes are the code's. `ModeX` keeps the build buffer as a function of addresses,
fences included; a pixel is named by its place in the picture, so that one in a
wrong place shows. `set_mode_X`, `prepare_maze_level` and `clear_mode_X` are the
beginning and the end, `Pan` a scroll by a line with its new line drawn
(`set_view_window` with the copy within the buffer when the window no longer fits),
`Paint` a block of the maze drawn again, `Frame` the player drawn over it and
`show_screen`, `Status` the text of the bar and the
palette entries of the level and the moment (`set_palette`); `Levels` and `Ticks` are
the levels and times of the run. `clear_mode_X` goes back to text: blanks and their
attributes in the even bytes of planes 0 and 1 and the font in plane 2 (`Texted`) lie
over the picture and the bar.

## 3. Runs

| Run | Instance, distinct states | Properties |
|---|---|---|
| `kernel` | 4 slots, 3 terminals, 2 programs, 1 data file; 49 961 | `KernelInv`, `EoiOwed`, `RootsAreShells`, `OwnTerminalOnly`, liveness `TerminalsServed`, refinement `ImplementsShellStacks` |
| `screens` | 3 slots, 3 terminals, 2 drawings (interchangeable); 1 957 470 | `MappingsFollow`, refinement `ImplementsScreens` |
| `line_input` | buffer of 3, 2 letters, screen of 2 by 2; 1.6 million | `ScreenSound`, refinement `ImplementsQueue`, liveness `ReadReturns` |
| `descriptors` | 5 descriptors, sound files of 1 and 4 bytes, directory of 2; 60 876 | `EntriesOk`, `PositionCountsBytes`, `DescriptorsKept` |
| `read_data` | blocks of 2, 3 blocks per inode, 2 data blocks, numbers -1 to 2; 153 763 | `CopySound` |
| `file_image` | names of up to 2 (asked for: 3) characters, 3 entries, six kinds of files; 732 720 | `NamesFind`, `LoadedWhole` |
| `clock` | 2 processes, 8 interrupts a second, IRQ 2 and four other numbers; 62 152 | `ClockInv`, `MasksAsAsked`, `CountsExactly`, liveness `ReadReturns` |
| `blink_list` | 2 structures, 2 locations and one off the screen, lengths 0 and 2, countdowns modulo 3; 364 293 | `BlinkListInv`, liveness `Blinks` |
| `tux` | 1 LED, rings of 6; 1 open, 3 ioctls, 1 press, 1 reset; 7 656 670 | `TuxInv`, `ButtonsOfOneMoment`, `CommandsWhole`, `QuietAgree` |
| `maze_game` | 2 by 2 points, blocks of 4 pixels, view of 12 by 12, 2 fruits, both builds; 278 069 | `MazeInv`, `ConnectGetsOn`, `OnPath`, `PlayerFramed`, `ScreenCurrent` |
| `game_threads` | 2 levels, frames of up to 2 ticks, 2 keys, 1 change of buttons; 141 039 | `ThreadsInv`, `SteeredByArrows`, liveness `GameEnds`, `ButtonsSteer` |
| `mode_x` | window of 4 by 2 on a picture of 10 by 6, 2 levels; 111 649 | `BuildSound`, `BarShown`, `VgaSound`, `PictureShown` |

*What the conjunctions say.* Invariants of one component that hold for one
reason are checked as one, by parts that have names of their own:

* `KernelInv`: `ShellChains` (the programs of a terminal form one chain),
  `NoSlotLeaked`, `HardwareAgrees` (page directory, kernel stack and `curr_process`
  are the same process's), `NoneLost` (nobody is resumed from somewhere else) and
  the parts that make it inductive.
* `RootsAreShells`: every process in use has a program in its page, and that of each
  root, which `halt` starts again, is the shell.
* `ScreenSound`: types, `NothingOverwritten` (from the cursor on nothing was drawn),
  `CursorFollows` (the hardware's cursor is where the displayed terminal draws next).
* `DescriptorsKept`: `CleanStart` (a program finds stdin, stdout and nothing else),
  `HeldKept` (a call touches no entry but the one it names).
* `CopySound`: types, `ReadsTheFile` (what was copied is the file's bytes from the
  offset on, by the numbers in the inode), `InsideFile` (no block number beyond the
  file's is looked up) and `OnlyData` (without a negative number, data blocks only).
* `NamesFind`: types, `FindsByName` (a name finds its file and nothing else),
  `ListsTheFiles` (the directory lists each file once, with the name that finds it).
  `LoadedWhole`: a load that succeeds has the whole file in the page, and the file
  agrees with the magic number as far as it goes; for one shorter than that number
  the page may have held the rest, as in the code.
* `MasksAsAsked`: a line of the master is open exactly if it was asked for, one of the
  slave exactly if it was asked for and IRQ 2 was not disabled since.
* `ClockInv`: types, `ServiceMatches` (what the controllers have in service is what
  the running handler will acknowledge, and no two handlers nest),
  `ClockNotStuck` (the chip waits for its register to be read only while an
  interrupt is on the way to do so).
* `BlinkListInv`: types, `ListSound` (the list ends, is allocated, and nothing
  allocated is lost) until the list is lost, and it is lost only with a structure on
  it that was refused for its location and freed.
* `TuxInv`: types, `FlagHasAck` (LED commands are refused only while the answer is
  coming, but for one that came before the flag, `raced`), `NothingLeftBehind` (bytes stay unframed only after a burst).
* `MazeInv`: types, `Connected`, `MarksAreReachable` (reached points are connected to
  the first one), `FruitsCounted`.
* `ThreadsInv`: types, `NoLostSignal`, `DisplayKept` (drawn on in mode X only; the
  keyboard thread never waits for a key; at the end text mode and the settings that
  were found, while `O_NONBLOCK` stays set), `OutcomeSound` (won after the last level only).
* `BuildSound`: types, `WindowWhole` (each pixel of the window is in the buffer, where
  the drawing functions look for it), `FenceKept` (nothing is written beside the
  buffer). `VgaSound`: `ModeProgrammed` (every write to a register arrived),
  `BarBelowWindow` (the split screen's numbers fit the code's dimensions).

*Why the bounds are enough.* `kernel`: four slots are the fewest with which one
terminal has a chain of two programs while both others run a shell, three have
chains of three and four with the rest unopened, and the slots run out in each
arrangement; three terminals are the code's own number. (The code's six slots
with the shell alone, 5.9 million states, were checked once as well.)
`screens`: three slots let a mapping be held by two programs of one terminal while
another terminal is in use, and be left behind by a halted program; `vidmap` is called
on display and off it. Of two drawings it matters only whether they differ, hence
the symmetry.
`line_input`: a buffer of three has a first, a last-but-one and a kept last place;
requests are negative, zero, one, part of a line, the whole buffer and more; a
screen of two by two has a corner, ends of rows and a last row to scroll at, and
strings are longer than a row, with a newline in the middle. `descriptors`: five leave three for programs, enough for a clock's two
entries and one other. `read_data`: three blocks of two bytes contain reads within
a block, across one and two boundaries, ending on one and at the end of a full
inode; of block numbers there are both valid ones, the first that is too large and
the first that is negative, for the code only compares them. `file_image`: names
shorter than, as long as and longer than the field; three entries have a first,
a middle and a last; the kinds are an executable, a data file, an executable
with an invalid block, an empty file, a stub that is shorter than the magic number
and begins like it, and the directory. `clock`: two processes are
one that reads and one that is scheduled away, or two that wait for different
counts (four, two and one); the numbers of IRQs are a line of the master, the
cascade, the slave's first and last and one that does not exist; all sixteen lines
are there. `blink_list`: two structures are a list in which either is first, last or
alone, at one location or two, and `sync` has a source and a target; one location is
off the screen; a length of
0 sends a countdown all the way round, one of 2 does not. `tux`: one LED makes a command of three bytes, and rings of
six hold one and not two (each ring keeps a place free); a receive call brings
two bytes or six, so that packets of three arrive cut at every place, and a call may
bring more than the callback takes beside the bytes it has saved; the callback's room of six keeps the relation to
packets of three bytes that twelve has (two saved bytes do not fill it); three
ioctls are initialise, LEDs, LEDs again; the counters (`MaxOpens`, `MaxIoctls`, `MaxPresses`,
`MaxResets`) stop the run. The line may lose bytes anywhere. `maze_game`: two by two
points are the smallest maze with a cycle to close or not, worms that run into
each other, and fruit and exit at different places; the view is smaller than the
maze, so that it pans in all four directions; blocks of four pixels have a
middle to turn back at. `game_threads`: two levels are one that goes on and a last
one; two ticks are a frame that was missed; two keys are an arrow with a letter
behind it, two arrows, or an arrow and the end. `mode_x`: four columns are one
address in each plane with every remainder of the window's column; the buffer's
spare room of 4 makes the window move in memory after a few lines (with none
at all the run passes too, as `modex.h`'s comment claims); two levels have colours
of their own, and the two times are two phases of the player's.

The models of `tux`, `maze_game`, `game_threads` and `mode_x` may stop: a bound is reached,
a level is won, a game is over, the display is given back. In `clock` the chips
raise lines only while they are not raised, and in `file_image` a listing may be
over with nothing to load; in `line_input` an exception stops the system. The checks
for deadlock are off in these seven. All
other models are finite by their constants alone and never stop.

*Fairness.* `Kernel`: weak fairness of `Schedule` (the PIT fires at 100 Hz and no
path keeps interrupts off), of `TimerEoi` (straight-line code), and of the first
`execute` (called by `entry`). Programs, halts and keys are under no fairness.
`TerminalText`: weak fairness of `Reading(Poll)`, which is what `TerminalsServed` says of
a process that polls, and of `PutNext`, a loop with interrupts off. `ReadReturns` supposes that the user stops erasing one
day: a newline and a backspace in turn could slip between the loop's two loads
for ever, and that no exception stops the system. `BlinkList`: weak fairness of `Tick` (the clock interrupts at its rate) and
of an ioctl that has started. `Blinks` supposes that the program does not
synchronise for ever, for each `sync` may put off the end of a countdown.
`Clock`: weak fairness of boot, of the two clocks that tick by themselves, of taking
an interrupt and of the handlers' steps; strong fairness of taking the clock's
interrupt when no other line is pending, and of each polling loop, which runs
whenever its process does. `HasTime` is a premise of `ReadReturns`: again and again a
process runs with neither timer nor keyboard pending (timer and keyboard have
the higher priority and could starve the clock; at 100 Hz they do not).
`GameThreads`: weak fairness of `main`, strong fairness of each of the three threads,
since a thread that wants the mutex finds it free again and again and the
kernel's scheduler lets it have it some time. Keys and buttons are under none.

## 4. Proofs

All theorems hold for every value of the constants that the named assumptions
allow.

* **`KernelProofs`.** `KernelInv` is inductive, and the invariants follow from it:
  `TypeCorrect`, `ChainsSound`, `SlotsReturn`, `BooksAgree`, `ContextsSound`,
  `TimerAcknowledged`; so does the action property `TerminalsIndependent`.
  `ShellsRestart` is an induction of its own over it: a copy goes into the free slot's
  page because the directory that is loaded is the free slot's (`DirectoryFor`), and
  what a root's page holds was put there by `execute` or `switch_terminal` as the shell. The safety properties are not inductive by themselves:
  that `halt` finds its parent inside `execute` needs `Waiting`; that `schedule`
  finds a consistent context needs `Preempted` (the process of every terminal but
  the running one stands where its PCB says); that the saved context is
  overwritten before it is stale needs `Running`; and the first `execute` needs
  `Booting`. `ShellStacksImplemented` is the refinement: execute pushes, halt pops,
  schedule passes the turn on, switch_terminal shows, and every other step stutters.
  Its invariant is `LinesInv`: each terminal's processes in use form a line from a root
  to `active_process`, no slot twice (`Line`); the walk up the parents, a recursive
  function, finds exactly that line (`LineFollowed`, by the least place where they would
  differ), a line is never longer than there are slots (`LineFits`), and a free slot is
  room for one more program, for each place on a stack is a slot of its own
  (`RoomThere`). Assumed: at least one slot and one terminal, and that the shell is
  a program.
* **`TerminalProofs`.** `MappingsSound` and, with it, `ScreensImplemented`:
  each step draws on one screen, shows one, or stutters. The induction is
  over `MappingInv`; saving and loading lose neither screen because no two
  terminals share a page. A mapping is followed by the terminal it was lent
  (`vidmapped`), whoever holds it. `ScreenAlwaysSound`, for every size of screen and whatever
  is written; `TypeCorrect`, and `QueueImplemented` with `TextInputQueue`, the same of
  `TerminalText`: a key appends, a backspace takes the last, the critical section
  splits the queue.
* **`FileProofs`.** Of `FileDescriptors`: `EntriesUsable`, by `EntriesInv`, which adds that
  stdin and stdout stay the terminal's; `TableKept` (a program starts clean, a call
  touches the entry it names, and `open` an entry that was free); `ReadsOn`, which
  needs every file to be sound (`Corrupt = {}`, see 5). Of `ReadData`: `ReadsRight`, partial
  correctness of `read_data` for all block sizes, inodes, offsets, lengths and block
  numbers, negative ones included. The
  invariant says where the two indices stand (`Position`: together they are the
  offset, except at the end of a block), that what is copied so far is right
  (`Copied`), and that the block at hand is not beyond the file's last (`Last`); every
  byte copied is of a block the read comes to (`CopiedInBlocks`). Of
  `FileImage`: `NamesResolved`, for every directory of distinct names and every
  string: `strncmp` says that a name and the string asked for agree exactly when they
  do (`SameName`), up to the field's length (`ListingInv` says what the listing has
  given so far); and `OnlyWholeFilesRun`, where `PageInv` says what is in the page
  after a load that was cut short, behind a short file included. Assumed: the magic number is not the zero
  the page is cleared with.
* **`DriverProofs`.** Of `BlinkList`: `BlinkListStaysSound`, for any number of
  structures and locations. The list is a recursive function along `NEXT`; what a
  proof needs of it is only that a sequence of distinct structures that ends in a null
  `NEXT` (`Chain`) is what the walk finds (`ChainFollowed`, by the least place where they
  would differ). `BlinkInv` adds what the ioctl that runs holds in its registers:
  a structure not yet on the list whose `NEXT` is the head, or one no longer on
  it, or a refused one that is going to be freed while linked. Nothing is assumed of
  the locations but that one is on the screen or off it. Of `Tux`:
  `TuxTypes`, `ButtonsFromOneMoment`, `CommandsReachWhole`, `FlagAnswered` and
  `QuietlyAgreed`, for any number of LEDs, any bytes a receive call brings, any buttons and any
  number of ioctls and resets. Assumed: a ring holds more than one LED command
  (`TUXCTL_BUFSIZE > NLeds + 3`; the code's 64, `tuxctl-ld.c:55`, against 7); of the
  order of interrupts, bytes and steps of an ioctl nothing. *Buttons:* with one byte
  lost at most, what is on its way to the driver holds no packet that was not sent,
  and with none lost it is packets end to end (`InInv`): first bytes of packets have
  bit 7 clear and the others have it set, so that three bytes of two packets are
  never taken for one. *Commands:* unless the serial driver had to drop bytes, what
  is in the ring between two steps of an ioctl is one whole command (`SendInv`), and
  what the controller has gathered with what is on the wire is whole commands
  unless the LEDs were restored before they were set (`StreamInv`). *The flag:*
  `FlagHasAck` is not inductive by itself: when `SetFlag` sets the flag, the command it
  is set for, or its answer, must still be on its way, so `FlagInv` says the same from
  the moment the command is put (`Unflagged`). A packet that is taken off takes an
  answer away only if it clears the flag, queues a new command, or comes in that
  moment, which is `raced` and is no more than that. *In the end:* what the controller has gathered and
  what is on the wire (`Sending`) is whole commands, or these and a command of zeros
  that was never stored (`Dead`: LEDs restored before they were set). In the first
  case, and while no RESET is on its way to the driver, the last LED command among
  these and what the ioctl still holds (`Rest`) is the driver's buffer, or there is
  none and the LEDs show the buffer already (`Shows`); and the controller is in user
  mode, or an `MTCP_LED_USR` is among them (`UserIn`) or about to be put there
  (`Asking`). This is `AgreeInv`, which says nothing of the buffer while it is being
  filled; `RestInv` says what an ioctl can be sending. A quiet system has sent
  everything, so that nothing is left that could change the LEDs.
* **`ModeXProofs`.** `WindowStaysWhole`, `PictureComplete`, `BarStays` and
  `ModesProgrammed`, for every size of window, picture, block, bar and spare room of the
  buffer. No two pixels of a window share a byte (`OneCell`: the window
  starts in the middle of a byte, and a plane whose first column is left of it
  begins a byte later, but planes still end before the next begins), and a window that
  fits has all its bytes in the buffer (`FitsInside`); in the middle of the buffer
  every window fits (`CentredFits`). So the window can be carried along (`MovedIs`, with
  `CopiedIs`: copied from the right end, nothing is read after it was written) and drawn into
  (`PlottedIs`, `DrawnIs`). The invariant is `BuildInv`: to the properties of
  the run it adds that the window fits where it is (`Placed`) and that nothing is drawn
  before the window is in the picture (`DrawnInside`). `VideoInv` says that the bar
  has the text last shown while mode X lasts, `VgaInv` what each register holds in each mode,
  `PlaneOf` that each plane is copied from where the pixels of its columns are. Assumed: a
  window of whole bytes, a bar's text as wide as the window, and the image
  behind the bar in video memory (`ModeXAssumption`).
* **`GameThreadsProofs`.** `ThreadsSound` and `OnlyArrowsSteer`. The first needs that a
  thread holds the mutex exactly where its program counter says, that `main`'s
  place says which threads exist and how the terminal is set (`MainInv`), and that the level counts up to a
  win (`LevelInv`). The second needs `KeysInv`: in the queue of typed bytes those of an
  arrow key follow one another, and the state of the escape sequence is the
  number of them the thread has eaten.
* **`ClockProofs`.** `InterruptsSound`, `MasksRight`, `CountsRight`, for any number of
  processes, any rate of the chip and any requests. What `entry()` has still to
  call says how far the hardware is set up (`BootInv`); the mask bytes are the
  chips' masks, and while a line of the slave is unmasked in them, the mask of the
  cascade is what was last asked of IRQ 2 (`MaskInv`); only the timer's, the keyboard's and the clock's lines
  are ever raised (`RaisedInv`); every process but the running one is before its
  first turn or in the tail of the timer's handler (`ContextInv`); a countdown and
  the interrupts seen since the call add up to the count asked for (`CountInv`).
  Assumed: process 1 exists, and the rate is even and positive.
* **`MazeGameProofs`.** `PlayerOnPath`, `ViewFollows`, `MazeIsConnected`,
  `MazeStaysSound`, `ConnectingGetsOn` and `ScreenStaysCurrent`, for every size of maze, blocks and view and every choice of the
  generator. *The player:* three invariants support each
  other: `GenInv` counts the generator's uneaten points, so that the worms have been
  at (1,1), where the game starts; `WallsInv` says that the boundary is never broken,
  for which the cells of the boundary must be apart from those of the points inside
  although a row's last block shares an index with the next row (`CellsApart`);
  `MotionInv` says that between squares the player is `move_cnt` pixels from an open
  square, with the square behind open as well, so that turning back never ends in a
  wall. `FrameInv` adds that the view pans one pixel with each pixel of motion that
  brings the player near its border. *The search:* `mark_maze_area` takes as many
  turns as there are points and finds exactly what can be reached from where it
  starts without passing a marked point (`AreaFound`): what leads out of an (odd,odd)
  point leads to another (`PassagesStay`, which the comment at `maze.c:133` supposes),
  different points have different cells (`OneCellEach`), so that no point is
  queued twice and the queue has room for the maze, and each queued point was found
  from one queued before (`FoundIsWhole`). That its queues exist at all is shown by
  the least turn at which one would not (`QueuesExist`, by `LeastIn`). *Connecting:*
  two areas joined by the wall that is knocked down are one (`Together`), nothing else
  is joined by it, for a wall is between two points only (`WallBetween`), and the
  count is of the points left (`CountedLess`, `JoinMarks`); when none is left, all are
  connected (`NothingLeft`). *The level:* `LevelInv` adds what the array holds
  (`MazeSound`) and that what is in view is drawn: every function of a tick keeps a
  record of the level `Sound`, the line that panning draws is all that comes into
  view (`LineNew`), and the player is drawn inside it (`PlayerCovers`). *The scan:*
  since anything was joined, the loop made some random picks and then came to as many
  different points as it made rounds (`IdleInv`); a set of points that holds the
  next of each of its points is all of them (`ScanIsRound`), so that a new one
  comes each round, and as long as a point is not reached there is one that the scan
  would not pass by (`SomeUsable`). *The screen:* the level keeps `Screen(s, P)`: what is
  in view is what `find_block` says, but for the points `P` that the player's
  picture may lie on. While the player stands or walks, `P` is the square it left and
  the one it goes to, and both have been seen (`ScreenInv`); a step leaves only the
  square behind it, which is drawn again on arrival; what is unveiled around
  the player shares no cell with another point in view (`NearApart`). Assumed:
  `PAN_BORDER` is at least 1 and the maze is larger than the view (`GameAssumption`);
  for `ScreenStaysCurrent` also that the first and the last column are never both in
  view and `PAN_BORDER` is at least 3 (`EdgesApart`): by `MAZE_INDEX` the two columns share
  cells, and what is unveiled at one edge would change at the other without being
  drawn. The smallest maze is 14 wide (`maze.h:51`), where 6 + 320 pixels are at most 24
  times 14, and the border is 5 (`mazegame.c:75`). The instance of `maze_game`, with a
  border of 1, is outside the assumption; there the run shows `ScreenCurrent` itself.

*Only model-checked:* liveness (`TerminalsServed`, both `ReadReturns`, `Blinks`, `GameEnds`,
`ButtonsSteer`), which the proof system does not reach: they rest on fairness and so on
`ENABLED`. Every other property of the runs is stated by a theorem.

## 5. What the code does otherwise than it says

These were met while modelling. Where a constant of a model chooses between the
code as it is and the supposition under which a property holds, setting it the
other way makes TLC show the property violated.

1. `vidmap` maps the displayed page even when the caller's terminal is not on
   display (`syscalls.c:350`); the program then draws on another terminal's screen,
   and its mapping follows that terminal from then on. `MappingsFollow` and
   `ImplementsScreens` say so: a mapping is lent the displayed screen.
2. The loop that is to clear the video buffers adds `VIDEO_BASE` to addresses that
   contain it (`terminal.c:67`); the first switch to a terminal shows what memory
   held (`PowerOn`).
3. A backspace between the loop of `terminal_read` and its critical section makes a
   short read that ends no line (`terminal.c:169`). `ImplementsQueue` allows it.
4. With CapsLock on, Enter gives a backslash (`terminal.c:28`), so that no line can
   be ended.
5. `open` of the RTC takes two entries and returns one, or fails and keeps one
   (`syscalls.c:28`). `EntriesOk` and `DescriptorsKept` hold all the same.
6. A failed read moves the file position back by one (`vfs.c:166`). With
   `Corrupt = {long}`, `PositionCountsBytes` fails.
7. `load_program` looks for the magic number in the page after the copy
   (`vfs.c:54`): behind a file of fewer than four bytes it finds that of the
   program before, and runs it. `LoadedWhole` asks of the file only what it is long
   enough for.
8. `read_data` returns 0 for a read that begins beyond the end of the file, where
   its comment says -1 (`vfs.c:335`); `ReadsTheFile` states what it does.
9. `mp1_ioctl_add` links a structure into the list and checks its location
   afterwards; when it fails, the structure is freed and stays on the list
   (`mp1.S:160`). The next structure may be put into the same memory and point to
   itself, and the tasklet then never ends. `BlinkListInv` says that this is the only
   way the list is lost; the run reaches it, and what comes after is not modelled.
10. A RESET that comes before the first `TUX_SET_LED` restores LEDs never set: zero
   bytes, which are no command, and the controller goes into its debugger
   (`tuxctl-ioctl.c:75`). `early` keeps it out of `CommandsWhole`.
11. The loop that hands bytes to the serial driver takes one more than there is
   room for (`tuxctl-ld.c:179`), and that byte is lost. `over` keeps it out.
12. ICW1 clears a controller's mask register, so that `i8259_init`, which masks all
   lines first, leaves all unmasked (`i8259.c:21`). It does no harm: interrupts
   are off until `enable_irq` writes the masks.
13. `enable_irq` and `disable_irq` of IRQ 2 change the cascade's mask as if it were a
   device's: after `disable_irq(2)` every line of the slave is masked though asked
   for, until one of them is enabled again. `MasksAsAsked` says exactly that. Only the
   loop of `irq_test` (`tests.c:82`) would call them so, and it is commented out.
14. `kernel_context_switch` returns with interrupts on before the EOI is sent
   (`scheduler.c:57`). Nothing can come between, for IRQ 0 has the highest priority.
15. `rtc_read` and `terminal_read` poll fields that are not volatile; they return
   because the kernel is built without optimisation.
16. `tiempo[6]` is too short for `"%02d:%02d"` from a hundred minutes on
   (`modex.c:576`); `write_font_data` leaves the memory-mode register at 3 where the
   text mode's table has 2; `draw_refill_block` never advances its pointer into
   the saved background, so that what it saves is not what was there (the game
   draws the block anew instead).
17. A player that turns back from a fruit or from the exit can leave a line of
   floor over its picture until it is drawn again; `ScreenCurrent` allows exactly
   that.
18. `O_NONBLOCK`, set at `mazegame.c:674`, is never cleared: not at the end of a game
   (`:715` gives the settings back only), nor when `tcgetattr` or `tcsetattr` fails (`:680`,
   `:691`). The shell that started the game has a terminal whose reads do not wait.
   When `set_mode_X` fails, the terminal stays raw as well. `DisplayKept` says of
   `O_NONBLOCK` that it is set while threads read, and of the settings that a game
   that is over gave them back.
19. Block numbers are `int32_t` (`vfs.h:44`, `:52`), and `read_data` compares them with
   `data_count` as signed numbers (`vfs.c:356`), although its comment promises -1 for
   a bad data block number (`vfs.c:316`). A negative number passes, and the bytes
   copied are those of the inodes, the boot block or what is in memory before the
   image. `ReadsTheFile` says which bytes these are, `OnlyData` that they are the data
   blocks' when no number is negative. `FileImage` and `FileDescriptors` have valid and
   too large numbers only.
20. The flag against overlapping LED commands is set after the command is put
   (`tuxctl-ioctl.c:244`, `:246`). An acknowledgement handled between the two clears a
   flag that is not set yet, and the flag then stands with no answer to come: LED
   commands are dropped until `TUX_INIT` or a reset brings another acknowledgement.
   The run reaches this (`raced`), `FlagHasAck` says that it is the only way. At 9600
   baud the command and its answer take some nine milliseconds.

## 6. Not modelled, and why

* Boot (but for the order in which the interrupt hardware is started), descriptor
  tables, page table set-up, exceptions: straight-line code whose result is `Init`;
  exceptions print and stop.
* The rest of `lib.c`, `tests.c` (commented out for the most part): formatting.
* mp2's fonts, palette cycling, the wording of the status and the pictures: data.
* `input.c`, a stand-alone test, and `assert.c`: no part of the game as it is built.
* User programs and `fish`: their system calls are the actions of the modules
  above.
* In `Kernel`, an image without a shell, with which the first `execute` and
  `switch_terminal`'s `load_program` would fail; the boot PCB's uninitialised
  `terminal_index` is taken to be 0, as on cleared memory.
* In `TerminalInput`, scan codes and modifier keys; in `VirtualTerminals`, the cells of
  a page and the cursor, which are `TerminalText`'s.
* In `Tux`, registration of the line discipline and memory allocation; in
  `GameThreads`, a failure of `pthread_create`, which the code does not look at.

## 7. What is left

1. Larger instances of `tux` (two LEDs and more, two opens), which take hours.
