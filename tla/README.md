# TLA+ models of SealOS

SealOS is a small x86-64 kernel: it boots with Limine, draws a terminal with
flanterm, reads the keyboard from an interrupt, and has a command prompt with a
FAT32 disk and scripts. These modules describe what its code does, TLC checks
them on small instances, and TLAPS proves part of what the runs show for every
value of the constants. Line numbers refer to `kernel/src/`; `PROJECT.json` maps
every definition to the lines it stands for.

- [The system](#the-system)
- [Modules](#modules), with the correspondence of state and actions to the code
- [Runs](#runs), their bounds and why they are enough
- [Fairness](#fairness)
- [Proofs](#proofs)
- [What the code does that its documentation does not say](#what-the-code-does-that-its-documentation-does-not-say)
- [What is not modelled](#what-is-not-modelled)
- [Plan](#plan)

To check a module: `tlc -config MCFat32.cfg MCFat32`. To check the proofs:
`tlapm Fat32Proofs.tla`.

## The system

| Component | Code | State | Operations | Makes it correct |
|---|---|---|---|---|
| Boot | `main.c` kmain | how far it is; what `fat32_init` found | once, in order | nothing is used before it exists; it ends |
| Page allocator | `main.c` malloc, bitmap_* | the bitmap, in usable memory | bitmap_init, malloc | pages handed out are usable, distinct and none of the bitmap's |
| Interrupts | `idt/` | the table, the PIC's mask, the interrupt flag | load_idt, the common handler | one handler at a time, acknowledged, never without a table |
| Line editor | `cmdprompt.c` handle_keyboard | command_buf, doc_buf, cursor_pos, editor_mode | one call per key | what Enter executes is what was typed |
| Interpreter | `cmdprompt.c` exec | argv, argc, at_root, folder_name | one per command | a command ends, with one prompt, in the state its name says |
| Scripts | `cmdprompt.c` isl_run | the stack, bash_mode | a command per line | every line is run, once |
| FAT32 driver | `drivers/fat32.c` | the volume, current_clust, three sector buffers | search, list, create, overwrite, mkdir | no cluster with two owners, nothing lost, also after a power cut |
| ATA driver | `drivers/ata.c` | none but its buffers; the drive has a status register and a word counter | read and write a sector | a call moves one whole sector, and ends |
| Parser of the terminal | `ft/flanterm.c` | the flags of flanterm_context | one call per byte | every byte is text or part of exactly one sequence |
| Terminal | `ft/flanterm.c` | margins, insert mode, scroll_enabled | one per character or sequence | text stays in its region, editing touches what it should |
| Colours of the terminal | `ft/flanterm.c` sgr | the colours selected, bold, reverse video, what is saved | one per parameter | text has the colours selected, reverse video mixes up nothing |
| Framebuffer back end | `ft/flanterm_backends/fb.c` | grid, queue, map, cursor | eight calls | a flush shows the screen, with one cursor |
| Its initialisation | `ft/flanterm_backends/fb.c` flanterm_fb_init, `font/` | the pool, the limits, the scale | once | the pool is enough, every pixel drawn is on the screen |
| Helpers | `utils/utils.c` | none | strings, numbers, ports | |
| Build, Limine, disk formatting | build files, `limine.conf`, `diskformat.sh` | none | | |

How they interact. kmain initialises the terminal, turns on interrupts, reads
the boot sector, builds the bitmap, takes three pages and halts. From then on
everything happens in the keyboard interrupt: `handle_keyboard` edits the line or
calls `exec`, which calls the FAT32 driver (which polls the ATA controller) and
`output`, which feeds bytes to flanterm, which calls the back end and flushes.
State is shared in globals: the sector buffers `disk_buffer`, `map_buffer` and
`dir_buffer`, the line buffer and `argv`, `current_clust`. A script is `exec`
calling `isl_run` calling `exec`.

What is hard about it:

- **Power cuts.** An operation on the volume is two or three sector writes, and
  nothing repairs a volume that has seen only some of them.
- **Memory at its limits.** FAT, directory, bitmap, line buffer, argument array,
  kernel stack, parameter array and queue all have one, most of them untested.
- **Stale state.** `argv` outlives its line, `argv` pointers outlive their frame,
  a new directory entry keeps bytes of a deleted one, `bash_mode`,
  `csi_unhandled`, `dec_private` and `scroll_enabled` outlive what set them.
- **Long legal sequences.** Of commands, of keys, of control sequences with
  margins, of calls between two flushes.
- **Interrupts during boot.** They can arrive before the buffers exist, while
  `fat32_init` waits for the drive, while kmain zeroes the line, and while it writes
  to the terminal.
- **Driver and drive.** They run side by side and meet in one status register; the
  driver's loops have no bound.
- **Screens of any size.** The pool, the limits, the scale and the offsets were worked
  out for the usual ones.

`PROJECT.json` lists these hazards one by one, at their lines, with the
properties that are about them.

## Modules

| Module | What it is |
|---|---|
| `Boot`, `BootProofs` | kmain and the keyboard interrupt; composes `PageAlloc`, `FbInit` and `Ata`; the proofs of all four |
| `PageAlloc` | physical page allocator |
| `FbInit` | initialisation of the terminal, geometry of its cells |
| `Disk` | abstract: what reading and writing a sector promises |
| `Ata` | detailed: the handshake of driver and drive; implements `Disk` |
| `Fat32`, `Fat32Proofs` | FAT32 driver and the commands that move the current directory |
| `Shell`, `ShellProofs` | line editor, interpreter, editor, scripts |
| `FbCells`, `FbCellsProofs` | the screen's cells, and what putting, wrapping and scrolling do to them |
| `FbScreen` | abstract: what the back end promises |
| `FbQueue`, `FbQueueProofs` | detailed: the double buffer; implements `FbScreen` |
| `Terminal`, `TerminalProofs` | what characters and sequences do to the screen of `FbCells` |
| `EscapeGrammar` | abstract: which bytes are text, and where sequences end |
| `EscapeParser`, `EscapeParserProofs` | detailed: the flags; implements `EscapeGrammar` |
| `Pen` | abstract: two colours that can be turned over, kept and brought back |
| `Sgr`, `SgrProofs` | detailed: the colour parameters and their flags; implements `Pen` |
| `MC*` with `MC*.cfg` | instances for TLC |

A definition whose name has an underscore and a suffix (`Alloc_NoMark`) is a
mutant: a plausible mistake in the definition that follows it. It is used by no
action, and shows which property notices that mistake.

### Boot

`k_at` is the call of kmain that comes next:

| `k_at` | Code | Action |
|---|---|---|
| screen | `flanterm_fb_init`, then the first `output` | the actions of `FbInit`; `Colour`, which faults on NULL |
| remap, unmask, lidt, gates, sti | `remap_pic`, the mask of IRQ 1, `lidt`, the gates, `sti`, in the order of `load_idt` | `LoadIdt` |
| read, disk | `fat32_init`: `read_ata`, then the geometry out of `disk_buffer` | `ReadBootSector`, `InDriver`, `Mount` |
| bitmap | `bitmap_init`, then the banner | `BitmapInit` (the actions of `PageAlloc`), `Banner` |
| buffers | three `malloc`, then `cmd_cleanup` byte by byte | `TakeBuffers`, `Cleanup` |
| prompt, halt | the prompt, `hlt` for ever | `Cleanup` |

`Boot` EXTENDS the three modules it composes, and each action says which of them it
leaves alone. The gates are interrupt gates: kmain can be interrupted between any
two of its steps, the handler cannot. An interrupt is `Taken` with the flag going off and
IRQ 1 in service, and `irq_at` is the key the handler is at. Every way out of
`handle_keyboard` is an action of its own, with its own end-of-interrupt (`Eoi`) and the
`iretq` (`Iret`):

| `handle_keyboard` | Action |
|---|---|
| a key release (333-336) | `Release` |
| editor: backspace (338-345), F1 (346-354), any other key (355-359) | `EditBackspace`, `Save` then `Saved`, `EditLetter` |
| Enter (360-364) | `Enter`; `EnterDisk` then `LeaveDisk`; `EnterNothing`, which faults; `CommandStops` |
| backspace (365-371), F1 (372-376), any other key (377-380) | `Backspace`, `F1`, `Letter` |

A command, and the editor's F1, that use the disk are in the driver from `EnterDisk` to
`LeaveDisk` and from `Save` to `Saved`, with interrupts off, while the drive goes on; it is
one call of the driver each, because more follow one another just the same. Which keys
open the editor is left to `Shell`: after any command `editor_mode` is either. A command
that stops the kernel (`CommandStops`) and the `;` loop are `Shell`'s too.

A pointer is NULL before its `malloc` has returned (`NoBuffer`, `NoDocument`). If it is
what was in the register because there was no page, or leads to a page the map has no
usable memory for, a write through it may fault or not (`Stray`): in kmain
(`CleanupFaults`) as in the handler. `dead` says how the kernel has stopped: a panic, a
fault without a table, a command that stops it, or one that finds the driver in use.

The cells of `line` are what a key and `cmd_cleanup` can make of `command_buf`: memory
as malloc found it, zero, a key, a blank. Which command a line holds is left to
`Shell`. `early` is a history variable.

### FbInit

`flanterm_fb_init` as kmain calls it: without a malloc, so that every block comes out
of a static pool, without a canvas or a margin, with the font scaled to the screen.
The scale is chosen (`ChooseScale`) before the screen is limited (`Limit`); then each
block is one `Allocate`, the cells being counted after the third; `Refresh` is
`full_refresh`. `PoolSkews` is where the linker has put the pool. The pitch is in
pixels of four bytes, because kmain does not look at `bpp`.

`Walk` is `plot_char`: its pointer over the pixels of a cell and the dot of the font it
draws at each.

### Disk, Ata

Driver and drive are two processes. The driver's steps are those of `read_ata` and
`write_ata`: a look at the status, the registers of a command, a word. A polling loop
is its exit. The drive, which is external, takes a command up, serves or stores it
later, or, if it is failing, refuses it; one that is absent reads as all ones, as a
floating bus does. Nothing in the driver looks at ERR, and `read_ata` alone looks for a
drive first.

The refinement mapping: `SeenBuffers` is the buffer as it was until a read has
returned, and `SeenCall` is the request, which for a write is done when the drive has
stored it. `Fat32` takes a sector write as one durable step: that is `Disk`.

### Fat32

`fat` is the first FAT sector, the only one the allocator looks at; `disk` gives
for every cluster its first sector, the only one the driver reads. A sector is
kept under both readings the code has of it, 16 directory slots and a text, since
`read`, `cd` and a crash can make it read one as the other. `pc` and `op` are the
running operation: an operation is one action per sector it writes, in the order
of the code.

| Code | Actions |
|---|---|
| `fat_create_file`, file exists (157-187) | `CreateOverwrite`, then `OverwriteSize` (`fat_overwrite_file`) |
| `fat_create_file`, new file (188-227) | `CreateAlloc`, `CreateEntry`, `CreateData`, or `NoRoom` when the directory is full |
| `fat_create_dir` (230-272) | `MkdirAlloc`, `MkdirEntry`, `MkdirInit`, or `NoRoom` |
| `fat_search`, `fat_find_free_cluster` | `Finds` and `Absent`, `FirstFreeCluster` |
| cd, cd .. | `Cd`, `CdUp` |
| power cut, panic, reboot, then `fat32_init` | `Crash` |

Modelled as they are: a file's name is cut to 7 characters, a folder's to 8, and
cd compares 11 (`FileStem`, `DirStem`, `CdStem`); `.txt` is looked for before
`.isl`; mkdir looks for no entry of the name; a cluster is taken before a slot is
looked for; the allocator returns 0 when nothing is free; overwriting stores only
the low byte of the length; 512 bytes of a text are written whatever its length is, and
the entry has the whole length (`SectorSize`, `Cut`); the high word of the cluster is never written; `edit`
passes no extension, so that the three bytes are whatever is found (`EditExts`).

A cluster number is the pair of its two words, because the code writes only one
of them. Cluster 0, which `..` and a failed allocation lead to, is a cluster of
the model with a sector of its own.

`Init` is a formatted volume that a host may have used: some clusters taken, some
holding old text, the root starting with deleted entries. Left out are sectors that a
host has used for a directory and freed, and texts that spell a directory entry: a
search that reads such a sector would find what is in them, and only a power cut within
mkdir makes one a directory.

`rewritten` is a history variable: the files overwritten since they were made, whose
second size byte is the one of the first text.

### PageAlloc

Addresses are counted in pages. `bitmap_init` is one action for each round of its
three loops over the memory map (`FindTop`, `SkipRegion` / `Place`,
`ClearRegion`), with `SizeBitmap` and `Reserve` between and after; `Malloc` takes
the first free page for the next of kmain's three buffers and `MallocRunsOff` is
its end without a return. `WriteBuffer` is what the rest of the kernel does with a
buffer: if the page is one the bitmap lies in, bits change. `page * 4096`
overflows an `int` at 2 GiB: `Address` then gives the product or what is left of
it in 32 bits. That the bitmap's last, partly used page is not reserved is in
the model (`TailPages`), and so is the bitmap at address 0 when no region is
large enough.

The model assumes what the Limine protocol says: usable regions begin and end on
page boundaries and overlap no other region. It is run as a part of `Boot`.

### Shell

A character is one word or part of a word, so that the commands are one key long;
the buffers, `Split` and the pointers in `argv` work on positions as in the code.
`Type`, `EditorType`, `Backspace`, `F1` and `Enter` are `handle_keyboard`;
`ExecWords` and `ExecLoop` are the two halves of `exec`; `Plain`, `Fault`, `Edit`,
`CdUp`, `CdInto`, `Reboot` and `IslRun` are its commands; `NextLine`, `ScriptEnd`
and `LoopStep` are the loops of `isl_run` and of `;`. `frames` is the C stack: an
`isl_run` call has its lines in it, and a pointer into one that has returned is
`Dead` and may read any string of `Garbage`.

`Keys` and `EditorKeys` are what the keyboard can send and `Letters` every character
a line, a script or the memory behind a dead pointer can have (`Garbage`): any but
NUL. F1 in the editor calls `fat_create_file` without its third argument (349), which
reads through it when the file is new (fat32.c:203): the kernel may stop there, or go on
with whatever was read. A path holds two characters at least (`PathLen`), because cd .. writes them.

No key is taken while a command runs (`pc = "idle"` guards the keys): the gate is
an interrupt gate (`idt.c`), the processor keeps interrupts off until `iretq`, and
the PIC is told only after `exec` has returned.

What a script's cluster holds is chosen from `Scripts`, whatever name was given.
Commands that only print or use the disk are one action, `Plain`. The pages malloc
returns are taken to be zeroed. `typed`, `path`, `prompts`, `odd`, `spilled`,
`nested`, `returned`, `worded` and `saving` are history variables: the properties compare with them,
and no action depends on them. TextIsTyped compares `doc_buf` with `typed` while the
editor is open; what is behind the text typed is left of longer ones.

### FbCells, FbScreen, FbQueue

`FbScreen` is a screen on which each call acts at once. `FbQueue` is the code:
`grid` is what the framebuffer shows, a changed cell has an item in `queue`, and
`map` leads to it. `raw_putchar`, `scroll`, `revscroll` and `clear` are one action
per round of their loops; `Flush`, `FlushItem`, `FlushOver` are
`double_buffer_flush` with `draw_cursor`. A cell without an item that gets the
glyph it already has is not queued (`compare_char`). `framebuffer` is what
`plot_char` drew last in each cell.

The refinement mapping: the screen is, for each cell, the glyph of its item or
else of the grid, and while a call runs it is the screen at its begin (`before`).
So a call is stutters and one step of `FbScreen`.

A glyph is a character with its colours. `Configure` is flanterm.c setting the
cursor, `scroll_enabled` and the margins, in the combinations of `Modes`. As
`fb.c:979` does, `WrappedRow` keeps the row below `Cols`, not below `Rows`.

### Terminal

One action per character and per control sequence of the switches in
`flanterm_putchar` (1244-1391), `escape_parse` (844-925) and
`control_sequence_parse` (500-820), on the screen of `FbCells` with the back end's
calls as operators (`raw_putchar`, `set_cursor_pos`, `scroll`, `revscroll`,
`move_character`). The editing sequences are the loops of the code
(`Blanked`, `Downto`, `Upto`), compared by `EditsExact` with what they should
leave on the screen (`Erased`, `Shifted`).

Colours are in `Sgr`. A restored cursor is any position the cursor can have had.
A final byte that is not known leaves `scroll_enabled` false (`Unhandled`), and so does
ESC (`LeftOff`), because the handler returns at 812 and 571 before line 815 restores it.
Only ESC c turns it on again. The properties hold with scrolling on and off; none says
that it is on.

### EscapeGrammar, EscapeParser

`EscapeParser` has the parser's flags and one action per path through
`flanterm_putchar`, `escape_parse`, `osc_parse` and `control_sequence_parse`. Bytes
are classes of bytes that the code tells apart; `cont` is 0x80 to 0xBF, and 0xF8 to
0xFF, which neither lead nor continue a character, are `other`. `EscapeGrammar` has one mode
instead. The mapping `Mode` reads the flags in the order in which the code tests
them; `dec_private` and `unicode_remaining` are the grammar's `private` and
`wanted`.

The grammar says what the code does, which is not everywhere what one expects:

- a final byte that is not known does not end a control sequence; the next byte
  from 0x40 to 0x7E does, and is lost (`Control`, `Skip`);
- ESC inside a control sequence does not begin a new one, and the `[` behind it is
  such an unknown byte: in both it differs from the comments at flanterm.c:558 and 569
  (run escape_end);
- the byte after `ESC [ [` is dropped; so is the byte after `ESC (`, ESC included;
- `ESC ESC` is nothing; in a command, ESC and any byte but `\` is as if the
  command had ended, except that a `?` after `[` is then not recognised
  (`osc_escape` leads to `csi`, not to `first`);
- a multi-byte character is shown in every mode, also inside a sequence;
- CAN ends every mode but leaves `dec_private` set.

### Pen, Sgr

One action of `Sgr` is one round of the parameter loop of `sgr` (128-395), so that a
sequence is several; ESC 7, ESC 8 and ESC c are `SaveState`, `RestoreState` and
`Reinit`. In reverse video the text's colours are exchanged, and every parameter
decides for itself which side it has to set: `DrawFront` and `DrawBack`. A colour is
the table it comes from and its index; the code compares none.

`Pen` is what is promised of all this. The mapping (`Front`, `Back`, `turned`, `kept`)
turns the colours back. `loose` is a history variable: the sides for which the flags
and what is drawn may differ, by the parameters named at ColoursAsSelected.

## Runs

Every property has a mutant in `PROJECT.json`: a mistake in a mapped definition
that makes TLC find it violated under the run's own configuration.

| Run | Module, configuration | Checks | Distinct states |
|---|---|---|---|
| fat32_text | MCFat32, MCFat32 | SizeMatchesText, OnlyNamedFileChanges | 1,296,569 |
| fat32_tree | MCFat32, MCFat32Tree | EntryAllocated, NoCrossLink, NoHiddenEntry, Forest, DirectoryReachable, EntriesStable | 721,195 |
| fat32_isl_init | MCFat32, MCFat32IslInit | InitMakesIsl: violated | |
| fat32_full | MCFat32, MCFat32Full | DataInDataArea: violated | |
| fat32_high_word | MCFat32, MCFat32High | DirectoryReachable: violated | |
| shell | MCShell, MCShell | TypeOK, LineIsTyped, PromptNamesDirectory, TextIsTyped, OnePrompt, HaltsOnlySo, CommandEnds | 533,784 |
| fb_queue | MCFbQueue, MCFbQueue | OneItemPerCell, KeepsPromise | 1,175,766 |
| terminal | MCTerminal, MCTerminal | MotionStaysInRegion, EditsExact, TextStaysInRegion, CursorLeavesOnlySo | 57,404 |
| escape_parser | MCEscapeParser, MCEscapeParser | ValuesInBounds, PrivateAsWritten, KeepsGrammar | 3,507 |
| escape_end | MCEscapeParser, MCEscapeParserEnd | RestartsOrEnds: violated | |
| sgr | MCSgr, MCSgr | ColoursAsSelected, IsAPen | 937,024 |
| kernel | MCBoot, MCBoot | InBounds, HandedSound, PoolSuffices, CellsInside, PlotExact, InStep, StopsOnlySo, Acknowledged, PromptClean, MovesSectors, MountsFirstSector, BootEnds, KeysAnswered | 225,694 |

Where a type invariant, FbQueue's QueueInBounds or PageAlloc's BitmapIntact is proved,
no run repeats it.

**fat32_text.** Two stems and four texts: of 5 bytes, of 300, whose length does not fit
a byte, of 600, which the sector does not hold, and what is left of that; two slots to a
directory. A text changes only by an operation on its stem, and of the stem's two files
only the one that was asked for, or the other if that does not exist. Both size bytes
are those of the text in the cluster: the second one until the file is overwritten, and
a text that fills its sector may be the beginning of a longer one. Two slots are enough
for two files in a directory, and a third name would find it full. `EditExts = {"other"}`
lets `edit` make a file that later look-ups miss.

**fat32_tree.** Directories of three slots, so that a subdirectory holds one entry
after `.` and `..` and then is full; a FAT with two clusters to hand out, so that
it runs out too; and a power cut between any two sector writes, then everything again.
One cut (`MaxCrashes = 1`) reaches every intermediate state once, with all operations
before and after; the proofs have any number. Entries stay in front of the end mark and
acyclic, on clusters of their own that are taken, and a directory that cd finds has been
initialised as long as no mkdir was cut short. Entries deleted by the host have high
word 0 here.

**kernel.** From kmain's first line on. Three kinds of machine, each varying one part
that does not influence the others:

- *Memory.* All maps of three regions of the four types and of 0, 1 or 16 pages, with
  pages of two bytes: 1 page needs a byte of bitmap, which is a partly used page, 16
  pages need exactly one page, 32 and more need several, so that there are bitmaps with
  and without a last partly used page, regions that can and cannot hold it, and no
  usable region at all. `IntPages = 33` puts the `int`'s range in the middle.
  HandedSound holds as long as the partly used page has not been handed out and memory
  ends within the range of an `int`: these are the two conditions under which the code
  is right, and the instance has maps on either side of both.
- *Screens.* 23 framebuffers: common ones, one smaller than a glyph, the limits of 1920
  by 1200 and the bounds of the scales (2560 by 1440, 5120 by 2880) from below and from
  above, each with a stride equal to and larger than the width, and three that differ in
  their masks. The pool is at a multiple of 16 and one byte behind one.
- *Drive and keyboard.* A drive that answers, one that may refuse and none at all, with
  and without a volume, and no key; two keys at any time of any kind where the drive
  answers, and one where it may refuse or is absent. Two keys are the
  least with which one follows on what another has done (a line and its Enter, a command
  and the repetition of it on an empty line, edit and its F1). One key on maps with a
  page for one buffer or for none makes the pointers that lead nowhere. Sectors of two words, one with four
  different bytes, show the order of bytes and words; `Addressable = 2` with sector 3 makes the
  address wrap; a line of two cells is cleaned in more than one step.

The kernel halts or waits for ever, so deadlock is not checked.

**sgr.** All sequences of parameters, saves and restores, of any length. The code copies
colours and never compares them, so one index of the palette and one mixed colour are
enough: every pair of table and default occurs on either side.

**shell.** Lines of the words `isl` and `run` and of blanks, typed and taken back, start
scripts of each kind the code treats differently: none, a folder entered and an empty
line, cd .. and a line of spaces, the editor, a nested run, a loop, a lone `;`, a reboot.
A `;` comes from scripts only, so a typed loop is left to the proofs.
Folders are entered two deep (`PathLen`) and left. Two stack frames (`StackFrames`) are
enough for a script that runs a script that runs out of stack. In the editor one
character (`MaxDoc`), typed, saved and followed by a shorter text, leaves a tail in
`doc_buf`. A line of five cells is the shortest that runs a script, and what
`cmd_cleanup` zeroes (`CleanLen`). Lines longer than that, Shift, and backspaces at the
start of a line are exceptions of LineIsTyped (`spilled`, `odd`); the proofs have them for
every other property. The kernel may halt, so deadlock is not checked.

**fb_queue.** Two columns and three rows, every order of calls, with two between two
flushes: a call such as clear or scroll queues cells all over the screen, so two are
enough for items that are changed again, and the proofs have any number. The screen is
higher than wide so that the clamp of fb.c:979 is reached. KeepsPromise is the
refinement of `FbScreen`.

**terminal.** Four columns and three rows: wider than high, like a real screen, with
rows outside a region on either side. No operation looks at characters other than
to copy them, so two that are not blank (`MaxText`) show where every cell goes.
Parameters are 0, 1, 2, 3 and 5, from none to more than the screen has.

**escape_parser.** Streams of bytes of any length; only the room for parameters is
smaller (3 for 16), and `escape_offset` is counted to 3 because the code only asks
whether it is 2.

## Fairness

Three properties are liveness properties.

`CommandEnds` (Shell) assumes `WF_vars(Kernel)`: once a command has begun the processor
goes on with it. The code justifies this because a command runs in the interrupt
handler with interrupts off: nothing else can run until it returns. Nothing is assumed
about keys. The property excepts a command that has started a `;` loop, which the code
never leaves, and a kernel that has stopped.

`BootEnds` and `KeysAnswered` (Boot) assume `BootFairness`: the processor goes on with
kmain and with the driver, an interrupt that is pending and let in is taken, and a
drive that works serves, in the end, the command it was given. The first two are one
processor that runs; between keys it comes back to kmain because the handler ends. The
third is what the ATA standard asks of a drive. Nothing is assumed of a drive that may
refuse, and nothing of the keyboard. BootEnds is stated for a drive that works, and
for none at all as long as no key is struck: with a failing drive the driver waits
for DRQ for ever, and `write_ata` waits for ever for a drive that is absent.

## Proofs

Each is for every value of the constants allowed by the assumptions named in the
modules. `tlapm` checks all of them (13,550 obligations).

**Fat32Proofs**, from `NamesAssumption`, `TextAssumption`, `VolumeAssumption`.

- `TypeCorrect`: TypeOK. It needs `TextInHand`, that the text of the running
  operation is a text while it is going to be used.
- `ClustersSafe`: EntryAllocated and NoCrossLink, with any number of power cuts at
  any point. Neither is inductive. `ClusterInv` adds where a cluster can be known
  from: all entries' clusters are taken (`AllAllocated`); sectors that hold entries
  are directories, never a file's data (`EntriesInDirectories`,
  `CurrentIsDirectory`), so that writing a text destroys no entry; folders end in
  blanks and so are never found as files (`FoldersBlank`); and the cluster in the
  hands of the running operation is known to nobody until its entry is written, and
  then to that entry alone (`InHand`). A power cut forgets what is in hand, and
  keeps the rest, which is why the order of the writes matters.
- `EntriesAreStable`: EntriesStable, an action property, from the same invariant.
- `DirectoriesSound`: NoHiddenEntry, and that a stem never has both a .txt and an .isl
  file in a directory (`OneFilePerStem`). That is not what the documentation promises, but
  what the order of the look-ups makes of it (see fat32_isl_init), and OthersUntouched rests
  on it. `DirectoryInv` adds that the stem of the file about to be made still has no file
  (`StemIsNew`): it was looked for before the cluster was taken.
- `DirectoriesFormForest`: Forest. Clusters are handed out lowest first and never freed
  (`LowestFirst`), so the cluster in hand is above every one a directory has.
- `OthersUntouched`: OnlyNamedFileChanges, from `ClusterInv`: a text is written to the
  cluster in hand or to the one the search found, and no other entry has either; and the
  search finds another extension than the one asked for only if there is none of that.
- `FoldersReachable`: DirectoryReachable, without power cuts and when `HighWords` is
  `{0}`; run fat32_high_word shows that it needs the second, and a cut between the
  writes of mkdir that it needs the first. The invariant names the one entry whose
  sector has not been written yet, that of the running mkdir (`SlotInHand`).
- `SizesAreTrue`: SizeMatchesText, under the same conditions, with the one file whose
  size and text may differ, that of the running operation (`HalfWritten`). Of a text that
  is cut the size says at least that it fills the sector.

**BootProofs, the allocator**, from the assumptions on the memory map and `PageBytes`.

- `BitmapInBounds`: InBounds. `BoundsInv` says that the first loop's maximum covers
  what it has passed, that the bitmap has a bit for every page below it, and that
  the bitmap's whole pages are below it too, by the arithmetic of the two divisions
  (`WholePages`, `Rounding`).
- `BuffersSound`: HandedSound. `AllocInv` adds that a clear bit is that of a usable page
  outside the bitmap and that a page handed out keeps its bit; the second rests on
  `NoBitsOutside`: a page that is neither one of the bitmap's whole pages nor its
  partly used one holds no bit of it, so writing in it changes none.
- `BitmapStaysIntact`: BitmapIntact, from the same.

**BootProofs, the screen**, for a framebuffer of any size, from `FramebuffersAssumption` and
`PoolSkewsAssumption`.

- `PoolIsEnough`: PoolSuffices. `FbInv` bounds the cells by those of the largest limited
  screen at scale 1 (`GeometryBounds`, `ProductBound`), and `AllocateFits` adds up the
  six blocks with their rounding and the worst alignment. The margin is small.
- `CellsStayInside`: CellsInside, by the arithmetic of the division and of the middle.
- `PlotsAreExact`: PlotExact, and for every cell, not just those at the corners. The pixels
  of a dot and the dot of a pixel are inverse to each other for each of the three scales
  (`DotColumns`, `ColumnsDot`), and the pointer is where the pixel is (`WalkAddress`).

**BootProofs, driver and drive**, for every size of a sector, every drive and every address.

- `StaysInStep`: InStep. `AtaInv` says for each place of the driver what the drive can be
  at: nothing while no call runs, busy or done after a command, the same word while
  words are moved.
- `ImplementsDisk`: that Ata implements Disk. The invariant also has what has been moved
  so far: the words of the sector read that are in the buffer, and those of the message
  that are in the drive's latch (`PrefixGrows`, `Whole`).

**BootProofs, the kernel**, from the assumptions of the parts.

- `PartsKept`: every behaviour of Boot is one of PageAlloc, of FbInit and of Ata, because
  every step of the kernel is a step of each of them or a stutter. `PartsSound` then has
  all that is proved of the parts for the kernel, keys included.
- `KernelStopsOnlySo`, `KeyboardAcknowledged`, `FirstLineClean`, `GeometryOfFirstSector`:
  StopsOnlySo, Acknowledged, PromptClean, MountsFirstSector. `BootInv` has five parts:
  what exists at each place of kmain and of the handler (`OrderInv`); table, mask, flag and
  what is in service (`GateInv`); who is in the driver (`DriverInv`), where the point is that
  `argv[0]`, the editor and the buffers come after `fat32_init`, so that no command and no
  save can begin while it waits; the boot sector on its way into `disk_buffer`
  (`BootSectorInv`); the bytes already zeroed (`PromptInv`). `ExitKeeps` is what the
  handler's ways out have in common, and each of them has a lemma that it is one.

**ShellProofs**, from `ShellAssumption`: any keys, scripts, folders and stack, and
buffers of any length.

- `ShellTypeCorrect`: TypeOK. The invariant (`TypeInv`) says where a pointer in `argv` can
  lead: nowhere (`Null`), into a frame that is gone (`Dead`), or to a byte of a string
  that ends (`Live`). A command rewrites the line of the frame on top while `argv` points
  into it (strtok puts NULs there), and `RewrittenInv` shows that the pointers still lead to
  strings; `Stop`, the end of a string, and `Nth`, the n-th word, are choices whose values are
  found by a least number (`LeastNatural`, `NthIsIn`).
- `ShellHaltsOnlySo`: HaltsOnlySo, with the scripts that run never more than the frames
  there are (`HaltInv`). `argv[0]` is null only until a line with a word has been parsed
  (`worded`), however scripts rewrite `argv` and their frames go.
- `ShellTextIsTyped`: TextIsTyped, inductive with the types.
- `ShellOnePrompt`: OnePrompt. `PromptInv` follows `bash_mode`: off when nothing runs
  (`Alone`), on in the only script that runs as long as none was nested, without a prompt
  so far (`Answering`), so that the prompt at its end is the only one (`Answered`).
- `ShellNamesDirectory`: PromptNamesDirectory. `PathInv` has more than the string: all bytes
  behind it are NUL (`Named`), which is what strcat relies on the next time.
- `ShellLineIsTyped`: LineIsTyped. `LineInv` says of every byte of command_buf what it is
  while no command runs: what was typed, then blanks or NULs (`LineShown`), NUL from
  `CleanLen` on as long as no line has reached there. A line and a string that differ in
  blanks and NULs at the end have the same words (`SameWords`).

**FbCellsProofs**, from `FbCellsAssumption`: lemmas about cells and rows that FbQueueProofs
and TerminalProofs share. `RowAtLeast` turns a row into a range of cells; `ScrolledCell` and
`RevScrolledCell` say what is in each cell after a scroll.

**TerminalProofs**, from `FbCellsAssumption` and `TerminalAssumption`: screens of any size,
parameters of any value.

- `TerminalTypeCorrect`: TypeOK. Every action but RestoreCursor leaves a screen and a cursor
  that satisfy `Lands`: a screen of the same cells, a column up to `MaxX` and, where the region
  ends with the screen, a row on it. For the editing sequences that is a statement about
  loops, see below.
- `TerminalCursorLeavesOnlySo`: CursorLeavesOnlySo, which is what `Lands` says of the row.
- `TerminalMotionStaysInRegion`: MotionStaysInRegion, by the arithmetic of `RowMotion`.
- `TerminalTextStaysInRegion`: TextStaysInRegion. A character that is put changes a cell of
  the region by scrolling, or one in the row it goes to (`PutcharKeeps`); insert mode
  moves cells of the cursor's line (`InsertedIs`). Of the two cells of a wide character the
  first can be in a third row only if both wrap, that is with one column, where the clamp
  of fb.c:979 keeps both in row 0.
- `TerminalEditsExact`: EditsExact, on screens that are not higher than wide. The hypothesis
  is needed: on one of two columns and four rows TLC shows J blanking the wrong cells,
  because the wrap keeps the row below the number of columns (fb.c:979). A framebuffer
  as kmain gets it is wider than high and its cells are higher than wide, but nothing in
  the code says so. Only J needs it (`BlankedAcross`); `TerminalLinesExact` has the other
  sequences without it.

The loops of Terminal (`Times`, `Downto`, `Upto`) are recursive functions. `Iterates`,
`CountsDown` and `CountsUp` show that each has a value for every number of rounds, and
`Rounds`, `Down` and `Up` that what holds before the first round and is kept by each
holds after the last: there is no least round after which it fails (`LeastNatural`, by
the library's theorem that the naturals are well founded). Each editing sequence then has
a lemma that says what the screen is after k of its rounds: k blanks written within a line
or across lines (`BlankedInLine`, `BlankedAcross`), lines moved by k (`ScrolledLines`,
`InsertedLines`), and the cells from a column on moved (`InsertedCharsIs`,
`DeletedCharsIs`), where the point is the order: @ goes from the right and P from the
left, so that no cell is overwritten before it has been copied.

**FbQueueProofs**, from `FbCellsAssumption`, `FbQueueAssumption`.

- `TypeCorrect`, `ItemsSound`, `QueueFits`: TypeOK, OneItemPerCell, QueueInBounds,
  whatever the number of calls between two flushes and their order. The
  invariant adds the loops' indices (`LoopOK`) and `Linked`: outside a flush, map
  leads from each item's cell to that item. QueueInBounds then is the pigeonhole
  principle (`ItemsFitCells`).
- `ImplementsScreen`: that FbQueue implements FbScreen. The invariant `Shows` says what
  each loop has done to the cells it has passed (`LoopShows`, `PutShows`), for which the
  rows of a scroll are turned into ranges of cells (`ScrolledCell`, `RevScrolledCell`);
  that the screen at the begin of a call is remembered (`Remembered`); and that the
  framebuffer shows the grid, with no cursor but the last one drawn (`Framed`). The begin
  of a call and the rounds of its loop are then stutters, and its last step is the
  step of FbScreen.

**EscapeParserProofs**, for every size of the parameter array.

- `ValuesFit`, `PrivateRead`, `TypeCorrect`: ValuesInBounds, PrivateAsWritten, TypeOK.
- `ImplementsGrammar`: EscapeParser implements EscapeGrammar. The invariant is
  `OneMode`, which combinations of flags occur, with ranges for the counters and
  where `dec_private` comes from (`PrivateInv`); each byte's action is then shown to
  be an action of the grammar for the same byte. The grammar has the ends of control
  sequences as the code has them, and not as its comments do (escape_end).

**SgrProofs**, for every palette.

- `ColoursHold`: ColoursAsSelected. It needs that the saved colours are those the saved
  flags say (`SavedAsSelected`), since ESC 8 brings both back.
- `ImplementsPen`: that Sgr implements Pen: turning the colours back makes every
  parameter a change of one side.

**Only model-checked.** The liveness properties: BootEnds, KeysAnswered and CommandEnds
stay with TLC, because liveness under fairness is beyond the prover. Every invariant and
every action property of a passing run is proved, three of them under the hypothesis named
above: DirectoryReachable, SizeMatchesText and EditsExact. DataInDataArea, InitMakesIsl,
RestartsOrEnds, and DirectoryReachable with any high word, are false, as their runs show.

## What the code does that its documentation does not say

Shown by runs that end in a violation:

- **fat32_isl_init.** `fat_create_file` looks for the .txt file of a stem first, whatever
  it was asked for (fat32.c:174), and overwrites what it finds: after `create a`, `isl
  init a` replaces the text of a.txt, and there is no a.isl, the file README.md:20 says it
  creates.
- **escape_end.** ESC in a control sequence only returns (flanterm.c:571) where the comment
  says "start a new one", and a byte of 0x40 to 0x7E without a case does not end the
  sequence but makes it one that is skipped (811), where the comment at 558 says that it
  ends there. After `ESC [ ESC [` the parser skips the parameters of the second sequence.
- **fat32_full.** `fat_find_free_cluster` returns 0 when the first FAT sector has no
  free entry, and neither caller tests for it: data is written two clusters below
  the "data starting point" (fat32.c:19), in the last copy of the FAT.
- **fat32_high_word.** An entry made in the slot of a deleted one keeps its high cluster
  word (fat32.c:249 writes only the low one), and `cd`, which "changes the current
  directory to the specified folder" (README.md:9), goes elsewhere. This needs a
  host that deleted an entry whose cluster was above 65535.

Named as exceptions in the properties, and part of the models:

- Enter as the first key after boot reads through a NULL pointer, and F1 in the editor
  through an argument it was not given (HaltsOnlySo);
- overwriting a file leaves the second byte of its old length, and the length of a text
  above 512 bytes is that of more than the sector holds (SizeMatchesText);
- a lone `;` gives no prompt; a script that runs a script gets prompts in between
  (OnePrompt); a `;` loop never ends (CommandEnds);
- after one `cd ..` the prompt can show names of folders left before
  (PromptNamesDirectory);
- CSI B from the row just below the scrolling region moves up into it
  (MotionStaysInRegion); J, K and X with the cursor behind the end of the line
  erase from the next line on (EditsExact); the cursor leaves the screen below a
  region that ends above the last row (CursorLeavesOnlySo); CSI d and G with 0 go
  to the last row or column (`Position`);
- in reverse video 1, 5, 22 and 25 on a default colour take the other side's default; 38
  and 48 ignore reverse video and are forgotten by the next 1, 5, 22 or 25; ESC c
  forgets the flags and keeps the colours (ColoursAsSelected). ESC 8 without ESC 7
  brings back zeros, black on black;
- a key that writes before `command_buf` exists stops the kernel, and so do Enter on a
  first line without a word and a buffer that malloc had no page for (StopsOnlySo); a key while kmain zeroes the line can stay
  in it (PromptClean);
- an absent drive makes `write_ata` wait for ever, and one that reports an error makes
  either call do so before the words; an error after them is lost (BootEnds,
  KeysAnswered, `Disk`'s Fail).

Seen while modelling, and in the models without a property of their own:

- `argv` keeps pointers of longer lines, and the handlers test these and not `argc`;
- the text the editor saves ends with what an earlier, longer one left in `doc_buf`;
- kmain never looks at `bpp`; the scale of the font is chosen for the whole screen and
  used for its limited part; nothing tests for a NULL context;
- `write_ata` sends no FLUSH CACHE, and a sector's number is cut to 28 bits;
- `inw` has no declaration where `read_ata` calls it and returns an `unsigned char`: the
  16 bits arrive because the compiler leaves them in the register.

## What is not modelled

- **Output within output.** During boot a key's handler can write to the terminal in the
  middle of kmain's own output, for instance between `queue_i++` and the assignment
  that uses it (fb.c:721). `FbQueue` has calls that do not overlap, which is so once
  kmain has come to its end. `Boot` has the interrupt there, but not what it does to
  the queue.
- **Before load_idt and without a screen.** A key pending from the boot loader, and the
  early exits of kmain when the boot loader reports no framebuffer.
- **The drive's cache.** A sector that the drive has stored is durable.
- **An unformatted disk**, on which fat32_init leaves the geometry zero.
- **Memory behind named buffers**: strcpy into `filename` and into the script's frame,
  array indices outside `keyboard`.
- **What is printed**, other than prompts: help, dir, read, the banner.
- **Changing the palette, character sets, private modes, callbacks** of flanterm; the
  back end's canvas, rotation and fonts of other sizes, which SealOS never asks for;
  the conversion of colours to the framebuffer's masks; deinitialisation.
- **Build, boot loader configuration, disk formatting**: run on the host. The glyphs of
  the font are data.

## Plan

Done, in this order: Fat32 with its proofs, PageAlloc with its proofs, Shell, FbQueue
with its refinement, Terminal, EscapeParser with its refinement and proofs; then Sgr,
FbInit, Ata and Boot with theirs, the rest of Fat32's properties proved, the proof
that FbQueue implements FbScreen, and the proofs about Shell and Terminal.

Next, in order of what they add:

1. FbQueue with a second call that interrupts the first, as keys do during boot: which
   of its promises survive.
2. Shell composed with Fat32: scripts read from files that commands of the same script
   have changed, what the editor saves, cd and the prompt.
3. The private modes and character sets of flanterm, and saving a cursor as such.
