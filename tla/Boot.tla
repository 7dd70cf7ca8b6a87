-------------------------------- MODULE Boot --------------------------------
(***************************************************************************)
(* SealOS from kmain's first line to the prompt, and the keyboard that     *)
(* load_idt lets in on the way (kernel/src/main.c, idt/idt.c,              *)
(* idt/Interrupts.S).  It composes the parts kmain calls: FbInit, the disk *)
(* driver of Ata for fat32_init, PageAlloc for bitmap_init and malloc.     *)
(*                                                                         *)
(* The gates are interrupt gates: kmain and everything it calls can be     *)
(* interrupted between any two steps, a handler cannot.  A handler is      *)
(* entered, leaves by one of handle_keyboard's ways out, and waits for the *)
(* drive in between if its command uses the disk.  What commands do, and   *)
(* how they stop the kernel, is Shell; here they end with cmd_cleanup.     *)
(***************************************************************************)
EXTENDS PageAlloc, FbInit, Ata

CONSTANTS
  Machines,   \* [memmap, fb, drive, medium, keys]: what SealOS can find, and how
              \* many keys will be struck
  LineCells   \* 100: the bytes cmd_cleanup zeroes

Machine ==
  [memmap : MemMaps, fb : Framebuffers, drive : DriveKinds,
   medium : [AtaSectors -> Contents], keys : Nat]

ASSUME MachinesAssumption == Machines \subseteq Machine
ASSUME BootSectorAssumption == 0 \in Lbas
ASSUME LineCellsAssumption == LineCells \in Nat \ {0}

VARIABLES
  k_at,          \* where kmain is
  bps,           \* what fat32_init found; 0: no volume
  idt, unmasked, enabled,  \* the table, IRQ 1 in the PIC, the interrupt flag
  in_service,    \* IRQ 1 waits for its end-of-interrupt
  key, keys,     \* in the keyboard's port, and yet to come
  irq_at,        \* "none", the key the handler is at, or "disk" or "save" while
                 \* a command or F1 waits for the drive
  line, cursor_pos, cleared,  \* command_buf, and where kmain's cmd_cleanup is in it
  argv0,         \* argv[0] is set
  editor_mode,
  early,         \* history: a key changed the line before the prompt
  dead           \* "no", "panic", "reset" (a fault without a table), "clash",
                 \* "command": a command has stopped the kernel

irqVars  == <<idt, unmasked, enabled, in_service>>
lineVars == <<line, cursor_pos, argv0, editor_mode, early>>
bootVars == <<k_at, bps, irqVars, key, keys, irq_at, lineVars, cleared, dead>>
all == <<bootVars, vars, fbVars, ataVars>>

Keys == {"release", "letter", "backspace", "f1", "enter"}

BootInit ==
  /\ \E m \in Machines :
       /\ memmap = m.memmap /\ FbStart(m.fb) /\ drive = m.drive /\ medium = m.medium
       /\ keys = m.keys
  /\ Init /\ AtaInit
  /\ k_at = "screen" /\ bps = 0
  /\ idt = "none" /\ unmasked = FALSE /\ enabled = FALSE /\ in_service = FALSE
  /\ key = "none" /\ irq_at = "none"
  /\ line = [c \in 1..LineCells |-> "junk"] /\ cursor_pos = 0 /\ cleared = 0
  /\ argv0 = FALSE /\ editor_mode = FALSE /\ early = FALSE /\ dead = "no"

-----------------------------------------------------------------------------
(* kmain.  Its own steps leave the parts alone but the one that is called. *)

Kmain(here) == k_at = here /\ irq_at = "none" /\ dead = "no"

Screen ==
  /\ Kmain("screen") /\ FbNext
  /\ UNCHANGED <<bootVars, vars, ataVars>>

\* output with what flanterm_fb_init returned: NULL faults, and there is no table.
Colour ==
  /\ Kmain("screen")
  /\ \/ fb_at = "done" /\ k_at' = "remap" /\ UNCHANGED dead
     \/ fb_at = "null" /\ dead' = "reset" /\ UNCHANGED k_at
  /\ UNCHANGED <<bps, irqVars, key, keys, irq_at, lineVars, cleared, vars, fbVars, ataVars>>

\* remap_pic masks all; then IRQ 1 is unmasked, the table loaded and then filled.
LoadIdt ==
  /\ \/ /\ Kmain("remap") /\ unmasked' = FALSE /\ k_at' = "unmask"
        /\ UNCHANGED <<idt, enabled>>
     \/ /\ Kmain("unmask") /\ unmasked' = TRUE /\ k_at' = "lidt"
        /\ UNCHANGED <<idt, enabled>>
     \/ /\ Kmain("lidt") /\ idt' = "empty" /\ k_at' = "gates"
        /\ UNCHANGED <<unmasked, enabled>>
     \/ /\ Kmain("gates") /\ idt' = "filled" /\ k_at' = "sti"
        /\ UNCHANGED <<unmasked, enabled>>
     \/ /\ Kmain("sti") /\ enabled' = TRUE /\ k_at' = "read"
        /\ UNCHANGED <<idt, unmasked>>
  /\ UNCHANGED <<bps, in_service, key, keys, irq_at, lineVars, cleared, dead, vars, fbVars, ataVars>>

\* fat32_init reads the first sector and takes the geometry out of disk_buffer,
\* which is still zero when there is no drive.
ReadBootSector ==
  /\ Kmain("read") /\ CallRead(0, "disk_buffer")
  /\ k_at' = "disk"
  /\ UNCHANGED <<bps, irqVars, key, keys, irq_at, lineVars, cleared, dead, vars, fbVars>>

\* Mutant: the geometry is taken before the sector has been read.
Mount_NoWait ==
  /\ Kmain("disk")
  /\ bps' = buffer["disk_buffer"][1] + 256 * buffer["disk_buffer"][2]
  /\ k_at' = "bitmap"
  /\ UNCHANGED <<irqVars, key, keys, irq_at, lineVars, cleared, dead, vars, fbVars, ataVars>>

Mount ==
  /\ Kmain("disk") /\ ata_at = "idle"
  /\ bps' = buffer["disk_buffer"][1] + 256 * buffer["disk_buffer"][2]
  /\ k_at' = "bitmap"
  /\ UNCHANGED <<irqVars, key, keys, irq_at, lineVars, cleared, dead, vars, fbVars, ataVars>>

BitmapInit ==
  /\ Kmain("bitmap") /\ pc # "ready"
  /\ FindTop \/ SizeBitmap \/ SkipRegion \/ Place \/ ClearRegion \/ Reserve
  /\ UNCHANGED <<bootVars, fbVars, ataVars>>

Banner ==
  /\ Kmain("bitmap") /\ pc = "ready" /\ k_at' = "buffers"
  /\ UNCHANGED <<bps, irqVars, key, keys, irq_at, lineVars, cleared, dead, vars, fbVars, ataVars>>

TakeBuffers ==
  /\ Kmain("buffers") /\ (Malloc \/ MallocRunsOff)
  /\ UNCHANGED <<bootVars, fbVars, ataVars>>

\* A pointer malloc has given that leads to no memory of the map.
Stray(b) == b \in wild \/ \E h \in handed : h[1] = b /\ ~Usable(h[2])

\* cmd_cleanup zeroes command_buf and, out of the root, shows folder_name.
CleanupFaults ==
  \/ Kmain("buffers") /\ next > Len(Buffers) /\ Stray("command_buf")
  \/ Kmain("prompt") /\ argv0 /\ Stray("folder_name")

\* Mutant: the last byte is not zeroed.
Cleanup_Short ==
  /\ \/ /\ Kmain("buffers") /\ next > Len(Buffers) /\ cleared < LineCells - 1
        /\ line' = [line EXCEPT ![cleared + 1] = "zero"] /\ cleared' = cleared + 1
        /\ UNCHANGED <<k_at, cursor_pos, dead>>
     \/ /\ Kmain("buffers") /\ cleared = LineCells - 1
        /\ cursor_pos' = 0 /\ k_at' = "prompt"
        /\ UNCHANGED <<line, cleared, dead>>
     \/ /\ Kmain("prompt") /\ k_at' = "halt"
        /\ UNCHANGED <<line, cursor_pos, cleared, dead>>
     \/ /\ CleanupFaults
        /\ dead' = "panic"
        /\ UNCHANGED <<k_at, line, cursor_pos, cleared>>
  /\ UNCHANGED <<bps, irqVars, key, keys, irq_at, argv0, editor_mode, early,
                 vars, fbVars, ataVars>>

\* kmain's call of cmd_cleanup, a byte at a time: a key can come in between.
Cleanup ==
  /\ \/ /\ Kmain("buffers") /\ next > Len(Buffers) /\ cleared < LineCells
        /\ line' = [line EXCEPT ![cleared + 1] = "zero"] /\ cleared' = cleared + 1
        /\ UNCHANGED <<k_at, cursor_pos, dead>>
     \/ /\ Kmain("buffers") /\ cleared = LineCells
        /\ cursor_pos' = 0 /\ k_at' = "prompt"
        /\ UNCHANGED <<line, cleared, dead>>
     \/ /\ Kmain("prompt") /\ k_at' = "halt"
        /\ UNCHANGED <<line, cursor_pos, cleared, dead>>
     \/ /\ CleanupFaults
        /\ dead' = "panic"
        /\ UNCHANGED <<k_at, line, cursor_pos, cleared>>
  /\ UNCHANGED <<bps, irqVars, key, keys, irq_at, argv0, editor_mode, early,
                 vars, fbVars, ataVars>>

KmainStep ==
  \/ Screen \/ Colour \/ LoadIdt \/ ReadBootSector \/ Mount
  \/ BitmapInit \/ Banner \/ TakeBuffers \/ Cleanup

-----------------------------------------------------------------------------
(* The keyboard.                                                           *)

Strike ==
  /\ keys > 0 /\ key = "none" /\ unmasked
  /\ key' \in Keys /\ keys' = keys - 1
  /\ UNCHANGED <<k_at, bps, irqVars, irq_at, lineVars, cleared, dead, vars, fbVars, ataVars>>

\* Mutant: command_buf is an array of the kernel, there from the start.
NoBuffer_Static == FALSE

\* A pointer is NULL until malloc has returned for it.
NoBuffer == next = 1

NoDocument == next <= 2

\* Of the line up to its end: it has no word, or junk may have none; it has one.
Wordless ==
  \E c \in 1..LineCells : line[c] = "zero" /\ \A d \in 1..(c - 1) : line[d] \in {"blank", "junk"}
Worded ==
  \E c \in 1..LineCells : line[c] \in {"key", "junk"} /\ \A d \in 1..(c - 1) : line[d] # "zero"

\* An interrupt.  The gate turns the flag off; without a table there is a fault.
\* handle_keyboard takes the key out of the port.
Taken ==
  /\ key # "none" /\ enabled /\ unmasked /\ ~in_service /\ dead = "no"
  /\ IF idt = "filled"
     THEN /\ irq_at' = key /\ key' = "none" /\ enabled' = FALSE /\ in_service' = TRUE
          /\ UNCHANGED dead
     ELSE dead' = "reset" /\ UNCHANGED <<irq_at, key, enabled, in_service>>
  /\ UNCHANGED <<k_at, bps, idt, unmasked, keys, lineVars, cleared, vars, fbVars, ataVars>>

Handler(here) == irq_at = here /\ dead = "no"
Frame == UNCHANGED <<k_at, bps, idt, unmasked, key, keys, cleared, vars, fbVars>>

\* A way out: each has an end-of-interrupt of its own, all the iretq.
Eoi  == in_service' = FALSE
Iret == irq_at' = "none" /\ enabled' = TRUE /\ UNCHANGED dead

Stops(how) == dead' = how /\ UNCHANGED <<irq_at, enabled, in_service>>
Panic == Stops("panic") /\ UNCHANGED <<lineVars, ataVars>>

Early == early' = (early \/ k_at = "buffers")

Release ==
  /\ Handler("release")
  /\ Eoi /\ Iret
  /\ UNCHANGED <<lineVars, ataVars>> /\ Frame

Put(n, c) == IF n \in 1..LineCells THEN [line EXCEPT ![n] = c] ELSE line

LineFaults == NoBuffer \/ Stray("command_buf")

\* At the start of the line it is the byte before the page that is written.
Erase ==
  /\ line' = Put(cursor_pos, "blank") /\ cursor_pos' = cursor_pos - 1 /\ Early
  /\ UNCHANGED <<argv0, editor_mode, ataVars>>

\* Also in the editor it is command_buf that is written.
EditBackspace ==
  /\ Handler("backspace") /\ editor_mode
  /\ \/ LineFaults /\ Panic
     \/ ~NoBuffer /\ Erase /\ Eoi /\ Iret
  /\ Frame

Backspace ==
  /\ Handler("backspace") /\ ~editor_mode
  /\ \/ LineFaults /\ Panic
     \/ ~NoBuffer /\ Erase /\ Eoi /\ Iret
  /\ Frame

\* In the editor Enter is a letter as well.
EditLetter ==
  /\ Handler("letter") \/ Handler("enter")
  /\ editor_mode
  /\ \/ (NoDocument \/ Stray("doc_buf")) /\ Panic
     \/ /\ ~NoDocument /\ cursor_pos' = cursor_pos + 1 /\ Early
        /\ UNCHANGED <<line, argv0, editor_mode, ataVars>>
        /\ Eoi /\ Iret
  /\ Frame

\* Mutant: the last way out of handle_keyboard has no end-of-interrupt.
Letter_NoEoi ==
  /\ Handler("letter") /\ ~editor_mode
  /\ \/ LineFaults /\ Panic
     \/ /\ ~NoBuffer /\ Early
        /\ line' = Put(cursor_pos + 1, "key") /\ cursor_pos' = cursor_pos + 1
        /\ UNCHANGED <<argv0, editor_mode, ataVars>>
        /\ UNCHANGED in_service /\ Iret
  /\ Frame

Letter ==
  /\ Handler("letter") /\ ~editor_mode
  /\ \/ LineFaults /\ Panic
     \/ /\ ~NoBuffer /\ Early
        /\ line' = Put(cursor_pos + 1, "key") /\ cursor_pos' = cursor_pos + 1
        /\ UNCHANGED <<argv0, editor_mode, ataVars>>
        /\ Eoi /\ Iret
  /\ Frame

F1 ==
  /\ Handler("f1") /\ ~editor_mode
  /\ Eoi /\ Iret
  /\ UNCHANGED <<lineVars, ataVars>> /\ Frame

CleanLine == line' = [c \in 1..LineCells |-> "zero"] /\ cursor_pos' = 0 /\ Early

DiskCall ==
  \/ \E l \in Lbas, b \in DiskBuffers : CallRead(l, b)
  \/ \E l \in Lbas, c \in Contents : CallWrite(l, c)

\* The handler is in the driver, interrupts off.
CallDisk(for) ==
  IF ata_at = "idle" THEN DiskCall /\ irq_at' = for /\ UNCHANGED dead
  ELSE dead' = "clash" /\ UNCHANGED <<irq_at, ataVars>>

\* F1 in the editor.
Save ==
  /\ Handler("f1") /\ editor_mode
  /\ editor_mode' = FALSE /\ CallDisk("save")
  /\ UNCHANGED <<enabled, in_service, line, cursor_pos, argv0, early>> /\ Frame

Saved ==
  /\ Handler("save") /\ ata_at = "idle"
  /\ CleanLine /\ Eoi /\ Iret
  /\ UNCHANGED <<argv0, editor_mode, ataVars>> /\ Frame

\* exec without a line, or without a word: then strcmp reads argv[0].
EnterNothing ==
  /\ Handler("enter") /\ ~editor_mode
  /\ LineFaults \/ (~argv0 /\ Wordless)
  /\ Panic /\ Frame

\* A word, or what was the last one.
Command == Handler("enter") /\ ~editor_mode /\ ~NoBuffer /\ (Worded \/ argv0)

\* A command that does not use the disk; it may be edit.
Enter ==
  /\ Command /\ argv0' = TRUE /\ editor_mode' \in BOOLEAN
  /\ CleanLine /\ Eoi /\ Iret
  /\ UNCHANGED ataVars /\ Frame

\* A command that does.
EnterDisk ==
  /\ Command /\ argv0' = TRUE /\ CallDisk("disk")
  /\ UNCHANGED <<enabled, in_service, line, cursor_pos, editor_mode, early>> /\ Frame

\* It may have been a script with edit in it.
LeaveDisk ==
  /\ Handler("disk") /\ ata_at = "idle"
  /\ editor_mode' \in BOOLEAN
  /\ CleanLine /\ Eoi /\ Iret
  /\ UNCHANGED <<argv0, ataVars>> /\ Frame

\* reboot, and what faults in a command: a missing extension, script or folder_name.
CommandStops ==
  /\ Command \/ (Handler("disk") /\ ata_at = "idle") \/ (Handler("save") /\ ata_at = "idle")
  /\ Stops("command") /\ argv0' = TRUE
  /\ UNCHANGED <<line, cursor_pos, editor_mode, early, ataVars>> /\ Frame

Interrupt ==
  \/ Taken \/ Release \/ EditBackspace \/ Save \/ Saved \/ EditLetter
  \/ EnterNothing \/ Enter \/ EnterDisk \/ LeaveDisk \/ CommandStops
  \/ Backspace \/ F1 \/ Letter

-----------------------------------------------------------------------------
\* The driver runs in kmain, or in the handler.
InDriver ==
  /\ Kmain("disk") \/ Handler("disk") \/ Handler("save")
  /\ Driver
  /\ UNCHANGED <<bootVars, vars, fbVars>>

InDrive == Drive /\ UNCHANGED <<bootVars, vars, fbVars>>

\* Writes in the buffers, apart from those above.
InBuffers == WriteBuffer /\ UNCHANGED <<bootVars, fbVars, ataVars>>

BootNext == KmainStep \/ Strike \/ Interrupt \/ InDriver \/ InDrive \/ InBuffers

\* The processor runs, an interrupt is taken in the end, and a good drive answers.
BootFairness ==
  /\ WF_all(KmainStep) /\ WF_all(Interrupt) /\ WF_all(InDriver)
  /\ WF_all((ServeRead \/ ServeWrite \/ Store) /\ UNCHANGED <<bootVars, vars, fbVars>>)

BootSpec == BootInit /\ [][BootNext]_all /\ BootFairness

-----------------------------------------------------------------------------
Uint16 == {n \in Nat : n < 65536}

BootTypeOK ==
  /\ k_at \in {"screen", "remap", "unmask", "lidt", "gates", "sti", "read", "disk",
               "bitmap", "buffers", "prompt", "halt"}
  /\ bps \in Uint16
  /\ idt \in {"none", "empty", "filled"}
  /\ unmasked \in BOOLEAN /\ enabled \in BOOLEAN /\ in_service \in BOOLEAN
  /\ key \in Keys \cup {"none"} /\ keys \in Nat
  /\ irq_at \in Keys \cup {"none", "disk", "save"}
  /\ line \in [1..LineCells -> {"junk", "zero", "key", "blank"}]
  /\ cursor_pos \in Int /\ cleared \in 0..LineCells
  /\ argv0 \in BOOLEAN /\ editor_mode \in BOOLEAN /\ early \in BOOLEAN
  /\ dead \in {"no", "panic", "reset", "clash", "command"}

\* Commands apart, the kernel stops only so: it cannot draw; a key that writes comes
\* before there is a buffer for it, or its buffer is one malloc had no page for; or
\* Enter, before the first command, finds no word in the line.  No interrupt finds
\* the table unfilled, and no key's command or save enters the disk driver while
\* kmain is in it, although the handler can run at any time while fat32_init waits
\* for the drive: such a key comes before command_buf and stops the kernel.
StopsOnlySo ==
  /\ dead # "clash"
  /\ dead = "reset" => fb_at = "null"
  /\ dead = "panic" /\ irq_at = "none" => Stray("command_buf") \/ Stray("folder_name")
  /\ dead = "panic" /\ irq_at # "none" =>
       IF editor_mode
       THEN \/ irq_at = "backspace" /\ Stray("command_buf")
            \/ irq_at \in {"letter", "enter"} /\ (next <= 2 \/ Stray("doc_buf"))
       ELSE \/ irq_at \in {"letter", "backspace", "enter"} /\ (next = 1 \/ Stray("command_buf"))
            \/ irq_at = "enter" /\ ~argv0
  /\ dead = "command" => argv0 /\ irq_at \in {"enter", "disk", "save"}

\* IRQ 1 is in service only while the handler runs, whichever of its ways out it
\* takes; interrupts are off there, and from sti on they are on everywhere else.
Acknowledged ==
  dead = "no" =>
    /\ in_service <=> irq_at # "none"
    /\ enabled => irq_at = "none"
    /\ irq_at = "none" /\ k_at \in {"read", "disk", "bitmap", "buffers", "prompt", "halt"} => enabled

\* fat32_init's geometry is that of the first sector, or none without a drive.
MountsFirstSector ==
  [][k_at = "disk" /\ k_at' = "bitmap" =>
       bps' = IF drive = "absent" THEN 0 ELSE medium[0][1] + 256 * medium[0][2]]_all

\* From the first prompt on nothing but blanks is behind the cursor, unless a key
\* was too early: what Enter executes is what was typed.
PromptClean ==
  k_at \in {"prompt", "halt"} /\ ~early =>
    \A c \in 1..LineCells : c > cursor_pos => line[c] \in {"zero", "blank"}

\* If the drive answers, or there is none and no key calls for it, kmain comes to
\* its end or is stopped.
BootEnds ==
  drive = "good" \/ (drive = "absent" /\ keys = 0) => <>(k_at = "halt" \/ dead # "no")

\* With a good drive a key that is struck is taken, however many were struck before
\* it and wherever kmain is, and its handler comes back, unless the kernel stops.
\* A command without end, a ';' loop, is one of Shell's.
KeysAnswered ==
  /\ (drive = "good" /\ key # "none" ~> key = "none" \/ dead # "no")
  /\ (drive = "good" /\ irq_at # "none" ~> irq_at = "none" \/ dead # "no")
=============================================================================
