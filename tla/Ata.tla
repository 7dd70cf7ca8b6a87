-------------------------------- MODULE Ata --------------------------------
(***************************************************************************)
(* The disk driver (kernel/src/drivers/ata.c) and the drive behind the     *)
(* ports 0x1F0 to 0x1F7, which is external: two processes that meet in the *)
(* status register.                                                        *)
(*                                                                         *)
(* A step of the driver is one poll of the status, one word, or the        *)
(* registers of one command: the drive looks at these only when the        *)
(* command is written, last.  A polling loop is its exit: a poll that      *)
(* finds nothing changes nothing.                                          *)
(***************************************************************************)
EXTENDS Integers, Sequences

CONSTANTS
  DriveKinds,   \* subset of {"good", "failing", "absent"}
  Words,        \* 256 of a sector
  Lbas,         \* what the callers ask for
  Addressable,  \* 2^28: the sectors four registers can name
  Contents      \* of a sector: 2 * Words bytes

Bytes   == 0..255
Content == [1..(2 * Words) -> Bytes]
DiskBuffers == {"disk_buffer", "map_buffer", "dir_buffer"}

ASSUME DriveKindsAssumption == DriveKinds \subseteq {"good", "failing", "absent"}
ASSUME WordsAssumption == Words \in Nat \ {0}
ASSUME AddressableAssumption == Addressable \in Nat \ {0} /\ Lbas \subseteq Int
ASSUME ContentsAssumption == Contents \subseteq Content

VARIABLES
  drive,                  \* its kind
  status, moved, latch,   \* the status register, the words moved, the drive's buffer
  command,                \* the last command and the sector in the registers
  medium,                 \* what the drive keeps
  ata_at, ata_i,          \* where the driver is
  call,                   \* its arguments
  msg, buffer,            \* the driver's buffers
  before                  \* history: the buffer a read began with

driverVars == <<ata_at, ata_i, call, msg, buffer, before>>
driveVars  == <<status, moved, latch, command, medium>>
ataVars    == <<drive, driveVars, driverVars>>

Sent(lba) == lba % Addressable
AtaSectors == {Sent(l) : l \in Lbas}

Busy  == drive = "absent" \/ "BSY" \in status
Ready == drive = "absent" \/ "DRQ" \in status     \* 0xFF has every bit

Blank == [b \in 1..(2 * Words) |-> 0]
NoCall == [op |-> "none"]

AtaInit ==
  /\ drive \in DriveKinds
  /\ status = {} /\ moved = 0 /\ latch = Blank /\ command = [op |-> "none", sector |-> 0]
  /\ medium \in [AtaSectors -> Contents]
  /\ ata_at = "idle" /\ ata_i = 0 /\ call = NoCall
  /\ msg = Blank /\ buffer = [b \in DiskBuffers |-> Blank] /\ before = Blank

-----------------------------------------------------------------------------
(* The driver.                                                             *)

CallRead(lba, b) ==
  /\ ata_at = "idle"
  /\ call' = [op |-> "read", lba |-> lba, buffer |-> b]
  /\ before' = buffer[b]
  /\ ata_at' = "probe"
  /\ UNCHANGED <<drive, driveVars, ata_i, msg, buffer>>

CallWrite(lba, data) ==
  /\ ata_at = "idle"
  /\ call' = [op |-> "write", lba |-> lba, data |-> data]
  /\ ata_at' = "wait"
  /\ UNCHANGED <<drive, driveVars, ata_i, msg, buffer, before>>

\* Mutant: read_ata does not look for a drive either.
Probe_Never ==
  /\ ata_at = "probe"
  /\ ata_at' = "wait"
  /\ UNCHANGED <<drive, driveVars, ata_i, call, msg, buffer, before>>

\* read_ata returns when there is no drive; write_ata does not look.
Probe ==
  /\ ata_at = "probe"
  /\ \/ drive = "absent" /\ ata_at' = "idle" /\ call' = NoCall
     \/ drive # "absent" /\ ata_at' = "wait" /\ UNCHANGED call
  /\ UNCHANGED <<drive, driveVars, ata_i, msg, buffer, before>>

\* The drive is busy from the command on, whatever an earlier one left in status.
Issue ==
  /\ ata_at = "wait" /\ ~Busy
  /\ msg' = IF call.op = "write" THEN call.data ELSE msg
  /\ command' = [op |-> call.op, sector |-> Sent(call.lba)]
  /\ status' = {"BSY"} /\ moved' = 0
  /\ ata_at' = "poll" /\ ata_i' = 0
  /\ UNCHANGED <<drive, latch, medium, call, buffer, before>>

\* Nothing looks at ERR.
Poll ==
  /\ ata_at = "poll" /\ Ready
  /\ ata_at' = "transfer"
  /\ UNCHANGED <<drive, driveVars, ata_i, call, msg, buffer, before>>

\* The two bytes of word i, the low one first.
PutWord(s, i, low, high) == [s EXCEPT ![2 * i + 1] = low, ![2 * i + 2] = high]

\* Mutant: the bytes of a word are swapped.
WordIn_Swapped ==
  /\ ata_at = "transfer" /\ call.op = "read" /\ ata_i < Words
  /\ buffer' = [buffer EXCEPT ![call.buffer] =
                  PutWord(@, ata_i, latch[2 * moved + 2], latch[2 * moved + 1])]
  /\ ata_i' = ata_i + 1 /\ moved' = moved + 1
  /\ status' = IF moved + 1 = Words THEN {} ELSE status
  /\ UNCHANGED <<drive, latch, command, medium, ata_at, call, msg, before>>

\* inw hands on all 16 bits: gcc leaves them in the register, whatever the
\* type it returns.  The drive takes DRQ back with the last word.
WordIn ==
  /\ ata_at = "transfer" /\ call.op = "read" /\ ata_i < Words
  /\ buffer' = [buffer EXCEPT ![call.buffer] =
                  PutWord(@, ata_i, latch[2 * moved + 1], latch[2 * moved + 2])]
  /\ ata_i' = ata_i + 1 /\ moved' = moved + 1
  /\ status' = IF moved + 1 = Words THEN {} ELSE status
  /\ UNCHANGED <<drive, latch, command, medium, ata_at, call, msg, before>>

WordOut ==
  /\ ata_at = "transfer" /\ call.op = "write" /\ ata_i < Words
  /\ latch' = PutWord(latch, moved, msg[2 * ata_i + 1], msg[2 * ata_i + 2])
  /\ ata_i' = ata_i + 1 /\ moved' = moved + 1
  /\ status' = IF moved + 1 = Words THEN {"BSY"} ELSE status
  /\ UNCHANGED <<drive, command, medium, ata_at, call, msg, buffer, before>>

\* Mutant: a write returns as soon as the last word is out.
Return_Early ==
  /\ ata_at = "transfer" /\ ata_i = Words
  /\ ata_at' = "idle" /\ call' = NoCall
  /\ UNCHANGED <<drive, driveVars, ata_i, msg, buffer, before>>

\* Mutant: a write waits for the drive to ask for more.
Return_Ready ==
  /\ ata_at = "transfer" /\ ata_i = Words
  /\ call.op = "write" => Ready
  /\ ata_at' = "idle" /\ call' = NoCall
  /\ UNCHANGED <<drive, driveVars, ata_i, msg, buffer, before>>

\* A read returns with the last word, a write when the drive is no longer busy.
Return ==
  /\ ata_at = "transfer" /\ ata_i = Words
  /\ call.op = "write" => ~Busy
  /\ ata_at' = "idle" /\ call' = NoCall
  /\ UNCHANGED <<drive, driveVars, ata_i, msg, buffer, before>>

Driver == Probe \/ Issue \/ Poll \/ WordIn \/ WordOut \/ Return

-----------------------------------------------------------------------------
(* The drive.                                                              *)

Commanded == "BSY" \in status /\ moved = 0

ServeRead ==
  /\ Commanded /\ command.op = "read"
  /\ latch' = medium[command.sector] /\ status' = {"DRQ"}
  /\ UNCHANGED <<drive, moved, command, medium, driverVars>>

ServeWrite ==
  /\ Commanded /\ command.op = "write"
  /\ status' = {"DRQ"}
  /\ UNCHANGED <<drive, moved, latch, command, medium, driverVars>>

Store ==
  /\ "BSY" \in status /\ moved = Words
  /\ medium' = [medium EXCEPT ![command.sector] = latch] /\ status' = {}
  /\ UNCHANGED <<drive, moved, latch, command, driverVars>>

\* A bad sector, before the transfer or after it.
Refuse ==
  /\ drive = "failing" /\ "BSY" \in status
  /\ status' = {"ERR"}
  /\ UNCHANGED <<drive, moved, latch, command, medium, driverVars>>

Drive == ServeRead \/ ServeWrite \/ Store \/ Refuse

AtaNext ==
  \/ \E l \in Lbas, b \in DiskBuffers : CallRead(l, b)
  \/ \E l \in Lbas, c \in Contents : CallWrite(l, c)
  \/ Driver \/ Drive

AtaSpec == AtaInit /\ [][AtaNext]_ataVars

-----------------------------------------------------------------------------
AtaTypeOK ==
  /\ drive \in DriveKinds /\ status \subseteq {"BSY", "DRQ", "ERR"}
  /\ moved \in 0..Words /\ latch \in Content
  /\ command \in [op : {"none", "read", "write"}, sector : AtaSectors \cup {0}]
  /\ medium \in [AtaSectors -> Contents]
  /\ ata_at \in {"idle", "probe", "wait", "poll", "transfer"} /\ ata_i \in 0..Words
  /\ call \in {NoCall} \cup [op : {"read"}, lba : Lbas, buffer : DiskBuffers]
                       \cup [op : {"write"}, lba : Lbas, data : Contents]
  /\ msg \in Content /\ buffer \in [DiskBuffers -> Content] /\ before \in Content

\* The driver touches the data port only while the drive asks for words, and
\* both are at the same word; and no call begins before the drive is done with
\* the one before.
InStep ==
  /\ ata_at = "transfer" => ata_i = moved
  /\ ata_at = "transfer" /\ ata_i < Words => status = {"DRQ"}
  /\ ata_at = "idle" => status \subseteq {"ERR"}

\* What the callers see.  A read's buffer is filled when it returns; a write is
\* done when the drive has stored it.
SeenBuffers ==
  IF ata_at = "transfer" /\ call.op = "read" THEN [buffer EXCEPT ![call.buffer] = before]
  ELSE buffer

Stored == ata_at = "transfer" /\ call.op = "write" /\ ata_i = Words /\ "BSY" \notin status

SeenCall ==
  IF call.op = "none" \/ Stored THEN NoCall
  ELSE IF call.op = "read" THEN [op |-> "read", sector |-> Sent(call.lba), buffer |-> call.buffer]
  ELSE [op |-> "write", sector |-> Sent(call.lba), data |-> call.data]

AbstractDisk == INSTANCE Disk WITH
  Sectors <- AtaSectors, Contents <- Content, Buffers <- DiskBuffers,
  sectors <- medium, buffers <- SeenBuffers, request <- SeenCall,
  reliable <- drive = "good"

\* However driver and drive interleave, a call moves the whole sector that was
\* asked for, low byte first, between the disk and the buffer that was named,
\* and nothing else changes.
MovesSectors == AbstractDisk!Spec
=============================================================================
