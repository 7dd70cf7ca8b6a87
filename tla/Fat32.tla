------------------------------- MODULE Fat32 -------------------------------
(***************************************************************************)
(* The FAT32 driver of SealOS (kernel/src/drivers/fat32.c) and the three   *)
(* commands that move its current directory (cd, cd .., a reboot).         *)
(*                                                                         *)
(* The driver runs inside the keyboard interrupt with interrupts off, so   *)
(* nothing interleaves with it; but every sector it writes is durable on   *)
(* its own, and the machine can stop between two of them.  An operation is *)
(* therefore one action per sector it writes, and Crash is enabled         *)
(* between any two.                                                        *)
(*                                                                         *)
(* A cluster number is the pair <<high word, low word>> in which a         *)
(* directory entry stores it.  fat_find_free_cluster looks only at the     *)
(* first FAT sector, so the clusters it hands out have high word 0 and a   *)
(* low word in 2..LastClus (127 in the code), or are 0 when none is free.  *)
(* A sector is kept under both of the readings the driver has of it: 16    *)
(* directory slots (NSlots here) and a file's text.  Left out are texts    *)
(* that spell a directory entry, for a directory whose making was cut      *)
(* short; behind its end a text is followed by zeros in memory.            *)
(***************************************************************************)
EXTENDS Integers

CONSTANTS
  Names,      \* words typed after create, mkdir, edit, cd, isl init
  Stems,      \* the first eight bytes of a directory entry's name
  FileStem,   \* FileStem[n]: the first 7 bytes of n, padded
  DirStem,    \* DirStem[n]: the first 8 bytes of n, padded
  CdStem,     \* CdStem[n]: what cd looks for, 11 bytes of n, padded
  Dot, DotDot,\* the stems "." and ".."
  Texts,      \* contents a file can be given
  NoText,     \* how the bytes of a sector that is no file read as a text
  TextLen,    \* TextLen[t]: strlen of t
  SectorSize, \* 512: bytes in a sector
  Cut,        \* Cut[t]: the first SectorSize bytes of t
  Byte,       \* 256: size of a byte
  LastClus,   \* 127: the last FAT entry of the first FAT sector
  NSlots,     \* 16: directory entries in a sector
  RootLow,    \* low word of the root directory's cluster
  EditExts,   \* extensions edit's missing argument can stand for
  HighWords,  \* high words found in the entries a host has deleted
  HighUnit,   \* 65536
  ResSect, NumFats, SPF, SPC, \* geometry in the boot sector
  MaxCrashes  \* bound on power cuts

Lows  == 2..LastClus
Slots == 1..NSlots
Exts  == {"txt", "isl", "other", "blank"}

ASSUME NamesAssumption ==
  /\ FileStem \in [Names -> Stems]
  /\ DirStem \in [Names -> Stems]
  /\ CdStem \in [Names -> Stems]
  /\ Dot \in Stems /\ DotDot \in Stems /\ Dot # DotDot

ASSUME TextAssumption ==
  /\ NoText \notin Texts
  /\ TextLen \in [Texts -> Nat]
  /\ Byte \in Nat \ {0}
  /\ SectorSize \in Nat
  /\ Cut \in [Texts -> Texts]
  /\ \A t \in Texts : IF TextLen[t] <= SectorSize THEN Cut[t] = t
                      ELSE TextLen[Cut[t]] = SectorSize

ASSUME VolumeAssumption ==
  /\ LastClus \in Nat /\ NSlots \in Nat /\ NSlots >= 2
  /\ RootLow \in Lows
  /\ EditExts \subseteq {"txt", "isl", "other"}
  /\ HighWords \subseteq Nat /\ 0 \in HighWords
  /\ HighUnit \in Nat /\ HighUnit > LastClus
  /\ MaxCrashes \in Nat

\* The two sectors below data_start that cluster 0 falls on are not the FAT
\* sector the allocator uses.
ASSUME GeometryAssumption ==
  /\ ResSect \in Nat /\ NumFats \in Nat /\ SPF \in Nat /\ SPC \in Nat \ {0}
  /\ NumFats * SPF > 2 * SPC

VARIABLES
  fat,           \* first FAT sector: is cluster <<0, c>> free?
  disk,          \* the clusters' first sectors
  current_clust, \* the current directory
  pc,            \* the sector write the running operation does next
  op,            \* what the running operation has in its locals
  crashes,       \* number of power cuts so far
  rewritten      \* history: directory and slot of the files overwritten since made

vars == <<fat, disk, current_clust, pc, op, crashes, rewritten>>

-----------------------------------------------------------------------------
(* Sectors.                                                                *)

Clusters == HighWords \X ({0} \cup Lows)
Root     == <<0, RootLow>>

map_start  == ResSect
data_start == ResSect + NumFats * SPF
Lba(c)     == data_start + ((c[1] * HighUnit + c[2]) - 2) * SPC

\* The first byte and the attribute byte of a slot, taken together: 0x00,
\* 0xE5, attribute 0x20, attribute 0x10, or the bytes of some text.
Kinds == {"end", "deleted", "file", "dir", "junk"}

Entry == [kind : Kinds, stem : Stems, ext : Exts,
          high : HighWords, low : {0} \cup Lows,
          size0 : 0..(Byte - 1), size1 : 0..(Byte - 1)]

Sector == [slots : [Slots -> Entry], text : Texts \cup {NoText}]

Blank(kind, high) == [kind |-> kind, stem |-> Dot, ext |-> "blank",
                      high |-> high, low |-> 0, size0 |-> 0, size1 |-> 0]

End  == Blank("end", 0)
Junk == Blank("junk", 0)

ZeroSector == [slots |-> [s \in Slots |-> End], text |-> NoText]

\* A cluster written with a file's data, of which it holds one sector, and the
\* directory one reads there: 32 bytes to a slot.
TextSector(t) ==
  [slots |-> [s \in Slots |-> IF (s - 1) * 32 < TextLen[t] THEN Junk ELSE End],
   text  |-> Cut[t]]

DotEntry(stem, low) == [Blank("dir", 0) EXCEPT !.stem = stem, !.low = low]

\* Mutant: the new directory's sector is left zeroed.
NewDirSector_Zero(low) == ZeroSector

\* The first sector of a new directory.
NewDirSector(low) ==
  [slots |-> [s \in Slots |-> IF s = 1 THEN DotEntry(Dot, low)
                              ELSE IF s = 2 THEN DotEntry(DotDot, 0)
                              ELSE End],
   text  |-> NoText]

IsEntry(e) == e.kind \in {"file", "dir"}
IsFree(e)  == e.kind \in {"end", "deleted"}
ClusterOf(e) == <<e.high, e.low>>

-----------------------------------------------------------------------------
(* Look-ups in a directory sector.                                         *)

Matches(e, stem, ext) == IsEntry(e) /\ e.stem = stem /\ e.ext = ext

\* fat_search: s is the first slot before the end mark with that name.
Finds(slots, stem, ext, s) ==
  /\ Matches(slots[s], stem, ext)
  /\ \A j \in 1..(s - 1) : slots[j].kind # "end" /\ ~Matches(slots[j], stem, ext)

\* fat_search fails: no slot before the end mark has that name.
Absent(slots, stem, ext) ==
  \A s \in Slots : Matches(slots[s], stem, ext) => \E j \in 1..(s - 1) : slots[j].kind = "end"

\* Mutant: the loop does not stop at the first free slot.
FirstFreeSlot_Last(slots, s) ==
  /\ IsFree(slots[s])
  /\ \A j \in (s + 1)..NSlots : ~IsFree(slots[j])

\* The slot fat_create_file and fat_create_dir take for a new entry.
FirstFreeSlot(slots, s) ==
  /\ IsFree(slots[s])
  /\ \A j \in 1..(s - 1) : ~IsFree(slots[j])

DirFull(slots) == \A s \in Slots : ~IsFree(slots[s])

\* Mutant: the FAT is scanned from its end.
FirstFreeCluster_Down(c) ==
  \/ /\ c \in Lows /\ fat[c] = "free"
     /\ \A d \in (c + 1)..LastClus : fat[d] # "free"
  \/ c = 0 /\ \A d \in Lows : fat[d] # "free"

\* Mutant: when no entry is free the scan returns the last one.
FirstFreeCluster_Sticky(c) ==
  \/ /\ c \in Lows /\ (fat[c] = "free" \/ c = LastClus)
     /\ \A d \in 2..(c - 1) : fat[d] # "free"

\* fat_find_free_cluster: the first free FAT entry, or 0.
FirstFreeCluster(c) ==
  \/ /\ c \in Lows /\ fat[c] = "free"
     /\ \A d \in 2..(c - 1) : fat[d] # "free"
  \/ c = 0 /\ \A d \in Lows : fat[d] # "free"

CurrentSlots == disk[current_clust].slots

\* Writing the directory buffer back with slot s changed.
WriteSlot(s, e) ==
  disk' = [disk EXCEPT ![current_clust] =
             [slots |-> [@.slots EXCEPT ![s] = e],
              text  |-> IF s = 1 THEN NoText ELSE @.text]]

WriteSector(c, sector) == disk' = [disk EXCEPT ![c] = sector]

-----------------------------------------------------------------------------
PCs == {"idle", "ow_size", "c_entry", "c_data", "m_entry", "m_init"}

Op == [stem : Stems, ext : Exts, text : Texts \cup {NoText},
       low : {0} \cup Lows, slot : Slots]

NoOp == [stem |-> Dot, ext |-> "blank", text |-> NoText, low |-> 0, slot |-> 1]

\* The volume diskformat.sh makes: zeroed sectors and an empty root.  A host
\* may have used it since: some clusters are taken or hold old text, and the
\* root starts with entries that were deleted.  (A free cluster that still holds
\* a host's old directory is left out: a mkdir cut short would bring it back.)
Init ==
  /\ fat \in {f \in [Lows -> {"free", "eoc"}] : f[RootLow] = "eoc"}
  /\ \E k \in 0..NSlots, h \in HighWords, old \in {ZeroSector} \cup {TextSector(t) : t \in Texts} :
       disk = [c \in Clusters |->
                 IF c = Root
                 THEN [ZeroSector EXCEPT !.slots =
                         [s \in Slots |-> IF s <= k THEN Blank("deleted", h) ELSE End]]
                 ELSE IF c[2] # 0 THEN old ELSE ZeroSector]
  /\ current_clust = Root
  /\ pc = "idle"
  /\ op = NoOp
  /\ crashes = 0 /\ rewritten = {}

Finish == pc' = "idle" /\ op' = NoOp

\* fat_create_file(n, t, ext): the extension is "txt" from create and "isl" from
\* isl init; edit passes none, and the three bytes are whatever the pointer left
\* in the register finds.
\*
\* It finds <stem>.txt, or else <stem>.isl, and fat_overwrite_file writes the
\* data to the cluster of that entry...
CreateOverwrite(n, t, ext) ==
  /\ pc = "idle"
  /\ \E s \in Slots :
       /\ \/ Finds(CurrentSlots, FileStem[n], "txt", s)
          \/ /\ Absent(CurrentSlots, FileStem[n], "txt")
             /\ Finds(CurrentSlots, FileStem[n], "isl", s)
       /\ WriteSector(ClusterOf(CurrentSlots[s]), TextSector(t))
       /\ op' = [NoOp EXCEPT !.stem = FileStem[n], !.ext = ext, !.text = t, !.slot = s]
  /\ pc' = "ow_size"
  /\ UNCHANGED <<fat, current_clust, crashes, rewritten>>

\* Mutant: the directory is not written back.
OverwriteSize_Skip ==
  /\ pc = "ow_size"
  /\ Finish
  /\ rewritten' = rewritten \cup {<<current_clust, op.slot>>}
  /\ UNCHANGED <<fat, disk, current_clust, crashes>>

\* ... and then the low byte of its size in the directory, which it reads again.
OverwriteSize ==
  /\ pc = "ow_size"
  /\ WriteSlot(op.slot, [CurrentSlots[op.slot] EXCEPT !.size0 = TextLen[op.text] % Byte])
  /\ rewritten' = rewritten \cup {<<current_clust, op.slot>>}
  /\ Finish
  /\ UNCHANGED <<fat, current_clust, crashes>>

\* Mutant: the FAT sector is not written back.
Alloc_NoMark(o, next) ==
  /\ \E c \in {0} \cup Lows : FirstFreeCluster(c) /\ op' = [o EXCEPT !.low = c]
  /\ pc' = next
  /\ UNCHANGED <<fat, disk, current_clust, crashes, rewritten>>

\* Both create operations take a cluster before they look for a slot.
Alloc(o, next) ==
  /\ \E c \in {0} \cup Lows :
       /\ FirstFreeCluster(c)
       /\ fat' = IF c = 0 THEN fat ELSE [fat EXCEPT ![c] = "eoc"]
       /\ op' = [o EXCEPT !.low = c]
  /\ pc' = next
  /\ UNCHANGED <<disk, current_clust, crashes, rewritten>>

\* Mutant: only the .txt file is looked for.
CreateAlloc_TxtOnly(n, t, ext) ==
  /\ pc = "idle"
  /\ Absent(CurrentSlots, FileStem[n], "txt")
  /\ Alloc([NoOp EXCEPT !.stem = FileStem[n], !.ext = ext, !.text = t], "c_entry")

\* fat_create_file for a stem that has neither a .txt nor an .isl file.
CreateAlloc(n, t, ext) ==
  /\ pc = "idle"
  /\ Absent(CurrentSlots, FileStem[n], "txt")
  /\ Absent(CurrentSlots, FileStem[n], "isl")
  /\ Alloc([NoOp EXCEPT !.stem = FileStem[n], !.ext = ext, !.text = t], "c_entry")

\* What fat_create_file makes of the slot that held e: the bytes of the high
\* cluster word keep what they were.
FileEntry(e) ==
  [e EXCEPT !.kind = "file", !.stem = op.stem, !.ext = op.ext, !.low = op.low,
            !.size0 = TextLen[op.text] % Byte,
            !.size1 = (TextLen[op.text] \div Byte) % Byte]

CreateEntry ==
  /\ pc = "c_entry"
  /\ \E s \in Slots :
       /\ FirstFreeSlot(CurrentSlots, s)
       /\ WriteSlot(s, FileEntry(CurrentSlots[s]))
       /\ op' = [op EXCEPT !.slot = s]
  /\ pc' = "c_data"
  /\ UNCHANGED <<fat, current_clust, crashes, rewritten>>

CreateData ==
  /\ pc = "c_data"
  /\ WriteSector(<<0, op.low>>, TextSector(op.text))
  /\ Finish
  /\ UNCHANGED <<fat, current_clust, crashes, rewritten>>

\* fat_create_dir does not look for an entry of that name.
MkdirAlloc(n) ==
  /\ pc = "idle"
  /\ Alloc([NoOp EXCEPT !.stem = DirStem[n]], "m_entry")

\* As with a file the high word keeps what it was, and so does the second byte
\* of the size.
FolderEntry(e) ==
  [e EXCEPT !.kind = "dir", !.stem = op.stem, !.ext = "blank", !.low = op.low, !.size0 = 0]

MkdirEntry ==
  /\ pc = "m_entry"
  /\ \E s \in Slots :
       /\ FirstFreeSlot(CurrentSlots, s)
       /\ WriteSlot(s, FolderEntry(CurrentSlots[s]))
       /\ op' = [op EXCEPT !.slot = s]
  /\ pc' = "m_init"
  /\ UNCHANGED <<fat, current_clust, crashes, rewritten>>

\* Mutant: the new directory is written over the current one.
MkdirInit_Here ==
  /\ pc = "m_init"
  /\ WriteSector(current_clust, NewDirSector(op.low))
  /\ Finish
  /\ UNCHANGED <<fat, current_clust, crashes, rewritten>>

MkdirInit ==
  /\ pc = "m_init"
  /\ WriteSector(<<0, op.low>>, NewDirSector(op.low))
  /\ Finish
  /\ UNCHANGED <<fat, current_clust, crashes, rewritten>>

\* The loops over the slots find none: the functions return, silently, and the
\* cluster stays taken.
NoRoom ==
  /\ pc \in {"c_entry", "m_entry"}
  /\ DirFull(CurrentSlots)
  /\ Finish
  /\ UNCHANGED <<fat, disk, current_clust, crashes, rewritten>>

-----------------------------------------------------------------------------
(* The commands that change the current directory.                         *)

\* cd <n>, for an entry that is a directory.
Cd(n) ==
  /\ pc = "idle"
  /\ \E s \in Slots :
       /\ Finds(CurrentSlots, CdStem[n], "blank", s)
       /\ CurrentSlots[s].kind = "dir"
       /\ current_clust' = ClusterOf(CurrentSlots[s])
  /\ UNCHANGED <<fat, disk, pc, op, crashes, rewritten>>

\* cd .. goes to the root from everywhere.
CdUp ==
  /\ pc = "idle"
  /\ current_clust' = Root
  /\ UNCHANGED <<fat, disk, pc, op, crashes, rewritten>>

\* Power is cut, or the kernel halts, and fat32_init runs again.  It may halt
\* in edit, at "c_entry", when it reads the missing extension.
Crash ==
  /\ crashes < MaxCrashes
  /\ crashes' = crashes + 1
  /\ current_clust' = Root
  /\ Finish
  /\ UNCHANGED <<fat, disk, rewritten>>

Create(n, t, ext) == CreateOverwrite(n, t, ext) \/ CreateAlloc(n, t, ext)

Next ==
  \/ \E n \in Names, t \in Texts, ext \in {"txt", "isl"} \cup EditExts : Create(n, t, ext)
  \/ OverwriteSize
  \/ CreateEntry \/ CreateData
  \/ \E n \in Names : MkdirAlloc(n)
  \/ MkdirEntry \/ MkdirInit
  \/ NoRoom
  \/ \E n \in Names : Cd(n)
  \/ CdUp
  \/ Crash

Spec == Init /\ [][Next]_vars

-----------------------------------------------------------------------------
(* Properties.                                                             *)

\* Every variable stays in its range: in particular every cluster an operation
\* reads or writes is one the volume has.
TypeOK ==
  /\ fat \in [Lows -> {"free", "eoc"}]
  /\ disk \in [Clusters -> Sector]
  /\ current_clust \in Clusters
  /\ pc \in PCs
  /\ op \in Op
  /\ crashes \in 0..MaxCrashes
  /\ rewritten \subseteq Clusters \X Slots

EntryAt(d, s) == disk[d].slots[s]

\* Slot s of directory d names a cluster of its own: not the shared cluster 0,
\* and not the directory itself, as "." does.
Links(d, s) ==
  /\ IsEntry(EntryAt(d, s))
  /\ EntryAt(d, s).low \notin {0, d[2]}

\* No entry names a cluster that the FAT calls free, at any instant at which
\* the power may go: fat_find_free_cluster marks the cluster before the entry
\* is written, so that it can never be given to a second file.
EntryAllocated ==
  \A d \in Clusters, s \in Slots :
    Links(d, s) => fat[EntryAt(d, s).low] = "eoc"

\* Two entries never share a cluster, whichever directories they are in and
\* however many operations were cut short.
NoCrossLink ==
  \A d1, d2 \in Clusters, s1, s2 \in Slots :
    /\ Links(d1, s1) /\ Links(d2, s2)
    /\ EntryAt(d1, s1).low = EntryAt(d2, s2).low
    => d1 = d2 /\ s1 = s2

\* fat_search and fat_ls stop at the first 0x00: no entry is ever behind it.
NoHiddenEntry ==
  \A d \in Clusters, s \in Slots :
    EntryAt(d, s).kind = "end" => \A r \in s..NSlots : ~IsEntry(EntryAt(d, r))

\* The directories are a forest: an entry of a directory other than the root
\* names a cluster that was taken later than the directory's own, so that no
\* sequence of cd leads back to where it was.
Forest ==
  \A d \in Clusters, s \in Slots :
    Links(d, s) /\ d[2] \notin {0, RootLow} => EntryAt(d, s).low > d[2]

\* The slot the running operation has written but whose cluster it has not.
InFlight(d, s) ==
  pc \in {"ow_size", "c_data", "m_init"} /\ d = current_clust /\ s = op.slot

\* As long as no operation was cut short, the size that fat_create_file and
\* fat_overwrite_file store is the length of the text in the file's cluster: the
\* low byte always, the second one until the file is overwritten.  Only a text
\* that fills its sector may be what was left of a longer one.
SizeMatchesText ==
  crashes = 0 =>
    \A d \in Clusters, s \in Slots :
      LET e == EntryAt(d, s)
          t == disk[ClusterOf(e)].text
      IN  Links(d, s) /\ e.kind = "file" /\ ~InFlight(d, s) =>
            /\ t \in Texts
            /\ TextLen[t] < SectorSize =>
                 /\ e.size0 = TextLen[t] % Byte
                 /\ <<d, s>> \notin rewritten => e.size1 = (TextLen[t] \div Byte) % Byte

\* As long as no operation was cut short, a directory that can be found with cd
\* is one: its first slot is the "." entry fat_create_dir put there.
DirectoryReachable ==
  crashes = 0 =>
    \A d \in Clusters, s \in Slots :
      LET e == EntryAt(d, s)
      IN  Links(d, s) /\ e.kind = "dir" /\ ~InFlight(d, s) =>
            EntryAt(ClusterOf(e), 1) = DotEntry(Dot, e.low)

SameEntry(e, f) ==
  /\ f.kind = e.kind /\ f.stem = e.stem /\ f.ext = e.ext
  /\ f.high = e.high /\ f.low = e.low

\* An entry, once written, is never lost, renamed or given another cluster, by
\* no operation and no power cut.  (The directory of cluster 0 is the exception:
\* see DataInDataArea.)
EntriesStable ==
  [][\A d \in Clusters, s \in Slots :
       d[2] # 0 /\ IsEntry(EntryAt(d, s)) => SameEntry(EntryAt(d, s), EntryAt(d, s)')]_vars

\* A file's text changes only in an operation on its stem in its directory, and
\* of a stem's .txt and .isl files in the one that was asked for: the other one
\* only if that does not exist.  (That it is then overwritten is not what the
\* documentation says: see InitMakesIsl.)
OnlyNamedFileChanges ==
  [][\A d \in Clusters, s \in Slots :
       LET e == EntryAt(d, s)
           o == IF pc = "idle" THEN op' ELSE op
       IN  /\ Links(d, s) /\ e.kind = "file"
           /\ disk[ClusterOf(e)].text # disk'[ClusterOf(e)].text
           => /\ pc \in {"idle", "c_data"}
              /\ d = current_clust /\ s = o.slot /\ e.stem = o.stem
              /\ o.ext \in {"txt", "isl"} =>
                   e.ext = o.ext \/ Absent(CurrentSlots, o.stem, o.ext)]_vars

(* What the documentation says, and the code does not do.                  *)

\* data_start is the "data starting point" (fat32.c): file data and directories
\* are written at or after it.
DataInDataArea ==
  pc \in {"c_data", "m_init"} => Lba(<<0, op.low>>) >= data_start

\* isl init <filename> creates <filename>.isl, says src/README.md; create and edit
\* are for .txt files.  (EditExts is empty here: only isl init asks for .isl.)
InitMakesIsl ==
  pc \in {"ow_size", "c_data"} /\ op.ext = "isl" =>
    EntryAt(current_clust, op.slot).ext = "isl"
=============================================================================
