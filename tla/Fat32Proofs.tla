---------------------------- MODULE Fat32Proofs ----------------------------
(* Proofs about Fat32: for any volume, any names and texts, any number of   *)
(* power cuts.                                                              *)
EXTENDS Fat32, TLAPS

-----------------------------------------------------------------------------
(* Types.                                                                   *)

\* A size byte is a byte.
LEMMA ByteOfLength ==
  ASSUME NEW n \in Nat
  PROVE  n % Byte \in 0..(Byte - 1) /\ (n \div Byte) % Byte \in 0..(Byte - 1)
BY TextAssumption

LEMMA BlankType ==
  ASSUME NEW k \in Kinds, NEW h \in HighWords
  PROVE  Blank(k, h) \in Entry
BY NamesAssumption, TextAssumption, VolumeAssumption DEF Blank, Entry, Exts

LEMMA SectorTypes ==
  /\ End \in Entry /\ Junk \in Entry
  /\ ZeroSector \in Sector
  /\ \A t \in Texts : TextSector(t) \in Sector
  /\ \A low \in {0} \cup Lows : NewDirSector(low) \in Sector
<1>1. End \in Entry /\ Junk \in Entry
  BY BlankType, VolumeAssumption DEF End, Junk, Kinds
<1>2. ZeroSector \in Sector
  BY <1>1 DEF ZeroSector, Sector
<1>3. \A t \in Texts : TextSector(t) \in Sector
  <2> SUFFICES ASSUME NEW t \in Texts PROVE TextSector(t) \in Sector
    OBVIOUS
  <2>1. Cut[t] \in Texts
    BY TextAssumption
  <2> QED BY <1>1, <2>1 DEF TextSector, Sector
<1>4. \A stem \in Stems, low \in {0} \cup Lows : DotEntry(stem, low) \in Entry
  <2>1. Blank("dir", 0) \in Entry
    BY BlankType, VolumeAssumption DEF Kinds
  <2> QED BY <2>1 DEF DotEntry, Entry
<1>5. \A low \in {0} \cup Lows : NewDirSector(low) \in Sector
  BY <1>1, <1>4, NamesAssumption DEF NewDirSector, Sector
<1> QED BY <1>1, <1>2, <1>3, <1>5

\* Writing one slot of the current directory changes that entry alone.
LEMMA WriteSlotEffect ==
  ASSUME TypeOK, NEW s \in Slots, NEW e \in Entry, WriteSlot(s, e)
  PROVE  /\ disk' \in [Clusters -> Sector]
         /\ \A d \in Clusters, r \in Slots :
              EntryAt(d, r)' = IF d = current_clust /\ r = s THEN e ELSE EntryAt(d, r)
BY DEF TypeOK, WriteSlot, Sector, EntryAt

\* Writing a sector changes the entries of that sector alone.
LEMMA WriteSectorEffect ==
  ASSUME TypeOK, NEW c \in Clusters, NEW x \in Sector, WriteSector(c, x)
  PROVE  /\ disk' \in [Clusters -> Sector]
         /\ \A d \in Clusters, r \in Slots :
              EntryAt(d, r)' = IF d = c THEN x.slots[r] ELSE EntryAt(d, r)
BY DEF TypeOK, WriteSector, Sector, EntryAt

LEMMA TypeInit == Init => TypeOK
<1> SUFFICES ASSUME Init PROVE TypeOK
  OBVIOUS
<1>1. fat \in [Lows -> {"free", "eoc"}] /\ pc \in PCs /\ crashes \in 0..MaxCrashes
  BY VolumeAssumption DEF Init, PCs
<1>2. current_clust \in Clusters
  BY VolumeAssumption DEF Init, Root, Clusters
<1>3. op \in Op
  BY NamesAssumption, VolumeAssumption DEF Init, Op, NoOp, Exts, Slots
<1>4. disk \in [Clusters -> Sector]
  <2>1. PICK k \in 0..NSlots, h \in HighWords,
             old \in {ZeroSector} \cup {TextSector(t) : t \in Texts} :
          disk = [c \in Clusters |->
                    IF c = Root
                    THEN [ZeroSector EXCEPT !.slots =
                            [s \in Slots |-> IF s <= k THEN Blank("deleted", h) ELSE End]]
                    ELSE IF c[2] # 0 THEN old ELSE ZeroSector]
    BY DEF Init
  <2>2. Blank("deleted", h) \in Entry
    BY BlankType DEF Kinds
  <2>3. [ZeroSector EXCEPT !.slots =
           [s \in Slots |-> IF s <= k THEN Blank("deleted", h) ELSE End]] \in Sector
    BY <2>2, SectorTypes DEF Sector
  <2> QED BY <2>1, <2>3, SectorTypes
<1>5. rewritten \subseteq Clusters \X Slots
  BY DEF Init
<1> QED BY <1>1, <1>2, <1>3, <1>4, <1>5 DEF TypeOK

\* The entries a look-up or a search for a free slot returns are entries.
LEMMA CurrentType ==
  ASSUME TypeOK
  PROVE  /\ \A s \in Slots : CurrentSlots[s] \in Entry
         /\ \A s \in Slots : EntryAt(current_clust, s) = CurrentSlots[s]
         /\ \A e \in Entry : ClusterOf(e) \in Clusters
BY DEF TypeOK, CurrentSlots, Sector, EntryAt, Entry, ClusterOf, Clusters

\* The texts and clusters an operation holds while it runs are real.
TextInHand == pc \in {"ow_size", "c_entry", "c_data"} => op.text \in Texts

\* The entries the two create operations make.
LEMMA FileEntryType ==
  ASSUME TypeOK, TextInHand, pc = "c_entry", NEW e \in Entry
  PROVE  /\ FileEntry(e) \in Entry
         /\ FileEntry(e).kind = "file" /\ FileEntry(e).low = op.low
         /\ FileEntry(e).stem = op.stem
<1>1. TextLen[op.text] \in Nat /\ op \in Op
  BY TextAssumption DEF TypeOK, TextInHand
<1> QED BY <1>1, ByteOfLength DEF FileEntry, Entry, Op, Kinds

LEMMA FolderEntryType ==
  ASSUME TypeOK, NEW e \in Entry
  PROVE  /\ FolderEntry(e) \in Entry
         /\ FolderEntry(e).kind = "dir" /\ FolderEntry(e).low = op.low
         /\ FolderEntry(e).ext = "blank"
<1>1. 0 \in 0..(Byte - 1) /\ op \in Op
  BY TextAssumption DEF TypeOK
<1> QED BY <1>1 DEF FolderEntry, Entry, Op, Kinds, Exts

\* What the operations keep in their locals.
LEMMA NoOpType == NoOp \in Op
BY NamesAssumption, VolumeAssumption DEF NoOp, Op, Exts, Slots

LEMMA FileOpType ==
  ASSUME NEW n \in Names, NEW t \in Texts, NEW ext \in {"txt", "isl"} \cup EditExts
  PROVE  [NoOp EXCEPT !.stem = FileStem[n], !.ext = ext, !.text = t] \in Op
<1>1. ext \in Exts /\ FileStem[n] \in Stems
  BY NamesAssumption, VolumeAssumption DEF Exts
<1> QED BY <1>1, NoOpType DEF Op

LEMMA FolderOpType ==
  ASSUME NEW n \in Names
  PROVE  [NoOp EXCEPT !.stem = DirStem[n]] \in Op
BY NoOpType, NamesAssumption DEF Op

LEMMA FinishType == Finish => pc' \in PCs /\ op' \in Op
BY NoOpType DEF Finish, PCs

LEMMA AllocType ==
  ASSUME TypeOK, NEW o \in Op, NEW next \in PCs, Alloc(o, next)
  PROVE  TypeOK'
BY DEF TypeOK, Alloc, Op

LEMMA TypeStep == TypeOK /\ TextInHand /\ [Next]_vars => TypeOK' /\ TextInHand'
<1> SUFFICES ASSUME TypeOK, TextInHand, [Next]_vars
             PROVE  TypeOK' /\ TextInHand'
  OBVIOUS
<1> USE DEF PCs
<1>1. ASSUME NEW n \in Names, NEW t \in Texts, NEW ext \in {"txt", "isl"} \cup EditExts,
             CreateOverwrite(n, t, ext)
      PROVE  TypeOK' /\ TextInHand'
  <2>1. PICK s \in Slots :
          /\ WriteSector(ClusterOf(CurrentSlots[s]), TextSector(t))
          /\ op' = [NoOp EXCEPT !.stem = FileStem[n], !.ext = ext, !.text = t, !.slot = s]
    BY <1>1 DEF CreateOverwrite
  <2>2. disk' \in [Clusters -> Sector]
    BY <2>1, CurrentType, SectorTypes, WriteSectorEffect
  <2>3. op' \in Op /\ op'.text = t
    BY <2>1, NamesAssumption, VolumeAssumption DEF NoOp, Op, Exts
  <2> QED BY <1>1, <2>2, <2>3 DEF CreateOverwrite, TypeOK, TextInHand
<1>2. CASE OverwriteSize
  <2>1. TextLen[op.text] \in Nat /\ op.slot \in Slots
    BY <1>2, TextAssumption DEF OverwriteSize, TypeOK, TextInHand, Op
  <2>2. [CurrentSlots[op.slot] EXCEPT !.size0 = TextLen[op.text] % Byte] \in Entry
    BY <2>1, ByteOfLength, CurrentType DEF Entry
  <2>3. disk' \in [Clusters -> Sector]
    BY <1>2, <2>1, <2>2, WriteSlotEffect DEF OverwriteSize
  <2>4. rewritten' \subseteq Clusters \X Slots
    BY <1>2, <2>1 DEF OverwriteSize, TypeOK
  <2> QED BY <1>2, <2>3, <2>4, FinishType DEF OverwriteSize, TypeOK, TextInHand, Finish
<1>3. ASSUME NEW n \in Names, NEW t \in Texts, NEW ext \in {"txt", "isl"} \cup EditExts,
             CreateAlloc(n, t, ext)
      PROVE  TypeOK' /\ TextInHand'
  <2>1. [NoOp EXCEPT !.stem = FileStem[n], !.ext = ext, !.text = t] \in Op
    BY FileOpType
  <2>2. TypeOK'
    <3>1. Alloc([NoOp EXCEPT !.stem = FileStem[n], !.ext = ext, !.text = t], "c_entry")
      BY <1>3 DEF CreateAlloc
    <3> QED BY <2>1, <3>1, AllocType
  <2>3. op'.text = t
    BY <1>3, <2>1 DEF CreateAlloc, Alloc, Op
  <2> QED BY <2>2, <2>3 DEF TextInHand
<1>4. CASE CreateEntry
  <2>1. PICK s \in Slots : WriteSlot(s, FileEntry(CurrentSlots[s])) /\ op' = [op EXCEPT !.slot = s]
    BY <1>4 DEF CreateEntry
  <2>2. FileEntry(CurrentSlots[s]) \in Entry
    BY <1>4, CurrentType, FileEntryType DEF CreateEntry
  <2>3. disk' \in [Clusters -> Sector]
    BY <2>1, <2>2, WriteSlotEffect
  <2>4. op' \in Op /\ op'.text = op.text
    BY <2>1 DEF TypeOK, Op
  <2> QED BY <1>4, <2>3, <2>4 DEF CreateEntry, TypeOK, TextInHand
<1>5. CASE CreateData
  <2>1. <<0, op.low>> \in Clusters /\ TextSector(op.text) \in Sector
    BY <1>5, VolumeAssumption, SectorTypes DEF CreateData, TypeOK, TextInHand, Op, Clusters
  <2>2. disk' \in [Clusters -> Sector]
    BY <1>5, <2>1, WriteSectorEffect DEF CreateData
  <2> QED BY <1>5, <2>2, FinishType DEF CreateData, TypeOK, TextInHand, Finish
<1>6. ASSUME NEW n \in Names, MkdirAlloc(n)
      PROVE  TypeOK' /\ TextInHand'
  <2>1. [NoOp EXCEPT !.stem = DirStem[n]] \in Op
    BY FolderOpType
  <2> QED BY <1>6, <2>1, AllocType DEF MkdirAlloc, Alloc, TextInHand
<1>7. CASE MkdirEntry
  <2>1. PICK s \in Slots : WriteSlot(s, FolderEntry(CurrentSlots[s])) /\ op' = [op EXCEPT !.slot = s]
    BY <1>7 DEF MkdirEntry
  <2>2. FolderEntry(CurrentSlots[s]) \in Entry
    BY CurrentType, FolderEntryType
  <2>3. disk' \in [Clusters -> Sector]
    BY <2>1, <2>2, WriteSlotEffect
  <2>4. op' \in Op
    BY <2>1 DEF TypeOK, Op
  <2> QED BY <1>7, <2>3, <2>4 DEF MkdirEntry, TypeOK, TextInHand
<1>8. CASE MkdirInit
  <2>1. <<0, op.low>> \in Clusters /\ NewDirSector(op.low) \in Sector
    BY VolumeAssumption, SectorTypes DEF TypeOK, Op, Clusters
  <2>2. disk' \in [Clusters -> Sector]
    BY <1>8, <2>1, WriteSectorEffect DEF MkdirInit
  <2> QED BY <1>8, <2>2, FinishType DEF MkdirInit, TypeOK, TextInHand, Finish
<1>9. CASE NoRoom
  BY <1>9, FinishType DEF NoRoom, TypeOK, TextInHand, Finish
<1>10. ASSUME NEW n \in Names, Cd(n)
       PROVE  TypeOK' /\ TextInHand'
  BY <1>10, CurrentType DEF Cd, TypeOK, TextInHand
<1>11. CASE CdUp
  BY <1>11, VolumeAssumption DEF CdUp, TypeOK, TextInHand, Root, Clusters
<1>12. CASE Crash
  BY <1>12, FinishType, VolumeAssumption DEF Crash, TypeOK, TextInHand, Root, Clusters, Finish
<1>13. CASE UNCHANGED vars
  BY <1>13 DEF vars, TypeOK, TextInHand
<1> QED BY <1>1, <1>2, <1>3, <1>4, <1>5, <1>6, <1>7, <1>8, <1>9, <1>10, <1>11, <1>12, <1>13
        DEF Next, Create

\* Every value the driver computes stays in its range.
THEOREM TypeCorrect == Spec => []TypeOK
<1>1. Init => TypeOK /\ TextInHand
  BY TypeInit DEF Init, TextInHand
<1> QED BY <1>1, TypeStep, PTL DEF Spec

-----------------------------------------------------------------------------
(* Clusters.  Only the low word of a cluster matters here: the allocator       *)
(* hands out low words, and each belongs to one entry of the volume.           *)

\* No file entry names low word c, so that no data is ever written there.
NoFileAt(c) ==
  \A d \in Clusters, s \in Slots :
    EntryAt(d, s).kind = "file" => EntryAt(d, s).low # c

\* Low word c can hold a directory: it is taken, and no file's.
DirectoryAt(c) == fat[c] = "eoc" /\ NoFileAt(c)

\* Low word c has been taken and nothing on the volume knows it yet.
Fresh(c) ==
  /\ fat[c] = "eoc" /\ c # RootLow /\ c # current_clust[2]
  /\ \A d \in Clusters, s \in Slots :
       IsEntry(EntryAt(d, s)) => EntryAt(d, s).low # c /\ d[2] # c

AllAllocated ==
  \A d \in Clusters, s \in Slots :
    IsEntry(EntryAt(d, s)) /\ EntryAt(d, s).low # 0 => fat[EntryAt(d, s).low] = "eoc"

\* Sectors with entries in them are directories, or the shared cluster 0.
EntriesInDirectories ==
  \A d \in Clusters, s \in Slots :
    IsEntry(EntryAt(d, s)) /\ d[2] # 0 => DirectoryAt(d[2])

CurrentIsDirectory ==
  /\ DirectoryAt(RootLow)
  /\ current_clust[2] # 0 => DirectoryAt(current_clust[2])

\* The name bytes of a folder end in blanks, so that no file is found under it.
FoldersBlank ==
  \A d \in Clusters, s \in Slots : EntryAt(d, s).kind = "dir" => EntryAt(d, s).ext = "blank"

\* A cluster in the hands of an operation is fresh until its entry is written,
\* and then known to that entry alone.
InHand ==
  /\ pc \in {"c_entry", "m_entry"} /\ op.low # 0 => Fresh(op.low)
  /\ pc = "c_data" =>
       EntryAt(current_clust, op.slot).kind = "file" /\ EntryAt(current_clust, op.slot).low = op.low
  /\ pc = "m_init" /\ op.low # 0 =>
       /\ EntryAt(current_clust, op.slot).kind = "dir" /\ EntryAt(current_clust, op.slot).low = op.low
       /\ op.low # current_clust[2]
       /\ DirectoryAt(op.low)
       /\ \A s \in Slots, h \in HighWords : ~IsEntry(EntryAt(<<h, op.low>>, s))

\* The inductive invariant.
ClusterInv ==
  /\ TypeOK /\ TextInHand
  /\ AllAllocated /\ NoCrossLink /\ EntriesInDirectories
  /\ CurrentIsDirectory /\ FoldersBlank /\ InHand

EntryType == \A d \in Clusters, s \in Slots : EntryAt(d, s) \in Entry

LEMMA EntriesAreEntries == TypeOK => EntryType
BY DEF TypeOK, EntryType, EntryAt, Sector

\* The step makes no entry and gives none another cluster.
NoNewEntry ==
  \A d \in Clusters, s \in Slots :
    IsEntry(EntryAt(d, s)') =>
      /\ EntryAt(d, s)'.kind = EntryAt(d, s).kind
      /\ EntryAt(d, s)'.low = EntryAt(d, s).low
      /\ EntryAt(d, s)'.ext = EntryAt(d, s).ext

FatGrows == \A c \in Lows : fat[c] = "eoc" => fat'[c] = "eoc"

\* Such a step keeps what the invariant says of the entries.
LEMMA NoNewEntryKeeps ==
  ASSUME ClusterInv, TypeOK', NoNewEntry, FatGrows
  PROVE  /\ AllAllocated' /\ NoCrossLink' /\ EntriesInDirectories' /\ FoldersBlank'
         /\ \A c \in Lows : DirectoryAt(c) => DirectoryAt(c)'
<1> USE DEF IsEntry
<1>1. \A d \in Clusters, s \in Slots :
        IsEntry(EntryAt(d, s)') => IsEntry(EntryAt(d, s))
  BY DEF NoNewEntry
<1>2. EntryType
  BY EntriesAreEntries DEF ClusterInv
<1>3. \A c \in Lows : DirectoryAt(c) => DirectoryAt(c)'
  BY DEF DirectoryAt, NoFileAt, NoNewEntry, FatGrows
<1>4. AllAllocated'
  BY <1>1, <1>2 DEF AllAllocated, NoNewEntry, FatGrows, ClusterInv, EntryType, Entry
<1>5. NoCrossLink'
  BY <1>1 DEF NoCrossLink, Links, NoNewEntry, ClusterInv
<1>6. EntriesInDirectories'
  BY <1>1, <1>3 DEF EntriesInDirectories, ClusterInv, Clusters
<1>7. FoldersBlank'
  BY <1>1 DEF FoldersBlank, NoNewEntry, ClusterInv
<1> QED BY <1>3, <1>4, <1>5, <1>6, <1>7

\* A step that makes one entry, of the fresh cluster in hand.
LEMMA NewEntryKeeps ==
  ASSUME ClusterInv, UNCHANGED <<fat, current_clust>>,
         op.low # 0 => Fresh(op.low),
         NEW s \in Slots, NEW e \in Entry, IsEntry(e), e.low = op.low,
         e.kind = "dir" => e.ext = "blank",
         \A d \in Clusters, r \in Slots :
           EntryAt(d, r)' = IF d = current_clust /\ r = s THEN e ELSE EntryAt(d, r)
  PROVE  /\ AllAllocated' /\ NoCrossLink' /\ EntriesInDirectories' /\ CurrentIsDirectory'
         /\ EntryAt(current_clust, s)' = e /\ FoldersBlank'
<1> USE DEF IsEntry
<1>1. op.low \in {0} \cup Lows /\ current_clust \in Clusters /\ RootLow # 0 /\ current_clust[2] \in {0} \cup Lows
  BY VolumeAssumption DEF ClusterInv, TypeOK, Op, Lows, Clusters
<1>2. EntryType
  BY EntriesAreEntries DEF ClusterInv
<1>3. \A c \in Lows : DirectoryAt(c) /\ c # op.low => DirectoryAt(c)'
  BY DEF DirectoryAt, NoFileAt
<1>4. AllAllocated'
  BY <1>1 DEF AllAllocated, ClusterInv, Fresh
<1>5. NoCrossLink'
  BY <1>1 DEF NoCrossLink, Links, ClusterInv, Fresh
<1>6. EntriesInDirectories'
  <2> SUFFICES ASSUME NEW d \in Clusters, NEW r \in Slots, IsEntry(EntryAt(d, r)'), d[2] # 0
               PROVE  DirectoryAt(d[2])'
    BY DEF EntriesInDirectories
  <2>1. d[2] \in Lows
    BY DEF Clusters
  <2>2. DirectoryAt(d[2])
    BY DEF EntriesInDirectories, CurrentIsDirectory, ClusterInv
  <2>3. d[2] # op.low
    BY DEF Fresh
  <2> QED BY <1>3, <2>1, <2>2, <2>3
<1>7. CurrentIsDirectory'
  BY <1>1, <1>3, VolumeAssumption DEF CurrentIsDirectory, ClusterInv, Fresh
<1>8. FoldersBlank'
  BY DEF FoldersBlank, ClusterInv
<1> QED BY <1>1, <1>4, <1>5, <1>6, <1>7, <1>8

\* fat_find_free_cluster hands out a fresh cluster.
LEMMA AllocKeeps ==
  ASSUME ClusterInv, TypeOK', pc = "idle",
         NEW o \in Op, NEW next \in {"c_entry", "m_entry"}, Alloc(o, next)
  PROVE  AllAllocated' /\ NoCrossLink' /\ EntriesInDirectories' /\ CurrentIsDirectory'
         /\ FoldersBlank' /\ InHand'
<1> USE DEF IsEntry
<1>1. PICK c \in {0} \cup Lows :
        /\ FirstFreeCluster(c)
        /\ fat' = IF c = 0 THEN fat ELSE [fat EXCEPT ![c] = "eoc"]
        /\ op' = [o EXCEPT !.low = c]
  BY DEF Alloc
<1>2. op'.low = c /\ pc' = next /\ UNCHANGED <<disk, current_clust>>
  BY <1>1 DEF Alloc, Op
<1>3. NoNewEntry /\ FatGrows
  BY <1>1, <1>2 DEF NoNewEntry, FatGrows, EntryAt, ClusterInv, TypeOK
<1>4. /\ AllAllocated' /\ NoCrossLink' /\ EntriesInDirectories' /\ FoldersBlank'
      /\ \A x \in Lows : DirectoryAt(x) => DirectoryAt(x)'
  BY <1>3, NoNewEntryKeeps
<1>5. CurrentIsDirectory'
  BY <1>2, <1>4, VolumeAssumption DEF CurrentIsDirectory, ClusterInv, TypeOK, Clusters
<1>6. InHand'
  <2>1. c # 0 => c \in Lows /\ fat[c] = "free" /\ fat'[c] = "eoc"
    BY <1>1 DEF FirstFreeCluster, Lows, ClusterInv, TypeOK
  <2>2. c # 0 => c # RootLow /\ c # current_clust[2]
    BY <2>1 DEF ClusterInv, CurrentIsDirectory, DirectoryAt
  <2>3. c # 0 => \A d \in Clusters, s \in Slots :
          IsEntry(EntryAt(d, s)) => EntryAt(d, s).low # c /\ d[2] # c
    BY <2>1 DEF ClusterInv, AllAllocated, EntriesInDirectories, DirectoryAt
  <2>4. c # 0 => Fresh(c)'
    BY <1>2, <2>1, <2>2, <2>3 DEF Fresh, EntryAt
  <2> QED BY <1>2, <2>4 DEF InHand
<1> QED BY <1>4, <1>5, <1>6

LEMMA ClusterInit == Init => ClusterInv
<1> SUFFICES ASSUME Init PROVE ClusterInv
  OBVIOUS
<1>1. TypeOK /\ TextInHand
  BY TypeInit DEF Init, TextInHand
<1>2. \A d \in Clusters, s \in Slots : ~IsEntry(EntryAt(d, s))
  BY DEF Init, EntryAt, IsEntry, ZeroSector, TextSector, Blank, End, Junk, Root
<1> QED BY <1>1, <1>2 DEF Init, ClusterInv, AllAllocated, NoCrossLink, Links, EntriesInDirectories, FoldersBlank,
                     CurrentIsDirectory, InHand, DirectoryAt, NoFileAt, IsEntry, Root

LEMMA ClusterStep == ClusterInv /\ [Next]_vars => ClusterInv'
<1> SUFFICES ASSUME ClusterInv, [Next]_vars PROVE ClusterInv'
  OBVIOUS
<1> USE DEF IsEntry
<1>0. TypeOK' /\ TextInHand' /\ TypeOK /\ TextInHand /\ EntryType
  BY TypeStep, EntriesAreEntries DEF ClusterInv
<1>1. ASSUME NoNewEntry, UNCHANGED fat, InHand',
             current_clust' = current_clust \/ current_clust' = Root
      PROVE  ClusterInv'
  <2>1. FatGrows
    BY <1>1 DEF FatGrows
  <2>2. /\ AllAllocated' /\ NoCrossLink' /\ EntriesInDirectories' /\ FoldersBlank'
        /\ \A c \in Lows : DirectoryAt(c) => DirectoryAt(c)'
    BY <1>0, <1>1, <2>1, NoNewEntryKeeps
  <2>3. CurrentIsDirectory'
    BY <1>0, <1>1, <2>2, VolumeAssumption DEF CurrentIsDirectory, ClusterInv, TypeOK, Clusters, Root
  <2> QED BY <1>0, <1>1, <2>2, <2>3 DEF ClusterInv
<1>2. ASSUME NEW n \in Names, NEW t \in Texts, NEW ext \in {"txt", "isl"} \cup EditExts,
             CreateOverwrite(n, t, ext)
      PROVE  ClusterInv'
  <2>1. PICK s \in Slots : WriteSector(ClusterOf(CurrentSlots[s]), TextSector(t))
    BY <1>2 DEF CreateOverwrite
  <2>2. \A r \in Slots : ~IsEntry(TextSector(t).slots[r])
    BY DEF TextSector, Junk, End, Blank
  <2>3. NoNewEntry
    BY <1>0, <2>1, <2>2, WriteSectorEffect, SectorTypes, CurrentType DEF NoNewEntry
  <2> QED BY <1>1, <1>2, <2>3 DEF CreateOverwrite, InHand
<1>3. CASE OverwriteSize
  <2> DEFINE e == [CurrentSlots[op.slot] EXCEPT !.size0 = TextLen[op.text] % Byte]
  <2>1. op.slot \in Slots /\ TextLen[op.text] \in Nat /\ CurrentSlots[op.slot] \in Entry
    BY <1>0, <1>3, TextAssumption, CurrentType DEF OverwriteSize, TypeOK, TextInHand, Op
  <2>2. e \in Entry /\ e.kind = CurrentSlots[op.slot].kind
        /\ e.low = CurrentSlots[op.slot].low /\ e.ext = CurrentSlots[op.slot].ext
    BY <2>1, ByteOfLength DEF Entry
  <2>3. WriteSlot(op.slot, e)
    BY <1>3 DEF OverwriteSize
  <2> HIDE DEF e
  <2>4. NoNewEntry
    BY <1>0, <2>1, <2>2, <2>3, WriteSlotEffect, CurrentType DEF NoNewEntry
  <2> QED BY <1>1, <1>3, <2>4 DEF OverwriteSize, Finish, InHand
<1>4. ASSUME NEW n \in Names, NEW t \in Texts, NEW ext \in {"txt", "isl"} \cup EditExts,
             CreateAlloc(n, t, ext)
      PROVE  ClusterInv'
  <2>1. [NoOp EXCEPT !.stem = FileStem[n], !.ext = ext, !.text = t] \in Op
    BY FileOpType
  <2>2. pc = "idle" /\ Alloc([NoOp EXCEPT !.stem = FileStem[n], !.ext = ext, !.text = t], "c_entry")
    BY <1>4 DEF CreateAlloc
  <2> QED BY <1>0, <2>1, <2>2, AllocKeeps DEF ClusterInv
<1>5. CASE CreateEntry
  <2>1. PICK s \in Slots : WriteSlot(s, FileEntry(CurrentSlots[s])) /\ op' = [op EXCEPT !.slot = s]
    BY <1>5 DEF CreateEntry
  <2> DEFINE e == FileEntry(CurrentSlots[s])
  <2>2. e \in Entry /\ e.kind = "file" /\ e.low = op.low
    BY <1>0, <1>5, CurrentType, FileEntryType DEF CreateEntry
  <2> HIDE DEF e
  <2>3. \A d \in Clusters, r \in Slots :
          EntryAt(d, r)' = IF d = current_clust /\ r = s THEN e ELSE EntryAt(d, r)
    BY <1>0, <2>1, <2>2, WriteSlotEffect DEF e
  <2>4. op.low # 0 => Fresh(op.low)
    BY <1>5 DEF CreateEntry, ClusterInv, InHand
  <2>5. /\ AllAllocated' /\ NoCrossLink' /\ EntriesInDirectories' /\ CurrentIsDirectory'
        /\ EntryAt(current_clust, s)' = e /\ FoldersBlank'
    BY <1>5, <2>2, <2>3, <2>4, NewEntryKeeps DEF CreateEntry
  <2>6. InHand'
    BY <1>0, <1>5, <2>1, <2>2, <2>5 DEF CreateEntry, InHand, TypeOK, Op, EntryAt
  <2> QED BY <1>0, <2>5, <2>6 DEF ClusterInv
<1>6. CASE CreateData
  <2>1. \A r \in Slots : ~IsEntry(TextSector(op.text).slots[r])
    BY DEF TextSector, Junk, End, Blank
  <2>2. <<0, op.low>> \in Clusters /\ TextSector(op.text) \in Sector
    BY <1>0, <1>6, VolumeAssumption, SectorTypes DEF CreateData, TypeOK, TextInHand, Op, Clusters
  <2>3. NoNewEntry
    BY <1>0, <1>6, <2>1, <2>2, WriteSectorEffect DEF NoNewEntry, CreateData
  <2> QED BY <1>1, <1>6, <2>3 DEF CreateData, Finish, InHand
<1>7. ASSUME NEW n \in Names, MkdirAlloc(n) PROVE ClusterInv'
  <2>1. [NoOp EXCEPT !.stem = DirStem[n]] \in Op
    BY FolderOpType
  <2> QED BY <1>0, <1>7, <2>1, AllocKeeps DEF ClusterInv, MkdirAlloc
<1>8. CASE MkdirEntry
  <2>1. PICK s \in Slots : WriteSlot(s, FolderEntry(CurrentSlots[s])) /\ op' = [op EXCEPT !.slot = s]
    BY <1>8 DEF MkdirEntry
  <2> DEFINE e == FolderEntry(CurrentSlots[s])
  <2>2. e \in Entry /\ e.kind = "dir" /\ e.ext = "blank" /\ e.low = op.low
    BY <1>0, CurrentType, FolderEntryType
  <2> HIDE DEF e
  <2>3. \A d \in Clusters, r \in Slots :
          EntryAt(d, r)' = IF d = current_clust /\ r = s THEN e ELSE EntryAt(d, r)
    BY <1>0, <2>1, <2>2, WriteSlotEffect DEF e
  <2>4. op.low # 0 => Fresh(op.low)
    BY <1>8 DEF MkdirEntry, ClusterInv, InHand
  <2>5. /\ AllAllocated' /\ NoCrossLink' /\ EntriesInDirectories' /\ CurrentIsDirectory'
        /\ EntryAt(current_clust, s)' = e /\ FoldersBlank'
    BY <1>8, <2>2, <2>3, <2>4, NewEntryKeeps DEF MkdirEntry
  <2>6. InHand'
    <3>1. op'.low = op.low /\ op'.slot = s /\ pc' = "m_init" /\ UNCHANGED <<fat, current_clust>>
      BY <1>0, <1>8, <2>1 DEF MkdirEntry, TypeOK, Op
    <3>2. ASSUME op.low # 0
          PROVE  DirectoryAt(op.low)' /\ \A r \in Slots, h \in HighWords : ~IsEntry(EntryAt(<<h, op.low>>, r)')
      <4>1. op.low \in Lows /\ op.low # current_clust[2] /\ fat'[op.low] = "eoc"
        BY <1>0, <2>4, <3>1, <3>2 DEF TypeOK, Op, Fresh
      <4>2. NoFileAt(op.low)'
        BY <2>2, <2>3, <2>4, <3>1, <3>2 DEF NoFileAt, Fresh
      <4>3. \A r \in Slots, h \in HighWords : ~IsEntry(EntryAt(<<h, op.low>>, r)')
        <5>1. \A h \in HighWords : <<h, op.low>> \in Clusters
          BY <4>1 DEF Clusters
        <5>2. \A r \in Slots, h \in HighWords : ~IsEntry(EntryAt(<<h, op.low>>, r))
          BY <2>4, <3>2, <5>1 DEF Fresh
        <5> QED BY <2>3, <3>1, <4>1, <5>1, <5>2
      <4> QED BY <3>1, <4>1, <4>2, <4>3 DEF DirectoryAt, NoFileAt
    <3> QED BY <2>2, <2>4, <2>5, <3>1, <3>2 DEF InHand, Fresh, EntryAt
  <2> QED BY <1>0, <2>5, <2>6 DEF ClusterInv
<1>9. CASE MkdirInit
  <2> DEFINE x == NewDirSector(op.low)
  <2>1. x \in Sector /\ <<0, op.low>> \in Clusters
    BY <1>0, VolumeAssumption, SectorTypes DEF TypeOK, Op, Clusters
  <2>2. \A r \in Slots : IsEntry(x.slots[r]) =>
             x.slots[r].kind = "dir" /\ x.slots[r].ext = "blank" /\ x.slots[r].low \in {0, op.low}
    BY DEF NewDirSector, DotEntry, Blank, End
  <2>3. WriteSector(<<0, op.low>>, x) /\ UNCHANGED <<fat, current_clust>> /\ pc' = "idle"
    BY <1>9 DEF MkdirInit, Finish
  <2> HIDE DEF x
  <2>4. \A d \in Clusters, r \in Slots :
          EntryAt(d, r)' = IF d = <<0, op.low>> THEN x.slots[r] ELSE EntryAt(d, r)
    BY <1>0, <2>1, <2>3, WriteSectorEffect
  <2>5. op.low # 0 => DirectoryAt(op.low)
    BY <1>9 DEF MkdirInit, ClusterInv, InHand
  <2>6. \A c \in Lows : DirectoryAt(c) => DirectoryAt(c)'
    BY <2>2, <2>3, <2>4 DEF DirectoryAt, NoFileAt
  <2>7. AllAllocated'
    BY <2>2, <2>3, <2>4, <2>5 DEF AllAllocated, ClusterInv, DirectoryAt
  <2>8. NoCrossLink'
    BY <2>2, <2>4 DEF NoCrossLink, Links, ClusterInv
  <2>9. EntriesInDirectories'
    <3> SUFFICES ASSUME NEW d \in Clusters, NEW r \in Slots, IsEntry(EntryAt(d, r)'), d[2] # 0
                 PROVE  DirectoryAt(d[2])'
      BY DEF EntriesInDirectories
    <3>1. d[2] \in Lows
      BY DEF Clusters
    <3>2. DirectoryAt(d[2])
      BY <2>4, <2>5 DEF EntriesInDirectories, ClusterInv
    <3> QED BY <2>6, <3>1, <3>2
  <2>10. CurrentIsDirectory'
    BY <1>0, <2>3, <2>6, VolumeAssumption DEF CurrentIsDirectory, ClusterInv, TypeOK, Clusters
  <2>11. FoldersBlank'
    BY <2>2, <2>4 DEF FoldersBlank, ClusterInv
  <2> QED BY <1>0, <2>3, <2>7, <2>8, <2>9, <2>10, <2>11 DEF ClusterInv, InHand
<1>10. CASE NoRoom
  BY <1>1, <1>10 DEF NoRoom, Finish, InHand, NoNewEntry, EntryAt
<1>11. ASSUME NEW n \in Names, Cd(n) PROVE ClusterInv'
  <2>1. PICK s \in Slots : EntryAt(current_clust, s).kind = "dir" /\ current_clust' = ClusterOf(EntryAt(current_clust, s))
    BY <1>0, <1>11, CurrentType DEF Cd
  <2> DEFINE e == EntryAt(current_clust, s)
  <2>2. current_clust \in Clusters /\ e \in Entry /\ current_clust'[2] = e.low
    BY <1>0, <2>1 DEF TypeOK, EntryType, ClusterOf
  <2>3. e.low # 0 => DirectoryAt(e.low)
    <3>1. CASE e.low = current_clust[2]
      BY <3>1 DEF ClusterInv, CurrentIsDirectory
    <3>2. CASE e.low # current_clust[2]
      <4> SUFFICES ASSUME e.low # 0 PROVE DirectoryAt(e.low)
        OBVIOUS
      <4>1. fat[e.low] = "eoc"
        BY <2>1, <2>2 DEF ClusterInv, AllAllocated
      <4>2. Links(current_clust, s)
        BY <2>1, <3>2 DEF Links
      <4>3. NoFileAt(e.low)
        <5> SUFFICES ASSUME NEW d \in Clusters, NEW r \in Slots,
                            EntryAt(d, r).kind = "file", EntryAt(d, r).low = e.low
                     PROVE  FALSE
          BY DEF NoFileAt
        <5>1. EntryAt(d, r).low # d[2]
          BY DEF ClusterInv, EntriesInDirectories, DirectoryAt, NoFileAt
        <5>2. Links(d, r)
          BY <5>1 DEF Links
        <5>3. d = current_clust /\ r = s
          BY <2>2, <4>2, <5>2 DEF ClusterInv, NoCrossLink
        <5> QED BY <2>1, <5>3
      <4> QED BY <4>1, <4>3 DEF DirectoryAt
    <3> QED BY <3>1, <3>2
  <2>4. UNCHANGED <<fat, disk, op>> /\ pc' = "idle"
    BY <1>11 DEF Cd
  <2> HIDE DEF e
  <2>5. CurrentIsDirectory'
    BY <2>2, <2>3, <2>4 DEF ClusterInv, CurrentIsDirectory, DirectoryAt, NoFileAt, EntryAt
  <2>6. AllAllocated' /\ NoCrossLink' /\ EntriesInDirectories' /\ FoldersBlank'
    BY <2>4 DEF ClusterInv, AllAllocated, FoldersBlank, NoCrossLink, EntriesInDirectories, Links, DirectoryAt, NoFileAt, EntryAt
  <2> QED BY <1>0, <2>4, <2>5, <2>6 DEF ClusterInv, InHand
<1>12. CASE CdUp
  BY <1>1, <1>12 DEF CdUp, InHand, NoNewEntry, EntryAt
<1>13. CASE Crash
  BY <1>1, <1>13 DEF Crash, Finish, InHand, NoNewEntry, EntryAt
<1>14. CASE UNCHANGED vars
  <2>1. InHand'
    BY <1>14 DEF vars, ClusterInv, InHand, Fresh, DirectoryAt, NoFileAt, EntryAt
  <2> QED BY <1>1, <1>14, <2>1 DEF vars, NoNewEntry, EntryAt
<1> QED BY <1>2, <1>3, <1>4, <1>5, <1>6, <1>7, <1>8, <1>9, <1>10, <1>11, <1>12, <1>13, <1>14
        DEF Next, Create

\* For any volume and any number of power cuts: no entry on a free cluster, and
\* no two entries on one.
THEOREM ClustersSafe == Spec => [](EntryAllocated /\ NoCrossLink)
<1>1. ClusterInv => EntryAllocated /\ NoCrossLink
  BY DEF ClusterInv, AllAllocated, EntryAllocated, Links
<1> QED BY <1>1, ClusterInit, ClusterStep, PTL DEF Spec

\* In particular no cut leaves an entry on a free cluster,
THEOREM EntriesAllocated == Spec => []EntryAllocated
BY ClustersSafe, PTL

\* and no two entries ever share a cluster.
THEOREM ClustersNotShared == Spec => []NoCrossLink
BY ClustersSafe, PTL

\* The sector a look-up of a file leads to holds no entries.
LEMMA FoundFile ==
  ASSUME ClusterInv, NEW s \in Slots, NEW stem, NEW ext \in {"txt", "isl"},
         Finds(CurrentSlots, stem, ext, s),
         NEW d \in Clusters, NEW r \in Slots, IsEntry(EntryAt(d, r)), d[2] # 0
  PROVE  d # ClusterOf(CurrentSlots[s])
<1>1. current_clust \in Clusters /\ CurrentSlots[s] = EntryAt(current_clust, s)
  BY DEF ClusterInv, TypeOK, CurrentSlots, EntryAt
<1>2. EntryAt(current_clust, s).kind = "file"
  BY <1>1 DEF Finds, Matches, IsEntry, ClusterInv, FoldersBlank
<1>3. EntryAt(current_clust, s).low # d[2]
  BY <1>1, <1>2 DEF ClusterInv, EntriesInDirectories, DirectoryAt, NoFileAt
<1> QED BY <1>1, <1>3 DEF ClusterOf

LEMMA StableStep ==
  ASSUME ClusterInv, [Next]_vars,
         NEW d \in Clusters, NEW r \in Slots, d[2] # 0, IsEntry(EntryAt(d, r))
  PROVE  SameEntry(EntryAt(d, r), EntryAt(d, r)')
<1>0. TypeOK /\ TextInHand /\ EntryType
  BY EntriesAreEntries DEF ClusterInv
<1>1. ASSUME EntryAt(d, r)' = EntryAt(d, r) PROVE SameEntry(EntryAt(d, r), EntryAt(d, r)')
  BY <1>1 DEF SameEntry
<1>2. ASSUME UNCHANGED disk PROVE EntryAt(d, r)' = EntryAt(d, r)
  BY <1>2 DEF EntryAt
<1>3. ASSUME NEW n \in Names, NEW t \in Texts, NEW ext \in {"txt", "isl"} \cup EditExts,
             CreateOverwrite(n, t, ext)
      PROVE  SameEntry(EntryAt(d, r), EntryAt(d, r)')
  <2>1. PICK s \in Slots :
          /\ \E e \in {"txt", "isl"} : Finds(CurrentSlots, FileStem[n], e, s)
          /\ WriteSector(ClusterOf(CurrentSlots[s]), TextSector(t))
    BY <1>3 DEF CreateOverwrite
  <2>2. d # ClusterOf(CurrentSlots[s])
    BY <2>1, FoundFile
  <2> QED BY <1>0, <1>1, <2>1, <2>2, WriteSectorEffect, SectorTypes, CurrentType
<1>4. CASE OverwriteSize
  <2> DEFINE e == [CurrentSlots[op.slot] EXCEPT !.size0 = TextLen[op.text] % Byte]
  <2>1. op.slot \in Slots /\ TextLen[op.text] \in Nat /\ CurrentSlots[op.slot] \in Entry
    BY <1>0, <1>4, TextAssumption, CurrentType DEF OverwriteSize, TypeOK, TextInHand, Op
  <2>2. e \in Entry /\ SameEntry(CurrentSlots[op.slot], e)
    BY <2>1, ByteOfLength DEF Entry, SameEntry
  <2>3. WriteSlot(op.slot, e)
    BY <1>4 DEF OverwriteSize
  <2> HIDE DEF e
  <2> QED BY <1>0, <1>1, <2>1, <2>2, <2>3, WriteSlotEffect, CurrentType
<1>5. CASE CreateEntry
  <2>1. PICK s \in Slots : FirstFreeSlot(CurrentSlots, s) /\ WriteSlot(s, FileEntry(CurrentSlots[s]))
    BY <1>5 DEF CreateEntry
  <2>2. FileEntry(CurrentSlots[s]) \in Entry
    BY <1>0, <1>5, CurrentType, FileEntryType DEF CreateEntry
  <2>3. ~(d = current_clust /\ r = s)
    BY <1>0, <2>1, CurrentType DEF FirstFreeSlot, IsFree, IsEntry
  <2> QED BY <1>0, <1>1, <2>1, <2>2, <2>3, WriteSlotEffect
<1>6. CASE CreateData
  <2>1. <<0, op.low>> \in Clusters /\ TextSector(op.text) \in Sector /\ current_clust \in Clusters /\ op.slot \in Slots
    BY <1>0, <1>6, VolumeAssumption, SectorTypes DEF CreateData, TypeOK, TextInHand, Op, Clusters
  <2>2. d # <<0, op.low>>
    BY <1>6, <2>1 DEF CreateData, ClusterInv, InHand, EntriesInDirectories, DirectoryAt, NoFileAt
  <2> QED BY <1>0, <1>1, <1>6, <2>1, <2>2, WriteSectorEffect DEF CreateData
<1>7. CASE MkdirEntry
  <2>1. PICK s \in Slots : FirstFreeSlot(CurrentSlots, s) /\ WriteSlot(s, FolderEntry(CurrentSlots[s]))
    BY <1>7 DEF MkdirEntry
  <2>2. FolderEntry(CurrentSlots[s]) \in Entry
    BY <1>0, CurrentType, FolderEntryType
  <2>3. ~(d = current_clust /\ r = s)
    BY <1>0, <2>1, CurrentType DEF FirstFreeSlot, IsFree, IsEntry
  <2> QED BY <1>0, <1>1, <2>1, <2>2, <2>3, WriteSlotEffect
<1>8. CASE MkdirInit
  <2>1. NewDirSector(op.low) \in Sector /\ <<0, op.low>> \in Clusters
    BY <1>0, VolumeAssumption, SectorTypes DEF TypeOK, Op, Clusters
  <2>2. d # <<0, op.low>>
    BY <1>8, VolumeAssumption DEF MkdirInit, ClusterInv, InHand
  <2> QED BY <1>0, <1>1, <1>8, <2>1, <2>2, WriteSectorEffect DEF MkdirInit
<1>9. ASSUME NEW n \in Names, NEW t \in Texts, NEW ext \in {"txt", "isl"} \cup EditExts,
             CreateAlloc(n, t, ext)
      PROVE  UNCHANGED disk
  BY <1>9 DEF CreateAlloc, Alloc
<1>10. ASSUME NEW n \in Names, MkdirAlloc(n) \/ Cd(n) PROVE UNCHANGED disk
  BY <1>10 DEF MkdirAlloc, Alloc, Cd
<1>11. CASE NoRoom \/ CdUp \/ Crash \/ UNCHANGED vars
  BY <1>1, <1>2, <1>11 DEF NoRoom, CdUp, Crash, vars
<1> QED BY <1>1, <1>2, <1>3, <1>4, <1>5, <1>6, <1>7, <1>8, <1>9, <1>10, <1>11 DEF Next, Create

\* For any volume and any number of power cuts: an entry once written is never
\* lost, renamed or given another cluster.
THEOREM EntriesAreStable == Spec => EntriesStable
<1>1. ClusterInv /\ [Next]_vars =>
        [\A d \in Clusters, s \in Slots :
           d[2] # 0 /\ IsEntry(EntryAt(d, s)) => SameEntry(EntryAt(d, s), EntryAt(d, s)')]_vars
  BY StableStep
<1> QED BY <1>1, ClusterInit, ClusterStep, PTL DEF Spec, EntriesStable

-----------------------------------------------------------------------------
(* Directories: what a look-up can and cannot see.                           *)

\* What OnlyNamedFileChanges rests on: of the two files <stem>.txt and
\* <stem>.isl the code never makes the second one.
OneFilePerStem ==
  \A d \in Clusters, s1, s2 \in Slots :
    LET e1 == EntryAt(d, s1)
        e2 == EntryAt(d, s2)
    IN  /\ e1.kind = "file" /\ e1.ext \in {"txt", "isl"}
        /\ e2.kind = "file" /\ e2.ext \in {"txt", "isl"}
        /\ e1.stem = e2.stem
        => s1 = s2

\* The stem a new file is about to get has no file yet.
StemIsNew ==
  pc = "c_entry" =>
    \A s \in Slots :
      LET e == EntryAt(current_clust, s)
      IN  e.kind = "file" /\ e.ext \in {"txt", "isl"} => e.stem # op.stem

DirectoryInv == TypeOK /\ TextInHand /\ NoHiddenEntry /\ OneFilePerStem /\ StemIsNew

\* The step makes no entry, and takes none away in the middle of a directory.
SameDirectory(d) ==
  \A s \in Slots :
    /\ EntryAt(d, s)'.kind = EntryAt(d, s).kind
    /\ EntryAt(d, s)'.stem = EntryAt(d, s).stem
    /\ EntryAt(d, s)'.ext = EntryAt(d, s).ext

NoFilesIn(d) ==
  /\ \A s \in Slots : EntryAt(d, s).kind # "file"
  /\ \A s \in Slots : EntryAt(d, s).kind = "end" => \A r \in s..NSlots : ~IsEntry(EntryAt(d, r))

LEMMA SectorsKeep ==
  ASSUME DirectoryInv, TypeOK', TextInHand', StemIsNew',
         \A d \in Clusters : SameDirectory(d) \/ NoFilesIn(d)'
  PROVE  DirectoryInv'
<1>1. NoHiddenEntry'
  <2> SUFFICES ASSUME NEW d \in Clusters, NEW s \in Slots, EntryAt(d, s)'.kind = "end",
                      NEW r \in s..NSlots
               PROVE  ~IsEntry(EntryAt(d, r)')
    BY DEF NoHiddenEntry
  <2>1. r \in Slots
    BY VolumeAssumption DEF Slots
  <2> QED BY <2>1 DEF DirectoryInv, NoHiddenEntry, SameDirectory, NoFilesIn, IsEntry
<1>2. OneFilePerStem'
  BY DEF DirectoryInv, OneFilePerStem, SameDirectory, NoFilesIn
<1> QED BY <1>1, <1>2 DEF DirectoryInv

\* A new entry goes to the first free slot.
LEMMA NewEntryVisible ==
  ASSUME DirectoryInv, NEW s \in Slots, NEW e \in Entry, IsEntry(e),
         FirstFreeSlot(CurrentSlots, s),
         e.kind = "file" => pc = "c_entry" /\ e.stem = op.stem,
         \A d \in Clusters, r \in Slots :
           EntryAt(d, r)' = IF d = current_clust /\ r = s THEN e ELSE EntryAt(d, r)
  PROVE  NoHiddenEntry' /\ OneFilePerStem'
<1>1. NoHiddenEntry'
  <2> SUFFICES ASSUME NEW d \in Clusters, NEW x \in Slots, EntryAt(d, x)'.kind = "end",
                      NEW r \in x..NSlots, IsEntry(EntryAt(d, r)')
               PROVE  FALSE
    BY DEF NoHiddenEntry
  <2>1. r \in Slots /\ x <= r
    BY VolumeAssumption DEF Slots
  <2>2. EntryAt(d, x).kind = "end" /\ ~(d = current_clust /\ x = s)
    BY DEF IsEntry
  <2>3. ~IsEntry(EntryAt(d, r))
    BY <2>2 DEF DirectoryInv, NoHiddenEntry
  <2>4. d = current_clust /\ r = s
    BY <2>1, <2>3
  <2>5. x \in 1..(s - 1)
    BY <2>1, <2>2, <2>4 DEF Slots
  <2> QED BY <2>2, <2>4, <2>5 DEF FirstFreeSlot, IsFree, CurrentSlots, EntryAt
<1>2. OneFilePerStem'
  BY DEF DirectoryInv, OneFilePerStem, StemIsNew
<1> QED BY <1>1, <1>2

LEMMA DirectoryStep == DirectoryInv /\ [Next]_vars => DirectoryInv'
<1> SUFFICES ASSUME DirectoryInv, [Next]_vars PROVE DirectoryInv'
  OBVIOUS
<1>0. TypeOK' /\ TextInHand' /\ TypeOK /\ TextInHand /\ EntryType
  BY TypeStep, EntriesAreEntries DEF DirectoryInv
<1>1. ASSUME UNCHANGED disk PROVE \A d \in Clusters : SameDirectory(d)
  BY <1>1 DEF SameDirectory, EntryAt
<1>2. ASSUME NEW t \in Texts, NEW c \in Clusters, WriteSector(c, TextSector(t)), StemIsNew'
      PROVE  DirectoryInv'
  <2>1. \A d \in Clusters, r \in Slots :
          EntryAt(d, r)' = IF d = c THEN TextSector(t).slots[r] ELSE EntryAt(d, r)
    BY <1>0, <1>2, WriteSectorEffect, SectorTypes
  <2>2. \A r \in Slots : ~IsEntry(TextSector(t).slots[r])
    BY DEF TextSector, Junk, End, Blank, IsEntry
  <2>3. \A s \in Slots : \A r \in s..NSlots : r \in Slots
    BY VolumeAssumption DEF Slots
  <2>4. NoFilesIn(c)'
    BY <1>2, <2>1, <2>2, <2>3 DEF NoFilesIn, IsEntry
  <2>5. \A d \in Clusters : d # c => SameDirectory(d)
    BY <2>1 DEF SameDirectory
  <2> QED BY <1>0, <1>2, <2>4, <2>5, SectorsKeep
<1>3. ASSUME NEW n \in Names, NEW t \in Texts, NEW ext \in {"txt", "isl"} \cup EditExts,
             CreateOverwrite(n, t, ext)
      PROVE  DirectoryInv'
  <2>1. StemIsNew'
    BY <1>3 DEF CreateOverwrite, StemIsNew
  <2> QED BY <1>0, <1>2, <1>3, <2>1, CurrentType DEF CreateOverwrite
<1>4. CASE OverwriteSize
  <2> DEFINE e == [CurrentSlots[op.slot] EXCEPT !.size0 = TextLen[op.text] % Byte]
  <2>1. op.slot \in Slots /\ TextLen[op.text] \in Nat /\ CurrentSlots[op.slot] \in Entry
    BY <1>0, <1>4, TextAssumption, CurrentType DEF OverwriteSize, TypeOK, TextInHand, Op
  <2>2. e \in Entry /\ SameEntry(CurrentSlots[op.slot], e)
    BY <2>1, ByteOfLength DEF Entry, SameEntry
  <2>3. WriteSlot(op.slot, e)
    BY <1>4 DEF OverwriteSize
  <2> HIDE DEF e
  <2>4. \A d \in Clusters : SameDirectory(d)
    BY <1>0, <2>1, <2>2, <2>3, WriteSlotEffect, CurrentType DEF SameDirectory, SameEntry
  <2>5. StemIsNew'
    BY <1>4 DEF OverwriteSize, Finish, StemIsNew
  <2> QED BY <1>0, <2>4, <2>5, SectorsKeep
<1>5. ASSUME NEW n \in Names, NEW t \in Texts, NEW ext \in {"txt", "isl"} \cup EditExts,
             CreateAlloc(n, t, ext)
      PROVE  DirectoryInv'
  <2>1. UNCHANGED <<disk, current_clust>> /\ op'.stem = FileStem[n]
    BY <1>5, FileOpType DEF CreateAlloc, Alloc, Op, NoOp
  <2>2. \A s \in Slots, e \in {"txt", "isl"} : ~Matches(CurrentSlots[s], FileStem[n], e)
    <3> SUFFICES ASSUME NEW s \in Slots, NEW e \in {"txt", "isl"},
                        Matches(CurrentSlots[s], FileStem[n], e)
                 PROVE  FALSE
      OBVIOUS
    <3>1. PICK j \in 1..(s - 1) : CurrentSlots[j].kind = "end"
      BY <1>5 DEF CreateAlloc, Absent
    <3>2. j \in Slots /\ s \in j..NSlots
      BY VolumeAssumption DEF Slots
    <3>3. EntryAt(current_clust, j).kind = "end" /\ IsEntry(EntryAt(current_clust, s)) /\ current_clust \in Clusters
      BY <1>0, <3>1, <3>2, CurrentType DEF Matches, TypeOK
    <3> QED BY <3>2, <3>3 DEF DirectoryInv, NoHiddenEntry
  <2>3. StemIsNew'
    BY <1>0, <2>1, <2>2, CurrentType DEF StemIsNew, Matches, IsEntry, EntryAt
  <2> QED BY <1>0, <1>1, <2>1, <2>3, SectorsKeep
<1>6. CASE CreateEntry
  <2>1. PICK s \in Slots : FirstFreeSlot(CurrentSlots, s) /\ WriteSlot(s, FileEntry(CurrentSlots[s]))
    BY <1>6 DEF CreateEntry
  <2> DEFINE e == FileEntry(CurrentSlots[s])
  <2>2. e \in Entry /\ e.kind = "file" /\ e.stem = op.stem
    BY <1>0, <1>6, CurrentType, FileEntryType DEF CreateEntry
  <2>3. WriteSlot(s, e)
    BY <2>1
  <2> HIDE DEF e
  <2>4. NoHiddenEntry' /\ OneFilePerStem'
    BY <1>0, <1>6, <2>1, <2>2, <2>3, WriteSlotEffect, NewEntryVisible DEF CreateEntry, IsEntry
  <2> QED BY <1>0, <1>6, <2>4 DEF CreateEntry, DirectoryInv, StemIsNew
<1>7. CASE CreateData
  <2>1. <<0, op.low>> \in Clusters /\ op.text \in Texts
    BY <1>0, <1>7, VolumeAssumption DEF CreateData, TypeOK, TextInHand, Op, Clusters
  <2>2. StemIsNew'
    BY <1>7 DEF CreateData, Finish, StemIsNew
  <2> QED BY <1>2, <1>7, <2>1, <2>2 DEF CreateData
<1>8. ASSUME NEW n \in Names, MkdirAlloc(n) PROVE DirectoryInv'
  <2>1. UNCHANGED disk /\ StemIsNew'
    BY <1>8 DEF MkdirAlloc, Alloc, StemIsNew
  <2> QED BY <1>0, <1>1, <2>1, SectorsKeep
<1>9. CASE MkdirEntry
  <2>1. PICK s \in Slots : FirstFreeSlot(CurrentSlots, s) /\ WriteSlot(s, FolderEntry(CurrentSlots[s]))
    BY <1>9 DEF MkdirEntry
  <2> DEFINE e == FolderEntry(CurrentSlots[s])
  <2>2. e \in Entry /\ e.kind = "dir"
    BY <1>0, CurrentType, FolderEntryType
  <2>3. WriteSlot(s, e)
    BY <2>1
  <2> HIDE DEF e
  <2>4. NoHiddenEntry' /\ OneFilePerStem'
    BY <1>0, <2>1, <2>2, <2>3, WriteSlotEffect, NewEntryVisible DEF IsEntry
  <2> QED BY <1>0, <1>9, <2>4 DEF MkdirEntry, DirectoryInv, StemIsNew
<1>10. CASE MkdirInit
  <2> DEFINE x == NewDirSector(op.low)
  <2> DEFINE c == <<0, op.low>>
  <2>1. x \in Sector /\ c \in Clusters
    BY <1>0, VolumeAssumption, SectorTypes DEF TypeOK, Op, Clusters
  <2>2. \A r \in Slots : x.slots[r].kind # "file" /\ (x.slots[r].kind = "end" <=> r > 2)
    BY DEF NewDirSector, DotEntry, Blank, End, Slots
  <2>3. WriteSector(c, x) /\ StemIsNew'
    BY <1>10 DEF MkdirInit, Finish, StemIsNew
  <2> HIDE DEF x, c
  <2>4. \A d \in Clusters, r \in Slots :
          EntryAt(d, r)' = IF d = c THEN x.slots[r] ELSE EntryAt(d, r)
    BY <1>0, <2>1, <2>3, WriteSectorEffect
  <2>5. \A s \in Slots : \A r \in s..NSlots : r \in Slots /\ (s > 2 => r > 2)
    BY VolumeAssumption DEF Slots
  <2>6. \A s \in Slots : x.slots[s].kind = "end" => \A r \in s..NSlots : x.slots[r].kind = "end"
    BY <2>2, <2>5
  <2>7. \A d \in Clusters : d = c => NoFilesIn(d)'
    BY <2>1, <2>2, <2>4, <2>5, <2>6 DEF NoFilesIn, IsEntry
  <2>8. \A d \in Clusters : d # c => SameDirectory(d)
    BY <2>4 DEF SameDirectory
  <2> QED BY <1>0, <2>3, <2>7, <2>8, SectorsKeep
<1>11. ASSUME NEW n \in Names, Cd(n) PROVE DirectoryInv'
  <2>1. UNCHANGED disk /\ StemIsNew'
    BY <1>11 DEF Cd, StemIsNew
  <2> QED BY <1>0, <1>1, <2>1, SectorsKeep
<1>12. CASE NoRoom \/ CdUp \/ Crash
  <2>1. UNCHANGED disk /\ StemIsNew'
    BY <1>12 DEF NoRoom, CdUp, Crash, Finish, StemIsNew
  <2> QED BY <1>0, <1>1, <2>1, SectorsKeep
<1>13. CASE UNCHANGED vars
  <2>1. UNCHANGED disk /\ StemIsNew'
    BY <1>13 DEF vars, StemIsNew, EntryAt, DirectoryInv
  <2> QED BY <1>0, <1>1, <2>1, SectorsKeep
<1> QED BY <1>3, <1>4, <1>5, <1>6, <1>7, <1>8, <1>9, <1>10, <1>11, <1>12, <1>13 DEF Next, Create

LEMMA DirectoryInit == Init => DirectoryInv
<1> SUFFICES ASSUME Init PROVE DirectoryInv
  OBVIOUS
<1>1. TypeOK /\ TextInHand
  BY TypeInit DEF Init, TextInHand
<1>2. \A d \in Clusters, s \in Slots : ~IsEntry(EntryAt(d, s))
  BY DEF Init, EntryAt, IsEntry, ZeroSector, TextSector, Blank, End, Junk, Root
<1>3. \A s \in Slots : \A r \in s..NSlots : r \in Slots
  BY VolumeAssumption DEF Slots
<1> QED BY <1>1, <1>2, <1>3 DEF Init, DirectoryInv, NoHiddenEntry, OneFilePerStem, StemIsNew, IsEntry

\* For any volume and any number of power cuts: no entry hides behind the end
\* mark, and no directory has two text or script files of one stem.
THEOREM DirectoriesSound == Spec => [](NoHiddenEntry /\ OneFilePerStem)
<1>1. DirectoryInv => NoHiddenEntry /\ OneFilePerStem
  BY DEF DirectoryInv
<1> QED BY <1>1, DirectoryInit, DirectoryStep, PTL DEF Spec

\* In particular fat_search, which stops at the end mark, sees every entry,
THEOREM NothingHidden == Spec => []NoHiddenEntry
BY DirectoriesSound, PTL

\* and a stem has one file at most that is a .txt or an .isl file: the one that
\* create, edit and isl init then overwrite.
THEOREM StemsUnique == Spec => []OneFilePerStem
BY DirectoriesSound, PTL

-----------------------------------------------------------------------------
(* The tree of directories.  fat_find_free_cluster takes the lowest cluster    *)
(* that is free and nothing is ever freed: clusters are handed out in order,   *)
(* so that what a directory leads to was taken after it.                       *)

\* Every cluster below c has been taken.
TakenBelow(c) == \A b \in Lows : b < c => fat[b] = "eoc"

\* Entries, the current directory and the cluster in hand lie above no free
\* cluster, and the cluster in hand above the directory it is for.
LowestFirst ==
  /\ \A d \in Clusters, s \in Slots :
       IsEntry(EntryAt(d, s)) => TakenBelow(EntryAt(d, s).low)
  /\ current_clust[2] # RootLow => TakenBelow(current_clust[2])
  /\ pc \in {"c_entry", "m_entry", "m_init"} => TakenBelow(op.low)
  /\ pc \in {"c_entry", "m_entry"} /\ op.low # 0 /\ current_clust[2] \notin {0, RootLow} =>
       op.low > current_clust[2]

\* Steps that make no entry.
LEMMA ForestKept ==
  ASSUME ClusterInv, LowestFirst, Forest, TypeOK', NoNewEntry, FatGrows,
         pc' \notin {"c_entry", "m_entry", "m_init"},
         \/ current_clust' = current_clust \/ current_clust' = Root
         \/ \E s \in Slots : /\ IsEntry(CurrentSlots[s])
                             /\ current_clust' = ClusterOf(CurrentSlots[s])
  PROVE  LowestFirst' /\ Forest'
<1>1. \A c : TakenBelow(c) => TakenBelow(c)'
  BY DEF TakenBelow, FatGrows
<1>2. \A d \in Clusters, s \in Slots :
        IsEntry(EntryAt(d, s)') => IsEntry(EntryAt(d, s)) /\ EntryAt(d, s)'.low = EntryAt(d, s).low
  BY DEF NoNewEntry, IsEntry
<1>3. \A d \in Clusters, s \in Slots :
        IsEntry(EntryAt(d, s)') => TakenBelow(EntryAt(d, s).low)'
  BY <1>1, <1>2 DEF LowestFirst
<1>4. current_clust'[2] # RootLow => TakenBelow(current_clust'[2])
  BY CurrentType DEF ClusterInv, TypeOK, LowestFirst, Root, ClusterOf
<1>5. current_clust'[2] # RootLow => TakenBelow(current_clust[2])'
  BY <1>1, <1>4
<1>6. LowestFirst'
  BY <1>2, <1>3, <1>5 DEF LowestFirst
<1>7. Forest'
  BY <1>2 DEF Forest, Links
<1> QED BY <1>6, <1>7

\* The cluster taken lies above the current directory.
LEMMA ForestAlloc ==
  ASSUME ClusterInv, LowestFirst, Forest,
         NEW o \in Op, NEW next \in {"c_entry", "m_entry"}, Alloc(o, next)
  PROVE  LowestFirst' /\ Forest'
<1>1. PICK c \in {0} \cup Lows :
        /\ FirstFreeCluster(c)
        /\ fat' = IF c = 0 THEN fat ELSE [fat EXCEPT ![c] = "eoc"]
        /\ op' = [o EXCEPT !.low = c]
  BY DEF Alloc
<1>2. op'.low = c /\ pc' = next /\ UNCHANGED <<disk, current_clust>>
  BY <1>1 DEF Alloc, Op
<1>3. FatGrows /\ fat \in [Lows -> {"free", "eoc"}]
  BY <1>1 DEF FatGrows, ClusterInv, TypeOK
<1>4. \A x : TakenBelow(x) => TakenBelow(x)'
  BY <1>3 DEF TakenBelow, FatGrows
<1>5. TakenBelow(c)
  BY <1>1, <1>3, VolumeAssumption DEF FirstFreeCluster, TakenBelow, Lows
<1>6. c # 0 /\ current_clust[2] \notin {0, RootLow} => c > current_clust[2]
  <2> SUFFICES ASSUME c # 0, current_clust[2] \notin {0, RootLow} PROVE c > current_clust[2]
    OBVIOUS
  <2>1. c \in Lows /\ fat[c] = "free"
    BY <1>1 DEF FirstFreeCluster, Lows
  <2>2. current_clust[2] \in Lows /\ fat[current_clust[2]] = "eoc"
    BY DEF ClusterInv, CurrentIsDirectory, DirectoryAt, TypeOK, Clusters
  <2>3. TakenBelow(current_clust[2])
    BY DEF LowestFirst
  <2> QED BY <2>1, <2>2, <2>3 DEF TakenBelow, Lows
<1>7. LowestFirst'
  BY <1>2, <1>4, <1>5, <1>6 DEF LowestFirst, EntryAt
<1>8. Forest'
  BY <1>2 DEF Forest, Links, EntryAt
<1> QED BY <1>7, <1>8

\* The step that writes its entry.
LEMMA ForestEntry ==
  ASSUME ClusterInv, LowestFirst, Forest, pc \in {"c_entry", "m_entry"},
         UNCHANGED <<fat, current_clust>>, op'.low = op.low,
         NEW s \in Slots, NEW e \in Entry, e.low = op.low,
         \A d \in Clusters, r \in Slots :
           EntryAt(d, r)' = IF d = current_clust /\ r = s THEN e ELSE EntryAt(d, r),
         pc' \in {"c_data", "m_init"}
  PROVE  LowestFirst' /\ Forest'
<1>1. \A c : TakenBelow(c)' <=> TakenBelow(c)
  BY DEF TakenBelow
<1>2. LowestFirst'
  BY <1>1 DEF LowestFirst
<1>3. Forest'
  BY DEF Forest, Links, LowestFirst
<1> QED BY <1>2, <1>3

LEMMA ForestStep == ClusterInv /\ LowestFirst /\ Forest /\ [Next]_vars => LowestFirst' /\ Forest'
<1> SUFFICES ASSUME ClusterInv, LowestFirst, Forest, [Next]_vars PROVE LowestFirst' /\ Forest'
  OBVIOUS
<1>0. TypeOK' /\ TextInHand' /\ TypeOK /\ TextInHand /\ EntryType
  BY TypeStep, EntriesAreEntries DEF ClusterInv
<1>1. ASSUME UNCHANGED disk PROVE NoNewEntry
  BY <1>1 DEF NoNewEntry, EntryAt
<1>2. ASSUME UNCHANGED fat PROVE FatGrows
  BY <1>2 DEF FatGrows
<1>3. ASSUME NEW t \in Texts, NEW c \in Clusters, WriteSector(c, TextSector(t)),
             UNCHANGED <<fat, current_clust>>, pc' \in {"ow_size", "idle"}
      PROVE  LowestFirst' /\ Forest'
  <2>1. \A r \in Slots : ~IsEntry(TextSector(t).slots[r])
    BY DEF TextSector, Junk, End, Blank, IsEntry
  <2>2. NoNewEntry
    BY <1>0, <1>3, <2>1, WriteSectorEffect, SectorTypes DEF NoNewEntry
  <2> QED BY <1>0, <1>2, <1>3, <2>2, ForestKept
<1>4. ASSUME NEW n \in Names, NEW t \in Texts, NEW ext \in {"txt", "isl"} \cup EditExts,
             CreateOverwrite(n, t, ext)
      PROVE  LowestFirst' /\ Forest'
  BY <1>0, <1>3, <1>4, CurrentType DEF CreateOverwrite
<1>5. CASE OverwriteSize
  <2> DEFINE e == [CurrentSlots[op.slot] EXCEPT !.size0 = TextLen[op.text] % Byte]
  <2>1. op.slot \in Slots /\ TextLen[op.text] \in Nat /\ CurrentSlots[op.slot] \in Entry
    BY <1>0, <1>5, TextAssumption, CurrentType DEF OverwriteSize, TypeOK, TextInHand, Op
  <2>2. e \in Entry /\ e.kind = CurrentSlots[op.slot].kind
        /\ e.low = CurrentSlots[op.slot].low /\ e.ext = CurrentSlots[op.slot].ext
    BY <2>1, ByteOfLength DEF Entry
  <2>3. WriteSlot(op.slot, e)
    BY <1>5 DEF OverwriteSize
  <2> HIDE DEF e
  <2>4. NoNewEntry
    BY <1>0, <2>1, <2>2, <2>3, WriteSlotEffect, CurrentType DEF NoNewEntry
  <2> QED BY <1>0, <1>2, <1>5, <2>4, ForestKept DEF OverwriteSize, Finish
<1>6. ASSUME NEW n \in Names, NEW t \in Texts, NEW ext \in {"txt", "isl"} \cup EditExts,
             CreateAlloc(n, t, ext)
      PROVE  LowestFirst' /\ Forest'
  <2>1. [NoOp EXCEPT !.stem = FileStem[n], !.ext = ext, !.text = t] \in Op
    BY FileOpType
  <2>2. Alloc([NoOp EXCEPT !.stem = FileStem[n], !.ext = ext, !.text = t], "c_entry")
    BY <1>6 DEF CreateAlloc
  <2> QED BY <2>1, <2>2, ForestAlloc
<1>7. ASSUME NEW n \in Names, MkdirAlloc(n) PROVE LowestFirst' /\ Forest'
  <2>1. [NoOp EXCEPT !.stem = DirStem[n]] \in Op
    BY FolderOpType
  <2>2. Alloc([NoOp EXCEPT !.stem = DirStem[n]], "m_entry")
    BY <1>7 DEF MkdirAlloc
  <2> QED BY <2>1, <2>2, ForestAlloc
<1>8. CASE CreateEntry
  <2>1. PICK s \in Slots : WriteSlot(s, FileEntry(CurrentSlots[s])) /\ op' = [op EXCEPT !.slot = s]
    BY <1>8 DEF CreateEntry
  <2> DEFINE e == FileEntry(CurrentSlots[s])
  <2>2. e \in Entry /\ e.low = op.low /\ op'.low = op.low
    BY <1>0, <1>8, <2>1, CurrentType, FileEntryType DEF CreateEntry, TypeOK, Op
  <2>3. WriteSlot(s, e)
    BY <2>1
  <2> HIDE DEF e
  <2>4. \A d \in Clusters, r \in Slots :
          EntryAt(d, r)' = IF d = current_clust /\ r = s THEN e ELSE EntryAt(d, r)
    BY <1>0, <2>2, <2>3, WriteSlotEffect
  <2> QED BY <1>8, <2>2, <2>4, ForestEntry DEF CreateEntry
<1>9. CASE MkdirEntry
  <2>1. PICK s \in Slots : WriteSlot(s, FolderEntry(CurrentSlots[s])) /\ op' = [op EXCEPT !.slot = s]
    BY <1>9 DEF MkdirEntry
  <2> DEFINE e == FolderEntry(CurrentSlots[s])
  <2>2. e \in Entry /\ e.low = op.low /\ op'.low = op.low
    BY <1>0, <2>1, CurrentType, FolderEntryType DEF TypeOK, Op
  <2>3. WriteSlot(s, e)
    BY <2>1
  <2> HIDE DEF e
  <2>4. \A d \in Clusters, r \in Slots :
          EntryAt(d, r)' = IF d = current_clust /\ r = s THEN e ELSE EntryAt(d, r)
    BY <1>0, <2>2, <2>3, WriteSlotEffect
  <2> QED BY <1>9, <2>2, <2>4, ForestEntry DEF MkdirEntry
<1>10. CASE CreateData
  <2>1. <<0, op.low>> \in Clusters /\ op.text \in Texts
    BY <1>0, <1>10, VolumeAssumption DEF CreateData, TypeOK, TextInHand, Op, Clusters
  <2> QED BY <1>3, <1>10, <2>1 DEF CreateData, Finish
\* The entries of the new directory are "." and "..", which link to nothing.
<1>11. CASE MkdirInit
  <2> DEFINE x == NewDirSector(op.low)
  <2> DEFINE c == <<0, op.low>>
  <2>1. x \in Sector /\ c \in Clusters /\ op.low \in {0} \cup Lows
    BY <1>0, VolumeAssumption, SectorTypes DEF TypeOK, Op, Clusters
  <2>2. \A r \in Slots : IsEntry(x.slots[r]) => x.slots[r].low \in {0, op.low}
    BY DEF NewDirSector, DotEntry, Blank, End, IsEntry
  <2>3. WriteSector(c, x) /\ UNCHANGED <<fat, current_clust>> /\ pc' = "idle" /\ c[2] = op.low
    BY <1>11 DEF MkdirInit, Finish
  <2> HIDE DEF x, c
  <2>4. \A d \in Clusters, r \in Slots :
          EntryAt(d, r)' = IF d = c THEN x.slots[r] ELSE EntryAt(d, r)
    BY <1>0, <2>1, <2>3, WriteSectorEffect
  <2>5. /\ TakenBelow(0) /\ TakenBelow(op.low)
        /\ \A z : TakenBelow(z)' <=> TakenBelow(z)
    BY <1>11, <2>3 DEF MkdirInit, LowestFirst, TakenBelow, Lows
  <2>6. LowestFirst'
    BY <2>2, <2>3, <2>4, <2>5 DEF LowestFirst
  <2>7. Forest'
    BY <2>2, <2>3, <2>4 DEF Forest, Links
  <2> QED BY <2>6, <2>7
<1>12. ASSUME NEW n \in Names, Cd(n) PROVE LowestFirst' /\ Forest'
  <2>1. UNCHANGED <<fat, disk, pc>> /\ pc = "idle"
    BY <1>12 DEF Cd
  <2>2. \E s \in Slots : /\ IsEntry(CurrentSlots[s])
                         /\ current_clust' = ClusterOf(CurrentSlots[s])
    BY <1>12 DEF Cd, IsEntry
  <2> QED BY <1>0, <1>1, <1>2, <2>1, <2>2, ForestKept
<1>13. CASE NoRoom \/ CdUp \/ Crash
  <2>1. /\ UNCHANGED <<fat, disk>> /\ pc' = "idle"
        /\ current_clust' = current_clust \/ current_clust' = Root
    BY <1>13 DEF NoRoom, CdUp, Crash, Finish
  <2> QED BY <1>0, <1>1, <1>2, <2>1, ForestKept
<1>14. CASE UNCHANGED vars
  BY <1>14 DEF vars, LowestFirst, Forest, Links, TakenBelow, EntryAt
<1> QED BY <1>4, <1>5, <1>6, <1>7, <1>8, <1>9, <1>10, <1>11, <1>12, <1>13, <1>14 DEF Next, Create

\* For any volume and any number of power cuts: directories form a forest, and
\* no sequence of cd into folders comes back to where it was.
THEOREM DirectoriesFormForest == Spec => []Forest
<1>1. Init => LowestFirst /\ Forest
  <2> SUFFICES ASSUME Init PROVE LowestFirst /\ Forest
    OBVIOUS
  <2>1. \A d \in Clusters, s \in Slots : ~IsEntry(EntryAt(d, s))
    BY DEF Init, EntryAt, IsEntry, ZeroSector, TextSector, Blank, End, Junk, Root
  <2> QED BY <2>1 DEF Init, LowestFirst, Forest, Links, Root
<1> QED BY <1>1, ClusterInit, ClusterStep, ForestStep, PTL DEF Spec

-----------------------------------------------------------------------------
(* What cd finds.  fat_create_file and fat_create_dir never write the high     *)
(* word of the cluster; on a volume whose deleted entries have none, an entry  *)
(* leads to the cluster its low word says.                                     *)

\* The slot of a running operation is the entry it has found or made.
SlotInHand ==
  /\ pc = "ow_size" => EntryAt(current_clust, op.slot).kind # "dir"
  /\ pc = "m_init" => EntryAt(current_clust, op.slot).low = op.low

\* Cluster c starts with the "." entry of a directory.
Made(c) == EntryAt(<<0, c>>, 1) = DotEntry(Dot, c)

LEMMA LowWord ==
  ASSUME HighWords = {0}, NEW e \in Entry
  PROVE  ClusterOf(e) = <<0, e.low>>
BY DEF Entry, ClusterOf

\* A step after which every folder either was there before or is in flight.
LEMMA ReachKept ==
  ASSUME HighWords = {0}, EntryType, EntryType', DirectoryReachable, crashes' = crashes,
         \A c \in Lows : Made(c) => Made(c)',
         \A d \in Clusters, s \in Slots :
           Links(d, s)' /\ EntryAt(d, s)'.kind = "dir" /\ ~InFlight(d, s)' =>
             \/ Made(EntryAt(d, s).low)'
             \/ /\ EntryAt(d, s).kind = "dir" /\ ~InFlight(d, s)
                /\ EntryAt(d, s).low = EntryAt(d, s)'.low
  PROVE  DirectoryReachable'
<1> SUFFICES ASSUME crashes = 0, NEW d \in Clusters, NEW s \in Slots,
                    Links(d, s)', EntryAt(d, s)'.kind = "dir", ~InFlight(d, s)'
             PROVE  (EntryAt(ClusterOf(EntryAt(d, s)), 1) = DotEntry(Dot, EntryAt(d, s).low))'
  BY DEF DirectoryReachable
<1>1. EntryAt(d, s)' \in Entry /\ EntryAt(d, s) \in Entry
  BY DEF EntryType
<1>2. ClusterOf(EntryAt(d, s))' = <<0, EntryAt(d, s)'.low>> /\ ClusterOf(EntryAt(d, s)) = <<0, EntryAt(d, s).low>>
  BY <1>1, LowWord
<1>3. SUFFICES Made(EntryAt(d, s).low)'
  BY <1>2 DEF Made
<1>4. CASE Made(EntryAt(d, s).low)'
  BY <1>4
<1>5. CASE /\ EntryAt(d, s).kind = "dir" /\ ~InFlight(d, s)
           /\ EntryAt(d, s).low = EntryAt(d, s)'.low
  <2>1. Links(d, s)
    BY <1>5 DEF Links, IsEntry
  <2>2. Made(EntryAt(d, s).low)
    BY <1>2, <1>5, <2>1 DEF DirectoryReachable, Made
  <2>3. EntryAt(d, s).low \in Lows
    BY <1>1, <2>1 DEF Links, Entry
  <2> QED BY <1>5, <2>2, <2>3
<1> QED BY <1>4, <1>5

LEMMA ReachStep ==
  HighWords = {0} /\ ClusterInv /\ SlotInHand /\ DirectoryReachable /\ [Next]_vars
    => SlotInHand' /\ DirectoryReachable'
<1> SUFFICES ASSUME HighWords = {0}, ClusterInv, SlotInHand, DirectoryReachable, [Next]_vars
             PROVE  SlotInHand' /\ DirectoryReachable'
  OBVIOUS
<1>0. /\ TypeOK' /\ TypeOK /\ TextInHand /\ EntryType /\ EntryType' /\ current_clust \in Clusters
      /\ 1 \in Slots /\ \A c \in Lows : <<0, c>> \in Clusters /\ c # 0
  <2>1. TypeOK /\ TextInHand /\ EntryType /\ TypeOK'
    BY TypeStep, EntriesAreEntries DEF ClusterInv
  <2>2. EntryType'
    BY <2>1 DEF TypeOK, EntryType, EntryAt, Sector
  <2>3. 1 \in Slots /\ \A c \in Lows : <<0, c>> \in Clusters /\ c # 0
    BY VolumeAssumption DEF Slots, Clusters, Lows
  <2> QED BY <2>1, <2>2, <2>3 DEF TypeOK
<1>1. \A c \in Lows : Made(c) => IsEntry(EntryAt(<<0, c>>, 1)) /\ EntryAt(<<0, c>>, 1).kind = "dir"
  BY DEF Made, DotEntry, Blank, IsEntry
<1>2. \A c \in Lows : Made(c) => NoFileAt(c)
  BY <1>0, <1>1 DEF ClusterInv, EntriesInDirectories, DirectoryAt
\* Steps that leave the disk alone, with nothing in flight.
<1>3. ASSUME UNCHANGED <<disk, crashes>>, pc \notin {"ow_size", "c_data", "m_init"},
             pc' \notin {"ow_size", "m_init"}
      PROVE  SlotInHand' /\ DirectoryReachable'
  <2>1. \A d \in Clusters, s \in Slots : EntryAt(d, s)' = EntryAt(d, s)
    BY <1>3 DEF EntryAt
  <2>2. \A c \in Lows : Made(c) => Made(c)'
    BY <1>3 DEF Made, EntryAt
  <2>3. DirectoryReachable'
    BY <1>0, <1>3, <2>1, <2>2, ReachKept DEF InFlight
  <2> QED BY <1>3, <2>3 DEF SlotInHand
<1>4. ASSUME NEW n \in Names, NEW t \in Texts, NEW ext \in {"txt", "isl"} \cup EditExts,
             CreateOverwrite(n, t, ext)
      PROVE  SlotInHand' /\ DirectoryReachable'
  <2>1. PICK s \in Slots :
          /\ \E e \in {"txt", "isl"} : Finds(CurrentSlots, FileStem[n], e, s)
          /\ WriteSector(ClusterOf(CurrentSlots[s]), TextSector(t))
          /\ op' = [NoOp EXCEPT !.stem = FileStem[n], !.ext = ext, !.text = t, !.slot = s]
    BY <1>4 DEF CreateOverwrite
  <2>2. \A r \in Slots : ~IsEntry(TextSector(t).slots[r])
    BY DEF TextSector, Junk, End, Blank, IsEntry
  <2>3. \A d \in Clusters, r \in Slots :
          EntryAt(d, r)' = IF d = ClusterOf(CurrentSlots[s]) THEN TextSector(t).slots[r] ELSE EntryAt(d, r)
    BY <1>0, <2>1, WriteSectorEffect, SectorTypes, CurrentType
  <2>4. \A c \in Lows : Made(c) => Made(c)'
    <3> SUFFICES ASSUME NEW c \in Lows, Made(c) PROVE Made(c)'
      OBVIOUS
    <3>1. <<0, c>> # ClusterOf(CurrentSlots[s])
      BY <1>0, <1>1, <2>1, FoundFile
    <3> QED BY <1>0, <2>3, <3>1 DEF Made
  <2>5. pc = "idle" /\ pc' = "ow_size" /\ UNCHANGED <<current_clust, crashes>> /\ op'.slot = s
    BY <1>4, <2>1, NoOpType DEF CreateOverwrite, Op
  <2>6. EntryAt(current_clust, s).kind = "file"
    BY <1>0, <2>1, CurrentType DEF Finds, Matches, IsEntry, ClusterInv, FoldersBlank
  <2>7. SlotInHand'
    BY <1>0, <2>2, <2>3, <2>5, <2>6 DEF SlotInHand, IsEntry
  <2>8. DirectoryReachable'
    BY <1>0, <2>2, <2>3, <2>4, <2>5, ReachKept DEF InFlight, IsEntry
  <2> QED BY <2>7, <2>8
<1>5. CASE OverwriteSize
  <2> DEFINE e == [CurrentSlots[op.slot] EXCEPT !.size0 = TextLen[op.text] % Byte]
  <2>1. op.slot \in Slots /\ TextLen[op.text] \in Nat /\ CurrentSlots[op.slot] \in Entry
    BY <1>0, <1>5, TextAssumption, CurrentType DEF OverwriteSize, TypeOK, TextInHand, Op
  <2>2. e \in Entry /\ e.kind # "dir"
    BY <1>0, <1>5, <2>1, ByteOfLength, CurrentType DEF Entry, OverwriteSize, SlotInHand
  <2>3. WriteSlot(op.slot, e)
    BY <1>5 DEF OverwriteSize
  <2> HIDE DEF e
  <2>4. \A d \in Clusters, r \in Slots :
          EntryAt(d, r)' = IF d = current_clust /\ r = op.slot THEN e ELSE EntryAt(d, r)
    BY <1>0, <2>1, <2>2, <2>3, WriteSlotEffect
  <2>5. \A c \in Lows : Made(c) => Made(c)'
    BY <1>0, <1>1, <1>5, <2>4 DEF Made, OverwriteSize, SlotInHand
  <2>6. DirectoryReachable'
    BY <1>0, <1>5, <2>2, <2>4, <2>5, ReachKept DEF InFlight, OverwriteSize
  <2> QED BY <1>5, <2>6 DEF OverwriteSize, Finish, SlotInHand
<1>6. ASSUME NEW s \in Slots, NEW e \in Entry, WriteSlot(s, e), FirstFreeSlot(CurrentSlots, s),
             UNCHANGED <<current_clust, crashes>>, pc \in {"c_entry", "m_entry"}, op'.slot = s,
             e.kind = "dir" => pc' = "m_init"
      PROVE  DirectoryReachable' /\ EntryAt(current_clust, s)' = e
  <2>1. \A d \in Clusters, r \in Slots :
          EntryAt(d, r)' = IF d = current_clust /\ r = s THEN e ELSE EntryAt(d, r)
    BY <1>0, <1>6, WriteSlotEffect
  <2>2. IsFree(EntryAt(current_clust, s))
    BY <1>0, <1>6, CurrentType DEF FirstFreeSlot
  <2>3. \A c \in Lows : Made(c) => Made(c)'
    BY <1>0, <1>1, <2>1, <2>2 DEF Made, IsFree
  <2>4. DirectoryReachable'
    BY <1>0, <1>6, <2>1, <2>3, ReachKept DEF InFlight
  <2> QED BY <1>0, <1>6, <2>1, <2>4
<1>7. CASE CreateEntry
  <2>1. PICK s \in Slots : /\ FirstFreeSlot(CurrentSlots, s) /\ WriteSlot(s, FileEntry(CurrentSlots[s]))
                           /\ op' = [op EXCEPT !.slot = s]
    BY <1>7 DEF CreateEntry
  <2>2. FileEntry(CurrentSlots[s]) \in Entry /\ FileEntry(CurrentSlots[s]).kind = "file" /\ op'.slot = s
    BY <1>0, <1>7, <2>1, CurrentType, FileEntryType DEF CreateEntry, TypeOK, Op
  <2> QED BY <1>6, <1>7, <2>1, <2>2 DEF CreateEntry, SlotInHand
<1>8. CASE MkdirEntry
  <2>1. PICK s \in Slots : /\ FirstFreeSlot(CurrentSlots, s) /\ WriteSlot(s, FolderEntry(CurrentSlots[s]))
                           /\ op' = [op EXCEPT !.slot = s]
    BY <1>8 DEF MkdirEntry
  <2>2. /\ FolderEntry(CurrentSlots[s]) \in Entry /\ FolderEntry(CurrentSlots[s]).low = op.low
        /\ op'.slot = s /\ op'.low = op.low
    BY <1>0, <2>1, CurrentType, FolderEntryType DEF TypeOK, Op
  <2>3. DirectoryReachable' /\ EntryAt(current_clust, s)' = FolderEntry(CurrentSlots[s])
    BY <1>6, <1>8, <2>1, <2>2 DEF MkdirEntry
  <2>4. EntryAt(current_clust, op.slot)' = EntryAt(current_clust, s)'
    BY <1>8, <2>2 DEF MkdirEntry, EntryAt
  <2> QED BY <1>8, <2>2, <2>3, <2>4 DEF MkdirEntry, SlotInHand
<1>9. CASE CreateData
  <2>1. <<0, op.low>> \in Clusters /\ op.text \in Texts /\ op.slot \in Slots
    BY <1>0, <1>9, VolumeAssumption DEF CreateData, TypeOK, TextInHand, Op, Clusters
  <2>2. \A r \in Slots : ~IsEntry(TextSector(op.text).slots[r])
    BY DEF TextSector, Junk, End, Blank, IsEntry
  <2>3. \A d \in Clusters, r \in Slots :
          EntryAt(d, r)' = IF d = <<0, op.low>> THEN TextSector(op.text).slots[r] ELSE EntryAt(d, r)
    BY <1>0, <1>9, <2>1, WriteSectorEffect, SectorTypes DEF CreateData
  <2>4. EntryAt(current_clust, op.slot).kind = "file" /\ EntryAt(current_clust, op.slot).low = op.low
    BY <1>9 DEF CreateData, ClusterInv, InHand
  <2>5. \A c \in Lows : Made(c) => Made(c)'
    BY <1>0, <1>2, <2>1, <2>3, <2>4 DEF Made, NoFileAt
  <2>6. DirectoryReachable'
    BY <1>0, <1>9, <2>2, <2>3, <2>4, <2>5, ReachKept DEF InFlight, IsEntry, CreateData
  <2> QED BY <1>9, <2>6 DEF CreateData, Finish, SlotInHand
<1>10. CASE MkdirInit
  <2> DEFINE x == NewDirSector(op.low)
  <2> DEFINE c == <<0, op.low>>
  <2>1. x \in Sector /\ c \in Clusters /\ op.low \in {0} \cup Lows
    BY <1>0, VolumeAssumption, SectorTypes DEF TypeOK, Op, Clusters
  <2>2. /\ \A r \in Slots : IsEntry(x.slots[r]) => x.slots[r].low \in {0, op.low}
        /\ x.slots[1] = DotEntry(Dot, op.low)
    BY <1>0 DEF NewDirSector, DotEntry, Blank, End, IsEntry
  <2>3. WriteSector(c, x) /\ UNCHANGED crashes /\ pc = "m_init" /\ pc' = "idle" /\ c[2] = op.low
    BY <1>10 DEF MkdirInit, Finish
  <2>4. \A z \in Lows : z # op.low => <<0, z>> # c
    OBVIOUS
  <2> HIDE DEF x
  <2>5. \A d \in Clusters, r \in Slots :
          EntryAt(d, r)' = IF d = c THEN x.slots[r] ELSE EntryAt(d, r)
    BY <1>0, <2>1, <2>3, WriteSectorEffect
  <2>6. \A z \in Lows : z = op.low => Made(z)'
    BY <1>0, <2>1, <2>2, <2>5 DEF Made
  <2>7. \A z \in Lows : Made(z) => Made(z)'
    BY <1>0, <2>4, <2>5, <2>6 DEF Made
  <2>8. ASSUME NEW d \in Clusters, NEW s \in Slots, Links(d, s)', EntryAt(d, s)'.kind = "dir"
        PROVE  \/ Made(EntryAt(d, s).low)'
               \/ /\ EntryAt(d, s).kind = "dir" /\ ~InFlight(d, s)
                  /\ EntryAt(d, s).low = EntryAt(d, s)'.low
    <3>1. d # c
      BY <2>2, <2>3, <2>5, <2>8 DEF Links
    <3>2. EntryAt(d, s)' = EntryAt(d, s)
      BY <2>5, <3>1
    <3>3. EntryAt(d, s)'.low \in Lows
      BY <1>0, <2>8, <3>2 DEF Links, EntryType, Entry
    <3>4. InFlight(d, s) => EntryAt(d, s).low = op.low
      BY <2>3 DEF InFlight, SlotInHand
    <3> QED BY <2>6, <2>8, <3>2, <3>3, <3>4
  <2>9. DirectoryReachable'
    BY <1>0, <2>3, <2>7, <2>8, ReachKept
  <2> QED BY <2>3, <2>9 DEF SlotInHand
<1>11. ASSUME NEW n \in Names, NEW t \in Texts, NEW ext \in {"txt", "isl"} \cup EditExts,
              CreateAlloc(n, t, ext)
       PROVE  SlotInHand' /\ DirectoryReachable'
  BY <1>3, <1>11 DEF CreateAlloc, Alloc
<1>12. ASSUME NEW n \in Names, MkdirAlloc(n) \/ Cd(n) PROVE SlotInHand' /\ DirectoryReachable'
  BY <1>3, <1>12 DEF MkdirAlloc, Alloc, Cd
<1>13. CASE NoRoom \/ CdUp
  BY <1>3, <1>13 DEF NoRoom, CdUp, Finish
<1>14. CASE Crash
  <2>1. crashes' # 0 /\ pc' = "idle"
    BY <1>0, <1>14, VolumeAssumption DEF Crash, Finish, TypeOK
  <2> QED BY <2>1 DEF SlotInHand, DirectoryReachable
<1>15. CASE UNCHANGED vars
  BY <1>15 DEF vars, SlotInHand, DirectoryReachable, Links, InFlight, EntryAt
<1> QED BY <1>4, <1>5, <1>7, <1>8, <1>9, <1>10, <1>11, <1>12, <1>13, <1>14, <1>15 DEF Next, Create

\* Without a power cut, and when no deleted entry has a high word to leave
\* behind, every folder that cd finds has been made a directory.
THEOREM FoldersReachable == HighWords = {0} => (Spec => []DirectoryReachable)
<1> SUFFICES ASSUME HighWords = {0} PROVE Spec => []DirectoryReachable
  OBVIOUS
<1>1. Init => SlotInHand /\ DirectoryReachable
  <2> SUFFICES ASSUME Init PROVE SlotInHand /\ DirectoryReachable
    OBVIOUS
  <2>1. \A d \in Clusters, s \in Slots : ~IsEntry(EntryAt(d, s))
    BY DEF Init, EntryAt, IsEntry, ZeroSector, TextSector, Blank, End, Junk, Root
  <2> QED BY <2>1 DEF Init, SlotInHand, DirectoryReachable, Links
<1>2. ClusterInv /\ SlotInHand /\ DirectoryReachable /\ [Next]_vars => SlotInHand' /\ DirectoryReachable'
  BY ReachStep
<1> QED BY <1>1, <1>2, ClusterInit, ClusterStep, PTL DEF Spec

-----------------------------------------------------------------------------
(* Texts.                                                                      *)

\* An entry of a file that has a cluster of its own.
FileAt(d, s) == Links(d, s) /\ EntryAt(d, s).kind = "file"

\* Its cluster is not the one whose directory is current.
LEMMA FileElsewhere ==
  ASSUME ClusterInv, NEW d \in Clusters, NEW s \in Slots, FileAt(d, s)
  PROVE  /\ EntryAt(d, s).low \in Lows /\ EntryAt(d, s).low # current_clust[2]
         /\ ClusterOf(EntryAt(d, s)) \in Clusters
         /\ ClusterOf(EntryAt(d, s))[2] = EntryAt(d, s).low
<1>1. EntryAt(d, s) \in Entry /\ current_clust \in Clusters
  BY EntriesAreEntries DEF ClusterInv, TypeOK, EntryType
<1>2. EntryAt(d, s).low \in Lows
  BY <1>1 DEF FileAt, Links, Entry
<1>3. EntryAt(d, s).low # current_clust[2]
  BY <1>2, VolumeAssumption DEF ClusterInv, CurrentIsDirectory, DirectoryAt, NoFileAt, FileAt, Lows
<1> QED BY <1>1, <1>2, <1>3 DEF ClusterOf, Entry, Clusters

\* A directory's own update changes no file's text.
LEMMA SlotKeepsTexts ==
  ASSUME ClusterInv, NEW d \in Clusters, NEW s \in Slots, FileAt(d, s),
         NEW x \in Slots, NEW e, WriteSlot(x, e)
  PROVE  disk'[ClusterOf(EntryAt(d, s))] = disk[ClusterOf(EntryAt(d, s))]
<1>1. ClusterOf(EntryAt(d, s)) \in Clusters /\ ClusterOf(EntryAt(d, s)) # current_clust
  BY FileElsewhere
<1> QED BY <1>1 DEF WriteSlot, ClusterInv, TypeOK

\* A file whose cluster create writes is the one just entered.
LEMMA OwnData ==
  ASSUME ClusterInv, pc = "c_data", NEW d \in Clusters, NEW s \in Slots, FileAt(d, s),
         EntryAt(d, s).low = op.low
  PROVE  d = current_clust /\ s = op.slot
<1>1. /\ EntryAt(current_clust, op.slot).kind = "file"
      /\ EntryAt(current_clust, op.slot).low = op.low
      /\ current_clust \in Clusters /\ op.slot \in Slots
  BY DEF ClusterInv, InHand, TypeOK, Op
<1>2. Links(current_clust, op.slot)
  BY <1>1, FileElsewhere DEF Links, IsEntry, FileAt
<1> QED BY <1>1, <1>2 DEF ClusterInv, NoCrossLink, FileAt

\* A file whose cluster an overwrite writes is the one that was found.
LEMMA OwnFound ==
  ASSUME ClusterInv, NEW x \in Slots, NEW stem, NEW ext \in {"txt", "isl"},
         Finds(CurrentSlots, stem, ext, x),
         NEW d \in Clusters, NEW s \in Slots, FileAt(d, s),
         EntryAt(d, s).low = CurrentSlots[x].low
  PROVE  d = current_clust /\ s = x /\ EntryAt(d, s).stem = stem
<1>1. current_clust \in Clusters /\ CurrentSlots[x] = EntryAt(current_clust, x)
  BY DEF ClusterInv, TypeOK, CurrentSlots, EntryAt
<1>2. EntryAt(current_clust, x).kind = "file" /\ EntryAt(current_clust, x).stem = stem
  BY <1>1 DEF Finds, Matches, IsEntry, ClusterInv, FoldersBlank
<1>3. Links(current_clust, x)
  BY <1>1, <1>2, FileElsewhere DEF Links, IsEntry, FileAt
<1> QED BY <1>1, <1>2, <1>3 DEF ClusterInv, NoCrossLink, FileAt

\* The entry of the file that is being created is the one that was asked for.
NameInHand ==
  pc = "c_data" =>
    /\ EntryAt(current_clust, op.slot).stem = op.stem
    /\ EntryAt(current_clust, op.slot).ext = op.ext

LEMMA NameStep == TypeOK /\ TextInHand /\ NameInHand /\ [Next]_vars => NameInHand'
<1> SUFFICES ASSUME TypeOK, TextInHand, NameInHand, [Next]_vars, pc' = "c_data"
             PROVE  /\ EntryAt(current_clust, op.slot)'.stem = op'.stem
                    /\ EntryAt(current_clust, op.slot)'.ext = op'.ext
  BY DEF NameInHand
<1>1. CASE CreateEntry
  <2>1. PICK x \in Slots : /\ WriteSlot(x, FileEntry(CurrentSlots[x]))
                           /\ op' = [op EXCEPT !.slot = x]
    BY <1>1 DEF CreateEntry
  <2>2. CurrentSlots[x] \in Entry
    BY CurrentType
  <2>3. FileEntry(CurrentSlots[x]) \in Entry
    BY <1>1, <2>2, FileEntryType DEF CreateEntry
  <2>4. FileEntry(CurrentSlots[x]).stem = op.stem /\ FileEntry(CurrentSlots[x]).ext = op.ext
    BY <2>2 DEF FileEntry, Entry
  <2>5. op'.slot = x /\ op'.stem = op.stem /\ op'.ext = op.ext
    BY <2>1 DEF TypeOK, Op
  <2>6. \A d \in Clusters, r \in Slots :
          EntryAt(d, r)' = IF d = current_clust /\ r = x THEN FileEntry(CurrentSlots[x]) ELSE EntryAt(d, r)
    BY <2>1, <2>3, WriteSlotEffect
  <2>7. EntryAt(current_clust, x)' = FileEntry(CurrentSlots[x])
    BY <1>1, <2>6 DEF CreateEntry, TypeOK
  <2>8. EntryAt(current_clust, op.slot)' = EntryAt(current_clust, x)'
    BY <2>5 DEF EntryAt
  <2> QED BY <2>4, <2>5, <2>7, <2>8
<1>2. CASE UNCHANGED vars
  BY <1>2 DEF vars, NameInHand, EntryAt
<1>3. ASSUME NEW n \in Names, NEW t \in Texts, NEW ext \in {"txt", "isl"} \cup EditExts,
             Create(n, t, ext)
      PROVE  FALSE
  BY <1>3 DEF Create, CreateOverwrite, CreateAlloc, Alloc
<1>4. ASSUME NEW n \in Names, MkdirAlloc(n) \/ Cd(n) PROVE FALSE
  BY <1>4 DEF MkdirAlloc, Alloc, Cd
<1>5. CASE OverwriteSize \/ CreateData \/ MkdirEntry \/ MkdirInit \/ NoRoom \/ CdUp \/ Crash
  BY <1>5 DEF OverwriteSize, CreateData, MkdirEntry, MkdirInit, NoRoom, CdUp, Crash, Finish
<1> QED BY <1>1, <1>2, <1>3, <1>4, <1>5 DEF Next

\* What NamedStep says of file s of directory d when o is the operation.
Asked(o, d, s) ==
  /\ d = current_clust /\ s = o.slot /\ EntryAt(d, s).stem = o.stem
  /\ o.ext \in {"txt", "isl"} =>
       EntryAt(d, s).ext = o.ext \/ Absent(CurrentSlots, o.stem, o.ext)

\* The file an overwrite finds is the one that was asked for, or that one does
\* not exist: a stem has one file.
LEMMA AskedFound ==
  ASSUME ClusterInv, DirectoryInv, NEW n \in Names, NEW ext \in {"txt", "isl"}, NEW x \in Slots,
         \/ Finds(CurrentSlots, FileStem[n], "txt", x)
         \/ /\ Absent(CurrentSlots, FileStem[n], "txt")
            /\ Finds(CurrentSlots, FileStem[n], "isl", x)
  PROVE  EntryAt(current_clust, x).ext = ext \/ Absent(CurrentSlots, FileStem[n], ext)
<1>1. current_clust \in Clusters /\ \A r \in Slots : CurrentSlots[r] = EntryAt(current_clust, r)
  BY DEF ClusterInv, TypeOK, CurrentSlots, EntryAt
<1>2. CASE Finds(CurrentSlots, FileStem[n], "txt", x)
  <2>1. /\ EntryAt(current_clust, x).kind = "file" /\ EntryAt(current_clust, x).ext = "txt"
        /\ EntryAt(current_clust, x).stem = FileStem[n]
    BY <1>1, <1>2 DEF Finds, Matches, IsEntry, ClusterInv, FoldersBlank
  <2>2. ASSUME NEW r \in Slots, Matches(CurrentSlots[r], FileStem[n], "isl") PROVE FALSE
    <3>1. /\ EntryAt(current_clust, r).kind = "file" /\ EntryAt(current_clust, r).ext = "isl"
          /\ EntryAt(current_clust, r).stem = FileStem[n]
      BY <1>1, <2>2 DEF Matches, IsEntry, ClusterInv, FoldersBlank
    <3>2. x = r
      BY <1>1, <2>1, <3>1 DEF DirectoryInv, OneFilePerStem
    <3> QED BY <2>1, <3>1, <3>2
  <2>3. Absent(CurrentSlots, FileStem[n], "isl")
    BY <2>2 DEF Absent
  <2> QED BY <2>1, <2>3
<1>3. CASE /\ Absent(CurrentSlots, FileStem[n], "txt")
           /\ Finds(CurrentSlots, FileStem[n], "isl", x)
  BY <1>1, <1>3 DEF Finds, Matches
<1> QED BY <1>2, <1>3

LEMMA NamedStep ==
  ASSUME ClusterInv, DirectoryInv, NameInHand, [Next]_vars,
         NEW d \in Clusters, NEW s \in Slots, FileAt(d, s),
         disk[ClusterOf(EntryAt(d, s))].text # disk'[ClusterOf(EntryAt(d, s))].text
  PROVE  \/ pc = "idle" /\ Asked(op', d, s)
         \/ pc = "c_data" /\ Asked(op, d, s)
<1> DEFINE c == ClusterOf(EntryAt(d, s))
<1>0. /\ TypeOK /\ c \in Clusters /\ c[2] = EntryAt(d, s).low /\ c[2] \in Lows
      /\ current_clust \in Clusters
  BY FileElsewhere DEF ClusterInv, TypeOK
<1> DEFINE Goal == \/ pc = "idle" /\ Asked(op', d, s)
                   \/ pc = "c_data" /\ Asked(op, d, s)
<1> SUFFICES Goal
  OBVIOUS
<1>c. disk'[c] # disk[c]
  OBVIOUS
<1> HIDE DEF c
<1>1. ASSUME NEW x \in Clusters, NEW sector, WriteSector(x, sector) PROVE c = x
  BY <1>0, <1>1, <1>c DEF WriteSector, TypeOK
<1>2. ASSUME NEW x \in Slots, NEW e, WriteSlot(x, e) PROVE FALSE
  BY <1>2, <1>c, SlotKeepsTexts DEF c
<1>3. ASSUME NEW n \in Names, NEW t \in Texts, NEW ext \in {"txt", "isl"} \cup EditExts,
             CreateOverwrite(n, t, ext)
      PROVE  Goal
  <2>1. PICK x \in Slots :
          /\ \/ Finds(CurrentSlots, FileStem[n], "txt", x)
             \/ /\ Absent(CurrentSlots, FileStem[n], "txt")
                /\ Finds(CurrentSlots, FileStem[n], "isl", x)
          /\ WriteSector(ClusterOf(CurrentSlots[x]), TextSector(t))
          /\ op' = [NoOp EXCEPT !.stem = FileStem[n], !.ext = ext, !.text = t, !.slot = x]
    BY <1>3 DEF CreateOverwrite
  <2>a. \E e \in {"txt", "isl"} : Finds(CurrentSlots, FileStem[n], e, x)
    BY <2>1
  <2>2. c = ClusterOf(CurrentSlots[x])
    BY <1>0, <1>1, <2>1, CurrentType
  <2>3. EntryAt(d, s).low = CurrentSlots[x].low
    BY <1>0, <2>2 DEF ClusterOf
  <2>4. d = current_clust /\ s = x /\ EntryAt(d, s).stem = FileStem[n]
    BY <2>a, <2>3, OwnFound
  <2>5. op'.slot = x /\ op'.stem = FileStem[n] /\ op'.ext = ext
    BY <2>1 DEF NoOp
  <2>6. ext \in {"txt", "isl"} =>
          EntryAt(d, s).ext = ext \/ Absent(CurrentSlots, FileStem[n], ext)
    BY <2>1, <2>4, AskedFound
  <2>7. Asked(op', d, s)
    BY <2>4, <2>5, <2>6 DEF Asked
  <2> QED BY <1>3, <2>7 DEF CreateOverwrite
<1>4. CASE OverwriteSize \/ CreateEntry \/ MkdirEntry
  <2>1. \E x \in Slots : \E e : WriteSlot(x, e)
    BY <1>0, <1>4 DEF OverwriteSize, CreateEntry, MkdirEntry, TypeOK, Op
  <2> QED BY <1>2, <2>1
<1>5. CASE CreateData
  <2>1. c = <<0, op.low>>
    BY <1>0, <1>1, <1>5, VolumeAssumption DEF CreateData, TypeOK, Op, Clusters
  <2>2. EntryAt(d, s).low = op.low
    BY <1>0, <2>1
  <2>3. pc = "c_data" /\ d = current_clust /\ s = op.slot
    BY <1>5, <2>2, OwnData DEF CreateData
  <2>4. Asked(op, d, s)
    BY <2>3 DEF NameInHand, Asked
  <2> QED BY <2>3, <2>4
<1>6. CASE MkdirInit
  <2>1. c = <<0, op.low>>
    BY <1>0, <1>1, <1>6, VolumeAssumption DEF MkdirInit, TypeOK, Op, Clusters
  <2>2. EntryAt(d, s).low = op.low /\ op.low # 0
    BY <1>0, <2>1, VolumeAssumption DEF Lows
  <2> QED BY <1>6, <2>2 DEF MkdirInit, ClusterInv, InHand, DirectoryAt, NoFileAt, FileAt
<1>7. ASSUME NEW n \in Names, NEW t \in Texts, NEW ext \in {"txt", "isl"} \cup EditExts,
             CreateAlloc(n, t, ext)
      PROVE  FALSE
  BY <1>7, <1>c DEF CreateAlloc, Alloc
<1>8. ASSUME NEW n \in Names, MkdirAlloc(n) \/ Cd(n) PROVE FALSE
  BY <1>8, <1>c DEF MkdirAlloc, Alloc, Cd
<1>9. CASE NoRoom \/ CdUp \/ Crash \/ UNCHANGED vars
  BY <1>9, <1>c DEF NoRoom, CdUp, Crash, vars
<1> QED BY <1>3, <1>4, <1>5, <1>6, <1>7, <1>8, <1>9 DEF Next, Create

\* For any volume and any number of power cuts: an operation changes no text but
\* that of a file of its directory with its stem, and of the .txt and the .isl
\* file the one it was asked for, unless that one does not exist.
THEOREM OthersUntouched == Spec => OnlyNamedFileChanges
<1>1. ClusterInv /\ DirectoryInv /\ NameInHand /\ [Next]_vars =>
        [\A d \in Clusters, s \in Slots :
           LET e == EntryAt(d, s)
               o == IF pc = "idle" THEN op' ELSE op
           IN  /\ Links(d, s) /\ e.kind = "file"
               /\ disk[ClusterOf(e)].text # disk'[ClusterOf(e)].text
               => /\ pc \in {"idle", "c_data"}
                  /\ d = current_clust /\ s = o.slot /\ e.stem = o.stem
                  /\ o.ext \in {"txt", "isl"} =>
                       e.ext = o.ext \/ Absent(CurrentSlots, o.stem, o.ext)]_vars
  BY NamedStep DEF FileAt, Asked
<1>2. Init => DirectoryInv /\ NameInHand
  BY DirectoryInit DEF Init, NameInHand
<1>3. ClusterInv /\ NameInHand /\ [Next]_vars => NameInHand'
  BY NameStep DEF ClusterInv
<1> QED BY <1>1, <1>2, <1>3, ClusterInit, ClusterStep, DirectoryStep, PTL
        DEF Spec, OnlyNamedFileChanges

\* The text in the cluster of entry s of directory d, and that its size is that
\* of the entry.
TextOf(d, s) == disk[<<0, EntryAt(d, s).low>>].text
Low0(e, t)   == e.size0 = TextLen[t] % Byte
High1(e, t)  == e.size1 = (TextLen[t] \div Byte) % Byte
Sized(d, s)  ==
  /\ TextOf(d, s) \in Texts
  /\ TextLen[TextOf(d, s)] < SectorSize =>
       /\ Low0(EntryAt(d, s), TextOf(d, s))
       /\ <<d, s>> \notin rewritten => High1(EntryAt(d, s), TextOf(d, s))

SizedFiles ==
  crashes = 0 =>
    \A d \in Clusters, s \in Slots : FileAt(d, s) /\ ~InFlight(d, s) => Sized(d, s)

\* What the two steps of an operation pass on: the text is in the cluster when
\* its size is written, and the size in the entry when the text is.
HalfWritten ==
  /\ pc = "ow_size" /\ FileAt(current_clust, op.slot) =>
       TextOf(current_clust, op.slot) = Cut[op.text]
  /\ pc = "c_data" =>
       Low0(EntryAt(current_clust, op.slot), op.text) /\ High1(EntryAt(current_clust, op.slot), op.text)

\* A text that leaves room in its sector has not been cut.
LEMMA CutText ==
  ASSUME NEW t \in Texts
  PROVE  Cut[t] \in Texts /\ (TextLen[Cut[t]] < SectorSize => Cut[t] = t)
BY TextAssumption

\* A step after which every file was there before, with its text, or has just
\* been completed, or is in flight.
LEMMA SizesKept ==
  ASSUME SizedFiles, crashes' = crashes, rewritten \subseteq rewritten',
         \A d \in Clusters, s \in Slots :
           FileAt(d, s)' /\ ~InFlight(d, s)' =>
             \/ Sized(d, s)'
             \/ /\ FileAt(d, s) /\ ~InFlight(d, s)
                /\ EntryAt(d, s)' = EntryAt(d, s) /\ TextOf(d, s)' = TextOf(d, s)
  PROVE  SizedFiles'
<1> SUFFICES ASSUME crashes = 0, NEW d \in Clusters, NEW s \in Slots,
                    FileAt(d, s)', ~InFlight(d, s)'
             PROVE  Sized(d, s)'
  BY DEF SizedFiles
<1> SUFFICES ASSUME FileAt(d, s), ~InFlight(d, s),
                    EntryAt(d, s)' = EntryAt(d, s), TextOf(d, s)' = TextOf(d, s)
             PROVE  Sized(d, s)'
  OBVIOUS
<1>1. Sized(d, s)
  BY DEF SizedFiles
<1> QED BY <1>1 DEF Sized, Low0, High1

LEMMA SizesStep ==
  HighWords = {0} /\ ClusterInv /\ SlotInHand /\ HalfWritten /\ SizedFiles /\ [Next]_vars
    => HalfWritten' /\ SizedFiles'
<1> SUFFICES ASSUME HighWords = {0}, ClusterInv, SlotInHand, HalfWritten, SizedFiles, [Next]_vars
             PROVE  HalfWritten' /\ SizedFiles'
  OBVIOUS
<1>0. TypeOK /\ TextInHand /\ EntryType /\ current_clust \in Clusters
  BY EntriesAreEntries DEF ClusterInv, TypeOK
<1>1. \A d \in Clusters, s \in Slots : FileAt(d, s) =>
        /\ EntryAt(d, s).low \in Lows /\ EntryAt(d, s).low # 0
        /\ <<0, EntryAt(d, s).low>> \in Clusters
        /\ ClusterOf(EntryAt(d, s)) = <<0, EntryAt(d, s).low>>
  BY <1>0, FileElsewhere, LowWord, VolumeAssumption DEF Lows, EntryType
\* Steps that leave the disk alone, with nothing in flight.
<1>2. ASSUME UNCHANGED <<disk, crashes, rewritten>>, pc \notin {"ow_size", "c_data", "m_init"},
             pc' \notin {"ow_size", "c_data"}
      PROVE  HalfWritten' /\ SizedFiles'
  <2>1. \A d \in Clusters, s \in Slots :
          EntryAt(d, s)' = EntryAt(d, s) /\ TextOf(d, s)' = TextOf(d, s)
    BY <1>2 DEF EntryAt, TextOf
  <2>2. SizedFiles'
    BY <1>2, <2>1, SizesKept DEF FileAt, Links, InFlight
  <2> QED BY <1>2, <2>2 DEF HalfWritten
\* Writing a sector: what files and texts are left.
<1>3. ASSUME NEW c \in Clusters, NEW x \in Sector, WriteSector(c, x),
             \A r \in Slots : x.slots[r].kind # "file",
             NEW d \in Clusters, NEW s \in Slots, FileAt(d, s)'
      PROVE  /\ FileAt(d, s) /\ EntryAt(d, s)' = EntryAt(d, s)
             /\ TextOf(d, s)' = IF <<0, EntryAt(d, s).low>> = c THEN x.text ELSE TextOf(d, s)
  <2>1. \A e \in Clusters, r \in Slots :
          EntryAt(e, r)' = IF e = c THEN x.slots[r] ELSE EntryAt(e, r)
    BY <1>0, <1>3, WriteSectorEffect
  <2>2. EntryAt(d, s)' = EntryAt(d, s) /\ FileAt(d, s)
    BY <1>3, <2>1 DEF FileAt, Links
  <2>3. <<0, EntryAt(d, s).low>> \in Clusters
    BY <1>1, <2>2
  <2>4. TextOf(d, s)' = disk'[<<0, EntryAt(d, s).low>>].text
    BY <2>2 DEF TextOf
  <2> QED BY <1>0, <1>3, <2>2, <2>3, <2>4 DEF WriteSector, TextOf, TypeOK
\* Writing a slot: texts of files are left alone.
<1>4. ASSUME NEW x \in Slots, NEW e \in Entry, WriteSlot(x, e), UNCHANGED current_clust
      PROVE  /\ EntryAt(current_clust, x)' = e
             /\ \A d \in Clusters, s \in Slots :
                  ~(d = current_clust /\ s = x) => EntryAt(d, s)' = EntryAt(d, s)
             /\ \A d \in Clusters, s \in Slots :
                  FileAt(d, s) /\ EntryAt(d, s)'.low = EntryAt(d, s).low =>
                    TextOf(d, s)' = TextOf(d, s)
  <2>1. \A d \in Clusters, r \in Slots :
          EntryAt(d, r)' = IF d = current_clust /\ r = x THEN e ELSE EntryAt(d, r)
    BY <1>0, <1>4, WriteSlotEffect
  <2>2. ASSUME NEW d \in Clusters, NEW s \in Slots, FileAt(d, s),
               EntryAt(d, s)'.low = EntryAt(d, s).low
        PROVE  TextOf(d, s)' = TextOf(d, s)
    <3>1. disk'[ClusterOf(EntryAt(d, s))] = disk[ClusterOf(EntryAt(d, s))]
      BY <1>4, <2>2, SlotKeepsTexts
    <3>2. TextOf(d, s)' = disk'[<<0, EntryAt(d, s).low>>].text
      BY <2>2 DEF TextOf
    <3> QED BY <1>1, <2>2, <3>1, <3>2 DEF TextOf
  <2> QED BY <1>0, <1>4, <2>1, <2>2
<1>5. ASSUME NEW n \in Names, NEW t \in Texts, NEW ext \in {"txt", "isl"} \cup EditExts,
             CreateOverwrite(n, t, ext)
      PROVE  HalfWritten' /\ SizedFiles'
  <2>1. PICK x \in Slots :
          /\ \E e \in {"txt", "isl"} : Finds(CurrentSlots, FileStem[n], e, x)
          /\ WriteSector(ClusterOf(CurrentSlots[x]), TextSector(t))
          /\ op' = [NoOp EXCEPT !.stem = FileStem[n], !.ext = ext, !.text = t, !.slot = x]
    BY <1>5 DEF CreateOverwrite
  <2> DEFINE c == ClusterOf(CurrentSlots[x])
  <2>2. /\ c \in Clusters /\ c = <<0, EntryAt(current_clust, x).low>>
        /\ CurrentSlots[x] = EntryAt(current_clust, x)
    BY <1>0, CurrentType, LowWord
  <2>3. TextSector(t) \in Sector /\ TextSector(t).text = Cut[t]
        /\ \A r \in Slots : TextSector(t).slots[r].kind # "file"
    BY SectorTypes DEF TextSector, Junk, End, Blank
  <2>4. /\ pc = "idle" /\ pc' = "ow_size" /\ UNCHANGED <<current_clust, crashes, rewritten>>
        /\ op'.slot = x /\ op'.text = t
    BY <1>5, <2>1 DEF CreateOverwrite, NoOp
  <2> HIDE DEF c
  <2>5. \A d \in Clusters, s \in Slots : FileAt(d, s)' =>
          /\ FileAt(d, s) /\ EntryAt(d, s)' = EntryAt(d, s)
          /\ TextOf(d, s)' = IF <<0, EntryAt(d, s).low>> = c THEN Cut[t] ELSE TextOf(d, s)
    BY <1>3, <2>1, <2>2, <2>3 DEF c
  <2>6. \A d \in Clusters, s \in Slots :
          FileAt(d, s) /\ <<0, EntryAt(d, s).low>> = c => d = current_clust /\ s = x
    BY <2>1, <2>2, OwnFound
  <2>7. SizedFiles'
    BY <2>4, <2>5, <2>6, SizesKept DEF InFlight
  <2>8. pc' = "ow_size" /\ FileAt(current_clust, op.slot)' =>
          TextOf(current_clust, op.slot)' = Cut[op'.text]
    <3> SUFFICES ASSUME FileAt(current_clust, op.slot)'
                 PROVE  TextOf(current_clust, op.slot)' = Cut[t]
      BY <2>4
    <3>1. /\ FileAt(current_clust, op.slot)' = FileAt(current_clust, x)'
          /\ TextOf(current_clust, op.slot)' = TextOf(current_clust, x)'
      BY <2>4 DEF FileAt, Links, TextOf, EntryAt
    <3> QED BY <1>0, <2>2, <2>4, <2>5, <3>1
  <2> QED BY <2>4, <2>7, <2>8 DEF HalfWritten
<1>6. CASE OverwriteSize
  <2> DEFINE e == [CurrentSlots[op.slot] EXCEPT !.size0 = TextLen[op.text] % Byte]
  <2> DEFINE old == EntryAt(current_clust, op.slot)
  <2>1. op.slot \in Slots /\ TextLen[op.text] \in Nat /\ CurrentSlots[op.slot] \in Entry
        /\ CurrentSlots[op.slot] = old /\ op.text \in Texts
    BY <1>0, <1>6, TextAssumption, CurrentType DEF OverwriteSize, TypeOK, TextInHand, Op
  <2>2. e \in Entry /\ e.kind = old.kind /\ e.low = old.low /\ Low0(e, op.text)
    BY <2>1, ByteOfLength DEF Entry, Low0
  <2>3. /\ WriteSlot(op.slot, e) /\ UNCHANGED <<current_clust, crashes>>
        /\ rewritten' = rewritten \cup {<<current_clust, op.slot>>}
        /\ pc = "ow_size" /\ pc' = "idle"
    BY <1>6 DEF OverwriteSize, Finish
  <2> HIDE DEF e
  <2>4. /\ \A d \in Clusters, s \in Slots :
             ~(d = current_clust /\ s = op.slot) => EntryAt(d, s)' = EntryAt(d, s)
        /\ \A d \in Clusters, s \in Slots :
             FileAt(d, s) /\ EntryAt(d, s)'.low = EntryAt(d, s).low =>
               TextOf(d, s)' = TextOf(d, s)
        /\ \A s \in Slots : s = op.slot => EntryAt(current_clust, s)' = e
    BY <1>4, <2>1, <2>2, <2>3
  <2>5. ASSUME NEW d \in Clusters, NEW s \in Slots, FileAt(d, s)'
        PROVE  \/ Sized(d, s)'
               \/ /\ FileAt(d, s) /\ ~InFlight(d, s)
                  /\ EntryAt(d, s)' = EntryAt(d, s) /\ TextOf(d, s)' = TextOf(d, s)
    <3>1. CASE d = current_clust /\ s = op.slot
      <4>1. EntryAt(d, s)' = e /\ FileAt(d, s)
        BY <2>2, <2>3, <2>4, <2>5, <3>1 DEF FileAt, Links, IsEntry
      <4>2. TextOf(d, s) = Cut[op.text]
        BY <2>3, <3>1, <4>1 DEF HalfWritten
      <4>3. TextOf(d, s)' = Cut[op.text]
        BY <2>2, <2>4, <3>1, <4>1, <4>2
      <4>4. <<d, s>> \in rewritten'
        BY <2>3, <3>1
      <4> QED BY <2>1, <2>2, <4>1, <4>3, <4>4, CutText DEF Sized
    <3>2. CASE ~(d = current_clust /\ s = op.slot)
      <4>1. EntryAt(d, s)' = EntryAt(d, s) /\ FileAt(d, s)
        BY <2>4, <2>5, <3>2 DEF FileAt, Links
      <4> QED BY <2>4, <3>2, <4>1 DEF InFlight
    <3> QED BY <3>1, <3>2
  <2>6. SizedFiles'
    BY <2>3, <2>5, SizesKept
  <2> QED BY <2>3, <2>6 DEF HalfWritten
\* A new entry: what else there is stays.
<1>7. ASSUME NEW x \in Slots, NEW e \in Entry, WriteSlot(x, e),
             UNCHANGED <<current_clust, crashes, rewritten>>,
             pc \in {"c_entry", "m_entry"}, op'.slot = x,
             pc' \in {"c_data", "m_init"}
      PROVE  SizedFiles' /\ EntryAt(current_clust, x)' = e
  <2>1. \A d \in Clusters, s \in Slots :
          FileAt(d, s)' /\ ~(d = current_clust /\ s = x) =>
            /\ FileAt(d, s) /\ EntryAt(d, s)' = EntryAt(d, s)
            /\ TextOf(d, s)' = TextOf(d, s)
    BY <1>4, <1>7 DEF FileAt, Links
  <2>2. SizedFiles'
    BY <1>7, <2>1, SizesKept DEF InFlight
  <2> QED BY <1>4, <1>7, <2>2
<1>8. CASE CreateEntry
  <2>1. PICK x \in Slots : /\ WriteSlot(x, FileEntry(CurrentSlots[x]))
                           /\ op' = [op EXCEPT !.slot = x]
    BY <1>8 DEF CreateEntry
  <2>a. CurrentSlots[x] \in Entry
    BY <1>0, CurrentType
  <2>b. FileEntry(CurrentSlots[x]) \in Entry /\ op'.slot = x /\ op'.text = op.text
    BY <1>0, <1>8, <2>1, <2>a, FileEntryType DEF CreateEntry, TypeOK, Op
  <2>2. /\ FileEntry(CurrentSlots[x]) \in Entry
        /\ Low0(FileEntry(CurrentSlots[x]), op.text) /\ High1(FileEntry(CurrentSlots[x]), op.text)
        /\ op'.slot = x /\ op'.text = op.text
    BY <2>a, <2>b DEF FileEntry, Entry, Low0, High1
  <2>3. SizedFiles' /\ EntryAt(current_clust, x)' = FileEntry(CurrentSlots[x])
    BY <1>7, <1>8, <2>1, <2>2 DEF CreateEntry
  <2>4. EntryAt(current_clust, op.slot)' = EntryAt(current_clust, x)'
    BY <2>2 DEF EntryAt
  <2>5. Low0(EntryAt(current_clust, op.slot)', op'.text) /\ High1(EntryAt(current_clust, op.slot)', op'.text)
    BY <2>2, <2>3, <2>4
  <2> QED BY <1>8, <2>3, <2>5 DEF CreateEntry, HalfWritten, Low0, High1
<1>9. CASE MkdirEntry
  <2>1. PICK x \in Slots : /\ WriteSlot(x, FolderEntry(CurrentSlots[x]))
                           /\ op' = [op EXCEPT !.slot = x]
    BY <1>9 DEF MkdirEntry
  <2>2. FolderEntry(CurrentSlots[x]) \in Entry /\ op'.slot = x
    BY <1>0, <2>1, CurrentType, FolderEntryType DEF TypeOK, Op
  <2> QED BY <1>7, <1>9, <2>1, <2>2 DEF MkdirEntry, HalfWritten
<1>10. CASE CreateData
  <2>1. <<0, op.low>> \in Clusters /\ op.text \in Texts /\ op.slot \in Slots
    BY <1>0, <1>10, VolumeAssumption DEF CreateData, TypeOK, TextInHand, Op, Clusters
  <2>2. TextSector(op.text) \in Sector /\ TextSector(op.text).text = Cut[op.text]
        /\ \A r \in Slots : TextSector(op.text).slots[r].kind # "file"
    BY <2>1, SectorTypes DEF TextSector, Junk, End, Blank
  <2>3. /\ WriteSector(<<0, op.low>>, TextSector(op.text)) /\ UNCHANGED <<crashes, rewritten>>
        /\ pc = "c_data" /\ pc' = "idle"
    BY <1>10 DEF CreateData, Finish
  <2>4. \A d \in Clusters, s \in Slots : FileAt(d, s)' =>
          /\ FileAt(d, s) /\ EntryAt(d, s)' = EntryAt(d, s)
          /\ TextOf(d, s)' = IF <<0, EntryAt(d, s).low>> = <<0, op.low>> THEN Cut[op.text] ELSE TextOf(d, s)
    BY <1>3, <2>1, <2>2, <2>3
  <2>5. ASSUME NEW d \in Clusters, NEW s \in Slots, FileAt(d, s)'
        PROVE  \/ Sized(d, s)'
               \/ /\ FileAt(d, s) /\ ~InFlight(d, s)
                  /\ EntryAt(d, s)' = EntryAt(d, s) /\ TextOf(d, s)' = TextOf(d, s)
    <3>1. CASE EntryAt(d, s).low = op.low
      <4>1. d = current_clust /\ s = op.slot
        BY <2>3, <2>4, <2>5, <3>1, OwnData
      <4>2. Low0(EntryAt(d, s), op.text) /\ High1(EntryAt(d, s), op.text)
        BY <2>3, <4>1 DEF HalfWritten
      <4>3. EntryAt(d, s)' = EntryAt(d, s) /\ TextOf(d, s)' = Cut[op.text]
        BY <2>4, <2>5, <3>1
      <4> QED BY <2>1, <4>2, <4>3, CutText DEF Sized, Low0, High1
    <3>2. CASE EntryAt(d, s).low # op.low
      <4>1. ~InFlight(d, s)
        BY <2>3, <3>2 DEF InFlight, ClusterInv, InHand
      <4> QED BY <2>4, <2>5, <3>2, <4>1
    <3> QED BY <3>1, <3>2
  <2>6. SizedFiles'
    BY <2>3, <2>5, SizesKept
  <2> QED BY <2>3, <2>6 DEF HalfWritten
<1>11. CASE MkdirInit
  <2>1. <<0, op.low>> \in Clusters /\ NewDirSector(op.low) \in Sector
        /\ \A r \in Slots : NewDirSector(op.low).slots[r].kind # "file"
    BY <1>0, VolumeAssumption, SectorTypes
       DEF TypeOK, Op, Clusters, NewDirSector, DotEntry, Blank, End
  <2>2. /\ WriteSector(<<0, op.low>>, NewDirSector(op.low)) /\ UNCHANGED <<crashes, rewritten>>
        /\ pc = "m_init" /\ pc' = "idle"
    BY <1>11 DEF MkdirInit, Finish
  <2>3. \A d \in Clusters, s \in Slots : FileAt(d, s)' =>
          /\ FileAt(d, s) /\ EntryAt(d, s)' = EntryAt(d, s)
          /\ EntryAt(d, s).low # op.low => TextOf(d, s)' = TextOf(d, s)
    BY <1>3, <2>1, <2>2
  <2>4. \A d \in Clusters, s \in Slots : FileAt(d, s) => EntryAt(d, s).low # op.low
    BY <1>1, <2>2 DEF ClusterInv, InHand, DirectoryAt, NoFileAt, FileAt
  <2>5. \A d \in Clusters, s \in Slots : InFlight(d, s) => ~FileAt(d, s)
    BY <2>2, <2>4 DEF InFlight, SlotInHand
  <2>6. SizedFiles'
    BY <2>2, <2>3, <2>4, <2>5, SizesKept
  <2> QED BY <2>2, <2>6 DEF HalfWritten
<1>12. ASSUME NEW n \in Names, NEW t \in Texts, NEW ext \in {"txt", "isl"} \cup EditExts,
              CreateAlloc(n, t, ext)
       PROVE  HalfWritten' /\ SizedFiles'
  BY <1>2, <1>12 DEF CreateAlloc, Alloc
<1>13. ASSUME NEW n \in Names, MkdirAlloc(n) \/ Cd(n) PROVE HalfWritten' /\ SizedFiles'
  BY <1>2, <1>13 DEF MkdirAlloc, Alloc, Cd
<1>14. CASE NoRoom \/ CdUp
  BY <1>2, <1>14 DEF NoRoom, CdUp, Finish
<1>15. CASE Crash
  <2>1. crashes' # 0 /\ pc' = "idle"
    BY <1>0, <1>15, VolumeAssumption DEF Crash, Finish, TypeOK
  <2> QED BY <2>1 DEF HalfWritten, SizedFiles
<1>16. CASE UNCHANGED vars
  BY <1>16 DEF vars, HalfWritten, SizedFiles, Sized, Low0, High1, TextOf, FileAt, Links, InFlight, EntryAt
<1> QED BY <1>5, <1>6, <1>8, <1>9, <1>10, <1>11, <1>12, <1>13, <1>14, <1>15, <1>16 DEF Next, Create

\* Without a power cut, and when no deleted entry has a high word to leave
\* behind, the stored size of every file is the length of the text in its
\* cluster, up to a text that fills the sector and, once the file has been
\* overwritten, in the low byte alone.
THEOREM SizesAreTrue == HighWords = {0} => (Spec => []SizeMatchesText)
<1> SUFFICES ASSUME HighWords = {0} PROVE Spec => []SizeMatchesText
  OBVIOUS
<1>1. Init => SlotInHand /\ DirectoryReachable /\ HalfWritten /\ SizedFiles
  <2> SUFFICES ASSUME Init PROVE SlotInHand /\ DirectoryReachable /\ HalfWritten /\ SizedFiles
    OBVIOUS
  <2>1. \A d \in Clusters, s \in Slots : ~IsEntry(EntryAt(d, s))
    BY DEF Init, EntryAt, IsEntry, ZeroSector, TextSector, Blank, End, Junk, Root
  <2> QED BY <2>1 DEF Init, SlotInHand, DirectoryReachable, HalfWritten, SizedFiles, FileAt, Links
<1>2. /\ ClusterInv /\ SlotInHand /\ DirectoryReachable /\ HalfWritten /\ SizedFiles /\ [Next]_vars
      => SlotInHand' /\ DirectoryReachable' /\ HalfWritten' /\ SizedFiles'
  BY ReachStep, SizesStep
<1>3. ClusterInv /\ SizedFiles => SizeMatchesText
  <2> SUFFICES ASSUME ClusterInv, SizedFiles, crashes = 0, NEW d \in Clusters, NEW s \in Slots,
                      FileAt(d, s), ~InFlight(d, s)
               PROVE  LET e == EntryAt(d, s)
                          t == disk[ClusterOf(e)].text
                      IN  /\ t \in Texts
                          /\ TextLen[t] < SectorSize =>
                               /\ e.size0 = TextLen[t] % Byte
                               /\ <<d, s>> \notin rewritten => e.size1 = (TextLen[t] \div Byte) % Byte
    BY DEF SizeMatchesText, FileAt
  <2>1. ClusterOf(EntryAt(d, s)) = <<0, EntryAt(d, s).low>>
    BY EntriesAreEntries, LowWord DEF ClusterInv, EntryType
  <2>2. Sized(d, s)
    BY DEF SizedFiles
  <2> QED BY <2>1, <2>2 DEF Sized, Low0, High1, TextOf
<1> QED BY <1>1, <1>2, <1>3, ClusterInit, ClusterStep, PTL DEF Spec
=============================================================================
