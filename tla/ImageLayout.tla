---------------------------- MODULE ImageLayout ----------------------------
(***************************************************************************)
(* The partition tables of the image: Inspect reads the MBR                *)
(* (src/internal/mikrotik/image.go), validateOfficialUEFIGPT compares MBR, *)
(* primary and backup GPT with the one geometry that was tested (gpt.go).  *)
(* Positions are sectors, and the image is smaller than an official one.   *)
(* Signatures, revisions and checksums are one flag: they hold or not.     *)
(***************************************************************************)
EXTENDS Naturals, FiniteSets, Sequences, Functions

CONSTANTS ImageSectors,    \* officialCHRImageSectors
          TableSectors,    \* officialGPTTableSectors
          BootSectors,     \* officialBootSectors
          SystemSectors    \* officialSystemSectors

\* Primary header and table, the two partitions, backup table and backup header.
FirstUsable == 2 + TableSectors
SystemStart == FirstUsable + BootSectors
BackupTable == SystemStart + SystemSectors
BackupHeader == ImageSectors - 1

ASSUME ImageLayoutAssumption ==
    /\ {ImageSectors, TableSectors, BootSectors, SystemSectors} \subseteq Nat \ {0}
    /\ BackupTable + TableSectors <= BackupHeader

Sectors(start, count) == {s \in 0..(start + count) : start <= s /\ s < start + count}

----------------------------------------------------------------------------
(* Inspect.  An entry has a type ("none", "linux" or "other"), a boot flag   *)
(* ("off", "on" or "invalid"), a start and a length.                       *)

MBREntry ==
    [type : {"none", "linux", "other"}, flag : {"off", "on", "invalid"}, start : Nat, sectors : Nat]

Used(mbr) == {i \in DOMAIN mbr : mbr[i].type # "none" /\ mbr[i].sectors # 0}

\* What sorting by the start may come to: partitions with the same start are left in
\* any order.
Ordered(mbr) ==
    {s \in [1..Cardinality(Used(mbr)) -> Used(mbr)] :
        /\ IsInjective(s)
        /\ \A k \in 2..Cardinality(Used(mbr)) : mbr[s[k - 1]].start <= mbr[s[k]].start}

\* Mutant: the entries are compared in the order of the table.
NeighboursInTable(mbr) ==
    \A i, j \in Used(mbr) :
        j = i + 1 => mbr[j].start >= mbr[i].start + mbr[i].sectors

\* Each partition ends where the next one starts, or before.
NeighboursApart(mbr) ==
    \E s \in Ordered(mbr) : \A k \in 2..Cardinality(Used(mbr)) :
        mbr[s[k]].start >= mbr[s[k - 1]].start + mbr[s[k - 1]].sectors

Inspected(mbr, size) ==
    /\ Used(mbr) # {}
    /\ \A i \in Used(mbr) : /\ mbr[i].flag \in {"off", "on"}
                            /\ 1 <= mbr[i].start /\ mbr[i].start + mbr[i].sectors <= size
    /\ NeighboursApart(mbr)

----------------------------------------------------------------------------
(* validateOfficialUEFIGPT *)

OfficialMBR(mbr) ==
    /\ Used(mbr) = {1, 2}
    /\ mbr[1] = [type |-> "linux", flag |-> "on", start |-> FirstUsable, sectors |-> BootSectors]
    /\ mbr[2] = [type |-> "linux", flag |-> "off", start |-> SystemStart, sectors |-> SystemSectors]

\* readGPTMetadata: the GPT with the header in sector lba.  count: sectors of its table.
ReadableGPT(image, lba) ==
    LET gpt == image.gpt[lba]
    IN /\ lba < ImageSectors /\ lba \in DOMAIN image.gpt
       /\ gpt.sound /\ gpt.current = lba /\ gpt.backup < ImageSectors
       /\ gpt.first <= gpt.last /\ gpt.last < ImageSectors
       /\ gpt.count # 0 /\ gpt.table < ImageSectors
       /\ gpt.count <= ImageSectors - gpt.table

OfficialHeaders(primary, backup) ==
    /\ primary.current = 1 /\ primary.backup = BackupHeader
    /\ primary.first = FirstUsable /\ primary.last = BackupTable - 1
    /\ primary.table = 2 /\ primary.count = TableSectors
    /\ backup.current = BackupHeader /\ backup.backup = 1
    /\ backup.first = primary.first /\ backup.last = primary.last
    /\ backup.table = BackupTable /\ backup.count = primary.count
    /\ primary.guid = backup.guid /\ primary.guid # "zero"

\* Mutant: the partition tables are not compared.
AnyBackupTable(primary, backup) == TRUE

SameTables(primary, backup) == primary.entries = backup.entries

Esp == [type |-> "esp", first |-> FirstUsable, last |-> SystemStart - 1]
System == [type |-> "linux", first |-> SystemStart, last |-> BackupTable - 1]

OfficialGPT(image) ==
    /\ OfficialMBR(image.mbr)
    /\ ReadableGPT(image, 1)
    /\ ReadableGPT(image, image.gpt[1].backup)
    /\ OfficialHeaders(image.gpt[1], image.gpt[image.gpt[1].backup])
    /\ SameTables(image.gpt[1], image.gpt[image.gpt[1].backup])
    /\ image.gpt[1].entries = <<Esp, System>>    \* which is where the MBR has them

\* prepareUEFIImage writes the ESP over the partition that the MBR names.
Rewritten(image) == Sectors(image.mbr[1].start, image.mbr[1].sectors)

----------------------------------------------------------------------------
(* What is on the image, for whoever reads it. *)

Apart(mbr) ==
    \A i, j \in Used(mbr) :
        i # j => Sectors(mbr[i].start, mbr[i].sectors) \cap Sectors(mbr[j].start, mbr[j].sectors) = {}

\* A reader of the GPT in sector lba finds the ESP where it was rewritten, and
\* neither another partition nor a header or table has been touched.
EspOf(image, lba) ==
    LET gpt == image.gpt[lba]
        range(e) == Sectors(e.first, (e.last + 1) - e.first)
    IN /\ \E i \in DOMAIN gpt.entries :
            /\ gpt.entries[i].type = "esp" /\ range(gpt.entries[i]) = Rewritten(image)
            /\ \A j \in DOMAIN gpt.entries :
                i # j => range(gpt.entries[j]) \cap Rewritten(image) = {}
       /\ ({0, lba} \cup Sectors(gpt.table, gpt.count)) \cap Rewritten(image) = {}
=============================================================================
