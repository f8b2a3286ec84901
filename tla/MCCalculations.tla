--------------------------- MODULE MCCalculations ---------------------------
(* Questions for Calculations. *)
EXTENDS Calculations

MCNode == 1..4

\* Device 1 is a disk, the others lie on devices before them.
Devices(n) ==
    {<<"sd", {}>>, <<"loop", {}>>}
    \cup ({"part", "crypt"} \X {{m} : m \in 1..(n - 1)})
    \cup ({"bcache", "lvm", "raid"} \X
            {s \in SUBSET (1..(n - 1)) : Cardinality(s) \in {1, 2}})

MCDevices ==
    {<<<<"sd", {}>>, d2, d3, d4>> : d2 \in Devices(2), d3 \in Devices(3), d4 \in Devices(4)}

\* How / lies on the devices: on the one that is found by its path or its last name, on
\* that and device 1, or on others; or on none of them.
Systems ==
    {[path |-> l[1], last |-> l[2], holds |-> h, live |-> FALSE, btrfs |-> btrfs,
      fixed |-> MCNode, mounted |-> {4}] :
        l \in (MCNode \X {0}) \cup ({0} \X {2, 4}), h \in {{1}, {2}, {1, 3}, {4}},
        btrfs \in BOOLEAN}
    \cup [path : {0}, last : {0}, holds : {{}}, live : BOOLEAN, btrfs : {FALSE},
          fixed : {MCNode, {1, 3, 4}, {2, 3, 4}}, mounted : {{}, {1}, {2}, {3}, {4}}]

MCGraphs ==
    {[kind |-> [n \in MCNode |-> d[n][1]], parents |-> [n \in MCNode |-> d[n][2]],
      path |-> s.path, last |-> s.last, holds |-> s.holds, live |-> s.live, btrfs |-> s.btrfs,
      fixed |-> s.fixed, mounted |-> s.mounted] : d \in MCDevices, s \in Systems}

\* An MBR on an image of six sectors, three entries of it.
MCEntries ==
    [type : {"linux"}, flag : {"off"}, start : 0..6, sectors : 1..3]
    \cup [type : {"none", "other"}, flag : {"on", "invalid"}, start : {2}, sectors : {0, 2}]
MCTables == [mbr : [1..3 -> MCEntries], size : {6}]

\* The official tables, and those that differ from it in one field of the MBR and one of
\* each GPT.
OfficialTable ==
    <<[type |-> "linux", flag |-> "on", start |-> FirstUsable, sectors |-> BootSectors],
      [type |-> "linux", flag |-> "off", start |-> SystemStart, sectors |-> SystemSectors],
      [type |-> "none", flag |-> "off", start |-> 0, sectors |-> 0]>>

OfficialHeader(lba) ==
    [sound |-> TRUE, current |-> lba, backup |-> IF lba = 1 THEN BackupHeader ELSE 1,
     first |-> FirstUsable, last |-> BackupTable - 1,
     table |-> IF lba = 1 THEN 2 ELSE BackupTable, count |-> TableSectors,
     guid |-> "guid", entries |-> <<Esp, System>>]

Variants(gpt) ==
    {gpt, [gpt EXCEPT !.sound = FALSE], [gpt EXCEPT !.guid = "zero"], [gpt EXCEPT !.guid = "other"]}
    \cup {[gpt EXCEPT !.current = @ + 1], [gpt EXCEPT !.backup = 2], [gpt EXCEPT !.backup = ImageSectors],
          [gpt EXCEPT !.first = @ + 1], [gpt EXCEPT !.last = ImageSectors]}
    \cup {[gpt EXCEPT !.table = t] : t \in {3, FirstUsable, ImageSectors}}
    \cup {[gpt EXCEPT !.count = c] : c \in {0, TableSectors + 1, ImageSectors}}
    \cup {[gpt EXCEPT !.entries = e] :
            e \in {<<Esp>>, <<System, Esp>>, <<Esp, System, System>>,
                   <<[Esp EXCEPT !.last = @ - 1], System>>, <<[Esp EXCEPT !.last = @ + 1], System>>,
                   <<Esp, [System EXCEPT !.first = @ - 1]>>}}

MBRs ==
    {OfficialTable} \cup {[OfficialTable EXCEPT ![1].start = 1], [OfficialTable EXCEPT ![1].flag = "off"]}
    \cup {[OfficialTable EXCEPT ![i].sectors = n] : i \in {1, 2}, n \in {0, 2, 3, 4}}
    \cup {[OfficialTable EXCEPT ![3] = [type |-> "other", flag |-> "off", start |-> FirstUsable,
                                        sectors |-> 1]]}

MCImages ==
    {[mbr |-> m, gpt |-> [lba \in {1, BackupHeader} |-> IF lba = 1 THEN p ELSE b]] :
        m \in MBRs, p \in Variants(OfficialHeader(1)), b \in Variants(OfficialHeader(BackupHeader))}
=============================================================================
