------------------------------- MODULE Fat16 -------------------------------
(***************************************************************************)
(* The EFI system partition: buildUEFIFAT16 lays two directories and two   *)
(* files out in clusters, validateUEFIFAT16 reads them back through the    *)
(* allocation table (src/internal/mikrotik/fat16.go).  A partition is      *)
(* validated twice, when it was built and when it was read back from the   *)
(* image.  The boot sector, dates and attributes other than "directory"    *)
(* are left out; a cell stands for a unit of data.                         *)
(***************************************************************************)
EXTENDS Naturals, Sequences

CONSTANTS Clusters,       \* data clusters of the partition
          Entries,        \* entries of the allocation table
          ClusterCells,   \* fat16ClusterBytes
          EndMark,        \* 0xfff8: this and greater entries end a chain
          LastWord,       \* 0xffff
          MinLoader,      \* 0x88: what holds the headers of an EFI loader
          MaxLoader,      \* maxEFILoaderBytes
          MapUnit,        \* the map consists of words of 4 bytes
          MaxMap          \* maxEFIMapBytes

ASSUME Fat16Assumption ==
    /\ Clusters \in Nat /\ ClusterCells \in Nat \ {0}
    /\ Entries \in Nat /\ Clusters + 2 <= Entries
    /\ EndMark \in Nat /\ LastWord \in Nat /\ Entries < EndMark /\ EndMark <= LastWord
    /\ MinLoader \in Nat \ {0} /\ MaxLoader \in Nat /\ MapUnit \in Nat \ {0} /\ MaxMap \in Nat

BadMark == EndMark - 1
ClusterNumbers == 2..(Clusters + 1)
FatWords == 0..LastWord

Zero == <<"zero", 0>>
Content(file, length) == [i \in 1..length |-> <<file, i>>]

DirEntry(cluster, size, isDir) == [cluster |-> cluster, size |-> size, isDir |-> isDir]

\* fat, copy: the two allocation tables.  data: the cells of a cluster.  root, dirs:
\* the root directory, and the directory a cluster holds, from names to entries.

----------------------------------------------------------------------------
(* buildUEFIFAT16 *)

\* Mutant: what is left of a file gets no cluster.
WholeClusters(length) == length \div ClusterCells

ClustersOf(length) == (length + ClusterCells - 1) \div ClusterCells

\* fat16.go: the greatest files take 8192 + 512 clusters, the directories 2, and the
\* partition has more than 16000.
ASSUME LimitsFit == 2 + ClustersOf(MaxLoader) + ClustersOf(MaxMap) <= Clusters

\* Length of each object in the order of allocation: EFI, BOOT, loader, map.
Lengths(loader, map) == <<ClusterCells, ClusterCells, loader, map>>

Start(loader, map, i) ==
    LET next[k \in 1..5] ==
            IF k = 1 THEN 2 ELSE next[k - 1] + ClustersOf(Lengths(loader, map)[k - 1])
    IN next[i]

Fits(loader, map) == Start(loader, map, 5) <= Clusters + 2

\* The object a cluster belongs to, 0 for none.
Owner(loader, map, c) ==
    IF \E i \in 1..4 : Start(loader, map, i) <= c /\ c < Start(loader, map, i + 1)
    THEN CHOOSE i \in 1..4 : Start(loader, map, i) <= c /\ c < Start(loader, map, i + 1)
    ELSE 0

Allocated(loader, map, c) ==
    CASE c = 0 -> EndMark
      [] c = 1 -> LastWord
      [] OTHER -> IF Owner(loader, map, c) = 0 THEN 0
                  ELSE IF c + 1 = Start(loader, map, Owner(loader, map, c) + 1) THEN LastWord
                  ELSE c + 1

CopiedData(loader, map, c) ==
    LET i == Owner(loader, map, c)
        offset == (c - Start(loader, map, i)) * ClusterCells
        content == IF i = 3 THEN Content("loader", loader) ELSE Content("map", map)
    IN [k \in 1..ClusterCells |->
            IF i \in {3, 4} /\ offset + k <= Len(content) THEN content[offset + k] ELSE Zero]

Empty == [name \in {} |-> DirEntry(0, 0, FALSE)]

Layout(loader, map) ==
    LET at(i) == Start(loader, map, i)
    IN [fat |-> [c \in 0..Entries - 1 |-> Allocated(loader, map, c)],
        copy |-> [c \in 0..Entries - 1 |-> Allocated(loader, map, c)],
        data |-> [c \in ClusterNumbers |-> CopiedData(loader, map, c)],
        root |-> [name \in {"EFI", "MAP"} |->
                    IF name = "EFI" THEN DirEntry(at(1), 0, TRUE) ELSE DirEntry(at(4), map, FALSE)],
        dirs |-> [c \in ClusterNumbers |->
                    IF c = at(1) THEN [name \in {"BOOT"} |-> DirEntry(at(2), 0, TRUE)]
                    ELSE IF c = at(2) THEN [name \in {"BOOTX64"} |-> DirEntry(at(3), loader, FALSE)]
                    ELSE Empty]]

----------------------------------------------------------------------------
(* validateUEFIFAT16 *)

InPartition(c) == c \in ClusterNumbers

\* Mutant: a bad cluster ends the chain.
BadEndsToo(next) == next >= BadMark

Ends(next) == next >= EndMark

NoChain == <<>>

\* readChain: the clusters from start to the end mark; NoChain for a cluster outside
\* the partition, a free or bad one, or one that occurs twice.
ReadChain(image, start) ==
    LET extended(chain) ==
            LET next == image.fat[chain[Len(chain)]]
            IN IF Ends(next) THEN chain
               ELSE IF next = BadMark \/ ~InPartition(next) \/ \E i \in 1..Len(chain) : chain[i] = next
               THEN NoChain
               ELSE Append(chain, next)
        chain[steps \in 0..Clusters] ==
            IF steps = 0 THEN (IF InPartition(start) THEN <<start>> ELSE NoChain)
            ELSE IF chain[steps - 1] = NoChain THEN NoChain
            ELSE extended(chain[steps - 1])
    IN chain[Clusters]

\* The i-th cell along some clusters.
CellAt(image, clusters, i) ==
    image.data[clusters[(i - 1) \div ClusterCells + 1]][((i - 1) % ClusterCells) + 1]

\* readFile, and the comparison with what was written.
FileIs(image, entry, content) ==
    LET chain == ReadChain(image, entry.cluster)
    IN /\ ~entry.isDir
       /\ IF entry.size = 0 THEN entry.cluster = 0 /\ content = <<>>
          ELSE /\ chain # NoChain /\ entry.size <= Len(chain) * ClusterCells
               /\ [i \in 1..entry.size |-> CellAt(image, chain, i)] = content

\* findFAT16DirectoryEntry, as the set of the entry it finds: the chain must be
\* sound, but a directory ends at its first unused entry, which lies in the
\* first cluster.
Found(image, start, name) ==
    IF ReadChain(image, start) # NoChain /\ name \in DOMAIN image.dirs[start]
    THEN {image.dirs[start][name]} ELSE {}

ValidEsp(image, loader, map) ==
    /\ image.fat = image.copy /\ image.fat[0] = EndMark /\ image.fat[1] = LastWord
    /\ "EFI" \in DOMAIN image.root /\ image.root["EFI"].isDir
    /\ \E boot \in Found(image, image.root["EFI"].cluster, "BOOT") :
          /\ boot.isDir
          /\ \E entry \in Found(image, boot.cluster, "BOOTX64") :
                FileIs(image, entry, Content("loader", loader))
    /\ "MAP" \in DOMAIN image.root /\ FileIs(image, image.root["MAP"], Content("map", map))

\* validateEFILoader; efi: its MZ and PE headers are those of an x86-64 loader.
IsLoader(length, efi) == length \in MinLoader..MaxLoader /\ efi

IsMap(length) == length \in 1..MaxMap /\ length % MapUnit = 0

\* The partition is returned only after it was read back.
Built(loader, map, efi) ==
    /\ IsLoader(loader, efi) /\ IsMap(map)
    /\ Fits(loader, map) /\ ValidEsp(Layout(loader, map), loader, map)

----------------------------------------------------------------------------
(* A reader that knows the chain, as a firmware's does. *)

\* Some clusters, none twice, from the first of the entry along the table to an
\* end mark, hold the content.
Holds(image, entry, content) ==
    \E n \in 1..Clusters : \E s \in [1..n -> ClusterNumbers] :
        /\ s[1] = entry.cluster /\ EndMark <= image.fat[s[n]]
        /\ \A i \in 1..(n - 1) : s[i + 1] = image.fat[s[i]]
        /\ \A i, j \in 1..n : i # j => s[i] # s[j]
        /\ entry.size = Len(content) /\ Len(content) <= n * ClusterCells
        /\ \A i \in 1..Len(content) : content[i] = CellAt(image, s, i)
=============================================================================
