------------------------------- MODULE Image -------------------------------
(***************************************************************************)
(* From an extracted CHR image to the one that is authorised: the second   *)
(* half of Client.Prepare (src/internal/mikrotik/client.go), InjectAutorun *)
(* (image.go) and prepareUEFIImage with readUEFIBootFiles (uefi.go).  The  *)
(* image is changed through loop mounts of its partitions; a partition     *)
(* that stays mounted can still be written back by the kernel.             *)
(***************************************************************************)
EXTENDS Naturals

CONSTANT Count       \* bound: number of MBR partitions Inspect may find (the MBR has 4)

ASSUME CountAssumption == Count \in 2..4

Partitions == 1..Count
Boot == 1            \* the RouterOS boot partition

\* What a partition holds: as published, with a superblock a read-write mount
\* has updated, with the script and its file system quiet or written back
\* later, half written, rebuilt as FAT16, FAT16 overwritten by an old mount.
Contents == {"official", "touched", "autorun", "flushed", "torn", "fat16", "damaged"}

Images == [Partitions -> Contents]

VARIABLES
    firmware,    \* "BIOS" or "UEFI", fixed
    linux,       \* partitions of type 0x83, fixed
    rw,          \* partitions whose file system has a /rw directory, fixed
    linked,      \* partitions whose autorun.scr is a symbolic link, fixed
    pc,
    part,        \* the partition the loop of InjectAutorun is at
    mounted,     \* partitions mounted read-write
    reading,     \* the boot partition is mounted read-only
    failed,      \* an error is kept until the partition is unmounted
    content,     \* the image file
    hashed,      \* what the SHA-256 of the prepared image stands for
    cancelled,   \* the context is cancelled
    passedOver,  \* history: an unmount whose error InjectAutorun drops has failed
    stuck        \* history: any unmount has failed

host == <<firmware, linux, rw, linked>>
hist == <<passedOver, stuck>>
vars == <<host, pc, part, mounted, reading, failed, content, hashed, cancelled, hist>>

\* validateOfficialUEFIGPT lets a UEFI host continue only with the official
\* layout: two Linux partitions, of which the boot partition has no /rw.
Init ==
    /\ firmware \in {"BIOS", "UEFI"}
    /\ linux \in SUBSET Partitions /\ rw \in SUBSET linux /\ linked \in SUBSET rw
    /\ firmware = "UEFI" => (linux = {1, 2} /\ Boot \notin rw)
    /\ pc = "mount" /\ part = 1
    /\ mounted = {} /\ reading = FALSE /\ failed = FALSE
    /\ content = [p \in Partitions |-> "official"] /\ hashed = content
    /\ cancelled = FALSE /\ passedOver = FALSE /\ stuck = FALSE

----------------------------------------------------------------------------
(* InjectAutorun *)

Same == UNCHANGED <<host, cancelled, hashed>>

NextPartition == part' = part + 1 /\ pc' = "mount"

\* The partitions of another type, and the end of the table.
SkipPartition ==
    /\ pc = "mount"
    /\ \/ part \in Partitions \ linux /\ NextPartition
       \/ part \notin Partitions /\ pc' = "error" /\ UNCHANGED part
    /\ Same /\ UNCHANGED <<mounted, reading, failed, content, hist>>

\* A read-write mount updates the superblock.
MountedBy(p) == /\ mounted' = mounted \cup {p}
                /\ content' = [content EXCEPT ![p] = "touched"]

\* A mount that fails ends this turn only; a mount that is interrupted may be
\* in place all the same.
MountPartition ==
    /\ pc = "mount" /\ part \in linux
    /\ \/ ~cancelled /\ MountedBy(part) /\ pc' = "look" /\ UNCHANGED part
       \/ cancelled /\ MountedBy(part) /\ NextPartition
       \/ NextPartition /\ UNCHANGED <<mounted, content>>
       \/ pc' = "error" /\ UNCHANGED <<mounted, content, part>>   \* MkdirTemp
    /\ Same /\ UNCHANGED <<reading, failed, hist>>

\* Mutant: the return for a symbolic link forgets the unmount.
LookWithoutUnmount ==
    /\ pc = "look"
    /\ pc' = CASE part \notin rw -> "passOver" [] part \in linked -> "error" [] OTHER -> "write"
    /\ Same /\ UNCHANGED <<part, mounted, reading, failed, content, hist>>

LookForRw ==
    /\ pc = "look"
    /\ pc' = IF part \in rw \ linked THEN "write" ELSE "passOver"
    /\ Same /\ UNCHANGED <<part, mounted, reading, failed, content, hist>>

\* A partition without /rw is left, and a symbolic link ends the loop; in both
\* cases the error of umount is dropped.
PassOver ==
    /\ pc = "passOver"
    /\ IF part \in linked THEN pc' = "error" /\ UNCHANGED part ELSE NextPartition
    /\ \/ ~cancelled /\ mounted' = mounted \ {part} /\ UNCHANGED hist
       \/ UNCHANGED mounted /\ passedOver' = TRUE /\ stuck' = TRUE
    /\ Same /\ UNCHANGED <<reading, failed, content>>

WriteAutorun ==
    /\ pc = "write" /\ pc' = "unmount"
    /\ \/ content' = [content EXCEPT ![part] = "autorun"] /\ UNCHANGED failed
       \/ content' = [content EXCEPT ![part] = "torn"] /\ failed' = TRUE
    /\ Same /\ UNCHANGED <<part, mounted, reading, hist>>

Injected == IF firmware = "UEFI" THEN "mountBoot" ELSE "hash"

\* Mutant: the result of umount is dropped here too.
UnmountIgnored ==
    /\ pc = "unmount"
    /\ pc' = (IF failed THEN "error" ELSE Injected)
    /\ \/ ~cancelled /\ mounted' = mounted \ {part} /\ UNCHANGED stuck
       \/ UNCHANGED mounted /\ stuck' = TRUE
    /\ Same /\ UNCHANGED <<part, reading, failed, content, passedOver>>

UnmountInjected ==
    /\ pc = "unmount"
    /\ \/ /\ ~cancelled /\ mounted' = mounted \ {part}
          /\ pc' = (IF failed THEN "error" ELSE Injected) /\ UNCHANGED stuck
       \/ pc' = "error" /\ stuck' = TRUE /\ UNCHANGED mounted
    /\ Same /\ UNCHANGED <<part, reading, failed, content, passedOver>>

----------------------------------------------------------------------------
(* prepareUEFIImage *)

UefiFrame == Same /\ UNCHANGED <<part, mounted>>

MountBoot ==
    /\ pc = "mountBoot"
    /\ \/ ~cancelled /\ reading' = TRUE /\ pc' = "readBoot"
       \/ reading' \in {FALSE, cancelled} /\ pc' = "error"
    /\ UefiFrame /\ UNCHANGED <<failed, content, hist>>

\* The loader and the boot map: missing, too large, not a file, not valid.
ReadBootFiles ==
    /\ pc = "readBoot" /\ pc' = "unmountBoot"
    /\ failed' \in BOOLEAN
    /\ UefiFrame /\ UNCHANGED <<reading, content, hist>>

\* This umount has a context of its own, and its error is joined, as is that
\* of removing the mount point.
UnmountBoot ==
    /\ pc = "unmountBoot"
    /\ \/ /\ reading' = FALSE /\ UNCHANGED hist
          /\ (~failed /\ pc' = "writeEsp") \/ pc' = "error"
       \/ pc' = "error" /\ stuck' = TRUE /\ UNCHANGED <<reading, passedOver>>
    /\ UefiFrame /\ UNCHANGED <<failed, content>>

\* buildUEFIFAT16 can refuse; WriteAt and Sync can fail half-way.
WriteEsp ==
    /\ pc = "writeEsp"
    /\ \/ pc' = "readBack" /\ content' \in {[content EXCEPT ![Boot] = c] : c \in {"fat16", "torn"}}
       \/ pc' = "error" /\ \E c \in {content[Boot], "torn"} :
                                content' = [content EXCEPT ![Boot] = c]
    /\ UefiFrame /\ UNCHANGED <<reading, failed, hist>>

\* The tables are validated again, the FAT16 file system is read back.
ReadBackEsp ==
    /\ pc = "readBack"
    /\ \/ content[Boot] = "fat16" /\ pc' = "hash"
       \/ pc' = "error"
    /\ UefiFrame /\ UNCHANGED <<reading, failed, content, hist>>

HashImage ==
    /\ pc = "hash"
    /\ \/ pc' = "prepared" /\ hashed' = content
       \/ pc' = "error" /\ UNCHANGED hashed
    /\ UNCHANGED <<host, cancelled, part, mounted, reading, failed, content, hist>>

----------------------------------------------------------------------------
(* The kernel and the administrator *)

\* A partition that is still mounted is written back some time.
Writeback(p) ==
    /\ p \in mounted /\ content[p] \in {"fat16", "autorun"}
    /\ content' = [content EXCEPT ![p] = IF @ = "fat16" THEN "damaged" ELSE "flushed"]
    /\ Same /\ UNCHANGED <<pc, part, mounted, reading, failed, hist>>

Cancel ==
    /\ pc \notin {"prepared", "error"} /\ ~cancelled /\ cancelled' = TRUE
    /\ UNCHANGED <<host, pc, part, mounted, reading, failed, content, hashed, hist>>

Prepare == \/ SkipPartition \/ MountPartition \/ LookForRw \/ PassOver
           \/ WriteAutorun \/ UnmountInjected
           \/ MountBoot \/ ReadBootFiles \/ UnmountBoot \/ WriteEsp \/ ReadBackEsp
           \/ HashImage

Next == Prepare \/ (\E p \in Partitions : Writeback(p)) \/ Cancel

Spec == Init /\ [][Next]_vars

----------------------------------------------------------------------------
(* Properties *)

TypeOK ==
    /\ firmware \in {"BIOS", "UEFI"} /\ linux \subseteq Partitions
    /\ rw \subseteq Partitions /\ linked \subseteq Partitions
    /\ pc \in {"mount", "look", "passOver", "write", "unmount", "mountBoot", "readBoot",
               "unmountBoot", "writeEsp", "readBack", "hash", "prepared", "error"}
    /\ part \in 1..(Count + 1) /\ mounted \subseteq Partitions /\ reading \in BOOLEAN
    /\ failed \in BOOLEAN /\ content \in Images /\ hashed \in Images
    /\ cancelled \in BOOLEAN /\ passedOver \in BOOLEAN /\ stuck \in BOOLEAN

Ended == pc \in {"prepared", "error"}

\* However the preparation ends, no partition of the image stays mounted,
\* unless the run was cancelled (umount then runs under a dead context) or an
\* unmount has failed.
MountsReleased == (Ended /\ ~cancelled /\ ~stuck) => mounted = {} /\ ~reading

\* The hash that goes into the manifest is the hash of a finished image: the
\* script is in it, a UEFI image has the FAT16 boot partition that was read
\* back, and the kernel has nothing left to write to it.  The exception is in
\* the code: an unmount whose error InjectAutorun drops.
AuthorisedImageIsFinal ==
    (pc = "prepared" /\ ~passedOver) =>
        /\ content = hashed
        /\ \E p \in Partitions : content[p] \in {"autorun", "flushed"}
        /\ firmware = "UEFI" => content[Boot] = "fat16"
=============================================================================
