----------------------------- MODULE Resources -----------------------------
(***************************************************************************)
(* The space and memory estimates of staging, in unsigned machine          *)
(* arithmetic: PrepareStage's build estimate, ensureFilesystemSpace,       *)
(* validateInitramfsMemory and parseInitramfsListing                       *)
(* (src/internal/install/stage.go and resources.go).  The code works with  *)
(* 64 bits; MaxWord is the largest unsigned number, file sizes are signed. *)
(***************************************************************************)
EXTENDS Naturals, Sequences

CONSTANTS MaxWord,        \* largest unsigned number, 2^64 - 1 in the code
          BuildSpare,     \* buildSpaceSpare
          MemorySpare,    \* writerMemorySpare
          Sizes,          \* bound: the file sizes that occur
          Files           \* bound: files in the initramfs listing

ASSUME ResourcesAssumption ==
    /\ MaxWord \in Nat /\ BuildSpare \in Nat /\ MemorySpare \in Nat
    /\ 2 * BuildSpare < MaxWord /\ 2 * MemorySpare < MaxWord
    /\ Sizes \subseteq Nat /\ Files \in Nat

Words == 0..MaxWord
\* What fits a signed number is at most half of MaxWord.
FileSizes == {s \in Words : 2 * s < MaxWord}

\* Machine arithmetic.
Wrap(n) == n % (MaxWord + 1)
Plus(a, b) == Wrap(a + b)
Minus(a, b) == Wrap(MaxWord + 1 + a - b)
Times(a, b) == Wrap(a * b)

Refused == MaxWord + 1    \* not a word: the function returned an error

\* Mutant: without the overflow check.
UncheckedBuildRequired(image, base) == Plus(Plus(image, Times(4, base)), BuildSpare)

\* PrepareStage: image + 4 * base + spare.
BuildRequired(image, base) ==
    IF base > Minus(Minus(MaxWord, image), BuildSpare) \div 4
    THEN Refused
    ELSE Plus(Plus(image, Times(4, base)), BuildSpare)

\* ensureFilesystemSpace: blocks * blockSize >= required.
EnoughSpace(blocks, blockSize, required) ==
    /\ blockSize > 0 /\ blocks <= MaxWord \div blockSize
    /\ Times(blocks, blockSize) >= required

\* parseInitramfsListing: the sum of the sizes of the regular files.
ListingTotal(sizes) ==
    IF sizes = <<>> THEN Refused
    ELSE LET total[n \in 0..Len(sizes)] ==
                 IF n = 0 THEN 0
                 ELSE IF total[n - 1] = Refused \/ total[n - 1] > Minus(MaxWord, sizes[n])
                 THEN Refused
                 ELSE Plus(total[n - 1], sizes[n])
         IN total[Len(sizes)]

\* Mutant: the compressed size is forgotten in the second check.
HalfCheckedMemory(unpacked, compressed) ==
    IF compressed > Minus(MaxWord, MemorySpare) \/ unpacked > Minus(MaxWord, MemorySpare)
    THEN Refused
    ELSE Plus(Plus(unpacked, compressed), MemorySpare)

\* validateInitramfsMemory: unpacked + compressed + spare.
MemoryRequired(unpacked, compressed) ==
    IF compressed > Minus(MaxWord, MemorySpare)
       \/ unpacked > Minus(Minus(MaxWord, compressed), MemorySpare)
    THEN Refused
    ELSE Plus(Plus(unpacked, compressed), MemorySpare)

MemoryAccepted(memory, unpacked, compressed, image) ==
    /\ memory # 0 /\ unpacked # Refused /\ image > 0 /\ unpacked >= image
    /\ MemoryRequired(unpacked, compressed) # Refused
    /\ memory >= MemoryRequired(unpacked, compressed)

----------------------------------------------------------------------------
(* One staging: the sizes are met one after the other. *)

VARIABLES
    step,      \* "space", "build", "measure", "accepted", "refused"
    image, base, blocks, blockSize, memory,   \* the host and the payload, fixed
    listing,   \* sizes of the regular files in the built initramfs
    compressed \* size of the built initramfs

estimateInputs == <<image, base, blocks, blockSize, memory>>
estimateVars == <<step, estimateInputs, listing, compressed>>

EstimateInit ==
    /\ step = "space"
    /\ image \in Sizes \cap FileSizes /\ base \in Sizes \cap FileSizes
    /\ blocks \in Sizes \cap Words /\ blockSize \in Sizes \cap FileSizes
    /\ memory \in Sizes \cap Words
    /\ listing = <<>> /\ compressed = 0

CheckSpace ==
    /\ step = "space"
    /\ step' = IF /\ image > 0 /\ base > 0 /\ BuildRequired(image, base) # Refused
                  /\ EnoughSpace(blocks, blockSize, BuildRequired(image, base))
               THEN "build" ELSE "refused"
    /\ UNCHANGED <<estimateInputs, listing, compressed>>

\* mkinitramfs: anything may be in the image, or be missing from it.
Build ==
    /\ step = "build" /\ step' = "measure"
    /\ compressed' \in Sizes \cap FileSizes
    /\ \E n \in 0..Files : listing' \in [1..n -> Sizes \cap Words]
    /\ UNCHANGED estimateInputs

Measure ==
    /\ step = "measure"
    /\ step' = IF MemoryAccepted(memory, ListingTotal(listing), compressed, image)
               THEN "accepted" ELSE "refused"
    /\ UNCHANGED <<estimateInputs, listing, compressed>>

EstimateNext == CheckSpace \/ Build \/ Measure

----------------------------------------------------------------------------
(* The same questions asked in unbounded arithmetic. *)

SumOf(sizes) == LET sum[n \in 0..Len(sizes)] == IF n = 0 THEN 0 ELSE sum[n - 1] + sizes[n]
                IN sum[Len(sizes)]

\* A build that is started fits the file system it is made on, whatever the
\* sizes and the block counts: no estimate wraps around to a small number.
BuildFits ==
    step \in {"build", "measure", "accepted"} =>
        image + 4 * base + BuildSpare <= blocks * blockSize

\* A staged writer that is accepted fits the memory of the host: the sum of
\* the unpacked files, the compressed image and the reserve do not wrap.
WriterFits ==
    step = "accepted" => SumOf(listing) + compressed + MemorySpare <= memory
=============================================================================
