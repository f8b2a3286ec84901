--------------------------- MODULE DownloadProofs ---------------------------
(* Theorems about Download, for all sets of builds, lengths and limits. *)
EXTENDS Download, SequenceTheorems, TLAPS

\* What is known of the release and of the files at each step.
Official ==
    /\ (pc \in {"archive", "verify", "extract", "done"} /\ firmware = "UEFI") =>
           ValidatedForUEFI(checksum)
    /\ pc = "extract" => archive = checksum
    /\ pc = "done" => image = checksum

\* Goto, Fail and Retry in terms of pc.
LEMMA PcSteps ==
    /\ \A p : Goto(p) => pc' = p
    /\ Fail => pc' = "failed"
    /\ \A limit : Retry(limit) => pc' \in {pc, "failed"}
  BY DEF Goto, Fail, Retry

LEMMA FetchOfficial == ASSUME Official, FetchChecksum PROVE Official'
  <1>1. UNCHANGED firmware /\ pc = "checksum"
    BY DEF FetchChecksum
  <1>2. CASE pc' \in {"checksum", "failed"}
    BY <1>2 DEF Official
  <1>3. CASE pc' = "archive" /\ (firmware = "UEFI" => uefiBoot')
             /\ uefiBoot' = ValidatedForUEFI(checksum')
    BY <1>1, <1>3 DEF Official, ValidatedForUEFI, Archive
  <1>4. pc' \in {"checksum", "failed"} \/ (pc' = "archive" /\ (firmware = "UEFI" => uefiBoot')
             /\ uefiBoot' = ValidatedForUEFI(checksum'))
    BY <1>1, PcSteps DEF FetchChecksum, GetSmall
  <1> QED BY <1>2, <1>3, <1>4

LEMMA InitOfficial == Init => Official
  BY DEF Init, Official

LEMMA NextOfficial == Official /\ [Next]_vars => Official'
  <1> SUFFICES ASSUME Official, [Next]_vars PROVE Official'
    OBVIOUS
  <1> USE DEF ValidatedForUEFI, Archive
  <1>1. CASE ResolveVersion
    <2>1. pc' \in {"version", "checksum", "failed"}
      BY <1>1, PcSteps DEF ResolveVersion, GetSmall
    <2> QED BY <2>1 DEF Official
  <1>2. CASE FetchChecksum
    BY <1>2, FetchOfficial
  <1>3. CASE DownloadOnce
    <2>1. /\ pc = "archive" /\ pc' \in {"archive", "verify", "failed"}
          /\ UNCHANGED <<firmware, release>>
      BY <1>3, PcSteps DEF DownloadOnce
    <2> QED BY <2>1 DEF Official, release
  <1>4. CASE VerifyArchive
    <2>1. /\ pc = "verify" /\ UNCHANGED <<firmware, release, files>>
          /\ pc' = "failed" \/ (pc' = "extract" /\ archive = checksum)
      BY <1>4, PcSteps DEF VerifyArchive
    <2> QED BY <2>1 DEF Official, release, files
  <1>5. CASE ExtractImage
    <2>1. /\ pc = "extract" /\ UNCHANGED <<firmware, release, archive>>
          /\ pc' = "failed" \/ (pc' = "done" /\ image' = archive)
      BY <1>5, PcSteps DEF ExtractImage
    <2> QED BY <2>1 DEF Official, release
  <1>6. CASE Republish \/ Cancel \/ UNCHANGED vars
    BY <1>6 DEF Republish, Cancel, vars, release, files, Official
  <1> QED BY <1>1, <1>2, <1>3, <1>4, <1>5, <1>6 DEF Next, Client

\* The image that is prepared comes from the archive whose checksum was read,
\* and on a UEFI host that archive is one that was tested, whatever the origin
\* publishes and however often the download is resumed (client.go, Prepare).
THEOREM OfficialImage == Spec => []ImageIsOfficial
  <1>1. Official => ImageIsOfficial
    BY DEF Official, ImageIsOfficial, ValidatedForUEFI
  <1> QED BY <1>1, InitOfficial, NextOfficial, PTL DEF Spec

----------------------------------------------------------------------------
(* The files *)

Chunk == [build : Builds, at : Nat]

\* A file is a sequence of chunks; with an origin that keeps its build it is a
\* prefix of the archive, and the whole of it unless a length was missing.
Files ==
    /\ partial \in Seq(Chunk) /\ archive \in Seq(Chunk) /\ image \in Seq(Chunk)
    /\ ResumeKeepsPrefix /\ ShortBodyNoticed

LEMMA ArchiveIsSeq == ASSUME NEW b \in Builds
                      PROVE  /\ Archive(b) \in Seq(Chunk) /\ Len(Archive(b)) = Length[b]
                             /\ Length[b] \in Nat \ {0}
  <1>1. Length[b] \in Nat \ {0}
    BY DownloadAssumption
  <1>2. Archive(b) \in [1..Length[b] -> Chunk]
    BY <1>1 DEF Archive, Chunk
  <1> QED BY <1>1, <1>2

\* What a response can bring: it starts at the beginning or at the offset, and
\* neither passes the end of the archive nor the limit by more than one chunk.
LEMMA ResponseBounds ==
    ASSUME TypeOK, partial \in Seq(Chunk), NEW r \in Responses, NEW n \in 0..Most(r)
    PROVE  /\ r.from \in Nat /\ n \in Nat /\ r.from \in {0, Len(partial)}
           /\ r.from + n <= Length[published] /\ r.from + n <= Maximum + 1
           /\ r.total \in {Length[published], Unknown}
  <1> DEFINE L == Length[published]
  <1>1. L \in Nat /\ Maximum \in Nat /\ Len(partial) \in Nat
    BY ArchiveIsSeq, DownloadAssumption DEF TypeOK
  <1>2. r.from \in {0, Len(partial)} /\ r.from <= L /\ r.total \in {L, Unknown}
    BY <1>1 DEF Responses, Offset
  <1>3. r.from \in Nat
    BY <1>1, <1>2
  <1>4. Most(r) = IF L - r.from < Maximum - r.from + 1 THEN L - r.from
                                                       ELSE Maximum - r.from + 1
    BY DEF Most
  <1> QED BY <1>1, <1>2, <1>3, <1>4

LEMMA PrefixAndBody ==
    ASSUME NEW S, NEW s \in Seq(S), NEW f \in Nat, NEW n \in Nat, f + n <= Len(s)
    PROVE  SubSeq(s, 1, f) \o SubSeq(s, f + 1, f + n) = SubSeq(s, 1, f + n)
  <1>1. Len(s) \in Nat
    OBVIOUS
  <1>2. /\ 1 \in 1..Len(s) + 1 /\ f \in (1 - 1)..Len(s) /\ f + n \in f..Len(s)
    BY <1>1
  <1> QED BY <1>2, ConcatAdjacentSubSeq

\* The file after the copy is the kept part and the body.
LEMMA ReceivedFile ==
    ASSUME TypeOK, Files, NEW r \in Responses, NEW n \in 0..Most(r)
    PROVE  /\ Received(r, n) \in Seq(Chunk) /\ Len(Received(r, n)) = r.from + n
           /\ republished = 0 =>
                  Received(r, n) = SubSeq(Archive(published), 1, r.from + n)
  <1> DEFINE A == Archive(published)
             kept == SubSeq(partial, 1, r.from)
             body == SubSeq(A, r.from + 1, r.from + n)
  <1>1. /\ A \in Seq(Chunk) /\ Len(A) = Length[published] /\ partial \in Seq(Chunk)
        /\ Length[published] \in Nat
    BY ArchiveIsSeq DEF TypeOK, Files
  <1>2. /\ r.from \in Nat /\ n \in Nat /\ r.from <= Len(partial) /\ r.from + n <= Len(A)
        /\ r.from \in {0, Len(partial)} /\ Len(partial) \in Nat /\ Len(A) \in Nat
    BY <1>1, ResponseBounds
  <1>3. kept \in Seq(Chunk) /\ Len(kept) = r.from
    <2>1. \A i \in 1..r.from : partial[i] \in Chunk
      BY <1>1, <1>2, ElementOfSeq
    <2> QED BY <1>2, <2>1, SubSeqProperties
  <1>4. body \in Seq(Chunk) /\ Len(body) = n
    <2>1. \A i \in (r.from + 1)..(r.from + n) : A[i] \in Chunk
      BY <1>1, <1>2, ElementOfSeq
    <2> QED BY <1>2, <2>1, SubSeqProperties
  <1>5. Received(r, n) = kept \o body
    BY DEF Received, Body
  <1>6. ASSUME republished = 0 PROVE kept \o body = SubSeq(A, 1, r.from + n)
    <2>1. partial = SubSeq(A, 1, Len(partial))
      BY <1>6 DEF Files, ResumeKeepsPrefix
    <2>2. kept = SubSeq(A, 1, r.from)
      BY <1>1, <1>2, <2>1, SubSeqEmpty, SubSeqFull
    <2>3. SubSeq(A, 1, r.from) \o SubSeq(A, r.from + 1, r.from + n) = SubSeq(A, 1, r.from + n)
      BY <1>1, <1>2, PrefixAndBody
    <2> QED BY <2>2, <2>3
  <1>7. kept \o body \in Seq(Chunk) /\ Len(kept \o body) = Len(kept) + Len(body)
    <2> HIDE DEF kept, body
    <2> QED BY <1>3, <1>4, ConcatProperties
  <1> QED BY <1>3, <1>4, <1>5, <1>6, <1>7

LEMMA InitFiles == Init => TypeOK /\ Files
  <1> SUFFICES ASSUME Init PROVE TypeOK /\ Files
    OBVIOUS
  <1>1. /\ partial = <<>> /\ archive = <<>> /\ image = <<>> /\ republished = 0
        /\ published \in Builds /\ firmware \in {"BIOS", "UEFI"} /\ pc = "version"
        /\ attempt = 1 /\ uefiBoot = FALSE /\ cancelled = FALSE /\ silent = FALSE
    BY DEF Init, Missing
  <1>2. TypeOK
    <2>1. Len(partial) = 0 /\ Len(archive) = 0 /\ Len(image) = 0
      BY <1>1, EmptySeq
    <2>2. republished \in 0..MaxRepublish /\ attempt \in 1..MetadataAttempts
          /\ 0 <= Maximum /\ 0 <= Maximum + 1
      BY <1>1, DownloadAssumption
    <2>3. Len(partial) <= Maximum + 1 /\ Len(archive) <= Maximum /\ Len(image) <= Maximum
      BY <2>1, <2>2
    <2>4. attempt \in 1..(IF pc = "archive" THEN DownloadAttempts ELSE MetadataAttempts)
      BY <1>1, <2>2
    <2> QED BY <1>1, <2>2, <2>3, <2>4 DEF TypeOK
  <1>3. <<>> \in Seq(Chunk) /\ Len(<<>>) = 0
    BY EmptySeq
  <1>4. Length[published] \in Nat \ {0} /\ SubSeq(Archive(published), 1, 0) = <<>>
    BY <1>1, ArchiveIsSeq, SubSeqEmpty
  <1>5. 0 <= Length[published]
    BY <1>4
  <1>6. Len(partial) = 0 /\ partial = SubSeq(Archive(published), 1, Len(partial))
    BY <1>1, <1>3, <1>4
  <1>7. ResumeKeepsPrefix
    BY <1>5, <1>6 DEF ResumeKeepsPrefix
  <1>8. ShortBodyNoticed
    BY <1>1 DEF ShortBodyNoticed, Missing
  <1> QED BY <1>1, <1>2, <1>3, <1>7, <1>8 DEF Files

\* The counter stays within its limit, wherever an attempt ends.
LEMMA AttemptBounds ==
    ASSUME TypeOK
    PROVE  /\ \A p : Goto(p) => attempt' = 1 /\ pc' = p
           /\ Fail => attempt' = 1 /\ pc' = "failed"
           /\ \A limit \in Nat : Retry(limit) =>
                 \/ pc' = pc /\ attempt < limit /\ attempt' = attempt + 1
                 \/ pc' = "failed" /\ attempt' = 1
           /\ attempt \in Nat \ {0}
  <1>1. attempt \in Nat \ {0}
    BY DownloadAssumption DEF TypeOK
  <1> QED BY <1>1 DEF Goto, Fail, Retry

LEMMA MetadataStep ==
    ASSUME TypeOK, Files, ResolveVersion \/ FetchChecksum
    PROVE  TypeOK' /\ Files'
  <1>1. UNCHANGED <<firmware, published, republished, partial, archive, image, cancelled, silent>>
    BY DEF ResolveVersion, FetchChecksum, origin, files
  <1>2. pc \in {"version", "checksum"} /\ MetadataAttempts \in Nat \ {0}
        /\ DownloadAttempts \in Nat \ {0}
    BY DownloadAssumption DEF ResolveVersion, FetchChecksum
  <1>3. /\ pc' \in {"version", "checksum", "archive", "failed"}
        /\ \/ attempt' = 1
           \/ pc' = pc /\ attempt < MetadataAttempts /\ attempt' = attempt + 1
    BY <1>2, AttemptBounds DEF ResolveVersion, FetchChecksum, GetSmall
  <1>4. attempt' \in 1..(IF pc' = "archive" THEN DownloadAttempts ELSE MetadataAttempts)
    BY <1>2, <1>3, AttemptBounds
  <1>5. uefiBoot' \in BOOLEAN
    BY DEF ResolveVersion, FetchChecksum, GetSmall, release, TypeOK, ValidatedForUEFI
  <1>6. TypeOK'
    BY <1>1, <1>3, <1>4, <1>5 DEF TypeOK
  <1>7. Files'
    BY <1>1 DEF Files, ResumeKeepsPrefix, ShortBodyNoticed, Archive
  <1> QED BY <1>6, <1>7

LEMMA DownloadStep ==
    ASSUME TypeOK, Files, DownloadOnce
    PROVE  TypeOK' /\ Files'
  <1>1. UNCHANGED <<firmware, published, republished, image, uefiBoot, cancelled>> /\ pc = "archive"
    BY DEF DownloadOnce, origin, release
  <1>2. MetadataAttempts \in Nat \ {0} /\ DownloadAttempts \in Nat \ {0}
    BY DownloadAssumption
  <1>3. CASE Retry(DownloadAttempts) /\ UNCHANGED <<partial, archive, silent>>
    <2>1. /\ pc' \in {"archive", "failed"}
          /\ attempt' \in 1..(IF pc' = "archive" THEN DownloadAttempts ELSE MetadataAttempts)
      BY <1>1, <1>2, <1>3, AttemptBounds
    <2>2. TypeOK'
      BY <1>1, <1>3, <2>1 DEF TypeOK
    <2>3. Files'
      BY <1>1, <1>3 DEF Files, ResumeKeepsPrefix, ShortBodyNoticed, Archive
    <2> QED BY <2>2, <2>3
  <1>4. ASSUME NEW r \in Responses, NEW n \in 0..Most(r),
               partial' = Received(r, n), Retry(DownloadAttempts), UNCHANGED <<archive, silent>>
        PROVE  TypeOK' /\ Files'
    <2>1. /\ pc' \in {"archive", "failed"}
          /\ attempt' \in 1..(IF pc' = "archive" THEN DownloadAttempts ELSE MetadataAttempts)
      BY <1>1, <1>2, <1>4, AttemptBounds
    <2>2. Len(partial') = r.from + n /\ r.from + n <= Maximum + 1 /\ r.from + n <= Length[published]
          /\ partial' \in Seq(Chunk)
      BY <1>4, ReceivedFile, ResponseBounds DEF Files
    <2>3. TypeOK'
      BY <1>1, <1>4, <2>1, <2>2 DEF TypeOK
    <2>4. ResumeKeepsPrefix'
      BY <1>1, <1>4, <2>2, ReceivedFile DEF ResumeKeepsPrefix, Archive
    <2>5. ShortBodyNoticed'
      BY <1>1, <1>4 DEF Files, ShortBodyNoticed, Archive
    <2> QED BY <1>1, <1>4, <2>2, <2>3, <2>4, <2>5 DEF Files
  <1>5. ASSUME NEW r \in Responses, NEW n \in 0..Most(r),
               Complete(r, n), archive' = Received(r, n), partial' = Missing,
               silent' = (silent \/ r.total = Unknown), Goto("verify")
        PROVE  TypeOK' /\ Files'
    <2>1. /\ r.from + n <= Maximum /\ Len(archive') = r.from + n /\ archive' \in Seq(Chunk)
          /\ r.from + n <= Length[published] /\ r.total \in {Length[published], Unknown}
          /\ r.total # Unknown => r.from + n = r.total
      BY <1>5, ReceivedFile, ResponseBounds DEF Complete, Files
    <2>2. partial' \in Seq(Chunk) /\ Len(partial') = 0 /\ partial' = <<>>
      BY <1>5, EmptySeq DEF Missing
    <2>3. pc' = "verify" /\ attempt' = 1 /\ silent' \in BOOLEAN
      BY <1>5 DEF Goto
    <2>4. Maximum \in Nat /\ published \in Builds /\ Length[published] \in Nat
      BY ArchiveIsSeq, DownloadAssumption DEF TypeOK
    <2>5. TypeOK'
      BY <1>1, <1>2, <2>1, <2>2, <2>3, <2>4 DEF TypeOK
    <2>6. ResumeKeepsPrefix'
      <3>1. SubSeq(Archive(published), 1, 0) = <<>>
        BY SubSeqEmpty
      <3> QED BY <1>1, <2>2, <2>4, <3>1 DEF ResumeKeepsPrefix, Archive
    <2>7. ASSUME republished = 0, ~silent' PROVE archive' = Archive(published)
      <3>1. r.from + n = Length[published]
        BY <1>5, <2>1, <2>7
      <3>2. archive' = SubSeq(Archive(published), 1, Length[published])
        BY <1>5, <2>7, <3>1, ReceivedFile
      <3> QED BY <2>4, <3>2, ArchiveIsSeq, SubSeqFull
    <2>8. ShortBodyNoticed'
      BY <1>1, <2>7 DEF ShortBodyNoticed, Archive
    <2> QED BY <1>1, <2>1, <2>2, <2>5, <2>6, <2>8 DEF Files
  <1> QED BY <1>3, <1>4, <1>5 DEF DownloadOnce

LEMMA NextFiles == TypeOK /\ Files /\ [Next]_vars => TypeOK' /\ Files'
  <1> SUFFICES ASSUME TypeOK, Files, [Next]_vars PROVE TypeOK' /\ Files'
    OBVIOUS
  <1>0. MetadataAttempts \in Nat \ {0} /\ DownloadAttempts \in Nat \ {0}
    BY DownloadAssumption
  <1>1. CASE ResolveVersion \/ FetchChecksum
    BY <1>1, MetadataStep
  <1>2. CASE DownloadOnce
    BY <1>2, DownloadStep
  <1>3. CASE VerifyArchive \/ ExtractImage
    <2>1. /\ pc' \in {"extract", "done", "failed"} /\ attempt' = 1 /\ image' \in {image, archive}
          /\ UNCHANGED <<firmware, published, republished, uefiBoot, partial, archive, cancelled,
                         silent>>
      BY <1>3, AttemptBounds DEF VerifyArchive, ExtractImage, origin, release, files
    <2>2. TypeOK'
      BY <1>0, <2>1 DEF TypeOK
    <2> QED BY <2>1, <2>2 DEF Files, ResumeKeepsPrefix, ShortBodyNoticed, Archive
  <1>4. CASE Republish
    <2>1. /\ UNCHANGED <<firmware, pc, attempt, uefiBoot, partial, archive, image, cancelled, silent>>
          /\ published' \in Builds /\ republished < MaxRepublish /\ republished' = republished + 1
      BY <1>4 DEF Republish, release, files
    <2>2. republished \in Nat /\ MaxRepublish \in Nat
      BY DownloadAssumption DEF TypeOK
    <2>3. republished' \in 0..MaxRepublish /\ republished' # 0
      BY <2>1, <2>2
    <2>4. TypeOK'
      BY <2>1, <2>3 DEF TypeOK
    <2> QED BY <2>1, <2>3, <2>4 DEF Files, ResumeKeepsPrefix, ShortBodyNoticed
  <1>5. CASE Cancel
    BY <1>5 DEF Cancel, origin, release, files, TypeOK, Files, ResumeKeepsPrefix,
                ShortBodyNoticed, Archive
  <1>6. CASE UNCHANGED vars
    BY <1>6 DEF vars, origin, release, files, TypeOK, Files, ResumeKeepsPrefix,
                ShortBodyNoticed, Archive
  <1> QED BY <1>1, <1>2, <1>3, <1>4, <1>5, <1>6 DEF Next, Client

\* The attempts stay within their limits and no file passes the limit of the
\* size by more than the one chunk that shows it (client.go, downloadOnce).
THEOREM TypeCorrect == Spec => []TypeOK
  BY InitFiles, NextFiles, PTL DEF Spec

\* While the origin keeps its build, the partial file is a prefix of the
\* archive, whatever was lost, ignored or repeated (client.go, downloadOnce).
THEOREM ResumedInPlace == Spec => []ResumeKeepsPrefix
  <1>1. Files => ResumeKeepsPrefix
    BY DEF Files
  <1> QED BY <1>1, InitFiles, NextFiles, PTL DEF Spec

\* With announced lengths no short body becomes the archive, for all lengths
\* and limits (client.go, the checks after the copy).
THEOREM NoShortArchive == Spec => []ShortBodyNoticed
  <1>1. Files => ShortBodyNoticed
    BY DEF Files
  <1> QED BY <1>1, InitFiles, NextFiles, PTL DEF Spec
=============================================================================
