------------------------------ MODULE Download ------------------------------
(***************************************************************************)
(* Fetching the release: Client.ResolveLatest with getSmall and            *)
(* fetchChecksum, then the first half of Client.Prepare with download,     *)
(* downloadOnce and parseContentRange (src/internal/mikrotik/client.go),   *)
(* against an origin that drops connections, ignores Range, closes early   *)
(* and publishes another build between two requests.                       *)
(* An archive is the sequence of its chunks, a chunk is [build, at]; a     *)
(* SHA-256 is the sequence it was computed from.                           *)
(***************************************************************************)
EXTENDS Integers, Sequences

CONSTANTS Builds,            \* the builds the origin may publish
          Length,            \* Length[b]: chunks of the archive of a build
          Validated,         \* builds in testedVersions with an archive hash for UEFI
          Maximum,           \* maxArchiveBytes
          MetadataAttempts,  \* 4 in the code
          DownloadAttempts,  \* 5 in the code
          MaxRepublish       \* bound: builds published while the installer runs

ASSUME DownloadAssumption ==
    /\ Length \in [Builds -> Nat \ {0}] /\ Validated \subseteq Builds
    /\ Maximum \in Nat /\ MaxRepublish \in Nat
    /\ MetadataAttempts \in Nat \ {0} /\ DownloadAttempts \in Nat \ {0}

Archive(b) == [i \in 1..Length[b] |-> [build |-> b, at |-> i]]
Missing == <<>>              \* a file that is not there, or empty
Unknown == -1                \* a response that announces no length

VARIABLES
    firmware,    \* of the host, fixed
    published,   \* the build the origin serves now
    republished,
    pc,          \* "version", "checksum", "archive", "verify", "extract", "done", "failed"
    attempt,
    checksum,    \* release.Checksum, Missing before it is known
    uefiBoot,    \* release.UEFIBoot
    partial,     \* destination.partial
    archive,     \* destination
    image,       \* the archive the raw image was extracted from
    cancelled,
    silent       \* history: a body whose length nobody announced was accepted

release == <<checksum, uefiBoot>>
files   == <<partial, archive, image>>
origin  == <<published, republished>>
vars == <<firmware, origin, pc, attempt, release, files, cancelled, silent>>

Init ==
    /\ firmware \in {"BIOS", "UEFI"} /\ published \in Builds /\ republished = 0
    /\ pc = "version" /\ attempt = 1
    /\ checksum = Missing /\ uefiBoot = FALSE
    /\ partial = Missing /\ archive = Missing /\ image = Missing
    /\ cancelled = FALSE /\ silent = FALSE

----------------------------------------------------------------------------
Goto(p) == pc' = p /\ attempt' = 1
Fail == Goto("failed")

\* Mutant: attempts are not counted.
EndlessRetry(limit) == IF cancelled \/ limit = 0 THEN Fail ELSE UNCHANGED <<pc, attempt>>

\* The wait before the next attempt ends early when the context is cancelled.
Retry(limit) == IF attempt < limit /\ ~cancelled THEN pc' = pc /\ attempt' = attempt + 1
                                                 ELSE Fail

\* getSmall: an answer, an error worth another attempt (no answer, 408, 429,
\* 5xx, a broken body), or an error that ends it (other status, too large).
GetSmall(Answer) ==
    \/ ~cancelled /\ Answer
    \/ Retry(MetadataAttempts) /\ UNCHANGED release
    \/ Fail /\ UNCHANGED release

ResolveVersion ==
    /\ pc = "version"
    /\ GetSmall((Goto("checksum") \/ Fail) /\ UNCHANGED release)
    /\ UNCHANGED <<firmware, origin, files, cancelled, silent>>

\* Mutant: any build of a tested version is taken for the one that was tested.
AnyBuildValidated(sum) == sum # Missing

ValidatedForUEFI(sum) == \E b \in Validated : sum = Archive(b)

\* fetchChecksum; preflight blocks a UEFI host whose release is not validated.
FetchChecksum ==
    /\ pc = "checksum"
    /\ GetSmall(/\ checksum' = Archive(published)
                /\ uefiBoot' = ValidatedForUEFI(checksum')
                /\ IF firmware = "UEFI" /\ ~uefiBoot' THEN Fail ELSE Goto("archive"))
    /\ UNCHANGED <<firmware, origin, files, cancelled, silent>>

Offset == Len(partial)

\* A response, when it is one the code goes on with: a body that starts at
\* chunk from + 1, the length and the total it announces.
Responses ==
    {[from |-> 0, length |-> l, total |-> l] : l \in {Length[published], Unknown}}
    \cup {[from |-> Offset, length |-> l, total |-> Length[published]] :
             l \in IF 0 < Offset /\ Offset < Length[published]
                   THEN {Length[published] - Offset, Unknown} ELSE {}}

TooLarge(r) == r.total > Maximum \/ r.length > Maximum - r.from

\* io.Copy through a LimitReader of one chunk more than the rest may have.
Body(r, n) == SubSeq(Archive(published), r.from + 1, r.from + n)
Most(r) == IF Length[published] - r.from < Maximum - r.from + 1
           THEN Length[published] - r.from ELSE Maximum - r.from + 1

\* Mutant: a response that ignores Range is appended to what is there.
AppendAlways(r, n) == partial \o Body(r, n)

\* O_TRUNC for a body from the start, Seek to the offset for the others.
Received(r, n) == SubSeq(partial, 1, r.from) \o Body(r, n)

\* Mutant: the final size is not compared with the announced total.
NeverShort(r, n) == r.from + n <= Maximum

\* The checks after the copy: limit, segment and total.
Complete(r, n) ==
    /\ r.from + n <= Maximum
    /\ r.length # Unknown => n = r.length
    /\ r.total # Unknown => r.from + n = r.total

\* downloadOnce and the retry loop of download.  A copy may break off, and the
\* sync, close or rename after a copy that did not may fail.
DownloadOnce ==
    /\ pc = "archive"
    /\ \/ Retry(DownloadAttempts) /\ UNCHANGED <<partial, archive, silent>>
       \/ /\ ~cancelled /\ Offset <= Maximum
          /\ \E r \in Responses : \E n \in 0..Most(r) :
                /\ ~TooLarge(r)
                /\ \/ /\ partial' = Received(r, n)
                      /\ Retry(DownloadAttempts) /\ UNCHANGED <<archive, silent>>
                   \/ /\ Complete(r, n) /\ archive' = Received(r, n) /\ partial' = Missing
                      /\ silent' = (silent \/ r.total = Unknown)
                      /\ Goto("verify")
    /\ UNCHANGED <<firmware, origin, release, image, cancelled>>

\* Mutant: the archive is not compared with the official checksum.
TrustArchive ==
    /\ pc = "verify" /\ Goto("extract")
    /\ UNCHANGED <<firmware, origin, release, files, cancelled, silent>>

VerifyArchive ==
    /\ pc = "verify"
    /\ IF archive = checksum THEN Goto("extract") ELSE Fail
    /\ UNCHANGED <<firmware, origin, release, files, cancelled, silent>>

\* extractImage; module Image goes on from here.
ExtractImage ==
    /\ pc = "extract"
    /\ \/ image' = archive /\ Goto("done")
       \/ Fail /\ UNCHANGED image
    /\ UNCHANGED <<firmware, origin, release, partial, archive, cancelled, silent>>

Running == pc \notin {"done", "failed"}

Republish ==
    /\ Running /\ republished < MaxRepublish /\ republished' = republished + 1
    /\ \E b \in Builds \ {published} : published' = b
    /\ UNCHANGED <<firmware, pc, attempt, release, files, cancelled, silent>>

Cancel ==
    /\ Running /\ ~cancelled /\ cancelled' = TRUE
    /\ UNCHANGED <<firmware, origin, pc, attempt, release, files, silent>>

Client == ResolveVersion \/ FetchChecksum \/ DownloadOnce \/ VerifyArchive \/ ExtractImage

Next == Client \/ Republish \/ Cancel

Spec == Init /\ [][Next]_vars

\* Requests end: the client has a timeout of its own.
FairSpec == Spec /\ WF_vars(Client)

----------------------------------------------------------------------------
(* Properties *)

TypeOK ==
    /\ firmware \in {"BIOS", "UEFI"} /\ published \in Builds
    /\ republished \in 0..MaxRepublish
    /\ pc \in {"version", "checksum", "archive", "verify", "extract", "done", "failed"}
    /\ attempt \in 1..(IF pc = "archive" THEN DownloadAttempts ELSE MetadataAttempts)
    /\ uefiBoot \in BOOLEAN /\ cancelled \in BOOLEAN /\ silent \in BOOLEAN
    /\ Len(partial) <= Maximum + 1 /\ Len(archive) <= Maximum /\ Len(image) <= Maximum

\* Whatever the origin published in between, the image comes from the archive
\* whose checksum was read, unmixed and whole; on a UEFI host that archive is
\* one that was tested there.
ImageIsOfficial ==
    pc = "done" =>
        /\ image = checksum
        /\ firmware = "UEFI" => \E b \in Validated : image = Archive(b)

\* An origin that keeps its build is always resumed at the right place: the
\* partial file is a prefix of the archive, whatever was lost or ignored.
ResumeKeepsPrefix ==
    republished = 0 =>
        /\ Len(partial) <= Length[published]
        /\ partial = SubSeq(Archive(published), 1, Len(partial))

\* With announced lengths the download itself notices a short body: the
\* checksum is not the only thing that does.
ShortBodyNoticed ==
    (republished = 0 /\ ~silent /\ archive # Missing) => archive = Archive(published)

\* Resolving and downloading end, with an image or an error.
PrepareEnds == <>~Running
=============================================================================
