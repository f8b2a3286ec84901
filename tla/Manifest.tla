------------------------------ MODULE Manifest ------------------------------
(***************************************************************************)
(* The timestamp of the writer manifest: NewManifest, measuredRTCOffset,   *)
(* validateTimestamp and timestampWithinWindow                             *)
(* (src/internal/install/manifest.go), between two systems that read the   *)
(* same hardware clock.  Linux keeps a corrected system clock; the writer  *)
(* runs in an initramfs and has nothing but the hardware clock, which may  *)
(* be off (local time, drift) and may be put right by the shutdown.        *)
(* Times are integers in one unit; the code's limits are 24 h, 5 min and   *)
(* 24 h.                                                                   *)
(***************************************************************************)
EXTENDS Integers

CONSTANTS MaxAge,         \* manifestMaxAge
          FutureLeeway,   \* manifestFutureLeeway
          MaxRTCOffset,   \* maxRTCOffset
          MaxSkew,        \* bound: how far off the hardware clock may be
          Horizon         \* bound: how long the manifest is kept

ASSUME ManifestAssumption ==
    /\ MaxAge \in Nat /\ FutureLeeway \in Nat /\ MaxRTCOffset \in Nat
    /\ Horizon \in Nat /\ MaxSkew \in Nat

Skews == -MaxSkew..MaxSkew

VARIABLES
    phase,       \* "linux", "staged", "booted"
    clock,       \* true time
    skew,        \* hardware clock minus true time
    createdAt,   \* manifest.CreatedAt
    rtcOffset,   \* manifest.RTCOffset
    stagedSkew,  \* history: skew when the manifest was made
    accepted     \* verdict of the writer

vars == <<phase, clock, skew, createdAt, rtcOffset, stagedSkew, accepted>>

Init ==
    /\ phase = "linux" /\ clock = 0 /\ skew \in Skews
    /\ createdAt = 0 /\ rtcOffset = 0 /\ stagedSkew = 0 /\ accepted = FALSE

WithinLimit(offset) == -MaxRTCOffset <= offset /\ offset <= MaxRTCOffset

\* Mutant: the offset is taken the other way round.
InvertedOffset(now, rtc) == IF WithinLimit(rtc - now) THEN rtc - now ELSE 0

\* measuredRTCOffset: what has to be added to the hardware clock; 0 when it is
\* not credible (or cannot be read, see Stage).
MeasuredRTCOffset(now, rtc) == IF WithinLimit(now - rtc) THEN now - rtc ELSE 0

\* Mutant: no upper limit on the age.
NeverTooOld(created, current) == current - created >= -FutureLeeway

TimestampWithinWindow(created, current) ==
    LET age == current - created IN age >= -FutureLeeway /\ age <= MaxAge

\* validateTimestamp: the clock as it is, then the clock as it was corrected
\* when the manifest was made.
ValidTimestamp(created, offset, writerClock) ==
    \/ TimestampWithinWindow(created, writerClock)
    \/ /\ offset # 0 /\ WithinLimit(offset)
       /\ TimestampWithinWindow(created, writerClock + offset)

\* NewManifest; the hardware clock may be unreadable.
NewManifest ==
    /\ phase = "linux" /\ phase' = "staged"
    /\ createdAt' = clock /\ stagedSkew' = skew
    /\ rtcOffset' = MeasuredRTCOffset(clock, clock + skew)
    /\ UNCHANGED <<clock, skew, accepted>>

TimePasses ==
    /\ phase \in {"linux", "staged"} /\ clock < Horizon
    /\ clock' = clock + 1
    /\ UNCHANGED <<phase, skew, createdAt, rtcOffset, stagedSkew, accepted>>

\* The shutdown of Linux, or the administrator, sets the hardware clock.
CorrectRTC ==
    /\ phase = "staged" /\ skew' = 0
    /\ UNCHANGED <<phase, clock, createdAt, rtcOffset, stagedSkew, accepted>>

\* ReadManifest in the writer.
BootWriter ==
    /\ phase = "staged" /\ phase' = "booted"
    /\ accepted' = ValidTimestamp(createdAt, rtcOffset, clock + skew)
    /\ UNCHANGED <<clock, skew, createdAt, rtcOffset, stagedSkew>>

Next == NewManifest \/ TimePasses \/ CorrectRTC \/ BootWriter

Spec == Init /\ [][Next]_vars

----------------------------------------------------------------------------
TypeOK ==
    /\ phase \in {"linux", "staged", "booted"}
    /\ clock \in 0..Horizon /\ skew \in Skews
    /\ createdAt \in 0..Horizon /\ rtcOffset \in Int
    /\ stagedSkew \in Skews /\ accepted \in BOOLEAN

Age == clock - createdAt

\* An hardware clock that is off by no more than the limit never makes the
\* writer refuse a manifest younger than the maximum age, whether or not the
\* clock was put right between staging and boot.
FreshManifestAccepted ==
    (phase = "booted" /\ WithinLimit(stagedSkew) /\ Age <= MaxAge) => accepted

\* manifest.go: a manifest that was staged under a skew within the limit is not
\* accepted once it is older than the maximum age plus that limit, so a staged
\* entry does not stay usable for ever.  A larger skew is recorded as no offset:
\* the writer then knows nothing of it and may accept an older manifest.
StaleManifestRefused ==
    (phase = "booted" /\ WithinLimit(stagedSkew) /\ accepted) => Age <= MaxAge + MaxRTCOffset
=============================================================================
