--------------------------- MODULE ManifestProofs ---------------------------
(* Theorems about Manifest, for all limits, skews and horizons. *)
EXTENDS Manifest, TLAPS

\* What the manifest records and what may have changed since.
Recorded ==
    phase \in {"staged", "booted"} =>
        /\ rtcOffset = MeasuredRTCOffset(createdAt, createdAt + stagedSkew)
        /\ skew = stagedSkew \/ skew = 0
        /\ createdAt <= clock

\* The verdict is the one of the clocks at the boot, which do not change after it.
Verdict ==
    phase = "booted" => accepted = ValidTimestamp(createdAt, rtcOffset, clock + skew)

IInv == TypeOK /\ Recorded /\ Verdict

LEMMA OffsetIsInt ==
    ASSUME NEW now \in Int, NEW rtc \in Int
    PROVE  MeasuredRTCOffset(now, rtc) \in Int
  BY DEF MeasuredRTCOffset

LEMMA InitIInv == Init => IInv
  <1> SUFFICES ASSUME Init PROVE IInv
    OBVIOUS
  <1>1. 0 \in 0..Horizon /\ 0 \in Skews /\ 0 \in Int
    BY ManifestAssumption DEF Skews
  <1>2. TypeOK
    BY <1>1 DEF Init, TypeOK
  <1>3. phase = "linux"
    BY DEF Init
  <1> QED BY <1>2, <1>3 DEF IInv, Recorded, Verdict

LEMMA NextIInv == IInv /\ [Next]_vars => IInv'
  <1> SUFFICES ASSUME IInv, [Next]_vars PROVE IInv'
    OBVIOUS
  <1> USE ManifestAssumption
  <1>t. /\ clock \in Int /\ skew \in Int /\ createdAt \in Int /\ stagedSkew \in Int
        /\ 0 \in Skews
    BY DEF IInv, TypeOK, Skews
  <1>1. CASE NewManifest
    <2>1. rtcOffset' \in Int
      BY <1>1, <1>t, OffsetIsInt DEF NewManifest
    <2>2. TypeOK'
      BY <1>1, <2>1 DEF IInv, TypeOK, NewManifest
    <2>3. Recorded'
      BY <1>1, <1>t DEF Recorded, NewManifest
    <2> QED BY <1>1, <2>2, <2>3 DEF IInv, Verdict, NewManifest
  <1>2. CASE TimePasses
    <2>1. TypeOK'
      BY <1>2, <1>t DEF IInv, TypeOK, TimePasses
    <2>2. Recorded'
      BY <1>2, <1>t DEF IInv, Recorded, TimePasses
    <2> QED BY <1>2, <2>1, <2>2 DEF IInv, Verdict, TimePasses
  <1>3. CASE CorrectRTC
    <2>1. TypeOK'
      BY <1>3, <1>t DEF IInv, TypeOK, CorrectRTC
    <2>2. Recorded'
      BY <1>3 DEF IInv, Recorded, CorrectRTC
    <2> QED BY <1>3, <2>1, <2>2 DEF IInv, Verdict, CorrectRTC
  <1>4. CASE BootWriter
    <2>1. ValidTimestamp(createdAt, rtcOffset, clock + skew) \in BOOLEAN
      BY DEF ValidTimestamp
    <2>2. TypeOK'
      BY <1>4, <2>1 DEF IInv, TypeOK, BootWriter
    <2>3. Recorded' /\ Verdict'
      BY <1>4 DEF IInv, Recorded, Verdict, BootWriter
    <2> QED BY <2>2, <2>3 DEF IInv
  <1>5. CASE UNCHANGED vars
    BY <1>5 DEF IInv, TypeOK, Recorded, Verdict, vars
  <1> QED BY <1>1, <1>2, <1>3, <1>4, <1>5 DEF Next

\* The invariant decides both questions.
LEMMA FreshFromIInv == IInv => FreshManifestAccepted
  <1> SUFFICES ASSUME IInv, phase = "booted", WithinLimit(stagedSkew), Age <= MaxAge
               PROVE  ValidTimestamp(createdAt, rtcOffset, clock + skew)
    BY DEF IInv, Verdict, FreshManifestAccepted
  <1> USE ManifestAssumption
  <1>1. /\ clock \in Int /\ skew \in Int /\ createdAt \in Int /\ stagedSkew \in Int
        /\ createdAt <= clock /\ clock - createdAt <= MaxAge
        /\ skew = stagedSkew \/ skew = 0
    BY DEF IInv, TypeOK, Skews, Recorded, Age
  <1>2. rtcOffset = 0 - stagedSkew /\ WithinLimit(rtcOffset)
    BY <1>1 DEF IInv, Recorded, MeasuredRTCOffset, WithinLimit
  <1>3. CASE skew = 0
    BY <1>1, <1>3 DEF ValidTimestamp, TimestampWithinWindow
  <1>4. CASE skew = stagedSkew /\ skew # 0
    BY <1>1, <1>2, <1>4 DEF ValidTimestamp, TimestampWithinWindow
  <1> QED BY <1>1, <1>3, <1>4

LEMMA StaleFromIInv == IInv => StaleManifestRefused
  <1> SUFFICES ASSUME IInv, phase = "booted", WithinLimit(stagedSkew),
                      ValidTimestamp(createdAt, rtcOffset, clock + skew)
               PROVE  Age <= MaxAge + MaxRTCOffset
    BY DEF IInv, Verdict, StaleManifestRefused
  <1> USE ManifestAssumption
  <1>1. /\ clock \in Int /\ skew \in Int /\ createdAt \in Int /\ stagedSkew \in Int
        /\ skew = stagedSkew \/ skew = 0
    BY DEF IInv, TypeOK, Skews, Recorded
  <1>2. rtcOffset = 0 - stagedSkew
    BY <1>1 DEF IInv, Recorded, MeasuredRTCOffset, WithinLimit
  <1>3. CASE TimestampWithinWindow(createdAt, clock + skew)
    BY <1>1, <1>3 DEF TimestampWithinWindow, WithinLimit, Age
  <1>4. CASE TimestampWithinWindow(createdAt, clock + skew + rtcOffset)
    BY <1>1, <1>2, <1>4 DEF TimestampWithinWindow, WithinLimit, Age
  <1> QED BY <1>3, <1>4 DEF ValidTimestamp

\* Every variable keeps its type (manifest.go).
THEOREM TypeCorrect == Spec => []TypeOK
  <1>1. IInv => TypeOK
    BY DEF IInv
  <1> QED BY <1>1, InitIInv, NextIInv, PTL DEF Spec

\* The writer takes every manifest that is not too old, however far the
\* hardware clock is off within the limit, and whether or not it is put right
\* in between (manifest.go, validateTimestamp).
THEOREM FreshAccepted == Spec => []FreshManifestAccepted
  BY InitIInv, NextIInv, FreshFromIInv, PTL DEF Spec

\* And, of those staged under a skew within the limit, none that is older than the
\* maximum age by more than the limit of the offset; of a larger skew, recorded as no
\* offset, nothing is said (manifest.go, MeasuredRTCOffset, validateTimestamp).
THEOREM StaleRefused == Spec => []StaleManifestRefused
  BY InitIInv, NextIInv, StaleFromIInv, PTL DEF Spec
=============================================================================
