---------------------------- MODULE Fingerprint ----------------------------
(***************************************************************************)
(* The policy that decides which disk the writer may overwrite:            *)
(* src/internal/disk/fingerprint.go.  A fingerprint is a record            *)
(*    [size, wwn, serial, name, dev, driver]                               *)
(* (path is derived from name).  A text read from sysfs is Blank or        *)
(* [id, form]: what is left of it after normalisation, and how it was      *)
(* spelled (padding, case, a naa./eui./0x prefix, dashes).                 *)
(***************************************************************************)
CONSTANT Blank   \* a text that is empty or white space

\* normalizeIdentity, strings.EqualFold: two texts that say the same.
SameText(expected, candidate) ==
    /\ expected # Blank /\ candidate # Blank
    /\ expected.id = candidate.id

HasStableIdentity(f) == f.wwn # Blank \/ f.serial # Blank

\* The strongest identity recorded is the one compared; name and device number
\* stand in for it only when neither a WWN nor a serial was recorded.
IdentityMatches(expected, candidate) ==
    \/ expected.wwn # Blank /\ SameText(expected.wwn, candidate.wwn)
    \/ /\ expected.wwn = Blank /\ expected.serial # Blank
       /\ SameText(expected.serial, candidate.serial)
    \/ /\ ~HasStableIdentity(expected) /\ expected.driver # Blank
       /\ expected.name = candidate.name /\ expected.dev = candidate.dev

\* Mutant: a candidate that lost its WWN or serial falls back to name and number.
DegradingMatch(expected, candidate) ==
    /\ expected.size # 0 /\ expected.size = candidate.size
    /\ \/ IdentityMatches(expected, candidate)
       \/ /\ ~HasStableIdentity(candidate)
          /\ expected.name = candidate.name /\ expected.dev = candidate.dev
    /\ expected.driver = Blank \/ SameText(expected.driver, candidate.driver)

FingerprintsMatch(expected, candidate) ==
    /\ expected.size # 0 /\ expected.size = candidate.size
    /\ IdentityMatches(expected, candidate)
    /\ expected.driver = Blank \/ SameText(expected.driver, candidate.driver)

Single(S) == \E x \in S : S = {x}

\* The sole authorized disk, as a set that is empty when there is an error.
SelectAuthorized(expected, candidates) ==
    LET matches == {c \in candidates : FingerprintsMatch(expected, c)} IN
    IF (HasStableIdentity(expected) \/ Single(candidates)) /\ Single(matches)
    THEN matches ELSE {}

=============================================================================
