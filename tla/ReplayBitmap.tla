---------------------------- MODULE ReplayBitmap ----------------------------
(***************************************************************************)
(* The windows of a ReplayGuard with the bitmap as the code keeps it: an   *)
(* integer, shifted and masked (srp/replay.py:121-208, 225-231).  The      *)
(* operators are those of ReplayWindow once more, and the two properties   *)
(* say, over every window a guard can come to hold, that they agree.       *)
(***************************************************************************)
EXTENDS ReplayGuard

Sets == INSTANCE FiniteSetsExt

\* 1 << n.  A recursion and not 2^n, of which the provers know nothing.
Pow2[n \in Nat] == IF n = 0 THEN 1 ELSE 2 * Pow2[n - 1]

Bit(b, i) == (b \div Pow2[i]) % 2 = 1

Mask == Pow2[WindowSize]    \* `& self._mask` is `% Mask`

\* ReplayWindow.check
IntCheck(w, s) ==
  IF s < 0 THEN "INVALID"
  ELSE IF w.highest < 0 \/ s > w.highest THEN "FRESH"
  ELSE IF w.highest - s >= WindowSize THEN "TOO_OLD"
  ELSE IF Bit(w.bitmap, w.highest - s) THEN "DUPLICATE" ELSE "FRESH"

\* (mutants) The slide forgets the mask; sets the top bit before it shifts.
Slid_Unmasked(b, shift) == IF shift >= WindowSize THEN 1 ELSE b * Pow2[shift] + 1

Slid_BitFirst(b, shift) == IF shift >= WindowSize THEN 1 ELSE ((b + 1) * Pow2[shift]) % Mask

\* The bitmap after the window has moved up: shift, set bit 0, mask.
Slid(b, shift) == IF shift >= WindowSize THEN 1 ELSE (b * Pow2[shift] + 1) % Mask

\* ReplayWindow.commit: first record, record ahead, unset bit inside, nothing.
IntCommit(w, s) ==
  LET Counted(highest, bitmap) ==
        [highest |-> highest, bitmap |-> bitmap, accepted |-> w.accepted + 1]
  IN  IF s >= 0 /\ w.highest < 0 THEN Counted(s, 1)
      ELSE IF s >= 0 /\ s > w.highest THEN Counted(s, Slid(w.bitmap, s - w.highest))
      ELSE IF IntCheck(w, s) = "FRESH" THEN Counted(w.highest, w.bitmap + Pow2[w.highest - s])
      ELSE w

\* snapshot().bitmap: the bitmap the evidence transcripts print.
Snapshot(w) == w.bitmap % Mask

(***************************************************************************)
(* Properties                                                              *)
(***************************************************************************)
\* The integer whose bits are the offsets of w.
AsInteger(w) == [w EXCEPT !.bitmap = Sets!MapThenSumSet(LAMBDA i : Pow2[i], w.bitmap)]

\* Shift, mask and single bits compute what the rest of the project says with
\* sets: on every window a guard can reach, the two checks give one verdict and
\* the two commits leave one window, the number of its bits included
\* (replay.py:130-208).
IntegersAgree ==
  \A k \in StreamKeys, s \in Seqs :
    LET w == WindowOf(k)
    IN  /\ IntCheck(AsInteger(w), s) = WindowCheck(w, s)
        /\ IntCommit(AsInteger(w), s) = AsInteger(WindowCommit(w, s))

\* The integer never outgrows the window, so the masked copy a snapshot holds
\* loses nothing: neither now nor after one more commit.  (With size 0 the mask
\* is 0, yet bit 0 is set unmasked, replay.py:187, 191.)
SnapshotLossless ==
  WindowSize > 0 =>
    \A k \in StreamKeys, s \in Seqs :
      LET w == IntCommit(AsInteger(WindowOf(k)), s) IN Snapshot(w) = w.bitmap
=============================================================================
