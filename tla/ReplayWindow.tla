---------------------------- MODULE ReplayWindow ----------------------------
(***************************************************************************)
(* The sliding anti-replay window of one stream (class ReplayWindow of     *)
(* srp/replay.py) as operators on a record.  The bitmap is the set of the  *)
(* offsets behind the highest sequence number whose bit is set; module     *)
(* ReplayBitmap shows that the shifts and masks of the code compute it.    *)
(***************************************************************************)
EXTENDS Integers

CONSTANT WindowSize     \* ReplayWindow(size): how many records are remembered

\* The constructor checks nothing; a negative size makes (1 << size) raise
\* when the first window is built, so the sizes a window can have are these.
ASSUME WindowSizeAssumption == WindowSize \in Nat

Verdicts == {"FRESH", "DUPLICATE", "TOO_OLD", "INVALID"}

\* The values a window can have in memory.
Window == [highest : Int, bitmap : SUBSET Nat, accepted : Nat]

EmptyWindow == [highest |-> -1, bitmap |-> {}, accepted |-> 0]

\* (mutant) The last accepted record counts as ahead of itself.
Ahead_Inclusive(w, s) == w.highest < 0 \/ s >= w.highest

\* The first record of a stream and every record ahead of the window.
Ahead(w, s) == w.highest < 0 \/ s > w.highest

\* (mutant) One position too tolerant.
Behind_Late(w, s) == w.highest - s > WindowSize

\* Further behind than the bitmap reaches.
Behind(w, s) == w.highest - s >= WindowSize

\* ReplayWindow.check: a query.
WindowCheck(w, s) ==
  IF s < 0 THEN "INVALID"
  ELSE IF Ahead(w, s) THEN "FRESH"
  ELSE IF Behind(w, s) THEN "TOO_OLD"
  ELSE IF w.highest - s \in w.bitmap THEN "DUPLICATE"
  ELSE "FRESH"

\* ReplayWindow.seen: the query the tests and the evidence use.
WindowSeen(w, s) ==
  /\ s >= 0
  /\ ~ Ahead(w, s)
  /\ ~ Behind(w, s)
  /\ w.highest - s \in w.bitmap

\* (mutants) The slide forgets the mask; sets no bit for s itself; shifts by one
\* too few.
Shifted_Unmasked(w, s) ==
  IF w.highest < 0 \/ s - w.highest >= WindowSize THEN {0}
  ELSE {j + (s - w.highest) : j \in w.bitmap} \cup {0}

Shifted_NoTopBit(w, s) ==
  {i \in {j + (s - w.highest) : j \in w.bitmap} : i < WindowSize}

Shifted_Short(w, s) ==
  IF w.highest < 0 \/ s - w.highest >= WindowSize THEN {0}
  ELSE {i \in {j + (s - w.highest) - 1 : j \in w.bitmap} \cup {0} : i < WindowSize}

\* The bitmap after the window has moved up to s.
Shifted(w, s) ==
  LET shift == s - w.highest
  IN  IF w.highest < 0 \/ shift >= WindowSize
      THEN {0}
      ELSE {i \in {j + shift : j \in w.bitmap} \cup {0} : i < WindowSize}

\* The Boolean ReplayWindow.commit returns.
WindowTakes(w, s) ==
  /\ s >= 0
  /\ \/ Ahead(w, s)
     \/ ~ Behind(w, s) /\ w.highest - s \notin w.bitmap

\* (mutant) A late record moves the window back.
WindowCommit_MovesBack(w, s) ==
  IF ~ WindowTakes(w, s) THEN w
  ELSE [highest |-> s, bitmap |-> Shifted(w, s), accepted |-> w.accepted + 1]

\* The window ReplayWindow.commit leaves behind.
WindowCommit(w, s) ==
  IF ~ WindowTakes(w, s) THEN w
  ELSE IF Ahead(w, s)
       THEN [highest  |-> s,
             bitmap   |-> Shifted(w, s),
             accepted |-> w.accepted + 1]
       ELSE [highest  |-> w.highest,
             bitmap   |-> w.bitmap \cup {w.highest - s},
             accepted |-> w.accepted + 1]
=============================================================================
