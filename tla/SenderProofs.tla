----------------------------- MODULE SenderProofs -----------------------------
(***************************************************************************)
(* Proofs about Sender for any number of senders, keys and prefixes, any   *)
(* ranges and budgets.                                                     *)
(***************************************************************************)
EXTENDS Sender, FiniteSetTheorems, SequenceTheorems, TLAPS

USE DEF Built

\* The state of one sender, what a spent nonce makes of it, and its next seal.
LEMMA SenderTyped ==
  ASSUME TypeOK, NEW id \in Built
  PROVE  /\ id \in SenderIds
         /\ senders[id] \in SenderState
         /\ senders[id].mgr \in Manager
         /\ \A c \in {0, 1} : Spend(senders[id], c) \in SenderState
         /\ SealOf(id) \in Seal
<1>1. id \in SenderIds /\ senders[id] \in SenderState
  BY DEF TypeOK
<1>2. senders[id].mgr \in Manager
  BY <1>1 DEF SenderState
<1>3. \A c \in {0, 1} : Spend(senders[id], c) \in SenderState
  <2>1. Allocate(senders[id].mgr) \in Manager
    BY <1>2 DEF Manager, Allocate
  <2> QED
    BY <1>1, <2>1 DEF SenderState, Spend
<1>4. SealOf(id) \in Seal
  <2>1. AllocatedNonce(senders[id].mgr) \in Prefixes \X Nat
    BY <1>2 DEF Manager, AllocatedNonce, DeriveNonce
  <2>2. senders[id].mgr.issued \in Nat /\ senders[id].key \in Keys
    BY <1>1, <1>2 DEF Manager, SenderState
  <2> QED
    BY <1>1, <2>1, <2>2 DEF SealOf, Seal
<1> QED
  BY <1>1, <1>2, <1>3, <1>4

\* Spending the next number of a manager that is not exhausted.
LEMMA AllocateKeepsRange ==
  ASSUME NEW m \in Manager, ~ Exhausted(m),
         m.next = m.start + m.issued, m.start + m.limit <= SeqSpace
  PROVE  LET n == Allocate(m)
         IN  /\ n.next = n.start + n.issued
             /\ n.issued <= n.limit
             /\ n.start = m.start /\ n.limit = m.limit /\ n.prefix = m.prefix
             /\ n.issued = m.issued + 1
BY SeqSpaceAssumption DEF Manager, Allocate, Exhausted

LEMMA InitLedger == Init => Ledger
<1> SUFFICES ASSUME Init PROVE Ledger
  OBVIOUS
<1>1. Built = {} /\ sealed = {}
  BY DEF Init
<1>2. TypeOK
  BY <1>1 DEF Init, TypeOK, NoBatch
<1> QED
  BY <1>1, <1>2 DEF Ledger

LEMMA ConstructLedger ==
  ASSUME Ledger, NEW id \in SenderIds, NEW key \in Keys, NEW streamOk \in BOOLEAN,
         NEW prefix \in Prefixes, NEW start \in Starts, NEW limit \in Limits,
         Construct(id, key, streamOk, prefix, start, limit)
  PROVE  Ledger'
<1> DEFINE m == NewManager(prefix, start, limit)
           r == [key |-> key, streamOk |-> streamOk, protected |-> 0, mgr |-> m]
<1>1. m \in Manager
  BY SenderAssumption, SeqSpaceAssumption
  DEF Construct, Admissible, NewManager, Manager
<1>2. /\ m.next = m.start + m.issued
      /\ m.issued <= m.limit
      /\ m.start + m.limit <= SeqSpace
  BY SenderAssumption, SeqSpaceAssumption DEF Construct, Admissible, NewManager
<1>3. /\ Built' = Built \cup {id}
      /\ senders'[id] = r
      /\ \A j \in Built : j # id /\ senders'[j] = senders[j]
  BY DEF Construct
<1>4. TypeOK'
  <2>1. r \in SenderState
    BY <1>1 DEF SenderState
  <2>2. senders' \in [Built' -> SenderState]
    BY <1>3, <2>1 DEF Construct, Ledger, TypeOK
  <2> QED
    BY <1>3, <2>2 DEF Construct, Ledger, TypeOK
<1>5. ASSUME NEW e \in sealed'
      PROVE  e \in sealed /\ e.by \in Built /\ senders'[e.by] = senders[e.by] /\ e.by \in Built'
  BY <1>3 DEF Construct, Ledger
<1>6. ASSUME NEW j \in Built'
      PROVE  LET k == senders'[j].mgr
             IN  /\ k.next = k.start + k.issued
                 /\ k.issued <= k.limit
                 /\ k.start + k.limit <= SeqSpace
  BY <1>2, <1>3 DEF Ledger
<1> QED
  BY <1>4, <1>5, <1>6 DEF Ledger

LEMMA SealLedger ==
  ASSUME Ledger, NEW id \in SenderIds, SealsRecord(id), TypeOK'
  PROVE  Ledger'
<1> DEFINE m == senders[id].mgr
<1>1. id \in Built /\ ~ Exhausted(m)
  BY DEF SealsRecord
<1>2. senders[id] \in SenderState /\ m \in Manager
  BY <1>1, SenderTyped DEF Ledger
<1>3. /\ Built' = Built
      /\ senders'[id].mgr = Allocate(m) /\ senders'[id].key = senders[id].key
      /\ \A j \in Built \ {id} : senders'[j] = senders[j]
  BY <1>1, <1>2 DEF SealsRecord, Spend, Ledger, TypeOK
<1>4. /\ m.next = m.start + m.issued
      /\ m.start + m.limit <= SeqSpace
  BY <1>1 DEF Ledger
<1>5. LET n == Allocate(m)
      IN  /\ n.next = n.start + n.issued
          /\ n.issued <= n.limit
          /\ n.start = m.start /\ n.limit = m.limit /\ n.prefix = m.prefix
          /\ n.issued = m.issued + 1
  BY <1>1, <1>2, <1>4, AllocateKeepsRange
<1>6. ASSUME NEW e \in sealed'
      PROVE  LET k == senders'[e.by].mgr
             IN  /\ e.by \in Built'
                 /\ e.key = senders'[e.by].key
                 /\ e.nth < k.issued
                 /\ e.nonce = <<k.prefix, k.start + e.nth>>
  <2>1. CASE e \in sealed
    <3>1. e.by \in Built /\ e.nth \in Nat
      BY <2>1 DEF Ledger, TypeOK, Seal
    <3>2. /\ e.key = senders[e.by].key
          /\ e.nth < senders[e.by].mgr.issued
          /\ e.nonce = <<senders[e.by].mgr.prefix, senders[e.by].mgr.start + e.nth>>
      BY <2>1 DEF Ledger
    <3>3. CASE e.by = id
      BY <1>2, <1>3, <1>5, <3>1, <3>2, <3>3 DEF Manager
    <3>4. CASE e.by # id
      BY <1>3, <3>1, <3>2, <3>4
    <3> QED
      BY <3>3, <3>4
  <2>2. CASE e = SealOf(id)
    <3>1. /\ e.by = id
          /\ e.key = senders[id].key
          /\ e.nth = m.issued
          /\ e.nonce = <<m.prefix, m.next>>
      BY <2>2 DEF SealOf, AllocatedNonce, DeriveNonce
    <3>2. m.issued \in Nat /\ m.start \in Nat
      BY <1>2 DEF Manager
    <3> QED
      BY <1>1, <1>3, <1>4, <1>5, <3>1, <3>2
  <2> QED
    BY <2>1, <2>2 DEF SealsRecord
<1>7. ASSUME NEW j \in Built'
      PROVE  LET k == senders'[j].mgr
             IN  /\ k.next = k.start + k.issued
                 /\ k.issued <= k.limit
                 /\ k.start + k.limit <= SeqSpace
  BY <1>3, <1>4, <1>5 DEF Ledger
<1> QED
  BY <1>6, <1>7 DEF Ledger

LEMMA BurnLedger ==
  ASSUME Ledger, NEW id \in SenderIds, BurnsNonce(id), TypeOK'
  PROVE  Ledger'
<1> DEFINE m == senders[id].mgr
<1>1. id \in Built /\ ~ Exhausted(m) /\ sealed' = sealed
  BY DEF BurnsNonce
<1>2. senders[id] \in SenderState /\ m \in Manager
  BY <1>1, SenderTyped DEF Ledger
<1>3. /\ Built' = Built
      /\ senders'[id].mgr = Allocate(m) /\ senders'[id].key = senders[id].key
      /\ \A j \in Built \ {id} : senders'[j] = senders[j]
  BY <1>1, <1>2 DEF BurnsNonce, Spend, Ledger, TypeOK
<1>4. m.next = m.start + m.issued /\ m.start + m.limit <= SeqSpace
  BY <1>1 DEF Ledger
<1>5. LET n == Allocate(m)
      IN  /\ n.next = n.start + n.issued
          /\ n.issued <= n.limit
          /\ n.start = m.start /\ n.limit = m.limit /\ n.prefix = m.prefix
          /\ n.issued = m.issued + 1
  BY <1>1, <1>2, <1>4, AllocateKeepsRange
<1>6. ASSUME NEW e \in sealed'
      PROVE  LET k == senders'[e.by].mgr
             IN  /\ e.by \in Built'
                 /\ e.key = senders'[e.by].key
                 /\ e.nth < k.issued
                 /\ e.nonce = <<k.prefix, k.start + e.nth>>
  <2>1. e.by \in Built /\ e.nth \in Nat
    BY <1>1 DEF Ledger, TypeOK, Seal
  <2>2. /\ e.key = senders[e.by].key
        /\ e.nth < senders[e.by].mgr.issued
        /\ e.nonce = <<senders[e.by].mgr.prefix, senders[e.by].mgr.start + e.nth>>
    BY <1>1 DEF Ledger
  <2> QED
    BY <1>2, <1>3, <1>5, <2>1, <2>2 DEF Manager
<1>7. ASSUME NEW j \in Built'
      PROVE  LET k == senders'[j].mgr
             IN  /\ k.next = k.start + k.issued
                 /\ k.issued <= k.limit
                 /\ k.start + k.limit <= SeqSpace
  BY <1>3, <1>4, <1>5 DEF Ledger
<1> QED
  BY <1>6, <1>7 DEF Ledger

\* Actions that change neither a sender nor the seals keep the ledger.
LEMMA QuietLedger ==
  ASSUME Ledger, UNCHANGED <<senders, sealed>>, TypeOK'
  PROVE  Ledger'
BY DEF Ledger

\* What the common part of the actions does to the types.
LEMMA PartTyped ==
  ASSUME TypeOK, NEW id \in SenderIds,
         SealsRecord(id) \/ BurnsNonce(id) \/ RefusesEarly(id)
  PROVE  /\ id \in Built
         /\ Built' = Built
         /\ senders' \in [Built' -> SenderState]
         /\ sealed' \subseteq Seal
<1>1. CASE SealsRecord(id)
  <2>1. id \in Built
    BY <1>1 DEF SealsRecord
  <2>2. Spend(senders[id], 1) \in SenderState /\ SealOf(id) \in Seal
    BY <2>1, SenderTyped
  <2> QED
    BY <1>1, <2>1, <2>2 DEF SealsRecord, TypeOK
<1>2. CASE BurnsNonce(id)
  <2>1. id \in Built
    BY <1>2 DEF BurnsNonce
  <2>2. Spend(senders[id], 0) \in SenderState
    BY <2>1, SenderTyped
  <2> QED
    BY <1>2, <2>1, <2>2 DEF BurnsNonce, TypeOK
<1>3. CASE RefusesEarly(id)
  BY <1>3 DEF RefusesEarly, TypeOK
<1> QED
  BY <1>1, <1>2, <1>3

\* The number the next seal will use.
LEMMA NextNumber ==
  ASSUME TypeOK, NEW id \in Built
  PROVE  senders[id].mgr.next \in Nat
BY SenderTyped DEF Manager

\* The inductive invariant: the ledger of nonces is right in every reachable
\* state, through failed seals, failed batches and retries.
THEOREM LedgerKept == Spec => []Ledger
<1>1. Ledger /\ [Next]_vars => Ledger'
  <2> SUFFICES ASSUME Ledger, [Next]_vars PROVE Ledger'
    OBVIOUS
  <2> USE DEF NoBatch
  <2>0. TypeOK
    BY DEF Ledger
  <2>1. ASSUME NEW id \in SenderIds, NEW key \in Keys, NEW streamOk \in BOOLEAN,
               NEW prefix \in Prefixes, NEW start \in Starts, NEW limit \in Limits,
               Construct(id, key, streamOk, prefix, start, limit)
        PROVE  Ledger'
    BY <2>1, ConstructLedger
  <2>2. ASSUME NEW id \in SenderIds, Protect(id) PROVE Ledger'
    <3>1. SealsRecord(id)
      BY <2>2 DEF Protect
    <3>2. id \in Built /\ senders[id].mgr.next \in Nat
      BY <2>0, <3>1, PartTyped, NextNumber
    <3>3. returned' \in [SenderIds -> Seq(Nat)]
      <4>1. Append(returned[id], senders[id].mgr.next) \in Seq(Nat)
        BY <2>0, <3>2, AppendProperties DEF TypeOK
      <4> QED
        BY <2>0, <2>2, <4>1 DEF Protect, TypeOK
    <3>4. TypeOK'
      BY <2>0, <2>2, <3>1, <3>3, PartTyped DEF Protect, TypeOK
    <3> QED
      BY <3>1, <3>4, SealLedger
  <2>3. ASSUME NEW id \in SenderIds, ProtectFails(id) PROVE Ledger'
    <3>1. BurnsNonce(id) \/ RefusesEarly(id)
      BY <2>3 DEF ProtectFails
    <3>2. TypeOK'
      BY <2>0, <2>3, <3>1, PartTyped DEF ProtectFails, TypeOK
    <3> QED
      BY <3>1, <3>2, BurnLedger, QuietLedger DEF RefusesEarly
  <2>4. ASSUME NEW id \in SenderIds, NEW n \in BatchSizes, BatchStart(id, n)
        PROVE  Ledger'
    <3>1. n \in Nat
      BY SenderAssumption
    <3>2. TypeOK'
      BY <2>0, <2>4, <3>1 DEF BatchStart, TypeOK
    <3> QED
      BY <2>4, <3>2, QuietLedger DEF BatchStart
  <2>5. ASSUME NEW id \in SenderIds, BatchSeal(id) PROVE Ledger'
    <3>1. SealsRecord(id)
      BY <2>5 DEF BatchSeal
    <3>2. id \in Built /\ senders[id].mgr.next \in Nat
      BY <2>0, <3>1, PartTyped, NextNumber
    <3>3. batch' \in [SenderIds -> [left : Nat, held : Seq(Nat)]]
      <4>1. batch[id] \in [left : Nat, held : Seq(Nat)] /\ batch[id].left > 1
        BY <2>0, <2>5 DEF BatchSeal, TypeOK
      <4>2. Append(batch[id].held, senders[id].mgr.next) \in Seq(Nat)
        BY <3>2, <4>1, AppendProperties
      <4>3. [left |-> batch[id].left - 1,
             held |-> Append(batch[id].held, senders[id].mgr.next)]
              \in [left : Nat, held : Seq(Nat)]
        BY <4>1, <4>2
      <4> QED
        BY <2>0, <2>5, <4>3 DEF BatchSeal, TypeOK
    <3>4. TypeOK'
      BY <2>0, <2>5, <3>1, <3>3, PartTyped DEF BatchSeal, TypeOK
    <3> QED
      BY <3>1, <3>4, SealLedger
  <2>6. ASSUME NEW id \in SenderIds, BatchEnd(id) PROVE Ledger'
    <3>1. SealsRecord(id)
      BY <2>6 DEF BatchEnd
    <3>2. id \in Built /\ senders[id].mgr.next \in Nat
      BY <2>0, <3>1, PartTyped, NextNumber
    <3>3. returned[id] \o Append(batch[id].held, senders[id].mgr.next) \in Seq(Nat)
      <4>1. returned[id] \in Seq(Nat) /\ batch[id].held \in Seq(Nat)
        BY <2>0 DEF TypeOK
      <4>2. Append(batch[id].held, senders[id].mgr.next) \in Seq(Nat)
        BY <3>2, <4>1, AppendProperties
      <4> QED
        BY <4>1, <4>2, ConcatProperties
    <3>4. returned' \in [SenderIds -> Seq(Nat)]
      BY <2>0, <2>6, <3>3 DEF BatchEnd, TypeOK
    <3>5. TypeOK'
      BY <2>0, <2>6, <3>1, <3>4, PartTyped DEF BatchEnd, TypeOK
    <3> QED
      BY <3>1, <3>5, SealLedger
  <2>7. ASSUME NEW id \in SenderIds, BatchFails(id) PROVE Ledger'
    <3>1. BurnsNonce(id) \/ RefusesEarly(id)
      BY <2>7 DEF BatchFails
    <3>2. HeldBy(id) \subseteq Nat
      BY <2>0, LenProperties DEF HeldBy, TypeOK
    <3>3. dropped' \in [SenderIds -> SUBSET Nat]
      BY <2>0, <2>7, <3>2 DEF BatchFails, TypeOK
    <3>4. TypeOK'
      BY <2>0, <2>7, <3>1, <3>3, PartTyped DEF BatchFails, TypeOK
    <3> QED
      BY <3>1, <3>4, BurnLedger, QuietLedger DEF RefusesEarly
  <2>8. CASE UNCHANGED vars
    <3>1. TypeOK'
      BY <2>0, <2>8 DEF vars, TypeOK
    <3> QED
      BY <2>8, <3>1, QuietLedger DEF vars
  <2> QED
    BY <2>1, <2>2, <2>3, <2>4, <2>5, <2>6, <2>7, <2>8 DEF Next
<1> QED
  BY <1>1, InitLedger, PTL DEF Spec

(***************************************************************************)
(* The checked properties                                                  *)
(***************************************************************************)
\* Type correctness.
THEOREM SenderTypeCorrect == Spec => []TypeOK
<1>1. Ledger => TypeOK
  BY DEF Ledger
<1> QED
  BY <1>1, LedgerKept, PTL

\* A nonce is used twice under one key only by two senders that were given the
\* same prefix and overlapping ranges; one sender never repeats a nonce.
THEOREM NonceUniqueness == Spec => []NonceReuseNeedsClash
<1>1. Ledger => NonceReuseNeedsClash
  <2> SUFFICES ASSUME Ledger, NEW e \in sealed, NEW f \in sealed,
                      e # f, e.key = f.key, e.nonce = f.nonce
               PROVE  LET m == senders[e.by].mgr
                          n == senders[f.by].mgr
                      IN  /\ e.by # f.by
                          /\ m.prefix = n.prefix
                          /\ m.start < n.start + n.limit /\ n.start < m.start + m.limit
    BY DEF NonceReuseNeedsClash
  <2> DEFINE m == senders[e.by].mgr
             n == senders[f.by].mgr
  <2>1. /\ e \in Seal /\ f \in Seal
        /\ e.by \in Built /\ f.by \in Built
        /\ TypeOK
    BY DEF Ledger, TypeOK
  <2>2. m \in Manager /\ n \in Manager
    BY <2>1, SenderTyped
  <2>3. /\ e.nth < m.issued /\ m.issued <= m.limit
        /\ f.nth < n.issued /\ n.issued <= n.limit
    BY <2>1 DEF Ledger
  <2>4. m.prefix = n.prefix /\ m.start + e.nth = n.start + f.nth
    <3>1. \A g \in sealed :
            /\ g.nonce[1] = senders[g.by].mgr.prefix
            /\ g.nonce[2] = senders[g.by].mgr.start + g.nth
      BY DEF Ledger
    <3> QED
      BY <3>1
  <2>5. e.nth \in Nat /\ f.nth \in Nat
    BY <2>1 DEF Seal
  <2>6. m.start < n.start + n.limit /\ n.start < m.start + m.limit
    BY <2>2, <2>3, <2>4, <2>5 DEF Manager
  <2>7. e.by # f.by
    <3> SUFFICES ASSUME e.by = f.by PROVE FALSE
      OBVIOUS
    <3>1. e.nth = f.nth
      BY <2>2, <2>4, <2>5 DEF Manager
    <3> QED
      BY <2>1, <3>1 DEF Seal
  <2> QED
    BY <2>4, <2>6, <2>7
<1> QED
  BY <1>1, LedgerKept, PTL

\* No allocation leaves the 64-bit space or the range of its manager.
THEOREM NoOverflow == Spec => []NeverOverflows
<1>1. Ledger => NeverOverflows
  <2> SUFFICES ASSUME Ledger, NEW id \in Built
               PROVE  LET m == senders[id].mgr
                      IN  /\ ~ Exhausted(m) => Derivable(m.next) /\ m.next < m.start + m.limit
                          /\ \A e \in SealsBy(id) : Derivable(e.nonce[2])
    BY DEF NeverOverflows
  <2> DEFINE m == senders[id].mgr
  <2>1. m \in Manager /\ TypeOK
    BY SenderTyped DEF Ledger
  <2>2. /\ m.next = m.start + m.issued
        /\ m.issued <= m.limit
        /\ m.start + m.limit <= SeqSpace
    BY DEF Ledger
  <2>3. ~ Exhausted(m) => Derivable(m.next) /\ m.next < m.start + m.limit
    BY <2>1, <2>2, SeqSpaceAssumption DEF Exhausted, Derivable, Manager
  <2>4. ASSUME NEW e \in SealsBy(id) PROVE Derivable(e.nonce[2])
    <3>1. e \in Seal /\ e.by = id /\ e.nth < m.issued /\ e.nonce[2] = m.start + e.nth
      BY <2>1 DEF SealsBy, Ledger, TypeOK
    <3> QED
      BY <2>1, <2>2, <3>1, SeqSpaceAssumption DEF Seal, Derivable, Manager
  <2> QED
    BY <2>3, <2>4
<1> QED
  BY <1>1, LedgerKept, PTL

\* An exhausted manager is never touched again, whatever the callers retry.
THEOREM NoWayBack == Spec => ExhaustionIsFinal
<1> DEFINE Final ==
      \A id \in Built :
        Exhausted(senders[id].mgr) =>
          /\ senders'[id] = senders[id]
          /\ \A e \in sealed' \ sealed : e.by # id
          /\ Remaining(senders[id].mgr) = 0
<1>1. ASSUME Ledger, NEW id \in SenderIds,
             SealsRecord(id) \/ BurnsNonce(id) \/ RefusesEarly(id)
      PROVE  Final
  <2> SUFFICES ASSUME NEW j \in Built, Exhausted(senders[j].mgr)
               PROVE  senders'[j] = senders[j] /\ \A e \in sealed' \ sealed : e.by # j
    BY DEF Remaining
  <2>1. id = j => RefusesEarly(id)
    BY <1>1 DEF SealsRecord, BurnsNonce
  <2>2. CASE RefusesEarly(id)
    BY <2>2 DEF RefusesEarly
  <2>3. CASE SealsRecord(id) /\ id # j
    BY <2>3 DEF SealsRecord, SealOf, Ledger, TypeOK
  <2>4. CASE BurnsNonce(id) /\ id # j
    BY <2>4 DEF BurnsNonce, Ledger, TypeOK
  <2> QED
    BY <1>1, <2>1, <2>2, <2>3, <2>4
<1>2. Ledger /\ [Next]_vars => [Final]_vars
  <2> SUFFICES ASSUME Ledger, Next PROVE Final
    OBVIOUS
  <2>1. ASSUME NEW id \in SenderIds, NEW key \in Keys, NEW streamOk \in BOOLEAN,
               NEW prefix \in Prefixes, NEW start \in Starts, NEW limit \in Limits,
               Construct(id, key, streamOk, prefix, start, limit)
        PROVE  Final
    BY <2>1 DEF Construct, Remaining
  <2>2. ASSUME NEW id \in SenderIds,
               \/ Protect(id) \/ ProtectFails(id)
               \/ BatchSeal(id) \/ BatchEnd(id) \/ BatchFails(id)
        PROVE  Final
    <3>1. SealsRecord(id) \/ BurnsNonce(id) \/ RefusesEarly(id)
      BY <2>2 DEF Protect, ProtectFails, BatchSeal, BatchEnd, BatchFails
    <3> QED
      BY <1>1, <3>1
  <2>3. ASSUME NEW id \in SenderIds, NEW n \in BatchSizes, BatchStart(id, n)
        PROVE  Final
    BY <2>3 DEF BatchStart, Remaining
  <2> QED
    BY <2>1, <2>2, <2>3 DEF Next
<1> QED
  BY <1>2, LedgerKept, PTL DEF Spec, ExhaustionIsFinal

(***************************************************************************)
(* Statistics: the seals of a sender are finitely many, each AEAD call     *)
(* adds one that was not there (its nth is new), and counts one.           *)
(***************************************************************************)
Counted ==
  \A id \in Built :
    /\ IsFiniteSet(SealsBy(id))
    /\ senders[id].protected = Cardinality(SealsBy(id))
    /\ senders[id].protected <= senders[id].mgr.issued

LEMMA SpendCounts ==
  ASSUME Ledger, Counted, NEW id \in SenderIds,
         SealsRecord(id) \/ BurnsNonce(id) \/ RefusesEarly(id)
  PROVE  Counted'
<1> SUFFICES ASSUME NEW j \in Built'
             PROVE  /\ IsFiniteSet(SealsBy(j)')
                    /\ senders'[j].protected = Cardinality(SealsBy(j)')
                    /\ senders'[j].protected <= senders'[j].mgr.issued
  BY DEF Counted
<1>1. /\ TypeOK /\ id \in Built /\ j \in Built
  BY PartTyped DEF Ledger
<1>2. /\ senders[j] \in SenderState /\ senders[j].mgr \in Manager
      /\ senders[j].protected \in Nat /\ senders[j].mgr.issued \in Nat
  BY <1>1, SenderTyped DEF SenderState, Manager
<1>3. /\ IsFiniteSet(SealsBy(j))
      /\ senders[j].protected = Cardinality(SealsBy(j))
      /\ senders[j].protected <= senders[j].mgr.issued
  BY <1>1 DEF Counted
<1>4. CASE RefusesEarly(id)
  BY <1>3, <1>4 DEF RefusesEarly, SealsBy
<1>5. CASE BurnsNonce(id)
  <2>1. SealsBy(j)' = SealsBy(j)
    BY <1>5 DEF BurnsNonce, SealsBy
  <2>2. senders'[j] = IF j = id THEN Spend(senders[j], 0) ELSE senders[j]
    BY <1>1, <1>5 DEF BurnsNonce, TypeOK
  <2>3. senders'[j].protected = senders[j].protected
    BY <1>2, <2>2 DEF Spend
  <2>4. senders'[j].mgr.issued >= senders[j].mgr.issued
    BY <1>2, <2>2 DEF Spend, Allocate
  <2>5. senders'[j].mgr.issued \in Nat
    BY <1>2, <2>2 DEF Spend, Allocate
  <2> QED
    BY <1>2, <1>3, <2>1, <2>3, <2>4, <2>5
<1>6. CASE SealsRecord(id) /\ j # id
  <2>1. SealsBy(j)' = SealsBy(j)
    BY <1>6 DEF SealsRecord, SealsBy, SealOf
  <2>2. senders'[j] = senders[j]
    BY <1>1, <1>6 DEF SealsRecord, TypeOK
  <2> QED
    BY <1>3, <2>1, <2>2
<1>7. CASE SealsRecord(id) /\ j = id
  <2>1. SealsBy(j)' = SealsBy(j) \cup {SealOf(id)}
    BY <1>7 DEF SealsRecord, SealsBy, SealOf
  <2>2. SealOf(id) \notin SealsBy(j)
    <3>1. ASSUME NEW e \in SealsBy(j) PROVE e.nth < senders[id].mgr.issued
      BY <1>1, <1>7 DEF SealsBy, Ledger
    <3> QED
      BY <1>2, <1>7, <3>1 DEF SealOf
  <2>3. /\ IsFiniteSet(SealsBy(j)')
        /\ Cardinality(SealsBy(j)') = Cardinality(SealsBy(j)) + 1
    BY <1>3, <2>1, <2>2, FS_AddElement
  <2>4. senders'[j] = Spend(senders[j], 1)
    BY <1>1, <1>7 DEF SealsRecord, TypeOK
  <2>5. /\ senders'[j].protected = senders[j].protected + 1
        /\ senders'[j].mgr.issued = senders[j].mgr.issued + 1
    BY <1>2, <2>4 DEF Spend, Allocate
  <2> QED
    BY <1>2, <1>3, <2>3, <2>5
<1> QED
  BY <1>4, <1>5, <1>6, <1>7

\* records_protected is the number of AEAD calls, and never more than the budget spent.
THEOREM StatisticsTrue == Spec => []StatsCountSeals
<1>1. Init => Counted
  BY DEF Init, Counted
<1>2. Ledger /\ Counted /\ [Next]_vars => Counted'
  <2> SUFFICES ASSUME Ledger, Counted, [Next]_vars PROVE Counted'
    OBVIOUS
  <2>1. ASSUME NEW id \in SenderIds, NEW key \in Keys, NEW streamOk \in BOOLEAN,
               NEW prefix \in Prefixes, NEW start \in Starts, NEW limit \in Limits,
               Construct(id, key, streamOk, prefix, start, limit)
        PROVE  Counted'
    <3>1. /\ Built' = Built \cup {id}
          /\ \A j \in Built : senders'[j] = senders[j]
          /\ senders'[id].protected = 0
          /\ senders'[id].mgr.issued = 0
      BY <2>1 DEF Construct, NewManager
    <3>2. \A j : SealsBy(j)' = SealsBy(j)
      BY <2>1 DEF Construct, SealsBy
    <3>3. SealsBy(id) = {}
      BY <2>1 DEF Construct, Ledger, SealsBy
    <3>4. IsFiniteSet({}) /\ Cardinality({}) = 0
      BY FS_EmptySet
    <3>5. ASSUME NEW j \in Built'
          PROVE  /\ IsFiniteSet(SealsBy(j)')
                 /\ senders'[j].protected = Cardinality(SealsBy(j)')
                 /\ senders'[j].protected <= senders'[j].mgr.issued
      <4>1. SealsBy(j)' = SealsBy(j)
        BY <3>2
      <4>2. CASE j = id
        BY <3>1, <3>3, <3>4, <4>1, <4>2
      <4>3. CASE j \in Built
        BY <3>1, <4>1, <4>3 DEF Counted
      <4> QED
        BY <3>1, <4>2, <4>3
    <3> QED
      BY <3>5 DEF Counted
  <2>2. ASSUME NEW id \in SenderIds,
               \/ Protect(id) \/ ProtectFails(id)
               \/ BatchSeal(id) \/ BatchEnd(id) \/ BatchFails(id)
        PROVE  Counted'
    <3>1. SealsRecord(id) \/ BurnsNonce(id) \/ RefusesEarly(id)
      BY <2>2 DEF Protect, ProtectFails, BatchSeal, BatchEnd, BatchFails
    <3> QED
      BY <3>1, SpendCounts
  <2>3. ASSUME UNCHANGED <<senders, sealed>> PROVE Counted'
    BY <2>3 DEF Counted, SealsBy
  <2> QED
    BY <2>1, <2>2, <2>3 DEF Next, BatchStart, vars
<1>3. Counted => StatsCountSeals
  BY DEF Counted, StatsCountSeals
<1> QED
  BY <1>1, <1>2, <1>3, LedgerKept, PTL DEF Spec

(***************************************************************************)
(* What callers are given: a sealed number is below the counter, so the    *)
(* next one exceeds all that were handed out and is none of the dropped.   *)
(***************************************************************************)
Account(id) ==
  /\ \A i, j \in DOMAIN Handed(id) : i < j => Handed(id)[i] < Handed(id)[j]
  /\ \A i \in DOMAIN Handed(id) :
       /\ Handed(id)[i] \notin dropped[id]
       /\ \E e \in SealsBy(id) : e.nonce[2] = Handed(id)[i]
  /\ \A s \in dropped[id] : \E e \in SealsBy(id) : e.nonce[2] = s

Accounted == \A id \in SenderIds : Account(id)

LEMMA HandedTyped ==
  ASSUME TypeOK, NEW id \in SenderIds
  PROVE  /\ returned[id] \in Seq(Nat) /\ batch[id].held \in Seq(Nat)
         /\ Handed(id) \in Seq(Nat)
         /\ Len(Handed(id)) = Len(returned[id]) + Len(batch[id].held)
         /\ \A i \in 1 .. Len(returned[id]) : Handed(id)[i] = returned[id][i]
         /\ \A i \in 1 .. Len(batch[id].held) :
              Handed(id)[Len(returned[id]) + i] = batch[id].held[i]
<1> DEFINE r == Len(returned[id])
           n == Len(batch[id].held)
<1>1. returned[id] \in Seq(Nat) /\ batch[id].held \in Seq(Nat)
  BY DEF TypeOK
<1>2. r \in Nat /\ n \in Nat
  BY <1>1, LenProperties
<1>3. /\ Handed(id) \in Seq(Nat)
      /\ Len(Handed(id)) = r + n
      /\ \A i \in 1 .. r + n :
           Handed(id)[i] = IF i <= r THEN returned[id][i] ELSE batch[id].held[i - r]
  BY <1>1, ConcatProperties DEF Handed
<1> HIDE DEF r, n
<1>4. \A i \in 1 .. r : i \in 1 .. r + n /\ i <= r
  BY <1>2
<1>5. \A i \in 1 .. r : Handed(id)[i] = returned[id][i]
  BY <1>3, <1>4
<1>6. \A i \in 1 .. n : r + i \in 1 .. r + n /\ ~ (r + i <= r) /\ (r + i) - r = i
  BY <1>2
<1>7. \A i \in 1 .. n : Handed(id)[r + i] = batch[id].held[i]
  BY <1>3, <1>6
<1> QED
  BY <1>1, <1>3, <1>5, <1>7 DEF r, n

\* Appending to the end is appending to the second part.
LEMMA AppendToConcat ==
  ASSUME NEW r \in Seq(Nat), NEW h \in Seq(Nat), NEW n \in Nat
  PROVE  r \o Append(h, n) = Append(r \o h, n)
<1>1. <<n>> \in Seq(Nat) /\ r \o h \in Seq(Nat)
  BY ConcatProperties
<1>2. Append(h, n) = h \o <<n>> /\ Append(r \o h, n) = (r \o h) \o <<n>>
  BY <1>1, AppendIsConcat
<1> QED
  BY <1>1, <1>2, ConcatAssociative

LEMMA NextIsNew ==
  ASSUME Ledger, NEW id \in SenderIds, SealsRecord(id)
  PROVE  /\ senders[id].mgr.next \in Nat
         /\ \E e \in SealsBy(id)' : e.nonce[2] = senders[id].mgr.next
         /\ \A e \in SealsBy(id) : e.nonce[2] < senders[id].mgr.next
         /\ \A j \in SenderIds : SealsBy(j) \subseteq SealsBy(j)'
<1> DEFINE m == senders[id].mgr
<1>1. TypeOK /\ id \in Built
  BY PartTyped DEF Ledger
<1>2. m \in Manager
  BY <1>1, SenderTyped
<1>3. SealOf(id).by = id /\ SealOf(id).nonce[2] = m.next
  BY DEF SealOf, AllocatedNonce, DeriveNonce
<1>4. sealed' = sealed \cup {SealOf(id)}
  BY DEF SealsRecord
<1>5. ASSUME NEW e \in SealsBy(id) PROVE e.nonce[2] < m.next
  <2>1. e \in sealed /\ e.by = id /\ e \in Seal
    BY <1>1 DEF SealsBy, TypeOK
  <2>2. /\ e.nth < m.issued
        /\ e.nonce[2] = m.start + e.nth
        /\ m.next = m.start + m.issued
    BY <1>1, <2>1 DEF Ledger
  <2> QED
    BY <1>2, <2>1, <2>2 DEF Manager, Seal
<1> QED
  BY <1>2, <1>3, <1>4, <1>5 DEF SealsBy, Manager

\* A seal keeps the account when all it does is hand out the number it used.
LEMMA SealAccounted ==
  ASSUME Ledger, Accounted, NEW id \in SenderIds, SealsRecord(id),
         dropped' = dropped,
         \A j \in SenderIds \ {id} : Handed(j)' = Handed(j),
         Handed(id)' = Append(Handed(id), senders[id].mgr.next)
  PROVE  Accounted'
<1> DEFINE next == senders[id].mgr.next
<1>1. /\ next \in Nat
      /\ \E e \in SealsBy(id)' : e.nonce[2] = next
      /\ \A e \in SealsBy(id) : e.nonce[2] < next
      /\ \A j \in SenderIds : SealsBy(j) \subseteq SealsBy(j)'
  BY NextIsNew
<1> HIDE DEF next
<1>2. TypeOK
  BY DEF Ledger
<1>3. ASSUME NEW j \in SenderIds, j # id PROVE Account(j)'
  <2>1. Handed(j)' = Handed(j) /\ dropped'[j] = dropped[j]
    BY <1>3
  <2>2. Account(j)
    BY DEF Accounted
  <2> QED
    BY <1>1, <2>1, <2>2 DEF Account
<1>4. Account(id)'
  <2>1. /\ Handed(id) \in Seq(Nat) /\ Len(Handed(id)) \in Nat
        /\ DOMAIN Handed(id) = 1 .. Len(Handed(id))
    BY <1>2, HandedTyped, LenProperties
  <2>2. /\ DOMAIN Handed(id)' = 1 .. Len(Handed(id)) + 1
        /\ \A i \in 1 .. Len(Handed(id)) : Handed(id)'[i] = Handed(id)[i]
        /\ Handed(id)'[Len(Handed(id)) + 1] = next
    <3>1. Append(Handed(id), next) \in Seq(Nat)
      BY <1>1, <2>1, AppendProperties
    <3> QED
      BY <1>1, <2>1, <3>1, AppendProperties, LenProperties DEF next
  <2>3. Account(id)
    BY DEF Accounted
  <2>4. \A i \in DOMAIN Handed(id) : Handed(id)[i] < next
    BY <1>1, <2>3 DEF Account
  <2>5. next \notin dropped[id]
    <3>1. \A s \in dropped[id] : s < next
      BY <1>1, <2>3 DEF Account
    <3> QED
      BY <1>1, <3>1
  <2>6. ASSUME NEW i \in DOMAIN Handed(id)', NEW j \in DOMAIN Handed(id)', i < j
        PROVE  Handed(id)'[i] < Handed(id)'[j]
    <3>1. i \in 1 .. Len(Handed(id))
      BY <2>1, <2>2, <2>6
    <3>2. CASE j \in 1 .. Len(Handed(id))
      BY <2>1, <2>2, <2>3, <2>6, <3>1, <3>2 DEF Account
    <3>3. CASE j = Len(Handed(id)) + 1
      BY <2>1, <2>2, <2>4, <3>1, <3>3
    <3> QED
      BY <2>1, <2>2, <3>2, <3>3
  <2>7. ASSUME NEW i \in DOMAIN Handed(id)'
        PROVE  /\ Handed(id)'[i] \notin dropped[id]
               /\ \E e \in SealsBy(id)' : e.nonce[2] = Handed(id)'[i]
    <3>1. CASE i \in 1 .. Len(Handed(id))
      BY <1>1, <2>1, <2>2, <2>3, <3>1 DEF Account
    <3>2. CASE i = Len(Handed(id)) + 1
      BY <1>1, <2>2, <2>5, <3>2
    <3> QED
      BY <2>1, <2>2, <3>1, <3>2
  <2>8. \A s \in dropped[id] : \E e \in SealsBy(id)' : e.nonce[2] = s
    BY <1>1, <2>3 DEF Account
  <2> QED
    BY <2>6, <2>7, <2>8 DEF Account
<1> QED
  BY <1>3, <1>4 DEF Accounted

\* The numbers a failed batch takes with it were handed to nobody.
LEMMA DropAccounted ==
  ASSUME TypeOK, Accounted, NEW id \in SenderIds, BatchFails(id)
  PROVE  Accounted'
<1>1. /\ returned' = returned
      /\ \A j : SealsBy(j)' = SealsBy(j)
      /\ batch'[id].held = <<>>
      /\ dropped'[id] = dropped[id] \cup HeldBy(id)
      /\ \A j \in SenderIds \ {id} : batch'[j] = batch[j] /\ dropped'[j] = dropped[j]
  BY DEF BatchFails, BurnsNonce, RefusesEarly, SealsBy, TypeOK, NoBatch
<1>2. ASSUME NEW j \in SenderIds, j # id PROVE Account(j)'
  <2>1. Handed(j)' = Handed(j) /\ dropped'[j] = dropped[j]
    BY <1>1, <1>2 DEF Handed
  <2> QED
    BY <1>1, <2>1 DEF Accounted, Account
<1>3. Account(id)'
  <2>1. returned[id] \in Seq(Nat) /\ batch[id].held \in Seq(Nat)
    BY HandedTyped
  <2>2. Handed(id)' = returned[id]
    BY <1>1, <2>1, ConcatEmptySeq DEF Handed
  <2> DEFINE r == Len(returned[id])
  <2>3. /\ r \in Nat /\ Len(batch[id].held) \in Nat
        /\ DOMAIN returned[id] = 1 .. r
        /\ DOMAIN batch[id].held = 1 .. Len(batch[id].held)
        /\ DOMAIN Handed(id) = 1 .. r + Len(batch[id].held)
        /\ \A i \in 1 .. r : Handed(id)[i] = returned[id][i]
        /\ \A i \in 1 .. Len(batch[id].held) : Handed(id)[r + i] = batch[id].held[i]
    BY <2>1, HandedTyped, LenProperties
  <2> HIDE DEF r
  <2>4. Account(id)
    BY DEF Accounted
  <2>5. ASSUME NEW i \in DOMAIN returned[id], NEW s \in HeldBy(id)
        PROVE  returned[id][i] # s
    <3>1. PICK k \in DOMAIN batch[id].held : s = batch[id].held[k]
      BY DEF HeldBy
    <3>2. /\ i \in DOMAIN Handed(id) /\ r + k \in DOMAIN Handed(id)
          /\ i < r + k
      BY <2>3
    <3>3. Handed(id)[i] < Handed(id)[r + k]
      BY <2>4, <3>2 DEF Account
    <3>4. returned[id][i] \in Nat /\ s \in Nat
      <4>1. i \in 1 .. Len(returned[id]) /\ k \in 1 .. Len(batch[id].held)
        BY <2>1, LenProperties
      <4>2. returned[id][i] \in Nat
        BY <2>1, <4>1, ElementOfSeq
      <4>3. batch[id].held[k] \in Nat
        BY <2>1, <4>1, ElementOfSeq
      <4> QED
        BY <3>1, <4>2, <4>3
    <3>5. Handed(id)[i] = returned[id][i] /\ Handed(id)[r + k] = s
      BY <2>3, <3>1
    <3>6. \A x, y \in Nat : x < y => x # y
      OBVIOUS
    <3> QED
      BY <3>3, <3>4, <3>5, <3>6
  <2>6. ASSUME NEW s \in HeldBy(id) PROVE \E e \in SealsBy(id) : e.nonce[2] = s
    <3>1. PICK k \in DOMAIN batch[id].held : s = batch[id].held[k]
      BY DEF HeldBy
    <3>2. r + k \in DOMAIN Handed(id)
      BY <2>3
    <3> QED
      BY <2>3, <2>4, <3>1, <3>2 DEF Account
  <2>7. ASSUME NEW i \in DOMAIN returned[id]
        PROVE  /\ i \in DOMAIN Handed(id)
               /\ Handed(id)[i] = returned[id][i]
    BY <2>3
  <2>8. \A i, j \in DOMAIN returned[id] : i < j => returned[id][i] < returned[id][j]
    BY <2>4, <2>7 DEF Account
  <2>9. ASSUME NEW i \in DOMAIN returned[id]
        PROVE  /\ returned[id][i] \notin dropped'[id]
               /\ \E e \in SealsBy(id) : e.nonce[2] = returned[id][i]
    BY <1>1, <2>4, <2>5, <2>7 DEF Account
  <2>10. \A s \in dropped'[id] : \E e \in SealsBy(id) : e.nonce[2] = s
    BY <1>1, <2>4, <2>6 DEF Account
  <2> QED
    BY <1>1, <2>2, <2>8, <2>9, <2>10 DEF Account
<1> QED
  BY <1>2, <1>3 DEF Accounted

\* No caller is given a number twice, nor one a failed batch has dropped.
THEOREM NoNumberReturnedTwice == Spec => []ReturnedOnce
<1>1. Init => Accounted
  <2> SUFFICES ASSUME Init, NEW id \in SenderIds PROVE Account(id)
    BY DEF Accounted
  <2>1. Handed(id) = <<>> /\ dropped[id] = {}
    BY ConcatEmptySeq, EmptySeq DEF Init, Handed, NoBatch
  <2> QED
    BY <2>1 DEF Account
<1>2. Ledger /\ Accounted /\ [Next]_vars => Accounted'
  <2> SUFFICES ASSUME Ledger, Accounted, [Next]_vars PROVE Accounted'
    OBVIOUS
  <2>0. TypeOK
    BY DEF Ledger
  <2>1. ASSUME /\ sealed' = sealed /\ dropped' = dropped /\ returned' = returned
               /\ \A j \in SenderIds : batch'[j].held = batch[j].held
        PROVE  Accounted'
    <3> SUFFICES ASSUME NEW j \in SenderIds PROVE Account(j)'
      BY DEF Accounted
    <3>1. /\ Handed(j)' = Handed(j) /\ SealsBy(j)' = SealsBy(j)
          /\ dropped'[j] = dropped[j]
      BY <2>1 DEF Handed, SealsBy
    <3>2. Account(j)
      BY DEF Accounted
    <3> QED
      BY <3>1, <3>2 DEF Account
  <2>2. ASSUME NEW id \in SenderIds, Protect(id) PROVE Accounted'
    <3>1. SealsRecord(id) /\ batch' = batch /\ dropped' = dropped
      BY <2>2 DEF Protect
    <3>2. /\ returned'[id] = Append(returned[id], senders[id].mgr.next)
          /\ \A j \in SenderIds \ {id} : returned'[j] = returned[j]
      BY <2>0, <2>2 DEF Protect, TypeOK
    <3>3. batch[id].held = <<>>
      BY <2>2 DEF Protect, NoBatch
    <3>4. returned[id] \in Seq(Nat) /\ senders[id].mgr.next \in Nat
      <4>1. senders[id].mgr.next \in Nat
        BY <3>1, NextIsNew
      <4> QED
        BY <2>0, <4>1 DEF TypeOK
    <3>5. Handed(id)' = Append(Handed(id), senders[id].mgr.next)
      <4>1. Append(returned[id], senders[id].mgr.next) \in Seq(Nat)
        BY <3>4, AppendProperties
      <4>2. /\ returned[id] \o <<>> = returned[id]
            /\ Append(returned[id], senders[id].mgr.next) \o <<>>
                 = Append(returned[id], senders[id].mgr.next)
        BY <3>4, <4>1, ConcatEmptySeq
      <4> QED
        BY <3>1, <3>2, <3>3, <4>2 DEF Handed
    <3> QED
      BY <3>1, <3>2, <3>5, SealAccounted DEF Handed
  <2>3. ASSUME NEW id \in SenderIds, BatchSeal(id) PROVE Accounted'
    <3>1. SealsRecord(id) /\ returned' = returned /\ dropped' = dropped
      BY <2>3 DEF BatchSeal
    <3>2. /\ batch'[id].held = Append(batch[id].held, senders[id].mgr.next)
          /\ \A j \in SenderIds \ {id} : batch'[j] = batch[j]
      BY <2>0, <2>3 DEF BatchSeal, TypeOK
    <3>3. senders[id].mgr.next \in Nat
      BY <3>1, NextIsNew
    <3>4. returned[id] \in Seq(Nat) /\ batch[id].held \in Seq(Nat)
      BY <2>0 DEF TypeOK
    <3>5. Handed(id)' = Append(Handed(id), senders[id].mgr.next)
      BY <3>1, <3>2, <3>3, <3>4, AppendToConcat DEF Handed
    <3> QED
      BY <3>1, <3>2, <3>5, SealAccounted DEF Handed
  <2>4. ASSUME NEW id \in SenderIds, BatchEnd(id) PROVE Accounted'
    <3>1. SealsRecord(id) /\ dropped' = dropped
      BY <2>4 DEF BatchEnd
    <3>2. /\ returned'[id] = returned[id] \o Append(batch[id].held, senders[id].mgr.next)
          /\ batch'[id].held = <<>>
          /\ \A j \in SenderIds \ {id} : batch'[j] = batch[j] /\ returned'[j] = returned[j]
      BY <2>0, <2>4 DEF BatchEnd, TypeOK, NoBatch
    <3>3. /\ returned[id] \in Seq(Nat) /\ batch[id].held \in Seq(Nat)
          /\ Handed(id) \in Seq(Nat) /\ senders[id].mgr.next \in Nat
      BY <2>0, <3>1, HandedTyped, NextIsNew
    <3>4. returned'[id] = Append(Handed(id), senders[id].mgr.next)
      BY <3>2, <3>3, AppendToConcat DEF Handed
    <3>5. Append(Handed(id), senders[id].mgr.next) \in Seq(Nat)
      BY <3>3, AppendProperties
    <3>6. Handed(id)' = Append(Handed(id), senders[id].mgr.next)
      BY <3>2, <3>4, <3>5, ConcatEmptySeq DEF Handed
    <3> QED
      BY <3>1, <3>2, <3>6, SealAccounted DEF Handed
  <2>5. ASSUME NEW id \in SenderIds, NEW n \in BatchSizes, BatchStart(id, n)
        PROVE  Accounted'
    BY <2>0, <2>1, <2>5 DEF BatchStart, TypeOK, NoBatch
  <2>6. ASSUME NEW id \in SenderIds, ProtectFails(id) PROVE Accounted'
    BY <2>1, <2>6 DEF ProtectFails, BurnsNonce, RefusesEarly
  <2>7. ASSUME NEW id \in SenderIds, BatchFails(id) PROVE Accounted'
    BY <2>0, <2>7, DropAccounted
  <2>8. ASSUME NEW id \in SenderIds, NEW key \in Keys, NEW streamOk \in BOOLEAN,
               NEW prefix \in Prefixes, NEW start \in Starts, NEW limit \in Limits,
               Construct(id, key, streamOk, prefix, start, limit)
        PROVE  Accounted'
    BY <2>1, <2>8 DEF Construct
  <2>9. CASE UNCHANGED vars
    BY <2>1, <2>9 DEF vars
  <2> QED
    BY <2>2, <2>3, <2>4, <2>5, <2>6, <2>7, <2>8, <2>9 DEF Next
<1>3. Accounted => ReturnedOnce
  BY DEF Accounted, Account, ReturnedOnce
<1> QED
  BY <1>1, <1>2, <1>3, LedgerKept, PTL DEF Spec
=============================================================================
