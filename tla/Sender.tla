-------------------------------- MODULE Sender --------------------------------
(***************************************************************************)
(* The senders that protect records (srp/sender.py, srp/nonce.py).  Every  *)
(* seal allocates a nonce, builds the header and calls the AEAD, in this   *)
(* order; protect_many is a loop of seals whose exception drops the        *)
(* records it has already sealed.  Senders run in any interleaving, each   *)
(* in one thread of control.                                               *)
(***************************************************************************)
EXTENDS NonceManager, FiniteSets, Sequences

CONSTANTS SenderIds,    \* the Sender objects that may be built
          Keys,         \* the AEAD keys
          Starts,       \* values of start_seq
          Limits,       \* values of record_limit
          BatchSizes    \* how many payloads protect_many is given

ASSUME SenderAssumption == /\ Starts \subseteq Int /\ Limits \subseteq Int
                           /\ BatchSizes \subseteq Nat \ {0}

VARIABLES senders,      \* the Sender objects built so far
          batch,        \* the protect_many call a sender is in, or NoBatch
          sealed,       \* history: every call of the AEAD, with its key and nonce
          returned,     \* history: sender -> the numbers its callers were given, in order
          dropped       \* history: sender -> the numbers failed batches took with them

vars == <<senders, batch, sealed, returned, dropped>>

NoBatch == [left |-> 0, held |-> <<>>]

Built == DOMAIN senders

\* One AEAD invocation: by whom, the how-many-eth nonce of its manager, and the
\* key and nonce it used.
SealOf(id) ==
  [by |-> id, nth |-> senders[id].mgr.issued,
   key |-> senders[id].key, nonce |-> AllocatedNonce(senders[id].mgr)]

Init ==
  /\ senders = [id \in {} |-> NoBatch]
  /\ batch = [id \in SenderIds |-> NoBatch]
  /\ sealed = {}
  /\ returned = [id \in SenderIds |-> <<>>]
  /\ dropped = [id \in SenderIds |-> {}]

\* Sender.__init__.  A stream id out of 32 bits is not noticed here.
Construct(id, key, streamOk, prefix, start, limit) ==
  /\ id \notin Built
  /\ Admissible(start, limit)
  /\ senders' = [j \in Built \cup {id} |->
                   IF j = id THEN [key |-> key, streamOk |-> streamOk, protected |-> 0,
                                   mgr |-> NewManager(prefix, start, limit)]
                             ELSE senders[j]]
  /\ UNCHANGED <<batch, sealed, returned, dropped>>

\* (mutant) Every allocation is counted as a protected record.
Spend_AlwaysCounts(r, calls) ==
  [r EXCEPT !.protected = @ + 1, !.mgr = Allocate(@)]

\* A sender after one allocation and the given number of AEAD calls with it.
Spend(r, calls) ==
  [key |-> r.key, streamOk |-> r.streamOk, protected |-> r.protected + calls,
   mgr |-> Allocate(r.mgr)]

\* Sender.seal up to and including the AEAD call and the counters.
SealsRecord(id) ==
  /\ id \in Built
  /\ ~ Exhausted(senders[id].mgr)
  /\ senders[id].streamOk
  /\ sealed' = sealed \cup {SealOf(id)}
  /\ senders' = [senders EXCEPT ![id] = Spend(@, 1)]

\* (mutant) A failing seal takes a number without asking for the budget.
BurnsNonce_Unchecked(id) ==
  /\ id \in Built
  /\ senders[id].mgr.next < SeqSpace
  /\ senders' = [senders EXCEPT ![id] = Spend(@, 0)]
  /\ UNCHANGED sealed

\* Sender.seal that raises after the allocation: the stream id does not fit the
\* header, or the record type or flags do not fit their byte (any caller's).
\* The nonce is spent, nothing is sealed.
BurnsNonce(id) ==
  /\ id \in Built
  /\ ~ Exhausted(senders[id].mgr)
  /\ senders' = [senders EXCEPT ![id] = Spend(@, 0)]
  /\ UNCHANGED sealed

\* Sender.seal that raises before the allocation: a payload that is not bytes or
\* is over 16 MiB, or NonceExhaustedError.
RefusesEarly(id) ==
  /\ id \in Built
  /\ UNCHANGED <<senders, sealed>>

\* Sender.protect: one record, handed to the caller.
Protect(id) ==
  /\ batch[id] = NoBatch
  /\ SealsRecord(id)
  /\ returned' = [returned EXCEPT ![id] = Append(@, senders[id].mgr.next)]
  /\ UNCHANGED <<batch, dropped>>

ProtectFails(id) ==
  /\ batch[id] = NoBatch
  /\ BurnsNonce(id) \/ RefusesEarly(id)
  /\ UNCHANGED <<batch, returned, dropped>>

\* Sender.protect_many: the call, the seals of its loop, its normal return.
BatchStart(id, n) ==
  /\ id \in Built
  /\ batch[id] = NoBatch
  /\ batch' = [batch EXCEPT ![id] = [left |-> n, held |-> <<>>]]
  /\ UNCHANGED <<senders, sealed, returned, dropped>>

BatchSeal(id) ==
  /\ batch[id].left > 1
  /\ SealsRecord(id)
  /\ batch' = [batch EXCEPT ![id] = [left |-> @.left - 1,
                                     held |-> Append(@.held, senders[id].mgr.next)]]
  /\ UNCHANGED <<returned, dropped>>

BatchEnd(id) ==
  /\ batch[id].left = 1
  /\ SealsRecord(id)
  /\ batch' = [batch EXCEPT ![id] = NoBatch]
  /\ returned' = [returned EXCEPT ![id] = @ \o Append(batch[id].held, senders[id].mgr.next)]
  /\ UNCHANGED dropped

\* The numbers of the records a protect_many has sealed so far.
HeldBy(id) == {batch[id].held[i] : i \in DOMAIN batch[id].held}

\* (mutant) A failing batch gives its numbers back to the counter.
BatchFails_GivesBack(id) ==
  /\ batch[id].left > 0
  /\ UNCHANGED <<sealed, returned>>
  /\ senders' = [senders EXCEPT ![id].mgr.next = @ - Len(batch[id].held),
                                ![id].mgr.issued = @ - Len(batch[id].held)]
  /\ batch' = [batch EXCEPT ![id] = NoBatch]
  /\ dropped' = [dropped EXCEPT ![id] = @ \cup HeldBy(id)]

\* An exception inside the loop: the records sealed so far reach nobody.  The
\* loop passes no record type or flags, so only the stream id can burn a nonce.
BatchFails(id) ==
  /\ batch[id].left > 0
  /\ (~ senders[id].streamOk /\ BurnsNonce(id)) \/ RefusesEarly(id)
  /\ batch' = [batch EXCEPT ![id] = NoBatch]
  /\ dropped' = [dropped EXCEPT ![id] = @ \cup HeldBy(id)]
  /\ UNCHANGED returned

Next ==
  \E id \in SenderIds :
    \/ \E key \in Keys, streamOk \in BOOLEAN, prefix \in Prefixes,
          start \in Starts, limit \in Limits :
         Construct(id, key, streamOk, prefix, start, limit)
    \/ Protect(id)
    \/ ProtectFails(id)
    \/ \E n \in BatchSizes : BatchStart(id, n)
    \/ BatchSeal(id)
    \/ BatchEnd(id)
    \/ BatchFails(id)

Spec == Init /\ [][Next]_vars

(***************************************************************************)
(* Properties                                                              *)
(***************************************************************************)
SealsBy(id) == {e \in sealed : e.by = id}

SenderState == [key : Keys, streamOk : BOOLEAN, protected : Nat, mgr : Manager]

Seal == [by : SenderIds, nth : Nat, key : Keys, nonce : Prefixes \X Nat]

TypeOK ==
  /\ Built \subseteq SenderIds
  /\ senders \in [Built -> SenderState]
  /\ batch \in [SenderIds -> [left : Nat, held : Seq(Nat)]]
  /\ sealed \subseteq Seal
  /\ returned \in [SenderIds -> Seq(Nat)]
  /\ dropped \in [SenderIds -> SUBSET Nat]

\* The invariant the proofs rest on: every manager is where its own history has
\* brought it, and the nth seal of a sender used the nth number of its range.
Ledger ==
  /\ TypeOK
  /\ \A id \in Built :
       LET m == senders[id].mgr
       IN  /\ m.next = m.start + m.issued
           /\ m.issued <= m.limit
           /\ m.start + m.limit <= SeqSpace
  /\ \A e \in sealed :
       LET m == senders[e.by].mgr
       IN  /\ e.by \in Built
           /\ e.key = senders[e.by].key
           /\ e.nth < m.issued
           /\ e.nonce = <<m.prefix, m.start + e.nth>>

\* A counter never issues a nonce twice; the one way two AEAD calls share key and
\* nonce is two managers built with the same key and prefix over overlapping
\* ranges, the hazard nonce.py:124-128 and report/REPORT.md:316-319 name.
\* It must survive failed seals, failed batches and retries after exhaustion.
NonceReuseNeedsClash ==
  \A e, f \in sealed :
    (e # f /\ e.key = f.key /\ e.nonce = f.nonce) =>
      LET m == senders[e.by].mgr
          n == senders[f.by].mgr
      IN  /\ e.by # f.by
          /\ m.prefix = n.prefix
          /\ m.start < n.start + n.limit /\ n.start < m.start + m.limit

\* The checks of the constructor are enough: no allocation, however many seals
\* came before, reaches a sequence number derive_nonce refuses (nonce.py:109, 150)
\* or that lies outside the range the manager was given.
NeverOverflows ==
  \A id \in Built :
    LET m == senders[id].mgr
    IN  /\ ~ Exhausted(m) => Derivable(m.next) /\ m.next < m.start + m.limit
        /\ \A e \in SealsBy(id) : Derivable(e.nonce[2])

\* What one sender has given its callers, or holds for the caller it is serving.
Handed(id) == returned[id] \o batch[id].held

\* The numbers a sender hands out only ever go up: no call, whatever failed
\* before it, returns a number again, and none returns a number that a failed
\* protect_many had sealed and dropped, nor one without a sealed record
\* (sender.py:141-153).
ReturnedOnce ==
  \A id \in SenderIds :
    /\ \A i, j \in DOMAIN Handed(id) : i < j => Handed(id)[i] < Handed(id)[j]
    /\ \A i \in DOMAIN Handed(id) :
         /\ Handed(id)[i] \notin dropped[id]
         /\ \E e \in SealsBy(id) : e.nonce[2] = Handed(id)[i]

\* records_protected counts AEAD calls, not nonces: failures after the allocation
\* spend budget that the statistics never show (sender.py:117-136).
StatsCountSeals ==
  \A id \in Built :
    /\ senders[id].protected = Cardinality(SealsBy(id))
    /\ senders[id].protected <= senders[id].mgr.issued

\* Once the budget is spent nothing brings it back: every later call of the
\* sender fails without touching the counter (nonce.py:166-174).
ExhaustionIsFinal ==
  [][\A id \in Built :
       Exhausted(senders[id].mgr) =>
         /\ senders'[id] = senders[id]
         /\ \A e \in sealed' \ sealed : e.by # id
         /\ Remaining(senders[id].mgr) = 0]_vars

\* sender.py:62 calls record_limit the "Per-key record budget; the sender refuses
\* to emit beyond it"; each manager counts only its own records (nonce.py:159,
\* 170), so the senders of one key together go beyond it.
KeyBudgetKept ==
  \A key \in Keys, limit \in Limits :
    (\A id \in Built : senders[id].key = key => senders[id].mgr.limit = limit) =>
      Cardinality({e \in sealed : e.key = key}) <= limit
=============================================================================
