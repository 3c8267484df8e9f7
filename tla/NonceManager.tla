---------------------------- MODULE NonceManager ----------------------------
(***************************************************************************)
(* The nonce allocator of one sender (class NonceManager of srp/nonce.py)  *)
(* as operators on a record.  A nonce is the pair of the prefix and the    *)
(* sequence number it concatenates: both have a fixed width.               *)
(***************************************************************************)
EXTENDS Integers

CONSTANTS Prefixes,     \* the 4-byte prefixes
          SeqSpace      \* 2^64: one past the largest sequence number

ASSUME SeqSpaceAssumption == SeqSpace \in Nat \ {0}

Manager == [prefix : Prefixes, start : Nat, next : Nat, limit : Nat, issued : Nat]

\* (mutant) The end of the range is not checked against the space.
Admissible_NoSum(start, limit) == start \in 0 .. SeqSpace - 1 /\ limit > 0

\* NonceManager.__init__ raises ConfigurationError for anything else.
Admissible(start, limit) ==
  /\ start \in 0 .. SeqSpace - 1
  /\ limit > 0
  /\ start + limit <= SeqSpace

NewManager(prefix, start, limit) ==
  [prefix |-> prefix, start |-> start, next |-> start, limit |-> limit, issued |-> 0]

Exhausted(m) == m.issued >= m.limit

Remaining(m) == IF Exhausted(m) THEN 0 ELSE m.limit - m.issued

\* derive_nonce, used alike by sender and receiver; it raises when the sequence
\* number does not fit 64 bits.
DeriveNonce(prefix, seq) == <<prefix, seq>>

Derivable(seq) == seq \in 0 .. SeqSpace - 1

\* The nonce and the manager after a NonceManager.allocate that does not raise.
AllocatedNonce(m) == DeriveNonce(m.prefix, m.next)

\* (mutant) The counter is not advanced.
Allocate_Stuck(m) == [m EXCEPT !.issued = @ + 1]

Allocate(m) ==
  [prefix |-> m.prefix, start |-> m.start, next |-> m.next + 1,
   limit |-> m.limit, issued |-> m.issued + 1]
=============================================================================
