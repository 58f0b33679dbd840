---------------------------- MODULE ReplayCounter ---------------------------
(***************************************************************************)
(* The replay window of a receiving key: NOISE_REPLAY_COUNTER and the two  *)
(* routines of driver/receive.c that read or write it.                     *)
(*                                                                         *)
(* DecryptPacket runs on any number of decrypt workers at once and looks   *)
(* at the counter without the lock; CounterValidate runs later, under the  *)
(* counter's spin lock, when the peer's receive queue delivers the packet. *)
(* Between the two a packet sits in a buffer with its nonce, and the       *)
(* window may have moved any distance.                                     *)
(*                                                                         *)
(* The backtrack array is Words machine words of WordBits bits, used as a  *)
(* ring; a word is modelled as the set of its one bits.  UINT64 arithmetic *)
(* is modulo Modulus.  In the driver WordBits = 64, Words = 128 and        *)
(* Modulus = 2^64.                                                         *)
(***************************************************************************)
EXTENDS Integers

CONSTANTS
    WordBits,  \* BITS_PER_POINTER
    Words,     \* COUNTER_BITS_TOTAL / BITS_PER_POINTER
    Modulus,   \* number of UINT64 values
    ReplayBuffers,  \* buffers that hold a decrypted packet
    None       \* an empty buffer

COUNTER_WINDOW_SIZE == WordBits * Words - WordBits

REJECT_AFTER_MESSAGES == Modulus - 1 - COUNTER_WINDOW_SIZE - 1

Nonces == 0 .. Modulus - 1

ASSUME ReplayAssumption ==
    /\ WordBits \in Nat \ {0}
    /\ Words \in Nat \ {0}
    /\ Modulus \in Nat
    /\ REJECT_AFTER_MESSAGES > 0     \* the window fits into the counter space
    /\ None \notin Nonces

VARIABLES
    counter,   \* ReceivingCounter.Counter: highest accepted nonce plus one
    backtrack, \* ReceivingCounter.Backtrack
    valid,     \* Receiving.IsValid
    nonce,     \* per buffer: the nonce of the decrypted packet it holds
    accepted,  \* history: nonces CounterValidate has let through
    verdict    \* history: the last answer of CounterValidate; turn tells two
               \* equal answers apart

replayVars == <<counter, backtrack, valid, nonce, accepted, verdict>>

Word(x) == x \div WordBits   \* x >> BITS_PER_POINTER_SHIFT
Bit(x)  == x % WordBits      \* x & (BITS_PER_POINTER - 1)
Slot(w) == w % Words         \* w & (COUNTER_BITS_TOTAL / BITS_PER_POINTER - 1)

ReplayInit ==
    /\ counter = 0
    /\ backtrack = [w \in 0 .. Words - 1 |-> {}]
    /\ valid = TRUE
    /\ nonce = [p \in ReplayBuffers |-> None]
    /\ accepted = {}
    /\ verdict = [nonce |-> None, ok |-> FALSE, turn |-> 0]

(* A datagram that authenticates under this key is decrypted into buffer p,
   unless the key is invalid, too old, or used up, which invalidates it.    *)
DecryptPacket(p, n, expired) ==
    /\ nonce[p] = None
    /\ IF ~valid \/ expired \/ counter >= REJECT_AFTER_MESSAGES
         THEN /\ valid' = FALSE
              /\ UNCHANGED nonce
         ELSE /\ nonce' = [nonce EXCEPT ![p] = n]
              /\ UNCHANGED valid
    /\ UNCHANGED <<counter, backtrack, accepted, verdict>>

(* The early exits of CounterValidate.  The addition is UINT64's. *)
OutOfRange(n) ==
    counter >= REJECT_AFTER_MESSAGES + 1 \/ n >= REJECT_AFTER_MESSAGES

TooOld(x) == (COUNTER_WINDOW_SIZE + x) % Modulus < counter

(* The words between the current one and x's, each cleared once however far
   the window jumps.                                                        *)
Top(x) == IF Word(x) - Word(counter) < Words THEN Word(x) - Word(counter) ELSE Words

\* Mutant: `i < Top' for `i <= Top', the newest word keeps its old bits.
ClearedButLast(x) == {Slot(i + Word(counter)) : i \in 1 .. Top(x) - 1}

Cleared(x) == {Slot(i + Word(counter)) : i \in 1 .. Top(x)}

Slide(x) ==
    IF x > counter
      THEN [w \in 0 .. Words - 1 |-> IF w \in Cleared(x) THEN {} ELSE backtrack[w]]
      ELSE backtrack

Refuse(n) ==
    /\ OutOfRange(n) \/ TooOld((n + 1) % Modulus)
    /\ verdict' = [nonce |-> n, ok |-> FALSE, turn |-> 1 - verdict.turn]
    /\ UNCHANGED <<counter, backtrack, accepted>>

(* InterlockedBitTestAndSetPtr on the word that stands for x. *)
TestAndSet(n) ==
    LET x    == (n + 1) % Modulus
        slot == Slot(Word(x))
        ok   == Bit(x) \notin Slide(x)[slot]
    IN  /\ ~ (OutOfRange(n) \/ TooOld(x))
        /\ counter' = IF x > counter THEN x ELSE counter
        /\ backtrack' = [Slide(x) EXCEPT ![slot] = @ \cup {Bit(x)}]
        /\ verdict' = [nonce |-> n, ok |-> ok, turn |-> 1 - verdict.turn]
        /\ accepted' = IF ok THEN accepted \cup {n} ELSE accepted

CounterValidate(p) ==
    /\ nonce[p] # None
    /\ Refuse(nonce[p]) \/ TestAndSet(nonce[p])
    /\ nonce' = [nonce EXCEPT ![p] = None]
    /\ UNCHANGED valid

ReplayNext ==
    \E p \in ReplayBuffers :
        \/ \E n \in Nonces, expired \in BOOLEAN : DecryptPacket(p, n, expired)
        \/ CounterValidate(p)

ReplaySpec == ReplayInit /\ [][ReplayNext]_replayVars

-----------------------------------------------------------------------------
ReplayTypeOK ==
    /\ counter \in 0 .. REJECT_AFTER_MESSAGES
    /\ backtrack \in [0 .. Words - 1 -> SUBSET (0 .. WordBits - 1)]
    /\ valid \in BOOLEAN
    /\ nonce \in [ReplayBuffers -> Nonces \cup {None}]
    /\ accepted \in SUBSET (0 .. REJECT_AFTER_MESSAGES - 1)
    /\ verdict \in [nonce : Nonces \cup {None}, ok : BOOLEAN, turn : {0, 1}]

(* Counter is one more than the highest accepted nonce. *)
CounterIsTop ==
    /\ \A n \in accepted : n < counter
    /\ counter > 0 => counter - 1 \in accepted

(* The word of x still belongs to the lap of the ring that ends at counter. *)
Live(x) == Word(x) <= Word(counter) /\ Word(counter) < Word(x) + Words

(* The bitmap is exact on every live word: the bit of counter value x is set
   if and only if nonce x - 1 was accepted, whatever jumps, wraps of the ring
   and late packets came before (receive.c, CounterValidate).                *)
BitmapExact ==
    \A x \in Nonces :
        Live(x) => (Bit(x) \in backtrack[Slot(Word(x))] <=> x - 1 \in accepted)

IInv == ReplayTypeOK /\ CounterIsTop /\ BitmapExact

(* CounterValidate never answers TRUE for a nonce it accepted before: no data
   packet is delivered twice under one key.                                  *)
NoReplay ==
    [][verdict'.turn # verdict.turn /\ verdict'.ok => verdict'.nonce \notin accepted]_replayVars

Filter == INSTANCE ReplayFilter WITH
    Limit <- REJECT_AFTER_MESSAGES, Window <- COUNTER_WINDOW_SIZE

(* The bitmap of CounterValidate decides exactly as the ideal filter does:
   it also never refuses a fresh nonce that is inside the window.            *)
ImplementsFilter == Filter!Spec
=============================================================================
