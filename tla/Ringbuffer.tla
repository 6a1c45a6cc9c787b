----------------------------- MODULE Ringbuffer -----------------------------
(***************************************************************************)
(* lib/data_struct/src/ringbuffer.c and the inline functions of its        *)
(* header: the arithmetic of a ring buffer of one writer and one reader.   *)
(* The counters w (writePos) and r (readPos) are unsigned and run freely:  *)
(* they are kept modulo Modulus, which stands for 2^32.                    *)
(***************************************************************************)
EXTENDS Integers, Sequences

CONSTANTS Cap,      \* mask + 1, a power of two
          Modulus   \* the counters count modulo this

ASSUME RingbufAssumption == /\ Cap \in Nat \ {0}
                            /\ Modulus \in Nat
                            /\ Modulus > Cap
                            /\ Modulus % Cap = 0

Count == 0 .. Modulus - 1
Slots == 0 .. Cap - 1

\* ringbuf_len, ringbuf_avail, ringbuf_is_full and ringbuf_is_empty.
Used(w, r) == (w - r) % Modulus

\* Mutant: one item too many.
AvailOneMore(w, r) == Cap + 1 - Used(w, r)

Avail(w, r) == Cap - Used(w, r)
IsFull(w, r) == Used(w, r) > Cap - 1
IsEmpty(w, r) == w = r

Slot(pos) == pos % Cap
Advance(pos, n) == (pos + n) % Modulus
AtMost(n, limit) == IF n < limit THEN n ELSE limit

\* ringbuf_copy_in: the items are written from pos on, around the end.
CopyIn(buf, pos, items) ==
    [s \in Slots |-> LET i == 1 + ((s - pos) % Cap)
                     IN IF i <= Len(items) THEN items[i] ELSE buf[s]]

\* ringbuf_copy_out: the n items from pos on, around the end.
CopyOut(buf, pos, n) == [i \in 1 .. n |-> buf[Slot(pos + i - 1)]]
=============================================================================
