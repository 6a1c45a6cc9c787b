------------------------------ MODULE PipeProofs ------------------------------
(***************************************************************************)
(* Proofs about the pipe, for every capacity, every modulus of the         *)
(* counters and every set of lengths: the bytes come out as they went in,  *)
(* also across the wrap, and the doorbell is sound when one side is an     *)
(* interrupt.                                                              *)
(***************************************************************************)
EXTENDS Pipe, SequenceTheorems, TLAPS

-----------------------------------------------------------------------------
(* Remainders *)

LEMMA ModSmall == ASSUME NEW M \in Nat \ {0}, NEW x \in 0 .. M - 1 PROVE x % M = x
OBVIOUS

LEMMA ModUp == ASSUME NEW M \in Nat \ {0}, NEW x \in M .. 2 * M - 1 PROVE x % M = x - M
OBVIOUS

LEMMA ModDown == ASSUME NEW M \in Nat \ {0}, NEW x \in (-M) .. (-1) PROVE x % M = x + M
OBVIOUS

LEMMA ModRange == ASSUME NEW M \in Nat \ {0}, NEW x \in Int PROVE x % M \in 0 .. M - 1
OBVIOUS

LEMMA ModUnique ==
    ASSUME NEW M \in Nat \ {0}, NEW k \in Int, NEW r \in 0 .. M - 1 PROVE (k * M + r) % M = r
OBVIOUS

LEMMA ModQuotient ==
    ASSUME NEW M \in Nat \ {0}, NEW x \in Int PROVE \E k \in Int : x = k * M + (x % M)
<1> DEFINE q == x \div M
           r == x % M
<1>1. q \in Int /\ r \in Int /\ x = M * q + r
    OBVIOUS
<1>. HIDE DEF q, r
<1>2. x = q * M + r
    BY <1>1
<1>. QED
    BY <1>1, <1>2 DEF r

\* Whole turns do not count.
LEMMA ModTurns ==
    ASSUME NEW M \in Nat \ {0}, NEW x \in Int, NEW k \in Int PROVE (x + k * M) % M = x % M
<1>1. PICK l \in Int : x = l * M + (x % M)
    BY ModQuotient
<1>2. x % M \in 0 .. M - 1
    BY ModRange
<1> DEFINE r == x % M
<1>3. x + k * M = (l + k) * M + r
    BY <1>1, <1>2
<1>4. l + k \in Int
    OBVIOUS
<1>. HIDE DEF r
<1>5. ((l + k) * M + r) % M = r
    BY <1>2, <1>4, ModUnique DEF r
<1>. QED
    BY <1>3, <1>5 DEF r

Divides(m, n) == \E c \in Int : n = c * m

\* A remainder by a multiple of M keeps the remainder by M.
LEMMA ModTwice ==
    ASSUME NEW M \in Nat \ {0}, NEW N \in Nat \ {0}, Divides(M, N), NEW x \in Int, NEW y \in Int
    PROVE  ((x % N) + y) % M = (x + y) % M
<1>1. PICK c \in Int : N = c * M
    BY DEF Divides
<1>2. PICK k \in Int : x = k * N + (x % N)
    BY ModQuotient
<1>3. x % N \in Int
    BY ModRange
<1> DEFINE z == x % N
<1>4. x + y = (z + y) + (k * c) * M
  <2>1. x = k * N + z /\ z \in Int
    BY <1>2, <1>3
  <2>. HIDE DEF z
  <2>2. k * N = (k * c) * M /\ k * N \in Int
    BY <1>1
  <2> DEFINE m == k * N
  <2>3. m = (k * c) * M /\ m \in Int
    BY <2>2
  <2>4. x = m + z
    BY <2>1
  <2>. HIDE DEF m
  <2>5. x + y = (z + y) + m
    BY <2>1, <2>3, <2>4
  <2>. QED
    BY <2>3, <2>5
<1>. HIDE DEF z
<1>5. k * c \in Int /\ z + y \in Int
    BY <1>3 DEF z
<1>6. ((z + y) + (k * c) * M) % M = (z + y) % M
    BY <1>5, ModTurns
<1>. QED
    BY <1>4, <1>6 DEF z

-----------------------------------------------------------------------------
(* The ring buffer *)

LEMMA UsedIs ==
    ASSUME NEW w \in Count, NEW r \in Count
    PROVE  /\ Used(w, r) \in 0 .. Modulus - 1
           /\ Used(w, r) = IF w >= r THEN w - r ELSE w - r + Modulus
           /\ Used(w, r) = 0 <=> w = r
<1>1. Modulus \in Nat \ {0} /\ w \in 0 .. Modulus - 1 /\ r \in 0 .. Modulus - 1
    BY RingbufAssumption DEF Count
<1>2. CASE w >= r
  <2>1. (w - r) % Modulus = w - r
    BY <1>1, <1>2, ModSmall
  <2>. QED
    BY <1>1, <1>2, <2>1 DEF Used
<1>3. CASE w < r
  <2>1. (w - r) % Modulus = w - r + Modulus
    BY <1>1, <1>3, ModDown
  <2>. QED
    BY <1>1, <1>3, <2>1 DEF Used
<1>. QED
    BY <1>1, <1>2, <1>3

LEMMA AdvanceIs ==
    ASSUME NEW pos \in Count, NEW n \in 0 .. Modulus - 1
    PROVE  /\ Advance(pos, n) \in Count
           /\ Advance(pos, n) = IF pos + n < Modulus THEN pos + n ELSE pos + n - Modulus
<1>1. Modulus \in Nat \ {0} /\ pos \in 0 .. Modulus - 1
    BY RingbufAssumption DEF Count
<1>2. CASE pos + n < Modulus
  <2>1. (pos + n) % Modulus = pos + n
    BY <1>1, <1>2, ModSmall
  <2>. QED
    BY <1>1, <1>2, <2>1 DEF Advance, Count
<1>3. CASE pos + n >= Modulus
  <2> DEFINE x == pos + n
  <2>0. x \in Modulus .. 2 * Modulus - 1
    BY <1>1, <1>3
  <2>. HIDE DEF x
  <2>1. x % Modulus = x - Modulus
    BY <1>1, <2>0, ModUp
  <2>. QED
    BY <1>1, <1>3, <2>1 DEF Advance, Count, x
<1>. QED
    BY <1>1, <1>2, <1>3

\* Moving writePos by what is free adds to the length, moving readPos by what
\* is used takes from it, whichever of the two has wrapped.
LEMMA UsedMoves ==
    ASSUME NEW w \in Count, NEW r \in Count, NEW n \in Nat
    PROVE  /\ Used(w, r) + n < Modulus =>
                  Advance(w, n) \in Count /\ Used(Advance(w, n), r) = Used(w, r) + n
           /\ n <= Used(w, r) =>
                  Advance(r, n) \in Count /\ Used(w, Advance(r, n)) = Used(w, r) - n
<1>1. Modulus \in Nat \ {0} /\ w \in 0 .. Modulus - 1 /\ r \in 0 .. Modulus - 1
    BY RingbufAssumption DEF Count
<1>2. /\ Used(w, r) \in 0 .. Modulus - 1
      /\ Used(w, r) = IF w >= r THEN w - r ELSE w - r + Modulus
    BY UsedIs
<1>3. ASSUME Used(w, r) + n < Modulus
      PROVE  Advance(w, n) \in Count /\ Used(Advance(w, n), r) = Used(w, r) + n
  <2>1. n \in 0 .. Modulus - 1
    BY <1>1, <1>2, <1>3
  <2> DEFINE v == Advance(w, n)
  <2>2. v \in Count /\ v = IF w + n < Modulus THEN w + n ELSE w + n - Modulus
    BY <2>1, AdvanceIs
  <2>. HIDE DEF v
  <2>3. v \in 0 .. Modulus - 1 /\ Used(v, r) = IF v >= r THEN v - r ELSE v - r + Modulus
    BY <2>2, UsedIs DEF Count
  <2>4. Used(v, r) = Used(w, r) + n
    BY <1>1, <1>2, <1>3, <2>1, <2>2, <2>3
  <2>. QED
    BY <2>2, <2>4 DEF v
<1>4. ASSUME n <= Used(w, r)
      PROVE  Advance(r, n) \in Count /\ Used(w, Advance(r, n)) = Used(w, r) - n
  <2>1. n \in 0 .. Modulus - 1
    BY <1>1, <1>2, <1>4
  <2> DEFINE v == Advance(r, n)
  <2>2. v \in Count /\ v = IF r + n < Modulus THEN r + n ELSE r + n - Modulus
    BY <2>1, AdvanceIs
  <2>. HIDE DEF v
  <2>3. v \in 0 .. Modulus - 1 /\ Used(w, v) = IF w >= v THEN w - v ELSE w - v + Modulus
    BY <2>2, UsedIs DEF Count
  <2>4. Used(w, v) = Used(w, r) - n
    BY <1>1, <1>2, <1>4, <2>1, <2>2, <2>3
  <2>. QED
    BY <2>2, <2>4 DEF v
<1>. QED
    BY <1>3, <1>4

LEMMA SlotIs == ASSUME NEW pos \in Int PROVE Slot(pos) \in Slots
BY RingbufAssumption, ModRange DEF Slot, Slots

\* The capacity divides the modulus: slots follow the counters across the wrap.
LEMMA SlotAcross ==
    ASSUME NEW pos \in Int, NEW n \in Int, NEW i \in Int
    PROVE  Slot(Advance(pos, n) + i) = Slot(pos + n + i)
<1>1. Cap \in Nat \ {0} /\ Modulus \in Nat \ {0} /\ Modulus % Cap = 0
    BY RingbufAssumption
<1>2. \E c \in Int : Modulus = c * Cap + (Modulus % Cap)
  <2>1. Modulus \in Int
    BY <1>1
  <2>. QED
    BY ONLY <1>1, <2>1, ModQuotient
<1>3. Divides(Cap, Modulus)
    BY <1>1, <1>2 DEF Divides
<1> DEFINE x == pos + n
<1>4. x \in Int
    OBVIOUS
<1>. HIDE DEF x
<1>5. ((x % Modulus) + i) % Cap = (x + i) % Cap
    BY <1>1, <1>3, <1>4, ModTwice
<1>. QED
    BY <1>5 DEF Slot, Advance, x

\* The slots of the window and the slots behind it, counted from writePos.
LEMMA SlotFromWrite ==
    ASSUME NEW w \in Count, NEW r \in Count, NEW i \in Int
    PROVE  /\ Slot(r + Used(w, r) + i) = Slot(w + i)
           /\ Slot(r + i) = Slot(w + (Cap - Used(w, r) + i))
<1>1. Modulus \in Nat \ {0} /\ w \in 0 .. Modulus - 1 /\ r \in 0 .. Modulus - 1 /\ Cap \in Nat \ {0}
    BY RingbufAssumption DEF Count
<1> DEFINE u == Used(w, r)
<1>2. u \in 0 .. Modulus - 1 /\ u = IF w >= r THEN w - r ELSE w - r + Modulus
    BY UsedIs
<1>. HIDE DEF u
<1>3. Advance(r, u) = w
    BY <1>1, <1>2, AdvanceIs
<1>4. \A j \in Int : Slot(w + j) = Slot(r + u + j)
  <2>1. r \in Int /\ u \in Int
    BY <1>1, <1>2
  <2>. QED
    BY <1>3, <2>1, SlotAcross
<1>5. Slot(w + (Cap - u + i)) = Slot(r + u + (Cap - u + i))
    BY <1>1, <1>2, <1>4
<1> DEFINE x == r + i
<1>6. r + u + (Cap - u + i) = x + 1 * Cap /\ x \in Int /\ 1 \in Int
    BY <1>1, <1>2
<1>. HIDE DEF x
<1>7. (x + 1 * Cap) % Cap = x % Cap
    BY <1>1, <1>6, ModTurns
<1>8. Slot(r + u + (Cap - u + i)) = Slot(x)
    BY <1>6, <1>7 DEF Slot
<1>. QED
    BY <1>4, <1>5, <1>8 DEF u, x

\* ringbuf_copy_in: Cap slots from pos on, the first of which get the items.
LEMMA CopyInIs ==
    ASSUME NEW S, NEW b \in [Slots -> S], NEW pos \in Int, NEW items \in Seq(S), Len(items) <= Cap,
           NEW j \in 0 .. Cap - 1
    PROVE  /\ CopyIn(b, pos, items) \in [Slots -> S]
           /\ CopyIn(b, pos, items)[Slot(pos + j)]
                = IF j < Len(items) THEN items[j + 1] ELSE b[Slot(pos + j)]
<1>1. Cap \in Nat \ {0}
    BY RingbufAssumption
<1>2. \A s \in Slots : (s - pos) % Cap \in 0 .. Cap - 1
  <2>1. \A s \in Slots : s - pos \in Int
    BY <1>1 DEF Slots
  <2>. QED
    BY <1>1, <2>1, ModRange
<1>3. CopyIn(b, pos, items) \in [Slots -> S]
  <2>1. \A s \in Slots : 1 + ((s - pos) % Cap) <= Len(items) => items[1 + ((s - pos) % Cap)] \in S
    BY <1>1, <1>2
  <2>. QED
    BY <2>1 DEF CopyIn
<1> DEFINE s == Slot(pos + j)
<1>4. s \in Slots
    BY SlotIs
<1>5. (s - pos) % Cap = j
  <2>1. (((pos + j) % Cap) + (-pos)) % Cap = ((pos + j) + (-pos)) % Cap
    <3> DEFINE x == pos + j
               y == -pos
    <3>1. x \in Int /\ y \in Int
      BY <1>1
    <3>2. \E c \in Int : Cap = c * Cap
      <4>. WITNESS 1 \in Int
      <4>. QED
        BY <1>1
    <3>3. Divides(Cap, Cap)
      BY <3>2 DEF Divides
    <3>. HIDE DEF x, y
    <3>4. ((x % Cap) + y) % Cap = (x + y) % Cap
      BY <1>1, <3>1, <3>3, ModTwice
    <3>. QED
      BY <3>4 DEF x, y
  <2>2. (pos + j) + (-pos) = j /\ j % Cap = j
    BY <1>1, ModSmall
  <2>3. s - pos = ((pos + j) % Cap) + (-pos)
    BY <1>1, ModRange DEF Slot
  <2>. QED
    BY <2>1, <2>2, <2>3
<1>. HIDE DEF s
<1>6. CopyIn(b, pos, items)[s] = IF 1 + j <= Len(items) THEN items[1 + j] ELSE b[s]
    BY <1>4, <1>5 DEF CopyIn
<1>. QED
    BY <1>1, <1>3, <1>6 DEF s

LEMMA CopyOutIs ==
    ASSUME NEW S, NEW b \in [Slots -> S], NEW pos \in Int, NEW n \in Nat
    PROVE  /\ CopyOut(b, pos, n) \in Seq(S)
           /\ CopyOut(b, pos, n) = [i \in 1 .. n |-> b[Slot(pos + (i - 1))]]
<1>1. \A i \in 1 .. n : pos + i - 1 = pos + (i - 1) /\ pos + (i - 1) \in Int
    OBVIOUS
<1>2. \A i \in 1 .. n : Slot(pos + (i - 1)) \in Slots
    BY <1>1, SlotIs
<1>3. CopyOut(b, pos, n) = [i \in 1 .. n |-> b[Slot(pos + (i - 1))]]
    BY <1>1 DEF CopyOut
<1>4. \A i \in 1 .. n : b[Slot(pos + (i - 1))] \in S
    BY <1>2
<1>. QED
    BY <1>3, <1>4

-----------------------------------------------------------------------------
(* The stream: byte number g is at readPos, byte number s comes next *)

WindowOf(b, w, r, g) == \A i \in 0 .. Used(w, r) - 1 : b[Slot(r + i)] = (g + i) % Stamp
StreamOf(w, r, s, g) == s = (g + Used(w, r)) % Stamp
StagedOf(b, w, s, n) == \A j \in 0 .. n - 1 : b[Slot(w + j)] = (s + j) % Stamp

Numbers == 0 .. Stamp - 1

LEMMA StampIs == Stamp \in Nat \ {0} /\ Cap \in Nat \ {0} /\ Modulus \in Nat \ {0} /\ Cap < Modulus
BY PipeAssumption, RingbufAssumption

LEMMA NumberIs == ASSUME NEW x \in Int PROVE x % Stamp \in Numbers
BY StampIs, ModRange DEF Numbers

\* Numbers add up across the wrap of the stream.
LEMMA NumberAdds ==
    ASSUME NEW g \in Int, NEW u \in Int, NEW i \in Int
    PROVE  (((g + u) % Stamp) + i) % Stamp = (g + (u + i)) % Stamp
<1>1. \E c \in Int : Stamp = c * Stamp
  <2>. WITNESS 1 \in Int
  <2>. QED
    BY StampIs
<1>2. Divides(Stamp, Stamp)
    BY <1>1 DEF Divides
<1> DEFINE x == g + u
<1>3. x \in Int
    OBVIOUS
<1>. HIDE DEF x
<1>4. ((x % Stamp) + i) % Stamp = (x + i) % Stamp
    BY <1>2, <1>3, StampIs, ModTwice
<1>5. x + i = g + (u + i)
    BY DEF x
<1>. QED
    BY <1>4, <1>5 DEF x

\* Writing into what is free leaves the window alone.
LEMMA CopyKeepsWindow ==
    ASSUME NEW b \in [Slots -> Numbers], NEW w \in Count, NEW r \in Count, NEW g \in Int,
           NEW items \in Seq(Numbers), Used(w, r) + Len(items) <= Cap, WindowOf(b, w, r, g)
    PROVE  WindowOf(CopyIn(b, w, items), w, r, g)
<1> DEFINE u == Used(w, r)
<1>1. u \in Nat /\ Len(items) \in Nat /\ u + Len(items) <= Cap /\ Cap \in Nat \ {0} /\ w \in Int /\ r \in Int
    BY UsedIs, StampIs DEF Count
<1> SUFFICES ASSUME NEW i \in 0 .. u - 1 PROVE CopyIn(b, w, items)[Slot(r + i)] = (g + i) % Stamp
    BY DEF WindowOf
<1>2. b[Slot(r + i)] = (g + i) % Stamp
    BY DEF WindowOf
<1>3. Slot(r + i) = Slot(w + (Cap - u + i))
    BY <1>1, SlotFromWrite
<1>. HIDE DEF u
<1> DEFINE j == Cap - u + i
<1>4. j \in 0 .. Cap - 1 /\ ~(j < Len(items)) /\ Len(items) <= Cap
    BY <1>1
<1>. HIDE DEF j
<1>5. CopyIn(b, w, items)[Slot(w + j)] = b[Slot(w + j)]
    BY <1>1, <1>4, CopyInIs
<1>. QED
    BY <1>2, <1>3, <1>5 DEF j

\* What was staged behind the window belongs to it once writePos has moved.
LEMMA PublishKeepsWindow ==
    ASSUME NEW b \in [Slots -> Numbers], NEW w \in Count, NEW r \in Count, NEW g \in Int, NEW s,
           NEW n \in Nat, Used(w, r) + n <= Cap, WindowOf(b, w, r, g), StreamOf(w, r, s, g), StagedOf(b, w, s, n)
    PROVE  /\ Advance(w, n) \in Count /\ Used(Advance(w, n), r) = Used(w, r) + n
           /\ WindowOf(b, Advance(w, n), r, g)
           /\ StreamOf(Advance(w, n), r, (s + n) % Stamp, g)
<1> DEFINE u == Used(w, r)
<1>1. u \in Nat /\ u + n <= Cap /\ Cap \in Nat /\ w \in Int /\ r \in Int /\ u + n < Modulus
    BY UsedIs, StampIs DEF Count
<1>2. Advance(w, n) \in Count /\ Used(Advance(w, n), r) = u + n
    BY <1>1, UsedMoves
<1>3. s = (g + u) % Stamp
    BY DEF StreamOf
<1>4. (s + n) % Stamp = (g + (u + n)) % Stamp
    BY <1>1, <1>3, NumberAdds
<1>5. \A i \in Int : Slot(r + u + i) = Slot(w + i)
    BY <1>1, SlotFromWrite
<1>6. \A i \in 0 .. u - 1 : b[Slot(r + i)] = (g + i) % Stamp
    BY DEF WindowOf
<1>. HIDE DEF u
<1>7. ASSUME NEW i \in 0 .. (u + n) - 1 PROVE b[Slot(r + i)] = (g + i) % Stamp
  <2>1. CASE i < u
    BY <1>1, <1>6, <2>1
  <2>2. CASE i >= u
    <3> DEFINE j == i - u
    <3>1. j \in 0 .. n - 1 /\ i = u + j /\ r + u + j = r + i
      BY <1>1, <2>2
    <3>. HIDE DEF j
    <3>2. b[Slot(w + j)] = (s + j) % Stamp
      BY <3>1 DEF StagedOf
    <3>3. Slot(r + u + j) = Slot(w + j)
      BY <3>1, <1>5
    <3>4. (s + j) % Stamp = (g + (u + j)) % Stamp
      BY <1>1, <1>3, <3>1, NumberAdds
    <3>. QED
      BY <3>1, <3>2, <3>3, <3>4
  <2>. QED
    BY <1>1, <2>1, <2>2
<1>. QED
    BY <1>2, <1>4, <1>7 DEF u, WindowOf, StreamOf

\* Taking from the front shifts the window.
LEMMA TakeKeepsWindow ==
    ASSUME NEW b \in [Slots -> Numbers], NEW w \in Count, NEW r \in Count, NEW g \in Int, NEW s,
           NEW n \in Nat, n <= Used(w, r), WindowOf(b, w, r, g), StreamOf(w, r, s, g)
    PROVE  /\ Advance(r, n) \in Count /\ Used(w, Advance(r, n)) = Used(w, r) - n
           /\ WindowOf(b, w, Advance(r, n), (g + n) % Stamp)
           /\ StreamOf(w, Advance(r, n), s, (g + n) % Stamp)
<1> DEFINE u == Used(w, r)
<1>1. u \in Nat /\ n <= u /\ r \in Int
    BY UsedIs DEF Count
<1>2. Advance(r, n) \in Count /\ Used(w, Advance(r, n)) = u - n
    BY <1>1, UsedMoves
<1>3. s = (g + u) % Stamp
    BY DEF StreamOf
<1>4. \A i \in 0 .. u - 1 : b[Slot(r + i)] = (g + i) % Stamp
    BY DEF WindowOf
<1>. HIDE DEF u
<1>5. (((g + n) % Stamp) + (u - n)) % Stamp = (g + (n + (u - n))) % Stamp
    BY <1>1, NumberAdds
<1>6. g + (n + (u - n)) = g + u
    BY <1>1
<1>7. ASSUME NEW i \in 0 .. (u - n) - 1
      PROVE  b[Slot(Advance(r, n) + i)] = (((g + n) % Stamp) + i) % Stamp
  <2>1. Slot(Advance(r, n) + i) = Slot(r + n + i)
    BY <1>1, SlotAcross
  <2> DEFINE j == n + i
  <2>2. j \in 0 .. u - 1 /\ r + n + i = r + j
    BY <1>1
  <2>3. (((g + n) % Stamp) + i) % Stamp = (g + j) % Stamp
    BY <1>1, NumberAdds
  <2>. HIDE DEF j
  <2>. QED
    BY <1>4, <2>1, <2>2, <2>3
<1>. QED
    BY <1>2, <1>3, <1>5, <1>6, <1>7 DEF u, WindowOf, StreamOf

-----------------------------------------------------------------------------
(* The invariant *)

Types ==
    /\ setup \in {"task", "isr"} \X {"task", "isr"}
    /\ writePos \in Count
    /\ readPos \in Count
    /\ buf \in [Slots -> Numbers]
    /\ readSem \in {0, 1}
    /\ writeSem \in {0, 1}
    /\ writer \in [pc : {"idle", "empty", "room", "copy", "publish", "ring", "wait"},
                   len : Lengths \union {0}, timeout : Timeouts,
                   was_empty : BOOLEAN, n : 0 .. Cap]
    /\ reader \in [pc : {"idle", "check", "full", "used", "copy", "publish", "ring", "wait"},
                   kind : Kinds, len : Lengths \union {0}, timeout : Timeouts,
                   was_full : BOOLEAN, n : 0 .. Cap, chunk : Seq(Numbers)]
    /\ sent \in Numbers
    /\ got \in Numbers

\* A side that is an interrupt has no call in progress between its calls.
Roles ==
    /\ setup \in Setups
    /\ setup[1] = "isr" => writer = NoWrite
    /\ setup[2] = "isr" => reader = NoRead

\* Who is going to compute or has computed a count asked for something.
Asked ==
    /\ writer.pc \in {"empty", "room", "copy", "publish", "wait"} => writer.len > 0
    /\ reader.pc \in {"check", "full", "used", "copy", "publish", "wait"} => reader.len > 0

\* The counts stay good: the other side only makes more room, or more data.
Room ==
    /\ Used(writePos, readPos) <= Cap
    /\ writer.pc \in {"copy", "publish"} => writer.n <= Avail(writePos, readPos)
    /\ reader.pc \in {"copy", "publish"} => reader.n <= Used(writePos, readPos)

Window == WindowOf(buf, writePos, readPos, got)
Stream == StreamOf(writePos, readPos, sent, got)
Staged == writer.pc = "publish" => StagedOf(buf, writePos, sent, writer.n)
Chunk == reader.pc = "publish" /\ reader.kind # "skip" => reader.chunk = Expected(reader.n)

\* A call that is about to wait, or that waits, after it found nothing.
BoundToWait(call) == \/ call.pc = "wait"
                     \/ call.pc \in {"copy", "publish"} /\ call.n = 0 /\ call.timeout # "none"

\* The interrupt that ends what it waits for posts in the same step.
ReaderWoken == setup[1] = "isr" /\ BoundToWait(reader) => Empty \/ readSem = 1
WriterWoken == setup[2] = "isr" /\ BoundToWait(writer) => Full \/ writeSem = 1

Memory == Window /\ Stream /\ Staged /\ Chunk
PInv == Types /\ Roles /\ Asked /\ Room /\ Memory /\ ReaderWoken /\ WriterWoken

LEMMA BytesIs ==
    ASSUME NEW n \in Nat, sent \in Numbers
    PROVE  /\ Bytes(n) \in Seq(Numbers)
           /\ Len(Bytes(n)) = n
           /\ \A j \in 0 .. n - 1 : Bytes(n)[j + 1] = (sent + j) % Stamp
<1>1. sent \in Int
    BY StampIs DEF Numbers
<1>2. \A i \in 1 .. n : (sent + i - 1) % Stamp \in Numbers
    BY <1>1, NumberIs
<1>3. \A j \in 0 .. n - 1 : j + 1 \in 1 .. n /\ sent + (j + 1) - 1 = sent + j
    BY <1>1
<1>4. \A j \in 0 .. n - 1 : Bytes(n)[j + 1] = (sent + (j + 1) - 1) % Stamp
    BY <1>3 DEF Bytes
<1>. QED
    BY <1>2, <1>3, <1>4 DEF Bytes

\* What ringbuf_copy_in does with the next n bytes, where there is room.
LEMMA CopyStages ==
    ASSUME Types, NEW n \in Nat, Used(writePos, readPos) + n <= Cap
    PROVE  /\ CopyIn(buf, writePos, Bytes(n)) \in [Slots -> Numbers]
           /\ StagedOf(CopyIn(buf, writePos, Bytes(n)), writePos, sent, n)
           /\ Window => WindowOf(CopyIn(buf, writePos, Bytes(n)), writePos, readPos, got)
<1>1. /\ buf \in [Slots -> Numbers] /\ writePos \in Count /\ readPos \in Count
      /\ sent \in Numbers /\ got \in Numbers
    BY DEF Types
<1>2. writePos \in Int /\ got \in Int /\ n <= Cap /\ Cap \in Nat \ {0}
    BY <1>1, StampIs, UsedIs DEF Count, Numbers
<1> DEFINE items == Bytes(n)
<1>3. items \in Seq(Numbers) /\ Len(items) = n /\ \A j \in 0 .. n - 1 : items[j + 1] = (sent + j) % Stamp
    BY <1>1, BytesIs
<1>. HIDE DEF items
<1>4. /\ CopyIn(buf, writePos, items) \in [Slots -> Numbers]
      /\ \A j \in 0 .. n - 1 : CopyIn(buf, writePos, items)[Slot(writePos + j)] = items[j + 1]
  <2>1. 0 \in 0 .. Cap - 1 /\ Len(items) <= Cap
    BY <1>2, <1>3
  <2>2. CopyIn(buf, writePos, items) \in [Slots -> Numbers]
    BY <1>1, <1>2, <1>3, <2>1, CopyInIs
  <2>3. items \in Seq(Numbers) /\ buf \in [Slots -> Numbers] /\ writePos \in Int
    BY <1>1, <1>2, <1>3
  <2>4. \A j \in 0 .. Cap - 1 : CopyIn(buf, writePos, items)[Slot(writePos + j)]
                                 = IF j < Len(items) THEN items[j + 1] ELSE buf[Slot(writePos + j)]
    BY ONLY <2>1, <2>3, CopyInIs
  <2>5. \A j \in 0 .. n - 1 : j \in 0 .. Cap - 1 /\ j < Len(items)
    BY <1>2, <1>3
  <2>. QED
    BY <2>2, <2>4, <2>5
<1>5. StagedOf(CopyIn(buf, writePos, items), writePos, sent, n)
    BY <1>3, <1>4 DEF StagedOf
<1>6. Window => WindowOf(CopyIn(buf, writePos, items), writePos, readPos, got)
    BY <1>1, <1>2, <1>3, CopyKeepsWindow DEF Window
<1>. QED
    BY <1>4, <1>5, <1>6 DEF items

\* The counts that the two sides compute.
LEMMA CountsAre ==
    ASSUME Types, Room, NEW len \in Lengths \union {0}
    PROVE  /\ Used(writePos, readPos) \in 0 .. Cap
           /\ Avail(writePos, readPos) \in 0 .. Cap
           /\ AtMost(len, Avail(writePos, readPos)) \in 0 .. Avail(writePos, readPos)
           /\ AtMost(len, Used(writePos, readPos)) \in 0 .. Used(writePos, readPos)
           /\ AtMost(len, Avail(writePos, readPos)) = 0 /\ len > 0 => Full
           /\ AtMost(len, Used(writePos, readPos)) = 0 /\ len > 0 => Empty
<1>1. writePos \in Count /\ readPos \in Count /\ len \in Nat
    BY PipeAssumption DEF Types
<1>2. /\ Used(writePos, readPos) \in 0 .. Cap
      /\ Used(writePos, readPos) = 0 <=> writePos = readPos
    BY <1>1, UsedIs, StampIs DEF Room
<1>3. Avail(writePos, readPos) \in 0 .. Cap
    BY <1>2, StampIs DEF Avail
<1>4. /\ AtMost(len, Avail(writePos, readPos)) \in 0 .. Avail(writePos, readPos)
      /\ AtMost(len, Used(writePos, readPos)) \in 0 .. Used(writePos, readPos)
      /\ AtMost(len, Avail(writePos, readPos)) = 0 /\ len > 0 => Avail(writePos, readPos) = 0
      /\ AtMost(len, Used(writePos, readPos)) = 0 /\ len > 0 => Used(writePos, readPos) = 0
    BY <1>1, <1>2, <1>3 DEF AtMost
<1>5. Avail(writePos, readPos) = 0 => Full
    BY <1>2, StampIs DEF Avail, Full, IsFull
<1>6. Used(writePos, readPos) = 0 => Empty
    BY <1>2 DEF Empty, IsEmpty
<1>. QED
    BY <1>2, <1>3, <1>4, <1>5, <1>6

LEMMA TypesKept == ASSUME PInv, Next PROVE Types'
<1> USE DEF Types
<1>0. Types /\ Roles /\ Asked /\ Room
    BY DEF PInv
<1>1. Cap \in Nat \ {0} /\ 0 \in 0 .. Cap /\ <<>> \in Seq(Numbers)
    BY StampIs
<1>2. \A pos \in Count, n \in 0 .. Cap : Advance(pos, n) \in Count
    BY StampIs, AdvanceIs
<1>3. \A x \in Numbers, n \in 0 .. Cap : (x + n) % Stamp \in Numbers
  <2>1. \A x \in Numbers, n \in 0 .. Cap : x + n \in Int
    BY StampIs DEF Numbers
  <2>. QED
    BY <2>1, NumberIs
<1>4. \A len \in Lengths \union {0} : /\ AtMost(len, Avail(writePos, readPos)) \in 0 .. Cap
                                      /\ AtMost(len, Used(writePos, readPos)) \in 0 .. Cap
    BY <1>0, CountsAre, StampIs
<1>5. Empty \in BOOLEAN /\ Full \in BOOLEAN
    BY DEF Empty, Full, IsEmpty, IsFull
<1>6. ASSUME NEW len \in Lengths, NEW timeout \in Timeouts, Write(len, timeout) PROVE Types'
    BY <1>0, <1>1, <1>6 DEF Write, NoWrite, readerSide
<1>7. ASSUME NEW len \in Lengths, NEW timeout \in Timeouts, NEW kind \in Kinds, Read(kind, len, timeout)
      PROVE  Types'
    BY <1>0, <1>1, <1>7 DEF Read, NoRead, Kinds, writerSide
<1>8. ASSUME NEW len \in Lengths, WriteFromIsr(len) PROVE Types'
  <2> DEFINE n == AtMost(len, Avail(writePos, readPos))
  <2>1. n \in 0 .. Cap /\ n \in Nat /\ Used(writePos, readPos) + n <= Cap
    BY <1>0, <1>4, CountsAre, StampIs DEF Avail
  <2>2. CopyIn(buf, writePos, Bytes(n)) \in [Slots -> Numbers]
    BY <1>0, <2>1, CopyStages
  <2>. HIDE DEF n
  <2>3. /\ buf' = CopyIn(buf, writePos, Bytes(n))
        /\ writePos' = Advance(writePos, n)
        /\ sent' = (sent + n) % Stamp
        /\ readSem' \in {0, 1}
        /\ UNCHANGED <<setup, writer, readerSide>>
    BY <1>0, <1>8 DEF WriteFromIsr, Post, n
  <2>. QED
    BY <1>0, <1>2, <1>3, <2>1, <2>2, <2>3 DEF readerSide
<1>9. ASSUME NEW len \in Lengths, ReadFromIsr(len) PROVE Types'
    BY <1>0, <1>2, <1>3, <1>4, <1>9 DEF ReadFromIsr, Post, writerSide
<1>10. CASE LookEmpty
    BY <1>0, <1>5, <1>10 DEF LookEmpty, readerSide
<1>11. CASE LookRoom
    BY <1>0, <1>4, <1>11 DEF LookRoom, readerSide
<1>12. CASE CopyBytesIn
  <2>1. writer.n \in Nat /\ Used(writePos, readPos) + writer.n <= Cap
    BY <1>0, <1>12, StampIs, UsedIs DEF CopyBytesIn, Room, Avail
  <2>2. CopyIn(buf, writePos, Bytes(writer.n)) \in [Slots -> Numbers]
    BY <1>0, <2>1, CopyStages
  <2>. QED
    BY <1>0, <1>12, <2>2 DEF CopyBytesIn, readerSide
<1>13. CASE PublishIn
    BY <1>0, <1>1, <1>2, <1>3, <1>13 DEF PublishIn, AfterIn, NoWrite, Timeouts, readerSide
<1>14. CASE RingReader
    BY <1>0, <1>1, <1>14 DEF RingReader, Post, NoWrite, Timeouts, readerSide
<1>15. CASE AwaitRoom
    BY <1>0, <1>15 DEF AwaitRoom, Timeouts
<1>16. CASE WriteTimeout
    BY <1>0, <1>1, <1>16 DEF WriteTimeout, NoWrite, Timeouts, readerSide
<1>17. CASE CheckEmpty
    BY <1>0, <1>1, <1>17 DEF CheckEmpty, NoRead, Timeouts, Kinds, writerSide
<1>18. CASE LookFull
    BY <1>0, <1>5, <1>18 DEF LookFull, writerSide
<1>19. CASE LookUsed
    BY <1>0, <1>4, <1>19 DEF LookUsed, writerSide
<1>20. CASE CopyBytesOut
  <2>1. CopyOut(buf, readPos, reader.n) \in Seq(Numbers)
    BY <1>0, StampIs, CopyOutIs DEF Count
  <2>. QED
    BY <1>0, <1>20, <2>1 DEF CopyBytesOut, writerSide
<1>21. CASE PublishOut
  <2>1. Consumed(reader) \in 0 .. Cap
    BY <1>0, <1>1 DEF Consumed
  <2>2. reader' \in [pc : {"idle", "check", "full", "used", "copy", "publish", "ring", "wait"},
                     kind : Kinds, len : Lengths \union {0}, timeout : Timeouts,
                     was_full : BOOLEAN, n : 0 .. Cap, chunk : Seq(Numbers)]
    BY <1>0, <1>1, <1>21 DEF PublishOut, AfterOut, NoRead, Timeouts, Kinds
  <2>. QED
    BY <1>0, <1>2, <1>3, <1>21, <2>1, <2>2 DEF PublishOut, writerSide
<1>22. CASE RingWriter
    BY <1>0, <1>1, <1>22 DEF RingWriter, Post, NoRead, Timeouts, Kinds, writerSide
<1>23. CASE AwaitData
    BY <1>0, <1>23 DEF AwaitData, Retry, Timeouts
<1>24. CASE ReadTimeout
    BY <1>0, <1>1, <1>24 DEF ReadTimeout, NoRead, Timeouts, Kinds, writerSide
<1>. QED
    BY <1>6, <1>7, <1>8, <1>9, <1>10, <1>11, <1>12, <1>13, <1>14, <1>15, <1>16, <1>17, <1>18,
       <1>19, <1>20, <1>21, <1>22, <1>23, <1>24 DEF Next, WriterStep, ReaderStep

\* What an interrupt or a publishing task does to the length.
LEMMA LengthMoves ==
    ASSUME Types, NEW n \in Nat
    PROVE  /\ Used(writePos, readPos) \in Nat
           /\ n <= Avail(writePos, readPos) =>
                 /\ Used(Advance(writePos, n), readPos) = Used(writePos, readPos) + n
                 /\ Used(writePos, readPos) + n <= Cap
           /\ n <= Used(writePos, readPos) =>
                 Used(writePos, Advance(readPos, n)) = Used(writePos, readPos) - n
<1>1. writePos \in Count /\ readPos \in Count
    BY DEF Types
<1>. QED
    BY <1>1, StampIs, UsedIs, UsedMoves DEF Avail

LEMMA RolesKept == ASSUME PInv, Next PROVE Roles' /\ Asked'
<1> USE DEF Roles, Asked
<1>0. Types /\ Roles /\ Asked
    BY DEF PInv
<1>1. Lengths \subseteq Nat \ {0}
    BY PipeAssumption
<1>2. ASSUME NEW len \in Lengths, NEW timeout \in Timeouts, Write(len, timeout) PROVE Roles' /\ Asked'
    BY <1>0, <1>1, <1>2 DEF Write, NoWrite, readerSide
<1>3. ASSUME NEW len \in Lengths, NEW timeout \in Timeouts, NEW kind \in Kinds, Read(kind, len, timeout)
      PROVE  Roles' /\ Asked'
    BY <1>0, <1>1, <1>3 DEF Read, NoRead, Kinds, writerSide
<1>4. ASSUME NEW len \in Lengths, WriteFromIsr(len) \/ ReadFromIsr(len) PROVE Roles' /\ Asked'
    BY <1>0, <1>4 DEF WriteFromIsr, ReadFromIsr, writerSide, readerSide
<1>5. CASE LookEmpty \/ LookRoom \/ CopyBytesIn
  <2>1. CASE LookEmpty
    BY <1>0, <2>1 DEF LookEmpty, readerSide, NoWrite, Types
  <2>2. CASE LookRoom
    BY <1>0, <2>2 DEF LookRoom, readerSide, NoWrite, Types
  <2>3. CASE CopyBytesIn
    BY <1>0, <2>3 DEF CopyBytesIn, readerSide, NoWrite, Types
  <2>. QED
    BY <1>5, <2>1, <2>2, <2>3
<1>6. CASE PublishIn
    BY <1>0, <1>6 DEF PublishIn, AfterIn, readerSide, NoWrite, Types
<1>7. CASE RingReader \/ WriteTimeout
    BY <1>0, <1>7 DEF RingReader, WriteTimeout, readerSide, NoWrite, Types
<1>8. CASE AwaitRoom
    BY <1>0, <1>8 DEF AwaitRoom, NoWrite, Types
<1>9. CASE CheckEmpty
    BY <1>0, <1>9 DEF CheckEmpty, writerSide, NoRead, Types
<1>10. CASE LookFull \/ CopyBytesOut
  <2>1. CASE LookFull
    BY <1>0, <2>1 DEF LookFull, writerSide, NoRead, Types
  <2>2. CASE CopyBytesOut
    BY <1>0, <2>2 DEF CopyBytesOut, writerSide, NoRead, Types
  <2>. QED
    BY <1>10, <2>1, <2>2
<1>11. CASE LookUsed
    BY <1>0, <1>11 DEF LookUsed, writerSide, NoRead, Types
<1>12. CASE PublishOut
    BY <1>0, <1>12 DEF PublishOut, AfterOut, writerSide, NoRead, Types
<1>13. CASE RingWriter \/ ReadTimeout
    BY <1>0, <1>13 DEF RingWriter, ReadTimeout, writerSide, NoRead, Types
<1>14. CASE AwaitData
    BY <1>0, <1>14 DEF AwaitData, Retry, NoRead, Types
<1>. QED
    BY <1>2, <1>3, <1>4, <1>5, <1>6, <1>7, <1>8, <1>9, <1>10, <1>11, <1>12, <1>13, <1>14
       DEF Next, WriterStep, ReaderStep

LEMMA RoomKept == ASSUME PInv, Next PROVE Room'
<1> USE DEF Room
<1>0. Types /\ Roles /\ Asked /\ Room
    BY DEF PInv
<1>1. writer.n \in Nat /\ reader.n \in Nat /\ Cap \in Nat
    BY <1>0, StampIs DEF Types
<1>2. ASSUME NEW len \in Lengths, NEW timeout \in Timeouts, Write(len, timeout) PROVE Room'
    BY <1>0, <1>2 DEF Write, NoWrite, readerSide
<1>3. ASSUME NEW len \in Lengths, NEW timeout \in Timeouts, NEW kind \in Kinds, Read(kind, len, timeout)
      PROVE  Room'
    BY <1>0, <1>3 DEF Read, NoRead, Kinds, writerSide
<1>4. ASSUME NEW len \in Lengths, WriteFromIsr(len) PROVE Room'
  <2> DEFINE n == AtMost(len, Avail(writePos, readPos))
  <2>1. n \in Nat /\ n <= Avail(writePos, readPos)
    BY <1>0, CountsAre
  <2>. HIDE DEF n
  <2>2. writePos' = Advance(writePos, n) /\ writer = NoWrite /\ UNCHANGED <<writer, reader, readPos>>
    BY <1>0, <1>4 DEF WriteFromIsr, Roles, readerSide, n
  <2>3. Used(writePos', readPos') = Used(writePos, readPos) + n /\ Used(writePos, readPos) + n <= Cap
        /\ Used(writePos, readPos) \in Nat
    BY <1>0, <2>1, <2>2, LengthMoves
  <2>. QED
    BY <1>0, <1>1, <2>1, <2>2, <2>3 DEF NoWrite
<1>5. ASSUME NEW len \in Lengths, ReadFromIsr(len) PROVE Room'
  <2> DEFINE n == AtMost(len, Used(writePos, readPos))
  <2>1. n \in Nat /\ n <= Used(writePos, readPos)
    BY <1>0, CountsAre
  <2>. HIDE DEF n
  <2>2. readPos' = Advance(readPos, n) /\ reader = NoRead /\ UNCHANGED <<writer, reader, writePos>>
    BY <1>0, <1>5 DEF ReadFromIsr, Roles, writerSide, n
  <2>3. Used(writePos', readPos') = Used(writePos, readPos) - n /\ Used(writePos, readPos) \in Nat
    BY <1>0, <2>1, <2>2, LengthMoves
  <2>. QED
    BY <1>0, <1>1, <2>1, <2>2, <2>3 DEF NoRead, Avail
<1>6. CASE LookEmpty \/ CopyBytesIn
    BY <1>0, <1>6 DEF LookEmpty, CopyBytesIn, readerSide, Types
<1>7. CASE LookRoom
  <2>1. AtMost(writer.len, Avail(writePos, readPos)) <= Avail(writePos, readPos)
    BY <1>0, CountsAre DEF Types
  <2>. QED
    BY <1>0, <1>7, <2>1 DEF LookRoom, readerSide, Types
<1>8. CASE PublishIn
  <2>1. /\ writePos' = Advance(writePos, writer.n)
        /\ writer'.pc \notin {"copy", "publish"}
        /\ UNCHANGED <<reader, readPos>>
    BY <1>0, <1>8 DEF PublishIn, AfterIn, NoWrite, readerSide, Types
  <2>2. writer.n <= Avail(writePos, readPos)
    BY <1>0, <1>8 DEF PublishIn
  <2>3. /\ Used(writePos', readPos') = Used(writePos, readPos) + writer.n
        /\ Used(writePos, readPos) + writer.n <= Cap
        /\ Used(writePos, readPos) \in Nat
    BY <1>0, <1>1, <2>1, <2>2, LengthMoves
  <2>. QED
    BY <1>0, <1>1, <2>1, <2>3
<1>9. CASE RingReader \/ WriteTimeout
    BY <1>0, <1>9 DEF RingReader, WriteTimeout, NoWrite, readerSide
<1>10. CASE AwaitRoom
    BY <1>0, <1>10 DEF AwaitRoom, Types
<1>11. CASE CheckEmpty \/ LookFull
  <2>1. CASE CheckEmpty
    BY <1>0, <2>1 DEF CheckEmpty, NoRead, writerSide, Types
  <2>2. CASE LookFull
    BY <1>0, <2>2 DEF LookFull, NoRead, writerSide, Types
  <2>. QED
    BY <1>11, <2>1, <2>2
<1>12. CASE LookUsed
  <2>1. AtMost(reader.len, Used(writePos, readPos)) <= Used(writePos, readPos)
    BY <1>0, CountsAre DEF Types
  <2>. QED
    BY <1>0, <1>12, <2>1 DEF LookUsed, writerSide, Types
<1>13. CASE CopyBytesOut
    BY <1>0, <1>13 DEF CopyBytesOut, writerSide, Types
<1>14. CASE PublishOut
  <2>1. Consumed(reader) \in Nat /\ Consumed(reader) <= Used(writePos, readPos)
    BY <1>0, <1>1, <1>14, LengthMoves DEF PublishOut, Consumed
  <2>2. /\ readPos' = Advance(readPos, Consumed(reader))
        /\ reader'.pc \notin {"copy", "publish"}
        /\ UNCHANGED <<writer, writePos>>
    BY <1>0, <1>14 DEF PublishOut, AfterOut, NoRead, writerSide, Types
  <2>3. /\ Used(writePos', readPos') = Used(writePos, readPos) - Consumed(reader)
        /\ Used(writePos, readPos) \in Nat
    BY <1>0, <2>1, <2>2, LengthMoves
  <2>. QED
    BY <1>0, <1>1, <2>1, <2>2, <2>3 DEF Avail
<1>15. CASE RingWriter \/ ReadTimeout
    BY <1>0, <1>15 DEF RingWriter, ReadTimeout, NoRead, writerSide
<1>16. CASE AwaitData
    BY <1>0, <1>16 DEF AwaitData, Retry, Types
<1>. QED
    BY <1>2, <1>3, <1>4, <1>5, <1>6, <1>7, <1>8, <1>9, <1>10, <1>11, <1>12, <1>13, <1>14, <1>15, <1>16
       DEF Next, WriterStep, ReaderStep

\* Steps that touch neither the buffer nor the counters.
LEMMA MemoryStays ==
    ASSUME Memory, UNCHANGED <<buf, writePos, readPos, sent, got>>,
           UNCHANGED writer \/ writer'.pc # "publish",
           UNCHANGED reader \/ reader'.pc # "publish" \/ reader'.kind = "skip"
    PROVE  Memory'
<1>1. Window' /\ Stream'
    BY DEF Memory, Window, Stream, WindowOf, StreamOf
<1>2. Staged'
    BY DEF Memory, Staged, StagedOf
<1>3. Chunk'
    BY DEF Memory, Chunk, Expected
<1>. QED
    BY <1>1, <1>2, <1>3 DEF Memory

\* writePos moves past the n bytes staged in b.
LEMMA MemoryGrows ==
    ASSUME Types, Memory, NEW b, NEW n \in Nat, b \in [Slots -> Numbers],
           Used(writePos, readPos) + n <= Cap,
           WindowOf(b, writePos, readPos, got), StagedOf(b, writePos, sent, n),
           buf' = b, writePos' = Advance(writePos, n), sent' = (sent + n) % Stamp,
           UNCHANGED <<readPos, got>>, UNCHANGED reader, writer'.pc # "publish"
    PROVE  Memory'
<1>1. writePos \in Count /\ readPos \in Count /\ got \in Int
    BY DEF Types, Numbers
<1>2. StreamOf(writePos, readPos, sent, got)
    BY DEF Memory, Stream
<1>3. /\ WindowOf(b, Advance(writePos, n), readPos, got)
      /\ StreamOf(Advance(writePos, n), readPos, (sent + n) % Stamp, got)
    BY <1>1, <1>2, PublishKeepsWindow
<1>4. Window' /\ Stream'
    BY <1>3 DEF Window, Stream, WindowOf, StreamOf
<1>5. Staged' /\ Chunk'
    BY DEF Memory, Staged, Chunk, Expected
<1>. QED
    BY <1>4, <1>5 DEF Memory

\* readPos moves past n bytes of the window.
LEMMA MemoryShrinks ==
    ASSUME Types, Memory, NEW n \in Nat, n <= Used(writePos, readPos),
           readPos' = Advance(readPos, n), got' = (got + n) % Stamp,
           UNCHANGED <<buf, writePos, sent, writer>>, reader'.pc # "publish"
    PROVE  Memory'
<1>1. writePos \in Count /\ readPos \in Count /\ got \in Int /\ buf \in [Slots -> Numbers]
    BY DEF Types, Numbers
<1>2. WindowOf(buf, writePos, readPos, got) /\ StreamOf(writePos, readPos, sent, got)
    BY DEF Memory, Window, Stream
<1>3. /\ WindowOf(buf, writePos, Advance(readPos, n), (got + n) % Stamp)
      /\ StreamOf(writePos, Advance(readPos, n), sent, (got + n) % Stamp)
    BY <1>1, <1>2, TakeKeepsWindow
<1>4. Window' /\ Stream'
    BY <1>3 DEF Window, Stream, WindowOf, StreamOf
<1>5. Staged' /\ Chunk'
    BY DEF Memory, Staged, StagedOf, Chunk
<1>. QED
    BY <1>4, <1>5 DEF Memory

\* What ringbuf_copy_out finds in the window.
LEMMA WindowReads ==
    ASSUME Types, Window, NEW n \in Nat, n <= Used(writePos, readPos)
    PROVE  CopyOut(buf, readPos, n) = Expected(n)
<1>1. readPos \in Int /\ got \in Int /\ Used(writePos, readPos) \in Nat /\ buf \in [Slots -> Numbers]
      /\ n \in Nat
    BY LengthMoves DEF Types, Count, Numbers
<1>2. CopyOut(buf, readPos, n) = [i \in 1 .. n |-> buf[Slot(readPos + (i - 1))]]
  <2>1. \A i \in 1 .. n : readPos + i - 1 = readPos + (i - 1)
    BY <1>1
  <2>. QED
    BY <2>1 DEF CopyOut
<1>3. ASSUME NEW i \in 1 .. n PROVE buf[Slot(readPos + (i - 1))] = (got + i - 1) % Stamp
  <2> DEFINE j == i - 1
  <2>1. j \in 0 .. Used(writePos, readPos) - 1 /\ got + j = got + i - 1
    BY <1>1
  <2>. HIDE DEF j
  <2>2. buf[Slot(readPos + j)] = (got + j) % Stamp
    BY <2>1 DEF Window, WindowOf
  <2>. QED
    BY <2>1, <2>2 DEF j
<1>. QED
    BY <1>2, <1>3 DEF Expected

LEMMA MemoryKept == ASSUME PInv, Next PROVE Memory'
<1>0. Types /\ Roles /\ Asked /\ Room /\ Memory
    BY DEF PInv
<1>1. writer.n \in Nat /\ reader.n \in Nat /\ Cap \in Nat
    BY <1>0, StampIs DEF Types
<1>2. ASSUME NEW len \in Lengths, NEW timeout \in Timeouts, Write(len, timeout) PROVE Memory'
    BY <1>0, <1>2, MemoryStays DEF Write, NoWrite, readerSide
<1>3. ASSUME NEW len \in Lengths, NEW timeout \in Timeouts, NEW kind \in Kinds, Read(kind, len, timeout)
      PROVE  Memory'
    BY <1>0, <1>3, MemoryStays DEF Read, NoRead, Kinds, writerSide
<1>4. ASSUME NEW len \in Lengths, WriteFromIsr(len) PROVE Memory'
  <2> DEFINE n == AtMost(len, Avail(writePos, readPos))
             b == CopyIn(buf, writePos, Bytes(n))
  <2>1. n \in Nat /\ n <= Avail(writePos, readPos)
    BY <1>0, CountsAre
  <2>. HIDE DEF n
  <2>2. Used(writePos, readPos) + n <= Cap
    BY <1>0, <2>1, LengthMoves
  <2>3. /\ b \in [Slots -> Numbers] /\ StagedOf(b, writePos, sent, n)
        /\ WindowOf(b, writePos, readPos, got)
    BY <1>0, <2>1, <2>2, CopyStages DEF Memory
  <2>4. /\ buf' = b /\ writePos' = Advance(writePos, n) /\ sent' = (sent + n) % Stamp
        /\ UNCHANGED <<readPos, got>> /\ UNCHANGED reader /\ writer'.pc # "publish"
    BY <1>0, <1>4 DEF WriteFromIsr, Roles, NoWrite, readerSide, n
  <2>. HIDE DEF b
  <2>. QED
    BY <1>0, <2>1, <2>2, <2>3, <2>4, MemoryGrows
<1>5. ASSUME NEW len \in Lengths, ReadFromIsr(len) PROVE Memory'
  <2> DEFINE n == AtMost(len, Used(writePos, readPos))
  <2>1. n \in Nat /\ n <= Used(writePos, readPos)
    BY <1>0, CountsAre
  <2>2. /\ readPos' = Advance(readPos, n) /\ got' = (got + n) % Stamp
        /\ UNCHANGED <<buf, writePos, sent, writer>> /\ reader'.pc # "publish"
    BY <1>0, <1>5 DEF ReadFromIsr, Roles, NoRead, writerSide
  <2>. HIDE DEF n
  <2>. QED
    BY <1>0, <2>1, <2>2, MemoryShrinks
<1>6. CASE LookEmpty
    BY <1>0, <1>6, MemoryStays DEF LookEmpty, readerSide, Types
<1>7. CASE LookRoom
    BY <1>0, <1>7, MemoryStays DEF LookRoom, readerSide, Types
<1>8. CASE CopyBytesIn
  <2> DEFINE b == CopyIn(buf, writePos, Bytes(writer.n))
  <2>1. /\ buf' = b
        /\ UNCHANGED <<writePos, readPos, sent, got, reader>>
        /\ writer'.n = writer.n
    BY <1>0, <1>8 DEF CopyBytesIn, readerSide, Types
  <2>2. Used(writePos, readPos) + writer.n <= Cap
    BY <1>0, <1>1, <1>8, LengthMoves DEF CopyBytesIn, Room
  <2>3. StagedOf(b, writePos, sent, writer.n) /\ WindowOf(b, writePos, readPos, got)
    BY <1>0, <1>1, <2>2, CopyStages DEF Memory
  <2>. HIDE DEF b
  <2>4. Window' /\ Stream'
    BY <1>0, <2>1, <2>3 DEF Memory, Window, Stream, WindowOf, StreamOf
  <2>5. Staged' /\ Chunk'
    BY <1>0, <2>1, <2>3 DEF Memory, Staged, StagedOf, Chunk, Expected
  <2>. QED
    BY <2>4, <2>5 DEF Memory
<1>9. CASE PublishIn
  <2>1. /\ UNCHANGED buf /\ writePos' = Advance(writePos, writer.n) /\ sent' = (sent + writer.n) % Stamp
        /\ UNCHANGED <<readPos, got>> /\ UNCHANGED reader /\ writer'.pc # "publish"
    BY <1>0, <1>9 DEF PublishIn, AfterIn, NoWrite, readerSide, Types
  <2>2. Used(writePos, readPos) + writer.n <= Cap
    BY <1>0, <1>1, <1>9, LengthMoves DEF PublishIn, Room
  <2>3. /\ buf \in [Slots -> Numbers] /\ StagedOf(buf, writePos, sent, writer.n)
        /\ WindowOf(buf, writePos, readPos, got)
    BY <1>0, <1>9 DEF PublishIn, Memory, Staged, Window, Types
  <2>. QED
    BY <1>0, <1>1, <2>1, <2>2, <2>3, MemoryGrows
<1>10. CASE RingReader
    BY <1>0, <1>10, MemoryStays DEF RingReader, NoWrite, readerSide
<1>11. CASE WriteTimeout
    BY <1>0, <1>11, MemoryStays DEF WriteTimeout, NoWrite, readerSide
<1>12. CASE AwaitRoom
    BY <1>0, <1>12, MemoryStays DEF AwaitRoom, Types
<1>13. CASE CheckEmpty
    BY <1>0, <1>13, MemoryStays DEF CheckEmpty, NoRead, writerSide, Types
<1>14. CASE LookFull
    BY <1>0, <1>14, MemoryStays DEF LookFull, writerSide, Types
<1>15. CASE LookUsed
    BY <1>0, <1>15, MemoryStays DEF LookUsed, writerSide, Types
<1>16. CASE CopyBytesOut
  <2>1. /\ UNCHANGED <<buf, writePos, readPos, sent, got, writer>>
        /\ reader'.chunk = CopyOut(buf, readPos, reader.n)
        /\ reader'.n = reader.n
    BY <1>0, <1>16 DEF CopyBytesOut, writerSide, Types
  <2>2. CopyOut(buf, readPos, reader.n) = Expected(reader.n)
    BY <1>0, <1>1, <1>16, WindowReads DEF CopyBytesOut, Room, Memory
  <2>3. Window' /\ Stream'
    BY <1>0, <2>1 DEF Memory, Window, Stream, WindowOf, StreamOf
  <2>4. Staged' /\ Chunk'
    BY <1>0, <2>1, <2>2 DEF Memory, Staged, StagedOf, Chunk, Expected
  <2>. QED
    BY <2>3, <2>4 DEF Memory
<1>17. CASE PublishOut
  <2>1. Consumed(reader) \in Nat /\ Consumed(reader) <= Used(writePos, readPos)
    BY <1>0, <1>1, <1>17, LengthMoves DEF PublishOut, Consumed, Room
  <2>2. /\ readPos' = Advance(readPos, Consumed(reader)) /\ got' = (got + Consumed(reader)) % Stamp
        /\ UNCHANGED <<buf, writePos, sent, writer>> /\ reader'.pc # "publish"
    BY <1>0, <1>17 DEF PublishOut, AfterOut, NoRead, writerSide, Types
  <2>. QED
    BY <1>0, <2>1, <2>2, MemoryShrinks
<1>18. CASE RingWriter
    BY <1>0, <1>18, MemoryStays DEF RingWriter, NoRead, writerSide
<1>19. CASE ReadTimeout
    BY <1>0, <1>19, MemoryStays DEF ReadTimeout, NoRead, writerSide
<1>20. CASE AwaitData
    BY <1>0, <1>20, MemoryStays DEF AwaitData, Retry, Types
<1>. QED
    BY <1>2, <1>3, <1>4, <1>5, <1>6, <1>7, <1>8, <1>9, <1>10, <1>11, <1>12, <1>13, <1>14, <1>15, <1>16,
       <1>17, <1>18, <1>19, <1>20 DEF Next, WriterStep, ReaderStep

\* A reader that keeps waiting, or does not begin to, in a step that takes no
\* token and leaves what is in the pipe.
LEMMA ReaderStaysWoken ==
    ASSUME ReaderWoken, UNCHANGED <<setup, writePos, readPos>>, readSem' = readSem \/ readSem' = 1,
           UNCHANGED reader \/ ~BoundToWait(reader')
    PROVE  ReaderWoken'
BY DEF ReaderWoken, BoundToWait, Empty, IsEmpty

LEMMA WriterStaysWoken ==
    ASSUME WriterWoken, UNCHANGED <<setup, writePos, readPos>>, writeSem' = writeSem \/ writeSem' = 1,
           UNCHANGED writer \/ ~BoundToWait(writer')
    PROVE  WriterWoken'
BY DEF WriterWoken, BoundToWait, Full, IsFull

LEMMA ReaderWokenKept == ASSUME PInv, Next PROVE ReaderWoken'
<1> USE DEF BoundToWait
<1>0. Types /\ Roles /\ Asked /\ Room /\ ReaderWoken
    BY DEF PInv
<1>1. writer.n \in Nat /\ reader.n \in Nat
    BY <1>0 DEF Types
<1>2. ASSUME NEW len \in Lengths, NEW timeout \in Timeouts, Write(len, timeout) PROVE ReaderWoken'
    BY <1>0, <1>2, ReaderStaysWoken DEF Write, readerSide
<1>3. ASSUME NEW len \in Lengths, NEW timeout \in Timeouts, NEW kind \in Kinds, Read(kind, len, timeout)
      PROVE  ReaderWoken'
  <2>1. ~BoundToWait(reader')
    BY <1>3 DEF Read, NoRead, Kinds
  <2>. QED
    BY <1>0, <1>3, <2>1, ReaderStaysWoken DEF Read, writerSide
\* The interrupt posts when it writes into an empty pipe.
<1>4. ASSUME NEW len \in Lengths, WriteFromIsr(len) PROVE ReaderWoken'
    BY <1>0, <1>4 DEF WriteFromIsr, ReaderWoken, Post, readerSide
<1>5. ASSUME NEW len \in Lengths, ReadFromIsr(len) PROVE ReaderWoken'
    BY <1>0, <1>5 DEF ReadFromIsr, ReaderWoken, Roles, NoRead, writerSide
<1>6. CASE LookEmpty \/ LookRoom \/ CopyBytesIn \/ WriteTimeout
    BY <1>0, <1>6, ReaderStaysWoken DEF LookEmpty, LookRoom, CopyBytesIn, WriteTimeout, readerSide
\* A task that writes is no interrupt.
<1>7. CASE PublishIn
    BY <1>0, <1>7 DEF PublishIn, ReaderWoken, Roles, NoWrite, readerSide
<1>8. CASE RingReader
    BY <1>0, <1>8, ReaderStaysWoken DEF RingReader, Post, readerSide
<1>9. CASE AwaitRoom
    BY <1>0, <1>9, ReaderStaysWoken DEF AwaitRoom
<1>10. CASE CheckEmpty
  <2>1. ~BoundToWait(reader')
    BY <1>0, <1>10 DEF CheckEmpty, NoRead, Types
  <2>. QED
    BY <1>0, <1>10, <2>1, ReaderStaysWoken DEF CheckEmpty, writerSide
<1>11. CASE LookFull
  <2>1. ~BoundToWait(reader')
    BY <1>0, <1>11 DEF LookFull, Types
  <2>. QED
    BY <1>0, <1>11, <2>1, ReaderStaysWoken DEF LookFull, writerSide
<1>12. CASE LookUsed
  <2>1. reader.len \in Lengths \union {0} /\ reader.len > 0
    BY <1>0, <1>12 DEF LookUsed, Asked, Types
  <2>2. AtMost(reader.len, Used(writePos, readPos)) = 0 => Empty
    BY <1>0, <2>1, CountsAre
  <2>3. BoundToWait(reader') => Empty
    BY <1>0, <1>12, <2>2 DEF LookUsed, Types
  <2>. QED
    BY <1>0, <1>12, <2>3 DEF LookUsed, ReaderWoken, Empty, IsEmpty, writerSide
<1>13. CASE CopyBytesOut
  <2>1. BoundToWait(reader') => BoundToWait(reader)
    BY <1>0, <1>13 DEF CopyBytesOut, Types
  <2>. QED
    BY <1>0, <1>13, <2>1 DEF CopyBytesOut, ReaderWoken, Empty, IsEmpty, writerSide
<1>14. CASE PublishOut
  <2>1. BoundToWait(reader') => BoundToWait(reader) /\ reader.n = 0
    BY <1>0, <1>1, <1>14 DEF PublishOut, AfterOut, NoRead, Types
  <2>2. reader.n = 0 => readPos' = readPos
    <3>1. Consumed(reader) = reader.n \/ Consumed(reader) = 0
      BY DEF Consumed
    <3>2. 0 \in 0 .. Modulus - 1 /\ readPos \in Count /\ readPos + 0 < Modulus /\ readPos + 0 = readPos
      BY <1>0, StampIs DEF Types, Count
    <3>3. Advance(readPos, 0) = readPos
      BY <3>2, AdvanceIs
    <3>. QED
      BY <1>14, <3>1, <3>3 DEF PublishOut
  <2>. QED
    BY <1>0, <1>14, <2>1, <2>2 DEF PublishOut, ReaderWoken, Empty, IsEmpty, writerSide
<1>15. CASE RingWriter
  <2>1. ~BoundToWait(reader')
    BY <1>15 DEF RingWriter, NoRead
  <2>. QED
    BY <1>0, <1>15, <2>1, ReaderStaysWoken DEF RingWriter, writerSide
<1>16. CASE ReadTimeout
  <2>1. ~BoundToWait(reader')
    BY <1>16 DEF ReadTimeout, NoRead
  <2>. QED
    BY <1>0, <1>16, <2>1, ReaderStaysWoken DEF ReadTimeout, writerSide
\* It took the token, and will not wait again.
<1>17. CASE AwaitData
    BY <1>0, <1>17 DEF AwaitData, Retry, ReaderWoken, Types
<1>. QED
    BY <1>2, <1>3, <1>4, <1>5, <1>6, <1>7, <1>8, <1>9, <1>10, <1>11, <1>12, <1>13, <1>14, <1>15, <1>16,
       <1>17 DEF Next, WriterStep, ReaderStep

LEMMA WriterWokenKept == ASSUME PInv, Next PROVE WriterWoken'
<1> USE DEF BoundToWait
<1>0. Types /\ Roles /\ Asked /\ Room /\ WriterWoken
    BY DEF PInv
<1>1. writer.n \in Nat /\ reader.n \in Nat
    BY <1>0 DEF Types
<1>2. ASSUME NEW len \in Lengths, NEW timeout \in Timeouts, Write(len, timeout) PROVE WriterWoken'
  <2>1. ~BoundToWait(writer')
    BY <1>2 DEF Write, NoWrite
  <2>. QED
    BY <1>0, <1>2, <2>1, WriterStaysWoken DEF Write, readerSide
<1>3. ASSUME NEW len \in Lengths, NEW timeout \in Timeouts, NEW kind \in Kinds, Read(kind, len, timeout)
      PROVE  WriterWoken'
    BY <1>0, <1>3, WriterStaysWoken DEF Read, writerSide
<1>4. ASSUME NEW len \in Lengths, WriteFromIsr(len) PROVE WriterWoken'
    BY <1>0, <1>4 DEF WriteFromIsr, WriterWoken, Roles, NoWrite, readerSide
\* The interrupt posts when it reads from a full pipe.
<1>5. ASSUME NEW len \in Lengths, ReadFromIsr(len) PROVE WriterWoken'
    BY <1>0, <1>5 DEF ReadFromIsr, WriterWoken, Post, writerSide
<1>6. CASE LookEmpty
  <2>1. ~BoundToWait(writer')
    BY <1>0, <1>6 DEF LookEmpty, Types
  <2>. QED
    BY <1>0, <1>6, <2>1, WriterStaysWoken DEF LookEmpty, readerSide
<1>7. CASE LookRoom
  <2>1. writer.len \in Lengths \union {0} /\ writer.len > 0
    BY <1>0, <1>7 DEF LookRoom, Asked, Types
  <2>2. AtMost(writer.len, Avail(writePos, readPos)) = 0 => Full
    BY <1>0, <2>1, CountsAre
  <2>3. BoundToWait(writer') => Full
    BY <1>0, <1>7, <2>2 DEF LookRoom, Types
  <2>. QED
    BY <1>0, <1>7, <2>3 DEF LookRoom, WriterWoken, Full, IsFull, readerSide
<1>8. CASE CopyBytesIn
  <2>1. BoundToWait(writer') => BoundToWait(writer)
    BY <1>0, <1>8 DEF CopyBytesIn, Types
  <2>. QED
    BY <1>0, <1>8, <2>1 DEF CopyBytesIn, WriterWoken, Full, IsFull, readerSide
<1>9. CASE PublishIn
  <2>1. BoundToWait(writer') => BoundToWait(writer) /\ writer.n = 0
    BY <1>0, <1>1, <1>9 DEF PublishIn, AfterIn, NoWrite, Types
  <2>2. writer.n = 0 => writePos' = writePos
    <3>1. 0 \in 0 .. Modulus - 1 /\ writePos \in Count /\ writePos + 0 < Modulus /\ writePos + 0 = writePos
      BY <1>0, StampIs DEF Types, Count
    <3>2. Advance(writePos, 0) = writePos
      BY <3>1, AdvanceIs
    <3>. QED
      BY <1>9, <3>2 DEF PublishIn
  <2>. QED
    BY <1>0, <1>9, <2>1, <2>2 DEF PublishIn, WriterWoken, Full, IsFull, readerSide
<1>10. CASE RingReader
  <2>1. ~BoundToWait(writer')
    BY <1>10 DEF RingReader, NoWrite
  <2>. QED
    BY <1>0, <1>10, <2>1, WriterStaysWoken DEF RingReader, readerSide
<1>11. CASE WriteTimeout
  <2>1. ~BoundToWait(writer')
    BY <1>11 DEF WriteTimeout, NoWrite
  <2>. QED
    BY <1>0, <1>11, <2>1, WriterStaysWoken DEF WriteTimeout, readerSide
\* It took the token, and will not wait again.
<1>12. CASE AwaitRoom
    BY <1>0, <1>12 DEF AwaitRoom, WriterWoken, Types
<1>13. CASE CheckEmpty \/ LookFull \/ LookUsed \/ CopyBytesOut \/ ReadTimeout
    BY <1>0, <1>13, WriterStaysWoken DEF CheckEmpty, LookFull, LookUsed, CopyBytesOut, ReadTimeout, writerSide
\* A task that reads is no interrupt.
<1>14. CASE PublishOut
    BY <1>0, <1>14 DEF PublishOut, WriterWoken, Roles, NoRead, writerSide
<1>15. CASE RingWriter
    BY <1>0, <1>15, WriterStaysWoken DEF RingWriter, Post, writerSide
<1>16. CASE AwaitData
    BY <1>0, <1>16, WriterStaysWoken DEF AwaitData
<1>. QED
    BY <1>2, <1>3, <1>4, <1>5, <1>6, <1>7, <1>8, <1>9, <1>10, <1>11, <1>12, <1>13, <1>14, <1>15, <1>16
       DEF Next, WriterStep, ReaderStep

-----------------------------------------------------------------------------
(* The theorems *)

LEMMA InitHolds == ASSUME Init PROVE PInv
<1>0. Cap \in Nat \ {0} /\ Stamp \in Nat \ {0} /\ Modulus \in Nat \ {0} /\ 0 \in Count /\ 0 \in Numbers
    BY StampIs DEF Count, Numbers
<1>1. Used(0, 0) = 0
    BY <1>0, UsedIs
<1>2. Types /\ Roles /\ Asked
    BY <1>0, PipeAssumption DEF Init, Types, Roles, Asked, NoWrite, NoRead, Timeouts, Kinds
<1>3. Room
    BY <1>0, <1>1 DEF Init, Room, NoWrite, NoRead
<1>4. Window
    BY <1>0, <1>1 DEF Init, Window, WindowOf
<1>5. Stream
  <2>1. 0 \in 0 .. Stamp - 1 /\ 0 + 0 = 0
    BY <1>0
  <2>2. 0 % Stamp = 0
    BY <1>0, <2>1, ModSmall
  <2>. QED
    BY <1>1, <2>1, <2>2 DEF Init, Stream, StreamOf
<1>6. Staged /\ Chunk /\ ReaderWoken /\ WriterWoken
    BY DEF Init, Staged, Chunk, ReaderWoken, WriterWoken, BoundToWait, NoWrite, NoRead
<1>. QED
    BY <1>2, <1>3, <1>4, <1>5, <1>6 DEF PInv, Memory

\* The invariant holds in every state.
THEOREM PipeInvariance == Spec => []PInv
<1>1. Init => PInv
    BY InitHolds
<1>2. PInv /\ [Next]_vars => PInv'
  <2>1. ASSUME PInv, Next PROVE PInv'
    BY <2>1, TypesKept, RolesKept, RoomKept, MemoryKept, ReaderWokenKept, WriterWokenKept DEF PInv
  <2>2. ASSUME PInv, UNCHANGED vars PROVE PInv'
    <3>0. UNCHANGED <<setup, writePos, readPos, buf, readSem, writeSem, writer, reader, sent, got>>
      BY <2>2 DEF vars
    <3>1. Memory'
      BY <2>2, <3>0, MemoryStays DEF PInv
    <3>2. Types' /\ Roles' /\ Asked' /\ Room'
      BY <2>2, <3>0 DEF PInv, Types, Roles, Asked, Room
    <3>3. ReaderWoken' /\ WriterWoken'
      BY <2>2, <3>0, ReaderStaysWoken, WriterStaysWoken DEF PInv
    <3>. QED
      BY <3>1, <3>2, <3>3 DEF PInv
  <2>. QED
    BY <2>1, <2>2
<1>. QED
    BY <1>1, <1>2, PTL DEF Spec

\* The type invariant of the pipe.
THEOREM PipeTypeCorrect == Spec => []TypeOK
<1>1. PInv => TypeOK
    BY DEF PInv, Types, Roles, TypeOK, Numbers
<1>. QED
    BY <1>1, PipeInvariance, PTL

\* The bytes come out as they went in: of pipe_read and pipe_peek, for every
\* capacity, across the wrap of the counters.
THEOREM IntactHolds == Spec => []Intact
<1>1. PInv => Intact
  <2> SUFFICES ASSUME PInv PROVE Intact
    OBVIOUS
  <2>1. Types /\ Memory
    BY DEF PInv
  <2> DEFINE u == Used(writePos, readPos)
  <2>2. u \in Nat /\ got \in Int
    BY <2>1, LengthMoves, StampIs DEF Types, Numbers
  <2>3. CopyOut(buf, readPos, u) = Expected(u)
    BY <2>1, <2>2, WindowReads DEF Memory
  <2>4. sent = (got + u) % Stamp
    BY <2>1 DEF Memory, Stream, StreamOf
  <2>. HIDE DEF u
  <2>5. u + 1 \in 1 .. u + 1 /\ got + (u + 1) - 1 = got + u
    BY <2>2
  <2>6. Expected(u + 1)[u + 1] = sent
    BY <2>4, <2>5 DEF Expected
  <2>. QED
    BY <2>1, <2>3, <2>6 DEF Intact, Memory, Chunk, u
<1>. QED
    BY <1>1, PipeInvariance, PTL

\* With an interrupt on one side nobody sleeps on what he waits for.
THEOREM DoorbellWithIsrHolds == Spec => []DoorbellWithIsr
<1>1. PInv => DoorbellWithIsr
  <2> SUFFICES ASSUME PInv, setup # <<"task", "task">> PROVE ~ReaderForgotten /\ ~WriterForgotten
    BY DEF DoorbellWithIsr
  <2>1. setup[1] = "isr" \/ setup[2] = "isr"
    BY DEF PInv, Types
  <2>2. ASSUME setup[1] = "isr" PROVE ~ReaderForgotten /\ ~WriterForgotten
    BY <2>2 DEF PInv, Types, Roles, NoWrite, ReaderWoken, BoundToWait, ReaderForgotten, WriterForgotten
  <2>3. ASSUME setup[2] = "isr" PROVE ~ReaderForgotten /\ ~WriterForgotten
    BY <2>3 DEF PInv, Types, Roles, NoRead, WriterWoken, BoundToWait, ReaderForgotten, WriterForgotten
  <2>. QED
    BY <2>1, <2>2, <2>3
<1>. QED
    BY <1>1, PipeInvariance, PTL

-----------------------------------------------------------------------------
(* The pipe implements the byte stream of module ByteStream *)

\* The n bytes from number g on.
Numbered(g, n) == [i \in 1 .. n |-> (g + i - 1) % Stamp]

LEMMA NumberedIs ==
    ASSUME NEW g \in Int, NEW n \in Nat
    PROVE  Numbered(g, n) \in Seq(Numbers) /\ Len(Numbered(g, n)) = n
<1>1. \A i \in 1 .. n : (g + i - 1) % Stamp \in Numbers
    BY NumberIs
<1>. QED
    BY <1>1 DEF Numbered

\* The next n bytes continue the first u.
LEMMA NumberedGrows ==
    ASSUME NEW g \in Int, NEW u \in Nat, NEW n \in Nat
    PROVE  Numbered(g, u) \o Numbered((g + u) % Stamp, n) = Numbered(g, u + n)
<1> DEFINE s == (g + u) % Stamp
           a == Numbered(g, u)
           b == Numbered(s, n)
           c == Numbered(g, u + n)
<1>1. s \in Int
    BY NumberIs, StampIs DEF Numbers
<1>2. /\ a \in Seq(Numbers) /\ Len(a) = u
      /\ b \in Seq(Numbers) /\ Len(b) = n
      /\ c \in Seq(Numbers) /\ Len(c) = u + n
    BY <1>1, NumberedIs
<1>3. ASSUME NEW i \in 1 .. u + n PROVE (a \o b)[i] = c[i]
  <2>1. CASE i <= u
    <3>1. a[i] = (g + i - 1) % Stamp /\ c[i] = (g + i - 1) % Stamp
      BY <2>1 DEF Numbered
    <3>2. (a \o b)[i] = a[i]
      BY <1>2, <2>1, ConcatProperties
    <3>. QED
      BY <3>1, <3>2
  <2>2. CASE i > u
    <3> DEFINE j == i - u
    <3>1. j \in 1 .. n /\ i = u + j
      BY <2>2
    <3>2. (a \o b)[i] = b[j]
      BY <1>2, <2>2, ConcatProperties
    <3>. HIDE DEF j
    <3>3. s + j - 1 = s + (j - 1) /\ g + i - 1 = g + (u + (j - 1)) /\ j - 1 \in Int
      BY <1>1, <3>1
    <3>4. b[j] = (s + (j - 1)) % Stamp /\ c[i] = (g + (u + (j - 1))) % Stamp
      BY <3>1, <3>3 DEF Numbered
    <3>5. (s + (j - 1)) % Stamp = (g + (u + (j - 1))) % Stamp
      BY <3>3, NumberAdds
    <3>. QED
      BY <3>2, <3>4, <3>5
  <2>3. i <= u \/ i > u
    OBVIOUS
  <2>. HIDE DEF a, b, c
  <2>. QED
    BY ONLY <2>1, <2>2, <2>3
<1>4. a \o b \in Seq(Numbers) /\ Len(a \o b) = u + n
    BY <1>2, ConcatProperties
<1>. HIDE DEF a, b, c
<1>5. a \o b = c
    BY <1>2, <1>3, <1>4, SeqEqual
<1>. QED
    BY <1>5 DEF a, b, c, s

\* The first n of u bytes, and the others.
LEMMA NumberedSplits ==
    ASSUME NEW g \in Int, NEW u \in Nat, NEW n \in 0 .. u
    PROVE  /\ SubSeq(Numbered(g, u), 1, n) = Numbered(g, n)
           /\ SubSeq(Numbered(g, u), n + 1, u) = Numbered((g + n) % Stamp, u - n)
<1> DEFINE s == (g + n) % Stamp
           a == Numbered(g, u)
           b == Numbered(g, n)
           c == Numbered(s, u - n)
<1>1. s \in Int /\ u - n \in Nat /\ n \in Nat
    BY NumberIs, StampIs DEF Numbers
<1>2. /\ a \in Seq(Numbers) /\ Len(a) = u
      /\ b \in Seq(Numbers) /\ Len(b) = n
      /\ c \in Seq(Numbers) /\ Len(c) = u - n
    BY <1>1, NumberedIs
<1>3. \A i \in 1 .. u : a[i] = (g + i - 1) % Stamp
    BY DEF Numbered
<1>4. SubSeq(a, 1, n) = b
  <2>1. /\ SubSeq(a, 1, n) \in Seq(Numbers) /\ Len(SubSeq(a, 1, n)) = n
        /\ \A i \in 1 .. n : SubSeq(a, 1, n)[i] = a[i]
    BY <1>2, SubSeqProperties
  <2>2. \A i \in 1 .. n : b[i] = a[i]
    BY <1>3 DEF Numbered
  <2>. HIDE DEF a, b
  <2>. QED
    BY <1>2, <2>1, <2>2, SeqEqual
<1>5. SubSeq(a, n + 1, u) = c
  <2>1. /\ SubSeq(a, n + 1, u) \in Seq(Numbers) /\ Len(SubSeq(a, n + 1, u)) = u - n
        /\ \A i \in 1 .. u - n : SubSeq(a, n + 1, u)[i] = a[n + i]
    BY <1>2, SubSeqProperties
  <2>2. ASSUME NEW i \in 1 .. u - n PROVE a[n + i] = c[i]
    <3>1. a[n + i] = (g + (n + i) - 1) % Stamp /\ c[i] = (s + i - 1) % Stamp
      BY <1>3 DEF Numbered
    <3>2. g + (n + i) - 1 = g + (n + (i - 1)) /\ s + i - 1 = s + (i - 1) /\ i - 1 \in Int
      BY <1>1
    <3>3. (s + (i - 1)) % Stamp = (g + (n + (i - 1))) % Stamp
      BY <3>2, NumberAdds
    <3>. QED
      BY <3>1, <3>2, <3>3
  <2>. HIDE DEF a, c
  <2>. QED
    BY <1>2, <2>1, <2>2, SeqEqual
<1>. QED
    BY <1>4, <1>5

\* The window read as one stretch of the stream.
LEMMA WindowIsStream ==
    ASSUME NEW b \in [Slots -> Numbers], NEW w \in Count, NEW r \in Count, NEW g \in Int,
           WindowOf(b, w, r, g)
    PROVE  CopyOut(b, r, Used(w, r)) = Numbered(g, Used(w, r))
<1> DEFINE u == Used(w, r)
<1>1. u \in Nat /\ r \in Int
    BY UsedIs DEF Count
<1>2. \A j \in 0 .. u - 1 : b[Slot(r + j)] = (g + j) % Stamp
    BY DEF WindowOf
<1>. HIDE DEF u
<1>3. CopyOut(b, r, u) = [i \in 1 .. u |-> b[Slot(r + (i - 1))]]
  <2>1. \A i \in 1 .. u : r + i - 1 = r + (i - 1)
    BY <1>1
  <2>. QED
    BY <2>1 DEF CopyOut
<1>4. ASSUME NEW i \in 1 .. u PROVE b[Slot(r + (i - 1))] = (g + i - 1) % Stamp
  <2> DEFINE j == i - 1
  <2>1. j \in 0 .. u - 1 /\ g + j = g + i - 1
    BY <1>1
  <2>. HIDE DEF j
  <2>2. b[Slot(r + j)] = (g + j) % Stamp
    BY <1>2, <2>1
  <2>. QED
    BY <2>1, <2>2 DEF j
<1>5. CopyOut(b, r, u) = Numbered(g, u)
    BY <1>3, <1>4 DEF Numbered
<1>. QED
    BY <1>5 DEF u

\* The abstract variables: what is under way, and what is lent.
Under == CopyOut(buf, readPos, Used(writePos, readPos))
Lent == IF reader.pc = "publish" /\ reader.kind # "skip" THEN reader.chunk ELSE <<>>

LEMMA UnderIs ==
    ASSUME PInv
    PROVE  /\ Used(writePos, readPos) \in Nat
           /\ Used(writePos, readPos) <= Cap
           /\ got \in Int
           /\ sent \in Numbers
           /\ sent = (got + Used(writePos, readPos)) % Stamp
           /\ Under = Numbered(got, Used(writePos, readPos))
           /\ Len(Under) = Used(writePos, readPos)
<1>1. /\ writePos \in Count /\ readPos \in Count /\ buf \in [Slots -> Numbers]
      /\ got \in Int /\ sent \in Numbers
    BY StampIs DEF PInv, Types, Numbers
<1>2. Used(writePos, readPos) \in Nat /\ Used(writePos, readPos) <= Cap
    BY <1>1, UsedIs, StampIs DEF PInv, Room
<1>3. WindowOf(buf, writePos, readPos, got) /\ sent = (got + Used(writePos, readPos)) % Stamp
    BY DEF PInv, Memory, Window, Stream, StreamOf
<1>4. Under = Numbered(got, Used(writePos, readPos))
    BY <1>1, <1>3, WindowIsStream DEF Under
<1>. QED
    BY <1>1, <1>2, <1>3, <1>4, NumberedIs

LEMMA UnderOldest ==
    ASSUME PInv, NEW n \in Nat, n <= Used(writePos, readPos)
    PROVE  SubSeq(Under, 1, n) = Numbered(got, n) /\ Len(Under) = Used(writePos, readPos)
<1> DEFINE u == Used(writePos, readPos)
<1>1. u \in Nat /\ got \in Int /\ Under = Numbered(got, u) /\ Len(Under) = u /\ n \in 0 .. u
    BY UnderIs
<1>. HIDE DEF u
<1>2. SubSeq(Under, 1, n) = Numbered(got, n)
    BY <1>1, NumberedSplits
<1>. QED
    BY <1>1, <1>2 DEF u

\* A step that leaves what is between the counters and what is lent.
LEMMA StreamStays ==
    ASSUME UNCHANGED <<buf, writePos, readPos, sent>>, UNCHANGED Lent
    PROVE  UNCHANGED Channel!bvars
BY DEF Channel!bvars, Lent

\* A step that makes n bytes visible.
LEMMA StreamGrows ==
    ASSUME PInv, PInv', NEW n \in Nat, Used(writePos, readPos) + n <= Cap,
           Used(writePos, readPos)' = Used(writePos, readPos) + n,
           UNCHANGED got, sent' = (sent + n) % Stamp, UNCHANGED Lent
    PROVE  [Channel!Next]_(Channel!bvars)
<1> DEFINE u == Used(writePos, readPos)
<1>0. Cap \in Nat
    BY StampIs
<1>1. /\ u \in Nat /\ u <= Cap /\ got \in Int /\ sent \in Numbers /\ sent = (got + u) % Stamp
      /\ Under = Numbered(got, u) /\ Len(Under) = u
    BY UnderIs
<1>2. Under' = Numbered(got, u + n)
  <2>1. Window'
    BY DEF PInv, Memory
  <2>2. /\ writePos' \in Count /\ readPos' \in Count /\ buf' \in [Slots -> Numbers]
        /\ WindowOf(buf', writePos', readPos', got')
    BY <2>1 DEF PInv, Types, Window, WindowOf
  <2>. QED
    BY <1>1, <2>2, WindowIsStream DEF Under
<1>3. Under' = Under \o Numbered(sent, n)
  <2>. HIDE DEF u
  <2>. QED
    BY <1>1, <1>2, NumberedGrows
<1>4. CASE n > 0
  <2>1. Channel!Put(n)
    BY <1>1, <1>3 DEF Channel!Put, Under, Lent, Numbered
  <2>2. n \in 1 .. Cap
    BY <1>0, <1>1, <1>4
  <2>. QED
    BY <2>1, <2>2 DEF Channel!Next
<1>5. CASE n = 0
  <2>1. sent' = sent
    BY <1>1, <1>5, StampIs, ModSmall DEF Numbers
  <2>2. Under' = Under
    BY <1>1, <1>2, <1>5
  <2>. QED
    BY <2>1, <2>2 DEF Channel!bvars, Under, Lent
<1>. QED
    BY <1>4, <1>5

\* A step that takes n bytes, those that are lent if any are.
LEMMA StreamShrinks ==
    ASSUME PInv, PInv', NEW n \in Nat, n <= Used(writePos, readPos),
           Used(writePos, readPos)' = Used(writePos, readPos) - n,
           UNCHANGED sent, got' = (got + n) % Stamp,
           Lent \in {<<>>, Numbered(got, n)}, Lent' = <<>>
    PROVE  [Channel!Next]_(Channel!bvars)
<1> DEFINE u == Used(writePos, readPos)
<1>0. Cap \in Nat
    BY StampIs
<1>1. /\ u \in Nat /\ u <= Cap /\ got \in Int /\ Under = Numbered(got, u) /\ Len(Under) = u
    BY UnderIs
<1>2. Under' = Numbered(got', u - n)
  <2>1. Window'
    BY DEF PInv, Memory
  <2>2. /\ writePos' \in Count /\ readPos' \in Count /\ buf' \in [Slots -> Numbers] /\ got' \in Int
        /\ WindowOf(buf', writePos', readPos', got')
    BY <2>1, StampIs DEF PInv, Types, Numbers, Window, WindowOf
  <2>. QED
    BY <1>1, <2>2, WindowIsStream DEF Under
<1>3. SubSeq(Under, n + 1, Len(Under)) = Under' /\ SubSeq(Under, 1, n) = Numbered(got, n)
  <2>1. n \in 0 .. u
    BY <1>1
  <2>. HIDE DEF u
  <2>. QED
    BY <1>1, <1>2, <2>1, NumberedSplits
<1>4. CASE n > 0
  <2>1. Channel!Take(n)
    BY <1>1, <1>3 DEF Channel!Take, Channel!Oldest, Channel!Younger, Under, Lent
  <2>2. n \in 1 .. Cap
    BY <1>0, <1>1, <1>4
  <2>. QED
    BY <2>1, <2>2 DEF Channel!Next
<1>5. CASE n = 0
  <2>1. Numbered(got, 0) = <<>>
    BY <1>1, NumberedIs
  <2>2. got' = got
    <3>1. got \in 0 .. Stamp - 1 /\ got + 0 = got
      BY StampIs DEF PInv, Types, Numbers
    <3>. QED
      BY <1>5, <3>1, StampIs, ModSmall
  <2>3. Under' = Under
    BY <1>1, <1>2, <1>5, <2>2
  <2>. QED
    BY <1>5, <2>1, <2>3 DEF Channel!bvars, Under, Lent
<1>. QED
    BY <1>4, <1>5

LEMMA StreamStep == ASSUME PInv, PInv', [Next]_vars PROVE [Channel!Next]_(Channel!bvars)
<1>0. Types /\ Roles /\ Room /\ Memory
    BY DEF PInv
<1>1. writer.n \in Nat /\ reader.n \in Nat /\ got \in Int /\ Cap \in Nat
    BY <1>0, StampIs DEF Types, Numbers
<1>2. ASSUME NEW len \in Lengths, NEW timeout \in Timeouts, Write(len, timeout)
      PROVE  UNCHANGED Channel!bvars
    BY <1>2, StreamStays DEF Write, readerSide, Lent
<1>3. ASSUME NEW len \in Lengths, NEW timeout \in Timeouts, NEW kind \in Kinds, Read(kind, len, timeout)
      PROVE  UNCHANGED Channel!bvars
    BY <1>3, StreamStays DEF Read, NoRead, Kinds, writerSide, Lent
<1>4. ASSUME NEW len \in Lengths, WriteFromIsr(len) PROVE [Channel!Next]_(Channel!bvars)
  <2> DEFINE n == AtMost(len, Avail(writePos, readPos))
  <2>1. n \in Nat /\ n <= Avail(writePos, readPos)
    BY <1>0, CountsAre
  <2>. HIDE DEF n
  <2>2. /\ Used(writePos, readPos) + n <= Cap
        /\ Used(Advance(writePos, n), readPos) = Used(writePos, readPos) + n
    BY <1>0, <2>1, LengthMoves
  <2>3. /\ writePos' = Advance(writePos, n) /\ sent' = (sent + n) % Stamp
        /\ UNCHANGED <<readPos, got, reader>>
    BY <1>4 DEF WriteFromIsr, readerSide, n
  <2>. QED
    BY <2>1, <2>2, <2>3, StreamGrows DEF Lent
<1>5. ASSUME NEW len \in Lengths, ReadFromIsr(len) PROVE [Channel!Next]_(Channel!bvars)
  <2> DEFINE n == AtMost(len, Used(writePos, readPos))
  <2>1. n \in Nat /\ n <= Used(writePos, readPos)
    BY <1>0, CountsAre
  <2>. HIDE DEF n
  <2>2. Used(writePos, Advance(readPos, n)) = Used(writePos, readPos) - n
    BY <1>0, <2>1, LengthMoves
  <2>3. /\ readPos' = Advance(readPos, n) /\ got' = (got + n) % Stamp /\ reader = NoRead
        /\ UNCHANGED <<writePos, sent, reader>>
    BY <1>0, <1>5 DEF ReadFromIsr, Roles, writerSide, n
  <2>4. Lent = <<>> /\ Lent' = <<>>
    BY <2>3 DEF Lent, NoRead
  <2>. QED
    BY <2>1, <2>2, <2>3, <2>4, StreamShrinks
<1>6. CASE LookEmpty \/ LookRoom \/ RingReader \/ WriteTimeout
    BY <1>6, StreamStays DEF LookEmpty, LookRoom, RingReader, WriteTimeout, readerSide, Lent
<1>7. CASE AwaitRoom
    BY <1>7, StreamStays DEF AwaitRoom, Lent
\* Bytes that are copied in behind writePos are not under way yet.
<1>8. CASE CopyBytesIn
  <2>1. UNCHANGED <<writePos, readPos, sent, got, reader>>
    BY <1>8 DEF CopyBytesIn, readerSide
  <2>2. Window'
    BY DEF PInv, Memory
  <2>3. /\ buf' \in [Slots -> Numbers] /\ writePos \in Count /\ readPos \in Count
        /\ WindowOf(buf', writePos, readPos, got)
    BY <1>0, <2>1, <2>2 DEF PInv, Types, Window, WindowOf
  <2>4. CopyOut(buf', readPos, Used(writePos, readPos)) = Numbered(got, Used(writePos, readPos))
    BY <1>1, <2>3, WindowIsStream
  <2>5. Under' = Under
    BY <2>1, <2>4, UnderIs DEF Under
  <2>. QED
    BY <2>1, <2>5 DEF Channel!bvars, Under
<1>9. CASE PublishIn
  <2>1. /\ writePos' = Advance(writePos, writer.n) /\ sent' = (sent + writer.n) % Stamp
        /\ UNCHANGED <<readPos, got, reader>>
    BY <1>9 DEF PublishIn, readerSide
  <2>2. writer.n <= Avail(writePos, readPos)
    BY <1>0, <1>9 DEF PublishIn, Room
  <2>3. /\ Used(writePos, readPos) + writer.n <= Cap
        /\ Used(Advance(writePos, writer.n), readPos) = Used(writePos, readPos) + writer.n
    BY <1>0, <1>1, <2>2, LengthMoves
  <2>. QED
    BY <1>1, <2>1, <2>3, StreamGrows DEF Lent
<1>10. CASE CheckEmpty
    BY <1>0, <1>10, StreamStays DEF CheckEmpty, NoRead, writerSide, Lent, Types
<1>11. CASE LookFull
    BY <1>0, <1>11, StreamStays DEF LookFull, writerSide, Lent, Types
<1>12. CASE LookUsed
    BY <1>0, <1>12, StreamStays DEF LookUsed, writerSide, Lent, Types
<1>13. CASE CopyBytesOut
  <2>1. /\ UNCHANGED <<buf, writePos, readPos, sent>>
        /\ reader.pc = "copy" /\ reader'.pc = "publish" /\ reader'.kind = reader.kind
        /\ reader'.chunk = CopyOut(buf, readPos, reader.n)
    BY <1>0, <1>13 DEF CopyBytesOut, writerSide, Types
  <2>2. reader.n <= Used(writePos, readPos) /\ Window
    BY <1>0, <2>1 DEF Room, Memory
  <2>3. CopyOut(buf, readPos, reader.n) = Numbered(got, reader.n)
    BY <1>0, <1>1, <2>2, WindowReads DEF Expected, Numbered
  <2>4. SubSeq(Under, 1, reader.n) = Numbered(got, reader.n) /\ Len(Under) = Used(writePos, readPos)
    BY <1>1, <2>2, UnderOldest
  <2>5. CASE reader.kind # "skip" /\ reader.n > 0
    <3>1. Channel!Lend(reader.n)
      BY <2>1, <2>2, <2>3, <2>4, <2>5 DEF Channel!Lend, Channel!Oldest, Under, Lent
    <3>2. reader.n \in 1 .. Cap
      BY <1>1, <2>2, <2>5, UnderIs
    <3>. QED
      BY <3>1, <3>2 DEF Channel!Next
  <2>6. CASE reader.kind = "skip" \/ reader.n = 0
    <3>1. reader.n = 0 => reader'.chunk = <<>>
      BY <1>1, <2>1, <2>3, NumberedIs
    <3>. QED
      BY <2>1, <2>6, <3>1, StreamStays DEF Lent
  <2>. QED
    BY <1>1, <2>5, <2>6
<1>14. CASE PublishOut
  <2>1. /\ readPos' = Advance(readPos, Consumed(reader)) /\ got' = (got + Consumed(reader)) % Stamp
        /\ UNCHANGED <<buf, writePos, sent>> /\ reader.pc = "publish" /\ reader'.pc # "publish"
    BY <1>0, <1>14 DEF PublishOut, AfterOut, NoRead, writerSide, Types
  <2>2. reader.n <= Used(writePos, readPos) /\ Lent' = <<>>
    BY <1>0, <2>1 DEF Room, Lent
  <2>3. reader.kind # "skip" => Lent = Numbered(got, reader.n)
    BY <1>0, <2>1 DEF Memory, Chunk, Expected, Numbered, Lent
  <2>4. CASE reader.kind # "peek"
    <3>1. Consumed(reader) = reader.n /\ Lent \in {<<>>, Numbered(got, reader.n)}
      BY <2>3, <2>4 DEF Consumed, Lent
    <3>2. Used(writePos, Advance(readPos, reader.n)) = Used(writePos, readPos) - reader.n
      BY <1>0, <1>1, <2>2, LengthMoves
    <3>. QED
      BY <1>1, <2>1, <2>2, <3>1, <3>2, StreamShrinks
  <2>5. CASE reader.kind = "peek"
    <3>1. Consumed(reader) = 0 /\ readPos \in Count
      BY <1>0, <2>5 DEF Consumed, Types
    <3>2. readPos' = readPos
      BY <2>1, <3>1, StampIs, AdvanceIs DEF Count
    <3>3. Len(Lent) = reader.n /\ SubSeq(Under, 1, reader.n) = Lent
      BY <1>1, <2>2, <2>3, <2>5, UnderOldest, NumberedIs
    <3>4. Channel!GiveBack
      BY <2>1, <2>2, <3>2, <3>3 DEF Channel!GiveBack, Channel!Oldest, Under, Lent
    <3>. QED
      BY <3>4 DEF Channel!Next
  <2>. QED
    BY <2>4, <2>5
<1>15. CASE RingWriter
    BY <1>15, StreamStays DEF RingWriter, NoRead, writerSide, Lent
<1>16. CASE ReadTimeout
    BY <1>16, StreamStays DEF ReadTimeout, NoRead, writerSide, Lent
<1>17. CASE AwaitData
    BY <1>0, <1>17, StreamStays DEF AwaitData, Retry, Lent, Types
<1>18. CASE UNCHANGED vars
    BY <1>18, StreamStays DEF vars, Lent
<1>. QED
    BY <1>2, <1>3, <1>4, <1>5, <1>6, <1>7, <1>8, <1>9, <1>10, <1>11, <1>12, <1>13, <1>14, <1>15, <1>16,
       <1>17, <1>18 DEF Next, WriterStep, ReaderStep

\* The pipe of pipe.h: every step of the two calls, of a task or an interrupt,
\* is a step of the byte stream or none, for every capacity and every length.
THEOREM PipeImplementsStream == Spec => ImplementsStream
<1>1. Init => Channel!Init
  <2> SUFFICES ASSUME Init PROVE Channel!Init
    OBVIOUS
  <2>1. Used(writePos, readPos) = 0
    BY StampIs, UsedIs DEF Init, Count
  <2>2. Len(Under) = 0 /\ Under = Numbered(got, 0)
    BY <2>1, InitHolds, UnderIs
  <2>3. Under = <<>>
    BY <2>2 DEF Numbered
  <2>. QED
    BY <2>3 DEF Init, NoRead, Channel!Init, Under
<1>2. PInv /\ PInv' /\ [Next]_vars => [Channel!Next]_(Channel!bvars)
    BY StreamStep
<1>. QED
    BY <1>1, <1>2, PipeInvariance, PTL DEF Spec, ImplementsStream, Channel!Spec
=============================================================================
