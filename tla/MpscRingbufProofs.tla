-------------------------- MODULE MpscRingbufProofs --------------------------
(***************************************************************************)
(* Proofs about MpscRingbuf: below the wrap of the counters, every step of *)
(* mpsc_ringbuf.c is a step of the queue of MpscQueue or no step at all,   *)
(* for every number of producers, every capacity and every modulus.        *)
(***************************************************************************)
EXTENDS MpscRingbuf, TLAPS

\* The elements accepted all together stay below the wrap of the counters.
NoWrap == MaxIn + RingCap < RingMod

-----------------------------------------------------------------------------
(* The inductive invariant, part by part.                                  *)

Counters ==
    /\ wrPos = Len(order)
    /\ rdPos = Len(taken)
    /\ rdPos <= wrPos
    /\ wrPos <= rdPos + RingCap

\* A call has the element it was given.
Items == \A p \in Producers : prod[p].pc # "idle" => prod[p].item \in Data

\* A slot that holds all of v.
Whole(v) == [first |-> v, rest |-> v]

\* A snapshot of writePos is never ahead of it; one that is still current
\* when the CAS comes was compared with a readPos that can only have grown.
Snapshots ==
    \A p \in Producers :
        /\ prod[p].pos <= wrPos
        /\ prod[p].pc = "cas" /\ prod[p].pos = wrPos => wrPos < rdPos + RingCap

\* A reserved place is in the window, is its producer's alone, is not yet
\* flagged and holds what the producer has copied so far.
PlaceOf(p) == Reserved(p) =>
        /\ rdPos <= prod[p].pos
        /\ prod[p].pos < wrPos
        /\ prod[p].item = order[prod[p].pos + 1]
        /\ ~ready[SlotOf(prod[p].pos)]
        /\ prod[p].pc \in {"rest", "mark"} => slots[SlotOf(prod[p].pos)].first = prod[p].item
        /\ prod[p].pc = "mark" => slots[SlotOf(prod[p].pos)].rest = prod[p].item

Places == \A p \in Producers : PlaceOf(p)

Alone ==
    \A p, q \in Producers : Reserved(p) /\ Reserved(q) /\ prod[p].pos = prod[q].pos => p = q

\* Every place of the window is flagged and whole, or being filled, or it is
\* the head whose flag the consumer has just cleared.
WindowAt(i) ==
    \/ ready[SlotOf(i)] /\ slots[SlotOf(i)] = Whole(order[i + 1])
    \/ \E p \in Producers : Reserved(p) /\ prod[p].pos = i
    \/ cons.pc = "publish" /\ i = rdPos

Window == \A i \in rdPos .. wrPos - 1 : WindowAt(i)

\* The slots that are free to reserve carry no stale flag.
Free == \A i \in wrPos .. rdPos + RingCap - 1 : ~ready[SlotOf(i)]

Reading ==
    /\ cons.pc # "idle" => cons.pos = rdPos
    /\ cons.pc \in {"test", "copy", "rest", "clear", "publish"} => rdPos < wrPos
    /\ cons.pc \in {"copy", "rest", "clear"} => ready[SlotOf(rdPos)]
    /\ cons.pc = "rest" => cons.halves.first = order[rdPos + 1]
    /\ cons.pc \in {"clear", "publish"} =>
           cons.halves = Whole(order[rdPos + 1])
    /\ cons.pc = "publish" =>
           /\ ~ready[SlotOf(rdPos)]
           /\ \A p \in Producers : Reserved(p) => prod[p].pos # rdPos

TInv == RingTypeOK /\ Items

LInv == TInv /\ Counters /\ Snapshots /\ Places /\ Alone /\ Window /\ Free /\ Reading

-----------------------------------------------------------------------------
(* Arithmetic of the slots.                                                *)

\* A slot is an index of the buffer.
LEMMA SlotType ==
    ASSUME NEW i \in Int
    PROVE  SlotOf(i) \in SlotIds
BY MpscAssumption DEF SlotOf, SlotIds

\* A counter below its modulus is itself.
LEMMA SmallMod ==
    ASSUME NEW x \in Nat, x < RingMod
    PROVE  x % RingMod = x
BY MpscAssumption

\* The counters stay counters.
LEMMA CountMod ==
    ASSUME NEW x \in Int
    PROVE  x % RingMod \in Positions
BY MpscAssumption DEF Positions

\* Places less than a capacity apart have different slots.
LEMMA SlotsDiffer ==
    ASSUME NEW i \in Int, NEW j \in Int, i < j, j < i + RingCap
    PROVE  SlotOf(i) # SlotOf(j)
<1> SUFFICES ASSUME i % RingCap = j % RingCap PROVE FALSE
  BY DEF SlotOf
<1> DEFINE a == i \div RingCap
           b == j \div RingCap
<1>1. RingCap \in Int /\ RingCap > 0 /\ a \in Int /\ b \in Int
  BY MpscAssumption
<1>2. i = RingCap * a + (i % RingCap) /\ j = RingCap * b + (j % RingCap)
  BY <1>1
<1>3. j - i = RingCap * (b - a)
  BY <1>1, <1>2
<1> HIDE DEF a, b
<1>4. CASE b - a <= 0
  <2>1. RingCap * (b - a) <= 0
    BY <1>1, <1>4
  <2> QED BY <2>1, <1>3
<1>5. CASE b - a >= 1
  <2>1. RingCap * (b - a) >= RingCap
    BY <1>1, <1>5
  <2> QED BY <2>1, <1>3, <1>1
<1> QED BY <1>1, <1>4, <1>5

\* A place and the place a lap later share their slot.
LEMMA SlotLap ==
    ASSUME NEW i \in Int
    PROVE  SlotOf(i + RingCap) = SlotOf(i)
<1> DEFINE j == i + RingCap
           a == i \div RingCap
           b == j \div RingCap
           c == b - a - 1
<1>1. RingCap \in Int /\ RingCap > 0 /\ j \in Int /\ a \in Int /\ b \in Int /\ c \in Int
  BY MpscAssumption
<1>2. /\ i = RingCap * a + (i % RingCap) /\ j = RingCap * b + (j % RingCap)
      /\ i % RingCap \in 0 .. RingCap - 1 /\ j % RingCap \in 0 .. RingCap - 1
  BY <1>1
<1>3. (i % RingCap) - (j % RingCap) = RingCap * c
  BY <1>1, <1>2
<1> HIDE DEF a, b, c, j
<1>4. CASE c <= -1
  <2>1. RingCap * c <= -RingCap
    BY <1>1, <1>4
  <2> QED BY <2>1, <1>1, <1>2, <1>3
<1>5. CASE c = 0
  <2>1. j % RingCap = i % RingCap
    BY <1>1, <1>2, <1>3, <1>5
  <2> QED BY <2>1 DEF SlotOf, j
<1>6. CASE c >= 1
  <2>1. RingCap * c >= RingCap
    BY <1>1, <1>6
  <2> QED BY <2>1, <1>1, <1>2, <1>3
<1> QED BY <1>1, <1>4, <1>5, <1>6

\* Within the first lap, mpscrb_in finds no room exactly if Cap places are
\* taken, and a stale snapshot never passes for a full ring.
LEMMA RoomExact ==
    ASSUME NoWrap,
           NEW pos \in Nat, NEW read \in Nat, pos <= read + RingCap, read <= MaxIn
    PROVE  NoRoom(pos, read) <=> pos = read + RingCap
<1>1. CASE pos >= read
  <2>1. pos - read \in Nat /\ pos - read < RingMod
    BY <1>1, MpscAssumption
  <2> QED BY <2>1, SmallMod, <1>1, MpscAssumption DEF NoRoom
<1>2. CASE pos < read
  <2> DEFINE x == pos - read + RingMod
  <2>1. x \in Nat /\ x < RingMod /\ x > RingCap
    BY <1>2, MpscAssumption DEF NoWrap
  <2>2. (pos - read) % RingMod = x
    BY <1>2, <2>1, MpscAssumption
  <2> QED BY <2>1, <2>2, <1>2, MpscAssumption DEF NoRoom
<1> QED BY <1>1, <1>2

-----------------------------------------------------------------------------
(* Types.                                                                  *)

\* What mpscrb_in and mpscrb_out do keeps every variable in its type,
\* before and after the counters wrap.
LEMMA TypeStep ==
    ASSUME TInv, [RingNext]_ringVars
    PROVE  TInv'
<1> USE DEF TInv, RingTypeOK, Items
<1> NoCall \in [pc : {"idle", "load", "check", "cas", "copy", "rest", "mark"},
                pos : Positions, item : Any]
  BY MpscAssumption DEF NoCall, Positions, Any
<1> NoTake \in [pc : {"idle", "bound", "test", "copy", "rest", "clear", "publish"},
                pos : Positions, peek : BOOLEAN, halves : Halves]
  BY MpscAssumption DEF NoTake, Positions, Any, Halves, Unwritten
<1> \A pos \in Positions : SlotOf(pos) \in SlotIds
  BY SlotType, MpscAssumption DEF Positions
<1> \A h \in Halves : Value(h) \in Any
  BY DEF Value, Halves, Any
<1>1. ASSUME NEW p \in Producers, NEW d \in Data, In(p, d)
      PROVE  TInv'
  BY <1>1 DEF In, Any, ring, ringHistory
<1>2. ASSUME NEW p \in Producers, LoadWritePos(p)
      PROVE  TInv'
  BY <1>2 DEF LoadWritePos, ring, ringHistory
<1>3. ASSUME NEW p \in Producers, CheckRoom(p)
      PROVE  TInv'
  <2>1. CASE NoRoom(prod[p].pos, rdPos)
    <3>1. /\ prod' = [prod EXCEPT ![p] = NoCall]
          /\ outcome' = [outcome EXCEPT ![p] = "full"]
          /\ UNCHANGED <<ring, cons, ringHistory, result>>
      BY <1>3, <2>1 DEF CheckRoom
    <3> QED BY <3>1 DEF ring, ringHistory, NoCall
  <2>2. CASE ~NoRoom(prod[p].pos, rdPos)
    <3>1. /\ prod' = [prod EXCEPT ![p].pc = "cas"]
          /\ prod[p].pc = "check"
          /\ UNCHANGED <<ring, cons, ringHistory, outcome, result>>
      BY <1>3, <2>2 DEF CheckRoom
    <3> QED BY <3>1 DEF ring, ringHistory
  <2> QED BY <2>1, <2>2
<1>4. ASSUME NEW p \in Producers, Reserve(p)
      PROVE  TInv'
  <2>1. CASE wrPos = prod[p].pos
    <3>0. wrPos + 1 \in Int
      BY MpscAssumption DEF Positions
    <3>1. (wrPos + 1) % RingMod \in Positions
      BY ONLY <3>0, CountMod
    <3>2. order' \in Seq(Data) /\ Len(order') <= MaxIn
      <4>1. /\ order' = Append(order, prod[p].item) /\ Len(order) < MaxIn
            /\ prod[p].pc = "cas"
        BY <1>4, <2>1 DEF Reserve
      <4>2. order \in Seq(Data) /\ prod[p].item \in Data /\ Len(order) \in Nat /\ MaxIn \in Nat
        BY <4>1, MpscAssumption
      <4>. QED
        BY ONLY <4>1, <4>2
    <3>3. /\ prod' = [prod EXCEPT ![p].pc = "copy"]
          /\ wrPos' = (wrPos + 1) % RingMod
          /\ UNCHANGED <<rdPos, ready, slots, cons, taken, outcome, result>>
          /\ prod[p].pc = "cas"
      BY <1>4, <2>1 DEF Reserve
    <3> QED BY <3>1, <3>2, <3>3
  <2>2. CASE wrPos # prod[p].pos
    <3>1. /\ prod' = [prod EXCEPT ![p].pc = "load"]
          /\ UNCHANGED <<wrPos, order, rdPos, ready, slots, cons, taken, outcome, result>>
          /\ prod[p].pc = "cas"
      BY <1>4, <2>2 DEF Reserve
    <3> QED BY <3>1
  <2> QED BY <2>1, <2>2
<1>5. ASSUME NEW p \in Producers, FillFirst(p)
      PROVE  TInv'
  BY <1>5 DEF FillFirst, ringHistory, Halves
<1>6. ASSUME NEW p \in Producers, FillRest(p)
      PROVE  TInv'
  BY <1>6 DEF FillRest, ringHistory, Halves
<1>7. ASSUME NEW p \in Producers, MarkReady(p)
      PROVE  TInv'
  BY <1>7 DEF MarkReady, ringHistory, NoCall
<1>8. ASSUME NEW peek \in BOOLEAN, Out(peek)
      PROVE  TInv'
  BY <1>8 DEF Out, ring, ringHistory
<1>9. ASSUME CheckBound
      PROVE  TInv'
  BY <1>9 DEF CheckBound, ring, ringHistory
<1>10. ASSUME TestReady
       PROVE  TInv'
  BY <1>10 DEF TestReady, ring, ringHistory
<1>11. ASSUME TakeFirst
       PROVE  TInv'
  BY <1>11 DEF TakeFirst, ring, ringHistory, Halves
<1>12. ASSUME TakeRest
       PROVE  TInv'
  <2> [cons.halves EXCEPT !.rest = slots[SlotOf(cons.pos)].rest] \in Halves
    BY DEF Halves
  <2> QED BY <1>12 DEF TakeRest, ring, ringHistory
<1>13. ASSUME ClearReady
       PROVE  TInv'
  BY <1>13 DEF ClearReady, ringHistory
<1>14. ASSUME Publish
       PROVE  TInv'
  <2>1. cons.pos + 1 \in Int
    BY MpscAssumption DEF Positions
  <2>2. (cons.pos + 1) % RingMod \in Positions
    BY ONLY <2>1, CountMod
  <2> QED BY <1>14, <2>2 DEF Publish
<1>15. ASSUME UNCHANGED ringVars
       PROVE  TInv'
  BY <1>15 DEF ringVars
<1> QED BY <1>1, <1>2, <1>3, <1>4, <1>5, <1>6, <1>7, <1>8, <1>9, <1>10, <1>11,
           <1>12, <1>13, <1>14, <1>15 DEF RingNext, Produce, Consume

-----------------------------------------------------------------------------
(* What the two steps that move a counter do, below the wrap.              *)

\* A won CAS reserves the place of the new element.
LEMMA WonCas ==
    ASSUME NoWrap, LInv,
           NEW p \in Producers, Reserve(p), wrPos = prod[p].pos
    PROVE  /\ wrPos' = wrPos + 1
           /\ order' = Append(order, prod[p].item)
           /\ Len(order') = Len(order) + 1
           /\ Len(order') <= MaxIn
           /\ \A i \in 1 .. Len(order) : order'[i] = order[i]
           /\ order'[Len(order) + 1] = prod[p].item
           /\ prod[p].pc = "cas"
           /\ wrPos < rdPos + RingCap
           /\ prod' = [prod EXCEPT ![p].pc = "copy"]
           /\ UNCHANGED <<rdPos, ready, slots, cons, taken, outcome, result>>
<1>1. /\ order' = Append(order, prod[p].item)
      /\ Len(order) < MaxIn
      /\ wrPos' = (wrPos + 1) % RingMod
      /\ prod[p].pc = "cas"
      /\ prod' = [prod EXCEPT ![p].pc = "copy"]
      /\ UNCHANGED <<rdPos, ready, slots, cons, taken, outcome, result>>
  BY DEF Reserve
<1>2. order \in Seq(Data) /\ prod[p].item \in Data /\ MaxIn \in Nat
  BY <1>1, MpscAssumption DEF LInv, TInv, RingTypeOK, Items
<1>3. /\ Len(order') = Len(order) + 1
      /\ \A i \in 1 .. Len(order) : order'[i] = order[i]
      /\ order'[Len(order) + 1] = prod[p].item
  BY <1>1, <1>2
<1>4. Len(order) \in Nat /\ wrPos = Len(order)
  <2>1. Len(order) \in Nat
    BY <1>2
  <2>2. wrPos = Len(order)
    BY DEF LInv, Counters
  <2> QED BY <2>1, <2>2
<1>5. wrPos' = wrPos + 1
  <2>1. wrPos + 1 \in Nat /\ wrPos + 1 < RingMod
    BY <1>1, <1>2, <1>4, MpscAssumption DEF NoWrap
  <2> QED BY <1>1, <2>1, SmallMod
<1>6. wrPos < rdPos + RingCap
  BY <1>1 DEF LInv, Snapshots
<1> QED BY <1>1, <1>2, <1>3, <1>4, <1>5, <1>6

\* A publication moves readPos over the head.
LEMMA Published ==
    ASSUME NoWrap, LInv, Publish
    PROVE  /\ rdPos' = rdPos + 1
           /\ rdPos < wrPos
           /\ Len(taken') = Len(taken) + 1
           /\ cons.pos = rdPos
           /\ cons.pc = "publish"
           /\ cons' = NoTake
           /\ Value(cons.halves) = order[rdPos + 1]
           /\ taken' = Append(taken, order[rdPos + 1])
           /\ result' = order[rdPos + 1]
           /\ UNCHANGED <<wrPos, ready, slots, prod, order, outcome>>
<1>1. /\ rdPos' = (cons.pos + 1) % RingMod
      /\ cons.pc = "publish"
      /\ cons' = NoTake
      /\ taken' = Append(taken, Value(cons.halves))
      /\ result' = Value(cons.halves)
      /\ UNCHANGED <<wrPos, ready, slots, prod, order, outcome>>
  BY DEF Publish
<1>2. cons.pos = rdPos /\ rdPos < wrPos /\ cons.halves = Whole(order[rdPos + 1])
  BY <1>1 DEF LInv, Reading
<1>3. Value(cons.halves) = order[rdPos + 1]
  BY <1>2 DEF Value, Whole
<1>4. /\ taken \in Seq(Any) /\ order \in Seq(Data) /\ Len(order) <= MaxIn
      /\ wrPos = Len(order) /\ rdPos \in Nat /\ MaxIn \in Nat
  BY MpscAssumption DEF LInv, TInv, RingTypeOK, Counters, Positions
<1>5. Len(taken') = Len(taken) + 1
  <2> order[rdPos + 1] \in Any
    BY <1>2, <1>4 DEF Any
  <2> QED BY <1>1, <1>3, <1>4
<1>6. rdPos' = rdPos + 1
  BY <1>1, <1>2, <1>4, SmallMod, MpscAssumption DEF NoWrap
<1> QED BY <1>1, <1>2, <1>3, <1>5, <1>6

-----------------------------------------------------------------------------
(* Every step keeps every part.                                            *)

\* The counters count the reservations and the reads, at most Cap apart.
LEMMA CountersStep ==
    ASSUME NoWrap, LInv, TInv', [RingNext]_ringVars
    PROVE  Counters'
<1> USE DEF LInv, Counters
<1> wrPos \in Nat /\ rdPos \in Nat /\ RingCap \in Nat \ {0} /\ RingMod \in Nat /\ MaxIn \in Nat
  BY MpscAssumption DEF LInv, TInv, RingTypeOK, Positions
<1> order \in Seq(Data) /\ taken \in Seq(Any) /\ Len(order) <= MaxIn
  BY DEF LInv, TInv, RingTypeOK
<1> prod \in [Producers -> [pc : {"idle", "load", "check", "cas", "copy", "rest", "mark"},
                            pos : Nat, item : Any]]
  BY DEF LInv, TInv, RingTypeOK, Positions
<1>1. ASSUME NEW p \in Producers, NEW d \in Data, In(p, d)
      PROVE  Counters'
  BY <1>1 DEF In, ring, ringHistory
<1>2. ASSUME NEW p \in Producers, LoadWritePos(p)
      PROVE  Counters'
  BY <1>2 DEF LoadWritePos, ring, ringHistory
<1>3. ASSUME NEW p \in Producers, CheckRoom(p), NoRoom(prod[p].pos, rdPos)
      PROVE  Counters'
  BY <1>3 DEF CheckRoom, ring, ringHistory, NoCall
<1>4. ASSUME NEW p \in Producers, CheckRoom(p), ~NoRoom(prod[p].pos, rdPos)
      PROVE  Counters'
  BY <1>4 DEF CheckRoom, ring, ringHistory
<1>5. ASSUME NEW p \in Producers, Reserve(p), wrPos = prod[p].pos
      PROVE  Counters'
  BY <1>5, WonCas
<1>6. ASSUME NEW p \in Producers, Reserve(p), wrPos # prod[p].pos
      PROVE  Counters'
  BY <1>6 DEF Reserve
<1>7. ASSUME NEW p \in Producers, FillFirst(p)
      PROVE  Counters'
  BY <1>7 DEF FillFirst, ringHistory
<1>8. ASSUME NEW p \in Producers, FillRest(p)
      PROVE  Counters'
  BY <1>8 DEF FillRest, ringHistory
<1>9. ASSUME NEW p \in Producers, MarkReady(p)
      PROVE  Counters'
  BY <1>9 DEF MarkReady, ringHistory, NoCall
<1>10. ASSUME NEW peek \in BOOLEAN, Out(peek)
       PROVE  Counters'
  BY <1>10 DEF Out, ring, ringHistory
<1>11. ASSUME CheckBound
       PROVE  Counters'
  BY <1>11 DEF CheckBound, ring, ringHistory, NoTake
<1>12. ASSUME TestReady
       PROVE  Counters'
  BY <1>12 DEF TestReady, ring, ringHistory, NoTake
<1>13. ASSUME TakeFirst
       PROVE  Counters'
  BY <1>13 DEF TakeFirst, ring, ringHistory
<1>14. ASSUME TakeRest
       PROVE  Counters'
  BY <1>14 DEF TakeRest, ring, ringHistory, NoTake
<1>15. ASSUME ClearReady
       PROVE  Counters'
  BY <1>15 DEF ClearReady, ringHistory
<1>16. ASSUME Publish
       PROVE  Counters'
  BY <1>16, Published
<1>17. ASSUME UNCHANGED ringVars
       PROVE  Counters'
  BY <1>17 DEF ringVars
<1> QED BY <1>1, <1>2, <1>3, <1>4, <1>5, <1>6, <1>7, <1>8, <1>9, <1>10, <1>11,
           <1>12, <1>13, <1>14, <1>15, <1>16, <1>17
        DEF RingNext, Produce, Consume

\* No snapshot of writePos runs ahead, and a winning CAS has room.
LEMMA SnapshotsStep ==
    ASSUME NoWrap, LInv, TInv', [RingNext]_ringVars
    PROVE  Snapshots'
<1> USE DEF LInv, Snapshots, Counters
<1> wrPos \in Nat /\ rdPos \in Nat /\ RingCap \in Nat \ {0} /\ RingMod \in Nat /\ MaxIn \in Nat
  BY MpscAssumption DEF LInv, TInv, RingTypeOK, Positions
<1> order \in Seq(Data) /\ taken \in Seq(Any) /\ Len(order) <= MaxIn
  BY DEF LInv, TInv, RingTypeOK
<1> prod \in [Producers -> [pc : {"idle", "load", "check", "cas", "copy", "rest", "mark"},
                            pos : Nat, item : Any]]
  BY DEF LInv, TInv, RingTypeOK, Positions
<1>1. ASSUME NEW p \in Producers, NEW d \in Data, In(p, d)
      PROVE  Snapshots'
  BY <1>1 DEF In, ring, ringHistory
<1>2. ASSUME NEW p \in Producers, LoadWritePos(p)
      PROVE  Snapshots'
  BY <1>2 DEF LoadWritePos, ring, ringHistory
<1>3. ASSUME NEW p \in Producers, CheckRoom(p), NoRoom(prod[p].pos, rdPos)
      PROVE  Snapshots'
  <2>1. prod' = [prod EXCEPT ![p] = NoCall] /\ UNCHANGED <<wrPos, rdPos>>
    BY <1>3 DEF CheckRoom, ring
  <2> QED BY <2>1 DEF NoCall
<1>4. ASSUME NEW p \in Producers, CheckRoom(p), ~NoRoom(prod[p].pos, rdPos)
      PROVE  Snapshots'
  <2>1. prod' = [prod EXCEPT ![p].pc = "cas"] /\ UNCHANGED <<wrPos, rdPos>>
    BY <1>4 DEF CheckRoom, ring
  <2>2. prod[p].pos <= rdPos + RingCap /\ rdPos <= MaxIn
    OBVIOUS
  <2>3. prod[p].pos # rdPos + RingCap
    BY <1>4, <2>2, RoomExact
  <2> QED BY <2>1, <2>3
<1>5. ASSUME NEW p \in Producers, Reserve(p), wrPos = prod[p].pos
      PROVE  Snapshots'
  <2>1. /\ wrPos' = wrPos + 1 /\ rdPos' = rdPos
        /\ prod' = [prod EXCEPT ![p].pc = "copy"]
    BY <1>5, WonCas
  <2> QED BY <2>1
<1>6. ASSUME NEW p \in Producers, Reserve(p), wrPos # prod[p].pos
      PROVE  Snapshots'
  BY <1>6 DEF Reserve
<1>7. ASSUME NEW p \in Producers, FillFirst(p)
      PROVE  Snapshots'
  BY <1>7 DEF FillFirst, ringHistory
<1>8. ASSUME NEW p \in Producers, FillRest(p)
      PROVE  Snapshots'
  BY <1>8 DEF FillRest, ringHistory
<1>9. ASSUME NEW p \in Producers, MarkReady(p)
      PROVE  Snapshots'
  BY <1>9 DEF MarkReady, ringHistory, NoCall
<1>10. ASSUME NEW peek \in BOOLEAN, Out(peek)
       PROVE  Snapshots'
  BY <1>10 DEF Out, ring, ringHistory
<1>11. ASSUME CheckBound
       PROVE  Snapshots'
  BY <1>11 DEF CheckBound, ring, ringHistory, NoTake
<1>12. ASSUME TestReady
       PROVE  Snapshots'
  BY <1>12 DEF TestReady, ring, ringHistory, NoTake
<1>13. ASSUME TakeFirst
       PROVE  Snapshots'
  BY <1>13 DEF TakeFirst, ring, ringHistory
<1>14. ASSUME TakeRest
       PROVE  Snapshots'
  BY <1>14 DEF TakeRest, ring, ringHistory, NoTake
<1>15. ASSUME ClearReady
       PROVE  Snapshots'
  BY <1>15 DEF ClearReady, ringHistory
<1>16. ASSUME Publish
       PROVE  Snapshots'
  BY <1>16, Published
<1>17. ASSUME UNCHANGED ringVars
       PROVE  Snapshots'
  BY <1>17 DEF ringVars
<1> QED BY <1>1, <1>2, <1>3, <1>4, <1>5, <1>6, <1>7, <1>8, <1>9, <1>10, <1>11,
           <1>12, <1>13, <1>14, <1>15, <1>16, <1>17
        DEF RingNext, Produce, Consume

\* Two places of one lap have different slots.
LEMMA WindowSlots ==
    ASSUME rdPos \in Nat,
           NEW i \in rdPos .. rdPos + RingCap - 1, NEW j \in rdPos .. rdPos + RingCap - 1, i # j
    PROVE  SlotOf(i) # SlotOf(j)
<1>1. i \in Int /\ j \in Int /\ RingCap \in Nat
  BY MpscAssumption
<1>2. CASE i < j
  BY <1>1, <1>2, SlotsDiffer
<1>3. CASE j < i
  BY <1>1, <1>3, SlotsDiffer
<1> QED BY <1>1, <1>2, <1>3

\* A place that is being filled keeps what was copied, unflagged.
LEMMA PlacesStep ==
    ASSUME NoWrap, LInv, TInv', [RingNext]_ringVars
    PROVE  Places'
<1> USE DEF LInv, Places, PlaceOf, Reserved
<1> wrPos \in Nat /\ rdPos \in Nat /\ RingCap \in Nat \ {0} /\ RingMod \in Nat /\ MaxIn \in Nat
  BY MpscAssumption DEF LInv, TInv, RingTypeOK, Positions
<1> order \in Seq(Data) /\ taken \in Seq(Any) /\ Len(order) <= MaxIn
  BY DEF LInv, TInv, RingTypeOK
<1> prod \in [Producers -> [pc : {"idle", "load", "check", "cas", "copy", "rest", "mark"},
                            pos : Nat, item : Any]]
  BY DEF LInv, TInv, RingTypeOK, Positions
<1>1. ASSUME NEW p \in Producers, NEW d \in Data, In(p, d)
      PROVE  Places'
  BY <1>1 DEF In, ring, ringHistory
<1>2. ASSUME NEW p \in Producers, LoadWritePos(p)
      PROVE  Places'
  BY <1>2 DEF LoadWritePos, ring, ringHistory
<1>3. ASSUME NEW p \in Producers, CheckRoom(p), NoRoom(prod[p].pos, rdPos)
      PROVE  Places'
  <2>1. prod' = [prod EXCEPT ![p] = NoCall] /\ UNCHANGED <<ring, ringHistory>>
    BY <1>3 DEF CheckRoom
  <2> QED BY <2>1 DEF NoCall, ring, ringHistory
<1>4. ASSUME NEW p \in Producers, CheckRoom(p), ~NoRoom(prod[p].pos, rdPos)
      PROVE  Places'
  <2>1. prod' = [prod EXCEPT ![p].pc = "cas"] /\ UNCHANGED <<ring, ringHistory>>
    BY <1>4 DEF CheckRoom
  <2> QED BY <2>1 DEF ring, ringHistory
<1>5. ASSUME NEW p \in Producers, Reserve(p), wrPos = prod[p].pos
      PROVE  Places'
  <2>1. /\ wrPos' = wrPos + 1 /\ rdPos' = rdPos /\ ready' = ready /\ slots' = slots
        /\ prod' = [prod EXCEPT ![p].pc = "copy"]
        /\ \A i \in 1 .. wrPos : order'[i] = order[i]
        /\ order'[wrPos + 1] = prod[p].item
        /\ wrPos < rdPos + RingCap
    BY <1>5, WonCas DEF Counters
  <2>2. ~ready[SlotOf(wrPos)] /\ rdPos <= wrPos
    BY <2>1 DEF Free, Counters
  <2>3. ASSUME NEW q \in Producers, q # p, Reserved(q)
        PROVE  order'[prod[q].pos + 1] = order[prod[q].pos + 1]
    <3>1. prod[q].pos \in Nat /\ prod[q].pos < wrPos
      BY <2>3
    <3>2. prod[q].pos + 1 \in 1 .. wrPos
      BY <3>1
    <3> QED BY <2>1, <3>2
  <2>4. prod[p].pos = wrPos
    BY <1>5
  <2> QED BY <2>1, <2>2, <2>3, <2>4
<1>6. ASSUME NEW p \in Producers, Reserve(p), wrPos # prod[p].pos
      PROVE  Places'
  <2>1. prod' = [prod EXCEPT ![p].pc = "load"] /\ UNCHANGED <<ring, ringHistory>>
    BY <1>6 DEF Reserve, ring, ringHistory
  <2> QED BY <2>1 DEF ring, ringHistory
<1>7. ASSUME NEW p \in Producers, FillFirst(p)
      PROVE  Places'
  <2>1. /\ slots' = [slots EXCEPT ![SlotOf(prod[p].pos)].first = prod[p].item]
        /\ prod' = [prod EXCEPT ![p].pc = "rest"]
        /\ UNCHANGED <<wrPos, rdPos, ready, ringHistory>>
        /\ prod[p].pc = "copy"
    BY <1>7 DEF FillFirst
  <2>2. SlotOf(prod[p].pos) \in SlotIds /\ slots \in [SlotIds -> Halves]
    BY SlotType DEF TInv, RingTypeOK
  <2>3. ASSUME NEW q \in Producers, q # p, Reserved(q)
        PROVE  SlotOf(prod[q].pos) # SlotOf(prod[p].pos)
    BY <2>1, <2>3, WindowSlots DEF Alone, Counters
  <2>4. slots'[SlotOf(prod[p].pos)].first = prod[p].item
    BY <2>1, <2>2 DEF Halves
  <2>5. ASSUME NEW q \in Producers, q # p, Reserved(q)
        PROVE  slots'[SlotOf(prod[q].pos)] = slots[SlotOf(prod[q].pos)]
    BY <2>1, <2>2, <2>3, <2>5
  <2>6. ASSUME NEW q \in Producers, q # p
        PROVE  prod'[q] = prod[q]
    BY <2>1, <2>6
  <2>7. prod'[p] = [prod[p] EXCEPT !.pc = "rest"]
    BY <2>1
  <2>8. ASSUME NEW q \in Producers, q # p
        PROVE  PlaceOf(q)'
    <3>1. CASE Reserved(q)
      <4>1. PlaceOf(q) /\ UNCHANGED <<wrPos, rdPos, ready, order>>
        BY <2>1 DEF ringHistory
      <4>2. slots'[SlotOf(prod[q].pos)] = slots[SlotOf(prod[q].pos)] /\ prod'[q] = prod[q]
        BY <2>5, <2>6, <2>8, <3>1
      <4> QED BY <4>1, <4>2
    <3>2. CASE ~Reserved(q)
      BY <2>6, <2>8, <3>2
    <3> QED BY <3>1, <3>2
  <2>9. PlaceOf(p)'
    BY <2>1, <2>4, <2>7 DEF ringHistory
  <2> QED BY <2>8, <2>9
<1>8. ASSUME NEW p \in Producers, FillRest(p)
      PROVE  Places'
  <2>1. /\ slots' = [slots EXCEPT ![SlotOf(prod[p].pos)].rest = prod[p].item]
        /\ prod' = [prod EXCEPT ![p].pc = "mark"]
        /\ UNCHANGED <<wrPos, rdPos, ready, ringHistory>>
        /\ prod[p].pc = "rest"
    BY <1>8 DEF FillRest
  <2>2. SlotOf(prod[p].pos) \in SlotIds /\ slots \in [SlotIds -> Halves]
    BY SlotType DEF TInv, RingTypeOK
  <2>3. ASSUME NEW q \in Producers, q # p, Reserved(q)
        PROVE  SlotOf(prod[q].pos) # SlotOf(prod[p].pos)
    BY <2>1, <2>3, WindowSlots DEF Alone, Counters
  <2>4. /\ slots'[SlotOf(prod[p].pos)].rest = prod[p].item
        /\ slots'[SlotOf(prod[p].pos)].first = slots[SlotOf(prod[p].pos)].first
    BY <2>1, <2>2 DEF Halves
  <2>5. ASSUME NEW q \in Producers, q # p, Reserved(q)
        PROVE  slots'[SlotOf(prod[q].pos)] = slots[SlotOf(prod[q].pos)]
    BY <2>1, <2>2, <2>3, <2>5
  <2>6. ASSUME NEW q \in Producers, q # p
        PROVE  prod'[q] = prod[q]
    BY <2>1, <2>6
  <2>7. prod'[p] = [prod[p] EXCEPT !.pc = "mark"]
    BY <2>1
  <2>8. ASSUME NEW q \in Producers, q # p
        PROVE  PlaceOf(q)'
    <3>1. CASE Reserved(q)
      <4>1. PlaceOf(q) /\ UNCHANGED <<wrPos, rdPos, ready, order>>
        BY <2>1 DEF ringHistory
      <4>2. slots'[SlotOf(prod[q].pos)] = slots[SlotOf(prod[q].pos)] /\ prod'[q] = prod[q]
        BY <2>5, <2>6, <2>8, <3>1
      <4> QED BY <4>1, <4>2
    <3>2. CASE ~Reserved(q)
      BY <2>6, <2>8, <3>2
    <3> QED BY <3>1, <3>2
  <2>9. PlaceOf(p)'
    BY <2>1, <2>4, <2>7 DEF ringHistory
  <2> QED BY <2>8, <2>9
<1>9. ASSUME NEW p \in Producers, MarkReady(p)
      PROVE  Places'
  <2>1. /\ ready' = [ready EXCEPT ![SlotOf(prod[p].pos)] = TRUE]
        /\ prod' = [prod EXCEPT ![p] = NoCall]
        /\ UNCHANGED <<wrPos, rdPos, slots, ringHistory>>
        /\ prod[p].pc = "mark"
    BY <1>9 DEF MarkReady
  <2>2. ready \in [SlotIds -> BOOLEAN]
    BY DEF TInv, RingTypeOK
  <2>3. ASSUME NEW q \in Producers, q # p, Reserved(q)
        PROVE  SlotOf(prod[q].pos) # SlotOf(prod[p].pos)
    BY <2>1, <2>3, WindowSlots DEF Alone, Counters
  <2>4. ASSUME NEW q \in Producers, q # p, Reserved(q)
        PROVE  ready'[SlotOf(prod[q].pos)] = ready[SlotOf(prod[q].pos)]
    <3> SlotOf(prod[q].pos) # SlotOf(prod[p].pos) /\ SlotOf(prod[q].pos) \in SlotIds
      BY <2>3, <2>4, SlotType
    <3> QED BY <2>1, <2>2
  <2> QED BY <2>1, <2>4 DEF ringHistory, NoCall
<1>10. ASSUME NEW peek \in BOOLEAN, Out(peek)
       PROVE  Places'
  BY <1>10 DEF Out, ring, ringHistory
<1>11. ASSUME CheckBound
       PROVE  Places'
  BY <1>11 DEF CheckBound, ring, ringHistory, NoTake
<1>12. ASSUME TestReady
       PROVE  Places'
  BY <1>12 DEF TestReady, ring, ringHistory, NoTake
<1>13. ASSUME TakeFirst
       PROVE  Places'
  BY <1>13 DEF TakeFirst, ring, ringHistory
<1>14. ASSUME TakeRest
       PROVE  Places'
  BY <1>14 DEF TakeRest, ring, ringHistory, NoTake
<1>15. ASSUME ClearReady
       PROVE  Places'
  <2>1. /\ ready' = [ready EXCEPT ![SlotOf(cons.pos)] = FALSE]
        /\ UNCHANGED <<wrPos, rdPos, slots, prod, ringHistory>>
    BY <1>15 DEF ClearReady
  <2>2. ready \in [SlotIds -> BOOLEAN]
    BY DEF TInv, RingTypeOK
  <2>3. \A s \in SlotIds : ~ready[s] => ~ready'[s]
    BY <2>1, <2>2
  <2>4. \A q \in Producers : SlotOf(prod[q].pos) \in SlotIds
    BY SlotType
  <2> QED BY <2>1, <2>3, <2>4 DEF ringHistory
<1>16. ASSUME Publish
       PROVE  Places'
  <2>1. /\ rdPos' = rdPos + 1 /\ cons.pc = "publish"
        /\ UNCHANGED <<wrPos, ready, slots, prod, order>>
    BY <1>16, Published
  <2> QED BY <2>1 DEF Reading
<1>17. ASSUME UNCHANGED ringVars
       PROVE  Places'
  BY <1>17 DEF ringVars
<1> QED BY <1>1, <1>2, <1>3, <1>4, <1>5, <1>6, <1>7, <1>8, <1>9, <1>10, <1>11,
           <1>12, <1>13, <1>14, <1>15, <1>16, <1>17
        DEF RingNext, Produce, Consume

\* No two producers fill the same place.
LEMMA AloneStep ==
    ASSUME NoWrap, LInv, TInv', [RingNext]_ringVars
    PROVE  Alone'
<1> USE DEF LInv, Alone, Reserved
<1> wrPos \in Nat /\ rdPos \in Nat /\ RingCap \in Nat \ {0} /\ RingMod \in Nat /\ MaxIn \in Nat
  BY MpscAssumption DEF LInv, TInv, RingTypeOK, Positions
<1> order \in Seq(Data) /\ taken \in Seq(Any) /\ Len(order) <= MaxIn
  BY DEF LInv, TInv, RingTypeOK
<1> prod \in [Producers -> [pc : {"idle", "load", "check", "cas", "copy", "rest", "mark"},
                            pos : Nat, item : Any]]
  BY DEF LInv, TInv, RingTypeOK, Positions
<1>1. ASSUME NEW p \in Producers, NEW d \in Data, In(p, d)
      PROVE  Alone'
  BY <1>1 DEF In, ring, ringHistory
<1>2. ASSUME NEW p \in Producers, LoadWritePos(p)
      PROVE  Alone'
  BY <1>2 DEF LoadWritePos, ring, ringHistory
<1>3. ASSUME NEW p \in Producers, CheckRoom(p), NoRoom(prod[p].pos, rdPos)
      PROVE  Alone'
  <2>1. prod' = [prod EXCEPT ![p] = NoCall]
    BY <1>3 DEF CheckRoom
  <2> QED BY <2>1 DEF NoCall
<1>4. ASSUME NEW p \in Producers, CheckRoom(p), ~NoRoom(prod[p].pos, rdPos)
      PROVE  Alone'
  <2>1. prod' = [prod EXCEPT ![p].pc = "cas"]
    BY <1>4 DEF CheckRoom
  <2> QED BY <2>1
<1>5. ASSUME NEW p \in Producers, Reserve(p), wrPos = prod[p].pos
      PROVE  Alone'
  <2>1. prod' = [prod EXCEPT ![p].pc = "copy"] /\ prod[p].pos = wrPos
    BY <1>5, WonCas
  <2>2. \A q \in Producers : Reserved(q) => prod[q].pos < wrPos
    BY DEF Places, PlaceOf
  <2> QED BY <2>1, <2>2
<1>6. ASSUME NEW p \in Producers, Reserve(p), wrPos # prod[p].pos
      PROVE  Alone'
  <2>1. prod' = [prod EXCEPT ![p].pc = "load"]
    BY <1>6 DEF Reserve
  <2> QED BY <2>1
<1>7. ASSUME NEW p \in Producers, FillFirst(p)
      PROVE  Alone'
  BY <1>7 DEF FillFirst, ringHistory
<1>8. ASSUME NEW p \in Producers, FillRest(p)
      PROVE  Alone'
  BY <1>8 DEF FillRest, ringHistory
<1>9. ASSUME NEW p \in Producers, MarkReady(p)
      PROVE  Alone'
  BY <1>9 DEF MarkReady, ringHistory, NoCall
<1>10. ASSUME NEW peek \in BOOLEAN, Out(peek)
       PROVE  Alone'
  BY <1>10 DEF Out, ring, ringHistory
<1>11. ASSUME CheckBound
       PROVE  Alone'
  BY <1>11 DEF CheckBound, ring, ringHistory, NoTake
<1>12. ASSUME TestReady
       PROVE  Alone'
  BY <1>12 DEF TestReady, ring, ringHistory, NoTake
<1>13. ASSUME TakeFirst
       PROVE  Alone'
  BY <1>13 DEF TakeFirst, ring, ringHistory
<1>14. ASSUME TakeRest
       PROVE  Alone'
  BY <1>14 DEF TakeRest, ring, ringHistory, NoTake
<1>15. ASSUME ClearReady
       PROVE  Alone'
  BY <1>15 DEF ClearReady, ringHistory
<1>16. ASSUME Publish
       PROVE  Alone'
  BY <1>16 DEF Publish
<1>17. ASSUME UNCHANGED ringVars
       PROVE  Alone'
  BY <1>17 DEF ringVars
<1> QED BY <1>1, <1>2, <1>3, <1>4, <1>5, <1>6, <1>7, <1>8, <1>9, <1>10, <1>11,
           <1>12, <1>13, <1>14, <1>15, <1>16, <1>17
        DEF RingNext, Produce, Consume

\* A place of the window is flagged and whole, being filled, or being freed.
LEMMA WindowStep ==
    ASSUME NoWrap, LInv, TInv', [RingNext]_ringVars
    PROVE  Window'
<1> USE DEF LInv, Window, WindowAt, Reserved
<1> wrPos \in Nat /\ rdPos \in Nat /\ RingCap \in Nat \ {0} /\ RingMod \in Nat /\ MaxIn \in Nat
  BY MpscAssumption DEF LInv, TInv, RingTypeOK, Positions
<1> order \in Seq(Data) /\ taken \in Seq(Any) /\ Len(order) <= MaxIn
  BY DEF LInv, TInv, RingTypeOK
<1> prod \in [Producers -> [pc : {"idle", "load", "check", "cas", "copy", "rest", "mark"},
                            pos : Nat, item : Any]]
  BY DEF LInv, TInv, RingTypeOK, Positions
<1>1. ASSUME NEW p \in Producers, NEW d \in Data, In(p, d)
      PROVE  Window'
  <2>1. /\ prod' = [prod EXCEPT ![p].pc = "load", ![p].item = d] /\ ~Reserved(p)
        /\ UNCHANGED <<wrPos, rdPos, ready, slots, cons, order>>
    BY <1>1 DEF In, ring, ringHistory
  <2>2. \A q \in Producers : Reserved(q) => Reserved(q)' /\ prod'[q].pos = prod[q].pos
    BY <2>1
  <2>3. ASSUME NEW i \in rdPos .. wrPos - 1
        PROVE  WindowAt(i)'
    <3>1. CASE \E q \in Producers : Reserved(q) /\ prod[q].pos = i
      BY <2>2, <3>1
    <3>2. CASE ~\E q \in Producers : Reserved(q) /\ prod[q].pos = i
      BY <2>1, <3>2
    <3> QED BY <3>1, <3>2
  <2> QED BY <2>1, <2>3
<1>2. ASSUME NEW p \in Producers, LoadWritePos(p)
      PROVE  Window'
  <2>1. /\ prod' = [prod EXCEPT ![p].pc = "check", ![p].pos = wrPos] /\ ~Reserved(p)
        /\ UNCHANGED <<wrPos, rdPos, ready, slots, cons, order>>
    BY <1>2 DEF LoadWritePos, ring, ringHistory
  <2>2. \A q \in Producers : Reserved(q) => Reserved(q)' /\ prod'[q].pos = prod[q].pos
    BY <2>1
  <2>3. ASSUME NEW i \in rdPos .. wrPos - 1
        PROVE  WindowAt(i)'
    <3>1. CASE \E q \in Producers : Reserved(q) /\ prod[q].pos = i
      BY <2>2, <3>1
    <3>2. CASE ~\E q \in Producers : Reserved(q) /\ prod[q].pos = i
      BY <2>1, <3>2
    <3> QED BY <3>1, <3>2
  <2> QED BY <2>1, <2>3
<1>3. ASSUME NEW p \in Producers, CheckRoom(p), NoRoom(prod[p].pos, rdPos)
      PROVE  Window'
  <2>1. /\ prod' = [prod EXCEPT ![p] = NoCall] /\ ~Reserved(p)
        /\ UNCHANGED <<wrPos, rdPos, ready, slots, cons, order>>
    BY <1>3 DEF CheckRoom, ring, ringHistory
  <2>2. \A q \in Producers : Reserved(q) => Reserved(q)' /\ prod'[q].pos = prod[q].pos
    BY <2>1
  <2>3. ASSUME NEW i \in rdPos .. wrPos - 1
        PROVE  WindowAt(i)'
    <3>1. CASE \E q \in Producers : Reserved(q) /\ prod[q].pos = i
      BY <2>2, <3>1
    <3>2. CASE ~\E q \in Producers : Reserved(q) /\ prod[q].pos = i
      BY <2>1, <3>2
    <3> QED BY <3>1, <3>2
  <2> QED BY <2>1, <2>3
<1>4. ASSUME NEW p \in Producers, CheckRoom(p), ~NoRoom(prod[p].pos, rdPos)
      PROVE  Window'
  <2>1. /\ prod' = [prod EXCEPT ![p].pc = "cas"] /\ ~Reserved(p)
        /\ UNCHANGED <<wrPos, rdPos, ready, slots, cons, order>>
    BY <1>4 DEF CheckRoom, ring, ringHistory
  <2>2. \A q \in Producers : Reserved(q) => Reserved(q)' /\ prod'[q].pos = prod[q].pos
    BY <2>1
  <2>3. ASSUME NEW i \in rdPos .. wrPos - 1
        PROVE  WindowAt(i)'
    <3>1. CASE \E q \in Producers : Reserved(q) /\ prod[q].pos = i
      BY <2>2, <3>1
    <3>2. CASE ~\E q \in Producers : Reserved(q) /\ prod[q].pos = i
      BY <2>1, <3>2
    <3> QED BY <3>1, <3>2
  <2> QED BY <2>1, <2>3
<1>5. ASSUME NEW p \in Producers, Reserve(p), wrPos = prod[p].pos
      PROVE  Window'
  <2>1. /\ wrPos' = wrPos + 1 /\ rdPos' = rdPos /\ ready' = ready /\ slots' = slots
        /\ cons' = cons
        /\ prod' = [prod EXCEPT ![p].pc = "copy"] /\ prod[p].pc = "cas"
        /\ \A i \in 1 .. wrPos : order'[i] = order[i]
    BY <1>5, WonCas DEF Counters
  <2>2. \A q \in Producers : Reserved(q) => Reserved(q)' /\ prod'[q].pos = prod[q].pos
    BY <2>1
  <2>3. Reserved(p)' /\ prod'[p].pos = wrPos
    BY <2>1, <1>5
  <2>4. ASSUME NEW i \in rdPos .. wrPos
        PROVE  WindowAt(i)'
    <3>1. CASE i = wrPos
      BY <2>3, <3>1
    <3>2. CASE i < wrPos
      <4> i \in rdPos .. wrPos - 1 /\ i + 1 \in 1 .. wrPos
        BY <3>2
      <4>1. CASE ready[SlotOf(i)] /\ slots[SlotOf(i)] = Whole(order[i + 1])
        BY <2>1, <4>1
      <4>2. CASE \E q \in Producers : Reserved(q) /\ prod[q].pos = i
        BY <2>2, <4>2
      <4>3. CASE cons.pc = "publish" /\ i = rdPos
        BY <2>1, <4>3
      <4> QED BY <4>1, <4>2, <4>3
    <3> QED BY <3>1, <3>2
  <2> QED BY <2>1, <2>4
<1>6. ASSUME NEW p \in Producers, Reserve(p), wrPos # prod[p].pos
      PROVE  Window'
  <2>1. /\ prod' = [prod EXCEPT ![p].pc = "load"] /\ ~Reserved(p)
        /\ UNCHANGED <<wrPos, rdPos, ready, slots, cons, order>>
    BY <1>6 DEF Reserve, ring, ringHistory
  <2>2. \A q \in Producers : Reserved(q) => Reserved(q)' /\ prod'[q].pos = prod[q].pos
    BY <2>1
  <2>3. ASSUME NEW i \in rdPos .. wrPos - 1
        PROVE  WindowAt(i)'
    <3>1. CASE \E q \in Producers : Reserved(q) /\ prod[q].pos = i
      BY <2>2, <3>1
    <3>2. CASE ~\E q \in Producers : Reserved(q) /\ prod[q].pos = i
      BY <2>1, <3>2
    <3> QED BY <3>1, <3>2
  <2> QED BY <2>1, <2>3
<1>7. ASSUME NEW p \in Producers, FillFirst(p)
      PROVE  Window'
  <2>1. /\ slots' = [slots EXCEPT ![SlotOf(prod[p].pos)].first = prod[p].item]
        /\ prod' = [prod EXCEPT ![p].pc = "rest"]
        /\ UNCHANGED <<wrPos, rdPos, ready, cons, ringHistory>>
        /\ prod[p].pc = "copy"
    BY <1>7 DEF FillFirst
  <2>2. ~ready[SlotOf(prod[p].pos)]
    BY <2>1 DEF Places, PlaceOf
  <2>3. slots \in [SlotIds -> Halves]
    BY DEF TInv, RingTypeOK
  <2>4. ASSUME NEW i \in rdPos .. wrPos - 1, ready[SlotOf(i)]
        PROVE  slots'[SlotOf(i)] = slots[SlotOf(i)]
    <3> SlotOf(i) # SlotOf(prod[p].pos) /\ SlotOf(i) \in SlotIds
      BY <2>2, <2>4, SlotType
    <3> QED BY <2>1, <2>3
  <2>5. \A q \in Producers : Reserved(q) => Reserved(q)' /\ prod'[q].pos = prod[q].pos
    BY <2>1
  <2>6. ASSUME NEW i \in rdPos .. wrPos - 1
        PROVE  WindowAt(i)'
    <3>1. CASE ready[SlotOf(i)] /\ slots[SlotOf(i)] = Whole(order[i + 1])
      BY <2>1, <2>4, <3>1 DEF ringHistory
    <3>2. CASE \E q \in Producers : Reserved(q) /\ prod[q].pos = i
      BY <2>5, <3>2
    <3>3. CASE cons.pc = "publish" /\ i = rdPos
      BY <2>1, <3>3
    <3> QED BY <3>1, <3>2, <3>3
  <2> QED BY <2>1, <2>6
<1>8. ASSUME NEW p \in Producers, FillRest(p)
      PROVE  Window'
  <2>1. /\ slots' = [slots EXCEPT ![SlotOf(prod[p].pos)].rest = prod[p].item]
        /\ prod' = [prod EXCEPT ![p].pc = "mark"]
        /\ UNCHANGED <<wrPos, rdPos, ready, cons, ringHistory>>
        /\ prod[p].pc = "rest"
    BY <1>8 DEF FillRest
  <2>2. ~ready[SlotOf(prod[p].pos)]
    BY <2>1 DEF Places, PlaceOf
  <2>3. slots \in [SlotIds -> Halves]
    BY DEF TInv, RingTypeOK
  <2>4. ASSUME NEW i \in rdPos .. wrPos - 1, ready[SlotOf(i)]
        PROVE  slots'[SlotOf(i)] = slots[SlotOf(i)]
    <3> SlotOf(i) # SlotOf(prod[p].pos) /\ SlotOf(i) \in SlotIds
      BY <2>2, <2>4, SlotType
    <3> QED BY <2>1, <2>3
  <2>5. \A q \in Producers : Reserved(q) => Reserved(q)' /\ prod'[q].pos = prod[q].pos
    BY <2>1
  <2>6. ASSUME NEW i \in rdPos .. wrPos - 1
        PROVE  WindowAt(i)'
    <3>1. CASE ready[SlotOf(i)] /\ slots[SlotOf(i)] = Whole(order[i + 1])
      BY <2>1, <2>4, <3>1 DEF ringHistory
    <3>2. CASE \E q \in Producers : Reserved(q) /\ prod[q].pos = i
      BY <2>5, <3>2
    <3>3. CASE cons.pc = "publish" /\ i = rdPos
      BY <2>1, <3>3
    <3> QED BY <3>1, <3>2, <3>3
  <2> QED BY <2>1, <2>6
<1>9. ASSUME NEW p \in Producers, MarkReady(p)
      PROVE  Window'
  <2>1. /\ ready' = [ready EXCEPT ![SlotOf(prod[p].pos)] = TRUE]
        /\ prod' = [prod EXCEPT ![p] = NoCall]
        /\ UNCHANGED <<wrPos, rdPos, slots, cons, ringHistory>>
        /\ prod[p].pc = "mark"
    BY <1>9 DEF MarkReady
  <2>2. ready \in [SlotIds -> BOOLEAN] /\ \A i \in Nat : SlotOf(i) \in SlotIds
    BY SlotType DEF TInv, RingTypeOK
  <2>3. slots[SlotOf(prod[p].pos)] = Whole(order[prod[p].pos + 1])
    <3>1. slots[SlotOf(prod[p].pos)] \in Halves
      BY <2>2 DEF TInv, RingTypeOK
    <3>2. /\ slots[SlotOf(prod[p].pos)].first = order[prod[p].pos + 1]
          /\ slots[SlotOf(prod[p].pos)].rest = order[prod[p].pos + 1]
      BY <2>1 DEF Places, PlaceOf
    <3> QED BY <3>1, <3>2 DEF Halves, Whole
  <2>4. \A i \in Nat : ready[SlotOf(i)] => ready'[SlotOf(i)]
    BY <2>1, <2>2
  <2>5. ready'[SlotOf(prod[p].pos)]
    BY <2>1, <2>2
  <2>6. \A q \in Producers : q # p => prod'[q] = prod[q]
    BY <2>1
  <2>7. ASSUME NEW i \in rdPos .. wrPos - 1
        PROVE  WindowAt(i)'
    <3>0. i \in Nat
      OBVIOUS
    <3>1. CASE ready[SlotOf(i)] /\ slots[SlotOf(i)] = Whole(order[i + 1])
      BY <2>1, <2>4, <3>0, <3>1 DEF ringHistory
    <3>2. CASE \E q \in Producers : Reserved(q) /\ prod[q].pos = i
      <4>1. CASE prod[p].pos = i
        BY <2>1, <2>3, <2>5, <4>1 DEF ringHistory
      <4>2. CASE prod[p].pos # i
        BY <2>6, <3>2, <4>2
      <4> QED BY <4>1, <4>2
    <3>3. CASE cons.pc = "publish" /\ i = rdPos
      BY <2>1, <3>3
    <3> QED BY <3>1, <3>2, <3>3
  <2> QED BY <2>1, <2>7
<1>10. ASSUME NEW peek \in BOOLEAN, Out(peek)
       PROVE  Window'
  <2>1. cons.pc # "publish" /\ UNCHANGED <<ring, prod, ringHistory>>
    BY <1>10 DEF Out
  <2> QED BY <2>1 DEF ring, ringHistory
<1>11. ASSUME CheckBound
       PROVE  Window'
  <2>1. cons.pc # "publish" /\ UNCHANGED <<ring, prod, ringHistory>>
    BY <1>11 DEF CheckBound
  <2> QED BY <2>1 DEF ring, ringHistory
<1>12. ASSUME TestReady
       PROVE  Window'
  <2>1. cons.pc # "publish" /\ UNCHANGED <<ring, prod, ringHistory>>
    BY <1>12 DEF TestReady
  <2> QED BY <2>1 DEF ring, ringHistory
<1>13. ASSUME TakeFirst
       PROVE  Window'
  <2>1. cons.pc # "publish" /\ UNCHANGED <<ring, prod, ringHistory>>
    BY <1>13 DEF TakeFirst
  <2> QED BY <2>1 DEF ring, ringHistory
<1>14. ASSUME TakeRest
       PROVE  Window'
  <2>1. cons.pc # "publish" /\ UNCHANGED <<ring, prod, ringHistory>>
    BY <1>14 DEF TakeRest
  <2> QED BY <2>1 DEF ring, ringHistory
<1>15. ASSUME ClearReady
       PROVE  Window'
  <2>1. /\ ready' = [ready EXCEPT ![SlotOf(rdPos)] = FALSE]
        /\ cons' = [cons EXCEPT !.pc = "publish"]
        /\ UNCHANGED <<wrPos, rdPos, slots, prod, ringHistory>>
    BY <1>15 DEF ClearReady, Reading
  <2>2. ready \in [SlotIds -> BOOLEAN] /\ cons'.pc = "publish"
    BY <2>1 DEF TInv, RingTypeOK
  <2>3. ASSUME NEW i \in rdPos .. wrPos - 1, i # rdPos
        PROVE  WindowAt(i)'
    <3>1. SlotOf(i) # SlotOf(rdPos) /\ SlotOf(i) \in SlotIds
      BY <2>3, WindowSlots, SlotType DEF Counters
    <3>2. ready'[SlotOf(i)] = ready[SlotOf(i)]
      BY <2>1, <2>2, <3>1
    <3>3. WindowAt(i)
      OBVIOUS
    <3> QED BY <2>1, <2>3, <3>2, <3>3 DEF ringHistory
  <2> QED BY <2>1, <2>2, <2>3
<1>16. ASSUME Publish
       PROVE  Window'
  <2>1. /\ rdPos' = rdPos + 1
        /\ UNCHANGED <<wrPos, ready, slots, prod, order>>
    BY <1>16, Published
  <2> QED BY <2>1
<1>17. ASSUME UNCHANGED ringVars
       PROVE  Window'
  BY <1>17 DEF ringVars
<1> QED BY <1>1, <1>2, <1>3, <1>4, <1>5, <1>6, <1>7, <1>8, <1>9, <1>10, <1>11,
           <1>12, <1>13, <1>14, <1>15, <1>16, <1>17
        DEF RingNext, Produce, Consume

\* The slots outside the window carry no flag.
LEMMA FreeStep ==
    ASSUME NoWrap, LInv, TInv', [RingNext]_ringVars
    PROVE  Free'
<1> USE DEF LInv, Free
<1> wrPos \in Nat /\ rdPos \in Nat /\ RingCap \in Nat \ {0} /\ RingMod \in Nat /\ MaxIn \in Nat
  BY MpscAssumption DEF LInv, TInv, RingTypeOK, Positions
<1> order \in Seq(Data) /\ taken \in Seq(Any) /\ Len(order) <= MaxIn
  BY DEF LInv, TInv, RingTypeOK
<1> prod \in [Producers -> [pc : {"idle", "load", "check", "cas", "copy", "rest", "mark"},
                            pos : Nat, item : Any]]
  BY DEF LInv, TInv, RingTypeOK, Positions
<1>1. ASSUME NEW p \in Producers, NEW d \in Data, In(p, d)
      PROVE  Free'
  BY <1>1 DEF In, ring, ringHistory
<1>2. ASSUME NEW p \in Producers, LoadWritePos(p)
      PROVE  Free'
  BY <1>2 DEF LoadWritePos, ring, ringHistory
<1>3. ASSUME NEW p \in Producers, CheckRoom(p), NoRoom(prod[p].pos, rdPos)
      PROVE  Free'
  BY <1>3 DEF CheckRoom, ring
<1>4. ASSUME NEW p \in Producers, CheckRoom(p), ~NoRoom(prod[p].pos, rdPos)
      PROVE  Free'
  BY <1>4 DEF CheckRoom, ring
<1>5. ASSUME NEW p \in Producers, Reserve(p), wrPos = prod[p].pos
      PROVE  Free'
  BY <1>5, WonCas
<1>6. ASSUME NEW p \in Producers, Reserve(p), wrPos # prod[p].pos
      PROVE  Free'
  BY <1>6 DEF Reserve
<1>7. ASSUME NEW p \in Producers, FillFirst(p)
      PROVE  Free'
  BY <1>7 DEF FillFirst, ringHistory
<1>8. ASSUME NEW p \in Producers, FillRest(p)
      PROVE  Free'
  BY <1>8 DEF FillRest, ringHistory
<1>9. ASSUME NEW p \in Producers, MarkReady(p)
      PROVE  Free'
  <2>1. /\ ready' = [ready EXCEPT ![SlotOf(prod[p].pos)] = TRUE]
        /\ UNCHANGED <<wrPos, rdPos>>
        /\ rdPos <= prod[p].pos /\ prod[p].pos < wrPos
    BY <1>9 DEF MarkReady, Places, PlaceOf, Reserved
  <2>2. ready \in [SlotIds -> BOOLEAN]
    BY DEF TInv, RingTypeOK
  <2>3. ASSUME NEW i \in wrPos .. rdPos + RingCap - 1
        PROVE  ~ready'[SlotOf(i)]
    <3>1. SlotOf(i) # SlotOf(prod[p].pos) /\ SlotOf(i) \in SlotIds
      BY <2>1, WindowSlots, SlotType DEF Counters
    <3> QED BY <2>1, <2>2, <3>1
  <2> QED BY <2>1, <2>3
<1>10. ASSUME NEW peek \in BOOLEAN, Out(peek)
       PROVE  Free'
  BY <1>10 DEF Out, ring, ringHistory
<1>11. ASSUME CheckBound
       PROVE  Free'
  BY <1>11 DEF CheckBound, ring, ringHistory, NoTake
<1>12. ASSUME TestReady
       PROVE  Free'
  BY <1>12 DEF TestReady, ring, ringHistory, NoTake
<1>13. ASSUME TakeFirst
       PROVE  Free'
  BY <1>13 DEF TakeFirst, ring, ringHistory
<1>14. ASSUME TakeRest
       PROVE  Free'
  BY <1>14 DEF TakeRest, ring, ringHistory, NoTake
<1>15. ASSUME ClearReady
       PROVE  Free'
  <2>1. ready' = [ready EXCEPT ![SlotOf(cons.pos)] = FALSE] /\ UNCHANGED <<wrPos, rdPos>>
    BY <1>15 DEF ClearReady
  <2>2. ready \in [SlotIds -> BOOLEAN]
    BY DEF TInv, RingTypeOK
  <2>3. \A s \in SlotIds : ~ready[s] => ~ready'[s]
    BY <2>1, <2>2
  <2>4. \A i \in Int : SlotOf(i) \in SlotIds
    BY SlotType
  <2> QED BY <2>1, <2>3, <2>4
<1>16. ASSUME Publish
       PROVE  Free'
  <2>1. rdPos' = rdPos + 1 /\ UNCHANGED <<wrPos, ready>> /\ cons.pc = "publish"
    BY <1>16, Published
  <2>2. ~ready[SlotOf(rdPos + RingCap)]
    <3>1. ~ready[SlotOf(rdPos)]
      BY <2>1 DEF Reading
    <3>2. SlotOf(rdPos + RingCap) = SlotOf(rdPos)
      BY SlotLap
    <3> QED BY <3>1, <3>2
  <2>3. ASSUME NEW i \in wrPos .. rdPos + RingCap
        PROVE  ~ready[SlotOf(i)]
    <3>1. CASE i = rdPos + RingCap
      BY <2>2, <3>1
    <3>2. CASE i # rdPos + RingCap
      BY <3>2
    <3> QED BY <3>1, <3>2
  <2> QED BY <2>1, <2>3
<1>17. ASSUME UNCHANGED ringVars
       PROVE  Free'
  BY <1>17 DEF ringVars
<1> QED BY <1>1, <1>2, <1>3, <1>4, <1>5, <1>6, <1>7, <1>8, <1>9, <1>10, <1>11,
           <1>12, <1>13, <1>14, <1>15, <1>16, <1>17
        DEF RingNext, Produce, Consume

\* What the consumer is reading is whole and stays until it moves on.
LEMMA ReadingStep ==
    ASSUME NoWrap, LInv, TInv', [RingNext]_ringVars
    PROVE  Reading'
<1> USE DEF LInv, Reading, Reserved
<1> wrPos \in Nat /\ rdPos \in Nat /\ RingCap \in Nat \ {0} /\ RingMod \in Nat /\ MaxIn \in Nat
  BY MpscAssumption DEF LInv, TInv, RingTypeOK, Positions
<1> order \in Seq(Data) /\ taken \in Seq(Any) /\ Len(order) <= MaxIn
  BY DEF LInv, TInv, RingTypeOK
<1> prod \in [Producers -> [pc : {"idle", "load", "check", "cas", "copy", "rest", "mark"},
                            pos : Nat, item : Any]]
  BY DEF LInv, TInv, RingTypeOK, Positions
  <1> cons \in [pc : {"idle", "bound", "test", "copy", "rest", "clear", "publish"},
             pos : Positions, peek : BOOLEAN, halves : Halves]
  BY DEF TInv, RingTypeOK
<1>1. ASSUME NEW p \in Producers, NEW d \in Data, In(p, d)
      PROVE  Reading'
  <2>1. /\ prod' = [prod EXCEPT ![p].pc = "load", ![p].item = d] /\ ~Reserved(p)
        /\ UNCHANGED <<wrPos, rdPos, ready, slots, cons, order>>
    BY <1>1 DEF In, ring, ringHistory
  <2>2. \A q \in Producers : Reserved(q)' => Reserved(q) /\ prod'[q].pos = prod[q].pos
    BY <2>1
  <2> QED BY <2>1, <2>2
<1>2. ASSUME NEW p \in Producers, LoadWritePos(p)
      PROVE  Reading'
  <2>1. /\ prod' = [prod EXCEPT ![p].pc = "check", ![p].pos = wrPos] /\ ~Reserved(p)
        /\ UNCHANGED <<wrPos, rdPos, ready, slots, cons, order>>
    BY <1>2 DEF LoadWritePos, ring, ringHistory
  <2>2. \A q \in Producers : Reserved(q)' => Reserved(q) /\ prod'[q].pos = prod[q].pos
    BY <2>1
  <2> QED BY <2>1, <2>2
<1>3. ASSUME NEW p \in Producers, CheckRoom(p), NoRoom(prod[p].pos, rdPos)
      PROVE  Reading'
  <2>1. /\ prod' = [prod EXCEPT ![p] = NoCall] /\ ~Reserved(p)
        /\ UNCHANGED <<wrPos, rdPos, ready, slots, cons, order>>
    BY <1>3 DEF CheckRoom, ring, ringHistory
  <2>2. \A q \in Producers : Reserved(q)' => Reserved(q) /\ prod'[q].pos = prod[q].pos
    BY <2>1 DEF NoCall
  <2> QED BY <2>1, <2>2
<1>4. ASSUME NEW p \in Producers, CheckRoom(p), ~NoRoom(prod[p].pos, rdPos)
      PROVE  Reading'
  <2>1. /\ prod' = [prod EXCEPT ![p].pc = "cas"] /\ ~Reserved(p)
        /\ UNCHANGED <<wrPos, rdPos, ready, slots, cons, order>>
    BY <1>4 DEF CheckRoom, ring, ringHistory
  <2>2. \A q \in Producers : Reserved(q)' => Reserved(q) /\ prod'[q].pos = prod[q].pos
    BY <2>1
  <2> QED BY <2>1, <2>2
<1>5. ASSUME NEW p \in Producers, Reserve(p), wrPos = prod[p].pos
      PROVE  Reading'
  <2>1. /\ wrPos' = wrPos + 1 /\ rdPos' = rdPos /\ ready' = ready /\ cons' = cons
        /\ prod' = [prod EXCEPT ![p].pc = "copy"]
        /\ \A i \in 1 .. wrPos : order'[i] = order[i]
    BY <1>5, WonCas DEF Counters
  <2>2. rdPos < wrPos => order'[rdPos + 1] = order[rdPos + 1]
    <3> SUFFICES ASSUME rdPos < wrPos PROVE order'[rdPos + 1] = order[rdPos + 1]
      OBVIOUS
    <3>1. rdPos + 1 \in 1 .. wrPos
      OBVIOUS
    <3> QED BY <2>1, <3>1
  <2>3. \A q \in Producers : q # p => prod'[q] = prod[q]
    BY <2>1
  <2>4. prod'[p].pos = wrPos
    BY <2>1, <1>5
  <2>5. rdPos < wrPos /\ (\A q \in Producers : Reserved(q) => prod[q].pos # rdPos)
           => (\A q \in Producers : Reserved(q)' => prod'[q].pos # rdPos)
    BY <2>3, <2>4
  <2> QED BY <2>1, <2>2, <2>5
<1>6. ASSUME NEW p \in Producers, Reserve(p), wrPos # prod[p].pos
      PROVE  Reading'
  <2>1. /\ prod' = [prod EXCEPT ![p].pc = "load"] /\ ~Reserved(p)
        /\ UNCHANGED <<wrPos, rdPos, ready, slots, cons, order>>
    BY <1>6 DEF Reserve, ring, ringHistory
  <2>2. \A q \in Producers : Reserved(q)' => Reserved(q) /\ prod'[q].pos = prod[q].pos
    BY <2>1
  <2> QED BY <2>1, <2>2
<1>7. ASSUME NEW p \in Producers, FillFirst(p)
      PROVE  Reading'
  <2>1. /\ prod' = [prod EXCEPT ![p].pc = "rest"] /\ Reserved(p)
        /\ UNCHANGED <<wrPos, rdPos, ready, cons, order>>
    BY <1>7 DEF FillFirst, ringHistory
  <2>2. \A q \in Producers : Reserved(q)' => Reserved(q) /\ prod'[q].pos = prod[q].pos
    BY <2>1
  <2> QED BY <2>1, <2>2
<1>8. ASSUME NEW p \in Producers, FillRest(p)
      PROVE  Reading'
  <2>1. /\ prod' = [prod EXCEPT ![p].pc = "mark"] /\ Reserved(p)
        /\ UNCHANGED <<wrPos, rdPos, ready, cons, order>>
    BY <1>8 DEF FillRest, ringHistory
  <2>2. \A q \in Producers : Reserved(q)' => Reserved(q) /\ prod'[q].pos = prod[q].pos
    BY <2>1
  <2> QED BY <2>1, <2>2
<1>9. ASSUME NEW p \in Producers, MarkReady(p)
      PROVE  Reading'
  <2>1. /\ ready' = [ready EXCEPT ![SlotOf(prod[p].pos)] = TRUE]
        /\ prod' = [prod EXCEPT ![p] = NoCall] /\ Reserved(p)
        /\ UNCHANGED <<wrPos, rdPos, cons, order>>
    BY <1>9 DEF MarkReady, ringHistory
  <2>2. \A q \in Producers : Reserved(q)' => Reserved(q) /\ prod'[q].pos = prod[q].pos
    BY <2>1 DEF NoCall
  <2>3. /\ ready \in [SlotIds -> BOOLEAN]
        /\ SlotOf(rdPos) \in SlotIds /\ SlotOf(prod[p].pos) \in SlotIds
    BY SlotType DEF TInv, RingTypeOK
  <2>4. ready[SlotOf(rdPos)] => ready'[SlotOf(rdPos)]
    BY <2>1, <2>3
  <2>5. cons.pc = "publish" => ready'[SlotOf(rdPos)] = ready[SlotOf(rdPos)]
    <3> SUFFICES ASSUME cons.pc = "publish" PROVE SlotOf(rdPos) # SlotOf(prod[p].pos)
      BY <2>1, <2>3
    <3>1. /\ prod[p].pos # rdPos
          /\ prod[p].pos \in rdPos .. rdPos + RingCap - 1
      BY <2>1 DEF Places, PlaceOf, Counters
    <3> QED BY <3>1, WindowSlots
  <2> QED BY <2>1, <2>2, <2>4, <2>5
<1>10. ASSUME NEW peek \in BOOLEAN, Out(peek)
       PROVE  Reading'
  <2> USE <1>10
  <2>0. /\ UNCHANGED <<wrPos, rdPos, ready, slots, prod, order>>
    BY DEF Out, ring, ringHistory
  <2>1. cons' = [cons EXCEPT !.pc = "bound", !.pos = rdPos, !.peek = peek]
    BY DEF Out
  <2> QED BY <2>0, <2>1
<1>11. ASSUME CheckBound
       PROVE  Reading'
  <2> USE <1>11
  <2>0. /\ UNCHANGED <<wrPos, rdPos, ready, slots, prod, order>>
    BY DEF CheckBound, ring, ringHistory
  <2>1. CASE SeemsEmpty(cons.pos)
    <3>1. cons' = NoTake
      BY <2>1 DEF CheckBound
    <3> QED BY <3>1, <2>0 DEF NoTake
  <2>2. CASE ~SeemsEmpty(cons.pos)
    <3>1. cons' = [cons EXCEPT !.pc = "test"] /\ cons.pos = rdPos
      BY <2>2 DEF CheckBound
    <3>2. rdPos < wrPos
      BY <2>2, <3>1 DEF SeemsEmpty
    <3> QED BY <3>1, <3>2, <2>0
  <2> QED BY <2>1, <2>2
<1>12. ASSUME TestReady
       PROVE  Reading'
  <2> USE <1>12
  <2>0. /\ UNCHANGED <<wrPos, rdPos, ready, slots, prod, order>>
    BY DEF TestReady, ring, ringHistory
  <2>1. CASE ready[SlotOf(cons.pos)]
    <3>1. cons' = [cons EXCEPT !.pc = "copy"] /\ cons.pos = rdPos /\ cons.pc = "test"
      BY <2>1 DEF TestReady
    <3> QED BY <3>1, <2>1, <2>0
  <2>2. CASE ~ready[SlotOf(cons.pos)]
    <3>1. cons' = NoTake
      BY <2>2 DEF TestReady
    <3> QED BY <3>1, <2>0 DEF NoTake
  <2> QED BY <2>1, <2>2
<1>13. ASSUME TakeFirst
       PROVE  Reading'
  <2> USE <1>13
  <2>0. /\ UNCHANGED <<wrPos, rdPos, ready, slots, prod, order>>
    BY DEF TakeFirst, ring, ringHistory
  <2>1. slots[SlotOf(rdPos)] = Whole(order[rdPos + 1])
    <3>1. rdPos \in rdPos .. wrPos - 1 /\ ready[SlotOf(rdPos)] /\ cons.pc # "publish"
      BY <1>13 DEF TakeFirst
    <3>2. \A q \in Producers : Reserved(q) => prod[q].pos # rdPos
      BY <3>1 DEF Places, PlaceOf
    <3> QED BY <3>1, <3>2 DEF Window, WindowAt
  <2>2. /\ cons.pc = "copy" /\ cons.pos = rdPos
        /\ cons' = [cons EXCEPT !.pc = "rest", !.halves.first = slots[SlotOf(cons.pos)].first]
    BY DEF TakeFirst
  <2>3. cons'.halves.first = order[rdPos + 1]
    BY <2>1, <2>2 DEF Whole, Halves
  <2> QED BY <2>0, <2>2, <2>3
<1>14. ASSUME TakeRest
       PROVE  Reading'
  <2> USE <1>14
  <2>0. /\ UNCHANGED <<wrPos, rdPos, ready, slots, prod, order>>
    BY DEF TakeRest, ring, ringHistory
  <2>1. slots[SlotOf(rdPos)] = Whole(order[rdPos + 1])
    <3>1. rdPos \in rdPos .. wrPos - 1 /\ ready[SlotOf(rdPos)] /\ cons.pc # "publish"
      BY <1>14 DEF TakeRest
    <3>2. \A q \in Producers : Reserved(q) => prod[q].pos # rdPos
      BY <3>1 DEF Places, PlaceOf
    <3> QED BY <3>1, <3>2 DEF Window, WindowAt
  <2> DEFINE halves == [cons.halves EXCEPT !.rest = slots[SlotOf(cons.pos)].rest]
  <2>2. cons.pc = "rest" /\ cons.pos = rdPos
    BY DEF TakeRest
  <2>3. halves = Whole(order[rdPos + 1])
    BY <2>1, <2>2 DEF Whole, Halves
  <2>4. CASE cons.peek
    <3>1. cons' = NoTake
      BY <2>4 DEF TakeRest
    <3> QED BY <3>1, <2>0 DEF NoTake
  <2>5. CASE ~cons.peek
    <3>1. cons' = [cons EXCEPT !.pc = "clear", !.halves = halves]
      BY <2>5 DEF TakeRest
    <3>2. cons'.pc = "clear" /\ cons'.pos = rdPos /\ cons'.halves = Whole(order[rdPos + 1])
      BY <3>1, <2>2, <2>3
    <3> QED BY <3>2, <2>0, <2>2
  <2> QED BY <2>4, <2>5
<1>15. ASSUME ClearReady
       PROVE  Reading'
  <2>1. /\ ready' = [ready EXCEPT ![SlotOf(rdPos)] = FALSE]
        /\ cons' = [cons EXCEPT !.pc = "publish"] /\ cons.pc = "clear"
        /\ UNCHANGED <<wrPos, rdPos, slots, prod, order>>
    BY <1>15 DEF ClearReady, ringHistory
  <2>2. ready \in [SlotIds -> BOOLEAN] /\ SlotOf(rdPos) \in SlotIds
    BY SlotType DEF TInv, RingTypeOK
  <2>3. ~ready'[SlotOf(rdPos)]
    BY <2>1, <2>2
  <2>4. \A q \in Producers : Reserved(q) => prod[q].pos # rdPos
    BY <2>1 DEF Places, PlaceOf
  <2> QED BY <2>1, <2>3, <2>4
<1>16. ASSUME Publish
       PROVE  Reading'
  <2>1. cons' = NoTake
    BY <1>16, Published
  <2> QED BY <2>1 DEF NoTake
<1>17. ASSUME UNCHANGED ringVars
       PROVE  Reading'
  BY <1>17 DEF ringVars
<1> QED BY <1>1, <1>2, <1>3, <1>4, <1>5, <1>6, <1>7, <1>8, <1>9, <1>10, <1>11,
           <1>12, <1>13, <1>14, <1>15, <1>16, <1>17
        DEF RingNext, Produce, Consume

\* The ring starts empty.
LEMMA InitInv ==
    ASSUME RingInit
    PROVE  LInv
<1>1. TInv
  BY MpscAssumption DEF RingInit, TInv, RingTypeOK, Items, NoCall, NoTake, Positions, SlotIds, Any,
                        Halves, Unwritten
<1>2. Counters
  BY MpscAssumption DEF RingInit, Counters
<1>3. Snapshots /\ Places /\ Alone
  BY DEF RingInit, Snapshots, Places, PlaceOf, Alone, Reserved, NoCall
<1>4. Window
  BY DEF RingInit, Window
<1>5. Free
  <2>1. \A i \in Int : SlotOf(i) \in SlotIds
    BY SlotType
  <2> QED BY <2>1, MpscAssumption DEF RingInit, Free
<1>6. Reading
  BY DEF RingInit, Reading, NoTake
<1> QED BY <1>1, <1>2, <1>3, <1>4, <1>5, <1>6 DEF LInv

-----------------------------------------------------------------------------

\* The atomics of mpscrb_in and mpscrb_out keep every variable in its type.
THEOREM MpscTypeCorrect == RingSpec => []RingTypeOK
<1>1. RingInit => TInv
  BY InitInv DEF LInv
<1>2. TInv /\ [RingNext]_ringVars => TInv'
  BY TypeStep
<1>3. TInv => RingTypeOK
  BY DEF TInv
<1> QED BY <1>1, <1>2, <1>3, PTL DEF RingSpec

\* Below the wrap the parts of the invariant hold in every reachable state:
\* at most Cap places are taken, each place has one producer, no flag is
\* stale and what the consumer reads is whole.
THEOREM MpscInvariance == NoWrap => (RingSpec => []LInv)
<1> SUFFICES ASSUME NoWrap PROVE RingSpec => []LInv
  OBVIOUS
<1>1. RingInit => LInv
  BY InitInv
<1>2. LInv /\ [RingNext]_ringVars => LInv'
  <2> SUFFICES ASSUME LInv, [RingNext]_ringVars PROVE LInv'
    OBVIOUS
  <2>1. TInv'
    BY TypeStep DEF LInv
  <2> QED BY <2>1, CountersStep, SnapshotsStep, PlacesStep, AloneStep, WindowStep,
             FreeStep, ReadingStep DEF LInv
<1> QED BY <1>1, <1>2, PTL DEF RingSpec

-----------------------------------------------------------------------------
(* The refinement.                                                         *)

\* The head is in the ring, whole, and no producer is at its place.
HeadIn == /\ Queue!Length > 0
          /\ Queue!HeadFilled
          /\ slots[SlotOf(rdPos)] = Whole(order[rdPos + 1])

\* A flagged head is whole and nobody is filling it.
LEMMA HeadReady ==
    ASSUME LInv, rdPos < wrPos, ready[SlotOf(rdPos)], cons.pc # "publish"
    PROVE  HeadIn
<1>1. \A p \in Producers : Reserved(p) => prod[p].pos # rdPos
  BY DEF LInv, Places, PlaceOf
<1>2. rdPos \in Nat /\ wrPos \in Nat /\ \A p \in Producers : prod[p].pos \in Nat
  BY DEF LInv, TInv, RingTypeOK, Positions
<1>3. rdPos \in rdPos .. wrPos - 1
  BY <1>2
<1>4. slots[SlotOf(rdPos)] = Whole(order[rdPos + 1])
  BY <1>1, <1>3 DEF LInv, Window, WindowAt
<1>5. Queue!Length > 0
  BY <1>2 DEF Queue!Length, LInv, Counters
<1>6. Queue!HeadFilled
  <2>1. Len(taken) = rdPos
    BY DEF LInv, Counters
  <2>2. ASSUME NEW p \in Producers
        PROVE  Filling[p] # rdPos + 1
    <3>1. Filling[p] = IF Reserved(p) THEN prod[p].pos + 1 ELSE 0
      BY DEF Filling
    <3>2. prod[p].pos + 1 # rdPos + 1 \/ ~Reserved(p)
      BY <1>1, <1>2
    <3> QED BY <1>2, <3>1, <3>2
  <2> QED BY <2>1, <2>2 DEF Queue!HeadFilled
<1> QED BY <1>4, <1>5, <1>6 DEF HeadIn

\* Each step of the ring is a step of the queue, or none.
LEMMA QueueStep ==
    ASSUME NoWrap, LInv, [RingNext]_ringVars
    PROVE  [Queue!Next]_(Queue!qvars)
<1> USE DEF LInv
<1> wrPos \in Nat /\ rdPos \in Nat /\ RingCap \in Nat \ {0} /\ RingMod \in Nat /\ MaxIn \in Nat
  BY MpscAssumption DEF LInv, TInv, RingTypeOK, Positions
<1> order \in Seq(Data) /\ taken \in Seq(Any) /\ Len(order) <= MaxIn
  BY DEF LInv, TInv, RingTypeOK
<1> prod \in [Producers -> [pc : {"idle", "load", "check", "cas", "copy", "rest", "mark"},
                            pos : Nat, item : Any]]
  BY DEF LInv, TInv, RingTypeOK, Positions
<1>1. ASSUME NEW p \in Producers, NEW d \in Data, In(p, d)
      PROVE  [Queue!Next]_(Queue!qvars)
  <2>1. /\ prod' = [prod EXCEPT ![p].pc = "load", ![p].item = d] /\ ~Reserved(p)
        /\ outcome' = [outcome EXCEPT ![p] = "none"]
        /\ UNCHANGED <<order, taken, result>>
    BY <1>1 DEF In, Reserved, ringHistory
  <2>2. Filling' = Filling /\ Filling[p] = 0
    BY <2>1 DEF Filling, Reserved
  <2>3. Queue!Ask(p)
    BY <2>1, <2>2 DEF Queue!Ask
  <2> QED BY <2>3 DEF Queue!Next
<1>2. ASSUME NEW p \in Producers, LoadWritePos(p)
      PROVE  [Queue!Next]_(Queue!qvars)
  <2>1. /\ prod' = [prod EXCEPT ![p].pc = "check", ![p].pos = wrPos]
        /\ UNCHANGED <<order, taken, outcome, result>>
    BY <1>2 DEF LoadWritePos, ring, ringHistory
  <2>2. Filling' = Filling
    BY <1>2, <2>1 DEF Filling, Reserved, LoadWritePos
  <2> QED BY <2>1, <2>2 DEF Queue!qvars
<1>3. ASSUME NEW p \in Producers, CheckRoom(p), NoRoom(prod[p].pos, rdPos)
      PROVE  [Queue!Next]_(Queue!qvars)
  <2>1. /\ prod' = [prod EXCEPT ![p] = NoCall] /\ ~Reserved(p)
        /\ outcome' = [outcome EXCEPT ![p] = "full"]
        /\ UNCHANGED <<order, taken, result>>
    BY <1>3 DEF CheckRoom, Reserved, ringHistory
  <2>2. Filling' = Filling /\ Filling[p] = 0
    BY <2>1 DEF Filling, Reserved, NoCall
  <2>3. Len(order) - Len(taken) = RingCap
    <3>1. /\ prod[p].pos <= wrPos /\ wrPos <= rdPos + RingCap /\ rdPos <= MaxIn
          /\ wrPos = Len(order) /\ rdPos = Len(taken)
      BY DEF Snapshots, Counters
    <3>2. prod[p].pos = rdPos + RingCap
      BY <1>3, <3>1, RoomExact
    <3> QED BY <3>1, <3>2
  <2>4. Queue!Refuse(p)
    BY <2>1, <2>2, <2>3 DEF Queue!Refuse, Queue!Length
  <2> QED BY <2>4 DEF Queue!Next
<1>4. ASSUME NEW p \in Producers, CheckRoom(p), ~NoRoom(prod[p].pos, rdPos)
      PROVE  [Queue!Next]_(Queue!qvars)
  <2>1. /\ prod' = [prod EXCEPT ![p].pc = "cas"] /\ ~Reserved(p)
        /\ UNCHANGED <<order, taken, outcome, result>>
    BY <1>4 DEF CheckRoom, Reserved, ringHistory
  <2>2. Filling' = Filling
    BY <2>1 DEF Filling, Reserved
  <2> QED BY <2>1, <2>2 DEF Queue!qvars
<1>5. ASSUME NEW p \in Producers, Reserve(p), wrPos = prod[p].pos
      PROVE  [Queue!Next]_(Queue!qvars)
  <2>1. /\ order' = Append(order, prod[p].item) /\ prod[p].pc = "cas"
        /\ prod' = [prod EXCEPT ![p].pc = "copy"]
        /\ wrPos < rdPos + RingCap
        /\ UNCHANGED <<taken, outcome, result>>
    BY <1>5, WonCas
  <2>2. prod[p].item \in Data /\ wrPos = Len(order) /\ rdPos = Len(taken)
    BY <2>1 DEF TInv, Items, Counters
  <2>3. Filling' = [Filling EXCEPT ![p] = Len(order) + 1] /\ Filling[p] = 0
    BY <1>5, <2>1, <2>2 DEF Filling, Reserved
  <2>4. Queue!Accept(p, prod[p].item)
    BY <2>1, <2>2, <2>3 DEF Queue!Accept, Queue!Length
  <2> QED BY <2>2, <2>4 DEF Queue!Next
<1>6. ASSUME NEW p \in Producers, Reserve(p), wrPos # prod[p].pos
      PROVE  [Queue!Next]_(Queue!qvars)
  <2>1. /\ prod' = [prod EXCEPT ![p].pc = "load"] /\ ~Reserved(p)
        /\ UNCHANGED <<order, taken, outcome, result>>
    BY <1>6 DEF Reserve, Reserved
  <2>2. Filling' = Filling
    BY <2>1 DEF Filling, Reserved
  <2> QED BY <2>1, <2>2 DEF Queue!qvars
<1>7. ASSUME NEW p \in Producers, FillFirst(p)
      PROVE  [Queue!Next]_(Queue!qvars)
  <2>1. prod' = [prod EXCEPT ![p].pc = "rest"] /\ UNCHANGED <<order, taken, outcome, result>>
    BY <1>7 DEF FillFirst, ring, ringHistory
  <2>2. Filling' = Filling
    BY <1>7, <2>1 DEF Filling, Reserved, FillFirst
  <2> QED BY <2>1, <2>2 DEF Queue!qvars
<1>8. ASSUME NEW p \in Producers, FillRest(p)
      PROVE  [Queue!Next]_(Queue!qvars)
  <2>1. prod' = [prod EXCEPT ![p].pc = "mark"] /\ UNCHANGED <<order, taken, outcome, result>>
    BY <1>8 DEF FillRest, ring, ringHistory
  <2>2. Filling' = Filling
    BY <1>8, <2>1 DEF Filling, Reserved, FillRest
  <2> QED BY <2>1, <2>2 DEF Queue!qvars
<1>9. ASSUME NEW p \in Producers, MarkReady(p)
      PROVE  [Queue!Next]_(Queue!qvars)
  <2>1. /\ prod' = [prod EXCEPT ![p] = NoCall] /\ Reserved(p)
        /\ outcome' = [outcome EXCEPT ![p] = "ok"]
        /\ UNCHANGED <<order, taken, result>>
    BY <1>9 DEF MarkReady, Reserved, ringHistory
  <2>2. Filling' = [Filling EXCEPT ![p] = 0]
    BY <2>1 DEF Filling, Reserved, NoCall
  <2>4. Filling[p] = prod[p].pos + 1 /\ prod[p].pos \in Nat
    BY <2>1 DEF Filling
  <2>3. Queue!Fill(p)
    BY <2>1, <2>2, <2>4 DEF Queue!Fill
  <2> QED BY <2>3 DEF Queue!Next
<1>10. ASSUME NEW peek \in BOOLEAN, Out(peek)
       PROVE  [Queue!Next]_(Queue!qvars)
  <2>1. Filling' = Filling
    BY <1>10 DEF Filling, Reserved, Out, ring
  <2>2. Queue!Come
    BY <1>10, <2>1 DEF Out, ringHistory, Queue!Come
  <2> QED BY <2>2 DEF Queue!Next
<1>11. ASSUME CheckBound
       PROVE  [Queue!Next]_(Queue!qvars)
  <2>1. Filling' = Filling
    BY <1>11 DEF Filling, Reserved, CheckBound, ring
  <2>2. CASE SeemsEmpty(cons.pos)
    <3>1. /\ cons.pos = rdPos
          /\ result' = "nothing" /\ UNCHANGED <<order, taken, outcome>>
      BY <1>11, <2>2 DEF CheckBound, Reading, ringHistory
    <3>2. Len(order) - Len(taken) = 0
      BY <2>2, <3>1 DEF SeemsEmpty, Counters
    <3>3. Queue!Miss
      BY <3>1, <3>2, <2>1 DEF Queue!Miss, Queue!Length
    <3> QED BY <3>3 DEF Queue!Next
  <2>3. CASE ~SeemsEmpty(cons.pos)
    BY <1>11, <2>1, <2>3 DEF CheckBound, ringHistory, Queue!qvars
  <2> QED BY <2>2, <2>3
<1>12. ASSUME TestReady
       PROVE  [Queue!Next]_(Queue!qvars)
  <2>1. Filling' = Filling
    BY <1>12 DEF Filling, Reserved, TestReady, ring
  <2>2. CASE ready[SlotOf(cons.pos)]
    BY <1>12, <2>1, <2>2 DEF TestReady, ringHistory, Queue!qvars
  <2>3. CASE ~ready[SlotOf(cons.pos)]
    <3>1. /\ cons.pos = rdPos /\ cons.pc = "test" /\ rdPos < wrPos
          /\ result' = "nothing" /\ UNCHANGED <<order, taken, outcome>>
      BY <1>12, <2>3 DEF TestReady, Reading, ringHistory
    <3>2. rdPos \in rdPos .. wrPos - 1
      BY <3>1
    <3>3. PICK p \in Producers : Reserved(p) /\ prod[p].pos = rdPos
      BY <2>3, <3>1, <3>2 DEF Window, WindowAt
    <3>4. Filling[p] = Len(taken) + 1
      BY <3>3 DEF Filling, Counters
    <3>5. Queue!Miss
      BY <3>1, <3>4, <2>1 DEF Queue!Miss, Queue!HeadFilled
    <3> QED BY <3>5 DEF Queue!Next
  <2> QED BY <2>2, <2>3
<1>13. ASSUME TakeFirst
       PROVE  [Queue!Next]_(Queue!qvars)
  <2>1. Filling' = Filling
    BY <1>13 DEF Filling, Reserved, TakeFirst, ring
  <2> QED BY <1>13, <2>1 DEF TakeFirst, ringHistory, Queue!qvars
<1>14. ASSUME TakeRest
       PROVE  [Queue!Next]_(Queue!qvars)
  <2>1. Filling' = Filling
    BY <1>14 DEF Filling, Reserved, TakeRest, ring
  <2>2. CASE cons.peek
    <3> DEFINE halves == [cons.halves EXCEPT !.rest = slots[SlotOf(cons.pos)].rest]
    <3>1. /\ cons.pc = "rest" /\ cons.pos = rdPos /\ rdPos < wrPos
          /\ ready[SlotOf(rdPos)] /\ cons.halves.first = order[rdPos + 1]
          /\ result' = Value(halves) /\ UNCHANGED <<order, taken, outcome>>
      BY <1>14, <2>2 DEF TakeRest, Reading, ringHistory
    <3>2. HeadIn
      BY <3>1, HeadReady
    <3>3. Value(halves) = order[rdPos + 1]
      <4>1. cons.halves \in Halves /\ slots[SlotOf(rdPos)].rest = order[rdPos + 1]
        BY <3>2 DEF HeadIn, Whole, TInv, RingTypeOK
      <4> QED BY <3>1, <4>1 DEF Value, Halves
    <3>4. Queue!Glance
      BY <2>1, <3>1, <3>2, <3>3 DEF Queue!Glance, HeadIn, Counters
    <3> QED BY <3>4 DEF Queue!Next
  <2>3. CASE ~cons.peek
    BY <1>14, <2>1, <2>3 DEF TakeRest, ringHistory, Queue!qvars
  <2> QED BY <2>2, <2>3
<1>15. ASSUME ClearReady
       PROVE  [Queue!Next]_(Queue!qvars)
  <2>1. Filling' = Filling
    BY <1>15 DEF Filling, Reserved, ClearReady
  <2> QED BY <1>15, <2>1 DEF ClearReady, ringHistory, Queue!qvars
<1>16. ASSUME Publish
       PROVE  [Queue!Next]_(Queue!qvars)
  <2>1. /\ rdPos < wrPos /\ cons.pc = "publish"
        /\ taken' = Append(taken, order[rdPos + 1])
        /\ result' = order[rdPos + 1]
        /\ UNCHANGED <<order, prod, outcome>>
    BY <1>16, Published
  <2>2. Filling' = Filling
    BY <2>1 DEF Filling, Reserved
  <2>3. \A p \in Producers : Reserved(p) => prod[p].pos # rdPos
    BY <2>1 DEF Reading
  <2>4. Queue!HeadFilled /\ Queue!Length > 0
    BY <2>1, <2>3 DEF Queue!HeadFilled, Queue!Length, Filling, Counters
  <2>5. Queue!Take
    BY <2>1, <2>2, <2>4 DEF Queue!Take, Counters
  <2> QED BY <2>5 DEF Queue!Next
<1>17. ASSUME UNCHANGED ringVars
       PROVE  [Queue!Next]_(Queue!qvars)
  <2>1. Filling' = Filling
    BY <1>17 DEF Filling, Reserved, ringVars
  <2> QED BY <1>17, <2>1 DEF ringVars, Queue!qvars
<1> QED BY <1>1, <1>2, <1>3, <1>4, <1>5, <1>6, <1>7, <1>8, <1>9, <1>10, <1>11,
           <1>12, <1>13, <1>14, <1>15, <1>16, <1>17
        DEF RingNext, Produce, Consume

\* Below the wrap of its counters mpsc_ringbuf.c is the FIFO queue that its
\* header promises: whole elements, each once, in the order of acceptance,
\* refused only when full and missed only when the head is not there.
THEOREM MpscImplementsQueue == NoWrap => (RingSpec => ImplementsQueue)
<1> SUFFICES ASSUME NoWrap PROVE RingSpec => Queue!Spec
  BY DEF ImplementsQueue
<1>1. RingInit => Queue!Init
  BY DEF RingInit, Queue!Init, Filling, Reserved, NoCall
<1>2. LInv /\ [RingNext]_ringVars => [Queue!Next]_(Queue!qvars)
  BY QueueStep
<1>3. RingSpec => []LInv
  BY MpscInvariance
<1> QED BY <1>1, <1>2, <1>3, PTL DEF RingSpec, Queue!Spec

\* mpsc_ringbuf.h:96: as long as the counters have not wrapped, mpscrb_out turns
\* a consumer away before it looks at the slot only when nothing is in the ring.
\* Run mpsc_wrap shows that this ends at the wrap (mpsc_ringbuf.c:177).
THEOREM MissIsJustifiedBelowWrap == NoWrap => (RingSpec => MissIsJustified)
<1> SUFFICES ASSUME NoWrap PROVE RingSpec => MissIsJustified
  OBVIOUS
<1>1. ASSUME LInv, [RingNext]_ringVars, cons.pc = "bound", cons'.pc = "idle"
      PROVE  wrPos = rdPos
  <2>1. ASSUME NEW p \in Producers, (\E d \in Data : In(p, d)) \/ Produce(p) PROVE cons' = cons
    BY <2>1 DEF In, Produce, LoadWritePos, CheckRoom, Reserve, FillFirst, FillRest, MarkReady
  <2>2. CASE CheckBound
    <3>1. SeemsEmpty(cons.pos)
      BY <1>1, <2>2 DEF CheckBound, LInv, TInv, RingTypeOK
    <3>2. rdPos <= wrPos /\ cons.pos = rdPos /\ rdPos \in Int /\ wrPos \in Int
      BY <1>1, MpscAssumption DEF LInv, TInv, RingTypeOK, Counters, Reading, Positions
    <3> QED BY <3>1, <3>2 DEF SeemsEmpty
  <2>3. ASSUME Consume \/ Out(TRUE) PROVE CheckBound
    BY <1>1, <2>3 DEF Consume, Out, TestReady, TakeFirst, TakeRest, ClearReady, Publish
  <2>4. CASE UNCHANGED ringVars
    BY <1>1, <2>4 DEF ringVars
  <2> QED BY <1>1, <2>1, <2>2, <2>3, <2>4 DEF RingNext
<1>2. LInv /\ [RingNext]_ringVars
        => [cons.pc = "bound" /\ cons'.pc = "idle" => wrPos = rdPos]_ringVars
  BY <1>1
<1>3. RingSpec => []LInv
  BY MpscInvariance
<1> QED BY <1>2, <1>3, PTL DEF RingSpec, MissIsJustified

=============================================================================
