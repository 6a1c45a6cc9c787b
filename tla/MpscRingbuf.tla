----------------------------- MODULE MpscRingbuf -----------------------------
(***************************************************************************)
(* lib/data_struct/src/mpsc_ringbuf.c: the lock-free ring buffer of many   *)
(* producers and one consumer.  Each atomic access of the code is a step   *)
(* of its own; the copy of one element is two steps, so that an element    *)
(* read while it is being written shows as torn.  The counters are         *)
(* unsigned: they are kept modulo RingMod, which stands for 2^32.  The     *)
(* names are such that Pipe and this module can be extended together:      *)
(* wrPos, rdPos and slots are writePos, readPos and buf of the code.       *)
(*                                                                         *)
(* Bound: MaxIn, the number of elements ever accepted.                     *)
(***************************************************************************)
EXTENDS Integers, Sequences

CONSTANTS
    Producers,  \* the threads and interrupts that call mpscrb_in
    Data,       \* the values of an element
    Torn,       \* a half-written or never written element
    RingCap,    \* mask + 1
    RingMod,    \* the counters count modulo this
    MaxIn

\* mpscrb_init hangs on a capacity that is no power of two and RingMod is
\* one too: what matters of this is that the capacity divides it.
ASSUME MpscAssumption ==
    /\ RingCap \in Nat \ {0}
    /\ RingMod \in Nat
    /\ RingMod > RingCap
    /\ RingMod % RingCap = 0
    /\ MaxIn \in Nat
    /\ Torn \notin Data

SlotIds == 0 .. RingCap - 1
Positions == 0 .. RingMod - 1

VARIABLES
    wrPos, rdPos,
    ready,    \* the flag of each slot
    slots,    \* the two halves of each slot
    prod,     \* each producer: where it is in mpscrb_in, and its locals
    cons,     \* the consumer: the same for mpscrb_out and mpscrb_out_peek
    order,    \* history: the data in the order of the reservations
    taken,    \* history: the data the consumer took
    outcome,  \* what each producer's last call returned
    result    \* what the consumer's last call returned

ring == <<wrPos, rdPos, ready, slots>>
ringHistory == <<order, taken>>
ringVars == <<wrPos, rdPos, ready, slots, prod, cons, order, taken, outcome, result>>

SlotOf(pos) == pos % RingCap

Unwritten == [first |-> Torn, rest |-> Torn]

\* Outside a call there are no locals.
NoCall == [pc |-> "idle", pos |-> 0, item |-> Torn]
NoTake == [pc |-> "idle", pos |-> 0, peek |-> FALSE, halves |-> Unwritten]

Value(halves) == IF halves.first = halves.rest THEN halves.first ELSE Torn

Any == Data \union {Torn}

Halves == [first : Any, rest : Any]

RingTypeOK ==
    /\ wrPos \in Positions
    /\ rdPos \in Positions
    /\ ready \in [SlotIds -> BOOLEAN]
    /\ slots \in [SlotIds -> Halves]
    /\ prod \in [Producers -> [pc : {"idle", "load", "check", "cas", "copy", "rest", "mark"},
                               pos : Positions, item : Any]]
    /\ cons \in [pc : {"idle", "bound", "test", "copy", "rest", "clear", "publish"},
                 pos : Positions, peek : BOOLEAN, halves : Halves]
    /\ order \in Seq(Data)
    /\ Len(order) <= MaxIn
    /\ taken \in Seq(Any)
    /\ outcome \in [Producers -> {"none", "ok", "full"}]
    /\ result \in {"none", "nothing"} \union Any

RingInit ==
    /\ wrPos = 0
    /\ rdPos = 0
    /\ ready = [s \in SlotIds |-> FALSE]
    /\ slots = [s \in SlotIds |-> Unwritten]
    /\ prod = [p \in Producers |-> NoCall]
    /\ cons = NoTake
    /\ order = <<>>
    /\ taken = <<>>
    /\ outcome = [p \in Producers |-> "none"]
    /\ result = "none"

-----------------------------------------------------------------------------
(* mpscrb_in, lines 145-167.                                               *)

In(p, d) ==
    /\ prod[p].pc = "idle"
    /\ prod' = [prod EXCEPT ![p].pc = "load", ![p].item = d]
    /\ outcome' = [outcome EXCEPT ![p] = "none"]
    /\ UNCHANGED <<ring, cons, ringHistory, result>>

LoadWritePos(p) ==
    /\ prod[p].pc = "load"
    /\ prod' = [prod EXCEPT ![p].pc = "check", ![p].pos = wrPos]
    /\ UNCHANGED <<ring, cons, ringHistory, outcome, result>>

\* Mutant: one element too many.
NoRoomOffByOne(pos, read) == (pos - read) % RingMod = RingCap + 1

\* free_count = capacity - (pos - read_pos), in unsigned arithmetic, is zero.
NoRoom(pos, read) == (pos - read) % RingMod = RingCap

CheckRoom(p) ==
    /\ prod[p].pc = "check"
    /\ IF NoRoom(prod[p].pos, rdPos)
          THEN /\ prod' = [prod EXCEPT ![p] = NoCall]
               /\ outcome' = [outcome EXCEPT ![p] = "full"]
          ELSE /\ prod' = [prod EXCEPT ![p].pc = "cas"]
               /\ UNCHANGED outcome
    /\ UNCHANGED <<ring, cons, ringHistory, result>>

Reserve(p) ==
    /\ prod[p].pc = "cas"
    /\ IF wrPos = prod[p].pos
          THEN /\ Len(order) < MaxIn
               /\ wrPos' = (wrPos + 1) % RingMod
               /\ order' = Append(order, prod[p].item)
               /\ prod' = [prod EXCEPT ![p].pc = "copy"]
          ELSE /\ prod' = [prod EXCEPT ![p].pc = "load"]
               /\ UNCHANGED <<wrPos, order>>
    /\ UNCHANGED <<rdPos, ready, slots, cons, taken, outcome, result>>

\* The producers between their CAS and their flag.
Reserved(p) == prod[p].pc \in {"copy", "rest", "mark"}

FillFirst(p) ==
    /\ prod[p].pc = "copy"
    /\ slots' = [slots EXCEPT ![SlotOf(prod[p].pos)].first = prod[p].item]
    /\ prod' = [prod EXCEPT ![p].pc = "rest"]
    /\ UNCHANGED <<wrPos, rdPos, ready, cons, ringHistory, outcome, result>>

FillRest(p) ==
    /\ prod[p].pc = "rest"
    /\ slots' = [slots EXCEPT ![SlotOf(prod[p].pos)].rest = prod[p].item]
    /\ prod' = [prod EXCEPT ![p].pc = "mark"]
    /\ UNCHANGED <<wrPos, rdPos, ready, cons, ringHistory, outcome, result>>

MarkReady(p) ==
    /\ prod[p].pc = "mark"
    /\ ready' = [ready EXCEPT ![SlotOf(prod[p].pos)] = TRUE]
    /\ prod' = [prod EXCEPT ![p] = NoCall]
    /\ outcome' = [outcome EXCEPT ![p] = "ok"]
    /\ UNCHANGED <<wrPos, rdPos, slots, cons, ringHistory, result>>

-----------------------------------------------------------------------------
(* mpscrb_out, lines 169-187, and mpscrb_out_peek, lines 189-206.          *)

\* Mutant: it starts at the element it took last.
OutBehind(peek) ==
    /\ cons.pc = "idle"
    /\ cons' = [cons EXCEPT !.pc = "bound", !.pos = rdPos - 1, !.peek = peek]
    /\ result' = "none"
    /\ UNCHANGED <<ring, prod, ringHistory, outcome>>

Out(peek) ==
    /\ cons.pc = "idle"
    /\ cons' = [cons EXCEPT !.pc = "bound", !.pos = rdPos, !.peek = peek]
    /\ result' = "none"
    /\ UNCHANGED <<ring, prod, ringHistory, outcome>>

\* pos >= writePos, a comparison of the counters themselves.
SeemsEmpty(pos) == pos >= wrPos

CheckBound ==
    /\ cons.pc = "bound"
    /\ IF SeemsEmpty(cons.pos)
          THEN cons' = NoTake /\ result' = "nothing"
          ELSE cons' = [cons EXCEPT !.pc = "test"] /\ UNCHANGED result
    /\ UNCHANGED <<ring, prod, ringHistory, outcome>>

TestReady ==
    /\ cons.pc = "test"
    /\ IF ready[SlotOf(cons.pos)]
          THEN cons' = [cons EXCEPT !.pc = "copy"] /\ UNCHANGED result
          ELSE cons' = NoTake /\ result' = "nothing"
    /\ UNCHANGED <<ring, prod, ringHistory, outcome>>

TakeFirst ==
    /\ cons.pc = "copy"
    /\ cons' = [cons EXCEPT !.pc = "rest", !.halves.first = slots[SlotOf(cons.pos)].first]
    /\ UNCHANGED <<ring, prod, ringHistory, outcome, result>>

TakeRest ==
    /\ cons.pc = "rest"
    /\ LET halves == [cons.halves EXCEPT !.rest = slots[SlotOf(cons.pos)].rest]
       IN IF cons.peek
             THEN /\ cons' = NoTake
                  /\ result' = Value(halves)
             ELSE /\ cons' = [cons EXCEPT !.pc = "clear", !.halves = halves]
                  /\ UNCHANGED result
    /\ UNCHANGED <<ring, prod, ringHistory, outcome>>

ClearReady ==
    /\ cons.pc = "clear"
    /\ ready' = [ready EXCEPT ![SlotOf(cons.pos)] = FALSE]
    /\ cons' = [cons EXCEPT !.pc = "publish"]
    /\ UNCHANGED <<wrPos, rdPos, slots, prod, ringHistory, outcome, result>>

Publish ==
    /\ cons.pc = "publish"
    /\ rdPos' = (cons.pos + 1) % RingMod
    /\ cons' = NoTake
    /\ taken' = Append(taken, Value(cons.halves))
    /\ result' = Value(cons.halves)
    /\ UNCHANGED <<wrPos, ready, slots, prod, order, outcome>>

-----------------------------------------------------------------------------

Produce(p) == \/ LoadWritePos(p)
              \/ CheckRoom(p)
              \/ Reserve(p)
              \/ FillFirst(p)
              \/ FillRest(p)
              \/ MarkReady(p)

\* Mutant: readPos is published before the flag is cleared.
PublishFirst ==
    \/ /\ cons.pc = "clear"
       /\ rdPos' = (cons.pos + 1) % RingMod
       /\ cons' = [cons EXCEPT !.pc = "publish"]
       /\ taken' = Append(taken, Value(cons.halves))
       /\ result' = Value(cons.halves)
       /\ UNCHANGED <<wrPos, ready, slots, prod, order, outcome>>
    \/ /\ cons.pc = "publish"
       /\ ready' = [ready EXCEPT ![SlotOf(cons.pos)] = FALSE]
       /\ cons' = NoTake
       /\ UNCHANGED <<wrPos, rdPos, slots, prod, ringHistory, outcome, result>>

ConsumeReordered ==
    \/ Out(FALSE)
    \/ CheckBound
    \/ TestReady
    \/ TakeFirst
    \/ TakeRest
    \/ PublishFirst

Consume == \/ Out(FALSE)
           \/ CheckBound
           \/ TestReady
           \/ TakeFirst
           \/ TakeRest
           \/ ClearReady
           \/ Publish

RingNext == \/ \E p \in Producers : (\E d \in Data : In(p, d)) \/ Produce(p)
            \/ Consume
            \/ Out(TRUE)

RingSpec == RingInit /\ [][RingNext]_ringVars

(* A producer that has begun a call finishes it: the interrupt or the      *)
(* higher-priority task that preempted it returns.  The consumer is a loop *)
(* that keeps calling mpscrb_out, and does not peek forever: it is fair on *)
(* its own calls of mpscrb_out, which peeks may delay.                     *)
RingFairSpec == /\ RingSpec
                /\ \A p \in Producers : WF_ringVars(Produce(p))
                /\ WF_ringVars(Consume)
                /\ SF_ringVars(Out(FALSE))

-----------------------------------------------------------------------------

\* The place a producer has reserved and is filling, 0 for none.
Filling == [p \in Producers |-> IF Reserved(p) THEN prod[p].pos + 1 ELSE 0]

Queue == INSTANCE MpscQueue WITH filling <- Filling, Cap <- RingCap

(* Before the counters wrap, the slots, flags and counters implement the   *)
(* FIFO of MpscQueue: an accepted element is delivered whole, once, in the *)
(* order of the reservations, mpscrb_in is refused only when RingCap elements  *)
(* are in the buffer, and the consumer only when the head is not there.    *)
ImplementsQueue == Queue!Spec

(* Before the counters wrap, every element whose place was reserved reaches *)
(* the consumer: no producer that stopped between its CAS and its flag      *)
(* blocks the elements behind it once it goes on, and no flag is lost.  As  *)
(* at most MaxIn elements come, this is to say that the consumer has taken  *)
(* all there is again and again.                                            *)
AllDelivered == []<>(Len(taken) = Len(order))

(* mpsc_ringbuf.h:96 on mpscrb_out: it returns false when the queue is     *)
(* empty or the head slot is not ready yet, and mpsc_design.md:56: the     *)
(* counters may wrap because unsigned subtraction takes care of it.  So    *)
(* the bound check never turns away a consumer while an element is in.     *)
MissIsJustified ==
    [][cons.pc = "bound" /\ cons'.pc = "idle" => wrPos = rdPos]_ringVars
=============================================================================
