----------------------------- MODULE MpscQueue -----------------------------
(***************************************************************************)
(* What lib/data_struct/include/data_struct/mpsc_ringbuf.h promises of the *)
(* ring buffer, without slots, counters or flags: a FIFO of at most Cap    *)
(* data with many producers and one consumer.  A producer first wins a     *)
(* place in the order, then fills it; the consumer takes the places in     *)
(* order, each only once filled, and is refused only when there is none.   *)
(***************************************************************************)
EXTENDS Integers, Sequences

CONSTANTS Producers, Data, Cap

VARIABLES order,    \* every datum accepted, in the order of acceptance
          taken,    \* every datum handed to the consumer
          filling,  \* the place each producer is filling, 0 for none
          outcome,  \* what each producer's last call of mpscrb_in returned
          result    \* what the consumer's last call returned

qvars == <<order, taken, filling, outcome, result>>

Length == Len(order) - Len(taken)

HeadFilled == \A p \in Producers : filling[p] # Len(taken) + 1

Init == /\ order = <<>>
        /\ taken = <<>>
        /\ filling = [p \in Producers |-> 0]
        /\ outcome = [p \in Producers |-> "none"]
        /\ result = "none"

Ask(p) == /\ filling[p] = 0
          /\ outcome' = [outcome EXCEPT ![p] = "none"]
          /\ UNCHANGED <<order, taken, filling, result>>

Accept(p, d) == /\ filling[p] = 0
                /\ Length < Cap
                /\ order' = Append(order, d)
                /\ filling' = [filling EXCEPT ![p] = Len(order) + 1]
                /\ UNCHANGED <<taken, outcome, result>>

Refuse(p) == /\ filling[p] = 0
             /\ Length = Cap
             /\ outcome' = [outcome EXCEPT ![p] = "full"]
             /\ UNCHANGED <<order, taken, filling, result>>

Fill(p) == /\ filling[p] # 0
           /\ filling' = [filling EXCEPT ![p] = 0]
           /\ outcome' = [outcome EXCEPT ![p] = "ok"]
           /\ UNCHANGED <<order, taken, result>>

\* A call of the consumer begins.
Come == result' = "none" /\ UNCHANGED <<order, taken, filling, outcome>>

\* mpscrb_out_peek returns the head and leaves it.
Glance == /\ Length > 0
          /\ HeadFilled
          /\ result' = order[Len(taken) + 1]
          /\ UNCHANGED <<order, taken, filling, outcome>>

Take == /\ Length > 0
        /\ HeadFilled
        /\ taken' = Append(taken, order[Len(taken) + 1])
        /\ result' = order[Len(taken) + 1]
        /\ UNCHANGED <<order, filling, outcome>>

\* The consumer goes away with nothing.
Miss == /\ Length = 0 \/ ~HeadFilled
        /\ result' = "nothing"
        /\ UNCHANGED <<order, taken, filling, outcome>>

Next == \/ \E p \in Producers :
             \/ Ask(p)
             \/ \E d \in Data : Accept(p, d)
             \/ Refuse(p)
             \/ Fill(p)
        \/ Come
        \/ Glance
        \/ Take
        \/ Miss

Spec == Init /\ [][Next]_qvars
=============================================================================
