------------------------------- MODULE CanRx -------------------------------
(***************************************************************************)
(* The receive half of lib/drivers/src/peripheral/can/hal_can_core.c: the  *)
(* message nodes of rxFifo, which pass from the free list to the receive   *)
(* interrupt, to the used list and the matched list of a filter, to a      *)
(* reader and back, and the slots and hardware banks of the filters, which *)
(* one thread allocates and frees.                                         *)
(*                                                                         *)
(* The receive interrupt is one step: it is not preempted by a task, and   *)
(* its priority is the same for all the CAN interrupts of a controller.    *)
(* A task is preempted anywhere but between can_irq_lock and               *)
(* can_irq_unlock.  The return of a node by a reader (line 800) is not in  *)
(* such a section: it is two steps, the look at the tail of the list and   *)
(* the link behind it.                                                     *)
(***************************************************************************)
EXTENDS Integers, FiniteSets, Sequences, SequencesExt, Lists

CONSTANTS Nodes,      \* the message buffer
          NumSlots,   \* filterResMgr.slotCount, also the number of banks
          Readers,    \* threads that call can_read
          NoNode, NoSlot

\* What the constants must satisfy.
ASSUME CanRxAssumption ==
    /\ IsFiniteSet(Nodes) /\ NumSlots \in Nat \ {0}
    /\ NoNode \notin Nodes /\ NoSlot \notin 0..NumSlots - 1

Slots == 0..NumSlots - 1
Banks == 0..NumSlots - 1

VARIABLES
    rxFree, rxUsed,     \* rxFifo.freeList and usedList
    rxOverwrite,        \* rxFifo.isOverwrite
    msgMatched, msgCount,   \* of each CanFilter
    isActived,          \* filters in use; their request, with its callback, is set
    rxOwner,            \* of each node
    slotToHwBank,       \* a slot is used when it is mapped, and so is its bank
    hwBanks,            \* external: the banks that accept frames
    rpc, rslot, rnode, rtail,   \* readers: place, filter, node, tail seen
    fpc, fslot,         \* the thread that allocates and frees filters
    \* history
    lost,               \* nodes of failed hardware reads
    stranded,           \* nodes of a filter that was freed with them
    miscounted,         \* slots that lost count: see AllocReset, FreeClear
    shared,             \* two readers were at one filter
    derailed            \* the code spins, or writes through a pointer out of date

lists == <<rxFree, rxUsed, msgMatched, msgCount, rxOwner>>
filters == <<isActived, slotToHwBank, hwBanks, fpc, fslot>>
reading == <<rpc, rslot, rnode, rtail>>
past == <<lost, stranded, miscounted, shared, derailed>>
rxVars == <<lists, rxOverwrite, filters, reading, past>>

Mapped == {s \in Slots : slotToHwBank[s] # NoSlot}

RxTypeOK ==
    /\ rxFree \in Seq(Nodes) /\ rxUsed \in Seq(Nodes) /\ rxOverwrite \in BOOLEAN
    /\ DOMAIN msgMatched = Slots /\ \A s \in Slots : msgMatched[s] \in Seq(Nodes)
    /\ msgCount \in [Slots -> Int]
    /\ isActived \subseteq Mapped
    /\ rxOwner \in [Nodes -> Slots \cup {NoSlot}]
    /\ slotToHwBank \in [Slots -> Banks \cup {NoSlot}]
    /\ \A s, t \in Mapped : slotToHwBank[s] = slotToHwBank[t] => s = t
    /\ hwBanks \subseteq {slotToHwBank[s] : s \in Mapped}
    /\ rpc \in [Readers -> {"out", "take", "copy", "link"}]
    /\ rslot \in [Readers -> Slots \cup {NoSlot}]
    /\ rnode \in [Readers -> Nodes \cup {NoNode}]
    /\ rtail \in [Readers -> Nodes \cup {NoNode}]
    /\ fpc \in {"out", "enable", "publish", "reset", "disable", "clear", "release"}
    /\ fslot \in Slots \cup {NoSlot}
    /\ lost \subseteq Nodes /\ stranded \subseteq Nodes /\ miscounted \subseteq Slots
    /\ shared \in BOOLEAN /\ derailed \in BOOLEAN

\* can_open: the buffer is in the free list, no filter is allocated.
RxInit ==
    /\ rxFree \in SetToSeqs(Nodes) /\ rxUsed = << >> /\ rxOverwrite \in BOOLEAN
    /\ msgMatched = [s \in Slots |-> << >>] /\ msgCount = [s \in Slots |-> 0]
    /\ isActived = {} /\ rxOwner = [n \in Nodes |-> NoSlot]
    /\ slotToHwBank = [s \in Slots |-> NoSlot] /\ hwBanks = {}
    /\ rpc = [r \in Readers |-> "out"] /\ rslot = [r \in Readers |-> NoSlot]
    /\ rnode = [r \in Readers |-> NoNode] /\ rtail = [r \in Readers |-> NoNode]
    /\ fpc = "out" /\ fslot = NoSlot
    /\ lost = {} /\ stranded = {} /\ miscounted = {} /\ shared = FALSE /\ derailed = FALSE

Derail == derailed' = TRUE /\ UNCHANGED <<lost, stranded, miscounted, shared>>

-----------------------------------------------------------------------------
(* can_read, one message: canrx_msg_get_noblock *)

\* Mutant: the filter's own count is not looked at.
ReadCallUnchecked(r, s) ==
    /\ rpc[r] = "out" /\ s \in isActived
    /\ rxUsed # << >>
    /\ rpc' = [rpc EXCEPT ![r] = "take"] /\ rslot' = [rslot EXCEPT ![r] = s]
    /\ shared' = (shared \/ \E q \in Readers : rslot[q] = s)
    /\ UNCHANGED <<lists, rxOverwrite, filters, rnode, rtail, lost, stranded, miscounted,
                   derailed>>

\* Under the lock: the filter has a message.  The caller must not ask for a
\* filter it has not allocated (line 1069 spins).
ReadCall(r, s) ==
    /\ rpc[r] = "out" /\ s \in isActived
    /\ msgCount[s] # 0 /\ rxUsed # << >>
    /\ rpc' = [rpc EXCEPT ![r] = "take"] /\ rslot' = [rslot EXCEPT ![r] = s]
    /\ shared' = (shared \/ \E q \in Readers : rslot[q] = s)
    /\ UNCHANGED <<lists, rxOverwrite, filters, rnode, rtail, lost, stranded, miscounted,
                   derailed>>

\* Mutant: the node stays in the used list.
TakeKeepsUsed(r) ==
    LET s == rslot[r]
        n == Head(msgMatched[s])
    IN  /\ rpc[r] = "take"
        /\ \/ /\ msgMatched[s] = << >>
              /\ Derail
              /\ UNCHANGED <<lists, reading>>
           \/ /\ msgMatched[s] # << >>
              /\ msgMatched' = [msgMatched EXCEPT ![s] = Tail(@)]
              /\ msgCount' = [msgCount EXCEPT ![s] = @ - 1]
              /\ rxOwner' = [rxOwner EXCEPT ![n] = NoSlot]
              /\ rnode' = [rnode EXCEPT ![r] = n]
              /\ rpc' = [rpc EXCEPT ![r] = "copy"]
              /\ UNCHANGED <<rxFree, rxUsed, rslot, rtail, past>>
        /\ UNCHANGED <<rxOverwrite, filters>>

\* canrx_get_used_msg_list: under the lock again, the first matched node; an
\* empty list has none, and the code takes its head for a node.
Take(r) ==
    LET s == rslot[r]
        n == Head(msgMatched[s])
    IN  /\ rpc[r] = "take"
        /\ \/ /\ msgMatched[s] = << >>
              /\ Derail
              /\ UNCHANGED <<lists, reading>>
           \/ /\ msgMatched[s] # << >>
              /\ msgMatched' = [msgMatched EXCEPT ![s] = Tail(@)]
              /\ msgCount' = [msgCount EXCEPT ![s] = @ - 1]
              /\ rxUsed' = Without(rxUsed, n)
              /\ rxOwner' = [rxOwner EXCEPT ![n] = NoSlot]
              /\ rnode' = [rnode EXCEPT ![r] = n]
              /\ rpc' = [rpc EXCEPT ![r] = "copy"]
              /\ UNCHANGED <<rxFree, rslot, rtail, past>>
        /\ UNCHANGED <<rxOverwrite, filters>>

TailOf(list) == IF list = << >> THEN NoNode ELSE Last(list)

\* The copy to the user; then can_add_free_msg_list, without the lock.
Copy(r) ==
    /\ rpc[r] = "copy"
    /\ rtail' = [rtail EXCEPT ![r] = TailOf(rxFree)]
    /\ rpc' = [rpc EXCEPT ![r] = "link"]
    /\ UNCHANGED <<lists, rxOverwrite, filters, rslot, rnode, past>>

\* The node is linked behind the tail that was seen; when that is not the tail
\* any more the lists are not lists any more.
LinkFree(r) ==
    /\ rpc[r] = "link"
    /\ \/ /\ rtail[r] = TailOf(rxFree)
          /\ rxFree' = Append(rxFree, rnode[r])
          /\ rpc' = [rpc EXCEPT ![r] = "out"] /\ rslot' = [rslot EXCEPT ![r] = NoSlot]
          /\ rnode' = [rnode EXCEPT ![r] = NoNode]
          /\ rtail' = [rtail EXCEPT ![r] = NoNode]
          /\ UNCHANGED past
       \/ rtail[r] # TailOf(rxFree) /\ Derail /\ UNCHANGED <<rxFree, reading>>
    /\ UNCHANGED <<rxUsed, msgMatched, msgCount, rxOwner, rxOverwrite, filters>>

-----------------------------------------------------------------------------
(* CAN_ISR_EVENT_INT_RX_DONE, for a frame that bank b accepted *)

\* canrx_get_free_msg_list: the first free node; without one, in overwrite mode,
\* the oldest used node, which leaves its filter.
Got == IF rxFree # << >> THEN Head(rxFree) ELSE Head(rxUsed)
FreeLeft == IF rxFree # << >> THEN Tail(rxFree) ELSE << >>
UsedLeft == IF rxFree # << >> THEN rxUsed ELSE Tail(rxUsed)

\* A node that a cleared filter left stranded keeps its owner and the links of its
\* matched list (lines 1205-1206).  To unlink it writes into the list that the filter
\* has by then; only of an empty list, when the node was stranded alone, the head
\* stays what it is.
Entangled ==
    /\ rxFree = << >> /\ Got \in stranded
    /\ \/ msgMatched[rxOwner[Got]] # << >>
       \/ \E n \in stranded \ {Got} : rxOwner[n] = rxOwner[Got]

HasNode == rxFree # << >> \/ (rxOverwrite /\ rxUsed # << >> /\ ~Entangled)

MatchedLeft(s) == IF rxOwner[Got] = s THEN Without(msgMatched[s], Got) ELSE msgMatched[s]
CountLeft(s) ==
    msgCount[s] - (IF rxFree = << >> /\ rxOwner[Got] = s THEN 1 ELSE 0)

\* The frame is dropped: no free node, and no overwriting.
RxDiscard(b) ==
    /\ b \in hwBanks /\ rxFree = << >> /\ ~rxOverwrite
    /\ UNCHANGED rxVars

\* No node at all in overwrite mode: the loop of line 515.
RxNoNode(b) ==
    /\ b \in hwBanks /\ rxFree = << >> /\ rxUsed = << >> /\ rxOverwrite
    /\ Derail
    /\ UNCHANGED <<lists, rxOverwrite, filters, reading>>

\* The oldest used node is unlinked through links that are out of date: its filter
\* loses the messages of its list, or finds stranded ones there.
RxUnlinksStranded(b) ==
    /\ b \in hwBanks /\ rxFree = << >> /\ rxUsed # << >> /\ rxOverwrite
    /\ Entangled
    /\ Derail
    /\ UNCHANGED <<lists, rxOverwrite, filters, reading>>

\* recvMsg fails and the node is not given back; or the adapter refuses the
\* length of the frame and it is.
RxFails(b) ==
    /\ b \in hwBanks /\ HasNode
    /\ \/ rxFree' = FreeLeft /\ lost' = lost \cup {Got}
       \/ rxFree' = Append(FreeLeft, Got) /\ UNCHANGED lost
    /\ rxUsed' = UsedLeft /\ rxOwner' = [rxOwner EXCEPT ![Got] = NoSlot]
    /\ msgMatched' = [s \in Slots |-> MatchedLeft(s)]
    /\ msgCount' = [s \in Slots |-> CountLeft(s)]
    /\ stranded' = stranded \ {Got}
    /\ UNCHANGED <<rxOverwrite, filters, reading, miscounted, shared, derailed>>

\* canrx_msg_put, for the slot that the bank is mapped to.
RxPut(b) ==
    /\ b \in hwBanks /\ HasNode
    /\ \E s \in isActived :
         /\ slotToHwBank[s] = b
         /\ msgMatched' = [t \in Slots |->
                IF t = s THEN Append(MatchedLeft(t), Got) ELSE MatchedLeft(t)]
         /\ msgCount' = [t \in Slots |-> CountLeft(t) + (IF t = s THEN 1 ELSE 0)]
         /\ rxOwner' = [rxOwner EXCEPT ![Got] = s]
    /\ rxFree' = FreeLeft /\ rxUsed' = Append(UsedLeft, Got)
    /\ stranded' = stranded \ {Got}
    /\ UNCHANGED <<rxOverwrite, filters, reading, lost, miscounted, shared, derailed>>

\* The filter of the bank has no callback: the handler spins (line 751).
RxNoCallback(b) ==
    /\ b \in hwBanks /\ HasNode
    /\ \E s \in Mapped \ isActived : slotToHwBank[s] = b
    /\ Derail
    /\ UNCHANGED <<lists, rxOverwrite, filters, reading>>

-----------------------------------------------------------------------------
(* CAN_CMD_FILTER_ALLOC *)

Least(S) == CHOOSE x \in S : \A y \in S : x <= y

\* Mutant: the banks in use are not looked at.
AllocReserveFirst ==
    /\ fpc = "out" /\ Mapped # Slots
    /\ fslot' = Least(Slots \ Mapped)
    /\ slotToHwBank' = [slotToHwBank EXCEPT ![fslot'] = Least(Banks)]
    /\ fpc' = "enable"
    /\ UNCHANGED <<lists, rxOverwrite, isActived, hwBanks, reading, past>>

\* can_reserve_slot, under the lock: the first slot and the first bank not used.
AllocReserve ==
    LET banks == Banks \ {slotToHwBank[s] : s \in Mapped}
    IN  /\ fpc = "out" /\ Mapped # Slots /\ banks # {}
        /\ fslot' = Least(Slots \ Mapped)
        /\ slotToHwBank' = [slotToHwBank EXCEPT ![fslot'] = Least(banks)]
        /\ fpc' = "enable"
        /\ UNCHANGED <<lists, rxOverwrite, isActived, hwBanks, reading, past>>

\* The hardware accepts the filter, or the reservation is taken back.
AllocEnable ==
    /\ fpc = "enable"
    /\ \/ /\ hwBanks' = hwBanks \cup {slotToHwBank[fslot]}
          /\ fpc' = "publish"
          /\ UNCHANGED <<slotToHwBank, fslot>>
       \/ /\ slotToHwBank' = [slotToHwBank EXCEPT ![fslot] = NoSlot]
          /\ fpc' = "out" /\ fslot' = NoSlot
          /\ UNCHANGED hwBanks
    /\ UNCHANGED <<lists, rxOverwrite, isActived, reading, past>>

\* Only then are the request, with its callback, and isActived set ...
AllocPublish ==
    /\ fpc = "publish"
    /\ isActived' = isActived \cup {fslot}
    /\ fpc' = "reset"
    /\ UNCHANGED <<lists, rxOverwrite, slotToHwBank, hwBanks, fslot, reading, past>>

LosesCount ==
    miscounted' = IF msgMatched[fslot] # << >> THEN miscounted \cup {fslot} ELSE miscounted

\* ... and msgCount cleared.
AllocReset ==
    /\ fpc = "reset"
    /\ msgCount' = [msgCount EXCEPT ![fslot] = 0]
    /\ LosesCount
    /\ fpc' = "out" /\ fslot' = NoSlot
    /\ UNCHANGED <<rxFree, rxUsed, msgMatched, rxOwner, rxOverwrite, isActived, slotToHwBank,
                   hwBanks, reading, lost, stranded, shared, derailed>>

(* CAN_CMD_FILTER_FREE *)

\* Without the lock: BUSY while messages are counted.
FreeTest(s) ==
    /\ fpc = "out" /\ s \in isActived /\ msgCount[s] = 0
    /\ fpc' = "disable" /\ fslot' = s
    /\ UNCHANGED <<lists, rxOverwrite, isActived, slotToHwBank, hwBanks, reading, past>>

FreeDisable ==
    /\ fpc = "disable"
    /\ \/ hwBanks' = hwBanks \ {slotToHwBank[fslot]} /\ fpc' = "clear" /\ UNCHANGED fslot
       \/ fpc' = "out" /\ fslot' = NoSlot /\ UNCHANGED hwBanks
    /\ UNCHANGED <<lists, rxOverwrite, isActived, slotToHwBank, reading, past>>

\* The filter is cleared with whatever was matched since the test.
FreeClear ==
    /\ fpc = "clear"
    /\ isActived' = isActived \ {fslot}
    /\ msgCount' = [msgCount EXCEPT ![fslot] = 0]
    /\ msgMatched' = [msgMatched EXCEPT ![fslot] = << >>]
    /\ stranded' = stranded \cup ToSet(msgMatched[fslot])
    /\ LosesCount
    /\ fpc' = "release"
    /\ UNCHANGED <<rxFree, rxUsed, rxOwner, rxOverwrite, slotToHwBank, hwBanks, fslot, reading,
                   lost, shared, derailed>>

\* can_release_slot, under the lock
FreeRelease ==
    /\ fpc = "release"
    /\ slotToHwBank' = [slotToHwBank EXCEPT ![fslot] = NoSlot]
    /\ fpc' = "out" /\ fslot' = NoSlot
    /\ UNCHANGED <<lists, rxOverwrite, isActived, hwBanks, reading, past>>

-----------------------------------------------------------------------------
Reader(r) == (\E s \in Slots : ReadCall(r, s)) \/ Take(r) \/ Copy(r) \/ LinkFree(r)
RxIsr(b) ==
    \/ RxDiscard(b) \/ RxNoNode(b) \/ RxUnlinksStranded(b)
    \/ RxFails(b) \/ RxPut(b) \/ RxNoCallback(b)
Allocate == AllocReserve \/ AllocEnable \/ AllocPublish \/ AllocReset
Release == (\E s \in Slots : FreeTest(s)) \/ FreeDisable \/ FreeClear \/ FreeRelease

RxNext == (\E r \in Readers : Reader(r)) \/ (\E b \in Banks : RxIsr(b)) \/ Allocate \/ Release

RxSpec == RxInit /\ [][RxNext]_rxVars

-----------------------------------------------------------------------------
HeldBy(r) == IF rnode[r] = NoNode THEN {} ELSE {rnode[r]}
Unique(list) == Cardinality(ToSet(list)) = Len(list)

(* Every message node is in one place: the free list, the used list, the hands
   of one reader; or it was lost by a hardware read that failed (line 1332).
   Lines 486 to 697 and 1292 to 1335. *)
OneOwner ==
    ~derailed =>
        /\ Unique(rxFree) /\ Unique(rxUsed)
        /\ \A n \in Nodes :
             1 = Cardinality({r \in Readers : n \in HeldBy(r)})
                 + Cardinality({S \in {<<1, ToSet(rxFree)>>, <<2, ToSet(rxUsed)>>,
                                       <<3, lost>>} : n \in S[2]})

(* The two lists agree: what is matched to a filter is what the used list holds
   for it, in the same order, and as many as it counts.  Two windows of the
   allocation calls break it: a frame between lines 1160 and 1161 is not counted,
   and one between 1180 and 1205 is stranded in the used list.  Of a stranded node
   that the interrupt then overwrites the links are out of date (RxUnlinksStranded):
   the lists of its filter are lists no more, and nothing is said of them. *)
ListsAgree ==
    ~derailed => \A s \in Slots :
        /\ ToSet(msgMatched[s]) = {n \in ToSet(rxUsed) : rxOwner[n] = s /\ n \notin stranded}
        /\ SameOrder(msgMatched[s], rxUsed)
        /\ s \notin miscounted => msgCount[s] = Len(msgMatched[s])

(* Both: one owner for each node, and one account of each filter's messages. *)
RxNodesPlaced == OneOwner /\ ListsAgree

(* The message that a reader saw at line 778 is still there at 793, unless the
   interrupt overwrites old messages, two readers met at a filter, or a filter
   lost count in one of the windows of ListsAgree. *)
SeenIsThere ==
    ~rxOverwrite /\ ~shared /\ miscounted = {} =>
        \A r \in Readers : rpc[r] = "take" => msgMatched[rslot[r]] # << >>

=============================================================================
