------------------------------- MODULE CanTx -------------------------------
(***************************************************************************)
(* The transmit half of lib/drivers/src/peripheral/can/hal_can_core.c: the *)
(* message nodes of txFifo pass from the free list to a writer, to the     *)
(* used list, to a hardware mailbox and back; a frame that loses the       *)
(* arbitration, or fails, goes back to the head of the used list.          *)
(*                                                                         *)
(* The CAN interrupts of one controller have one priority: each handler is *)
(* one step.  A writer is preempted anywhere but in its critical sections; *)
(* the return of a refused node (line 919) is outside of them and is two   *)
(* steps.  isBusy and pMsgList of a mailbox change together in the handlers*)
(* and in the scheduler's critical section: pMsgList stands for both.      *)
(***************************************************************************)
EXTENDS Integers, FiniteSets, Sequences, SequencesExt

CONSTANTS TxNodes, Mailboxes, Writers, NoTxNode, NoBox

\* What the constants must satisfy.
ASSUME CanTxAssumption ==
    /\ IsFiniteSet(TxNodes) /\ NoTxNode \notin TxNodes
    /\ NoBox \notin Mailboxes

VARIABLES
    txFree, txUsed,     \* txFifo.freeList and usedList
    txOverwrite,        \* txFifo.isOverwrite
    mailboxList,        \* the mailboxes the scheduler takes for free
    pMsgList,           \* of each mailbox
    txOwner,            \* of each node
    hardware,           \* external: each mailbox "empty", "sending", or ended:
                        \* "sent" or "failed", with its interrupt pending
    tpc, wnode, wtail,  \* writers: place, node, tail of the free list seen
    \* history
    orphans,            \* nodes whose mailbox was reused before its interrupt
    idle,               \* used nodes that wait for the next call: hardware refused
                        \* a frame, or an interrupt handler wrote one
    adrift              \* the code spins, or a list is not a list any more

nodes == <<txFree, txUsed, txOwner>>
boxes == <<mailboxList, pMsgList, hardware>>
writing == <<tpc, wnode, wtail>>
txVars == <<nodes, txOverwrite, boxes, writing, orphans, idle, adrift>>

TxTypeOK ==
    /\ txFree \in Seq(TxNodes) /\ txUsed \in Seq(TxNodes) /\ txOverwrite \in BOOLEAN
    /\ mailboxList \subseteq Mailboxes
    /\ pMsgList \in [Mailboxes -> TxNodes \cup {NoTxNode}]
    /\ txOwner \in [TxNodes -> Mailboxes \cup {NoBox}]
    /\ hardware \in [Mailboxes -> {"empty", "sending", "sent", "failed"}]
    /\ tpc \in [Writers -> {"out", "get", "fill", "queue", "link", "schedule"}]
    /\ wnode \in [Writers -> TxNodes \cup {NoTxNode}]
    /\ wtail \in [Writers -> TxNodes \cup {NoTxNode}]
    /\ orphans \subseteq TxNodes /\ idle \in BOOLEAN /\ adrift \in BOOLEAN

\* can_open
TxInit ==
    /\ txFree \in SetToSeqs(TxNodes) /\ txUsed = << >> /\ txOverwrite \in BOOLEAN
    /\ mailboxList = Mailboxes /\ pMsgList = [m \in Mailboxes |-> NoTxNode]
    /\ txOwner = [n \in TxNodes |-> NoBox]
    /\ hardware = [m \in Mailboxes |-> "empty"]
    /\ tpc = [w \in Writers |-> "out"]
    /\ wnode = [w \in Writers |-> NoTxNode] /\ wtail = [w \in Writers |-> NoTxNode]
    /\ orphans = {} /\ idle = FALSE /\ adrift = FALSE

WriterGoes(w, at) == tpc' = [tpc EXCEPT ![w] = at]
Drops(w) ==
    wnode' = [wnode EXCEPT ![w] = NoTxNode] /\ wtail' = [wtail EXCEPT ![w] = NoTxNode]

-----------------------------------------------------------------------------
(* can_tx_scheduler, one critical section: while a mailbox is listed, the first
   used node is given to the hardware, which puts it into a mailbox of its own
   choice: one that is not sending, listed or not. *)

Picks == {p \in UNION {[1..k -> Mailboxes] : k \in 0..Cardinality(Mailboxes)} :
                \A i, j \in DOMAIN p : p[i] = p[j] => i = j}

\* One run over the used list `used`, from listed mailboxes `listed`, contents
\* `held`, owners `own` and hardware `hw`: the nodes used[1], ..., used[k] go to
\* the mailboxes p[1], ..., p[k]; a shorter run is one the hardware cut short.
Dispatch(used, listed, held, own, hw) ==
    \E p \in Picks :
        LET k == Len(p)
            taken == {p[i] : i \in 1..k}
            node(m) == used[CHOOSE i \in 1..k : p[i] = m]
            done == k = Len(used) \/ listed \subseteq taken
        IN  /\ k <= Len(used)
            /\ \A m \in taken : hw[m] # "sending"
            /\ \A i \in 1..k : ~(listed \subseteq {p[j] : j \in 1..(i - 1)})
            /\ txUsed' = SubSeq(used, k + 1, Len(used))
            /\ mailboxList' = listed \ taken
            /\ pMsgList' = [m \in Mailboxes |-> IF m \in taken THEN node(m) ELSE held[m]]
            /\ txOwner' = [n \in TxNodes |->
                   IF \E m \in taken : node(m) = n THEN CHOOSE m \in taken : node(m) = n
                   ELSE own[n]]
            /\ hardware' = [m \in Mailboxes |-> IF m \in taken THEN "sending" ELSE hw[m]]
            /\ orphans' = orphans \cup {held[m] : m \in {x \in taken : held[x] # NoTxNode}}
            /\ idle' = (~done)

-----------------------------------------------------------------------------
(* can_write: cantx_msg_put_nonblock *)

Write(w) ==
    /\ tpc[w] = "out" /\ WriterGoes(w, "get")
    /\ UNCHANGED <<nodes, txOverwrite, boxes, wnode, wtail, orphans, idle, adrift>>

\* cantx_get_free_msg_list: a free node; in overwrite mode the oldest used one.
TxHasNode == txFree # << >> \/ (txOverwrite /\ txUsed # << >>)
TxGot == IF txFree # << >> THEN Head(txFree) ELSE Head(txUsed)
TxFreeLeft == IF txFree # << >> THEN Tail(txFree) ELSE << >>
TxUsedLeft == IF txFree # << >> THEN txUsed ELSE Tail(txUsed)

\* The next message.  Without a node the rest of them are counted as failed, or,
\* in overwrite mode, the code spins (line 515).
GetFree(w) ==
    /\ tpc[w] = "get"
    /\ \/ /\ TxHasNode
          /\ txFree' = TxFreeLeft /\ txUsed' = TxUsedLeft
          /\ wnode' = [wnode EXCEPT ![w] = TxGot] /\ WriterGoes(w, "fill")
          /\ UNCHANGED <<wtail, adrift>>
       \/ /\ ~TxHasNode /\ ~txOverwrite /\ WriterGoes(w, "schedule")
          /\ UNCHANGED <<txFree, txUsed, wnode, wtail, adrift>>
       \/ /\ ~TxHasNode /\ txOverwrite /\ adrift' = TRUE
          /\ UNCHANGED <<txFree, txUsed, writing>>
    /\ UNCHANGED <<txOwner, txOverwrite, boxes, orphans, idle>>

TxTailOf(list) == IF list = << >> THEN NoTxNode ELSE Last(list)

\* A message with a bad length gives its node back, without the lock.
Fill(w) ==
    /\ tpc[w] = "fill"
    /\ \/ WriterGoes(w, "queue") /\ UNCHANGED wtail
       \/ WriterGoes(w, "link") /\ wtail' = [wtail EXCEPT ![w] = TxTailOf(txFree)]
    /\ UNCHANGED <<nodes, txOverwrite, boxes, wnode, orphans, idle, adrift>>

\* There is another message, or there is none.
NextMessage(w) == WriterGoes(w, "get") \/ WriterGoes(w, "schedule")

\* list_add_tail goes wrong when the tail it looked at is not the tail any more.
TxLinkFree(w) ==
    /\ tpc[w] = "link"
    /\ \/ /\ wtail[w] = TxTailOf(txFree)
          /\ txFree' = Append(txFree, wnode[w])
          /\ Drops(w) /\ NextMessage(w)
          /\ UNCHANGED adrift
       \/ /\ wtail[w] # TxTailOf(txFree)
          /\ adrift' = TRUE
          /\ UNCHANGED <<txFree, writing>>
    /\ UNCHANGED <<txUsed, txOwner, txOverwrite, boxes, orphans, idle>>

\* cantx_add_used_msg_list
Queue(w) ==
    /\ tpc[w] = "queue"
    /\ txUsed' = Append(txUsed, wnode[w])
    /\ Drops(w) /\ NextMessage(w)
    /\ UNCHANGED <<txFree, txOwner, txOverwrite, boxes, orphans, idle, adrift>>

Schedule(w) ==
    /\ tpc[w] = "schedule" /\ WriterGoes(w, "out")
    /\ Dispatch(txUsed, mailboxList, pMsgList, txOwner, hardware)
    /\ UNCHANGED <<txFree, txOverwrite, wnode, wtail, adrift>>

\* A write of one message from an interrupt handler is not scheduled.
WriteFromIsr ==
    /\ TxHasNode
    /\ txFree' = TxFreeLeft /\ txUsed' = Append(TxUsedLeft, TxGot)
    /\ idle' = TRUE
    /\ UNCHANGED <<txOwner, txOverwrite, boxes, writing, orphans, adrift>>

-----------------------------------------------------------------------------
(* The hardware ends a transmission; without automatic retransmission a frame
   may fail or lose the arbitration. *)
HardwareEnds(m) ==
    /\ hardware[m] = "sending"
    /\ \E how \in {"sent", "failed"} : hardware' = [hardware EXCEPT ![m] = how]
    /\ UNCHANGED <<nodes, txOverwrite, mailboxList, pMsgList, writing, orphans, idle, adrift>>

\* Mutant: the node goes back, but nothing more is sent.
TxDoneUnscheduled(m) ==
    LET n == pMsgList[m]
    IN  /\ hardware[m] = "sent" /\ n # NoTxNode
        /\ txFree' = Append(txFree, n)
        /\ mailboxList' = mailboxList \cup {m}
        /\ pMsgList' = [pMsgList EXCEPT ![m] = NoTxNode]
        /\ txOwner' = [txOwner EXCEPT ![n] = NoBox]
        /\ hardware' = [hardware EXCEPT ![m] = "empty"]
        /\ UNCHANGED <<txUsed, txOverwrite, writing, orphans, idle, adrift>>

\* Mutant: the node is not put into the free list.
TxDoneKeeps(m) ==
    LET n == pMsgList[m]
    IN  /\ hardware[m] = "sent" /\ n # NoTxNode
        /\ Dispatch(txUsed, mailboxList \cup {m}, [pMsgList EXCEPT ![m] = NoTxNode],
                    [txOwner EXCEPT ![n] = NoBox], [hardware EXCEPT ![m] = "empty"])
        /\ UNCHANGED <<txFree, txOverwrite, writing, adrift>>

\* CAN_ISR_EVENT_INT_TX_DONE: cantx_add_free_msg_list and the scheduler.
TxDone(m) ==
    LET n == pMsgList[m]
    IN  /\ hardware[m] = "sent" /\ n # NoTxNode
        /\ txFree' = Append(txFree, n)
        /\ Dispatch(txUsed, mailboxList \cup {m}, [pMsgList EXCEPT ![m] = NoTxNode],
                    [txOwner EXCEPT ![n] = NoBox], [hardware EXCEPT ![m] = "empty"])
        /\ UNCHANGED <<txOverwrite, writing, adrift>>

\* can_error_isr, cantx_soft_retransmit: the node goes to the head of the used
\* list and the scheduler runs.
Retransmit(m) ==
    LET n == pMsgList[m]
    IN  /\ hardware[m] = "failed" /\ n # NoTxNode
        /\ Dispatch(<<n>> \o txUsed, mailboxList \cup {m},
                    [pMsgList EXCEPT ![m] = NoTxNode],
                    [txOwner EXCEPT ![n] = NoBox], [hardware EXCEPT ![m] = "empty"])
        /\ UNCHANGED <<txFree, txOverwrite, writing, adrift>>

-----------------------------------------------------------------------------
Writer(w) == Write(w) \/ GetFree(w) \/ Fill(w) \/ TxLinkFree(w) \/ Queue(w) \/ Schedule(w)
Mailbox(m) == HardwareEnds(m) \/ TxDone(m) \/ Retransmit(m)

TxNext == (\E w \in Writers : Writer(w)) \/ WriteFromIsr \/ (\E m \in Mailboxes : Mailbox(m))

TxSpec == TxInit /\ [][TxNext]_txVars

-----------------------------------------------------------------------------
Places(n) ==
    {w \in Writers : wnode[w] = n} \cup {m \in Mailboxes : pMsgList[m] = n}
        \cup (IF n \in ToSet(txFree) THEN {"free"} ELSE {})
        \cup (IF n \in ToSet(txUsed) THEN {"used"} ELSE {})
        \cup (IF n \in orphans THEN {"orphan"} ELSE {})

(* Every message node is in one place, and once: free, waiting, in the hands of
   a writer, or named by one mailbox; or it was in a mailbox whose end the
   hardware had not yet reported when the scheduler was given that mailbox
   again (line 846 does not look whether it is busy). *)
OnePlace ==
    ~adrift =>
        /\ \A n \in TxNodes : Cardinality(Places(n)) = 1
        /\ IsInjective(txFree) /\ IsInjective(txUsed)

(* A mailbox is listed exactly when it names no node; the node it names is owned
   by it; an ended transmission finds its node (line 633 does not check); and no
   node of the two lists is owned, or the loop of line 600 would spin. *)
MailboxesAgree ==
    /\ \A m \in Mailboxes :
         /\ m \in mailboxList <=> pMsgList[m] = NoTxNode
         /\ pMsgList[m] # NoTxNode => txOwner[pMsgList[m]] = m
         /\ hardware[m] # "empty" <=> pMsgList[m] # NoTxNode
    /\ \A n \in ToSet(txFree) \cup ToSet(txUsed) : txOwner[n] = NoBox

(* Both: nodes, lists, mailboxes and hardware agree (lines 486 to 667, 810 to 967). *)
TxNodesPlaced == OnePlace /\ MailboxesAgree

(* Nothing that waits is forgotten: with a mailbox listed and a message queued,
   some writer is on its way to the scheduler, or a handler is.  Two cases have
   nobody: the hardware refused the frame (line 863), and an interrupt handler
   wrote it (line 931); they last until the next write or the next handler. *)
NotForgotten ==
    txUsed # << >> /\ mailboxList # {} /\ ~idle =>
        \/ \E w \in Writers : tpc[w] # "out"
        \/ \E m \in Mailboxes : hardware[m] \in {"sent", "failed"}

=============================================================================
