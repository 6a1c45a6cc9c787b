------------------------------ MODULE MCRings ------------------------------
(***************************************************************************)
(* Small instances of the two rings: the pipe of one writer and one reader *)
(* on the byte ring, and the ring of many producers.  They share no state  *)
(* and are checked side by side: `moving` picks the one that takes steps,  *)
(* the other stays as it is initially, and the fairness is that of the one *)
(* that moves.                                                             *)
(***************************************************************************)
EXTENDS Pipe, MpscRingbuf

Everyone == {<<"task", "task">>, <<"isr", "task">>, <<"task", "isr">>}

VARIABLE moving

all == <<moving, vars, ringVars>>

RingsInit ==
    /\ moving \in {"pipe", "ring"}
    /\ Init /\ (moving = "ring" => setup = <<"task", "task">>)
    /\ RingInit

WithRingStill(A) == moving = "pipe" /\ A /\ UNCHANGED <<moving, ringVars>>
WithPipeStill(A) == moving = "ring" /\ A /\ UNCHANGED <<moving, vars>>

RingsNext == WithRingStill(Next) \/ WithPipeStill(RingNext)

\* The fairness of Pipe's FairSpec while the pipe moves, of RingFairSpec while the ring does.
RingsFairness ==
    /\ WF_all(WithRingStill(WriterStep))
    /\ WF_all(WithRingStill(ReaderStep))
    /\ \A p \in Producers : WF_all(WithPipeStill(Produce(p)))
    /\ WF_all(WithPipeStill(Consume))
    /\ SF_all(WithPipeStill(Out(FALSE)))

RingsSpec == RingsInit /\ [][RingsNext]_all /\ RingsFairness
=============================================================================
