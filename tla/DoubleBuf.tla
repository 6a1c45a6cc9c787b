----------------------------- MODULE DoubleBuf -----------------------------
(***************************************************************************)
(* lib/data_struct/src/double_buf.c: one producer and one consumer share   *)
(* two pages.  The producer writes page[idx] and flips idx; the consumer   *)
(* reads page[idx ^ 1].  len is not atomic and both sides store it: each   *)
(* access is a step.  A frame is its number; len[p] is the number of the   *)
(* frame whose length the field holds, 0 when the page has none.           *)
(***************************************************************************)
EXTENDS Integers

CONSTANT MaxFrames    \* bound: the frames that are committed

ASSUME DoubleBufAssumption == MaxFrames \in Nat

VARIABLES
    idx, len, dropCnt,      \* the fields of DoubleBuf
    wat,                    \* producer: in get_write_ptr, filling, in commit
    rat, page, got,         \* consumer: place, r_idx, the frame it was given
    \* history
    committed, consumed,       \* frames published, frames read and consumed
    lastTaken,              \* the newest frame that was read
    lapped, laps            \* idx flipped during this read; the reads with a flip

producer == <<wat, committed>>
consumer == <<rat, page, got, consumed, lastTaken>>
dbVars == <<idx, len, dropCnt, producer, consumer, lapped, laps>>

TypeOK ==
    /\ idx \in 0..1 /\ len \in [0..1 -> 0..MaxFrames] /\ dropCnt \in Nat
    /\ wat \in {"out", "count", "clear", "fill", "flip"}
    /\ rat \in {"out", "test", "length", "read", "consume"}
    /\ page \in 0..1 /\ got \in 0..MaxFrames
    /\ committed \in 0..MaxFrames /\ consumed \in Nat /\ lastTaken \in 0..MaxFrames
    /\ lapped \in BOOLEAN /\ laps \in Nat

\* dbuf_init
Init ==
    /\ idx = 0 /\ len = [p \in 0..1 |-> 0] /\ dropCnt = 0
    /\ wat = "out" /\ committed = 0
    /\ rat = "out" /\ page = 0 /\ got = 0 /\ consumed = 0 /\ lastTaken = 0
    /\ lapped = FALSE /\ laps = 0

-----------------------------------------------------------------------------
(* The producer.  Only it stores idx. *)

\* dbuf_get_write_ptr: an old frame is there, or not.
GetWritePtr ==
    /\ wat = "out" /\ committed < MaxFrames
    /\ wat' = IF len[idx] # 0 THEN "count" ELSE "fill"
    /\ UNCHANGED <<idx, len, dropCnt, committed, consumer, lapped, laps>>

Count ==
    /\ wat = "count" /\ wat' = "clear"
    /\ dropCnt' = dropCnt + 1
    /\ UNCHANGED <<idx, len, committed, consumer, lapped, laps>>

\* Mutant: the old length stays.
ClearNothing ==
    /\ wat = "clear" /\ wat' = "fill"
    /\ UNCHANGED <<idx, len, dropCnt, committed, consumer, lapped, laps>>

Clear ==
    /\ wat = "clear" /\ wat' = "fill"
    /\ len' = [len EXCEPT ![idx] = 0]
    /\ UNCHANGED <<idx, dropCnt, committed, consumer, lapped, laps>>

\* dbuf_commit, or dbuf_mark_written: the length of the new frame; a frame
\* without bytes looks like none.
Mark ==
    /\ wat = "fill" /\ wat' = "flip"
    /\ len' = [len EXCEPT ![idx] = committed + 1]
    /\ UNCHANGED <<idx, dropCnt, committed, consumer, lapped, laps>>

Laps ==
    /\ lapped' = (rat # "out")
    /\ laps' = IF rat # "out" /\ ~lapped THEN laps + 1 ELSE laps

\* The rest of dbuf_commit, or dbuf_swap.
Flip ==
    /\ wat = "flip" /\ wat' = "out"
    /\ idx' = 1 - idx
    /\ committed' = committed + 1
    /\ Laps
    /\ UNCHANGED <<len, dropCnt, consumer>>

-----------------------------------------------------------------------------
(* The consumer *)

\* dbuf_get_read_ptr: idx, the test of len, and len once more for the caller.
GetReadPtr ==
    /\ rat = "out" /\ rat' = "test"
    /\ page' = 1 - idx
    /\ UNCHANGED <<idx, len, dropCnt, producer, got, consumed, lastTaken, lapped, laps>>

Test ==
    /\ rat = "test"
    /\ rat' = IF len[page] = 0 THEN "out" ELSE "length"
    /\ lapped' = (lapped /\ len[page] # 0)
    /\ UNCHANGED <<idx, len, dropCnt, producer, page, got, consumed, lastTaken, laps>>

Length ==
    /\ rat = "length" /\ rat' = "read"
    /\ got' = len[page]
    /\ UNCHANGED <<idx, len, dropCnt, producer, page, consumed, lastTaken, lapped, laps>>

\* The frame has been read; dbuf_consume computes the page anew ...
Reread ==
    /\ rat = "read" /\ rat' = "consume"
    /\ page' = 1 - idx
    /\ lastTaken' = IF got = 0 THEN lastTaken ELSE got
    /\ UNCHANGED <<idx, len, dropCnt, producer, got, consumed, lapped, laps>>

\* Mutant: the page stays full.
ConsumeNothing ==
    /\ rat = "consume" /\ rat' = "out"
    /\ got' = 0 /\ consumed' = consumed + (IF got = 0 THEN 0 ELSE 1)
    /\ lapped' = FALSE
    /\ UNCHANGED <<idx, len, dropCnt, producer, page, lastTaken, laps>>

\* ... and clears its length.
Consume ==
    /\ rat = "consume" /\ rat' = "out"
    /\ len' = [len EXCEPT ![page] = 0]
    /\ got' = 0 /\ consumed' = consumed + (IF got = 0 THEN 0 ELSE 1)
    /\ lapped' = FALSE
    /\ UNCHANGED <<idx, dropCnt, producer, page, lastTaken, laps>>

-----------------------------------------------------------------------------
Producer == GetWritePtr \/ Count \/ Clear \/ Mark \/ Flip
Consumer == GetReadPtr \/ Test \/ Length \/ Reread \/ Consume

Next == Producer \/ Consumer

Spec == Init /\ [][Next]_dbVars

-----------------------------------------------------------------------------
\* Published frames in the pages that are not counted yet.
Stored ==
    (IF len[1 - idx] # 0 THEN 1 ELSE 0)
    + (IF len[idx] # 0 /\ wat \notin {"clear", "flip"} THEN 1 ELSE 0)

(* Every published frame is in a page, was read, or was counted as dropped; each
   read during which idx flipped may make the count wrong by one, since consume
   then clears the page of a newer frame (line 175), and the frame that was read
   may be counted as dropped. *)
FramesAccounted ==
    LET known == Stored + consumed + dropCnt
    IN  committed - laps <= known /\ known <= committed + laps

(* No frame is read after a newer one, even when idx flips while the consumer is
   between get_read_ptr and consume; and none is read twice, unless idx did. *)
InOrder == rat = "read" /\ got # 0 => got > lastTaken \/ (got = lastTaken /\ laps > 0)

=============================================================================
