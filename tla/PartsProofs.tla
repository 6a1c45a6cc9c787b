---------------------------- MODULE PartsProofs -----------------------------
(***************************************************************************)
(* Proofs about the double buffer, for any number of frames, about the log *)
(* ring, for any loggers and bounds, and about the synchronous transaction *)
(* of a motor driver, for any callers, commands and retries; and that      *)
(* MCParts, which has all parts side by side, does them no harm.           *)
(***************************************************************************)
EXTENDS MCParts, ListProofs, SerialProofs, FiniteSetTheorems, SequenceTheorems, TLAPS

-----------------------------------------------------------------------------
(* DoubleBuf *)

\* The producer is in a call only for a frame that fits the bound, and fills a
\* page it has found or made empty.
Writing ==
    /\ wat # "out" => committed < MaxFrames
    /\ wat = "fill" => len[idx] = 0

\* A read during which idx did not flip has its page to itself.
Reading ==
    /\ rat = "out" => ~lapped
    /\ rat # "out" /\ ~lapped => page = 1 - idx
    /\ rat = "length" /\ ~lapped => len[page] # 0
    /\ rat \in {"read", "consume"} /\ ~lapped => got # 0 /\ len[page] = got
    /\ lapped => laps > 0

\* What the producer's page adds to the account when its call has decided: 1 for
\* a frame it is about to count, -1 for a frame it is about to publish whose length
\* a late consume has cleared.
Share ==
    IF wat = "count" THEN 1
    ELSE IF wat = "clear" THEN 0
    ELSE IF wat = "flip" THEN (IF len[idx] = 0 THEN -1 ELSE 0)
    ELSE (IF len[idx] # 0 THEN 1 ELSE 0)

Settled == (IF len[1 - idx] # 0 THEN 1 ELSE 0) + Share + consumed + dropCnt
Known == Stored + consumed + dropCnt

\* The reads with a flip that are over: each may have moved the account by one.
Over == IF lapped THEN laps - 1 ELSE laps

Balanced ==
    /\ committed - Over <= Settled /\ Settled <= committed + Over
    /\ committed - Over <= Known /\ Known <= committed + Over

\* The pages hold the last frame, an older one, or the one about to be published.
Contents ==
    /\ len[1 - idx] \in {0, committed}
    /\ IF wat = "flip" THEN len[idx] \in {0, committed + 1} ELSE len[idx] <= committed

\* The frame read last is not newer than the newest one published, unless the
\* consumer read one that is about to be; then no other is left to be read.
LastFrame ==
    /\ \/ lastTaken <= committed
       \/ /\ lastTaken = committed + 1 /\ wat = "flip" /\ laps > 0
          /\ rat \in {"out", "test", "length"} => len[1 - idx] = 0
          /\ rat = "consume" => page = 1 - idx
    /\ rat \in {"out", "test", "length"} /\ lastTaken = committed /\ len[1 - idx] # 0
            => laps > 0

\* What the consumer is about to be given, and what it was given.
Fresh(f) == f # 0 => f > lastTaken \/ (f = lastTaken /\ laps > 0)

GivenFrame ==
    /\ rat \in {"test", "length"} => Fresh(len[page])
    /\ rat = "read" => Fresh(got)
    /\ rat = "read" => \/ got <= committed
                       \/ got = committed + 1 /\ wat = "flip" /\ laps > 0

DbInv == TypeOK /\ Writing /\ Reading /\ Balanced /\ Contents /\ LastFrame /\ GivenFrame

-----------------------------------------------------------------------------
(* One lemma for each conjunct of DbInv, one step for each action. *)

\* Every variable keeps its type.
LEMMA TypeOKKept == ASSUME TypeOK, Writing, Next PROVE TypeOK'
<1> USE DoubleBufAssumption DEF TypeOK, Writing, producer, consumer, Laps
<1>1. CASE GetWritePtr BY <1>1 DEF GetWritePtr
<1>2. CASE Count BY <1>2 DEF Count
<1>3. CASE Clear BY <1>3 DEF Clear
<1>4. CASE Mark BY <1>4 DEF Mark
<1>5. CASE Flip BY <1>5 DEF Flip
<1>6. CASE GetReadPtr BY <1>6 DEF GetReadPtr
<1>7. CASE Test BY <1>7 DEF Test
<1>8. CASE Length BY <1>8 DEF Length
<1>9. CASE Reread BY <1>9 DEF Reread
<1>10. CASE Consume
  <2>1. consumed' \in Nat BY <1>10 DEF Consume
  <2>2. len' \in [0..1 -> 0..MaxFrames] BY <1>10 DEF Consume
  <2>3. got' \in 0..MaxFrames /\ rat' = "out" BY <1>10 DEF Consume
  <2>4. lapped' \in BOOLEAN BY <1>10, Zenon DEF Consume
  <2>. QED BY <2>1, <2>2, <2>3, <2>4, <1>10 DEF Consume
<1>. QED
  BY <1>1, <1>2, <1>3, <1>4, <1>5, <1>6, <1>7, <1>8, <1>9, <1>10 DEF Next, Producer, Consumer

\* The producer's place is kept.
LEMMA WritingKept == ASSUME TypeOK, Writing, Next PROVE Writing'
<1> USE DEF TypeOK, Writing, producer, consumer, Laps
<1>1. CASE GetWritePtr BY <1>1 DEF GetWritePtr
<1>2. CASE Count BY <1>2 DEF Count
<1>3. CASE Clear BY <1>3 DEF Clear
<1>4. CASE Mark BY <1>4 DEF Mark
<1>5. CASE Flip BY <1>5 DEF Flip
<1>6. CASE GetReadPtr BY <1>6 DEF GetReadPtr
<1>7. CASE Test BY <1>7 DEF Test
<1>8. CASE Length BY <1>8 DEF Length
<1>9. CASE Reread BY <1>9 DEF Reread
<1>10. CASE Consume BY <1>10 DEF Consume
<1>. QED
  BY <1>1, <1>2, <1>3, <1>4, <1>5, <1>6, <1>7, <1>8, <1>9, <1>10 DEF Next, Producer, Consumer

\* A read without a flip keeps its page.
LEMMA ReadingKept == ASSUME TypeOK, Reading, Next PROVE Reading'
<1> USE DEF TypeOK, Reading, producer, consumer, Laps
<1>1. CASE GetWritePtr BY <1>1 DEF GetWritePtr
<1>2. CASE Count BY <1>2 DEF Count
<1>3. CASE Clear BY <1>3 DEF Clear
<1>4. CASE Mark BY <1>4 DEF Mark
<1>5. CASE Flip
  <2>1. CASE rat = "out"
    <3>1. lapped' = FALSE BY <1>5, <2>1 DEF Flip
    <3>. QED BY <3>1, <1>5, <2>1 DEF Flip
  <2>2. CASE rat # "out"
    <3>1. lapped' = TRUE BY <1>5, <2>2 DEF Flip
    <3>. QED BY <3>1, <1>5, <2>2 DEF Flip
  <2>. QED BY <2>1, <2>2
<1>6. CASE GetReadPtr BY <1>6 DEF GetReadPtr
<1>7. CASE Test BY <1>7 DEF Test
<1>8. CASE Length BY <1>8 DEF Length
<1>9. CASE Reread BY <1>9 DEF Reread
<1>10. CASE Consume BY <1>10 DEF Consume
<1>. QED
  BY <1>1, <1>2, <1>3, <1>4, <1>5, <1>6, <1>7, <1>8, <1>9, <1>10 DEF Next, Producer, Consumer

\* A flip, a count and a consume move both sums by what the flips allow.
LEMMA BalanceKept == ASSUME TypeOK, Writing, Reading, Balanced, Next PROVE Balanced'
<1> USE DEF TypeOK, Writing, Reading, Balanced, Settled, Known, Stored, Share, Over, producer, consumer, Laps
<1>1. CASE GetWritePtr BY <1>1 DEF GetWritePtr
<1>2. CASE Count BY <1>2 DEF Count
<1>3. CASE Clear BY <1>3 DEF Clear
<1>4. CASE Mark BY <1>4 DEF Mark
<1>5. CASE Flip BY <1>5 DEF Flip
<1>6. CASE GetReadPtr BY <1>6 DEF GetReadPtr
<1>7. CASE Test BY <1>7 DEF Test
<1>8. CASE Length BY <1>8 DEF Length
<1>9. CASE Reread BY <1>9 DEF Reread
<1>10. CASE Consume BY <1>10 DEF Consume
<1>. QED
  BY <1>1, <1>2, <1>3, <1>4, <1>5, <1>6, <1>7, <1>8, <1>9, <1>10 DEF Next, Producer, Consumer

\* Each page keeps to the frames it may hold.
LEMMA ContentsKept == ASSUME TypeOK, Writing, Contents, Next PROVE Contents'
<1> USE DEF TypeOK, Writing, Contents, producer, consumer, Laps
<1>1. CASE GetWritePtr BY <1>1 DEF GetWritePtr
<1>2. CASE Count BY <1>2 DEF Count
<1>3. CASE Clear BY <1>3 DEF Clear
<1>4. CASE Mark BY <1>4 DEF Mark
<1>5. CASE Flip BY <1>5 DEF Flip
<1>6. CASE GetReadPtr BY <1>6 DEF GetReadPtr
<1>7. CASE Test BY <1>7 DEF Test
<1>8. CASE Length BY <1>8 DEF Length
<1>9. CASE Reread BY <1>9 DEF Reread
<1>10. CASE Consume BY <1>10 DEF Consume
<1>. QED
  BY <1>1, <1>2, <1>3, <1>4, <1>5, <1>6, <1>7, <1>8, <1>9, <1>10 DEF Next, Producer, Consumer

\* The last frame read stays behind those still to be read.
LEMMA LastFrameKept == ASSUME TypeOK, Reading, Contents, LastFrame, GivenFrame, Next PROVE LastFrame'
<1> USE DEF TypeOK, Reading, Contents, LastFrame, GivenFrame, Fresh, producer, consumer, Laps
<1>1. CASE GetWritePtr BY <1>1 DEF GetWritePtr
<1>2. CASE Count BY <1>2 DEF Count
<1>3. CASE Clear BY <1>3 DEF Clear
<1>4. CASE Mark BY <1>4 DEF Mark
<1>5. CASE Flip BY <1>5 DEF Flip
<1>6. CASE GetReadPtr BY <1>6 DEF GetReadPtr
<1>7. CASE Test BY <1>7 DEF Test
<1>8. CASE Length BY <1>8 DEF Length
<1>9. CASE Reread BY <1>9 DEF Reread
<1>10. CASE Consume BY <1>10 DEF Consume
<1>. QED
  BY <1>1, <1>2, <1>3, <1>4, <1>5, <1>6, <1>7, <1>8, <1>9, <1>10 DEF Next, Producer, Consumer

\* The frame at hand stays a new one.
LEMMA GivenFrameKept == ASSUME TypeOK, Writing, Reading, Contents, LastFrame, GivenFrame, Next PROVE GivenFrame'
<1> USE DEF TypeOK, Writing, Reading, Contents, LastFrame, GivenFrame, Fresh, producer, consumer, Laps
<1>1. CASE GetWritePtr BY <1>1 DEF GetWritePtr
<1>2. CASE Count BY <1>2 DEF Count
<1>3. CASE Clear BY <1>3 DEF Clear
<1>4. CASE Mark BY <1>4 DEF Mark
<1>5. CASE Flip BY <1>5 DEF Flip
<1>6. CASE GetReadPtr BY <1>6 DEF GetReadPtr
<1>7. CASE Test BY <1>7 DEF Test
<1>8. CASE Length BY <1>8 DEF Length
<1>9. CASE Reread BY <1>9 DEF Reread
<1>10. CASE Consume BY <1>10 DEF Consume
<1>. QED
  BY <1>1, <1>2, <1>3, <1>4, <1>5, <1>6, <1>7, <1>8, <1>9, <1>10 DEF Next, Producer, Consumer

-----------------------------------------------------------------------------
LEMMA DbInvInit == ASSUME Init PROVE DbInv
<1> USE DoubleBufAssumption DEF Init
<1>1. TypeOK
  <2>1. lapped \in BOOLEAN BY Zenon
  <2>2. len \in [0..1 -> 0..MaxFrames] OBVIOUS
  <2>. QED BY <2>1, <2>2 DEF TypeOK
<1>2. Writing /\ Reading BY DEF Writing, Reading
<1>3. Balanced BY DEF Balanced, Settled, Known, Stored, Share, Over
<1>4. Contents /\ LastFrame /\ GivenFrame BY DEF Contents, LastFrame, GivenFrame, Fresh
<1>. QED BY <1>1, <1>2, <1>3, <1>4 DEF DbInv

LEMMA DbInvStutters == ASSUME DbInv, UNCHANGED dbVars PROVE DbInv'
BY DEF DbInv, dbVars, producer, consumer, TypeOK, Writing, Reading, Balanced, Settled, Known,
       Stored, Share, Over, Contents, LastFrame, GivenFrame, Fresh

(* double_buf.c: whatever the order in which the accesses of producer and consumer
   fall, the places, the page contents and the account agree. *)
THEOREM DoubleBufInvariance == Spec => []DbInv
<1>1. Init => DbInv BY DbInvInit
<1>2. DbInv /\ [Next]_dbVars => DbInv'
  <2>1. ASSUME DbInv, Next PROVE DbInv'
    BY <2>1, TypeOKKept, WritingKept, ReadingKept, BalanceKept, ContentsKept, LastFrameKept,
       GivenFrameKept DEF DbInv
  <2>. QED BY <2>1, DbInvStutters
<1>. QED BY <1>1, <1>2, PTL DEF Spec

(* Every field and local of double_buf.c keeps its type. *)
THEOREM DoubleBufTypeCorrect == Spec => []TypeOK
BY DoubleBufInvariance, PTL DEF DbInv

(* Every published frame is stored, was read or was counted as dropped, up to one
   for each read during which the index flipped (double_buf.c line 175). *)
THEOREM FramesAccountedHolds == Spec => []FramesAccounted
<1>1. DbInv => FramesAccounted
  BY DEF DbInv, TypeOK, Balanced, Known, Over, FramesAccounted, Reading, Stored
<1>. QED BY <1>1, DoubleBufInvariance, PTL

(* The consumer of double_buf.c is never given an older frame after a newer one,
   and the same frame twice only after a flip within a read. *)
THEOREM InOrderHolds == Spec => []InOrder
<1>1. DbInv => InOrder BY DEF DbInv, GivenFrame, Fresh, InOrder
<1>. QED BY <1>1, DoubleBufInvariance, PTL


-----------------------------------------------------------------------------
(* LogRing *)

\* LogTypeOK without the length of the ring.
LogTypes ==
    /\ async \in BOOLEAN /\ token \in BOOLEAN /\ ever \in BOOLEAN /\ recent \in BOOLEAN
    /\ start \in {"new", "doorbell", "running", "orphaned", "failed"}
    /\ writePos \in 0..MaxLogs /\ readPos \in 0..MaxLogs
    /\ dropped \in 0..DropWidth - 1 /\ warnedUpto \in 0..DropWidth - 1
    /\ lpc \in [Contexts -> {"out", "wait", "look", "take", "emit", "warn", "report"}]
    /\ taken \in [Contexts -> 0..MaxLogs] /\ drops \in [Contexts -> 0..DropWidth - 1]
    /\ emitted \in 0..MaxLogs /\ fired \in 0..MaxLogs /\ losses \in 0..MaxDrops
    /\ held \in BOOLEAN /\ crossed \in BOOLEAN

\* Who drains: the thread, once it runs, or the loggers of a build without it.
Drainers ==
    /\ async => /\ \A l \in Loggers : lpc[l] = "out"
                /\ lpc[Thread] # "out" => start = "running"
                /\ ~crossed
    /\ ~async => lpc[Thread] = "out" /\ start \in {"new", "running"}

\* Unless two contexts met in the ring there is one of them.
OneDrainer ==
    ~crossed => \A c, d \in Contexts : Draining(c) /\ Draining(d) => c = d

\* The positions of the ring.
Positions ==
    /\ readPos <= writePos /\ fired <= writePos
    /\ ~crossed => writePos - readPos <= RingLen
    /\ \A c \in Contexts : lpc[c] = "take" => taken[c] <= writePos

\* The message that is taken is the next one, and so is the one that is emitted.
Ordered ==
    ~crossed =>
        /\ \A c \in Contexts : lpc[c] = "take" => taken[c] = readPos + 1
        /\ \A c \in Contexts : lpc[c] = "emit" => taken[c] = readPos /\ emitted = readPos - 1
        /\ (\A c \in Contexts : lpc[c] # "emit") => emitted = readPos

\* What no token announces the thread has seen, or will see.
TokenTells ==
    async /\ lpc[Thread] \in {"warn", "report", "wait"} /\ ~token => writePos = readPos

\* What no logger took and a backend accepted, some logger is about to take.
Attended ==
    ~async => \/ fired <= readPos
              \/ \E c \in Contexts : lpc[c] \in {"look", "take", "emit"}

\* Until it wraps the counter is the number of losses, and ahead of what it was.
Counts ==
    losses < DropWidth =>
        /\ dropped = losses /\ warnedUpto <= dropped
        /\ \A c \in Contexts : drops[c] <= dropped

\* The warning at hand, and the one the thread gave before it went to sleep.
Warned ==
    async /\ ~token =>
        /\ lpc[Thread] = "report" => drops[Thread] = dropped
        /\ lpc[Thread] = "wait" /\ ~held /\ losses < DropWidth => dropped = warnedUpto

LogInv ==
    /\ LogTypes /\ Drainers /\ OneDrainer /\ Positions /\ Ordered
    /\ TokenTells /\ Attended /\ Counts /\ Warned

-----------------------------------------------------------------------------
(* One lemma for each conjunct, one step for each action. *)

\* The counter of drops stays below its modulus, and counts until it reaches it.
LEMMA Wraps ==
    ASSUME NEW n \in 0..DropWidth - 1
    PROVE  /\ (n + 1) % DropWidth \in 0..DropWidth - 1
           /\ n + 1 < DropWidth => (n + 1) % DropWidth = n + 1
<1> USE LogRingAssumption
<1>1. CASE n + 1 < DropWidth BY <1>1
<1>2. CASE n + 1 = DropWidth BY <1>2
<1>. QED BY <1>1, <1>2

\* Every variable keeps its type.
LEMMA LogTypesKept ==
    ASSUME LogTypes, Positions, [LogNext]_lrVars
    PROVE  LogTypes'
<1> USE LogRingAssumption DEF lrVars, warning, Contexts, LogTypes, Positions, Draining
<1>1. ASSUME NEW l \in Loggers, NEW accepted \in BOOLEAN, Produce(l, accepted)
    PROVE  LogTypes'
  <2>1. lpc' \in [Contexts -> {"out", "wait", "look", "take", "emit", "warn", "report"}]
    BY <1>1 DEF Produce, Enters, Moves
  <2>2. crossed' \in BOOLEAN BY <1>1, Zenon DEF Produce, Enters
  <2>3. token' \in BOOLEAN BY <1>1, Zenon DEF Produce
  <2>4. writePos' \in 0..MaxLogs /\ fired' \in 0..MaxLogs
    BY <1>1 DEF Produce
  <2>5. UNCHANGED <<async, start, readPos, dropped, warning, taken, drops, emitted, losses>>
    BY <1>1 DEF Produce
  <2>. QED BY <2>1, <2>2, <2>3, <2>4, <2>5
<1>2. ASSUME NEW l \in Loggers, ProduceFull(l) PROVE LogTypes'
  <2>1. losses' \in 0..MaxDrops BY <1>2 DEF ProduceFull
  <2>2. dropped' \in 0..DropWidth - 1 BY <1>2, Wraps DEF ProduceFull
  <2>. QED BY <2>1, <2>2, <1>2 DEF ProduceFull
<1>3. ASSUME NEW l \in Loggers, Flush(l) PROVE LogTypes'
    BY <1>3 DEF Flush, Enters, Moves
<1>4. ASSUME StartDoorbell PROVE LogTypes'
    BY <1>4 DEF StartDoorbell
<1>5. ASSUME StartThread PROVE LogTypes'
    BY <1>5 DEF StartThread, Enters, Moves
<1>6. ASSUME Wake PROVE LogTypes'
    BY <1>6 DEF Wake, Enters, Moves
<1>7. ASSUME NEW c \in Contexts, Look(c) PROVE LogTypes'
  <2>1. CASE writePos = readPos BY <2>1, <1>7 DEF Look, Moves
  <2>2. CASE writePos # readPos
    <3>1. readPos + 1 \in 0..MaxLogs BY <2>2 DEF Positions
    <3>. QED BY <2>2, <3>1, <1>7 DEF Look, Moves
  <2>. QED BY <2>1, <2>2
<1>8. ASSUME NEW c \in Contexts, TakeOut(c) PROVE LogTypes'
    BY <1>8 DEF TakeOut, Moves
<1>9. ASSUME NEW c \in Contexts, Emit(c) PROVE LogTypes'
    BY <1>9 DEF Emit, Moves
<1>10. ASSUME NEW c \in Contexts, Warn(c) PROVE LogTypes'
  <2>1. held' \in BOOLEAN
    <3>1. (dropped > warnedUpto) \in BOOLEAN OBVIOUS
    <3>2. held' = held \/ held' = (dropped > warnedUpto) BY <1>10, Zenon DEF Warn
    <3>. QED BY <3>1, <3>2, Zenon
  <2>2. lpc' \in [Contexts -> {"out", "wait", "look", "take", "emit", "warn", "report"}]
    BY <1>10 DEF Warn, Leaves, Moves
  <2>3. drops' \in [Contexts -> 0..DropWidth - 1] BY <1>10 DEF Warn
  <2>. QED BY <2>1, <2>2, <2>3, <1>10 DEF Warn
<1>11. ASSUME NEW c \in Contexts, Report(c) PROVE LogTypes'
    BY <1>11 DEF Report, Leaves, Moves
<1>12. ASSUME Tick PROVE LogTypes'
    BY <1>12 DEF Tick
<1>13. CASE UNCHANGED lrVars
    BY <1>13 DEF lrVars
<1>. QED
    BY <1>1, <1>2, <1>3, <1>4, <1>5, <1>6, <1>7, <1>8, <1>9, <1>10, <1>11, <1>12, <1>13 DEF
       LogNext, Drain

\* The thread and the loggers never drain in the same build.
LEMMA DrainersKept ==
    ASSUME LogTypes, Drainers, [LogNext]_lrVars
    PROVE  Drainers'
<1> USE LogRingAssumption DEF lrVars, warning, Contexts, LogTypes, Drainers
<1>1. ASSUME NEW l \in Loggers, NEW accepted \in BOOLEAN, Produce(l, accepted)
    PROVE  Drainers'
  <2>1. UNCHANGED <<async, start>> /\ lpc[l] = "out" BY <1>1 DEF Produce
  <2>2. CASE ~async /\ accepted
    <3>1. lpc' = [lpc EXCEPT ![l] = "look"] BY <1>1, <2>2 DEF Produce, Enters, Moves
    <3>. QED BY <2>1, <2>2, <3>1
  <2>3. CASE ~(~async /\ accepted)
    <3>1. UNCHANGED <<lpc, crossed>> BY <1>1, <2>3 DEF Produce
    <3>. QED BY <2>1, <2>3, <3>1
  <2>. QED BY <2>2, <2>3
<1>2. ASSUME NEW l \in Loggers, ProduceFull(l) PROVE Drainers'
    BY <1>2 DEF ProduceFull
<1>3. ASSUME NEW l \in Loggers, Flush(l) PROVE Drainers'
    BY <1>3 DEF Flush, Enters, Moves
<1>4. ASSUME StartDoorbell PROVE Drainers'
    BY <1>4 DEF StartDoorbell
<1>5. ASSUME StartThread PROVE Drainers'
  <2>1. async' = async /\ start = "doorbell" /\ async BY <1>5 DEF StartThread
  <2>2. CASE start' = "running" /\ Enters(Thread)
    <3>1. \A c \in Contexts : ~Draining(c) BY <2>1, <1>5 DEF StartThread, Draining
    <3>2. ~crossed' BY <2>1, <2>2, <3>1, Zenon DEF Enters, Drainers
    <3>. QED BY <2>1, <2>2, <3>2 DEF Enters, Moves
  <2>3. CASE start' = "orphaned" /\ UNCHANGED <<lpc, crossed>>
    BY <2>1, <2>3, <1>5 DEF StartThread
  <2>. QED BY <2>2, <2>3, <1>5 DEF StartThread
<1>6. ASSUME Wake PROVE Drainers'
  <2>1. UNCHANGED <<async, start>> /\ lpc[Thread] = "wait" BY <1>6 DEF Wake
  <2>2. async /\ \A c \in Contexts : ~Draining(c) BY <2>1 DEF Draining
  <2>3. ~crossed' BY <1>6, <2>2, Zenon DEF Wake, Enters, Drainers
  <2>. QED BY <1>6, <2>1, <2>2, <2>3 DEF Wake, Enters, Moves
<1>7. ASSUME NEW c \in Contexts, Look(c) PROVE Drainers'
    BY <1>7 DEF Look, Moves
<1>8. ASSUME NEW c \in Contexts, TakeOut(c) PROVE Drainers'
    BY <1>8 DEF TakeOut, Moves
<1>9. ASSUME NEW c \in Contexts, Emit(c) PROVE Drainers'
    BY <1>9 DEF Emit, Moves
<1>10. ASSUME NEW c \in Contexts, Warn(c) PROVE Drainers'
    BY <1>10 DEF Warn, Leaves, Moves
<1>11. ASSUME NEW c \in Contexts, Report(c) PROVE Drainers'
    BY <1>11 DEF Report, Leaves, Moves
<1>12. ASSUME Tick PROVE Drainers'
    BY <1>12 DEF Tick
<1>13. CASE UNCHANGED lrVars
    BY <1>13 DEF lrVars
<1>. QED
    BY <1>1, <1>2, <1>3, <1>4, <1>5, <1>6, <1>7, <1>8, <1>9, <1>10, <1>11, <1>12, <1>13 DEF
       LogNext, Drain

\* Who enters a ring that is being drained is noticed.
LEMMA OneDrainerKept ==
    ASSUME LogTypes, OneDrainer, [LogNext]_lrVars
    PROVE  OneDrainer'
<1> USE LogRingAssumption DEF lrVars, warning, Contexts, LogTypes, OneDrainer, Draining
<1>1. ASSUME NEW l \in Loggers, NEW accepted \in BOOLEAN, Produce(l, accepted)
    PROVE  OneDrainer'
    BY <1>1 DEF Produce, Rings, Enters, Moves
<1>2. ASSUME NEW l \in Loggers, ProduceFull(l) PROVE OneDrainer'
    BY <1>2 DEF ProduceFull
<1>3. ASSUME NEW l \in Loggers, Flush(l) PROVE OneDrainer'
    BY <1>3 DEF Flush, Enters, Moves
<1>4. ASSUME StartDoorbell PROVE OneDrainer'
    BY <1>4 DEF StartDoorbell
<1>5. ASSUME StartThread PROVE OneDrainer'
    BY <1>5 DEF StartThread, Enters, Moves
<1>6. ASSUME Wake PROVE OneDrainer'
    BY <1>6 DEF Wake, Enters, Moves
<1>7. ASSUME NEW c \in Contexts, Look(c) PROVE OneDrainer'
    BY <1>7 DEF Look, Moves
<1>8. ASSUME NEW c \in Contexts, TakeOut(c) PROVE OneDrainer'
    BY <1>8 DEF TakeOut, Moves
<1>9. ASSUME NEW c \in Contexts, Emit(c) PROVE OneDrainer'
    BY <1>9 DEF Emit, Moves
<1>10. ASSUME NEW c \in Contexts, Warn(c) PROVE OneDrainer'
    BY <1>10 DEF Warn, Leaves, Moves
<1>11. ASSUME NEW c \in Contexts, Report(c) PROVE OneDrainer'
    BY <1>11 DEF Report, Leaves, Moves
<1>12. ASSUME Tick PROVE OneDrainer'
    BY <1>12 DEF Tick
<1>13. CASE UNCHANGED lrVars
    BY <1>13 DEF lrVars
<1>. QED
    BY <1>1, <1>2, <1>3, <1>4, <1>5, <1>6, <1>7, <1>8, <1>9, <1>10, <1>11, <1>12, <1>13 DEF
       LogNext, Drain

\* The read position stays behind the write position.
LEMMA PositionsKept ==
    ASSUME LogTypes, Positions, Ordered, [LogNext]_lrVars
    PROVE  Positions'
<1> USE LogRingAssumption DEF lrVars, warning, Contexts, LogTypes, Positions, Ordered
<1>1. ASSUME NEW l \in Loggers, NEW accepted \in BOOLEAN, Produce(l, accepted)
    PROVE  Positions'
  <2>1. writePos' = writePos + 1 /\ readPos' = readPos /\ taken' = taken
        /\ fired' \in {fired, writePos'} /\ writePos - readPos # RingLen
    BY <1>1 DEF Produce
  <2>2. \A c \in Contexts : lpc'[c] = "take" => lpc[c] = "take"
    BY <1>1 DEF Produce, Enters, Moves
  <2>3. ~crossed' => ~crossed BY <1>1, Zenon DEF Produce, Enters
  <2>. QED BY <2>1, <2>2, <2>3
<1>2. ASSUME NEW l \in Loggers, ProduceFull(l) PROVE Positions'
    BY <1>2 DEF ProduceFull
<1>3. ASSUME NEW l \in Loggers, Flush(l) PROVE Positions'
    BY <1>3 DEF Flush, Enters, Moves
<1>4. ASSUME StartDoorbell PROVE Positions'
    BY <1>4 DEF StartDoorbell
<1>5. ASSUME StartThread PROVE Positions'
    BY <1>5 DEF StartThread, Enters, Moves
<1>6. ASSUME Wake PROVE Positions'
    BY <1>6 DEF Wake, Enters, Moves
<1>7. ASSUME NEW c \in Contexts, Look(c) PROVE Positions'
  <2>1. CASE writePos = readPos BY <2>1, <1>7 DEF Look, Moves
  <2>2. CASE writePos # readPos
    <3>1. readPos + 1 <= writePos BY <2>2 DEF Positions
    <3>. QED BY <2>2, <3>1, <1>7 DEF Look, Moves
  <2>. QED BY <2>1, <2>2
<1>8. ASSUME NEW c \in Contexts, TakeOut(c) PROVE Positions'
  <2>1. readPos' = taken[c] /\ taken[c] <= writePos /\ taken' = taken /\ lpc[c] = "take"
        /\ UNCHANGED <<writePos, fired, crossed>>
    BY <1>8 DEF TakeOut, Positions
  <2>2. \A d \in Contexts : lpc'[d] = "take" => lpc[d] = "take"
    BY <1>8 DEF TakeOut, Moves
  <2>3. ~crossed => readPos' = readPos + 1 BY <2>1 DEF Ordered
  <2>. QED BY <2>1, <2>2, <2>3 DEF Positions
<1>9. ASSUME NEW c \in Contexts, Emit(c) PROVE Positions'
    BY <1>9 DEF Emit, Moves
<1>10. ASSUME NEW c \in Contexts, Warn(c) PROVE Positions'
    BY <1>10 DEF Warn, Leaves, Moves
<1>11. ASSUME NEW c \in Contexts, Report(c) PROVE Positions'
    BY <1>11 DEF Report, Leaves, Moves
<1>12. ASSUME Tick PROVE Positions'
    BY <1>12 DEF Tick
<1>13. CASE UNCHANGED lrVars
    BY <1>13 DEF lrVars
<1>. QED
    BY <1>1, <1>2, <1>3, <1>4, <1>5, <1>6, <1>7, <1>8, <1>9, <1>10, <1>11, <1>12, <1>13 DEF
       LogNext, Drain

\* One message after the other is taken and emitted.
LEMMA OrderedKept ==
    ASSUME LogTypes, Positions, OneDrainer, Ordered, [LogNext]_lrVars
    PROVE  Ordered'
<1> USE LogRingAssumption DEF lrVars, warning, Contexts, LogTypes, Positions, OneDrainer,
       Ordered, Draining
<1>1. ASSUME NEW l \in Loggers, NEW accepted \in BOOLEAN, Produce(l, accepted)
    PROVE  Ordered'
    BY <1>1 DEF Produce, Rings, Enters, Moves
<1>2. ASSUME NEW l \in Loggers, ProduceFull(l) PROVE Ordered'
    BY <1>2 DEF ProduceFull
<1>3. ASSUME NEW l \in Loggers, Flush(l) PROVE Ordered'
    BY <1>3 DEF Flush, Enters, Moves
<1>4. ASSUME StartDoorbell PROVE Ordered'
    BY <1>4 DEF StartDoorbell
<1>5. ASSUME StartThread PROVE Ordered'
    BY <1>5 DEF StartThread, Enters, Moves
<1>6. ASSUME Wake PROVE Ordered'
    BY <1>6 DEF Wake, Enters, Moves
<1>7. ASSUME NEW c \in Contexts, Look(c) PROVE Ordered'
    BY <1>7 DEF Look, Moves
<1>8. ASSUME NEW c \in Contexts, TakeOut(c) PROVE Ordered'
  <2>1. lpc[c] = "take" /\ readPos' = taken[c] /\ UNCHANGED <<taken, emitted, crossed>>
    BY <1>8 DEF TakeOut
  <2>2. ASSUME ~crossed, NEW d \in Contexts, lpc'[d] \in {"take", "emit"} PROVE d = c
    BY <1>8, <2>2 DEF TakeOut, Moves
  <2>3. lpc'[c] = "emit" BY <1>8 DEF TakeOut, Moves
  <2>4. ~crossed => readPos' = readPos + 1 /\ emitted = readPos
    <3>1. ~crossed => \A d \in Contexts : lpc[d] # "emit" BY <2>1
    <3>. QED BY <2>1, <3>1
  <2>. QED BY <2>1, <2>2, <2>3, <2>4
<1>9. ASSUME NEW c \in Contexts, Emit(c) PROVE Ordered'
    BY <1>9 DEF Emit, Moves
<1>10. ASSUME NEW c \in Contexts, Warn(c) PROVE Ordered'
    BY <1>10 DEF Warn, Leaves, Moves
<1>11. ASSUME NEW c \in Contexts, Report(c) PROVE Ordered'
    BY <1>11 DEF Report, Leaves, Moves
<1>12. ASSUME Tick PROVE Ordered'
    BY <1>12 DEF Tick
<1>13. CASE UNCHANGED lrVars
    BY <1>13 DEF lrVars
<1>. QED
    BY <1>1, <1>2, <1>3, <1>4, <1>5, <1>6, <1>7, <1>8, <1>9, <1>10, <1>11, <1>12, <1>13 DEF
       LogNext, Drain

\* A message that enters an empty ring rings the doorbell.
LEMMA AnnouncedKept ==
    ASSUME LogTypes, Drainers, TokenTells, [LogNext]_lrVars
    PROVE  TokenTells'
<1> USE LogRingAssumption DEF lrVars, warning, Contexts, LogTypes, Drainers, TokenTells,
       Draining
<1>1. ASSUME NEW l \in Loggers, NEW accepted \in BOOLEAN, Produce(l, accepted)
    PROVE  TokenTells'
    BY <1>1 DEF Produce, Rings, Enters, Moves
<1>2. ASSUME NEW l \in Loggers, ProduceFull(l) PROVE TokenTells'
    BY <1>2 DEF ProduceFull
<1>3. ASSUME NEW l \in Loggers, Flush(l) PROVE TokenTells'
    BY <1>3 DEF Flush, Enters, Moves
<1>4. ASSUME StartDoorbell PROVE TokenTells'
    BY <1>4 DEF StartDoorbell
<1>5. ASSUME StartThread PROVE TokenTells'
    BY <1>5 DEF StartThread, Enters, Moves
<1>6. ASSUME Wake PROVE TokenTells'
    BY <1>6 DEF Wake, Enters, Moves
<1>7. ASSUME NEW c \in Contexts, Look(c) PROVE TokenTells'
    BY <1>7 DEF Look, Moves
<1>8. ASSUME NEW c \in Contexts, TakeOut(c) PROVE TokenTells'
    BY <1>8 DEF TakeOut, Moves
<1>9. ASSUME NEW c \in Contexts, Emit(c) PROVE TokenTells'
    BY <1>9 DEF Emit, Moves
<1>10. ASSUME NEW c \in Contexts, Warn(c) PROVE TokenTells'
    BY <1>10 DEF Warn, Leaves, Moves
<1>11. ASSUME NEW c \in Contexts, Report(c) PROVE TokenTells'
    BY <1>11 DEF Report, Leaves, Moves
<1>12. ASSUME Tick PROVE TokenTells'
    BY <1>12 DEF Tick
<1>13. CASE UNCHANGED lrVars
    BY <1>13 DEF lrVars
<1>. QED
    BY <1>1, <1>2, <1>3, <1>4, <1>5, <1>6, <1>7, <1>8, <1>9, <1>10, <1>11, <1>12, <1>13 DEF
       LogNext, Drain

\* A logger whose message is accepted drains the ring.
LEMMA AttendedKept ==
    ASSUME LogTypes, Drainers, Positions, Attended, [LogNext]_lrVars
    PROVE  Attended'
<1> USE LogRingAssumption DEF lrVars, warning, Contexts, LogTypes, Drainers, Positions,
       Attended, Draining
<1>1. ASSUME NEW l \in Loggers, NEW accepted \in BOOLEAN, Produce(l, accepted)
    PROVE  Attended'
    BY <1>1 DEF Produce, Rings, Enters, Moves
<1>2. ASSUME NEW l \in Loggers, ProduceFull(l) PROVE Attended'
    BY <1>2 DEF ProduceFull
<1>3. ASSUME NEW l \in Loggers, Flush(l) PROVE Attended'
    BY <1>3 DEF Flush, Enters, Moves
<1>4. ASSUME StartDoorbell PROVE Attended'
    BY <1>4 DEF StartDoorbell
<1>5. ASSUME StartThread PROVE Attended'
    BY <1>5 DEF StartThread, Enters, Moves
<1>6. ASSUME Wake PROVE Attended'
    BY <1>6 DEF Wake, Enters, Moves
<1>7. ASSUME NEW c \in Contexts, Look(c) PROVE Attended'
    BY <1>7 DEF Look, Moves
<1>8. ASSUME NEW c \in Contexts, TakeOut(c) PROVE Attended'
    BY <1>8 DEF TakeOut, Moves
<1>9. ASSUME NEW c \in Contexts, Emit(c) PROVE Attended'
    BY <1>9 DEF Emit, Moves
<1>10. ASSUME NEW c \in Contexts, Warn(c) PROVE Attended'
    BY <1>10 DEF Warn, Leaves, Moves
<1>11. ASSUME NEW c \in Contexts, Report(c) PROVE Attended'
    BY <1>11 DEF Report, Leaves, Moves
<1>12. ASSUME Tick PROVE Attended'
    BY <1>12 DEF Tick
<1>13. CASE UNCHANGED lrVars
    BY <1>13 DEF lrVars
<1>. QED
    BY <1>1, <1>2, <1>3, <1>4, <1>5, <1>6, <1>7, <1>8, <1>9, <1>10, <1>11, <1>12, <1>13 DEF
       LogNext, Drain

\* The counter counts.
LEMMA CountsKept ==
    ASSUME LogTypes, Counts, [LogNext]_lrVars
    PROVE  Counts'
<1> USE LogRingAssumption DEF lrVars, warning, Contexts, LogTypes, Counts
<1>1. ASSUME NEW l \in Loggers, NEW accepted \in BOOLEAN, Produce(l, accepted)
    PROVE  Counts'
    BY <1>1 DEF Produce, Rings, Enters, Moves
<1>2. ASSUME NEW l \in Loggers, ProduceFull(l) PROVE Counts'
  <2>1. losses' = losses + 1 /\ UNCHANGED <<warnedUpto, drops>>
        /\ dropped' = (dropped + 1) % DropWidth
    BY <1>2 DEF ProduceFull
  <2>2. losses' < DropWidth => dropped = losses /\ dropped' = dropped + 1
    BY <2>1, Wraps
  <2>. QED BY <2>1, <2>2
<1>3. ASSUME NEW l \in Loggers, Flush(l) PROVE Counts'
    BY <1>3 DEF Flush, Enters, Moves
<1>4. ASSUME StartDoorbell PROVE Counts'
    BY <1>4 DEF StartDoorbell
<1>5. ASSUME StartThread PROVE Counts'
    BY <1>5 DEF StartThread, Enters, Moves
<1>6. ASSUME Wake PROVE Counts'
    BY <1>6 DEF Wake, Enters, Moves
<1>7. ASSUME NEW c \in Contexts, Look(c) PROVE Counts'
    BY <1>7 DEF Look, Moves
<1>8. ASSUME NEW c \in Contexts, TakeOut(c) PROVE Counts'
    BY <1>8 DEF TakeOut, Moves
<1>9. ASSUME NEW c \in Contexts, Emit(c) PROVE Counts'
    BY <1>9 DEF Emit, Moves
<1>10. ASSUME NEW c \in Contexts, Warn(c) PROVE Counts'
  <2>1. drops' = [drops EXCEPT ![c] = dropped] /\ UNCHANGED <<losses, dropped, warnedUpto>>
    BY <1>10 DEF Warn
  <2>. QED BY <2>1
<1>11. ASSUME NEW c \in Contexts, Report(c) PROVE Counts'
    BY <1>11 DEF Report, Leaves, Moves
<1>12. ASSUME Tick PROVE Counts'
    BY <1>12 DEF Tick
<1>13. CASE UNCHANGED lrVars
    BY <1>13 DEF lrVars
<1>. QED
    BY <1>1, <1>2, <1>3, <1>4, <1>5, <1>6, <1>7, <1>8, <1>9, <1>10, <1>11, <1>12, <1>13 DEF
       LogNext, Drain

\* The thread gives the warning that is due before it sleeps.
LEMMA WarnedKept ==
    ASSUME LogTypes, Drainers, TokenTells, Counts, Warned, [LogNext]_lrVars
    PROVE  Warned'
<1> USE LogRingAssumption DEF lrVars, warning, Contexts, LogTypes, Drainers, TokenTells,
       Counts, Warned
<1>1. ASSUME NEW l \in Loggers, NEW accepted \in BOOLEAN, Produce(l, accepted)
    PROVE  Warned'
    BY <1>1 DEF Produce, Rings, Enters, Moves
<1>2. ASSUME NEW l \in Loggers, ProduceFull(l) PROVE Warned'
  <2>1. writePos # readPos /\ UNCHANGED <<async, token, lpc>>
    BY <1>2 DEF ProduceFull
  <2>. QED BY <2>1 DEF TokenTells
<1>3. ASSUME NEW l \in Loggers, Flush(l) PROVE Warned'
    BY <1>3 DEF Flush, Enters, Moves
<1>4. ASSUME StartDoorbell PROVE Warned'
    BY <1>4 DEF StartDoorbell
<1>5. ASSUME StartThread PROVE Warned'
    BY <1>5 DEF StartThread, Enters, Moves
<1>6. ASSUME Wake PROVE Warned'
    BY <1>6 DEF Wake, Enters, Moves
<1>7. ASSUME NEW c \in Contexts, Look(c) PROVE Warned'
    BY <1>7 DEF Look, Moves
<1>8. ASSUME NEW c \in Contexts, TakeOut(c) PROVE Warned'
    BY <1>8 DEF TakeOut, Moves
<1>9. ASSUME NEW c \in Contexts, Emit(c) PROVE Warned'
    BY <1>9 DEF Emit, Moves
<1>10. ASSUME NEW c \in Contexts, Warn(c) PROVE Warned'
  <2>1. /\ UNCHANGED <<async, token, dropped, warnedUpto, losses>>
        /\ drops' = [drops EXCEPT ![c] = dropped]
    BY <1>10 DEF Warn
  <2>2. async => c = Thread BY <1>10 DEF Warn, Drainers
  <2>3. CASE dropped > warnedUpto /\ ~(ever /\ recent)
    <3>1. lpc' = [lpc EXCEPT ![c] = "report"] BY <1>10, <2>3 DEF Warn, Moves
    <3>. QED BY <2>1, <2>2, <3>1
  <2>4. CASE ~(dropped > warnedUpto /\ ~(ever /\ recent))
    <3>1. held' = (dropped > warnedUpto) BY <1>10, <2>4 DEF Warn
    <3>2. ~held' => ~(dropped > warnedUpto) BY <3>1, Zenon
    <3>3. ~held' /\ losses < DropWidth => dropped = warnedUpto
      BY <3>2 DEF Counts
    <3>4. async => lpc' = [lpc EXCEPT ![c] = "wait"]
      BY <1>10, <2>2, <2>4 DEF Warn, Leaves, Moves
    <3>. QED BY <2>1, <2>2, <3>3, <3>4
  <2>. QED BY <2>3, <2>4
<1>11. ASSUME NEW c \in Contexts, Report(c) PROVE Warned'
    BY <1>11 DEF Report, Leaves, Moves
<1>12. ASSUME Tick PROVE Warned'
    BY <1>12 DEF Tick
<1>13. CASE UNCHANGED lrVars
    BY <1>13 DEF lrVars
<1>. QED
    BY <1>1, <1>2, <1>3, <1>4, <1>5, <1>6, <1>7, <1>8, <1>9, <1>10, <1>11, <1>12, <1>13 DEF
       LogNext, Drain

-----------------------------------------------------------------------------
LEMMA LogInvInit == LogInit => LogInv
<1> USE LogRingAssumption DEF LogInit, LogTypes, Drainers, OneDrainer, Positions, Ordered,
       TokenTells, Attended, Counts, Warned, Draining, Contexts
<1>. SUFFICES ASSUME LogInit PROVE LogInv
  OBVIOUS
<1>1. LogTypes
  <2>1. 0 \in 0..MaxLogs /\ 0 \in 0..MaxDrops /\ 0 \in 0..DropWidth - 1 OBVIOUS
  <2>. QED BY <2>1
<1>2. Drainers /\ OneDrainer OBVIOUS
<1>3. Positions /\ Ordered OBVIOUS
<1>4. TokenTells /\ Attended /\ Counts /\ Warned OBVIOUS
<1>. QED BY <1>1, <1>2, <1>3, <1>4 DEF LogInv

LEMMA LogInvStep == LogInv /\ [LogNext]_lrVars => LogInv'
BY LogTypesKept, DrainersKept, OneDrainerKept, PositionsKept, OrderedKept, AnnouncedKept,
   AttendedKept, CountsKept, WarnedKept DEF LogInv

(* The inductive invariant of the ring, the doorbell and the drop counter holds in
   every reachable state. *)
THEOREM LogInvariance == LogSpec => []LogInv
BY LogInvInit, LogInvStep, PTL DEF LogSpec

(* ring.c, log_async.c: every variable keeps its type, and the ring never holds more
   than it has room for. *)
THEOREM LogTypeCorrect == LogSpec => []LogTypeOK
<1>1. LogInv => LogTypeOK
  BY LogRingAssumption DEF LogInv, LogTypes, Positions, LogTypeOK
<1>. QED BY <1>1, LogInvariance, PTL

(* log_ring_produce, log_ring_drain: messages come out once and in order, and none is
   left behind. *)
THEOREM DeliveredHolds == LogSpec => []Delivered
<1>1. ASSUME LogInv PROVE Delivered
  <2> USE <1>1 DEF LogInv
  <2>1. async => ~crossed BY DEF Drainers
  <2>2. ~crossed => \A c \in Contexts : lpc[c] = "emit" => taken[c] = emitted + 1
    BY LogRingAssumption DEF Ordered, LogTypes
  <2>3. async /\ Asleep => writePos = readPos BY DEF TokenTells, Asleep
  <2>4. ~async /\ ~(\E c \in Contexts : Draining(c)) => fired <= readPos
    BY DEF Attended, Draining
  <2>. QED BY <2>1, <2>2, <2>3, <2>4 DEF Delivered
<1>. QED BY <1>1, LogInvariance, PTL

(* log_drop_warn: when the log thread sleeps, every dropped message has been reported,
   unless the last warning was held back or the counter has wrapped. *)
THEOREM DropsReportedHolds == LogSpec => []DropsReported
<1>1. LogInv => DropsReported
  BY DEF LogInv, Warned, Asleep, DropsReported
<1>. QED BY <1>1, LogInvariance, PTL

-----------------------------------------------------------------------------
(* MotorSync *)

\* The places of a wait that only looks for old dones, and those of one for which
\* waitThread was written.
Looks == {"snap", "take", "resnap", "wipe", "drain"}
Enrolled == {"casWait", "casWaiting", "sleep", "expired"}

\* The calls of the completion, and the places of the callers that make them.
WaitsInside ==
    \A c \in Callers :
        /\ wpc[c] # "out" => mpc[c] \in {"clearing", "draining", "waiting"}
        /\ mpc[c] \in {"clearing", "draining"} => wpc[c] \in Looks \cup {"out"}
        /\ mpc[c] \in {"clearing", "draining"} /\ wpc[c] # "out" => tmo[c] = "zero"
        /\ mpc[c] = "waiting" /\ wpc[c] # "out" => tmo[c] # "zero"
        /\ mpc[c] # "out" => command[c] \in Commands

OneAttempt == ~mixed => \A c, d \in Callers : Owns(c) /\ Owns(d) => c = d

\* The attempt of c was answered.
Has(c) == pending = NoCommand /\ resultOK /\ response = command[c]

\* The registration is the one of the attempt under way.
Booked ==
    ~mixed =>
        /\ pending # NoCommand =>
              \E c \in Callers : mpc[c] \in {"send", "wait", "waiting", "cancel"}
        /\ \A c \in Callers :
              mpc[c] \in {"send", "wait", "waiting", "cancel"} => pending = command[c] \/ Has(c)

\* The status and the place of the one caller that waits for an answer.  A caller
\* that looks for old dones may have wiped its name.
StatusPlaced ==
    ~mixed =>
        /\ \A c \in Callers : mpc[c] = "waiting" =>
              /\ wpc[c] \in {"take", "undoDone", "lateDone", "lateTimeout", "woken"} =>
                     status = "DONE"
              /\ wpc[c] = "casWaiting" => status \in {"WAIT", "DONE"}
              /\ wpc[c] \in {"sleep", "expired"} => status \in {"WAITING", "DONE"}
              /\ wpc[c] \notin {"resnap", "undoBusy", "odd"}
              /\ wpc[c] \in Enrolled => waitThread \in {c, NoCaller}
        /\ status = "WAIT" =>
              \E c \in Callers : mpc[c] = "waiting" /\ wpc[c] = "casWaiting"
        /\ status = "WAITING" =>
              \E c \in Callers : mpc[c] = "waiting" /\ wpc[c] \in {"sleep", "expired"}

\* A token is on its way to the caller that waits, which has not returned.
TokensPlaced ==
    ~mixed =>
        \A x \in signal : \E c \in Callers :
            /\ x = Event!Box(c) /\ mpc[c] = "waiting"
            /\ \/ wpc[c] = "drain"
               \/ /\ status = "DONE"
                  /\ wpc[c] \in {"casWaiting", "sleep", "expired", "lateDone", "lateTimeout"}

\* c has looked for old dones, and there were none left.
Looked(c) ==
    \/ mpc[c] = "register"
    \/ mpc[c] = "clearing" /\ (wpc[c] = "resnap" \/ (wpc[c] = "out" /\ wret[c] # "OK"))

\* A done is the one of the attempt under way, or it is about to be taken.
EarnedDone ==
    ~mixed =>
        /\ status = "DONE" => \A c \in Callers : Looked(c) => \E d \in Callers : Owns(d)
        /\ \A c \in Callers :
             /\ mpc[c] \in {"send", "wait", "waiting"} /\ status = "DONE" => Has(c)
             /\ mpc[c] = "waiting" /\ wpc[c] \in {"wipe", "drain"} => Has(c) /\ status # "DONE"
             /\ mpc[c] = "waiting" /\ wpc[c] = "out" =>
                    wret[c] = "TIMEOUT" \/ (wret[c] = "OK" /\ Has(c) /\ status # "DONE")
             /\ mpc[c] = "fetch" => Has(c) /\ status # "DONE"
             /\ mpc[c] = "cancel" => wpc[c] = "out" /\ wret[c] = "TIMEOUT"
             /\ mpc[c] = "draining" =>
                  /\ wpc[c] # "resnap" /\ (wpc[c] = "take" => status = "DONE")
                  /\ wpc[c] = "out" /\ wret[c] # "OK" => status # "DONE"

MotorInv ==
    /\ MotorTypeOK /\ WaitsInside
    /\ OneAttempt /\ Booked /\ StatusPlaced /\ TokensPlaced /\ EarnedDone

LEMMA MotorTypesKept ==
    ASSUME MotorTypeOK, WaitsInside, MotorNext
    PROVE  MotorTypeOK' /\ WaitsInside'
<1> USE MotorSyncAssumption
    DEF MotorTypeOK, WaitsInside, Looks, registration, eventVars, CallerGoes, Call, Returns,
        Event!TypeOK, Event!Status, Event!Results
<1> DEFINE Kept == MotorTypeOK' /\ WaitsInside'
<1>1. ASSUME NEW c \in Callers, NEW k \in Commands, Request(c, k) PROVE Kept
    BY <1>1 DEF Request
<1>2. ASSUME NEW c \in Callers, Empty(c) PROVE Kept
    BY <1>2 DEF Empty, Wait, Event!WaitCall, Event!shared, Event!posting
<1>3. ASSUME NEW c \in Callers, Emptied(c) PROVE Kept
  <2>1. mixed' \in BOOLEAN
    BY <1>3 DEF Emptied
  <2>2. /\ mpc[c] \in {"clearing", "draining"} /\ wpc[c] = "out"
        /\ \E p \in {"clear", "drain", "register", "next"} : mpc' = [mpc EXCEPT ![c] = p]
        /\ UNCHANGED <<command, attempt, registration, eventVars, sent>>
    BY <1>3 DEF Emptied
  <2>. QED
    BY <2>1, <2>2
<1>4. ASSUME NEW c \in Callers, Register(c) PROVE Kept
  <2>1. mixed' \in BOOLEAN /\ UNCHANGED <<eventVars, sent>> /\ mpc[c] = "register"
    BY <1>4 DEF Register
  <2>2. CASE Returns(c) /\ UNCHANGED registration
    BY <2>1, <2>2
  <2>3. CASE /\ pending' = command[c] /\ resultOK' = FALSE /\ response' = command[c]
             /\ CallerGoes(c, "send") /\ Call
    BY <2>1, <2>3
  <2>. QED
    BY <1>4, <2>2, <2>3 DEF Register
<1>5. ASSUME NEW c \in Callers, Send(c) PROVE Kept
  <2>1. mixed' \in BOOLEAN /\ UNCHANGED eventVars /\ mpc[c] = "send"
    BY <1>5 DEF Send
  <2>2. CASE /\ sent' = sent \cup {command[c]} /\ CallerGoes(c, "wait") /\ Call
             /\ UNCHANGED registration
    BY <2>1, <2>2
  <2>3. CASE Clears /\ Returns(c) /\ UNCHANGED sent
    BY <2>1, <2>3 DEF Clears
  <2>. QED
    BY <1>5, <2>2, <2>3 DEF Send
<1>6. ASSUME NEW c \in Callers, Await(c) PROVE Kept
    BY <1>6 DEF Await, Wait, Event!WaitCall, Event!shared, Event!posting
<1>7. ASSUME NEW c \in Callers, Awaited(c) PROVE Kept
    BY <1>7 DEF Awaited
<1>8. ASSUME NEW c \in Callers, Cancel(c) PROVE Kept
    BY <1>8 DEF Cancel, Clears
<1>9. ASSUME NEW c \in Callers, Fetch(c) PROVE Kept
  <2>1. UNCHANGED <<registration, eventVars, sent, mixed>> /\ mpc[c] = "fetch"
    BY <1>9 DEF Fetch
  <2>2. CASE Returns(c)
    BY <2>1, <2>2
  <2>3. CASE CallerGoes(c, "next") /\ Call
    BY <2>1, <2>3
  <2>. QED
    BY <1>9, <2>2, <2>3 DEF Fetch
<1>10. ASSUME NEW c \in Callers, NextAttempt(c) PROVE Kept
  <2>1. UNCHANGED <<registration, eventVars, sent, mixed>> /\ mpc[c] = "next"
    BY <1>10 DEF NextAttempt
  <2>2. CASE Returns(c)
    BY <2>1, <2>2
  <2>3. CASE /\ attempt[c] < MaxRetry /\ attempt' = [attempt EXCEPT ![c] = @ + 1]
             /\ CallerGoes(c, "clear") /\ UNCHANGED command
    BY <2>1, <2>3
  <2>. QED
    BY <1>10, <2>2, <2>3 DEF NextAttempt
<1>11. ASSUME NEW c \in Callers, WaitStep(c) PROVE Kept
  <2> DEFINE Typed == /\ UNCHANGED <<backend, dpc, target, dret, calls, crowded>>
                      /\ status' \in Event!Status /\ waitThread' \in Callers \cup {NoCaller}
                      /\ signal' \subseteq Callers \cup {MtSem} /\ owed' \in Int
                      /\ overtaken' \in BOOLEAN /\ unsent' \in BOOLEAN
             Goes == \E p \in Looks \cup {"enroll", "casWait", "undoDone", "undoBusy",
                            "casWaiting", "lateDone", "lateTimeout", "odd", "sleep", "woken",
                            "expired", "wipeTimeout"} :
                        Event!GoTo(c, p) /\ (wpc[c] \in Looks /\ tmo[c] = "zero" => p \in Looks)
             Ends == \E r \in Event!Results : Event!WaitReturns(c, r)
  <2>1. /\ UNCHANGED <<registration, mpc, command, attempt, sent>>
        /\ mixed' \in BOOLEAN
    BY <1>11 DEF WaitStep
  <2>2. wpc[c] # "out" /\ Typed /\ (Goes \/ Ends)
    <3> USE DEF Event!WaiterAt, Event!Consumed, Event!shared, Event!posting, Event!Box,
                Event!InDone
    <3>1. CASE Event!Snap(c)
      BY <3>1 DEF Event!Snap
    <3>2. CASE Event!TakeDone(c)
      BY <3>2 DEF Event!TakeDone
    <3>3. CASE Event!Enroll(c)
      BY <3>3 DEF Event!Enroll
    <3>4. CASE Event!RegisterWait(c)
      BY <3>4 DEF Event!RegisterWait
    <3>5. CASE Event!RegisterFailed(c)
      <4>1. CASE wpc[c] = "undoDone"
        BY <3>5, <4>1 DEF Event!RegisterFailed
      <4>2. CASE wpc[c] = "undoBusy"
        BY <3>5, <4>2 DEF Event!RegisterFailed
      <4>. QED
        BY <3>5, <4>1, <4>2 DEF Event!RegisterFailed
    <3>6. CASE Event!CommitWait(c)
      BY <3>6 DEF Event!CommitWait
    <3>7. CASE Event!LateDone(c)
      BY <3>7 DEF Event!LateDone
    <3>8. CASE Event!Odd(c)
      BY <3>8 DEF Event!Odd
    <3>9. CASE Event!Wake(c)
      BY <3>9 DEF Event!Wake
    <3>10. CASE Event!Expire(c)
      BY <3>10 DEF Event!Expire
    <3>11. CASE Event!Woken(c)
      <4>1. CASE wpc[c] = "woken"
        BY <3>11, <4>1 DEF Event!Woken
      <4>2. CASE wpc[c] = "lateTimeout"
        BY <3>11, <4>2 DEF Event!Woken
      <4>. QED
        BY <3>11, <4>1, <4>2 DEF Event!Woken
    <3>12. CASE Event!Expired(c)
      BY <3>12 DEF Event!Expired
    <3>13. CASE Event!Wipe(c)
      BY <3>13 DEF Event!Wipe
    <3>14. CASE Event!Drain(c)
      BY <3>14 DEF Event!Drain
    <3>. QED
      BY <1>11, <3>1, <3>2, <3>3, <3>4, <3>5, <3>6, <3>7, <3>8, <3>9, <3>10, <3>11, <3>12, <3>13, <3>14
         DEF WaitStep, Event!WaiterStep
  <2>3. CASE Goes
    BY <2>1, <2>2, <2>3 DEF Event!GoTo
  <2>4. CASE Ends
    BY <2>1, <2>2, <2>4 DEF Event!WaitReturns
  <2>. QED
    BY <2>2, <2>3, <2>4
<1>12. ASSUME NEW k \in Commands, Reply(k) PROVE Kept
  <2>1. /\ resultOK' = TRUE /\ response' = k /\ pending' = NoCommand
        /\ UNCHANGED <<mpc, command, attempt, sent, mixed>>
        /\ UNCHANGED eventVars \/ Event!DoneFromIsr
    BY <1>12 DEF Reply
  <2>2. CASE UNCHANGED eventVars
    BY <2>1, <2>2
  <2>3. CASE Event!DoneFromIsr
    <3>1. Event!Box(waitThread) \in Callers \cup {MtSem, NoCaller}
      BY DEF Event!Box
    <3>. QED
      BY <2>1, <2>3, <3>1 DEF Event!DoneFromIsr, Event!waiting, Event!posting
  <2>. QED
    BY <2>1, <2>2, <2>3
<1>. QED
    BY <1>1, <1>2, <1>3, <1>4, <1>5, <1>6, <1>7, <1>8, <1>9, <1>10, <1>11, <1>12
       DEF MotorNext, CallerStep

LEMMA OneAttemptKept ==
    ASSUME MotorTypeOK, WaitsInside, OneAttempt, MotorNext
    PROVE  OneAttempt'
<1> USE DEF MotorTypeOK, OneAttempt, Owns, registration, eventVars, CallerGoes, Call, Returns
<1>1. ASSUME NEW c \in Callers, NEW k \in Commands, Request(c, k) PROVE OneAttempt'
    BY <1>1 DEF Request
<1>2. ASSUME NEW c \in Callers, Empty(c) PROVE OneAttempt'
    BY <1>2 DEF Empty
<1>3. ASSUME NEW c \in Callers, Emptied(c) PROVE OneAttempt'
    BY <1>3 DEF Emptied
<1>4. ASSUME NEW c \in Callers, Register(c) PROVE OneAttempt'
  <2>1. CASE Returns(c) /\ UNCHANGED <<registration, mixed>>
    BY <2>1
  <2>2. CASE CallerGoes(c, "send") /\ mixed' = (mixed \/ Meets(c))
    <3>1. ~mixed' => ~mixed /\ \A d \in Callers \ {c} : ~Owns(d)
      BY <2>2 DEF Meets
    <3>2. mpc' = [mpc EXCEPT ![c] = "send"]
      BY <2>2
    <3>. QED
      BY <3>1, <3>2
  <2>. QED
    BY <1>4, <2>1, <2>2 DEF Register
<1>5. ASSUME NEW c \in Callers, Send(c) PROVE OneAttempt'
    BY <1>5 DEF Send
<1>6. ASSUME NEW c \in Callers, Await(c) PROVE OneAttempt'
    BY <1>6 DEF Await
<1>7. ASSUME NEW c \in Callers, Awaited(c) PROVE OneAttempt'
    BY <1>7 DEF Awaited
<1>8. ASSUME NEW c \in Callers, Cancel(c) PROVE OneAttempt'
    BY <1>8 DEF Cancel
<1>9. ASSUME NEW c \in Callers, Fetch(c) PROVE OneAttempt'
    BY <1>9 DEF Fetch
<1>10. ASSUME NEW c \in Callers, NextAttempt(c) PROVE OneAttempt'
    BY <1>10 DEF NextAttempt
<1>11. ASSUME NEW c \in Callers, WaitStep(c) PROVE OneAttempt'
    BY <1>11 DEF WaitStep
<1>12. ASSUME NEW k \in Commands, Reply(k) PROVE OneAttempt'
    BY <1>12 DEF Reply
<1>. QED
    BY <1>1, <1>2, <1>3, <1>4, <1>5, <1>6, <1>7, <1>8, <1>9, <1>10, <1>11, <1>12
       DEF MotorNext, CallerStep

LEMMA BookedKept ==
    ASSUME MotorInv, MotorNext
    PROVE  Booked'
<1> USE MotorSyncAssumption
    DEF MotorInv, MotorTypeOK, WaitsInside, OneAttempt, Booked, Has, Owns, EarnedDone, registration, eventVars,
        CallerGoes, Call, Returns
<1>1. ASSUME NEW c \in Callers, NEW k \in Commands, Request(c, k) PROVE Booked'
    BY <1>1 DEF Request
<1>2. ASSUME NEW c \in Callers, Empty(c) PROVE Booked'
    BY <1>2 DEF Empty
<1>3. ASSUME NEW c \in Callers, Emptied(c) PROVE Booked'
    BY <1>3 DEF Emptied
<1>4. ASSUME NEW c \in Callers, Register(c) PROVE Booked'
    BY <1>4 DEF Register, Meets
<1>5. ASSUME NEW c \in Callers, Send(c) PROVE Booked'
    BY <1>5 DEF Send, Clears
<1>6. ASSUME NEW c \in Callers, Await(c) PROVE Booked'
    BY <1>6 DEF Await
<1>7. ASSUME NEW c \in Callers, Awaited(c) PROVE Booked'
    BY <1>7 DEF Awaited
<1>8. ASSUME NEW c \in Callers, Cancel(c) PROVE Booked'
    BY <1>8 DEF Cancel, Clears
<1>9. ASSUME NEW c \in Callers, Fetch(c) PROVE Booked'
    BY <1>9 DEF Fetch
<1>10. ASSUME NEW c \in Callers, NextAttempt(c) PROVE Booked'
    BY <1>10 DEF NextAttempt
<1>11. ASSUME NEW c \in Callers, WaitStep(c) PROVE Booked'
    BY <1>11 DEF WaitStep
<1>12. ASSUME NEW k \in Commands, Reply(k) PROVE Booked'
    BY <1>12 DEF Reply
<1>. QED
    BY <1>1, <1>2, <1>3, <1>4, <1>5, <1>6, <1>7, <1>8, <1>9, <1>10, <1>11, <1>12
       DEF MotorNext, CallerStep

-----------------------------------------------------------------------------
\* A step of completion_wait.
LEMMA WaitKeeps ==
    ASSUME MotorInv, NEW c \in Callers, WaitStep(c)
    PROVE  StatusPlaced' /\ TokensPlaced' /\ EarnedDone'
<1> USE MotorSyncAssumption
    DEF MotorInv, MotorTypeOK, WaitsInside, Looks, Enrolled, OneAttempt, Booked, Has, Owns, Meets,
        Looked, registration, Event!TypeOK, Event!Status, Event!WaiterAt, Event!GoTo,
        Event!WaitReturns, Event!Consumed, Event!shared, Event!posting
<1> SUFFICES ASSUME ~mixed'
             PROVE  StatusPlaced' /\ TokensPlaced' /\ EarnedDone'
    BY DEF StatusPlaced, TokensPlaced, EarnedDone
<1>1. /\ ~mixed /\ UNCHANGED <<registration, mpc, command, attempt, sent>>
      /\ mpc[c] = "clearing" /\ owed' < owed => \A d \in Callers \ {c} : ~Owns(d)
    BY DEF WaitStep
<1>2. CASE Event!Snap(c)
  <2>1. StatusPlaced'
    BY <1>1, <1>2 DEF Event!Snap, StatusPlaced, TokensPlaced, Event!Box
  <2>2. TokensPlaced'
    BY <1>1, <1>2 DEF Event!Snap, StatusPlaced, TokensPlaced, Event!Box
  <2>3. EarnedDone'
    BY <1>1, <1>2 DEF Event!Snap, StatusPlaced, EarnedDone
  <2>. QED
    BY <2>1, <2>2, <2>3
<1>3. CASE Event!TakeDone(c)
  <2>1. StatusPlaced'
    BY <1>1, <1>3 DEF Event!TakeDone, StatusPlaced, TokensPlaced, Event!Box
  <2>2. CASE status = "DONE"
    <3>1. /\ status' = "INIT" /\ wpc' = [wpc EXCEPT ![c] = "wipe"] /\ signal' = signal
          /\ backend' = backend /\ wret' = wret /\ wpc[c] = "take"
          /\ \A d \in Callers \ {c} : ~Owns(d)
      BY <1>1, <1>3, <2>2 DEF Event!TakeDone
    <3>2. signal = {}
      BY <1>1, <3>1 DEF TokensPlaced
    <3>3. TokensPlaced'
      BY <3>1, <3>2 DEF TokensPlaced
    <3>4. EarnedDone'
      BY <1>1, <2>2, <3>1 DEF EarnedDone
    <3>. QED
      BY <2>1, <3>3, <3>4
  <2>3. CASE status # "DONE"
    <3>1. /\ status' = status /\ wpc' = [wpc EXCEPT ![c] = "resnap"] /\ signal' = signal
          /\ backend' = backend /\ wret' = wret /\ wpc[c] = "take"
      BY <1>3, <2>3 DEF Event!TakeDone
    <3>2. TokensPlaced'
      BY <1>1, <2>3, <3>1 DEF TokensPlaced, Event!Box
    <3>3. EarnedDone'
      BY <1>1, <2>3, <3>1 DEF StatusPlaced, EarnedDone
    <3>. QED
      BY <2>1, <3>2, <3>3
  <2>. QED
    BY <2>1, <2>2, <2>3
<1>4. CASE Event!Enroll(c)
  <2>0. mpc[c] = "waiting" /\ \A d \in Callers \ {c} : mpc[d] # "waiting"
    BY <1>1, <1>4 DEF Event!Enroll
  <2>1. StatusPlaced'
    BY <1>1, <1>4, <2>0 DEF Event!Enroll, StatusPlaced
  <2>2. TokensPlaced'
    BY <1>1, <1>4 DEF Event!Enroll, StatusPlaced, TokensPlaced, Event!Box
  <2>3. EarnedDone'
    BY <1>1, <1>4 DEF Event!Enroll, StatusPlaced, EarnedDone
  <2>. QED
    BY <2>1, <2>2, <2>3
<1>5. CASE Event!RegisterWait(c)
  <2>0. mpc[c] = "waiting" /\ \A d \in Callers \ {c} : mpc[d] # "waiting"
    BY <1>1, <1>5 DEF Event!RegisterWait
  <2>1. StatusPlaced'
    BY <1>1, <1>5, <2>0 DEF Event!RegisterWait, StatusPlaced
  <2>2. TokensPlaced'
    BY <1>1, <1>5 DEF Event!RegisterWait, StatusPlaced, TokensPlaced, Event!Box
  <2>3. EarnedDone'
    BY <1>1, <1>5 DEF Event!RegisterWait, StatusPlaced, EarnedDone
  <2>. QED
    BY <2>1, <2>2, <2>3
<1>6. CASE Event!RegisterFailed(c)
  <2>1. StatusPlaced'
    BY <1>1, <1>6 DEF Event!RegisterFailed, StatusPlaced, TokensPlaced, Event!Box
  <2>2. TokensPlaced'
    BY <1>1, <1>6 DEF Event!RegisterFailed, StatusPlaced, TokensPlaced, Event!Box
  <2>3. EarnedDone'
    BY <1>1, <1>6 DEF Event!RegisterFailed, StatusPlaced, EarnedDone
  <2>. QED
    BY <2>1, <2>2, <2>3
<1>7. CASE Event!CommitWait(c)
  <2>0. mpc[c] = "waiting" /\ \A d \in Callers \ {c} : mpc[d] # "waiting"
    BY <1>1, <1>7 DEF Event!CommitWait
  <2>1. StatusPlaced'
    BY <1>1, <1>7, <2>0 DEF Event!CommitWait, StatusPlaced
  <2>2. TokensPlaced'
    BY <1>1, <1>7 DEF Event!CommitWait, StatusPlaced, TokensPlaced, Event!Box
  <2>3. EarnedDone'
    BY <1>1, <1>7 DEF Event!CommitWait, StatusPlaced, EarnedDone
  <2>. QED
    BY <2>1, <2>2, <2>3
<1>8. CASE Event!LateDone(c)
  <2>1. StatusPlaced'
    BY <1>1, <1>8 DEF Event!LateDone, StatusPlaced, TokensPlaced, Event!Box
  <2>2. TokensPlaced'
    BY <1>1, <1>8 DEF Event!LateDone, StatusPlaced, TokensPlaced, Event!Box
  <2>3. EarnedDone'
    BY <1>1, <1>8 DEF Event!LateDone, StatusPlaced, EarnedDone
  <2>. QED
    BY <2>1, <2>2, <2>3
<1>9. CASE Event!Odd(c)
  <2>1. StatusPlaced'
    BY <1>1, <1>9 DEF Event!Odd, StatusPlaced, TokensPlaced, Event!Box
  <2>2. TokensPlaced'
    BY <1>1, <1>9 DEF Event!Odd, StatusPlaced, TokensPlaced, Event!Box
  <2>3. EarnedDone'
    BY <1>1, <1>9 DEF Event!Odd, StatusPlaced, EarnedDone
  <2>. QED
    BY <2>1, <2>2, <2>3
<1>10. CASE Event!Wake(c)
  <2>1. StatusPlaced'
    BY <1>1, <1>10 DEF Event!Wake, StatusPlaced, TokensPlaced, Event!Box
  <2>2. TokensPlaced'
    BY <1>1, <1>10 DEF Event!Wake, StatusPlaced, TokensPlaced, Event!Box
  <2>3. EarnedDone'
    BY <1>1, <1>10 DEF Event!Wake, StatusPlaced, EarnedDone
  <2>. QED
    BY <2>1, <2>2, <2>3
<1>11. CASE Event!Expire(c)
  <2>1. StatusPlaced'
    BY <1>1, <1>11 DEF Event!Expire, StatusPlaced, TokensPlaced, Event!Box
  <2>2. TokensPlaced'
    BY <1>1, <1>11 DEF Event!Expire, StatusPlaced, TokensPlaced, Event!Box
  <2>3. EarnedDone'
    BY <1>1, <1>11 DEF Event!Expire, StatusPlaced, EarnedDone
  <2>. QED
    BY <2>1, <2>2, <2>3
<1>12. CASE Event!Woken(c)
  <2>1. StatusPlaced'
    BY <1>1, <1>12 DEF Event!Woken, StatusPlaced, TokensPlaced, Event!Box
  <2>2. TokensPlaced'
    BY <1>1, <1>12 DEF Event!Woken, StatusPlaced, TokensPlaced, Event!Box
  <2>3. EarnedDone'
    BY <1>1, <1>12 DEF Event!Woken, StatusPlaced, EarnedDone
  <2>. QED
    BY <2>1, <2>2, <2>3
<1>13. CASE Event!Expired(c)
  <2>0. mpc[c] = "waiting" /\ \A d \in Callers \ {c} : mpc[d] # "waiting"
    BY <1>1, <1>13 DEF Event!Expired
  <2>1. StatusPlaced'
    BY <1>1, <1>13, <2>0 DEF Event!Expired, StatusPlaced
  <2>2. TokensPlaced'
    BY <1>1, <1>13 DEF Event!Expired, StatusPlaced, TokensPlaced, Event!Box
  <2>3. EarnedDone'
    BY <1>1, <1>13 DEF Event!Expired, StatusPlaced, EarnedDone
  <2>. QED
    BY <2>1, <2>2, <2>3
<1>14. CASE Event!Wipe(c)
  <2>1. StatusPlaced'
    BY <1>1, <1>14 DEF Event!Wipe, StatusPlaced, TokensPlaced, Event!Box
  <2>2. CASE wpc[c] = "wipe" /\ Event!GoTo(c, "drain")
    <3>1. status' = status /\ signal' = signal /\ backend' = backend
      BY <1>14 DEF Event!Wipe
    <3>2. TokensPlaced'
      BY <1>1, <2>2, <3>1 DEF TokensPlaced, Event!Box
    <3>3. EarnedDone'
      BY <1>1, <2>2, <3>1 DEF EarnedDone
    <3>. QED
      BY <2>1, <3>2, <3>3
  <2>3. CASE wpc[c] = "wipeTimeout" /\ Event!WaitReturns(c, "TIMEOUT")
    <3>1. /\ status' = status /\ signal' = signal /\ backend' = backend
          /\ mpc[c] = "waiting" /\ mpc' = mpc
          /\ wpc' = [wpc EXCEPT ![c] = "out"] /\ wret' = [wret EXCEPT ![c] = "TIMEOUT"]
      BY <1>1, <1>14, <2>3 DEF Event!Wipe
    <3>2. \A d \in Callers : Event!Box(d)' = Event!Box(d)
      BY <3>1 DEF Event!Box
    <3>3. \A x \in signal : \E d \in Callers \ {c} :
             /\ x = Event!Box(d) /\ mpc[d] = "waiting"
             /\ \/ wpc[d] = "drain"
                \/ /\ status = "DONE"
                   /\ wpc[d] \in {"casWaiting", "sleep", "expired", "lateDone", "lateTimeout"}
      BY <1>1, <2>3 DEF TokensPlaced
    <3>4. TokensPlaced'
      BY <3>1, <3>2, <3>3 DEF TokensPlaced
    <3>5. EarnedDone'
      BY <1>1, <3>1 DEF EarnedDone
    <3>. QED
      BY <2>1, <3>4, <3>5
  <2>. QED
    BY <1>14, <2>1, <2>2, <2>3 DEF Event!Wipe
<1>15. CASE Event!Drain(c)
  <2>1. StatusPlaced'
    BY <1>1, <1>15 DEF Event!Drain, StatusPlaced, TokensPlaced, Event!Box
  <2>2. TokensPlaced'
    BY <1>1, <1>15 DEF Event!Drain, StatusPlaced, TokensPlaced, Event!Box
  <2>3. EarnedDone'
    BY <1>1, <1>15 DEF Event!Drain, StatusPlaced, EarnedDone
  <2>. QED
    BY <2>1, <2>2, <2>3
<1>. QED
    BY <1>2, <1>3, <1>4, <1>5, <1>6, <1>7, <1>8, <1>9, <1>10, <1>11, <1>12, <1>13, <1>14, <1>15
       DEF WaitStep, Event!WaiterStep

\* The other steps of the callers, and a reply.
LEMMA MotorPlacesKept ==
    ASSUME MotorInv, MotorNext
    PROVE  StatusPlaced' /\ TokensPlaced' /\ EarnedDone'
<1> USE MotorSyncAssumption
    DEF MotorInv, MotorTypeOK, WaitsInside, Enrolled, OneAttempt, Booked, Has, Owns, Meets,
        Looked, registration, eventVars, CallerGoes, Call, Returns, StatusPlaced, TokensPlaced,
        EarnedDone, Event!TypeOK, Event!Status, Event!Box
<1> DEFINE Kept == StatusPlaced' /\ TokensPlaced' /\ EarnedDone'
<1>1. ASSUME NEW c \in Callers, NEW k \in Commands, Request(c, k) PROVE Kept
  <2>1. StatusPlaced'
    BY <1>1 DEF Request
  <2>2. TokensPlaced'
    BY <1>1 DEF Request
  <2>3. EarnedDone'
    BY <1>1 DEF Request
  <2>. QED
    BY <2>1, <2>2, <2>3
<1>2. ASSUME NEW c \in Callers, Empty(c) PROVE Kept
  <2>1. StatusPlaced'
    BY <1>2 DEF Empty, Wait, Event!WaitCall, Event!shared, Event!posting
  <2>2. TokensPlaced'
    BY <1>2 DEF Empty, Wait, Event!WaitCall, Event!shared, Event!posting
  <2>3. EarnedDone'
    BY <1>2 DEF Empty, Wait, Event!WaitCall, Event!shared, Event!posting
  <2>. QED
    BY <2>1, <2>2, <2>3
<1>3. ASSUME NEW c \in Callers, Emptied(c) PROVE Kept
  <2>1. StatusPlaced'
    BY <1>3 DEF Emptied
  <2>2. TokensPlaced'
    BY <1>3 DEF Emptied
  <2>3. EarnedDone'
    BY <1>3 DEF Emptied
  <2>. QED
    BY <2>1, <2>2, <2>3
<1>4. ASSUME NEW c \in Callers, Register(c) PROVE Kept
  <2>1. StatusPlaced'
    BY <1>4 DEF Register
  <2>2. TokensPlaced'
    BY <1>4 DEF Register
  <2>3. CASE Returns(c) /\ UNCHANGED <<registration, mixed>>
    <3>1. /\ UNCHANGED <<registration, status, wpc, wret, mixed>> /\ mpc[c] = "register"
          /\ mpc' = [mpc EXCEPT ![c] = "out"] /\ command' = [command EXCEPT ![c] = NoCommand]
      BY <1>4, <2>3 DEF Register
    <3>. QED
      BY <2>1, <2>2, <3>1
  <2>4. CASE /\ pending = NoCommand /\ response' = command[c]
             /\ CallerGoes(c, "send") /\ Call /\ mixed' = (mixed \/ Meets(c))
    <3>1. /\ UNCHANGED <<status, wpc, wret, command>> /\ mpc[c] = "register"
          /\ mpc' = [mpc EXCEPT ![c] = "send"]
      BY <1>4, <2>4 DEF Register
    <3>2. ~mixed' => ~mixed /\ status # "DONE" /\ \A d \in Callers \ {c} : ~Owns(d)
      BY <2>4, <3>1
    <3>3. EarnedDone'
      BY <3>1, <3>2
    <3>. QED
      BY <2>1, <2>2, <3>3
  <2>. QED
    BY <1>4, <2>3, <2>4 DEF Register
<1>5. ASSUME NEW c \in Callers, Send(c) PROVE Kept
  <2>1. StatusPlaced'
    BY <1>5 DEF Send, Clears
  <2>2. TokensPlaced'
    BY <1>5 DEF Send, Clears
  <2>3. EarnedDone'
    BY <1>5 DEF Send, Clears
  <2>. QED
    BY <2>1, <2>2, <2>3
<1>6. ASSUME NEW c \in Callers, Await(c) PROVE Kept
  <2>1. StatusPlaced'
    BY <1>6 DEF Await, Wait, Event!WaitCall, Event!shared, Event!posting
  <2>2. TokensPlaced'
    BY <1>6 DEF Await, Wait, Event!WaitCall, Event!shared, Event!posting
  <2>3. EarnedDone'
    BY <1>6 DEF Await, Wait, Event!WaitCall, Event!shared, Event!posting
  <2>. QED
    BY <2>1, <2>2, <2>3
<1>7. ASSUME NEW c \in Callers, Awaited(c) PROVE Kept
  <2>1. StatusPlaced'
    BY <1>7 DEF Awaited
  <2>2. TokensPlaced'
    <3>1. /\ UNCHANGED <<signal, status, backend, wpc, mixed>> /\ wpc[c] = "out"
          /\ \A d \in Callers \ {c} : mpc'[d] = mpc[d]
      BY <1>7 DEF Awaited
    <3>. QED
      BY <3>1
  <2>3. EarnedDone'
    BY <1>7 DEF Awaited
  <2>. QED
    BY <2>1, <2>2, <2>3
<1>8. ASSUME NEW c \in Callers, Cancel(c) PROVE Kept
  <2>1. StatusPlaced'
    BY <1>8 DEF Cancel, Clears
  <2>2. TokensPlaced'
    BY <1>8 DEF Cancel, Clears
  <2>3. EarnedDone'
    BY <1>8 DEF Cancel, Clears
  <2>. QED
    BY <2>1, <2>2, <2>3
<1>9. ASSUME NEW c \in Callers, Fetch(c) PROVE Kept
  <2>1. StatusPlaced'
    BY <1>9 DEF Fetch
  <2>2. TokensPlaced'
    BY <1>9 DEF Fetch
  <2>3. EarnedDone'
    BY <1>9 DEF Fetch
  <2>. QED
    BY <2>1, <2>2, <2>3
<1>10. ASSUME NEW c \in Callers, NextAttempt(c) PROVE Kept
  <2>1. StatusPlaced'
    BY <1>10 DEF NextAttempt
  <2>2. TokensPlaced'
    BY <1>10 DEF NextAttempt
  <2>3. EarnedDone'
    <3>1. /\ UNCHANGED <<registration, status, wpc, wret, mixed>> /\ mpc[c] = "next"
          /\ \/ mpc' = [mpc EXCEPT ![c] = "clear"] /\ command' = command
             \/ /\ mpc' = [mpc EXCEPT ![c] = "out"]
                /\ command' = [command EXCEPT ![c] = NoCommand]
      BY <1>10 DEF NextAttempt
    <3>2. CASE mpc' = [mpc EXCEPT ![c] = "clear"] /\ command' = command
      <4>1. /\ mpc'[c] = "clear" /\ \A d \in Callers \ {c} : mpc'[d] = mpc[d]
            /\ ~Owns(c) /\ ~Owns(c)' /\ \A d \in Callers : Owns(d)' <=> Owns(d)
        BY <3>1, <3>2
      <4>2. \A d \in Callers : (Looked(d)' => Looked(d)) /\ (Has(d) => Has(d)')
        BY <3>1, <3>2, <4>1
      <4>. QED
        BY <3>1, <4>1, <4>2
    <3>3. CASE mpc' = [mpc EXCEPT ![c] = "out"] /\ command' = [command EXCEPT ![c] = NoCommand]
      BY <3>1, <3>3
    <3>. QED
      BY <3>1, <3>2, <3>3
  <2>. QED
    BY <2>1, <2>2, <2>3
<1>11. ASSUME NEW c \in Callers, WaitStep(c) PROVE Kept
    BY <1>11, WaitKeeps
<1>12. ASSUME NEW k \in Commands, Reply(k) PROVE Kept
  <2>1. StatusPlaced'
    BY <1>12 DEF Reply, Event!DoneFromIsr, Event!waiting, Event!posting
  <2>2. TokensPlaced'
    <3>1. /\ UNCHANGED <<wpc, mpc, mixed, backend>>
          /\ \/ UNCHANGED <<signal, status>>
             \/ Event!DoneFromIsr
      BY <1>12 DEF Reply, Event!DoneFromIsr, Event!waiting, Event!posting
    <3>2. CASE UNCHANGED <<signal, status>>
      BY <3>1, <3>2
    <3>3. CASE Event!DoneFromIsr
      BY <3>1, <3>3 DEF Event!DoneFromIsr, Event!waiting, Event!posting
    <3>. QED
      BY <3>1, <3>2, <3>3
  <2>3. EarnedDone'
    BY <1>12 DEF Reply, Event!DoneFromIsr, Event!waiting, Event!posting
  <2>. QED
    BY <2>1, <2>2, <2>3
<1>. QED
    BY <1>1, <1>2, <1>3, <1>4, <1>5, <1>6, <1>7, <1>8, <1>9, <1>10, <1>11, <1>12
       DEF MotorNext, CallerStep

LEMMA MotorInvInit == MotorInit => MotorInv
<1> SUFFICES ASSUME MotorInit
             PROVE  MotorInv
    OBVIOUS
<1> USE MotorSyncAssumption DEF MotorInit, OwnInit, Event!Init
<1>1. Event!TypeOK
  <2>1. /\ wpc \in [Callers -> {"out"}] /\ tmo \in [Callers -> {"forever"}]
        /\ wret \in [Callers -> {"none"}]
    OBVIOUS
  <2>2. /\ dpc \in [{} -> {"out"}] /\ target \in [{} -> {NoCaller}] /\ dret \in [{} -> {"none"}]
    OBVIOUS
  <2>3. /\ backend \in MtBackends /\ status = "INIT" /\ waitThread = NoCaller /\ signal = {}
    OBVIOUS
  <2>4. owed = 0 /\ calls = 0 /\ 0 \in 0..MaxReplies
    OBVIOUS
  <2>5. overtaken = FALSE /\ unsent = FALSE /\ crowded = FALSE
    OBVIOUS
  <2> HIDE DEF MotorInit, OwnInit, Event!Init
  <2>6. overtaken \in BOOLEAN /\ unsent \in BOOLEAN /\ crowded \in BOOLEAN
    BY <2>5, Zenon
  <2>. QED
    BY <2>1, <2>2, <2>3, <2>4, <2>6 DEF Event!TypeOK, Event!Status, Event!Results
<1>2. MotorTypeOK
  <2>1. /\ mpc \in [Callers -> {"out"}] /\ command \in [Callers -> {NoCommand}]
        /\ attempt \in [Callers -> {0}]
    OBVIOUS
  <2>2. 0 \in 0..MaxRetry /\ sent = {} /\ mixed = FALSE
    OBVIOUS
  <2>3. pending = NoCommand /\ resultOK = FALSE /\ response = NoCommand
    OBVIOUS
  <2> HIDE DEF MotorInit, OwnInit, Event!Init
  <2>. QED
    BY <1>1, <2>1, <2>2, <2>3 DEF MotorTypeOK
<1>5. WaitsInside
    BY DEF WaitsInside
<1>3. OneAttempt /\ Booked /\ StatusPlaced /\ TokensPlaced
    BY DEF OneAttempt, Booked, StatusPlaced, TokensPlaced, Owns, Has, Enrolled
<1>4. EarnedDone
    BY DEF EarnedDone, Looked
<1>. QED
    BY <1>2, <1>3, <1>4, <1>5 DEF MotorInv

LEMMA MotorInvStep == MotorInv /\ [MotorNext]_mtVars => MotorInv'
<1>1. ASSUME MotorInv, MotorNext PROVE MotorInv'
    BY <1>1, MotorTypesKept, OneAttemptKept, BookedKept, MotorPlacesKept DEF MotorInv
<1>2. ASSUME MotorInv, UNCHANGED mtVars PROVE MotorInv'
    BY <1>2
       DEF mtVars, registration, eventVars, MotorInv, MotorTypeOK, WaitsInside, OneAttempt,
           Booked, StatusPlaced, TokensPlaced, EarnedDone, Owns, Has, Looked, Event!TypeOK,
           Event!Box
<1>. QED
    BY <1>1, <1>2

\* The inductive invariant of the transaction (P1010B.c, 283-377) for any callers,
\* commands, retries and back ends, as long as no two callers met.
THEOREM MotorInvariance == MotorSpec => []MotorInv
<1>1. MotorInit => MotorInv
    BY MotorInvInit
<1>2. MotorInv /\ [MotorNext]_mtVars => MotorInv'
    BY MotorInvStep
<1>. QED
    BY <1>1, <1>2, PTL DEF MotorSpec

\* Every variable of the transaction and of its completion keeps its type.
THEOREM MotorTypeCorrect == MotorSpec => []MotorTypeOK
<1>1. MotorInv => MotorTypeOK
    BY DEF MotorInv
<1>. QED
    BY <1>1, MotorInvariance, PTL

\* A caller whose wait succeeds finds the response to its own command, and a
\* registration belongs to a call under way, unless two callers met.
THEOREM OwnAnswerHolds == MotorSpec => []OwnAnswer
<1>1. MotorInv => OwnAnswer
    BY DEF MotorInv, OwnAnswer, Booked, EarnedDone, Has, Owns, OneAttempt
<1>. QED
    BY <1>1, MotorInvariance, PTL

-----------------------------------------------------------------------------
(* The parts side by side, as the run checks them *)

\* A step of one part is a step of its specification, and no step of the others.
LEMMA PartsStep ==
    ASSUME PartsNext
    PROVE  /\ part' = part
           /\ [RxNext]_rxVars /\ [TxNext]_txVars /\ [Next]_dbVars
           /\ [LogNext]_lrVars /\ [TimerNext]_tmVars
           /\ part = "motor" => MotorNext
           /\ part = "serial rx" => ReadNext
           /\ part = "serial tx" => WriteNext
<1>1. /\ part # "can rx" => UNCHANGED canRx
      /\ part # "can tx" => UNCHANGED canTx
      /\ part # "double buffer" => UNCHANGED dbVars
      /\ part # "log" => UNCHANGED log
      /\ part # "timer" => UNCHANGED clockVars
    BY Zenon DEF PartsNext
<1>2. /\ UNCHANGED canRx => UNCHANGED rxVars
      /\ UNCHANGED canTx => UNCHANGED txVars
      /\ UNCHANGED log => UNCHANGED lrVars
      /\ UNCHANGED clockVars => UNCHANGED tmVars
    BY DEF canRx, rxVars, lists, filters, reading, past, canTx, txVars, nodes, boxes, writing,
       log, lrVars, warning, clockVars, tmVars, settings, history
<1>3. /\ part = "motor" => MotorNext
      /\ part = "can rx" => RxNext
      /\ part = "can tx" => TxNext
      /\ part = "serial rx" => ReadNext
      /\ part = "serial tx" => WriteNext
      /\ part = "double buffer" => Next
      /\ part = "log" => LogNext
      /\ part = "timer" => TimerNext
      /\ part' = part
    BY Zenon DEF PartsNext
<1>. QED
    BY <1>1, <1>2, <1>3, Zenon

LEMMA PartsStutter ==
    ASSUME UNCHANGED vars
    PROVE  UNCHANGED <<part, rxVars, txVars, dbVars, lrVars, tmVars, mtVars, readVars, writeVars>>
<1>1. UNCHANGED <<rxVars, txVars>>
    BY DEF vars, canRx, canTx, rxVars, lists, filters, reading, past, txVars, nodes, boxes, writing
<1>2. UNCHANGED <<part, dbVars, lrVars, tmVars>>
    BY DEF vars, log, lrVars, warning, clockVars, tmVars, settings, history
<1>3. UNCHANGED mtVars
    BY DEF vars, motor, mtVars, registration
<1>4. UNCHANGED <<readVars, writeVars>>
    BY DEF vars, serial, serialFifo, readVars, writeVars, fifoVars
<1>. QED
    BY <1>1, <1>2, <1>3, <1>4

(* What the run sees of a part is a behaviour of the part: the parts that live on
   variables of their own behave as their specifications say in every behaviour,
   and the motor and the two halves of the serial driver, which take turns at the
   variables of one completion, when it is their turn.  So what is proved of a
   part holds of what the run explores. *)
THEOREM PartsBehave ==
    PartsSpec => /\ RxSpec /\ TxSpec /\ Spec /\ LogSpec /\ TimerSpec
                 /\ part = "motor" => MotorSpec
                 /\ part = "serial rx" => ReadSpec
                 /\ part = "serial tx" => WriteSpec
<1>1. PartsInit => /\ RxInit /\ TxInit /\ Init /\ LogInit /\ TimerInit
                   /\ part = "motor" => MotorInit
                   /\ part = "serial rx" => ReadInit
                   /\ part = "serial tx" => WriteInit
  <2> SUFFICES ASSUME PartsInit PROVE
               /\ RxInit /\ TxInit /\ Init /\ LogInit /\ TimerInit
               /\ part = "motor" => MotorInit
               /\ part = "serial rx" => ReadInit
               /\ part = "serial tx" => WriteInit
    BY Zenon
  <2>1. /\ RxInit /\ TxInit /\ Init /\ LogInit /\ TimerInit
        /\ OwnInit /\ FifoInit /\ ReaderInit /\ WriterInit /\ blocking \in BOOLEAN
    BY Zenon DEF PartsInit
  <2>2. IF part \in {"serial rx", "serial tx"} THEN Cpt!Init ELSE Event!Init
    BY Zenon DEF PartsInit
  <2>. QED
    BY <2>1, <2>2, Zenon DEF MotorInit, ReadInit, WriteInit
<1>2. [PartsNext]_vars => /\ part' = part
                          /\ [RxNext]_rxVars /\ [TxNext]_txVars /\ [Next]_dbVars
                          /\ [LogNext]_lrVars /\ [TimerNext]_tmVars
                          /\ part = "motor" => [MotorNext]_mtVars
                          /\ part = "serial rx" => [ReadNext]_readVars
                          /\ part = "serial tx" => [WriteNext]_writeVars
    BY PartsStep, PartsStutter, Zenon
<1>3. part' = part => /\ part = "motor" => (part = "motor")'
                      /\ part = "serial rx" => (part = "serial rx")'
                      /\ part = "serial tx" => (part = "serial tx")'
    BY Zenon
<1>4. PartsSpec => RxSpec /\ TxSpec /\ Spec /\ LogSpec /\ TimerSpec
    BY <1>1, <1>2, PTL DEF PartsSpec, RxSpec, TxSpec, Spec, LogSpec, TimerSpec
<1>5. PartsSpec /\ part = "motor" => MotorSpec
    BY <1>1, <1>2, <1>3, PTL DEF PartsSpec, MotorSpec
<1>6. PartsSpec /\ part = "serial rx" => ReadSpec
    BY <1>1, <1>2, <1>3, PTL DEF PartsSpec, ReadSpec
<1>7. PartsSpec /\ part = "serial tx" => WriteSpec
    BY <1>1, <1>2, <1>3, PTL DEF PartsSpec, WriteSpec
<1>. QED
    BY <1>4, <1>5, <1>6, <1>7, PTL

(* Every variable of the part that moves keeps its type: of the motor transaction,
   both halves of the CAN and of the serial driver, the double buffer, the log ring
   and the timers. *)
THEOREM PartsTypeCorrect == PartsSpec => []PartsTypeOK
<1>1. /\ ReadSpec => []ReadTypeOK
      /\ WriteSpec => []WriteTypeOK
    BY ReadTypeCorrect, WriteTypeCorrect, SerialAssumption
<1>2. [PartsNext]_vars => /\ ~(part = "motor") => ~(part = "motor")'
                          /\ ~(part = "serial rx") => ~(part = "serial rx")'
                          /\ ~(part = "serial tx") => ~(part = "serial tx")'
    BY PartsStep, PartsStutter, Zenon
<1>3. PartsSpec => /\ [](~(part = "motor")) \/ part = "motor"
                   /\ [](~(part = "serial rx")) \/ part = "serial rx"
                   /\ [](~(part = "serial tx")) \/ part = "serial tx"
    BY <1>2, PTL DEF PartsSpec
<1>4. PartsSpec => [](part = "motor" => MotorTypeOK)
    BY <1>3, PartsBehave, MotorTypeCorrect, PTL
<1>5. PartsSpec => [](part = "serial rx" => ReadTypeOK)
    BY <1>1, <1>3, PartsBehave, PTL
<1>6. PartsSpec => [](part = "serial tx" => WriteTypeOK)
    BY <1>1, <1>3, PartsBehave, PTL
<1>7. PartsSpec => [](RxTypeOK /\ TxTypeOK /\ TypeOK /\ LogTypeOK /\ TimerTypeOK)
    BY RxTypeCorrect, TxTypeCorrect, DoubleBufTypeCorrect, LogTypeCorrect, TimerTypeCorrect,
       PartsBehave, PTL
<1>8. /\ part = "motor" => MotorTypeOK
      /\ part = "serial rx" => ReadTypeOK
      /\ part = "serial tx" => WriteTypeOK
      /\ RxTypeOK /\ TxTypeOK /\ TypeOK /\ LogTypeOK /\ TimerTypeOK
      => PartsTypeOK
    BY Zenon DEF PartsTypeOK
<1>. QED
    BY <1>4, <1>5, <1>6, <1>7, <1>8, PTL

=============================================================================
