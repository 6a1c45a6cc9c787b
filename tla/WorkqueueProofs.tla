--------------------------- MODULE WorkqueueProofs ---------------------------
(***************************************************************************)
(* Proofs about the work queue, for any number of clients, works and       *)
(* workers.  First the ownership protocol: the list and the flags of the   *)
(* works agree; then the life of the worker thread.                        *)
(* The first argument is local to the critical sections: each keeps        *)
(* FlagsAgree given that a worker holds a work exactly between Claim and   *)
(* Finish (Held), and that a queue which is not running has an empty list  *)
(* unless a work was linked late or start failed (Quiet).                  *)
(***************************************************************************)
EXTENDS Workqueue, TLAPS

Distinct(q) == \A i, j \in DOMAIN q : q[i] = q[j] => i = j

\* list_add_tail of a new item.
LEMMA AppendFacts ==
    ASSUME NEW S, NEW q \in Seq(S), NEW w \in S, w \notin ToSet(q), Distinct(q)
    PROVE  /\ Append(q, w) \in Seq(S)
           /\ ToSet(Append(q, w)) = ToSet(q) \cup {w}
           /\ Distinct(Append(q, w))
<1> DEFINE r == Append(q, w)
<1>1. r \in Seq(S) /\ Len(r) = Len(q) + 1 /\ DOMAIN r = 1..(Len(q) + 1)
    OBVIOUS
<1>2. \A i \in DOMAIN q : r[i] = q[i] /\ i \in DOMAIN r
    OBVIOUS
<1>3. r[Len(q) + 1] = w
    OBVIOUS
<1>4. \A i \in DOMAIN r : i \in DOMAIN q \/ i = Len(q) + 1
    BY <1>1
<1>5. ToSet(r) = ToSet(q) \cup {w}
    BY <1>1, <1>2, <1>3, <1>4 DEF ToSet
<1>6. Distinct(r)
  <2> SUFFICES ASSUME NEW i \in DOMAIN r, NEW j \in DOMAIN r, r[i] = r[j] PROVE i = j
    BY DEF Distinct
  <2>1. \A k \in DOMAIN q : q[k] # w
    BY DEF ToSet
  <2>. QED
    BY <2>1, <1>2, <1>3, <1>4 DEF Distinct
<1>. QED
    BY <1>1, <1>5, <1>6

\* Taking the first item.
LEMMA TailFacts ==
    ASSUME NEW S, NEW q \in Seq(S), q # <<>>, Distinct(q)
    PROVE  /\ Tail(q) \in Seq(S)
           /\ Head(q) \in S /\ Head(q) \in ToSet(q)
           /\ ToSet(Tail(q)) = ToSet(q) \ {Head(q)}
           /\ Distinct(Tail(q))
<1> DEFINE r == Tail(q)
<1>1. Len(q) > 0 /\ Len(q) \in Nat
    OBVIOUS
<1>2. r \in Seq(S) /\ DOMAIN r = 1..(Len(q) - 1)
    BY <1>1
<1>3. \A i \in DOMAIN r : r[i] = q[i + 1] /\ i + 1 \in DOMAIN q
    BY <1>1, <1>2
<1>4. \A i \in DOMAIN q : i = 1 \/ (i - 1 \in DOMAIN r /\ r[i - 1] = q[i])
    BY <1>1, <1>2, <1>3
<1>5. Head(q) = q[1] /\ 1 \in DOMAIN q /\ q[1] \in S
    BY <1>1
<1>6. ToSet(r) \subseteq ToSet(q) \ {Head(q)}
  <2> SUFFICES ASSUME NEW i \in DOMAIN r PROVE r[i] \in ToSet(q) \ {Head(q)}
    BY DEF ToSet
  <2>1. i \in Nat /\ i >= 1
    BY <1>2
  <2>2. q[i + 1] # q[1]
    BY <2>1, <1>3, <1>5 DEF Distinct
  <2>. QED
    BY <2>2, <1>3, <1>5 DEF ToSet
<1>7. ToSet(q) \ {Head(q)} \subseteq ToSet(r)
    BY <1>4, <1>5 DEF ToSet
<1>8. Distinct(r)
  <2> SUFFICES ASSUME NEW i \in DOMAIN r, NEW j \in DOMAIN r, r[i] = r[j] PROVE i = j
    BY DEF Distinct
  <2>1. i + 1 = j + 1
    BY <1>3 DEF Distinct
  <2>. QED
    BY <2>1, <1>2
<1>. QED
    BY <1>2, <1>5, <1>6, <1>7, <1>8 DEF ToSet

\* list_del of an item anywhere in the list.
LEMMA UnlinkFacts ==
    ASSUME NEW S, NEW q \in Seq(S), NEW w \in ToSet(q), Distinct(q)
    PROVE  /\ Unlink(q, w) \in Seq(S)
           /\ ToSet(Unlink(q, w)) = ToSet(q) \ {w}
           /\ Distinct(Unlink(q, w))
<1> DEFINE at == CHOOSE i \in DOMAIN q : q[i] = w
           r == Unlink(q, w)
<1>1. at \in DOMAIN q /\ q[at] = w
    BY DEF ToSet
<1>2. at \in 1..Len(q) /\ Len(q) \in Nat /\ DOMAIN q = 1..Len(q)
    BY <1>1
<1> HIDE DEF at
<1>3. r = [i \in 1..(Len(q) - 1) |-> IF i < at THEN q[i] ELSE q[i + 1]]
    BY DEF Unlink, at
<1>4. DOMAIN r = 1..(Len(q) - 1)
    BY <1>3
<1>5. \A i \in DOMAIN r : \/ i < at /\ i \in DOMAIN q /\ r[i] = q[i]
                          \/ i >= at /\ i + 1 \in DOMAIN q /\ r[i] = q[i + 1]
    BY <1>2, <1>3
<1>6. r \in Seq(S)
  <2>1. \A i \in 1..(Len(q) - 1) : r[i] \in S
    BY <1>4, <1>5
  <2>2. Len(q) - 1 \in Nat
    BY <1>2
  <2>. QED
    BY <1>3, <2>1, <2>2
<1>7. ToSet(r) \subseteq ToSet(q) \ {w}
  <2> SUFFICES ASSUME NEW i \in DOMAIN r PROVE r[i] \in ToSet(q) \ {w}
    BY DEF ToSet
  <2>1. i \in Int
    BY <1>4
  <2>2. CASE i < at /\ i \in DOMAIN q /\ r[i] = q[i]
    BY <2>1, <2>2, <1>1, <1>2 DEF ToSet, Distinct
  <2>3. CASE i >= at /\ i + 1 \in DOMAIN q /\ r[i] = q[i + 1]
    BY <2>1, <2>3, <1>1, <1>2 DEF ToSet, Distinct
  <2>. QED
    BY <1>5, <2>2, <2>3
<1>8. ToSet(q) \ {w} \subseteq ToSet(r)
  <2> SUFFICES ASSUME NEW i \in DOMAIN q, q[i] # w PROVE q[i] \in ToSet(r)
    BY DEF ToSet
  <2>1. i \in 1..Len(q) /\ i # at
    BY <1>1, <1>2
  <2>2. CASE i < at
    <3>1. i \in DOMAIN r /\ r[i] = q[i]
      BY <2>1, <2>2, <1>2, <1>3, <1>4
    <3>. QED
      BY <3>1 DEF ToSet
  <2>3. CASE i > at
    <3>1. i - 1 \in DOMAIN r /\ r[i - 1] = q[i]
      BY <2>1, <2>3, <1>2, <1>3, <1>4
    <3>. QED
      BY <3>1 DEF ToSet
  <2>. QED
    BY <2>1, <2>2, <2>3, <1>2
<1>9. Distinct(r)
  <2> SUFFICES ASSUME NEW i \in DOMAIN r, NEW j \in DOMAIN r, r[i] = r[j] PROVE i = j
    BY DEF Distinct
  <2>1. i \in Int /\ j \in Int
    BY <1>4
  <2>. QED
    BY <2>1, <1>2, <1>5 DEF Distinct
<1>. QED
    BY <1>6, <1>7, <1>8, <1>9

-----------------------------------------------------------------------------
\* A worker holds a work exactly while it runs it, a client has chosen one
\* when it gets to the lock.
Held ==
    /\ \A k \in Workers : kwork[k] # None <=> kpc[k] \in {"run", "finish"}
    /\ \A e \in Clients : epc[e] \in {"insert", "post"} => ework[e] \in Items

\* The state belongs to the controller, whose place says what it is.
LifeCycle ==
    \A c \in Controllers :
        /\ cpc[c] \in {"drain", "reset", "create"} => state = "RUNNING"
        /\ cpc[c] \in {"post", "wait", "idle"} => state = "STOPPING"

Quiet ==
    ~late /\ ~early =>
    /\ state \in {"UNINIT", "IDLE"} => pending = <<>>
    /\ \A c \in Controllers : cpc[c] = "idle" => pending = <<>>

QInv == QueueTypeOK /\ Held /\ LifeCycle /\ Quiet /\ FlagsAgree

LEMMA LinkType ==
    ASSUME QueueTypeOK, NEW w \in Items, Link(w)
    PROVE  /\ pending' \in Seq(Items)
           /\ flags' \in [Items -> {"IDLE", "PENDING", "RUNNING"}]
           /\ late' \in BOOLEAN
           /\ ahead' \in [Flushers -> SUBSET Items]
BY DEF QueueTypeOK, Link

LEMMA TypeStep ==
    ASSUME QueueTypeOK, Held, FlagsAgree, [Next]_vars
    PROVE  QueueTypeOK'
<1> USE WorkqueueAssumption DEF QueueTypeOK, Held, Items, queue, working, enqueuing, history
<1>1. ASSUME NEW e \in Clients, Flush(e) PROVE QueueTypeOK'
    BY <1>1 DEF Flush, ClientGoes
<1>2. ASSUME NEW e \in Clients, Check(e) PROVE QueueTypeOK'
    BY <1>2 DEF Check, ClientGoes
<1>3. ASSUME NEW e \in Clients, Insert(e) PROVE QueueTypeOK'
  <2>1. CASE Link(ework[e]) /\ UNCHANGED ework
    BY <1>3, <2>1, LinkType DEF Insert, ClientGoes
  <2>2. CASE UNCHANGED <<pending, flags, late, ahead>> /\ ework' = [ework EXCEPT ![e] = None]
    BY <1>3, <2>2 DEF Insert, ClientGoes
  <2>. QED
    BY <1>3, <2>1, <2>2 DEF Insert
<1>4. ASSUME NEW e \in Clients, PostWork(e) PROVE QueueTypeOK'
    BY <1>4 DEF PostWork, ClientGoes
<1>5. ASSUME NEW e \in Clients, Flushed(e) PROVE QueueTypeOK'
    BY <1>5 DEF Flushed, ClientGoes
<1>6. ASSUME NEW w \in Works, EnqueueFromIsr(w) PROVE QueueTypeOK'
    BY <1>6 DEF EnqueueFromIsr, Link
<1>7. ASSUME NEW w \in Works, Cancel(w) PROVE QueueTypeOK'
  <2>1. pending' \in Seq(Items)
    BY <1>7, UnlinkFacts DEF Cancel, FlagsAgree, Distinct
  <2>. QED
    BY <1>7, <2>1 DEF Cancel, Settled
<1>8. ASSUME NEW k \in Workers, Sleep(k) PROVE QueueTypeOK'
    BY <1>8 DEF Sleep, WorkerGoes
<1>9. ASSUME NEW k \in Workers, Claim(k) PROVE QueueTypeOK'
  <2>1. CASE pending = <<>>
    BY <1>9, <2>1 DEF Claim, WorkerGoes
  <2>2. CASE pending # <<>>
    <3>1. Head(pending) \in Items /\ Tail(pending) \in Seq(Items)
      BY <2>2, TailFacts DEF FlagsAgree, Distinct
    <3>2. /\ pending' = Tail(pending)
          /\ flags' = [flags EXCEPT ![Head(pending)] = "RUNNING"]
          /\ kwork' = [kwork EXCEPT ![k] = Head(pending)]
          /\ kpc' = [kpc EXCEPT ![k] = "run"]
      BY <1>9, <2>2 DEF Claim, WorkerGoes
    <3>3. pending' \in Seq(Items) /\ flags' \in [Items -> {"IDLE", "PENDING", "RUNNING"}]
      BY <3>1, <3>2
    <3>4. kwork' \in [Workers -> Items \cup {None}]
      BY <3>1, <3>2
    <3>. QED
      BY <1>9, <3>2, <3>3, <3>4 DEF Claim
  <2>. QED
    BY <2>1, <2>2
<1>10. ASSUME NEW k \in Workers, Run(k) PROVE QueueTypeOK'
    BY <1>10 DEF Run, WorkerGoes
<1>11. ASSUME NEW k \in Workers, Finish(k) PROVE QueueTypeOK'
    BY <1>11 DEF Finish, WorkerGoes, Settled
<1>12. ASSUME NEW k \in Workers, CheckStop(k) PROVE QueueTypeOK'
    BY <1>12 DEF CheckStop, WorkerGoes
<1>13. ASSUME NEW k \in Workers, Announce(k) PROVE QueueTypeOK'
    BY <1>13 DEF Announce, WorkerGoes
<1>14. ASSUME NEW k \in Workers, Announcing(k) PROVE QueueTypeOK'
    BY <1>14 DEF Announcing
<1>15. ASSUME NEW c \in Controllers, InitQueue(c) PROVE QueueTypeOK'
  <2>1. pending' \in Seq(Items)
    BY <1>15 DEF InitQueue
  <2>. QED
    BY <1>15, <2>1 DEF InitQueue
<1>16. ASSUME NEW c \in Controllers, Deinit(c) PROVE QueueTypeOK'
    BY <1>16 DEF Deinit
<1>17. ASSUME NEW c \in Controllers, Start(c) PROVE QueueTypeOK'
    BY <1>17 DEF Start, ControllerGoes
<1>18. ASSUME NEW c \in Controllers, Stop(c) PROVE QueueTypeOK'
    BY <1>18 DEF Stop, ControllerGoes
<1>19. ASSUME NEW c \in Controllers, StartDrain(c) PROVE QueueTypeOK'
    BY <1>19 DEF StartDrain, ControllerGoes
<1>20. ASSUME NEW c \in Controllers, StartReset(c) PROVE QueueTypeOK'
    BY <1>20 DEF StartReset, ControllerGoes
<1>21. ASSUME NEW c \in Controllers, StartThread(c) PROVE QueueTypeOK'
    BY <1>21 DEF StartThread, ControllerGoes, WorkerGoes
<1>22. ASSUME NEW c \in Controllers, StopPost(c) PROVE QueueTypeOK'
    BY <1>22 DEF StopPost, ControllerGoes
<1>23. ASSUME NEW c \in Controllers, StopWait(c) PROVE QueueTypeOK'
    BY <1>23 DEF StopWait
<1>24. ASSUME NEW c \in Controllers, StopClean(c) PROVE QueueTypeOK'
    BY <1>24 DEF StopClean, ControllerGoes
<1>25. ASSUME NEW c \in Controllers, StopIdle(c) PROVE QueueTypeOK'
    BY <1>25 DEF StopIdle, ControllerGoes
<1>26. CASE UNCHANGED vars
    BY <1>26 DEF vars
<1>27. QED
    BY <1>1, <1>2, <1>3, <1>4, <1>5, <1>6, <1>7, <1>8, <1>9, <1>10, <1>11, <1>12,
       <1>13, <1>14, <1>15, <1>16, <1>17, <1>18, <1>19, <1>20, <1>21, <1>22, <1>23, <1>24, <1>25, <1>26
       DEF Next, ClientStep, WorkerStep, ControllerStep

LEMMA HeldStep ==
    ASSUME QueueTypeOK, Held, [Next]_vars
    PROVE  Held'
<1> USE WorkqueueAssumption DEF QueueTypeOK, Held, Items, queue, working, enqueuing, history
<1>1. ASSUME NEW e \in Clients, Flush(e) PROVE Held'
    BY <1>1 DEF Flush, ClientGoes
<1>2. ASSUME NEW e \in Clients, Check(e) PROVE Held'
    BY <1>2 DEF Check, ClientGoes
<1>3. ASSUME NEW e \in Clients, Insert(e) PROVE Held'
    BY <1>3 DEF Insert, ClientGoes, Link
<1>4. ASSUME NEW e \in Clients, PostWork(e) PROVE Held'
    BY <1>4 DEF PostWork, ClientGoes
<1>5. ASSUME NEW e \in Clients, Flushed(e) PROVE Held'
    BY <1>5 DEF Flushed, ClientGoes
<1>6. ASSUME NEW w \in Works, EnqueueFromIsr(w) PROVE Held'
    BY <1>6 DEF EnqueueFromIsr, Link
<1>7. ASSUME NEW w \in Works, Cancel(w) PROVE Held'
    BY <1>7 DEF Cancel, Settled
<1>8. ASSUME NEW k \in Workers, Sleep(k) PROVE Held'
    BY <1>8 DEF Sleep, WorkerGoes
<1>9. ASSUME NEW k \in Workers, Claim(k) PROVE Held'
    BY <1>9 DEF Claim, WorkerGoes
<1>10. ASSUME NEW k \in Workers, Run(k) PROVE Held'
    BY <1>10 DEF Run, WorkerGoes
<1>11. ASSUME NEW k \in Workers, Finish(k) PROVE Held'
    BY <1>11 DEF Finish, WorkerGoes, Settled
<1>12. ASSUME NEW k \in Workers, CheckStop(k) PROVE Held'
    BY <1>12 DEF CheckStop, WorkerGoes
<1>13. ASSUME NEW k \in Workers, Announce(k) PROVE Held'
    BY <1>13 DEF Announce, WorkerGoes
<1>14. ASSUME NEW k \in Workers, Announcing(k) PROVE Held'
    BY <1>14 DEF Announcing
<1>15. ASSUME NEW c \in Controllers, InitQueue(c) PROVE Held'
    BY <1>15 DEF InitQueue
<1>16. ASSUME NEW c \in Controllers, Deinit(c) PROVE Held'
    BY <1>16 DEF Deinit
<1>17. ASSUME NEW c \in Controllers, Start(c) PROVE Held'
    BY <1>17 DEF Start, ControllerGoes
<1>18. ASSUME NEW c \in Controllers, Stop(c) PROVE Held'
    BY <1>18 DEF Stop, ControllerGoes
<1>19. ASSUME NEW c \in Controllers, StartDrain(c) PROVE Held'
    BY <1>19 DEF StartDrain, ControllerGoes
<1>20. ASSUME NEW c \in Controllers, StartReset(c) PROVE Held'
    BY <1>20 DEF StartReset, ControllerGoes
<1>21. ASSUME NEW c \in Controllers, StartThread(c) PROVE Held'
    BY <1>21 DEF StartThread, ControllerGoes, WorkerGoes
<1>22. ASSUME NEW c \in Controllers, StopPost(c) PROVE Held'
    BY <1>22 DEF StopPost, ControllerGoes
<1>23. ASSUME NEW c \in Controllers, StopWait(c) PROVE Held'
    BY <1>23 DEF StopWait
<1>24. ASSUME NEW c \in Controllers, StopClean(c) PROVE Held'
    BY <1>24 DEF StopClean, ControllerGoes
<1>25. ASSUME NEW c \in Controllers, StopIdle(c) PROVE Held'
    BY <1>25 DEF StopIdle, ControllerGoes
<1>26. CASE UNCHANGED vars
    BY <1>26 DEF vars
<1>27. QED
    BY <1>1, <1>2, <1>3, <1>4, <1>5, <1>6, <1>7, <1>8, <1>9, <1>10, <1>11, <1>12,
       <1>13, <1>14, <1>15, <1>16, <1>17, <1>18, <1>19, <1>20, <1>21, <1>22, <1>23, <1>24, <1>25, <1>26
       DEF Next, ClientStep, WorkerStep, ControllerStep

LEMMA LifeCycleStep ==
    ASSUME QueueTypeOK, LifeCycle, [Next]_vars
    PROVE  LifeCycle'
<1> USE WorkqueueAssumption DEF QueueTypeOK, LifeCycle, queue, working, enqueuing, history
<1>1. ASSUME NEW e \in Clients, Flush(e) PROVE LifeCycle'
    BY <1>1 DEF Flush, ClientGoes
<1>2. ASSUME NEW e \in Clients, Check(e) PROVE LifeCycle'
    BY <1>2 DEF Check, ClientGoes
<1>3. ASSUME NEW e \in Clients, Insert(e) PROVE LifeCycle'
    BY <1>3 DEF Insert, ClientGoes, Link
<1>4. ASSUME NEW e \in Clients, PostWork(e) PROVE LifeCycle'
    BY <1>4 DEF PostWork, ClientGoes
<1>5. ASSUME NEW e \in Clients, Flushed(e) PROVE LifeCycle'
    BY <1>5 DEF Flushed, ClientGoes
<1>6. ASSUME NEW w \in Works, EnqueueFromIsr(w) PROVE LifeCycle'
    BY <1>6 DEF EnqueueFromIsr, Link
<1>7. ASSUME NEW w \in Works, Cancel(w) PROVE LifeCycle'
    BY <1>7 DEF Cancel, Settled
<1>8. ASSUME NEW k \in Workers, Sleep(k) PROVE LifeCycle'
    BY <1>8 DEF Sleep, WorkerGoes
<1>9. ASSUME NEW k \in Workers, Claim(k) PROVE LifeCycle'
    BY <1>9 DEF Claim, WorkerGoes
<1>10. ASSUME NEW k \in Workers, Run(k) PROVE LifeCycle'
    BY <1>10 DEF Run, WorkerGoes
<1>11. ASSUME NEW k \in Workers, Finish(k) PROVE LifeCycle'
    BY <1>11 DEF Finish, WorkerGoes, Settled
<1>12. ASSUME NEW k \in Workers, CheckStop(k) PROVE LifeCycle'
    BY <1>12 DEF CheckStop, WorkerGoes
<1>13. ASSUME NEW k \in Workers, Announce(k) PROVE LifeCycle'
    BY <1>13 DEF Announce, WorkerGoes
<1>14. ASSUME NEW k \in Workers, Announcing(k) PROVE LifeCycle'
    BY <1>14 DEF Announcing
<1>15. ASSUME NEW c \in Controllers, InitQueue(c) PROVE LifeCycle'
    BY <1>15 DEF InitQueue
<1>16. ASSUME NEW c \in Controllers, Deinit(c) PROVE LifeCycle'
    BY <1>16 DEF Deinit
<1>17. ASSUME NEW c \in Controllers, Start(c) PROVE LifeCycle'
    BY <1>17 DEF Start, ControllerGoes
<1>18. ASSUME NEW c \in Controllers, Stop(c) PROVE LifeCycle'
    BY <1>18 DEF Stop, ControllerGoes
<1>19. ASSUME NEW c \in Controllers, StartDrain(c) PROVE LifeCycle'
    BY <1>19 DEF StartDrain, ControllerGoes
<1>20. ASSUME NEW c \in Controllers, StartReset(c) PROVE LifeCycle'
    BY <1>20 DEF StartReset, ControllerGoes
<1>21. ASSUME NEW c \in Controllers, StartThread(c) PROVE LifeCycle'
    BY <1>21 DEF StartThread, ControllerGoes, WorkerGoes
<1>22. ASSUME NEW c \in Controllers, StopPost(c) PROVE LifeCycle'
    BY <1>22 DEF StopPost, ControllerGoes
<1>23. ASSUME NEW c \in Controllers, StopWait(c) PROVE LifeCycle'
    BY <1>23 DEF StopWait
<1>24. ASSUME NEW c \in Controllers, StopClean(c) PROVE LifeCycle'
    BY <1>24 DEF StopClean, ControllerGoes
<1>25. ASSUME NEW c \in Controllers, StopIdle(c) PROVE LifeCycle'
    BY <1>25 DEF StopIdle, ControllerGoes
<1>26. CASE UNCHANGED vars
    BY <1>26 DEF vars
<1>27. QED
    BY <1>1, <1>2, <1>3, <1>4, <1>5, <1>6, <1>7, <1>8, <1>9, <1>10, <1>11, <1>12,
       <1>13, <1>14, <1>15, <1>16, <1>17, <1>18, <1>19, <1>20, <1>21, <1>22, <1>23, <1>24, <1>25, <1>26
       DEF Next, ClientStep, WorkerStep, ControllerStep

LEMMA QuietStep ==
    ASSUME QueueTypeOK, LifeCycle, Quiet, [Next]_vars
    PROVE  Quiet'
<1> USE WorkqueueAssumption DEF QueueTypeOK, LifeCycle, Quiet, ToSet, queue, working, enqueuing, history
<1>1. ASSUME NEW e \in Clients, Flush(e) PROVE Quiet'
    BY <1>1 DEF Flush, ClientGoes
<1>2. ASSUME NEW e \in Clients, Check(e) PROVE Quiet'
    BY <1>2 DEF Check, ClientGoes
<1>3. ASSUME NEW e \in Clients, Insert(e) PROVE Quiet'
    BY <1>3 DEF Insert, ClientGoes, Link
<1>4. ASSUME NEW e \in Clients, PostWork(e) PROVE Quiet'
    BY <1>4 DEF PostWork, ClientGoes
<1>5. ASSUME NEW e \in Clients, Flushed(e) PROVE Quiet'
    BY <1>5 DEF Flushed, ClientGoes
<1>6. ASSUME NEW w \in Works, EnqueueFromIsr(w) PROVE Quiet'
    BY <1>6 DEF EnqueueFromIsr, Link
<1>7. ASSUME NEW w \in Works, Cancel(w) PROVE Quiet'
    BY <1>7 DEF Cancel, Settled
<1>8. ASSUME NEW k \in Workers, Sleep(k) PROVE Quiet'
    BY <1>8 DEF Sleep, WorkerGoes
<1>9. ASSUME NEW k \in Workers, Claim(k) PROVE Quiet'
    BY <1>9 DEF Claim, WorkerGoes
<1>10. ASSUME NEW k \in Workers, Run(k) PROVE Quiet'
    BY <1>10 DEF Run, WorkerGoes
<1>11. ASSUME NEW k \in Workers, Finish(k) PROVE Quiet'
    BY <1>11 DEF Finish, WorkerGoes, Settled
<1>12. ASSUME NEW k \in Workers, CheckStop(k) PROVE Quiet'
    BY <1>12 DEF CheckStop, WorkerGoes
<1>13. ASSUME NEW k \in Workers, Announce(k) PROVE Quiet'
    BY <1>13 DEF Announce, WorkerGoes
<1>14. ASSUME NEW k \in Workers, Announcing(k) PROVE Quiet'
    BY <1>14 DEF Announcing
<1>15. ASSUME NEW c \in Controllers, InitQueue(c) PROVE Quiet'
    BY <1>15 DEF InitQueue
<1>16. ASSUME NEW c \in Controllers, Deinit(c) PROVE Quiet'
    BY <1>16 DEF Deinit
<1>17. ASSUME NEW c \in Controllers, Start(c) PROVE Quiet'
    BY <1>17 DEF Start, ControllerGoes
<1>18. ASSUME NEW c \in Controllers, Stop(c) PROVE Quiet'
    BY <1>18 DEF Stop, ControllerGoes
<1>19. ASSUME NEW c \in Controllers, StartDrain(c) PROVE Quiet'
    BY <1>19 DEF StartDrain, ControllerGoes
<1>20. ASSUME NEW c \in Controllers, StartReset(c) PROVE Quiet'
    BY <1>20 DEF StartReset, ControllerGoes
<1>21. ASSUME NEW c \in Controllers, StartThread(c) PROVE Quiet'
    BY <1>21 DEF StartThread, ControllerGoes, WorkerGoes
<1>22. ASSUME NEW c \in Controllers, StopPost(c) PROVE Quiet'
    BY <1>22 DEF StopPost, ControllerGoes
<1>23. ASSUME NEW c \in Controllers, StopWait(c) PROVE Quiet'
    BY <1>23 DEF StopWait
<1>24. ASSUME NEW c \in Controllers, StopClean(c) PROVE Quiet'
    BY <1>24 DEF StopClean, ControllerGoes
<1>25. ASSUME NEW c \in Controllers, StopIdle(c) PROVE Quiet'
    BY <1>25 DEF StopIdle, ControllerGoes
<1>26. CASE UNCHANGED vars
    BY <1>26 DEF vars
<1>27. QED
    BY <1>1, <1>2, <1>3, <1>4, <1>5, <1>6, <1>7, <1>8, <1>9, <1>10, <1>11, <1>12,
       <1>13, <1>14, <1>15, <1>16, <1>17, <1>18, <1>19, <1>20, <1>21, <1>22, <1>23, <1>24, <1>25, <1>26
       DEF Next, ClientStep, WorkerStep, ControllerStep

\* Linking an idle work keeps the list and the flags in agreement.
LEMMA LinkAgrees ==
    ASSUME QueueTypeOK, FlagsAgree, NEW w \in Items, flags[w] = "IDLE", Link(w),
           kwork' = kwork, early' = early
    PROVE  FlagsAgree'
<1>1. w \notin ToSet(pending)
    BY DEF FlagsAgree
<1>2. Distinct(pending) /\ pending \in Seq(Items)
    BY DEF FlagsAgree, Distinct, QueueTypeOK
<1>3. ToSet(pending') = ToSet(pending) \cup {w} /\ Distinct(pending')
    BY <1>1, <1>2, AppendFacts DEF Link
<1>4. flags' = [flags EXCEPT ![w] = "PENDING"] /\ (late => late')
    BY DEF Link
<1>5. \A k \in Workers : kwork[k] # w
    BY DEF FlagsAgree
<1>. QED
    BY <1>3, <1>4, <1>5 DEF FlagsAgree, Distinct, QueueTypeOK

LEMMA FlagsAgreeStep ==
    ASSUME QueueTypeOK, Held, Quiet, FlagsAgree, [Next]_vars
    PROVE  FlagsAgree'
<1> USE WorkqueueAssumption
<1>1. ASSUME NEW e \in Clients, Flush(e) PROVE FlagsAgree'
    BY <1>1 DEF Flush, ClientGoes, FlagsAgree, ToSet, queue, working, history
<1>2. ASSUME NEW e \in Clients, Check(e) PROVE FlagsAgree'
    BY <1>2 DEF Check, ClientGoes, FlagsAgree, ToSet, queue, working, history
<1>3. ASSUME NEW e \in Clients, Insert(e) PROVE FlagsAgree'
  <2>1. CASE flags[ework[e]] = "IDLE" /\ Link(ework[e])
    BY <1>3, <2>1, LinkAgrees DEF Insert, working, Held
  <2>2. CASE UNCHANGED <<pending, flags, late, ahead>>
    BY <1>3, <2>2 DEF Insert, working, FlagsAgree, ToSet
  <2>. QED
    BY <1>3, <2>1, <2>2 DEF Insert
<1>4. ASSUME NEW e \in Clients, PostWork(e) PROVE FlagsAgree'
    BY <1>4 DEF PostWork, ClientGoes, FlagsAgree, ToSet, queue, working, history
<1>5. ASSUME NEW e \in Clients, Flushed(e) PROVE FlagsAgree'
    BY <1>5 DEF Flushed, ClientGoes, FlagsAgree, ToSet, queue, working, history
<1>6. ASSUME NEW w \in Works, EnqueueFromIsr(w) PROVE FlagsAgree'
    BY <1>6, LinkAgrees DEF EnqueueFromIsr, working, Items
<1>7. ASSUME NEW w \in Works, Cancel(w) PROVE FlagsAgree'
  <2>1. ToSet(pending') = ToSet(pending) \ {w} /\ Distinct(pending')
    BY <1>7, UnlinkFacts DEF Cancel, FlagsAgree, Distinct, QueueTypeOK
  <2>2. flags' = [flags EXCEPT ![w] = "IDLE"] /\ flags[w] = "PENDING"
    BY <1>7 DEF Cancel
  <2>3. UNCHANGED <<kwork, late, early>>
    BY <1>7 DEF Cancel, working
  <2>. QED
    BY <2>1, <2>2, <2>3 DEF FlagsAgree, Distinct, QueueTypeOK
<1>8. ASSUME NEW k \in Workers, Sleep(k) PROVE FlagsAgree'
    BY <1>8 DEF Sleep, WorkerGoes, FlagsAgree, ToSet, queue, working, history
<1>9. ASSUME NEW k \in Workers, Claim(k) PROVE FlagsAgree'
  <2>1. CASE pending = <<>>
    BY <1>9, <2>1 DEF Claim, history, FlagsAgree, ToSet
  <2>2. CASE pending # <<>>
    <3>0. Distinct(pending) /\ pending \in Seq(Items)
      BY DEF FlagsAgree, Distinct, QueueTypeOK
    <3> DEFINE w == Head(pending)
    <3>1. /\ w \in Items /\ w \in ToSet(pending)
          /\ ToSet(Tail(pending)) = ToSet(pending) \ {w} /\ Distinct(Tail(pending))
      BY <2>2, <3>0, TailFacts
    <3>2. /\ pending' = Tail(pending)
          /\ flags' = [flags EXCEPT ![w] = "RUNNING"]
          /\ kwork' = [kwork EXCEPT ![k] = w]
          /\ UNCHANGED <<late, early>>
      BY <1>9, <2>2 DEF Claim, history
    <3>3. kwork[k] = None
      BY <1>9 DEF Claim, Held
    <3>4. flags[w] = "PENDING" /\ \A l \in Workers : kwork[l] # w
      BY <3>1 DEF FlagsAgree
    <3> HIDE DEF w
    <3>5. w # None
      BY <3>1 DEF Items
    <3>6. \A l \in Workers : kwork'[l] = IF l = k THEN w ELSE kwork[l]
      BY <3>2 DEF QueueTypeOK
    <3>7. \A u \in Items : flags'[u] = IF u = w THEN "RUNNING" ELSE flags[u]
      BY <3>2 DEF QueueTypeOK
    <3>8. \A u \in Items : /\ u \in ToSet(pending') => flags'[u] = "PENDING"
                           /\ flags'[u] = "PENDING" => u \in ToSet(pending') \/ late' \/ early'
      BY <3>1, <3>2, <3>7 DEF FlagsAgree
    <3>9. \A u \in Items : flags'[u] = "RUNNING" <=> \E l \in Workers : kwork'[l] = u
      BY <3>3, <3>4, <3>5, <3>6, <3>7 DEF FlagsAgree, Items
    <3>10. \A l, m \in Workers : kwork'[l] = kwork'[m] /\ kwork'[l] # None => l = m
      BY <3>4, <3>6 DEF FlagsAgree
    <3>. QED
      BY <3>1, <3>2, <3>8, <3>9, <3>10 DEF FlagsAgree, Distinct
  <2>. QED
    BY <2>1, <2>2
<1>10. ASSUME NEW k \in Workers, Run(k) PROVE FlagsAgree'
    BY <1>10 DEF Run, WorkerGoes, FlagsAgree, ToSet, queue, working, history
<1>11. ASSUME NEW k \in Workers, Finish(k) PROVE FlagsAgree'
  <2> DEFINE w == kwork[k]
  <2>1. w # None /\ w \in Items
    BY <1>11 DEF Finish, Held, QueueTypeOK
  <2>2. /\ flags' = [flags EXCEPT ![w] = "IDLE"]
        /\ kwork' = [kwork EXCEPT ![k] = None]
        /\ UNCHANGED <<pending, late, early>>
    BY <1>11 DEF Finish
  <2>3. flags[w] = "RUNNING" /\ w \notin ToSet(pending)
    BY <2>1 DEF FlagsAgree
  <2>4. \A l \in Workers : kwork[l] = w => l = k
    BY <2>1 DEF FlagsAgree
  <2> HIDE DEF w
  <2>5. \A l \in Workers : kwork'[l] = IF l = k THEN None ELSE kwork[l]
    BY <2>2 DEF QueueTypeOK
  <2>6. \A u \in Items : flags'[u] = IF u = w THEN "IDLE" ELSE flags[u]
    BY <2>2 DEF QueueTypeOK
  <2>7. \A u \in Items : u # None
    BY DEF Items
  <2>8. \A u \in Items : flags'[u] = "RUNNING" <=> \E l \in Workers : kwork'[l] = u
    <3>1. \A u \in Items : u # w => (kwork[k] = u <=> FALSE)
      BY DEF w
    <3>. QED
      BY <2>4, <2>5, <2>6, <2>7, <3>1 DEF FlagsAgree
  <2>9. \A l, m \in Workers : kwork'[l] = kwork'[m] /\ kwork'[l] # None => l = m
    BY <2>5 DEF FlagsAgree
  <2>. QED
    BY <2>2, <2>3, <2>6, <2>8, <2>9 DEF FlagsAgree, ToSet
<1>12. ASSUME NEW k \in Workers, CheckStop(k) PROVE FlagsAgree'
    BY <1>12 DEF CheckStop, WorkerGoes, FlagsAgree, ToSet, queue, working, history
<1>13. ASSUME NEW k \in Workers, Announce(k) PROVE FlagsAgree'
    BY <1>13 DEF Announce, WorkerGoes, FlagsAgree, ToSet, queue, working, history
<1>14. ASSUME NEW k \in Workers, Announcing(k) PROVE FlagsAgree'
    BY <1>14 DEF Announcing, FlagsAgree, ToSet, queue, working, history
<1>15. ASSUME NEW c \in Controllers, InitQueue(c) PROVE FlagsAgree'
  <2>1. pending' = <<>> /\ UNCHANGED <<flags, kwork, late, early>>
    BY <1>15 DEF InitQueue, working, history
  <2>2. ~late /\ ~early => pending = <<>>
    BY <1>15 DEF InitQueue, Quiet
  <2>. QED
    BY <2>1, <2>2 DEF FlagsAgree, ToSet
<1>16. ASSUME NEW c \in Controllers, Deinit(c) PROVE FlagsAgree'
    BY <1>16 DEF Deinit, FlagsAgree, ToSet, queue, working, history
<1>17. ASSUME NEW c \in Controllers, Start(c) PROVE FlagsAgree'
    BY <1>17 DEF Start, ControllerGoes, FlagsAgree, ToSet, queue, working, history
<1>18. ASSUME NEW c \in Controllers, Stop(c) PROVE FlagsAgree'
    BY <1>18 DEF Stop, ControllerGoes, FlagsAgree, ToSet, queue, working, history
<1>19. ASSUME NEW c \in Controllers, StartDrain(c) PROVE FlagsAgree'
  <2>1. UNCHANGED <<pending, flags, kwork, late>> /\ (early => early')
    BY <1>19 DEF StartDrain, working, history
  <2>. QED
    BY <2>1 DEF FlagsAgree, ToSet
<1>20. ASSUME NEW c \in Controllers, StartReset(c) PROVE FlagsAgree'
    BY <1>20 DEF StartReset, ControllerGoes, FlagsAgree, ToSet, queue, working, history
<1>21. ASSUME NEW c \in Controllers, StartThread(c) PROVE FlagsAgree'
  <2>1. UNCHANGED <<pending, flags, kwork, late>> /\ (early => early')
    <3>1. UNCHANGED <<pending, flags, kwork, late>>
      BY <1>21 DEF StartThread
    <3>2. early' = early \/ early' = (early \/ pending # <<>>)
      BY <1>21 DEF StartThread
    <3>. QED
      BY <3>1, <3>2 DEF QueueTypeOK
  <2>. QED
    BY <2>1 DEF FlagsAgree, ToSet
<1>22. ASSUME NEW c \in Controllers, StopPost(c) PROVE FlagsAgree'
    BY <1>22 DEF StopPost, ControllerGoes, FlagsAgree, ToSet, queue, working, history
<1>23. ASSUME NEW c \in Controllers, StopWait(c) PROVE FlagsAgree'
    BY <1>23 DEF StopWait, FlagsAgree, ToSet, queue, working, history
<1>24. ASSUME NEW c \in Controllers, StopClean(c) PROVE FlagsAgree'
  <2>1. /\ pending' = <<>>
        /\ flags' = [w \in Items |-> IF w \in ToSet(pending) THEN "IDLE" ELSE flags[w]]
        /\ UNCHANGED <<kwork, late, early>>
    BY <1>24 DEF StopClean, working
  <2>2. ToSet(pending') = {} /\ DOMAIN pending' = {}
    BY <2>1 DEF ToSet
  <2>3. \A w \in Items : w \in ToSet(pending) => \A k \in Workers : kwork[k] # w
    BY DEF FlagsAgree
  <2>. QED
    BY <2>1, <2>2, <2>3 DEF FlagsAgree
<1>25. ASSUME NEW c \in Controllers, StopIdle(c) PROVE FlagsAgree'
    BY <1>25 DEF StopIdle, ControllerGoes, FlagsAgree, ToSet, queue, working, history
<1>26. CASE UNCHANGED vars
    BY <1>26 DEF vars, queue, working, history, FlagsAgree, ToSet
<1>27. QED
    BY <1>1, <1>2, <1>3, <1>4, <1>5, <1>6, <1>7, <1>8, <1>9, <1>10, <1>11, <1>12,
       <1>13, <1>14, <1>15, <1>16, <1>17, <1>18, <1>19, <1>20, <1>21, <1>22, <1>23, <1>24, <1>25, <1>26
       DEF Next, ClientStep, WorkerStep, ControllerStep

LEMMA InitInv == Init => QInv
<1> SUFFICES ASSUME Init PROVE QInv
    OBVIOUS
<1>1. pending = <<>> /\ pending \in Seq(Items) /\ DOMAIN pending = {}
    BY DEF Init
<1>2. QueueTypeOK
  <2>1. starts \in 0..MaxStarts
    BY WorkqueueAssumption DEF Init
  <2>2. /\ kwork \in [Workers -> Items \cup {None}]
        /\ ework \in [Clients -> Items \cup {None}]
        /\ ahead \in [Flushers -> SUBSET Items]
    BY DEF Init
  <2>. QED
    BY <1>1, <2>1, <2>2 DEF Init, QueueTypeOK
<1>3. Held /\ LifeCycle /\ Quiet
    BY DEF Init, Held, LifeCycle, Quiet
<1>4. FlagsAgree
    BY <1>1, WorkqueueAssumption DEF Init, FlagsAgree, ToSet, Items
<1>. QED
    BY <1>2, <1>3, <1>4 DEF QInv

(* Every critical section keeps the list, the flags and the workers' claims in
   agreement, and every call leaves the life cycle where its place says. *)
THEOREM QueueInvariance == Spec => []QInv
<1>1. QInv /\ [Next]_vars => QInv'
    BY TypeStep, HeldStep, LifeCycleStep, QuietStep, FlagsAgreeStep DEF QInv
<1>. QED
    BY <1>1, InitInv, PTL DEF Spec

(* The ownership protocol of enqueue, cancel and the worker (workqueue.c:40): a
   work is PENDING while linked, once, and RUNNING while one worker holds it. *)
THEOREM FlagsAgreeHolds == Spec => []FlagsAgree
<1>1. QInv => FlagsAgree
    BY DEF QInv
<1>. QED
    BY <1>1, QueueInvariance, PTL

-----------------------------------------------------------------------------
(* The life of the worker thread: stop joins it, it never sleeps on work, it
   leaves works behind only in the windows the model names, and a flush waits
   for all earlier work. *)

\* STOPPING belongs to a stop in progress; with QInv's LifeCycle the place of
\* the controller and the state say the same.
Stopping == \A c \in Controllers : state = "STOPPING" => cpc[c] \in {"post", "wait", "idle"}

\* stop waits without a timeout, and only it waits.
Waits ==
    \A c \in Controllers :
        /\ wpc[c] # "out" => cpc[c] = "wait"
        /\ tmo[c] = "forever"

\* At most one worker lives, while its queue runs or is being stopped, and the
\* controller has not seen its done.
OneWorker ==
    /\ \A k, l \in Workers : Alive(k) /\ Alive(l) => k = l
    /\ \A k \in Workers : Alive(k) =>
         /\ state \in {"RUNNING", "STOPPING"} /\ status # "DONE"
         /\ kpc[k] = "exit" => state = "STOPPING"
         /\ \A c \in Controllers :
              /\ cpc[c] \in {"out", "post", "wait"}
              /\ cpc[c] = "wait" => wpc[c] \in {"snap", "enroll", "casWait", "casWaiting", "sleep"}

\* A done call in progress comes from a worker that is gone, and the controller
\* is registered in the completion.
OneDone ==
    \A k \in Workers : dpc[k] # "out" =>
        /\ dpc[k] \in {"aim", "post"} => status = "DONE"
        /\ \A l \in Workers : ~Alive(l)
        /\ \A c \in Controllers : wpc[c] \in {"casWaiting", "sleep"}

\* What the status of the completion says of the controller's place.
StatusAgrees ==
    \A c \in Controllers :
        /\ wpc[c] = "out" /\ cpc[c] # "post" => status = "INIT"
        /\ wpc[c] = "out" => status \in {"INIT", "DONE"}
        /\ wpc[c] \in {"snap", "enroll", "casWait"} => status \in {"INIT", "DONE"}
        /\ wpc[c] \in {"take", "undoDone", "lateDone"} => status = "DONE"
        /\ wpc[c] = "casWaiting" => status \in {"WAIT", "DONE"}
        /\ wpc[c] = "sleep" => status \in {"WAITING", "DONE"}
        /\ wpc[c] \in {"wipe", "drain"} => status = "INIT"
        /\ wpc[c] \notin {"resnap", "undoBusy", "odd", "expired", "lateTimeout", "wipeTimeout"}

\* A token is that of the done call the controller waits for.
TokenAgrees ==
    \A c \in Controllers : Exit!Box(c) \in signal =>
        /\ \A k \in Workers : ~Alive(k)
        /\ wpc[c] \in {"casWaiting", "sleep", "lateDone", "drain"}
        /\ wpc[c] \in {"casWaiting", "sleep"} => status = "DONE"

JoinParts == OneWorker /\ OneDone /\ StatusAgrees /\ TokenAgrees

Join == ~overtaken => JoinParts

\* A running queue has its worker.
Served ==
    ~overtaken =>
    \A c \in Controllers : state = "RUNNING" /\ cpc[c] = "out" => \E k \in Workers : Alive(k)

ExitAimed == \A k \in Workers : dpc[k] = "post" => target[k] # None

\* While nobody is about to look at the list, works in it have a token, or a
\* client that is about to post one.
Heard ==
    ~early /\ ~overtaken /\ pending # <<>> /\ ~wake
    /\ (state \in {"IDLE", "RUNNING"} \/ \E c \in Controllers : cpc[c] = "idle")
    /\ (\A k \in Workers : kpc[k] \notin {"claim", "run", "finish"})
        => \E e \in Clients : epc[e] = "post"

StopHeard ==
    ~overtaken =>
    \A k \in Workers : state = "STOPPING" /\ kpc[k] = "wait" /\ ~wake
        => \E c \in Controllers : cpc[c] = "post"

\* An empty list stays empty, unless in one of the four windows.
Emptied ==
    ~late /\ ~early /\ ~hasty /\ ~overtaken =>
    /\ \A k \in Workers : kpc[k] = "exit" => pending = <<>>
    /\ state = "STOPPING" /\ (\A k \in Workers : ~Alive(k)) => pending = <<>>
    /\ ~asserted

\* u is linked before f.
Before(q, u, f) == \E i, j \in DOMAIN q : i < j /\ q[i] = u /\ q[j] = f

\* A barrier in the list has before it, or in the hands of a worker, all that it
\* waits for.
Behind ==
    ~asserted /\ ~late /\ ~early /\ ~overtaken =>
    \A f \in Flushers :
        /\ flags[f] # "PENDING" => ahead[f] = {}
        /\ \A u \in ahead[f] :
             \/ flags[u] = "RUNNING"
             \/ Before(pending, u, f)

JInv == Exit!TypeOK /\ ExitAimed /\ Stopping /\ Waits /\ Join /\ Served /\ Heard /\ StopHeard
        /\ Emptied /\ Behind

-----------------------------------------------------------------------------
\* What a client, an interrupt handler or a canceller leaves alone.
LEMMA ClientFrame ==
    /\ \A e \in Clients : Flush(e) \/ ClientStep(e) => UNCHANGED <<state, cpc, kpc, hasty, asserted, early, exit>>
    /\ \A w \in Works : EnqueueFromIsr(w) \/ Cancel(w) => UNCHANGED <<state, cpc, kpc, hasty, asserted, early, exit>>
<1>1. ASSUME NEW e \in Clients, Flush(e) \/ Check(e) PROVE UNCHANGED <<state, cpc, kpc, hasty, asserted, early, exit>>
    BY <1>1 DEF Flush, Check, queue, working, history
<1>2. ASSUME NEW e \in Clients, Insert(e) PROVE UNCHANGED <<state, cpc, kpc, hasty, asserted, early, exit>>
    BY <1>2 DEF Insert, working
<1>3. ASSUME NEW e \in Clients, PostWork(e) \/ Flushed(e) PROVE UNCHANGED <<state, cpc, kpc, hasty, asserted, early, exit>>
    BY <1>3 DEF PostWork, Flushed, queue, working, history
<1>4. ASSUME NEW w \in Works, EnqueueFromIsr(w) \/ Cancel(w)
      PROVE  UNCHANGED <<state, cpc, kpc, hasty, asserted, early, exit>>
    BY <1>4 DEF EnqueueFromIsr, Cancel, working
<1>. QED
    BY <1>1, <1>2, <1>3, <1>4 DEF ClientStep

\* What the worker's loop leaves alone.
LEMMA LoopFrame ==
    ASSUME NEW k \in Workers, Sleep(k) \/ Claim(k) \/ Run(k) \/ Finish(k) \/ CheckStop(k)
    PROVE  UNCHANGED <<state, cpc, asserted, early, late, exit>>
BY DEF Sleep, Claim, Run, Finish, CheckStop, queue, history

\* Which controller steps touch the completion.
LEMMA ControlFrame ==
    ASSUME NEW c \in Controllers,
           Start(c) \/ Stop(c) \/ StartDrain(c) \/ StartThread(c) \/ StopClean(c) \/ StopIdle(c)
    PROVE  UNCHANGED exit
BY DEF Start, Stop, StartDrain, StartThread, StopClean, StopIdle

LEMMA ExitTypeStep ==
    ASSUME Exit!TypeOK, ExitAimed, [Next]_vars
    PROVE  Exit!TypeOK' /\ ExitAimed'
<1> USE WorkqueueAssumption
    DEF Exit!TypeOK, ExitAimed, Exit!Status, Exit!Results, Exit!shared, Exit!waiting, Exit!posting
<1>1. ASSUME UNCHANGED exit PROVE Exit!TypeOK' /\ ExitAimed'
    BY <1>1 DEF exit
<1>2. ASSUME Exit!Reset PROVE Exit!TypeOK' /\ ExitAimed'
    BY <1>2 DEF Exit!Reset
<1>3. ASSUME NEW k \in Workers, Announce(k) PROVE Exit!TypeOK' /\ ExitAimed'
    BY <1>3 DEF Announce, Exit!DoneCall, Exit!DoneReturns
<1>4. ASSUME NEW k \in Workers, Announcing(k) PROVE Exit!TypeOK' /\ ExitAimed'
  <2>1. CASE Exit!DoneSwap(k)
    <3>1. /\ dpc[k] \in {"fromWAIT", "fromWAITING"} /\ status' \in Exit!Status
          /\ UNCHANGED <<backend, waitThread, signal, Exit!waiting, calls, overtaken, unsent, crowded>>
      BY <2>1 DEF Exit!DoneSwap
    <3>2. CASE dpc' = [dpc EXCEPT ![k] = "post"] /\ target' = [target EXCEPT ![k] = Sem]
               /\ dret' = dret /\ owed' = owed + 1
      BY <3>1, <3>2
    <3>3. CASE dpc' = [dpc EXCEPT ![k] = "aim"] /\ target' = target
               /\ dret' = dret /\ owed' = owed + 1
      BY <3>1, <3>3
    <3>4. CASE Exit!DoneReturns(k, "BUSY") /\ owed' = owed
      BY <3>1, <3>4 DEF Exit!DoneReturns
    <3>5. CASE Exit!DoneReturns(k, "ERROR") /\ owed' = owed
      BY <3>1, <3>5 DEF Exit!DoneReturns
    <3>. QED
      BY <2>1, <3>2, <3>3, <3>4, <3>5 DEF Exit!DoneSwap
  <2>2. CASE Exit!Aim(k)
    BY <2>2 DEF Exit!Aim, Exit!DoneReturns, Exit!history
  <2>3. CASE Exit!Post(k)
    BY <2>3 DEF Exit!Post, Exit!DoneReturns, Exit!history
  <2>. QED
    BY <1>4, <2>1, <2>2, <2>3 DEF Announcing, Exit!PosterStep
<1>5. ASSUME NEW c \in Controllers, StopPost(c) PROVE Exit!TypeOK' /\ ExitAimed'
    BY <1>5 DEF StopPost, Exit!WaitCall
<1>6. ASSUME NEW c \in Controllers, StopWait(c) PROVE Exit!TypeOK' /\ ExitAimed'
  <2>1. CASE Exit!Snap(c)
    BY <2>1 DEF Exit!Snap, Exit!WaiterAt, Exit!GoTo, Exit!WaitReturns
  <2>2. CASE Exit!TakeDone(c)
    BY <2>2 DEF Exit!TakeDone, Exit!WaiterAt, Exit!GoTo, Exit!Consumed
  <2>3. CASE Exit!Enroll(c)
    BY <2>3 DEF Exit!Enroll, Exit!WaiterAt, Exit!GoTo
  <2>4. CASE Exit!RegisterWait(c)
    BY <2>4 DEF Exit!RegisterWait, Exit!WaiterAt, Exit!GoTo
  <2>5. CASE Exit!RegisterFailed(c)
    <3>1. CASE Exit!WaiterAt(c, "undoDone") /\ status = "DONE"
      BY <2>5, <3>1 DEF Exit!RegisterFailed, Exit!WaiterAt, Exit!GoTo, Exit!Consumed, Exit!WaitReturns
    <3>2. CASE Exit!WaiterAt(c, "undoDone") /\ status # "DONE"
      BY <2>5, <3>2 DEF Exit!RegisterFailed, Exit!WaiterAt, Exit!GoTo, Exit!Consumed, Exit!WaitReturns
    <3>3. CASE Exit!WaiterAt(c, "undoBusy")
      BY <2>5, <3>3 DEF Exit!RegisterFailed, Exit!WaiterAt, Exit!GoTo, Exit!Consumed, Exit!WaitReturns
    <3>. QED
      BY <2>5, <3>1, <3>2, <3>3 DEF Exit!RegisterFailed
  <2>6. CASE Exit!CommitWait(c)
    BY <2>6 DEF Exit!CommitWait, Exit!WaiterAt, Exit!GoTo
  <2>7. CASE Exit!LateDone(c)
    BY <2>7 DEF Exit!LateDone, Exit!WaiterAt, Exit!GoTo
  <2>8. CASE Exit!Odd(c)
    BY <2>8 DEF Exit!Odd, Exit!WaiterAt, Exit!WaitReturns
  <2>9. CASE Exit!Wake(c)
    BY <2>9 DEF Exit!Wake, Exit!WaiterAt, Exit!GoTo, Exit!Box
  <2>10. CASE Exit!Expire(c)
    BY <2>10 DEF Exit!Expire, Exit!WaiterAt, Exit!GoTo, Exit!Box
  <2>11. CASE Exit!Woken(c)
    <3>1. /\ Exit!WaiterAt(c, wpc[c])
          /\ status' = "INIT" /\ owed' = owed - 1 /\ waitThread' = None /\ signal' = signal
          /\ Exit!GoTo(c, "drain") \/ Exit!WaitReturns(c, "OK")
      BY <2>11 DEF Exit!Woken, Exit!WaiterAt
    <3>2. CASE Exit!GoTo(c, "drain")
      BY <3>1, <3>2 DEF Exit!WaiterAt, Exit!GoTo
    <3>3. CASE Exit!WaitReturns(c, "OK")
      BY <3>1, <3>3 DEF Exit!WaiterAt, Exit!WaitReturns
    <3>. QED
      BY <3>1, <3>2, <3>3
  <2>12. CASE Exit!Expired(c)
    BY <2>12 DEF Exit!Expired, Exit!WaiterAt, Exit!GoTo
  <2>13. CASE Exit!Wipe(c)
    BY <2>13 DEF Exit!Wipe, Exit!WaiterAt, Exit!GoTo, Exit!WaitReturns
  <2>14. CASE Exit!Drain(c)
    BY <2>14 DEF Exit!Drain, Exit!WaiterAt, Exit!WaitReturns, Exit!Box
  <2>. QED
    BY <1>6, <2>1, <2>2, <2>3, <2>4, <2>5, <2>6, <2>7, <2>8, <2>9, <2>10, <2>11, <2>12, <2>13, <2>14
       DEF StopWait, Exit!WaiterStep
<1>7. ASSUME NEW c \in Controllers, InitQueue(c) \/ Deinit(c) \/ StartReset(c) PROVE Exit!Reset
    BY <1>7 DEF InitQueue, Deinit, StartReset
<1>8. CASE UNCHANGED vars
    BY <1>1, <1>8 DEF vars
<1>. QED
    BY <1>1, <1>2, <1>3, <1>4, <1>5, <1>6, <1>7, <1>8, ClientFrame, LoopFrame, ControlFrame
       DEF Next, WorkerStep, ControllerStep

\* One step of completion_wait while nothing is overtaken: c goes from one place
\* to the next, and the status from one value to another.
Moves(c, from, to, before, after) ==
    /\ wpc[c] = from /\ wpc' = [wpc EXCEPT ![c] = to]
    /\ status = before /\ status' = after

LEMMA WaitMoves ==
    ASSUME Exit!TypeOK, NEW c \in Controllers, tmo[c] = "forever", StopWait(c), StatusAgrees, cpc[c] = "wait"
    PROVE  /\ overtaken' = (overtaken \/ Exit!InDone)
           /\ UNCHANGED <<backend, dpc, target, dret>>
           /\ \/ /\ signal' = signal
                 /\ \/ Moves(c, "snap", "take", "DONE", "DONE")
                    \/ Moves(c, "snap", "enroll", "INIT", "INIT")
                    \/ Moves(c, "take", "wipe", "DONE", "INIT")
                    \/ Moves(c, "enroll", "casWait", status, status)
                    \/ Moves(c, "casWait", "casWaiting", "INIT", "WAIT")
                    \/ Moves(c, "casWait", "undoDone", "DONE", "DONE")
                    \/ Moves(c, "undoDone", "drain", "DONE", "INIT")
                    \/ Moves(c, "casWaiting", "sleep", "WAIT", "WAITING")
                    \/ Moves(c, "casWaiting", "lateDone", "DONE", "DONE")
                    \/ Moves(c, "lateDone", "drain", "DONE", "INIT")
                    \/ Moves(c, "woken", "drain", status, "INIT")
                    \/ Moves(c, "woken", "out", status, "INIT")
                    \/ Moves(c, "wipe", "drain", status, status)
              \/ /\ signal' = signal \ {Exit!Box(c)}
                 /\ \/ Moves(c, "sleep", "woken", status, status) /\ Exit!Box(c) \in signal
                    \/ Moves(c, "drain", "out", status, status)
           /\ tmo' = tmo
<1> USE DEF Exit!TypeOK, StatusAgrees, Exit!WaiterAt, Exit!posting, Exit!shared, Moves
<1>1. CASE Exit!Snap(c)
    BY <1>1 DEF Exit!Snap, Exit!GoTo, Exit!WaitReturns
<1>2. CASE Exit!TakeDone(c)
    BY <1>2 DEF Exit!TakeDone, Exit!GoTo, Exit!Consumed
<1>3. CASE Exit!Enroll(c)
    BY <1>3 DEF Exit!Enroll, Exit!GoTo
<1>4. CASE Exit!RegisterWait(c)
    BY <1>4 DEF Exit!RegisterWait, Exit!GoTo
<1>5. CASE Exit!RegisterFailed(c)
    BY <1>5 DEF Exit!RegisterFailed, Exit!GoTo, Exit!Consumed
<1>6. CASE Exit!CommitWait(c)
    BY <1>6 DEF Exit!CommitWait, Exit!GoTo
<1>7. CASE Exit!LateDone(c)
    BY <1>7 DEF Exit!LateDone, Exit!GoTo
<1>8. CASE Exit!Odd(c)
    BY <1>8 DEF Exit!Odd
<1>9. CASE Exit!Wake(c)
    BY <1>9 DEF Exit!Wake, Exit!GoTo
<1>10. CASE Exit!Expire(c)
    BY <1>10 DEF Exit!Expire
<1>11. CASE Exit!Woken(c)
    BY <1>11 DEF Exit!Woken, Exit!GoTo, Exit!WaitReturns
<1>12. CASE Exit!Expired(c)
    BY <1>12 DEF Exit!Expired
<1>13. CASE Exit!Wipe(c)
    BY <1>13 DEF Exit!Wipe, Exit!GoTo
<1>14. CASE Exit!Drain(c)
    BY <1>14 DEF Exit!Drain, Exit!WaitReturns
<1>. QED
    BY <1>1, <1>2, <1>3, <1>4, <1>5, <1>6, <1>7, <1>8, <1>9, <1>10, <1>11, <1>12, <1>13, <1>14
       DEF StopWait, Exit!WaiterStep

LEMMA StoppingStep ==
    ASSUME QueueTypeOK, LifeCycle, Stopping, Waits, Exit!TypeOK, [Next]_vars
    PROVE  Stopping' /\ Waits'
<1> USE WorkqueueAssumption DEF Stopping, Waits, QueueTypeOK, Exit!TypeOK
<1>1. ASSUME UNCHANGED <<state, cpc, exit>> PROVE Stopping' /\ Waits'
    BY <1>1 DEF exit
<1>2. ASSUME NEW k \in Workers, Announce(k) PROVE Stopping' /\ Waits'
    BY <1>2 DEF Announce, Exit!DoneCall, Exit!waiting, queue
<1>3. ASSUME NEW k \in Workers, Announcing(k) PROVE Stopping' /\ Waits'
    BY <1>3 DEF Announcing, Exit!PosterStep, Exit!DoneSwap, Exit!Aim, Exit!Post, Exit!waiting, queue
<1>4. ASSUME NEW c \in Controllers, InitQueue(c) \/ Deinit(c) \/ StartReset(c)
      PROVE  Stopping' /\ Waits'
    BY <1>4 DEF InitQueue, Deinit, StartReset, ControllerGoes, Exit!Reset, Exit!waiting, queue, LifeCycle
<1>5. ASSUME NEW c \in Controllers, Start(c) \/ Stop(c) \/ StartDrain(c) \/ StartThread(c)
      PROVE  Stopping' /\ Waits'
    BY <1>5 DEF Start, Stop, StartDrain, StartThread, ControllerGoes, exit, LifeCycle
<1>6. ASSUME NEW c \in Controllers, StopClean(c) \/ StopIdle(c) PROVE Stopping' /\ Waits'
    BY <1>6 DEF StopClean, StopIdle, ControllerGoes, exit
<1>7. ASSUME NEW c \in Controllers, StopPost(c) PROVE Stopping' /\ Waits'
    BY <1>7 DEF StopPost, ControllerGoes, Exit!WaitCall
<1>8. ASSUME NEW c \in Controllers, StopWait(c) PROVE Stopping' /\ Waits'
  <2>1. UNCHANGED <<state, cpc>> /\ cpc[c] = "wait"
    BY <1>8 DEF StopWait, queue
  <2>2. \A d \in Controllers : d = c
    BY WorkqueueAssumption
  <2>3. tmo'[c] = "forever"
    BY <1>8 DEF StopWait, Exit!WaiterStep, Exit!Snap, Exit!TakeDone, Exit!Enroll, Exit!RegisterWait,
          Exit!RegisterFailed, Exit!CommitWait, Exit!LateDone, Exit!Odd, Exit!Wake, Exit!Expire,
          Exit!Woken, Exit!Expired, Exit!Wipe, Exit!Drain, Exit!GoTo, Exit!WaitReturns, Exit!Consumed
  <2>. QED
    BY <2>1, <2>2, <2>3
<1>9. CASE UNCHANGED vars
    BY <1>1, <1>9 DEF vars, queue
<1>. QED
    BY <1>1, <1>2, <1>3, <1>4, <1>5, <1>6, <1>7, <1>8, <1>9, ClientFrame, LoopFrame
       DEF Next, WorkerStep, ControllerStep

LEMMA JoinWorkerStep ==
    ASSUME QueueTypeOK, LifeCycle, Stopping, Waits, Exit!TypeOK, JoinParts, NEW k \in Workers,
           WorkerStep(k)
    PROVE  JoinParts'
<1> USE WorkqueueAssumption DEF QueueTypeOK, Alive
<1>1. CASE Sleep(k) \/ Claim(k) \/ Run(k) \/ Finish(k) \/ CheckStop(k)
  <2>1. UNCHANGED <<state, cpc, backend, status, signal, wpc, dpc>>
    BY <1>1, LoopFrame DEF exit
  <2>2. /\ kpc[k] # "none" /\ \E at \in {"wait", "claim", "run", "finish", "check", "exit"} :
            /\ kpc' = [kpc EXCEPT ![k] = at]
            /\ at = "exit" => state = "STOPPING" \/ state = "UNINIT"
    BY <1>1 DEF Sleep, Claim, Run, Finish, CheckStop, WorkerGoes
  <2>3. \A l \in Workers : /\ Alive(l)' <=> Alive(l)
                           /\ kpc'[l] = "exit" => kpc[l] = "exit" \/ state \in {"STOPPING", "UNINIT"}
    BY <2>2
  <2>4. OneWorker'
    BY <2>1, <2>3 DEF JoinParts, OneWorker
  <2>5. OneDone' /\ StatusAgrees' /\ TokenAgrees'
    BY <2>1, <2>3 DEF JoinParts, OneDone, StatusAgrees, TokenAgrees, Exit!Box
  <2>. QED
    BY <2>4, <2>5 DEF JoinParts
<1>2. CASE Announce(k)
  <2>1. /\ kpc[k] = "exit" /\ kpc' = [kpc EXCEPT ![k] = "none"]
        /\ UNCHANGED <<state, cpc, backend, signal, wpc>>
    BY <1>2 DEF Announce, WorkerGoes, Exit!DoneCall, Exit!waiting, queue
  <2>2. \A l \in Workers : ~Alive(l)' /\ dpc[l] = "out"
    BY <2>1 DEF JoinParts, OneWorker, OneDone
  <2>3. \A c \in Controllers : Exit!Box(c) \notin signal
    BY <2>1 DEF JoinParts, TokenAgrees
  <2>4. \A c \in Controllers : \/ cpc[c] = "post" /\ wpc[c] = "out"
                               \/ wpc[c] \in {"snap", "enroll", "casWait", "casWaiting", "sleep"}
    BY <2>1 DEF JoinParts, OneWorker, Waits, Stopping
  <2>5. \/ status = "INIT" /\ status' = "DONE" /\ dpc' = [dpc EXCEPT ![k] = "out"]
        \/ /\ status \in {"WAIT", "WAITING"} /\ status' = status
           /\ dpc' = [dpc EXCEPT ![k] = IF status = "WAIT" THEN "fromWAIT" ELSE "fromWAITING"]
    <3>1. status # "DONE"
      BY <2>1 DEF JoinParts, OneWorker
    <3>. QED
      BY <1>2, <3>1 DEF Announce, Exit!DoneCall, Exit!DoneReturns
  <2>6. \A c \in Controllers : status \in {"WAIT", "WAITING"} => wpc[c] \in {"casWaiting", "sleep"}
    BY <2>4 DEF JoinParts, StatusAgrees
  <2>7. OneWorker' /\ TokenAgrees'
    BY <2>1, <2>2, <2>3 DEF OneWorker, TokenAgrees, Exit!Box
  <2>8. OneDone'
    BY <2>1, <2>2, <2>5, <2>6 DEF OneDone, Exit!TypeOK
  <2>9. StatusAgrees'
    BY <2>1, <2>4, <2>5 DEF StatusAgrees, JoinParts
  <2>. QED
    BY <2>7, <2>8, <2>9 DEF JoinParts
<1>3. CASE Announcing(k)
  <2>1. UNCHANGED <<state, cpc, kpc, backend, wpc>> /\ dpc[k] # "out"
    BY <1>3 DEF Announcing, Exit!PosterStep, Exit!DoneSwap, Exit!Aim, Exit!Post, Exit!waiting, queue, working
  <2>2. \A l \in Workers : ~Alive(l) /\ ~Alive(l)'
    BY <2>1 DEF JoinParts, OneDone
  <2>3. \A c \in Controllers : wpc[c] \in {"casWaiting", "sleep"}
    BY <2>1 DEF JoinParts, OneDone
  <2>4. /\ \/ status' = status
           \/ status' = "DONE"
        /\ \/ signal' = signal
           \/ signal' = signal \cup {target[k]} /\ status = "DONE" /\ status' = "DONE"
        /\ \E at \in {"out", "fromWAIT", "fromWAITING", "aim", "post"} :
             /\ dpc' = [dpc EXCEPT ![k] = at]
             /\ at \in {"aim", "post"} => status' = "DONE"
    <3>1. CASE Exit!DoneSwap(k)
      BY <3>1 DEF Exit!DoneSwap, Exit!DoneReturns
    <3>2. CASE Exit!Aim(k)
      BY <3>2, <2>1 DEF Exit!Aim, Exit!DoneReturns, Exit!shared, JoinParts, OneDone
    <3>3. CASE Exit!Post(k)
      BY <3>3, <2>1 DEF Exit!Post, Exit!DoneReturns, JoinParts, OneDone
    <3>. QED
      BY <1>3, <3>1, <3>2, <3>3 DEF Announcing, Exit!PosterStep
  <2>5. OneWorker'
    BY <2>2 DEF OneWorker
  <2>6. OneDone'
    BY <2>1, <2>2, <2>3, <2>4 DEF OneDone, Exit!TypeOK, JoinParts
  <2>7. StatusAgrees'
    BY <2>1, <2>3, <2>4 DEF StatusAgrees, JoinParts
  <2>8. TokenAgrees'
    BY <2>1, <2>2, <2>3, <2>4 DEF TokenAgrees, JoinParts, Exit!Box
  <2>. QED
    BY <2>5, <2>6, <2>7, <2>8 DEF JoinParts
<1>. QED
    BY <1>1, <1>2, <1>3 DEF WorkerStep

\* The controller's own calls.
LEMMA JoinControllerStep ==
    ASSUME QueueTypeOK, LifeCycle, Stopping, Waits, Exit!TypeOK, JoinParts, NEW c \in Controllers,
           InitQueue(c) \/ Deinit(c) \/ Start(c) \/ Stop(c) \/ ControllerStep(c), ~overtaken'
    PROVE  JoinParts'
<1> USE WorkqueueAssumption DEF QueueTypeOK, Alive
<1>0. \A d \in Controllers : d = c
    OBVIOUS
<1>1. CASE InitQueue(c) \/ Deinit(c) \/ StartReset(c)
  <2>1. /\ UNCHANGED <<kpc, backend, dpc, wpc>> /\ status' = "INIT" /\ signal' \subseteq signal
        /\ \/ cpc[c] = "out" /\ state \in {"IDLE", "UNINIT"} /\ cpc' = cpc
           \/ cpc[c] = "reset" /\ cpc' = [cpc EXCEPT ![c] = "create"]
    BY <1>1 DEF InitQueue, Deinit, StartReset, ControllerGoes, Exit!Reset, Exit!waiting, Exit!posting, working
  <2>2. wpc[c] = "out"
    BY <2>1 DEF Waits
  <2>3. \A l \in Workers : ~Alive(l) /\ ~Alive(l)' /\ dpc[l] = "out"
    BY <2>1, <2>2 DEF JoinParts, OneWorker, OneDone
  <2>4. Exit!Box(c) \notin signal
    BY <2>2 DEF JoinParts, TokenAgrees
  <2>5. OneWorker' /\ OneDone' /\ StatusAgrees' /\ TokenAgrees'
    BY <1>0, <2>1, <2>2, <2>3, <2>4 DEF OneWorker, OneDone, StatusAgrees, TokenAgrees, Exit!Box
  <2>. QED
    BY <2>5 DEF JoinParts
<1>2. CASE Start(c) \/ StartDrain(c)
  <2>1. /\ UNCHANGED <<kpc, backend, dpc, wpc, status, signal>> /\ state' = "RUNNING"
        /\ \/ cpc[c] = "out" /\ state = "IDLE" /\ cpc' = [cpc EXCEPT ![c] = "drain"]
           \/ cpc[c] = "drain" /\ cpc' = [cpc EXCEPT ![c] = "reset"]
    BY <1>2 DEF Start, StartDrain, ControllerGoes, exit, working, LifeCycle
  <2>2. \A l \in Workers : ~Alive(l) /\ ~Alive(l)'
    BY <2>1 DEF JoinParts, OneWorker
  <2>3. OneWorker' /\ OneDone' /\ StatusAgrees' /\ TokenAgrees'
    BY <1>0, <2>1, <2>2 DEF JoinParts, OneWorker, OneDone, StatusAgrees, TokenAgrees, Exit!Box
  <2>. QED
    BY <2>3 DEF JoinParts
<1>3. CASE StartThread(c)
  <2>1. /\ cpc[c] = "create" /\ cpc' = [cpc EXCEPT ![c] = "out"] /\ state = "RUNNING"
        /\ UNCHANGED <<backend, dpc, wpc, status, signal>>
        /\ \/ state' = "RUNNING" /\ \E k \in Workers : kpc' = [kpc EXCEPT ![k] = "wait"]
           \/ state' = "IDLE" /\ kpc' = kpc
    BY <1>3 DEF StartThread, ControllerGoes, WorkerGoes, exit, LifeCycle
  <2>2. wpc[c] = "out" /\ status # "DONE" /\ Exit!Box(c) \notin signal
    BY <2>1 DEF Waits, JoinParts, StatusAgrees, TokenAgrees
  <2>3. \A l \in Workers : ~Alive(l) /\ dpc[l] = "out"
    BY <2>1, <2>2 DEF JoinParts, OneWorker, OneDone
  <2>4. \A k, l \in Workers : kpc'[k] # "none" /\ kpc'[l] # "none" => k = l
    BY <2>1, <2>3
  <2>5. \A k \in Workers : kpc'[k] # "none" => kpc'[k] = "wait" /\ state' = "RUNNING"
    BY <2>1, <2>3
  <2>6. OneWorker'
    BY <1>0, <2>1, <2>2, <2>4, <2>5 DEF OneWorker
  <2>7. OneDone' /\ StatusAgrees' /\ TokenAgrees'
    BY <1>0, <2>1, <2>2, <2>3 DEF JoinParts, OneDone, StatusAgrees, TokenAgrees, Exit!Box
  <2>. QED
    BY <2>6, <2>7 DEF JoinParts
<1>4. CASE Stop(c)
  <2>1. /\ UNCHANGED <<kpc, backend, dpc, wpc, status, signal>> /\ state' = "STOPPING"
        /\ cpc[c] = "out" /\ cpc' = [cpc EXCEPT ![c] = "post"]
    BY <1>4 DEF Stop, ControllerGoes, exit, working
  <2>2. OneWorker'
    BY <1>0, <2>1 DEF JoinParts, OneWorker
  <2>3. OneDone' /\ StatusAgrees' /\ TokenAgrees'
    BY <1>0, <2>1 DEF JoinParts, OneDone, StatusAgrees, TokenAgrees, Exit!Box, Waits
  <2>. QED
    BY <2>2, <2>3 DEF JoinParts
<1>5. CASE StopPost(c)
  <2>1. /\ UNCHANGED <<kpc, backend, dpc, status, signal, state>> /\ wpc' = [wpc EXCEPT ![c] = "snap"]
        /\ cpc[c] = "post" /\ cpc' = [cpc EXCEPT ![c] = "wait"] /\ wpc[c] = "out"
    BY <1>5 DEF StopPost, ControllerGoes, Exit!WaitCall, Exit!shared, Exit!posting, working
  <2>2. OneWorker'
    BY <1>0, <2>1 DEF JoinParts, OneWorker, Exit!TypeOK
  <2>3. OneDone' /\ StatusAgrees' /\ TokenAgrees'
    BY <1>0, <2>1 DEF JoinParts, OneDone, StatusAgrees, TokenAgrees, Exit!Box, Exit!TypeOK
  <2>. QED
    BY <2>2, <2>3 DEF JoinParts
<1>6. CASE StopWait(c)
  <2>1. UNCHANGED <<kpc, cpc, state>> /\ cpc[c] = "wait"
    BY <1>6 DEF StopWait, working, queue
  <2>2. StatusAgrees /\ tmo[c] = "forever"
    BY DEF JoinParts, Waits
  <2>3. overtaken' = (overtaken \/ Exit!InDone) /\ UNCHANGED <<backend, dpc>>
    BY <1>6, <2>1, <2>2, WaitMoves
  <2>4. ~Exit!InDone
    BY <2>3, Zenon
  <2>5. \A l \in Workers : dpc[l] = "out"
    BY <2>4 DEF Exit!InDone
  <2>6. \/ Moves(c, "snap", "take", "DONE", "DONE")
        \/ Moves(c, "snap", "enroll", "INIT", "INIT")
        \/ Moves(c, "take", "wipe", "DONE", "INIT")
        \/ Moves(c, "enroll", "casWait", status, status)
        \/ Moves(c, "casWait", "casWaiting", "INIT", "WAIT")
        \/ Moves(c, "casWait", "undoDone", "DONE", "DONE")
        \/ Moves(c, "undoDone", "drain", "DONE", "INIT")
        \/ Moves(c, "casWaiting", "sleep", "WAIT", "WAITING")
        \/ Moves(c, "casWaiting", "lateDone", "DONE", "DONE")
        \/ Moves(c, "lateDone", "drain", "DONE", "INIT")
        \/ Moves(c, "woken", "drain", status, "INIT")
        \/ Moves(c, "woken", "out", status, "INIT")
        \/ Moves(c, "wipe", "drain", status, status)
        \/ Moves(c, "drain", "out", status, status) /\ signal' = signal \ {Exit!Box(c)}
        \/ /\ Moves(c, "sleep", "woken", status, status)
           /\ Exit!Box(c) \in signal /\ signal' = signal \ {Exit!Box(c)}
    BY <1>6, <2>1, <2>2, WaitMoves
  <2>7. signal' \subseteq signal
    BY <1>6, <2>1, <2>2, WaitMoves
  <2>8. OneWorker'
    BY <1>0, <2>1, <2>6 DEF JoinParts, OneWorker, StatusAgrees, TokenAgrees, Moves, Exit!TypeOK
  <2>9. OneDone' /\ StatusAgrees'
    BY <1>0, <2>1, <2>3, <2>5, <2>6 DEF JoinParts, OneDone, StatusAgrees, Moves, Exit!TypeOK
  <2>10. TokenAgrees'
    BY <1>0, <2>1, <2>3, <2>6, <2>7
       DEF JoinParts, TokenAgrees, OneWorker, StatusAgrees, Moves, Exit!TypeOK, Exit!Box
  <2>. QED
    BY <2>8, <2>9, <2>10 DEF JoinParts
<1>7. CASE StopClean(c)
  <2>1. /\ UNCHANGED <<kpc, backend, dpc, status, signal, state, wpc>>
        /\ cpc[c] = "wait" /\ cpc' = [cpc EXCEPT ![c] = "idle"] /\ wpc[c] = "out"
    BY <1>7 DEF StopClean, ControllerGoes, exit, working
  <2>2. \A l \in Workers : ~Alive(l) /\ ~Alive(l)'
    BY <2>1 DEF JoinParts, OneWorker
  <2>3. OneWorker' /\ OneDone' /\ StatusAgrees' /\ TokenAgrees'
    BY <1>0, <2>1, <2>2 DEF JoinParts, OneWorker, OneDone, StatusAgrees, TokenAgrees, Exit!Box
  <2>. QED
    BY <2>3 DEF JoinParts
<1>8. CASE StopIdle(c)
  <2>1. /\ UNCHANGED <<kpc, backend, dpc, status, signal, wpc>>
        /\ cpc[c] = "idle" /\ cpc' = [cpc EXCEPT ![c] = "out"]
    BY <1>8 DEF StopIdle, ControllerGoes, exit, working
  <2>2. \A l \in Workers : ~Alive(l) /\ ~Alive(l)'
    BY <2>1 DEF JoinParts, OneWorker
  <2>3. OneWorker' /\ OneDone' /\ StatusAgrees' /\ TokenAgrees'
    BY <1>0, <2>1, <2>2 DEF JoinParts, OneWorker, OneDone, StatusAgrees, TokenAgrees, Exit!Box, Waits
  <2>. QED
    BY <2>3 DEF JoinParts
<1>. QED
    BY <1>1, <1>2, <1>3, <1>4, <1>5, <1>6, <1>7, <1>8 DEF ControllerStep

\* What was overtaken stays so.
LEMMA OvertakenStays ==
    ASSUME Exit!TypeOK, [Next]_vars, ~overtaken'
    PROVE  ~overtaken
<1>1. ASSUME UNCHANGED exit PROVE ~overtaken
    BY <1>1 DEF exit
<1>2. ASSUME Exit!Reset PROVE ~overtaken
    BY <1>2 DEF Exit!Reset
<1>3. ASSUME NEW k \in Workers, Announce(k) PROVE ~overtaken
    BY <1>3 DEF Announce, Exit!DoneCall
<1>4. ASSUME NEW k \in Workers, Announcing(k) PROVE ~overtaken
    BY <1>4 DEF Announcing, Exit!PosterStep, Exit!DoneSwap, Exit!Aim, Exit!Post, Exit!history
<1>5. ASSUME NEW c \in Controllers, StopPost(c) PROVE ~overtaken
    BY <1>5 DEF StopPost, Exit!WaitCall
<1>6. ASSUME NEW c \in Controllers, StopWait(c) PROVE ~overtaken
  <2>1. overtaken' = (overtaken \/ Exit!InDone)
    BY <1>6 DEF StopWait, Exit!WaiterStep, Exit!Snap, Exit!TakeDone, Exit!Enroll, Exit!RegisterWait,
       Exit!RegisterFailed, Exit!CommitWait, Exit!LateDone, Exit!Odd, Exit!Wake, Exit!Expire,
       Exit!Woken, Exit!Expired, Exit!Wipe, Exit!Drain, Exit!WaiterAt
  <2>. QED
    BY <2>1, Zenon
<1>7. ASSUME NEW c \in Controllers, InitQueue(c) \/ Deinit(c) \/ StartReset(c) PROVE Exit!Reset
    BY <1>7 DEF InitQueue, Deinit, StartReset
<1>8. CASE UNCHANGED vars
    BY <1>1, <1>8 DEF vars
<1>. QED
    BY <1>1, <1>2, <1>3, <1>4, <1>5, <1>6, <1>7, <1>8, ClientFrame, LoopFrame, ControlFrame
       DEF Next, WorkerStep, ControllerStep

LEMMA JoinStep ==
    ASSUME QueueTypeOK, LifeCycle, Stopping, Waits, Exit!TypeOK, Join, [Next]_vars
    PROVE  Join'
<1> SUFFICES ASSUME ~overtaken' PROVE JoinParts'
    BY DEF Join
<1>1. JoinParts
    BY OvertakenStays DEF Join
<1>2. ASSUME UNCHANGED <<state, cpc, kpc, exit>> PROVE JoinParts'
  <2>1. UNCHANGED <<state, cpc, kpc, backend, status, signal, wpc, dpc>>
    BY <1>2 DEF exit
  <2>2. OneWorker' /\ OneDone' /\ StatusAgrees' /\ TokenAgrees'
    BY <1>1, <2>1 DEF JoinParts, OneWorker, OneDone, StatusAgrees, TokenAgrees, Alive, Exit!Box
  <2>. QED
    BY <2>2 DEF JoinParts
<1>3. CASE UNCHANGED vars
    BY <1>2, <1>3 DEF vars, queue, working
<1>. QED
    BY <1>1, <1>2, <1>3, ClientFrame, JoinWorkerStep, JoinControllerStep DEF Next

LEMMA ServedStep ==
    ASSUME QueueTypeOK, LifeCycle, Stopping, Waits, Exit!TypeOK, Join, Served, [Next]_vars
    PROVE  Served'
<1> USE WorkqueueAssumption DEF QueueTypeOK, Alive
<1> SUFFICES ASSUME ~overtaken', NEW d \in Controllers, state' = "RUNNING", cpc'[d] = "out"
             PROVE  \E k \in Workers : kpc'[k] # "none"
    BY DEF Served
<1>0. ~overtaken /\ OneWorker
    BY OvertakenStays DEF Join, JoinParts
<1>1. ASSUME UNCHANGED <<state, cpc, kpc>> PROVE \E k \in Workers : kpc'[k] # "none"
    BY <1>0, <1>1 DEF Served
<1>2. ASSUME NEW k \in Workers, Sleep(k) \/ Claim(k) \/ Run(k) \/ Finish(k) \/ CheckStop(k)
      PROVE \E l \in Workers : kpc'[l] # "none"
    BY <1>2 DEF Sleep, Claim, Run, Finish, CheckStop, WorkerGoes
<1>3. ASSUME NEW k \in Workers, Announce(k) PROVE FALSE
    BY <1>0, <1>3 DEF Announce, OneWorker, queue
<1>4. ASSUME NEW k \in Workers, Announcing(k) PROVE UNCHANGED <<state, cpc, kpc>>
    BY <1>4 DEF Announcing, queue, working
<1>5. ASSUME NEW c \in Controllers,
             InitQueue(c) \/ Deinit(c) \/ Start(c) \/ Stop(c) \/ StartDrain(c) \/ StartReset(c)
      PROVE  FALSE
    BY <1>5 DEF InitQueue, Deinit, Start, Stop, StartDrain, StartReset, ControllerGoes
<1>6. ASSUME NEW c \in Controllers, StartThread(c) PROVE \E k \in Workers : kpc'[k] # "none"
    BY <1>6 DEF StartThread, WorkerGoes
<1>7. ASSUME NEW c \in Controllers, StopPost(c) \/ StopWait(c) \/ StopClean(c) \/ StopIdle(c)
      PROVE  FALSE
    BY <1>7 DEF StopPost, StopWait, StopClean, StopIdle, ControllerGoes, LifeCycle, queue
<1>8. CASE UNCHANGED vars
    BY <1>1, <1>8 DEF vars, queue, working
<1>. QED
    BY <1>1, <1>2, <1>3, <1>4, <1>5, <1>6, <1>7, <1>8, ClientFrame DEF Next, WorkerStep, ControllerStep

LEMMA StopHeardStep ==
    ASSUME QueueTypeOK, LifeCycle, Stopping, Waits, Exit!TypeOK, Join, StopHeard, [Next]_vars
    PROVE  StopHeard'
<1> USE WorkqueueAssumption DEF QueueTypeOK, Alive
<1> SUFFICES ASSUME ~overtaken', NEW l \in Workers, state' = "STOPPING", kpc'[l] = "wait", ~wake'
             PROVE  \E c \in Controllers : cpc'[c] = "post"
    BY DEF StopHeard
<1>0. ~overtaken /\ OneWorker
    BY OvertakenStays DEF Join, JoinParts
<1>1. ASSUME UNCHANGED <<state, cpc>>, kpc'[l] = kpc[l], ~wake PROVE \E c \in Controllers : cpc'[c] = "post"
    BY <1>0, <1>1 DEF StopHeard
<1>2. ASSUME NEW e \in Clients, Flush(e) \/ ClientStep(e) PROVE \E c \in Controllers : cpc'[c] = "post"
  <2>1. ~wake
    BY <1>2, ClientFrame DEF ClientStep, Flush, Check, Insert, PostWork, Flushed, queue
  <2>. QED
    BY <1>1, <1>2, <2>1, ClientFrame
<1>3. ASSUME NEW w \in Works, EnqueueFromIsr(w) \/ Cancel(w) PROVE \E c \in Controllers : cpc'[c] = "post"
  <2>1. ~wake
    BY <1>3 DEF EnqueueFromIsr, Cancel
  <2>. QED
    BY <1>1, <1>3, <2>1, ClientFrame
<1>4. ASSUME NEW k \in Workers, WorkerStep(k) PROVE \E c \in Controllers : cpc'[c] = "post"
  <2>1. UNCHANGED <<state, cpc>>
    BY <1>4 DEF WorkerStep, Sleep, Claim, Run, Finish, CheckStop, Announce, Announcing, queue
  <2>2. CASE Sleep(k)
    BY <1>0, <2>1, <2>2 DEF Sleep, WorkerGoes, OneWorker
  <2>3. CASE Claim(k) \/ Run(k) \/ Finish(k) \/ CheckStop(k) \/ Announce(k) \/ Announcing(k)
    <3>1. ~wake /\ kpc'[l] = kpc[l]
      BY <2>1, <2>3 DEF Claim, Run, Finish, CheckStop, Announce, Announcing, WorkerGoes, queue, working
    <3>. QED
      BY <1>1, <2>1, <3>1
  <2>. QED
    BY <1>4, <2>2, <2>3 DEF WorkerStep
<1>5. ASSUME NEW c \in Controllers, InitQueue(c) \/ Deinit(c) \/ Start(c) \/ StartDrain(c)
                                    \/ StartReset(c) \/ StartThread(c) \/ StopIdle(c)
      PROVE  FALSE
    BY <1>5 DEF InitQueue, Deinit, Start, StartDrain, StartReset, StartThread, StopIdle, LifeCycle, queue
<1>6. ASSUME NEW c \in Controllers, Stop(c) PROVE \E d \in Controllers : cpc'[d] = "post"
    BY <1>6 DEF Stop, ControllerGoes
<1>7. ASSUME NEW c \in Controllers, StopPost(c) PROVE FALSE
    BY <1>7 DEF StopPost
<1>8. ASSUME NEW c \in Controllers, StopWait(c) PROVE \E d \in Controllers : cpc'[d] = "post"
    BY <1>1, <1>8 DEF StopWait, queue, working
<1>9. ASSUME NEW c \in Controllers, StopClean(c) PROVE FALSE
    BY <1>0, <1>9 DEF StopClean, StopHeard, working
<1>10. CASE UNCHANGED vars
    BY <1>1, <1>10 DEF vars, queue, working
<1>. QED
    BY <1>2, <1>3, <1>4, <1>5, <1>6, <1>7, <1>8, <1>9, <1>10 DEF Next, ControllerStep

LEMMA HeardStep ==
    ASSUME QueueTypeOK, LifeCycle, Exit!TypeOK, Heard, [Next]_vars
    PROVE  Heard'
<1> USE WorkqueueAssumption DEF QueueTypeOK
<1> DEFINE Post == \E e \in Clients : epc'[e] = "post"
<1> SUFFICES ASSUME ~early', ~overtaken', pending' # <<>>, ~wake',
                    state' \in {"IDLE", "RUNNING"} \/ \E c \in Controllers : cpc'[c] = "idle",
                    \A k \in Workers : kpc'[k] \notin {"claim", "run", "finish"}
             PROVE  Post
    BY DEF Heard
<1>0. ~overtaken
    BY OvertakenStays
<1>1. ASSUME ~early, pending # <<>>, ~wake, UNCHANGED epc,
             state \in {"IDLE", "RUNNING"} \/ \E c \in Controllers : cpc[c] = "idle",
             \A k \in Workers : kpc[k] \notin {"claim", "run", "finish"}
      PROVE  Post
    BY <1>0, <1>1 DEF Heard
<1>2. ASSUME NEW e \in Clients, Flush(e) \/ Check(e) \/ Flushed(e) PROVE Post
  <2>1. /\ UNCHANGED <<queue, kpc, cpc, early>>
        /\ \A x \in Clients : epc[x] = "post" => epc'[x] = "post"
    BY <1>2 DEF Flush, Check, Flushed, ClientGoes, working, history
  <2>. QED
    BY <1>0, <2>1 DEF Heard, queue
<1>3. ASSUME NEW e \in Clients, Insert(e) PROVE Post
  <2>1. CASE epc' = [epc EXCEPT ![e] = "post"]
    BY <2>1
  <2>2. CASE UNCHANGED pending /\ epc' = [epc EXCEPT ![e] = "out"] /\ epc[e] = "insert"
    <3>1. UNCHANGED <<state, pending, wake, kpc, cpc, early>>
      BY <1>3, <2>2 DEF Insert, working
    <3>. QED
      BY <1>0, <2>2, <3>1 DEF Heard
  <2>. QED
    BY <1>3, <2>1, <2>2 DEF Insert, ClientGoes
<1>4. ASSUME NEW e \in Clients, PostWork(e) PROVE FALSE
  <2>1. state = "UNINIT"
    BY <1>4 DEF PostWork
  <2>. QED
    BY <1>4, <2>1 DEF PostWork, LifeCycle
<1>5. ASSUME NEW w \in Works, EnqueueFromIsr(w) PROVE FALSE
    BY <1>5 DEF EnqueueFromIsr
<1>6. ASSUME NEW w \in Works, Cancel(w) PROVE Post
    BY <1>1, <1>6 DEF Cancel, ToSet, working, enqueuing
<1>7. ASSUME NEW k \in Workers, Sleep(k) \/ Claim(k) \/ Run(k) \/ Finish(k) PROVE FALSE
  <2>1. CASE Sleep(k)
    BY <2>1 DEF Sleep, WorkerGoes, LifeCycle
  <2>2. CASE Claim(k)
    BY <2>2 DEF Claim, WorkerGoes
  <2>3. CASE Run(k) \/ Finish(k)
    BY <2>3 DEF Run, Finish, WorkerGoes
  <2>. QED
    BY <1>7, <2>1, <2>2, <2>3
<1>8. ASSUME NEW k \in Workers, CheckStop(k) \/ Announce(k) \/ Announcing(k) PROVE Post
  <2>1. /\ UNCHANGED <<queue, epc, cpc, early>>
        /\ \A l \in Workers : kpc'[l] = kpc[l] \/ kpc[l] \in {"check", "exit"}
    BY <1>8 DEF CheckStop, Announce, Announcing, WorkerGoes, enqueuing, history, working
  <2>2. UNCHANGED <<state, pending, wake>>
    BY <2>1 DEF queue
  <2>3. \A l \in Workers : kpc[l] \notin {"claim", "run", "finish"}
    BY <2>1
  <2>. QED
    BY <1>1, <2>1, <2>2, <2>3
<1>9. ASSUME NEW c \in Controllers, InitQueue(c) \/ Deinit(c) \/ Stop(c) \/ StopPost(c) \/ StopWait(c)
                                    \/ StopClean(c)
      PROVE  FALSE
    BY <1>9 DEF InitQueue, Deinit, Stop, StopPost, StopWait, StopClean, ControllerGoes, LifeCycle, queue
<1>10. ASSUME NEW c \in Controllers, Start(c) PROVE Post
    BY <1>1, <1>10 DEF Start, working, enqueuing
<1>11. ASSUME NEW c \in Controllers, StartDrain(c) PROVE Post
  <2>1. early' = (early \/ (wake /\ pending # <<>>))
    BY <1>11 DEF StartDrain
  <2>2. ~early /\ ~(wake /\ pending # <<>>)
    BY <2>1, Zenon
  <2>3. UNCHANGED <<state, pending, kpc, epc>> /\ state = "RUNNING"
    BY <1>11 DEF StartDrain, working, enqueuing, LifeCycle
  <2>. QED
    BY <1>1, <2>2, <2>3
<1>12. ASSUME NEW c \in Controllers, StartReset(c) PROVE Post
    BY <1>1, <1>12 DEF StartReset, LifeCycle, queue, working, enqueuing, history
<1>13. ASSUME NEW c \in Controllers, StartThread(c) PROVE Post
  <2>1. early' = early \/ early' = (early \/ pending # <<>>)
    BY <1>13 DEF StartThread
  <2>2. ~early
    BY <2>1, Zenon
  <2>3. /\ UNCHANGED <<pending, wake, epc>> /\ state = "RUNNING"
        /\ \A l \in Workers : kpc'[l] = kpc[l] \/ kpc[l] = "none"
    BY <1>13 DEF StartThread, WorkerGoes, enqueuing, LifeCycle
  <2>. QED
    BY <1>1, <2>2, <2>3
<1>14. ASSUME NEW c \in Controllers, StopIdle(c) PROVE Post
    BY <1>1, <1>14 DEF StopIdle, working, enqueuing, history
<1>15. CASE UNCHANGED vars
    BY <1>1, <1>15 DEF vars, queue, working, enqueuing, history
<1>. QED
    BY <1>2, <1>3, <1>4, <1>5, <1>6, <1>7, <1>8, <1>9, <1>10, <1>11, <1>12, <1>13, <1>14, <1>15
       DEF Next, ClientStep, WorkerStep, ControllerStep

LEMMA EmptiedStep ==
    ASSUME QueueTypeOK, Held, LifeCycle, Stopping, Waits, Exit!TypeOK, Join, Served, Emptied, [Next]_vars
    PROVE  Emptied'
<1> USE WorkqueueAssumption DEF QueueTypeOK, Alive
<1> DEFINE Good == /\ \A k \in Workers : kpc'[k] = "exit" => pending' = <<>>
                   /\ state' = "STOPPING" /\ (\A k \in Workers : kpc'[k] = "none") => pending' = <<>>
                   /\ ~asserted'
<1> SUFFICES ASSUME ~late', ~early', ~hasty', ~overtaken' PROVE Good
    BY DEF Emptied
<1>0. ~overtaken /\ OneWorker
    BY OvertakenStays DEF Join, JoinParts
<1>1. ASSUME UNCHANGED <<state, pending, asserted, late, early, hasty>>,
             \A k \in Workers : kpc'[k] = kpc[k] \/ (kpc[k] # "none" /\ kpc'[k] \notin {"none", "exit"})
                              \/ (kpc[k] = "exit" /\ kpc'[k] = "none")
      PROVE  Good
  <2>1. ~asserted /\ \A k \in Workers : kpc[k] = "exit" => pending = <<>>
    BY <1>0, <1>1 DEF Emptied
  <2>2. CASE \E k \in Workers : kpc[k] = "exit"
    BY <1>1, <2>1, <2>2
  <2>3. CASE \A k \in Workers : kpc[k] # "exit"
    BY <1>0, <1>1, <2>1, <2>3 DEF Emptied
  <2>. QED
    BY <2>2, <2>3
<1>2. ASSUME NEW e \in Clients, Flush(e) \/ Check(e) \/ PostWork(e) \/ Flushed(e) PROVE Good
    BY <1>1, <1>2 DEF Flush, Check, PostWork, Flushed, queue, working, history
<1>3. ASSUME NEW w \in Items, Link(w), UNCHANGED <<state, kpc, cpc, asserted, early, hasty>> PROVE Good
  <2>1. late' = (late \/ state # "RUNNING")
    BY <1>3 DEF Link
  <2>2. ~late /\ state = "RUNNING"
    BY <2>1, Zenon
  <2>3. \A k \in Workers : kpc[k] # "exit"
    BY <1>0, <2>2 DEF OneWorker
  <2>. QED
    BY <1>0, <1>3, <2>2, <2>3 DEF Emptied
<1>4. ASSUME NEW e \in Clients, Insert(e) PROVE Good
  <2>1. UNCHANGED <<state, kpc, cpc, asserted, early, hasty>>
    BY <1>4 DEF Insert, working
  <2>2. CASE Link(ework[e])
    BY <1>3, <1>4, <2>1, <2>2 DEF Held, Insert
  <2>3. CASE UNCHANGED <<pending, late>>
    BY <1>1, <2>1, <2>3
  <2>. QED
    BY <1>4, <2>2, <2>3 DEF Insert
<1>5. ASSUME NEW w \in Works, EnqueueFromIsr(w) PROVE Good
    BY <1>3, <1>5 DEF EnqueueFromIsr, working, Items
<1>6. ASSUME NEW w \in Works, Cancel(w) PROVE Good
  <2>1. /\ pending # <<>> /\ UNCHANGED <<state, kpc, asserted, late, early, hasty>>
    BY <1>6 DEF Cancel, ToSet, working
  <2>. QED
    BY <1>0, <2>1 DEF Emptied
<1>7. ASSUME NEW k \in Workers, Sleep(k) PROVE Good
  <2>1. state # "UNINIT"
    BY <1>0, <1>7 DEF Sleep, OneWorker
  <2>2. kpc' = [kpc EXCEPT ![k] = "claim"] /\ UNCHANGED <<state, pending, asserted, late, early, hasty>>
    BY <1>7, <2>1 DEF Sleep, WorkerGoes, history
  <2>. QED
    BY <1>1, <1>7, <2>2 DEF Sleep
<1>8. ASSUME NEW k \in Workers, Claim(k) PROVE Good
  <2>1. /\ UNCHANGED <<state, asserted, late, early, hasty>> /\ kpc[k] = "claim"
        /\ kpc' = [kpc EXCEPT ![k] = "check"] \/ kpc' = [kpc EXCEPT ![k] = "run"]
    BY <1>8 DEF Claim, WorkerGoes, history
  <2>2. \A l \in Workers : kpc'[l] # "exit"
    BY <1>0, <2>1 DEF OneWorker
  <2>3. kpc'[k] # "none" /\ ~asserted
    BY <1>0, <2>1 DEF Emptied
  <2>. QED
    BY <2>1, <2>2, <2>3
<1>9. ASSUME NEW k \in Workers, Run(k) PROVE Good
    BY <1>1, <1>9 DEF Run, WorkerGoes, queue, history
<1>10. ASSUME NEW k \in Workers, Finish(k) PROVE Good
    BY <1>1, <1>10 DEF Finish, WorkerGoes
<1>11. ASSUME NEW k \in Workers, CheckStop(k) PROVE Good
  <2>1. hasty' = (hasty \/ (state = "STOPPING" /\ pending # <<>>))
    BY <1>11 DEF CheckStop
  <2>2. ~hasty /\ ~(state = "STOPPING" /\ pending # <<>>)
    BY <2>1, Zenon
  <2>3. /\ UNCHANGED <<state, pending, asserted, late, early>> /\ kpc[k] = "check"
        /\ kpc' = [kpc EXCEPT ![k] = IF state = "STOPPING" THEN "exit" ELSE "wait"]
    BY <1>11 DEF CheckStop, WorkerGoes, queue
  <2>4. kpc'[k] # "none" /\ ~asserted
    BY <1>0, <2>2, <2>3 DEF Emptied
  <2>5. \A l \in Workers : kpc'[l] = "exit" => pending = <<>>
    BY <1>0, <2>2, <2>3 DEF Emptied
  <2>. QED
    BY <2>3, <2>4, <2>5
<1>12. ASSUME NEW k \in Workers, Announce(k) \/ Announcing(k) PROVE Good
    BY <1>1, <1>12 DEF Announce, Announcing, WorkerGoes, queue, history, working
<1>13. ASSUME NEW c \in Controllers, InitQueue(c) \/ Deinit(c) \/ Start(c) \/ StartDrain(c)
                                     \/ StartReset(c) \/ StartThread(c) \/ StopIdle(c)
      PROVE  Good
  <2>1. UNCHANGED <<asserted, late, hasty>> /\ state' # "STOPPING"
    BY <1>13 DEF InitQueue, Deinit, Start, StartDrain, StartReset, StartThread, StopIdle, LifeCycle,
                queue, history
  <2>2. early' = early \/ early' = (early \/ pending # <<>>)
                      \/ early' = (early \/ (wake /\ pending # <<>>))
    BY <1>13 DEF InitQueue, Deinit, Start, StartDrain, StartReset, StartThread, StopIdle, history
  <2>3. ~early
    BY <2>2, Zenon
  <2>4. \A l \in Workers : kpc'[l] # "exit"
    BY <1>0, <1>13 DEF InitQueue, Deinit, Start, StartDrain, StartReset, StartThread, StopIdle,
                WorkerGoes, OneWorker, LifeCycle, working
  <2>. QED
    BY <1>0, <2>1, <2>3, <2>4 DEF Emptied
<1>14. ASSUME NEW c \in Controllers, Stop(c) PROVE Good
  <2>1. \E k \in Workers : kpc[k] # "none"
    BY <1>0, <1>14 DEF Stop, Served
  <2>2. UNCHANGED <<pending, kpc, asserted, late, early, hasty>>
    BY <1>14 DEF Stop, working, history
  <2>. QED
    BY <1>0, <2>1, <2>2 DEF Emptied
<1>15. ASSUME NEW c \in Controllers, StopPost(c) \/ StopWait(c) PROVE Good
    BY <1>1, <1>15 DEF StopPost, StopWait, queue, working, history
<1>16. ASSUME NEW c \in Controllers, StopClean(c) PROVE Good
  <2>1. UNCHANGED <<state, kpc, late, early, hasty>> /\ pending' = <<>> /\ cpc[c] = "wait" /\ wpc[c] = "out"
    BY <1>16 DEF StopClean, working
  <2>2. \A k \in Workers : kpc[k] = "none"
    BY <1>0, <2>1 DEF OneWorker
  <2>3. ~asserted /\ pending = <<>>
    BY <1>0, <2>1, <2>2 DEF Emptied, LifeCycle
  <2>4. asserted' = (asserted \/ pending # <<>>)
    BY <1>16 DEF StopClean
  <2>5. ~asserted'
    BY <2>3, <2>4, Zenon
  <2>. QED
    BY <2>1, <2>5
<1>17. CASE UNCHANGED vars
    BY <1>1, <1>17 DEF vars, queue, working, history
<1>. QED
    BY <1>2, <1>4, <1>5, <1>6, <1>7, <1>8, <1>9, <1>10, <1>11, <1>12, <1>13, <1>14, <1>15, <1>16, <1>17
       DEF Next, ClientStep, WorkerStep, ControllerStep

-----------------------------------------------------------------------------
(* The order of the list *)

LEMMA BeforeAppend ==
    ASSUME NEW S, NEW q \in Seq(S), NEW w \in S, NEW u, NEW f
    PROVE  /\ Before(q, u, f) => Before(Append(q, w), u, f)
           /\ u \in ToSet(q) => Before(Append(q, w), u, w)
<1> DEFINE r == Append(q, w)
<1>1. DOMAIN r = 1..(Len(q) + 1) /\ DOMAIN q = 1..Len(q) /\ Len(q) \in Nat
    OBVIOUS
<1>2. r[Len(q) + 1] = w /\ \A i \in DOMAIN q : r[i] = q[i] /\ i \in DOMAIN r /\ i < Len(q) + 1
    BY <1>1
<1>3. Before(q, u, f) => Before(r, u, f)
    BY <1>2 DEF Before
<1>4. u \in ToSet(q) => Before(r, u, w)
    BY <1>1, <1>2 DEF Before, ToSet
<1>. QED
    BY <1>3, <1>4

LEMMA BeforeTail ==
    ASSUME NEW S, NEW q \in Seq(S), q # <<>>, NEW u, NEW f
    PROVE  /\ Before(q, u, f) /\ u # Head(q) => Before(Tail(q), u, f)
           /\ Distinct(q) => ~Before(q, u, Head(q))
<1> DEFINE r == Tail(q)
<1>1. DOMAIN r = 1..(Len(q) - 1) /\ DOMAIN q = 1..Len(q) /\ Len(q) \in Nat /\ Len(q) > 0
    OBVIOUS
<1>2. \A i \in DOMAIN r : r[i] = q[i + 1]
    BY <1>1
<1>3. Head(q) = q[1] /\ 1 \in DOMAIN q
    BY <1>1
<1>4. Before(q, u, f) /\ u # Head(q) => Before(r, u, f)
  <2> SUFFICES ASSUME NEW i \in DOMAIN q, NEW j \in DOMAIN q, i < j, q[i] = u, q[j] = f, u # q[1]
               PROVE  Before(r, u, f)
    BY <1>3 DEF Before
  <2>1. i - 1 \in DOMAIN r /\ j - 1 \in DOMAIN r /\ i - 1 < j - 1
    BY <1>1
  <2>2. r[i - 1] = u /\ r[j - 1] = f
    BY <1>1, <1>2, <2>1
  <2>. QED
    BY <2>1, <2>2 DEF Before
<1>5. Distinct(q) => ~Before(q, u, Head(q))
    BY <1>1, <1>3 DEF Before, Distinct
<1>. QED
    BY <1>4, <1>5

LEMMA BeforeUnlink ==
    ASSUME NEW S, NEW q \in Seq(S), NEW w \in ToSet(q), NEW u, NEW f, u # w, f # w, Before(q, u, f)
    PROVE  Before(Unlink(q, w), u, f)
<1> DEFINE at == CHOOSE i \in DOMAIN q : q[i] = w
           r == Unlink(q, w)
<1>1. at \in DOMAIN q /\ q[at] = w
    BY DEF ToSet
<1>2. DOMAIN q = 1..Len(q) /\ Len(q) \in Nat
    OBVIOUS
<1> HIDE DEF at
<1>3. r = [i \in 1..(Len(q) - 1) |-> IF i < at THEN q[i] ELSE q[i + 1]]
    BY DEF Unlink, at
<1>4. PICK i \in DOMAIN q, j \in DOMAIN q : i < j /\ q[i] = u /\ q[j] = f
    BY DEF Before
<1> DEFINE new(n) == IF n < at THEN n ELSE n - 1
<1>5. \A n \in {i, j} : new(n) \in 1..(Len(q) - 1) /\ r[new(n)] = q[n]
  <2> SUFFICES ASSUME NEW n \in DOMAIN q, n # at PROVE new(n) \in 1..(Len(q) - 1) /\ r[new(n)] = q[n]
    BY <1>1, <1>4
  <2>1. CASE n < at
    BY <1>1, <1>2, <1>3, <2>1
  <2>2. CASE n > at
    <3>1. n - 1 \in 1..(Len(q) - 1) /\ ~(n - 1 < at) /\ n - 1 + 1 = n
      BY <1>1, <1>2, <2>2
    <3>. QED
      BY <1>1, <1>2, <1>3, <2>2, <3>1
  <2>. QED
    BY <1>1, <1>2, <2>1, <2>2
<1>6. new(i) < new(j)
    BY <1>1, <1>2, <1>4
<1>7. DOMAIN r = 1..(Len(q) - 1)
    BY <1>3
<1>. QED
    BY <1>4, <1>5, <1>6, <1>7 DEF Before

-----------------------------------------------------------------------------
(* flush *)

\* Linking keeps what every barrier waits for before it.
LEMMA LinkBehind ==
    ASSUME QueueTypeOK, FlagsAgree, Behind, ~asserted, ~late, ~early, ~overtaken,
           NEW w \in Items, flags[w] = "IDLE", Link(w),
           NEW f \in Flushers
    PROVE  /\ flags'[f] # "PENDING" => ahead'[f] = {}
           /\ \A u \in ahead'[f] : flags'[u] = "RUNNING" \/ Before(pending', u, f)
<1> USE DEF QueueTypeOK
<1>1. /\ flags' = [flags EXCEPT ![w] = "PENDING"] /\ pending' = Append(pending, w)
      /\ ahead'[f] = IF f = w THEN {u \in Items \ {w} : flags[u] # "IDLE"} ELSE ahead[f]
    BY DEF Link
<1>2. f \in Items
    BY DEF Items
<1>3. CASE f = w
  <2>1. flags'[f] = "PENDING"
    BY <1>1, <1>2, <1>3
  <2>2. ASSUME NEW u \in Items \ {w}, flags[u] # "IDLE"
        PROVE  flags'[u] = "RUNNING" \/ Before(pending', u, f)
    <3>1. CASE flags[u] = "RUNNING"
      BY <1>1, <2>2, <3>1
    <3>2. CASE flags[u] = "PENDING"
      <4>1. u \in ToSet(pending)
        BY <3>2, <2>2 DEF FlagsAgree
      <4>. QED
        BY <1>1, <1>3, <4>1, BeforeAppend
    <3>. QED
      BY <2>2, <3>1, <3>2
  <2>. QED
    BY <1>1, <1>3, <2>1, <2>2
<1>4. CASE f # w
  <2>1. ahead'[f] = ahead[f] /\ flags'[f] = flags[f] /\ ahead[f] \subseteq Items
    BY <1>1, <1>2, <1>4
  <2>2. ASSUME NEW u \in ahead[f] PROVE flags'[u] = "RUNNING" \/ Before(pending', u, f)
    <3>1. CASE flags[u] = "RUNNING"
      BY <1>1, <2>1, <3>1
    <3>2. CASE Before(pending, u, f)
      BY <1>1, <3>2, BeforeAppend
    <3>. QED
      BY <2>2, <3>1, <3>2 DEF Behind
  <2>. QED
    BY <2>1, <2>2 DEF Behind
<1>. QED
    BY <1>3, <1>4

LEMMA AssertedStays == asserted /\ [Next]_vars => asserted'
<1>1. UNCHANGED asserted \/ (asserted' = (asserted \/ pending # <<>>)) => (asserted => asserted')
    BY Zenon
<1>2. ASSUME NEW e \in Clients, Flush(e) \/ ClientStep(e) PROVE UNCHANGED asserted
    BY <1>2, ClientFrame
<1>3. ASSUME NEW w \in Works, EnqueueFromIsr(w) \/ Cancel(w) PROVE UNCHANGED asserted
    BY <1>3, ClientFrame
<1>4. ASSUME NEW k \in Workers, WorkerStep(k) PROVE UNCHANGED asserted
    BY <1>4, LoopFrame DEF WorkerStep, Announce, Announcing, history
<1>5. ASSUME NEW c \in Controllers, StopClean(c) PROVE asserted' = (asserted \/ pending # <<>>)
    BY <1>5 DEF StopClean
<1>6. ASSUME NEW c \in Controllers, InitQueue(c) \/ Deinit(c) \/ Start(c) \/ Stop(c)
      PROVE  UNCHANGED asserted
    BY <1>6 DEF InitQueue, Deinit, Start, Stop, history
<1>7. ASSUME NEW c \in Controllers,
             StartDrain(c) \/ StartReset(c) \/ StartThread(c) \/ StopPost(c) \/ StopWait(c) \/ StopIdle(c)
      PROVE  UNCHANGED asserted
    BY <1>7 DEF StartDrain, StartReset, StartThread, StopPost, StopWait, StopIdle, history
<1>8. UNCHANGED vars => UNCHANGED asserted
    BY DEF vars, history
<1>. QED
    BY <1>1, <1>2, <1>3, <1>4, <1>5, <1>6, <1>7, <1>8 DEF Next, ControllerStep

LEMMA BehindStep ==
    ASSUME QueueTypeOK, Held, LifeCycle, Quiet, FlagsAgree, Waits, Exit!TypeOK, Join, Behind, [Next]_vars
    PROVE  Behind'
<1> USE WorkqueueAssumption DEF QueueTypeOK
<1> DEFINE Kept(f) == /\ flags'[f] # "PENDING" => ahead'[f] = {}
                      /\ \A u \in ahead'[f] : flags'[u] = "RUNNING" \/ Before(pending', u, f)
<1> SUFFICES ASSUME ~asserted', ~late', ~early', ~overtaken', NEW f \in Flushers PROVE Kept(f)
    BY DEF Behind
<1>0. ~overtaken /\ ~asserted /\ OneWorker /\ f \in Items /\ Distinct(pending)
  <2>1. ~asserted
    BY AssertedStays, Zenon
  <2>. QED
    BY <2>1, OvertakenStays DEF Join, JoinParts, Items, FlagsAgree, Distinct
<1>1. ASSUME UNCHANGED <<pending, flags, ahead>>, ~late, ~early PROVE Kept(f)
    BY <1>0, <1>1 DEF Behind
<1>2. ASSUME NEW e \in Clients, Flush(e) \/ Check(e) \/ PostWork(e) \/ Flushed(e) PROVE Kept(f)
    BY <1>1, <1>2 DEF Flush, Check, PostWork, Flushed, queue, history
<1>3. ASSUME NEW w \in Items, flags[w] = "IDLE", Link(w), early' = early PROVE Kept(f)
  <2>1. late' = (late \/ state # "RUNNING")
    BY <1>3 DEF Link
  <2>2. ~late
    BY <2>1, Zenon
  <2>. QED
    BY <1>0, <1>3, <2>2, LinkBehind
<1>4. ASSUME NEW e \in Clients, Insert(e) PROVE Kept(f)
  <2>1. CASE flags[ework[e]] = "IDLE" /\ Link(ework[e])
    BY <1>3, <1>4, <2>1 DEF Insert, Held
  <2>2. CASE UNCHANGED <<pending, flags, late, ahead>>
    BY <1>1, <1>4, <2>2 DEF Insert
  <2>. QED
    BY <1>4, <2>1, <2>2 DEF Insert
<1>5. ASSUME NEW w \in Works, EnqueueFromIsr(w) PROVE Kept(f)
    BY <1>3, <1>5 DEF EnqueueFromIsr, Items
<1>6. ASSUME NEW w \in Works, Cancel(w) PROVE Kept(f)
  <2>1. /\ pending' = Unlink(pending, w) /\ flags' = [flags EXCEPT ![w] = "IDLE"] /\ w \in ToSet(pending)
        /\ ahead'[f] = ahead[f] \ {w} /\ ~late /\ ~early
    BY <1>6 DEF Cancel, Settled
  <2>2. f # w
    OBVIOUS
  <2>3. flags'[f] = flags[f] /\ ahead[f] \subseteq Items
    BY <2>1, <2>2, <1>0
  <2>4. ASSUME NEW u \in ahead'[f] PROVE flags'[u] = "RUNNING" \/ Before(pending', u, f)
    <3>1. u \in ahead[f] /\ u # w /\ flags'[u] = flags[u]
      BY <2>1, <2>3, <2>4
    <3>2. Before(pending, u, f) => Before(Unlink(pending, w), u, f)
      BY <2>1, <2>2, <3>1, BeforeUnlink
    <3>. QED
      BY <1>0, <2>1, <3>1, <3>2 DEF Behind
  <2>. QED
    BY <1>0, <2>1, <2>3, <2>4 DEF Behind
<1>7. ASSUME NEW k \in Workers, Sleep(k) \/ Run(k) \/ CheckStop(k) \/ Announce(k) \/ Announcing(k) PROVE Kept(f)
    BY <1>1, <1>7 DEF Sleep, Run, CheckStop, Announce, Announcing, queue, history
<1>8. ASSUME NEW k \in Workers, Claim(k) PROVE Kept(f)
  <2>1. CASE pending = <<>>
    BY <1>1, <1>8, <2>1 DEF Claim, history
  <2>2. CASE pending # <<>>
    <3> DEFINE w == Head(pending)
    <3>1. /\ pending' = Tail(pending) /\ flags' = [flags EXCEPT ![w] = "RUNNING"]
          /\ UNCHANGED <<ahead, late, early>> /\ kpc[k] = "claim"
      BY <1>8, <2>2 DEF Claim, history
    <3>2. w \in Items /\ flags[w] = "PENDING"
      BY <1>0, <2>2, TailFacts DEF FlagsAgree
    <3>3. \A u \in Items : flags[u] # "RUNNING"
      <4> SUFFICES ASSUME NEW u \in Items, flags[u] = "RUNNING" PROVE FALSE
        OBVIOUS
      <4>1. PICK l \in Workers : kwork[l] = u
        BY DEF FlagsAgree
      <4>2. kpc[l] \in {"run", "finish"}
        BY <4>1 DEF Held, Items
      <4>. QED
        BY <1>0, <3>1, <4>2 DEF OneWorker, Alive
    <3>4. \A u \in ahead[f] : u \in Items /\ Before(pending, u, f)
      BY <1>0, <3>1, <3>3 DEF Behind
    <3>5. f = w => ahead[f] = {}
      BY <1>0, <2>2, <3>4, BeforeTail
    <3>6. \A u \in ahead[f] : u # w => Before(Tail(pending), u, f)
      BY <2>2, <3>4, BeforeTail
    <3> HIDE DEF w
    <3>7. \A u \in Items : flags'[u] = IF u = w THEN "RUNNING" ELSE flags[u]
      BY <3>1, <3>2
    <3>. QED
      BY <1>0, <3>1, <3>4, <3>5, <3>6, <3>7 DEF Behind
  <2>. QED
    BY <2>1, <2>2
<1>9. ASSUME NEW k \in Workers, Finish(k) PROVE Kept(f)
  <2> DEFINE w == kwork[k]
  <2>1. w \in Items /\ flags[w] = "RUNNING"
    BY <1>9 DEF Finish, Held, FlagsAgree
  <2>2. /\ flags' = [flags EXCEPT ![w] = "IDLE"] /\ ahead'[f] = ahead[f] \ {w}
        /\ UNCHANGED <<pending, late, early>>
    BY <1>9 DEF Finish, Settled
  <2> HIDE DEF w
  <2>3. \A u \in Items : flags'[u] = IF u = w THEN "IDLE" ELSE flags[u]
    BY <2>1, <2>2
  <2>4. ahead[f] \subseteq Items
    OBVIOUS
  <2>. QED
    BY <1>0, <2>1, <2>2, <2>3, <2>4 DEF Behind
<1>10. ASSUME NEW c \in Controllers, InitQueue(c) PROVE Kept(f)
  <2>1. pending' = <<>> /\ UNCHANGED <<flags, ahead, late, early>> /\ state = "UNINIT"
    BY <1>10 DEF InitQueue, history
  <2>2. pending = <<>>
    BY <2>1 DEF Quiet
  <2>. QED
    BY <1>1, <2>1, <2>2
<1>11. ASSUME NEW c \in Controllers, Deinit(c) \/ Start(c) \/ Stop(c) \/ StartReset(c) \/ StopPost(c)
                                     \/ StopWait(c) \/ StopIdle(c)
       PROVE  Kept(f)
    BY <1>1, <1>11 DEF Deinit, Start, Stop, StartReset, StopPost, StopWait, StopIdle, queue, history
<1>12. ASSUME NEW c \in Controllers, StartDrain(c) \/ StartThread(c) PROVE Kept(f)
  <2>1. \/ early' = early \/ early' = (early \/ pending # <<>>)
        \/ early' = (early \/ (wake /\ pending # <<>>))
    BY <1>12 DEF StartDrain, StartThread
  <2>2. ~early
    BY <2>1, Zenon
  <2>. QED
    BY <1>1, <1>12, <2>2 DEF StartDrain, StartThread
<1>13. ASSUME NEW c \in Controllers, StopClean(c) PROVE Kept(f)
  <2>1. /\ flags' = [w \in Items |-> IF w \in ToSet(pending) THEN "IDLE" ELSE flags[w]]
        /\ pending' = <<>> /\ asserted' = (asserted \/ pending # <<>>)
        /\ UNCHANGED <<ahead, late, early>>
    BY <1>13 DEF StopClean
  <2>2. pending = <<>>
    BY <2>1, Zenon
  <2>3. flags' = flags
    BY <2>1, <2>2 DEF ToSet
  <2>. QED
    BY <1>1, <2>1, <2>2, <2>3
<1>14. CASE UNCHANGED vars
    BY <1>1, <1>14 DEF vars, queue, history
<1>. QED
    BY <1>2, <1>4, <1>5, <1>6, <1>7, <1>8, <1>9, <1>10, <1>11, <1>12, <1>13, <1>14
       DEF Next, ClientStep, WorkerStep, ControllerStep

-----------------------------------------------------------------------------
LEMMA JoinInit == Init => JInv
<1> SUFFICES ASSUME Init PROVE JInv
    OBVIOUS
<1>1. Exit!TypeOK
  <2>1. calls \in 0..MaxStarts
    BY WorkqueueAssumption DEF Init, Exit!Init
  <2>2. target \in [Workers -> Controllers \cup {Sem, None}] /\ signal \subseteq Controllers \cup {Sem}
    BY DEF Init, Exit!Init
  <2>3. backend \in Backends /\ status \in Exit!Status
    BY DEF Init, Exit!Init, Exit!Status
  <2>4. waitThread \in Controllers \cup {None}
    BY DEF Init, Exit!Init
  <2>5. owed \in Int
    BY DEF Init, Exit!Init
  <2>6. overtaken \in BOOLEAN /\ unsent \in BOOLEAN /\ crowded \in BOOLEAN
    BY DEF Init, Exit!Init
  <2>7. /\ wpc = [c \in Controllers |-> "out"] /\ tmo = [c \in Controllers |-> "forever"]
        /\ wret = [c \in Controllers |-> "none"]
        /\ dpc = [k \in Workers |-> "out"] /\ dret = [k \in Workers |-> "none"]
    BY DEF Init, Exit!Init
  <2>. QED
    BY <2>1, <2>2, <2>3, <2>4, <2>5, <2>6, <2>7 DEF Exit!TypeOK, Exit!Results
<1>2. ExitAimed /\ Stopping /\ Waits
    BY DEF Init, Exit!Init, ExitAimed, Stopping, Waits
<1>3. OneWorker /\ OneDone /\ StatusAgrees /\ TokenAgrees
    BY DEF Init, Exit!Init, OneWorker, OneDone, StatusAgrees, TokenAgrees, Alive
<1>4. Served /\ Heard /\ StopHeard /\ Emptied /\ Behind
    BY DEF Init, Served, Heard, StopHeard, Emptied, Behind
<1>. QED
    BY <1>1, <1>2, <1>3, <1>4 DEF JInv, Join, JoinParts

(* The life of the worker agrees with the place of the controller, the status of
   the completion and the list, as long as no done call is overtaken. *)
THEOREM JoinInvariance == Spec => [](QInv /\ JInv)
<1>1. QInv /\ JInv /\ [Next]_vars => JInv'
    BY ExitTypeStep, StoppingStep, JoinStep, ServedStep, HeardStep, StopHeardStep, EmptiedStep, BehindStep
       DEF QInv, JInv
<1>. QED
    BY <1>1, JoinInit, QueueInvariance, PTL DEF Spec

(* Type correctness of the queue and of the completion it joins its worker with
   (workqueue.h, struct Workqueue). *)
THEOREM WorkqueueTypeCorrect == Spec => []TypeOK
<1>1. QInv /\ JInv => TypeOK
    BY DEF QInv, JInv, TypeOK
<1>. QED
    BY <1>1, JoinInvariance, PTL

(* stop joins the worker (workqueue.h:239): as long as no done call is
   overtaken there is one worker at most, and none once stop is past its wait. *)
THEOREM StopJoinsHolds == Spec => []StopJoins
<1>1. JInv => StopJoins
    BY DEF JInv, Join, JoinParts, OneWorker, StopJoins
<1>. QED
    BY <1>1, JoinInvariance, PTL

(* A worker asleep on works, or on a queue being stopped, is about to be woken
   by a client or by stop (workqueue.c: enqueue posts after it links). *)
THEOREM NobodySleepsOnWorkHolds == Spec => []NobodySleepsOnWork
<1>1. QInv /\ JInv => NobodySleepsOnWork
  <2> SUFFICES ASSUME QInv, JInv, ~early, ~overtaken, NEW k \in Workers, kpc[k] = "wait", ~wake,
                      pending # <<>> \/ state = "STOPPING"
               PROVE  \/ \E e \in Clients : epc[e] = "post"
                      \/ \E c \in Controllers : cpc[c] = "post"
    BY DEF NobodySleepsOnWork
  <2>1. OneWorker
    BY DEF JInv, Join, JoinParts
  <2>2. CASE state = "STOPPING"
    BY <2>2 DEF JInv, StopHeard
  <2>3. CASE state # "STOPPING"
    <3>1. state = "RUNNING" /\ \A l \in Workers : kpc[l] \notin {"claim", "run", "finish"}
      BY <2>1, <2>3 DEF OneWorker, Alive
    <3>. QED
      BY <2>3, <3>1 DEF JInv, Heard
  <2>. QED
    BY <2>2, <2>3
<1>. QED
    BY <1>1, JoinInvariance, PTL

(* stop finds works left over only through one of the four windows: a work
   linked late, a start that threw one away, a worker that saw the list empty
   just before, a done call overtaken (workqueue.c:396). *)
THEOREM LeftoversAreLateHolds == Spec => []LeftoversAreLate
<1>1. JInv => LeftoversAreLate
    BY DEF JInv, Emptied, LeftoversAreLate
<1>. QED
    BY <1>1, JoinInvariance, PTL

\* A reset meets nobody in the completion: only stop waits, and the worker that
\* announced its exit is through with its done call when stop is.
LEMMA ResetMeetsNobody ==
    ASSUME LifeCycle, Waits, OneDone, NEW c \in Controllers,
           InitQueue(c) \/ Deinit(c) \/ StartReset(c)
    PROVE  Exit!Reinit
<1>1. cpc[c] \in {"out", "reset"} /\ Exit!Reset
    BY DEF InitQueue, Deinit, StartReset
<1>2. \A d \in Controllers : wpc[d] = "out"
    BY <1>1, WorkqueueAssumption DEF Waits
<1>3. ~Exit!InDone
    BY <1>2 DEF OneDone, Exit!InDone
<1>. QED
    BY <1>1, <1>2, <1>3 DEF Exit!Reinit

\* The queue uses its completion as module Completion allows, unless a done call
\* was overtaken: the worker may then be about to post when stop has returned.
ExitInOrder == [][overtaken' \/ Exit!Next]_exit

(* init, deinit and start (workqueue.c:216, 259, 308) reset wq->done only while
   nobody waits on it and no completion_done is in progress, although they take
   no lock and stop does not look at what its wait returned (377); stop and the
   worker use it by its own steps.  The exception is a done call that the wait
   of stop has overtaken. *)
THEOREM ExitInOrderHolds == Spec => ExitInOrder
<1>1. ASSUME QInv, JInv, [Next]_vars, ~overtaken' PROVE [Exit!Next]_exit
  <2>1. ~overtaken
    BY <1>1, OvertakenStays DEF JInv
  <2>2. ASSUME NEW e \in Clients, Flush(e) \/ ClientStep(e) PROVE UNCHANGED exit
    BY <2>2, ClientFrame
  <2>3. ASSUME NEW w \in Works, EnqueueFromIsr(w) \/ Cancel(w) PROVE UNCHANGED exit
    BY <2>3, ClientFrame
  <2>4. ASSUME NEW k \in Workers, WorkerStep(k) PROVE [Exit!Next]_exit
    <3>1. ASSUME Announce(k) PROVE Exit!DoneCall(k)
      BY <3>1 DEF Announce
    <3>2. ASSUME Announcing(k) PROVE Exit!PosterStep(k)
      BY <3>2 DEF Announcing
    <3>. QED
      BY <2>4, <3>1, <3>2, LoopFrame DEF WorkerStep, Exit!Next
  <2>5. ASSUME NEW c \in Controllers,
               InitQueue(c) \/ Deinit(c) \/ Start(c) \/ Stop(c) \/ ControllerStep(c)
        PROVE  [Exit!Next]_exit
    <3>1. ASSUME InitQueue(c) \/ Deinit(c) \/ StartReset(c) PROVE Exit!Reinit
      BY <1>1, <2>1, <3>1, ResetMeetsNobody DEF QInv, JInv, Join, JoinParts
    <3>2. ASSUME StopPost(c) PROVE Exit!WaitCall(c)
      BY <3>2 DEF StopPost
    <3>3. ASSUME StopWait(c) PROVE Exit!WaiterStep(c)
      BY <3>3 DEF StopWait
    <3>. QED
      BY <2>5, <3>1, <3>2, <3>3, ControlFrame DEF ControllerStep, Exit!Next
  <2>6. CASE UNCHANGED vars
    BY <2>6 DEF vars
  <2>. QED
    BY <1>1, <2>2, <2>3, <2>4, <2>5, <2>6 DEF Next
<1>2. QInv /\ JInv /\ [Next]_vars => [overtaken' \/ Exit!Next]_exit
    BY <1>1
<1>. QED
    BY <1>2, JoinInvariance, PTL DEF Spec, ExitInOrder

(* When flush returns OM_OK, every work that was pending or running when its
   barrier was linked was executed or cancelled (workqueue.h:288), unless stop
   found works and dropped them, a work was linked while the queue was not
   running, start threw a work away, or the exit of a worker was overtaken.  The
   promise without these exceptions does not hold of the code. *)
THEOREM FlushBarrierHolds == Spec => []FlushBarrier
<1>1. JInv => FlushBarrier
    BY DEF JInv, Behind, FlushBarrier, FlushedWorkIsDone
<1>. QED
    BY <1>1, JoinInvariance, PTL

=============================================================================
