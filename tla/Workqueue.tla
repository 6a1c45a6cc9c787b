------------------------------ MODULE Workqueue ------------------------------
(***************************************************************************)
(* The work queue of lib/async/src/workqueue.c, in its threaded form: a    *)
(* worker thread takes works from a list and runs them; clients enqueue,   *)
(* cancel and flush; a controller starts and stops the worker and waits    *)
(* for its exit through a completion (wq->done), which is the instance     *)
(* Exit of Completion.                                                     *)
(*                                                                         *)
(* A critical section under the interrupt lock is one step; everything     *)
(* between two of them, and every semaphore call, is a step of its own.    *)
(* The collapsed form without an RTOS (OSAL_PORT_NONE) is not modelled.    *)
(***************************************************************************)
EXTENDS Integers, Sequences, FiniteSets

CONSTANTS Controllers,  \* threads that own the queue's life cycle
          Clients,      \* threads that enqueue or flush
          Flushers,     \* the clients that call workqueue_flush
          Works,        \* works of the other clients and of interrupt handlers
          Workers,      \* worker threads, one per start
          Backends, Sem, None,  \* of the completion
          MaxStarts     \* bound: the number of starts

\* The life cycle belongs to one thread: workqueue.h promises thread safety for
\* enqueue and cancel, and states preconditions for the other calls.
ASSUME WorkqueueAssumption ==
    /\ \A c, d \in Controllers : c = d
    /\ Flushers \subseteq Clients
    /\ Works \cap Flushers = {}
    /\ None \notin Works \cup Flushers
    /\ MaxStarts \in Nat
    \* What Completion assumes
    /\ Controllers \cap Workers = {}
    /\ Backends \subseteq {"sem", "notify"}
    /\ Sem \notin Controllers /\ None \notin Controllers /\ Sem # None

\* A flusher's barrier is a work on its own stack; it is named for the flusher.
Items == Works \cup Flushers

VARIABLES
    state, pending, flags, \* Workqueue.state and .pending, Work.flags
    wake,                  \* the token of Workqueue.sem
    kpc, kwork,            \* each worker's place, and the work it claimed
    epc, ework,            \* each client's place in enqueue, and its work
    cpc,                   \* each controller's place in start or stop
    starts,                \* history: number of starts, capped by MaxStarts
    late,                  \* history: a work was linked while not RUNNING
    early,                 \* history: start threw away a work or its token
    hasty,                 \* history: a worker saw the list empty, then exited
                           \* when it no longer was
    asserted,              \* history: stop found works left over
    ahead                  \* history: works a flusher's barrier still waits for

VARIABLES \* of the completion wq->done
    backend, status, waitThread, signal, wpc, tmo, wret,
    dpc, target, dret, owed, calls, overtaken, unsent, crowded

Exit == INSTANCE Completion WITH
            Waiters <- Controllers, Posters <- Workers, MaxDone <- MaxStarts

queue == <<state, pending, flags, wake>>
working == <<kpc, kwork>>
enqueuing == <<epc, ework>>
history == <<starts, late, early, hasty, asserted, ahead>>
exit == <<backend, status, waitThread, signal, wpc, tmo, wret, dpc, target, dret,
          owed, calls, overtaken, unsent, crowded>>
vars == <<queue, working, enqueuing, cpc, history, exit>>

ToSet(s) == {s[i] : i \in DOMAIN s}

QueueTypeOK ==
    /\ state \in {"UNINIT", "IDLE", "RUNNING", "STOPPING"}
    /\ pending \in Seq(Items)
    /\ flags \in [Items -> {"IDLE", "PENDING", "RUNNING"}]
    /\ wake \in BOOLEAN
    /\ kpc \in [Workers -> {"none", "wait", "claim", "run", "finish", "check", "exit"}]
    /\ kwork \in [Workers -> Items \cup {None}]
    /\ epc \in [Clients -> {"out", "check", "insert", "post", "poll"}]
    /\ ework \in [Clients -> Items \cup {None}]
    /\ cpc \in [Controllers -> {"out", "drain", "reset", "create", "post", "wait", "idle"}]
    /\ starts \in 0..MaxStarts
    /\ late \in BOOLEAN /\ early \in BOOLEAN /\ hasty \in BOOLEAN /\ asserted \in BOOLEAN
    /\ ahead \in [Flushers -> SUBSET Items]

TypeOK == QueueTypeOK /\ Exit!TypeOK

Init ==
    /\ state = "UNINIT" /\ pending = <<>> /\ wake = FALSE
    /\ flags = [w \in Items |-> "IDLE"]
    /\ kpc = [k \in Workers |-> "none"] /\ kwork = [k \in Workers |-> None]
    /\ epc = [e \in Clients |-> "out"] /\ ework = [e \in Clients |-> None]
    /\ cpc = [c \in Controllers |-> "out"]
    /\ starts = 0
    /\ late = FALSE /\ early = FALSE /\ hasty = FALSE /\ asserted = FALSE
    /\ ahead = [f \in Flushers |-> {}]
    /\ Exit!Init

-----------------------------------------------------------------------------
(* The list, always under the interrupt lock *)

\* list_del of an item that is linked somewhere in the list.
Unlink(q, w) ==
    LET at == CHOOSE i \in DOMAIN q : q[i] = w
    IN  [i \in 1..(Len(q) - 1) |-> IF i < at THEN q[i] ELSE q[i + 1]]

\* w is done with, one way or another: nobody's barrier waits for it any more.
Settled(w) == ahead' = [f \in Flushers |-> ahead[f] \ {w}]

\* Mutant: list_add instead of list_add_tail.
LinkFirst(w) ==
    /\ flags' = [flags EXCEPT ![w] = "PENDING"]
    /\ pending' = <<w>> \o pending
    /\ late' = (late \/ state # "RUNNING")
    /\ ahead' = [f \in Flushers |-> IF f = w THEN {u \in Items \ {w} : flags[u] # "IDLE"}
                                             ELSE ahead[f]]

Link(w) ==
    /\ flags' = [flags EXCEPT ![w] = "PENDING"]
    /\ pending' = Append(pending, w)
    /\ late' = (late \/ state # "RUNNING")
    /\ ahead' = [f \in Flushers |-> IF f = w THEN {u \in Items \ {w} : flags[u] # "IDLE"}
                                             ELSE ahead[f]]

-----------------------------------------------------------------------------
(* Clients: enqueue, flush, cancel *)

ClientGoes(e, at) == epc' = [epc EXCEPT ![e] = at]

\* flush looks at the state itself before it calls enqueue.
Flush(e) ==
    /\ e \in Flushers
    /\ epc[e] = "out"
    /\ state = "RUNNING"
    /\ ClientGoes(e, "check")
    /\ UNCHANGED <<queue, working, ework, cpc, history, exit>>

\* enqueue looks at the state outside the lock.
Check(e) ==
    /\ epc[e] = IF e \in Flushers THEN "check" ELSE "out"
    /\ \/ /\ state = "RUNNING"
          /\ \E w \in IF e \in Flushers THEN {e} ELSE Works : ework' = [ework EXCEPT ![e] = w]
          /\ ClientGoes(e, "insert")
       \/ /\ state # "RUNNING"
          /\ e \in Flushers
          /\ ClientGoes(e, "out")
          /\ UNCHANGED ework
    /\ UNCHANGED <<queue, working, cpc, history, exit>>

\* Mutant: flags are not looked at.
InsertAgain(e) ==
    /\ epc[e] = "insert"
    /\ Link(ework[e])
    /\ ClientGoes(e, "post")
    /\ UNCHANGED <<ework, state, wake, working, cpc, starts, early, hasty, asserted, exit>>

\* A work that is pending or running is refused with OM_ERROR_BUSY.
Insert(e) ==
    /\ epc[e] = "insert"
    /\ \/ flags[ework[e]] = "IDLE" /\ Link(ework[e]) /\ ClientGoes(e, "post") /\ UNCHANGED ework
       \/ /\ flags[ework[e]] # "IDLE"
          /\ ClientGoes(e, "out")
          /\ ework' = [ework EXCEPT ![e] = None]
          /\ UNCHANGED <<pending, flags, late, ahead>>
    /\ UNCHANGED <<state, wake, working, cpc, starts, early, hasty, asserted, exit>>

\* Mutant: the worker is not woken.
PostNothing(e) ==
    /\ epc[e] = "post"
    /\ ClientGoes(e, IF e \in Flushers THEN "poll" ELSE "out")
    /\ ework' = [ework EXCEPT ![e] = None]
    /\ UNCHANGED <<queue, working, cpc, history, exit>>

\* The semaphore of a queue that was destroyed takes no token.
PostWork(e) ==
    /\ epc[e] = "post"
    /\ wake' = (state # "UNINIT")
    /\ ClientGoes(e, IF e \in Flushers THEN "poll" ELSE "out")
    /\ ework' = [ework EXCEPT ![e] = None]
    /\ UNCHANGED <<state, pending, flags, working, cpc, history, exit>>

\* flush returns OM_OK when work_wait_idle has seen its barrier idle.
Flushed(e) ==
    /\ epc[e] = "poll"
    /\ flags[e] = "IDLE"
    /\ ClientGoes(e, "out")
    /\ UNCHANGED <<queue, working, ework, cpc, history, exit>>

\* An interrupt handler's enqueue, which nothing can divide.
EnqueueFromIsr(w) ==
    /\ state = "RUNNING"
    /\ flags[w] = "IDLE"
    /\ Link(w)
    /\ wake' = TRUE
    /\ UNCHANGED <<state, working, enqueuing, cpc, starts, early, hasty, asserted, exit>>

\* A work lost by a deinit that found it linked is left out: unlinking it from
\* a list that was initialised again is undefined.
Cancel(w) ==
    /\ flags[w] = "PENDING"
    /\ w \in ToSet(pending)
    /\ pending' = Unlink(pending, w)
    /\ flags' = [flags EXCEPT ![w] = "IDLE"]
    /\ Settled(w)
    /\ UNCHANGED <<state, wake, working, enqueuing, cpc, starts, late, early, hasty, asserted, exit>>

-----------------------------------------------------------------------------
(* The worker thread *)

WorkerGoes(k, at) == kpc' = [kpc EXCEPT ![k] = at]

\* Mutant: a worker woken by stop exits before it empties the list.
SleepExits(k) ==
    /\ kpc[k] = "wait"
    /\ wake
    /\ wake' = FALSE
    /\ WorkerGoes(k, IF state = "STOPPING" THEN "exit" ELSE "claim")
    /\ UNCHANGED <<state, pending, flags, kwork, enqueuing, cpc, history, exit>>

\* Waiting on a semaphore that was destroyed fails: the thread gives up.
Sleep(k) ==
    /\ kpc[k] = "wait"
    /\ \/ wake /\ wake' = FALSE /\ WorkerGoes(k, "claim")
       \/ state = "UNINIT" /\ WorkerGoes(k, "exit") /\ UNCHANGED wake
    /\ UNCHANGED <<state, pending, flags, kwork, enqueuing, cpc, history, exit>>

\* Mutant: flags |= WORK_FLAG_RUNNING.
ClaimOr(k) ==
    /\ kpc[k] = "claim"
    /\ \/ pending = <<>> /\ WorkerGoes(k, "check") /\ UNCHANGED <<pending, flags, kwork>>
       \/ /\ pending # <<>>
          /\ pending' = Tail(pending)
          /\ flags' = [flags EXCEPT ![Head(pending)] = "PENDING|RUNNING"]
          /\ kwork' = [kwork EXCEPT ![k] = Head(pending)]
          /\ WorkerGoes(k, "run")
    /\ UNCHANGED <<state, wake, enqueuing, cpc, history, exit>>

Claim(k) ==
    /\ kpc[k] = "claim"
    /\ \/ /\ pending = <<>>
          /\ WorkerGoes(k, "check")
          /\ UNCHANGED <<pending, flags, kwork>>
       \/ /\ pending # <<>>
          /\ pending' = Tail(pending)
          /\ flags' = [flags EXCEPT ![Head(pending)] = "RUNNING"]
          /\ kwork' = [kwork EXCEPT ![k] = Head(pending)]
          /\ WorkerGoes(k, "run")
    /\ UNCHANGED <<state, wake, enqueuing, cpc, history, exit>>

\* w->func(w); what it does to the queue is what a client may do.
Run(k) ==
    /\ kpc[k] = "run"
    /\ WorkerGoes(k, "finish")
    /\ UNCHANGED <<queue, kwork, enqueuing, cpc, history, exit>>

\* Mutant: one work per token.
FinishOne(k) ==
    /\ kpc[k] = "finish"
    /\ flags' = [flags EXCEPT ![kwork[k]] = "IDLE"]
    /\ kwork' = [kwork EXCEPT ![k] = None]
    /\ WorkerGoes(k, "wait")
    /\ Settled(kwork[k])
    /\ UNCHANGED <<state, pending, wake, enqueuing, cpc, starts, late, early, hasty, asserted, exit>>

Finish(k) ==
    /\ kpc[k] = "finish"
    /\ flags' = [flags EXCEPT ![kwork[k]] = "IDLE"]
    /\ kwork' = [kwork EXCEPT ![k] = None]
    /\ WorkerGoes(k, "claim")
    /\ Settled(kwork[k])
    /\ UNCHANGED <<state, pending, wake, enqueuing, cpc, starts, late, early, hasty, asserted, exit>>

\* The state is read after the lock was released.
CheckStop(k) ==
    /\ kpc[k] = "check"
    /\ WorkerGoes(k, IF state = "STOPPING" THEN "exit" ELSE "wait")
    /\ hasty' = (hasty \/ (state = "STOPPING" /\ pending # <<>>))
    /\ UNCHANGED <<queue, kwork, enqueuing, cpc, starts, late, early, asserted, ahead, exit>>

\* completion_done, then the thread is gone.
Announce(k) ==
    /\ kpc[k] = "exit"
    /\ WorkerGoes(k, "none")
    /\ Exit!DoneCall(k)
    /\ UNCHANGED <<queue, kwork, enqueuing, cpc, history>>

Announcing(k) ==
    /\ Exit!PosterStep(k)
    /\ UNCHANGED <<queue, working, enqueuing, cpc, history>>

-----------------------------------------------------------------------------
(* The controller *)

ControllerGoes(c, at) == cpc' = [cpc EXCEPT ![c] = at]

InitQueue(c) ==
    /\ cpc[c] = "out"
    /\ state = "UNINIT"
    /\ starts < MaxStarts
    /\ state' = "IDLE"
    /\ pending' = <<>>
    /\ wake' = FALSE
    /\ Exit!Reset
    /\ UNCHANGED <<flags, working, enqueuing, cpc, history>>

Deinit(c) ==
    /\ cpc[c] = "out"
    /\ state = "IDLE"
    /\ state' = "UNINIT"
    /\ wake' = FALSE
    /\ Exit!Reset
    /\ UNCHANGED <<pending, flags, working, enqueuing, cpc, history>>

Start(c) ==
    /\ cpc[c] = "out"
    /\ state = "IDLE"
    /\ starts < MaxStarts
    /\ state' = "RUNNING"
    /\ starts' = starts + 1
    /\ ControllerGoes(c, "drain")
    /\ UNCHANGED <<pending, flags, wake, working, enqueuing, late, early, hasty, asserted, ahead, exit>>

\* Tokens of the last cycle are drained, and any that came since RUNNING was
\* published.
StartDrain(c) ==
    /\ cpc[c] = "drain"
    /\ wake' = FALSE
    /\ early' = (early \/ (wake /\ pending # <<>>))
    /\ ControllerGoes(c, "reset")
    /\ UNCHANGED <<state, pending, flags, working, enqueuing, starts, late, hasty, asserted, ahead, exit>>

StartReset(c) ==
    /\ cpc[c] = "reset"
    /\ Exit!Reset
    /\ ControllerGoes(c, "create")
    /\ UNCHANGED <<queue, working, enqueuing, history>>

StartThread(c) ==
    /\ cpc[c] = "create"
    /\ ControllerGoes(c, "out")
    /\ \/ /\ \E k \in Workers : kpc[k] = "none" /\ dpc[k] = "out" /\ WorkerGoes(k, "wait")
          /\ UNCHANGED <<state, early>>
       \/ /\ state' = "IDLE"
          /\ early' = (early \/ pending # <<>>)
          /\ UNCHANGED kpc
    /\ UNCHANGED <<pending, flags, wake, kwork, enqueuing, starts, late, hasty, asserted, ahead, exit>>

Stop(c) ==
    /\ cpc[c] = "out"
    /\ state = "RUNNING"
    /\ state' = "STOPPING"
    /\ ControllerGoes(c, "post")
    /\ UNCHANGED <<pending, flags, wake, working, enqueuing, history, exit>>

\* Mutant: stop does not wait for the worker.
StopPostOnly(c) ==
    /\ cpc[c] = "post"
    /\ wake' = TRUE
    /\ ControllerGoes(c, "wait")
    /\ UNCHANGED <<state, pending, flags, working, enqueuing, history, exit>>

\* Mutant: stop does not wake the worker.
StopWaitOnly(c) ==
    /\ cpc[c] = "post"
    /\ Exit!WaitCall(c) /\ tmo'[c] = "forever"
    /\ ControllerGoes(c, "wait")
    /\ UNCHANGED <<queue, working, enqueuing, history>>

StopPost(c) ==
    /\ cpc[c] = "post"
    /\ wake' = TRUE
    /\ Exit!WaitCall(c) /\ tmo'[c] = "forever"
    /\ ControllerGoes(c, "wait")
    /\ UNCHANGED <<state, pending, flags, working, enqueuing, history>>

StopWait(c) ==
    /\ cpc[c] = "wait"
    /\ Exit!WaiterStep(c)
    /\ UNCHANGED <<queue, working, enqueuing, cpc, history>>

\* Whatever the wait returned, works left in the list are dropped; a debug
\* build asserts that there are none.  A dropped work was neither run nor
\* cancelled: a barrier that was linked after it still has it ahead.
StopClean(c) ==
    /\ cpc[c] = "wait"
    /\ wpc[c] = "out"
    /\ pending' = <<>>
    /\ flags' = [w \in Items |-> IF w \in ToSet(pending) THEN "IDLE" ELSE flags[w]]
    /\ asserted' = (asserted \/ pending # <<>>)
    /\ ControllerGoes(c, "idle")
    /\ UNCHANGED <<state, wake, working, enqueuing, starts, late, early, hasty, ahead, exit>>

StopIdle(c) ==
    /\ cpc[c] = "idle"
    /\ state' = "IDLE"
    /\ ControllerGoes(c, "out")
    /\ UNCHANGED <<pending, flags, wake, working, enqueuing, history, exit>>

-----------------------------------------------------------------------------
ClientStep(e) == Check(e) \/ Insert(e) \/ PostWork(e) \/ Flushed(e)

WorkerStep(k) ==
    \/ Sleep(k) \/ Claim(k) \/ Run(k) \/ Finish(k) \/ CheckStop(k)
    \/ Announce(k) \/ Announcing(k)

ControllerStep(c) ==
    \/ StartDrain(c) \/ StartReset(c) \/ StartThread(c)
    \/ StopPost(c) \/ StopWait(c) \/ StopClean(c) \/ StopIdle(c)

Next ==
    \/ \E e \in Clients : Flush(e) \/ ClientStep(e)
    \/ \E w \in Works : EnqueueFromIsr(w) \/ Cancel(w)
    \/ \E k \in Workers : WorkerStep(k)
    \/ \E c \in Controllers :
         InitQueue(c) \/ Deinit(c) \/ Start(c) \/ Stop(c) \/ ControllerStep(c)

Spec == Init /\ [][Next]_vars

\* Work functions return, and a thread inside a call goes on.
Fairness ==
    /\ \A e \in Clients : WF_vars(epc[e] # "out" /\ ClientStep(e))
    /\ \A k \in Workers : WF_vars(WorkerStep(k))
    /\ \A c \in Controllers : WF_vars(ControllerStep(c))

FairSpec == Spec /\ Fairness

-----------------------------------------------------------------------------
Alive(k) == kpc[k] # "none"

(* The ownership protocol of enqueue, worker and cancel (workqueue.c:40): a
   work is PENDING while it is linked, once, and RUNNING while exactly one
   worker holds it, so that who sees it IDLE may free it.  A work linked in a
   queue that is not running can be lost when the queue is destroyed. *)
FlagsAgree ==
    /\ \A i, j \in DOMAIN pending : pending[i] = pending[j] => i = j
    /\ \A w \in Items :
         /\ w \in ToSet(pending) => flags[w] = "PENDING"
         /\ flags[w] = "PENDING" => w \in ToSet(pending) \/ late \/ early
         /\ flags[w] = "RUNNING" <=> \E k \in Workers : kwork[k] = w
    /\ \A k, l \in Workers : kwork[k] = kwork[l] /\ kwork[k] # None => k = l

(* No lost token: a worker goes to sleep on a list with works in it, or on a
   queue being stopped, only if somebody is about to wake it. *)
NobodySleepsOnWork ==
    ~early /\ ~overtaken =>
    \A k \in Workers :
        kpc[k] = "wait" /\ ~wake /\ (pending # <<>> \/ state = "STOPPING") =>
            \/ \E e \in Clients : epc[e] = "post"
            \/ \E c \in Controllers : cpc[c] = "post"

(* stop joins the worker (workqueue.h:239): while no done call is overtaken
   there is at most one worker, and none once stop is past its wait. *)
StopJoins ==
    ~overtaken =>
    /\ \A k, l \in Workers : Alive(k) /\ Alive(l) => k = l
    /\ (\E k \in Workers : Alive(k)) => state \in {"RUNNING", "STOPPING"}
    /\ (\E k \in Workers : Alive(k)) => \A c \in Controllers : cpc[c] # "idle"

(* The worker empties the list before it exits: stop finds works left over
   only if one was linked between the unlocked read of the state and a change
   of it, by enqueue (line 439) or by the worker (line 146), or by start. *)
LeftoversAreLate == asserted => late \/ early \/ hasty \/ overtaken

(* When flush returns OM_OK, every work that was pending or running when its
   barrier was linked has been executed or cancelled (workqueue.h:288).  stop
   breaks this when it drops works it was not to find (the assertion at line 396
   of workqueue.c), and so does a destroyed queue that loses the works a failed
   start left in it. *)
FlushedWorkIsDone ==
    \A f \in Flushers : epc[f] = "poll" /\ flags[f] = "IDLE" => ahead[f] = {}

(* The flush barrier, also if the queue is stopped meanwhile: unless stop found
   works to drop, which its own assertion says never happens, or a work was
   linked at a moment the queue was not running or start threw it away.  A
   dropped work is neither executed nor cancelled and stays ahead of the barrier,
   and flush cannot tell a dropped barrier from one that ran: FlushedWorkIsDone
   without the antecedent is checked against the code by a run of its own. *)
FlushBarrier ==
    ~asserted /\ ~late /\ ~early /\ ~overtaken => FlushedWorkIsDone

(* Every accepted work leaves the list, by being run or cancelled, unless it
   was accepted at a moment when the queue was not running or start threw its
   token away. *)
EveryWorkSettles ==
    \A w \in Items : (flags[w] = "PENDING") ~> (flags[w] # "PENDING" \/ late \/ early \/ overtaken)

(* stop returns, unless the worker's completion_done answered OM_ERROR, which
   the worker ignores, or start threw a token away. *)
StopReturns ==
    \A c \in Controllers :
        (cpc[c] = "wait") ~>
            (cpc[c] # "wait" \/ early \/ \E k \in Workers : dret[k] = "ERROR")

=============================================================================
