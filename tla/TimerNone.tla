----------------------------- MODULE TimerNone -----------------------------
(***************************************************************************)
(* platform/osal/none/osal_timer_none.c: software timers in a single       *)
(* stream of execution.  Timers wait in a list; each wait or sleep of the  *)
(* program refreshes it, and the callbacks of the timers that are due are  *)
(* called from there.  A callback may operate on any timer, its own too.   *)
(* The clock runs all the time and wraps.                                  *)
(***************************************************************************)
EXTENDS Integers, Sequences, SequencesExt, Lists

CONSTANTS Timers, NoTimer,
          Periods,      \* in clock ticks
          ClockWidth,   \* modulus of OsalTimeMs, 2^32 on the target
          MaxLag        \* bound: how late a refresh or a callback may be

\* The comparison of two times is defined up to half of the clock's range
\* (osal_time.h:67); osal_timer_create does not refuse a longer period.
ASSUME TimerAssumption ==
    /\ NoTimer \notin Timers
    /\ MaxLag \in Nat /\ ClockWidth \in Nat /\ 2 * MaxLag < ClockWidth
    /\ \A p \in Periods : p \in Nat \ {0} /\ 2 * (p + MaxLag) < ClockWidth

Times == 0..ClockWidth - 1

VARIABLES
    clock,
    queue,              \* s_list
    valid, active, suppress,    \* the timers with this flag
    deadline, mode, period,     \* of each timer
    at, now, firing,    \* place: in the program, in the loop of refresh, in a
                        \* callback; refresh's local `now`; the timer called back
    \* history
    wanted,             \* timers started, not stopped, with a callback to come
    revived,            \* timers stopped by their own callback after it started them
    called,              \* timers called back since refresh was entered
    swept               \* refresh has returned, and the clock has not moved since

settings == <<mode, period>>
history == <<wanted, revived, called>>
tmVars == <<clock, queue, valid, active, suppress, deadline, settings, at, now, firing,
            history, swept>>

TimerTypeOK ==
    /\ clock \in Times /\ now \in Times /\ deadline \in [Timers -> Times]
    /\ queue \in Seq(Timers)
    /\ valid \subseteq Timers /\ active \subseteq Timers /\ suppress \subseteq Timers
    /\ mode \in [Timers -> {"once", "periodic"}] /\ period \in [Timers -> Periods]
    /\ at \in {"program", "refresh", "callback"} /\ firing \in Timers \cup {NoTimer}
    /\ wanted \subseteq Timers /\ revived \subseteq Timers /\ called \subseteq Timers
    /\ swept \in BOOLEAN

\* osal_timer_create, for each timer
TimerInit ==
    /\ clock \in Times /\ now = 0
    /\ queue = << >> /\ valid = Timers /\ active = {} /\ suppress = {}
    /\ deadline = [t \in Timers |-> 0]
    /\ mode \in [Timers -> {"once", "periodic"}] /\ period \in [Timers -> Periods]
    /\ at = "program" /\ firing = NoTimer
    /\ wanted = {} /\ revived = {} /\ called = {} /\ swept = FALSE

-----------------------------------------------------------------------------
Plus(time, ticks) == (time + ticks) % ClockWidth

\* osal_time_after: the sign of the difference
After(a, b) == LET d == (a - b) % ClockWidth IN d # 0 /\ 2 * d < ClockWidth

Lag(time) == (clock - time) % ClockWidth

\* osal_none_timer_list_insert, of a timer with deadline dl[t]: in front of the
\* first timer whose deadline is before it.
Inserted(list, t, dl) ==
    LET k == SelectInSeq(list, LAMBDA u : After(dl[t], dl[u]))
    IN  IF k = 0 THEN Append(list, t) ELSE InsertAt(list, k, t)

\* Bound: the clock does not leave an active timer, or a refresh, behind.
ClockTick ==
    /\ clock' = Plus(clock, 1) /\ swept' = FALSE
    /\ \A t \in active : Lag(deadline[t]) # MaxLag
    /\ at # "program" => Lag(now) < MaxLag
    /\ UNCHANGED <<queue, valid, active, suppress, deadline, settings, at, now, firing, history>>

-----------------------------------------------------------------------------
(* The operations, called by the program or by a callback *)

May(t) == at \in {"program", "callback"} /\ t \in valid

\* osal_timer_start and osal_timer_reset
Start(t) ==
    /\ May(t)
    /\ deadline' = [deadline EXCEPT ![t] = Plus(clock, period[t])]
    /\ queue' = Inserted(Without(queue, t), t, deadline')
    /\ active' = active \cup {t} /\ suppress' = suppress \ {t}
    /\ wanted' = wanted \cup {t} /\ revived' = revived \ {t}
    /\ UNCHANGED <<clock, valid, settings, at, now, firing, called, swept>>

\* Mutant: a stop of the timer that is called back has no effect.
StopForgets(t) ==
    /\ May(t)
    /\ queue' = Without(queue, t) /\ active' = active \ {t}
    /\ wanted' = wanted \ {t}
    /\ revived' = IF firing = t /\ t \in active THEN revived \cup {t} ELSE revived \ {t}
    /\ UNCHANGED <<clock, valid, suppress, deadline, settings, at, now, firing, called, swept>>

\* osal_timer_stop: a timer that is called back, and not active, is not armed
\* again; one that its callback has started is active.
Stop(t) ==
    /\ May(t)
    /\ queue' = Without(queue, t) /\ active' = active \ {t}
    /\ suppress' = IF t \notin active /\ firing = t THEN suppress \cup {t} ELSE suppress
    /\ wanted' = wanted \ {t}
    /\ revived' = IF firing = t /\ t \in active THEN revived \cup {t} ELSE revived \ {t}
    /\ UNCHANGED <<clock, valid, deadline, settings, at, now, firing, called, swept>>

\* osal_timer_delete
Delete(t) ==
    /\ May(t)
    /\ queue' = Without(queue, t) /\ active' = active \ {t}
    /\ valid' = valid \ {t}
    /\ wanted' = wanted \ {t} /\ revived' = revived \ {t}
    /\ UNCHANGED <<clock, suppress, deadline, settings, at, now, firing, called, swept>>

-----------------------------------------------------------------------------
(* osal_none_timer_refresh *)

Refresh ==
    /\ at = "program" /\ at' = "refresh"
    /\ now' = clock
    /\ UNCHANGED <<clock, queue, valid, active, suppress, deadline, settings, firing, history,
                   swept>>

Due == queue # << >> /\ ~After(deadline[Head(queue)], now)

Fire ==
    /\ at = "refresh" /\ Due /\ at' = "callback"
    /\ firing' = Head(queue) /\ queue' = Tail(queue)
    /\ active' = active \ {firing'} /\ suppress' = suppress \ {firing'}
    /\ called' = called \cup {firing'}
    /\ wanted' = IF mode[firing'] = "periodic" THEN wanted ELSE wanted \ {firing'}
    /\ UNCHANGED <<clock, valid, deadline, settings, now, revived, swept>>

\* The callback returns; a periodic timer is armed again unless the callback has
\* deleted, stopped or started it, and not for a time that has passed.
Rearms ==
    /\ mode[firing] = "periodic"
    /\ firing \in valid /\ firing \notin suppress /\ firing \notin active

NextDeadline ==
    LET next == Plus(deadline[firing], period[firing])
    IN  IF After(next, now) THEN next ELSE Plus(now, period[firing])

CallbackReturns ==
    /\ at = "callback" /\ at' = "refresh" /\ firing' = NoTimer
    /\ IF Rearms
       THEN /\ deadline' = [deadline EXCEPT ![firing] = NextDeadline]
            /\ active' = active \cup {firing}
            /\ queue' = Inserted(queue, firing, deadline')
       ELSE UNCHANGED <<deadline, active, queue>>
    /\ UNCHANGED <<clock, valid, suppress, settings, now, history, swept>>

RefreshReturns ==
    /\ at = "refresh" /\ ~Due
    /\ at' = "program" /\ swept' = (clock = now)
    /\ now' = 0 /\ called' = {}
    /\ UNCHANGED <<clock, queue, valid, active, suppress, deadline, settings, firing, wanted,
                   revived>>

-----------------------------------------------------------------------------
TimerNext ==
    \/ ClockTick
    \/ \E t \in Timers : Start(t) \/ Stop(t) \/ Delete(t)
    \/ Refresh \/ Fire \/ CallbackReturns \/ RefreshReturns

TimerSpec == TimerInit /\ [][TimerNext]_tmVars

-----------------------------------------------------------------------------
(* A timer in the list is active, is there once, and was started and neither
   stopped nor deleted since; the exception is a periodic timer whose callback
   starts it and then stops it, which is armed again (line 203 takes the branch of
   an active timer).  And no timer is called back twice in one refresh: the loop
   of line 75 ends. *)
QuietTimers ==
    /\ IsInjective(queue) /\ ToSet(queue) = active
    /\ active \subseteq wanted \cup revived
    /\ at = "refresh" /\ Due => Head(queue) \notin called

(* The list is in the order of the deadlines, the next one first (line 36), so
   that a refresh leaves no timer behind whose time has come. *)
RefreshFiresDue ==
    at = "program" /\ swept => \A t \in active : After(deadline[t], clock)

=============================================================================
