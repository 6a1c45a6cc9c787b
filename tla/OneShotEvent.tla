---------------------------- MODULE OneShotEvent ----------------------------
(***************************************************************************)
(* What a completion promises callers that use it in order: an event that  *)
(* is there or not.  Giving it twice is refused, one wait takes it, and a  *)
(* wait gives up only while the event is not there.  Each call takes       *)
(* effect at one instant between its start and its return; how the two     *)
(* sides meet, and what wakes the waiter, is not told.  A done that met a  *)
(* wait may also fail, and then leaves no event.                           *)
(***************************************************************************)
CONSTANTS Waiters, Posters

VARIABLES
    given,     \* the event is there
    waits,     \* each waiter: out of the call, in it, or in it and decided
    heard,     \* each waiter's last answer
    tells,     \* each poster: out of the call, in it, or in it and decided
    told       \* each poster's last answer

evars == <<given, waits, heard, tells, told>>

Init ==
    /\ given = FALSE
    /\ waits = [t \in Waiters |-> "out"]
    /\ heard = [t \in Waiters |-> "none"]
    /\ tells = [p \in Posters |-> "out"]
    /\ told = [p \in Posters |-> "none"]

WaiterMoves(t, place, answer) ==
    /\ waits' = [waits EXCEPT ![t] = place]
    /\ heard' = [heard EXCEPT ![t] = answer]
    /\ UNCHANGED <<tells, told>>

PosterMoves(p, place, answer) ==
    /\ tells' = [tells EXCEPT ![p] = place]
    /\ told' = [told EXCEPT ![p] = answer]
    /\ UNCHANGED <<waits, heard>>

Ask(t) ==
    /\ waits[t] = "out"
    /\ \E patience \in {"timed", "forever"} : WaiterMoves(t, patience, "none")
    /\ UNCHANGED given

\* The wait takes the event, and returns at once or later.
Take(t) ==
    /\ waits[t] \in {"timed", "forever"}
    /\ given /\ given' = FALSE
    /\ WaiterMoves(t, "took", "none") \/ WaiterMoves(t, "out", "OK")

\* Only a wait with a timeout gives up, and not while the event is there.
GiveUp(t) ==
    /\ waits[t] = "timed"
    /\ ~given /\ UNCHANGED given
    /\ WaiterMoves(t, "late", "none") \/ WaiterMoves(t, "out", "TIMEOUT")

Return(t) ==
    /\ \/ waits[t] = "took" /\ WaiterMoves(t, "out", "OK")
       \/ waits[t] = "late" /\ WaiterMoves(t, "out", "TIMEOUT")
    /\ UNCHANGED given

Begin(p) ==
    /\ tells[p] = "out"
    /\ PosterMoves(p, "in", "none")
    /\ UNCHANGED given

Give(p) ==
    /\ \/ tells[p] = "out" /\ PosterMoves(p, "out", "OK")
       \/ tells[p] = "in" /\ PosterMoves(p, "gave", "none")
    /\ ~given /\ given' = TRUE

Refuse(p) ==
    /\ tells[p] \in {"out", "in"}
    /\ given /\ UNCHANGED given
    /\ PosterMoves(p, "out", "BUSY")

\* A done that met a wait which ended, or went to sleep, before it was decided.
Fail(p) ==
    /\ tells[p] = "in"
    /\ ~given /\ UNCHANGED given
    /\ PosterMoves(p, "out", "ERROR")

Confirm(p) ==
    /\ tells[p] = "gave"
    /\ PosterMoves(p, "out", "OK")
    /\ UNCHANGED given

GiveFromIsr ==
    /\ ~given /\ given' = TRUE
    /\ UNCHANGED <<waits, heard, tells, told>>

\* A reset, while no call is under way, forgets an event nobody took.
Forget ==
    /\ \A t \in Waiters : waits[t] = "out"
    /\ \A p \in Posters : tells[p] = "out"
    /\ given' = FALSE
    /\ UNCHANGED <<waits, heard, tells, told>>

Next ==
    \/ \E t \in Waiters : Ask(t) \/ Take(t) \/ GiveUp(t) \/ Return(t)
    \/ \E p \in Posters : Begin(p) \/ Give(p) \/ Refuse(p) \/ Fail(p) \/ Confirm(p)
    \/ GiveFromIsr \/ Forget

Spec == Init /\ [][Next]_evars

=============================================================================
