-------------------------- MODULE CompletionProofs --------------------------
(***************************************************************************)
(* Proofs that the completion keeps its safety properties for any number   *)
(* of waiters and posters.  The properties speak of `status`, the tokens   *)
(* and the callers' results; what makes them inductive is how `status`     *)
(* agrees with the place of the one waiter (Agree), that a waiter that     *)
(* registered is the one waitThread names (Handle), and that a done call   *)
(* that won its exchange still has the waiter it won against, and is the   *)
(* only one that owes a signal (Owing).                                    *)
(* From this invariant follows that the completion implements the one-shot *)
(* event of module OneShotEvent.                                           *)
(***************************************************************************)
EXTENDS Completion, TLAPS

Registered == {"casWaiting", "sleep", "expired"}

Aimed ==
    \A p \in Posters :
        /\ dpc[p] = "post" => target[p] # None
        /\ dpc[p] = "aim" => backend = "notify"

Solo ==
    ~crowded =>
    \A t, u \in Waiters : wpc[t] # "out" /\ wpc[u] # "out" => t = u

Handle ==
    ~crowded =>
    \A t \in Waiters : wpc[t] \in Registered \cup {"casWait"} => waitThread = t

Agree ==
    ~crowded =>
    /\ \A t \in Waiters :
         /\ wpc[t] \in {"take", "undoDone", "lateDone", "lateTimeout"} => status = "DONE"
         /\ wpc[t] = "casWaiting" => status \in {"WAIT", "DONE"}
         /\ wpc[t] \in {"sleep", "expired", "woken"} => status \in {"WAITING", "DONE"}
         /\ wpc[t] \notin {"resnap", "undoBusy", "odd"}
    /\ status = "WAIT" => \E t \in Waiters : wpc[t] = "casWaiting"
    /\ status = "WAITING" => \E t \in Waiters : wpc[t] \in {"sleep", "expired", "woken"}

\* Who takes a done before its signal is sent has overtaken the done call.
Overtakes == unsent => overtaken

InFlight ==
    Undisturbed =>
    \A p \in Posters :
        /\ dpc[p] = "fromWAIT" => status \in {"WAIT", "DONE"}
        /\ dpc[p] = "fromWAITING" => status \in {"WAITING", "DONE"}
        /\ dpc[p] = "aim" =>
             status = "DONE" /\ \E t \in Waiters : wpc[t] \in Registered /\ waitThread = t
        /\ dpc[p] = "post" =>
             status = "DONE" /\ \E t \in Waiters : wpc[t] \in Registered /\ target[p] = Box(t)

\* One done call at a time owes a signal; no other is in a box then, and the
\* waiter it is for has not taken the done.
Owing ==
    Orderly =>
    \A p \in Posters : dpc[p] \in {"aim", "post"} =>
        /\ status = "DONE" /\ signal = {}
        /\ \A q \in Posters : dpc[q] \in {"aim", "post"} => q = p
        /\ \E t \in Waiters :
             /\ wpc[t] \in Registered \cup {"lateDone", "lateTimeout"}
             /\ IF dpc[p] = "aim" THEN waitThread = t ELSE target[p] = Box(t)

Tokens ==
    Orderly =>
    \A b \in signal : \E t \in Waiters :
        /\ b = Box(t)
        /\ \/ wpc[t] = "drain"
           \/ status = "DONE" /\ wpc[t] \in Registered \cup {"lateDone", "lateTimeout"}

WokenByDone == Orderly => \A t \in Waiters : wpc[t] = "woken" => status = "DONE"

\* The inductive invariant.
IInv ==
    /\ TypeOK /\ Aimed
    /\ Solo /\ Handle /\ Agree /\ NoLostWake
    /\ Overtakes /\ InFlight /\ Owing /\ Tokens /\ WokenByDone /\ OneShot
    /\ ErrorsNeedDisorder

LEMMA TypeStep ==
    ASSUME TypeOK, Aimed, [Next]_vars
    PROVE  TypeOK' /\ Aimed'
<1> USE CompletionAssumption DEF TypeOK, Aimed, Status, Results, vars, shared, waiting, posting, history
<1>1. ASSUME NEW t \in Waiters, WaitCall(t) PROVE TypeOK' /\ Aimed'
    BY <1>1 DEF WaitCall
<1>2. ASSUME NEW t \in Waiters, Snap(t) PROVE TypeOK' /\ Aimed'
    BY <1>2 DEF Snap, WaiterAt, GoTo, WaitReturns
<1>3. ASSUME NEW t \in Waiters, TakeDone(t) PROVE TypeOK' /\ Aimed'
    BY <1>3 DEF TakeDone, WaiterAt, GoTo, Consumed
<1>4. ASSUME NEW t \in Waiters, Enroll(t) PROVE TypeOK' /\ Aimed'
    BY <1>4 DEF Enroll, WaiterAt, GoTo
<1>5. ASSUME NEW t \in Waiters, RegisterWait(t) PROVE TypeOK' /\ Aimed'
    BY <1>5 DEF RegisterWait, WaiterAt, GoTo
<1>6. ASSUME NEW t \in Waiters, RegisterFailed(t) PROVE TypeOK' /\ Aimed'
  <2>1. CASE WaiterAt(t, "undoDone") /\ status = "DONE"
    BY <1>6, <2>1 DEF RegisterFailed, WaiterAt, GoTo, Consumed, WaitReturns
  <2>2. CASE WaiterAt(t, "undoDone") /\ status # "DONE"
    BY <1>6, <2>2 DEF RegisterFailed, WaiterAt, GoTo, Consumed, WaitReturns
  <2>3. CASE WaiterAt(t, "undoBusy")
    BY <1>6, <2>3 DEF RegisterFailed, WaiterAt, GoTo, Consumed, WaitReturns
  <2>. QED
    BY <1>6, <2>1, <2>2, <2>3 DEF RegisterFailed
<1>7. ASSUME NEW t \in Waiters, CommitWait(t) PROVE TypeOK' /\ Aimed'
    BY <1>7 DEF CommitWait, WaiterAt, GoTo
<1>8. ASSUME NEW t \in Waiters, LateDone(t) PROVE TypeOK' /\ Aimed'
    BY <1>8 DEF LateDone, WaiterAt, GoTo
<1>9. ASSUME NEW t \in Waiters, Odd(t) PROVE TypeOK' /\ Aimed'
    BY <1>9 DEF Odd, WaiterAt, WaitReturns
<1>10. ASSUME NEW t \in Waiters, Wake(t) PROVE TypeOK' /\ Aimed'
    BY <1>10 DEF Wake, WaiterAt, GoTo, Box
<1>11. ASSUME NEW t \in Waiters, Expire(t) PROVE TypeOK' /\ Aimed'
    BY <1>11 DEF Expire, WaiterAt, GoTo, Box
<1>12. ASSUME NEW t \in Waiters, Woken(t) PROVE TypeOK' /\ Aimed'
  <2>1. /\ WaiterAt(t, wpc[t])
        /\ status' = "INIT" /\ owed' = owed - 1 /\ waitThread' = None /\ signal' = signal
        /\ GoTo(t, "drain") \/ WaitReturns(t, "OK")
    BY <1>12 DEF Woken, WaiterAt
  <2>2. CASE GoTo(t, "drain")
    BY <2>1, <2>2 DEF WaiterAt, GoTo
  <2>3. CASE WaitReturns(t, "OK")
    BY <2>1, <2>3 DEF WaiterAt, WaitReturns
  <2>. QED
    BY <2>1, <2>2, <2>3
<1>13. ASSUME NEW t \in Waiters, Expired(t) PROVE TypeOK' /\ Aimed'
    BY <1>13 DEF Expired, WaiterAt, GoTo
<1>14. ASSUME NEW t \in Waiters, Wipe(t) PROVE TypeOK' /\ Aimed'
    BY <1>14 DEF Wipe, WaiterAt, GoTo, WaitReturns
<1>15. ASSUME NEW t \in Waiters, Drain(t) PROVE TypeOK' /\ Aimed'
    BY <1>15 DEF Drain, WaiterAt, WaitReturns, Box
<1>16. ASSUME NEW p \in Posters, DoneCall(p) PROVE TypeOK' /\ Aimed'
    BY <1>16 DEF DoneCall, DoneReturns
<1>17. ASSUME NEW p \in Posters, DoneSwap(p) PROVE TypeOK' /\ Aimed'
    BY <1>17 DEF DoneSwap, DoneReturns
<1>18. ASSUME NEW p \in Posters, Aim(p) PROVE TypeOK' /\ Aimed'
    BY <1>18 DEF Aim, DoneReturns
<1>19. ASSUME NEW p \in Posters, Post(p) PROVE TypeOK' /\ Aimed'
    BY <1>19 DEF Post, DoneReturns
<1>20. CASE DoneFromIsr
    BY <1>20 DEF DoneFromIsr, Box
<1>21. CASE Reinit
    BY <1>21 DEF Reinit, Reset
<1>22. CASE UNCHANGED vars
    BY <1>22
<1>23. QED
    BY <1>1, <1>2, <1>3, <1>4, <1>5, <1>6, <1>7, <1>8, <1>9, <1>10, <1>11,
       <1>12, <1>13, <1>14, <1>15, <1>16, <1>17, <1>18, <1>19, <1>20, <1>21, <1>22
       DEF Next, WaiterStep, PosterStep

LEMMA SoloStep ==
    ASSUME TypeOK, Solo, [Next]_vars
    PROVE  Solo'
<1> USE CompletionAssumption DEF Solo, TypeOK, Status, Results, shared, waiting, posting, history
<1>1. ASSUME NEW t \in Waiters, WaitCall(t) PROVE Solo'
  <2>1. wpc' = [wpc EXCEPT ![t] = "snap"]
    BY <1>1 DEF WaitCall
  <2>2. ~crowded' => ~crowded /\ \A u \in Waiters \ {t} : wpc[u] = "out"
    BY <1>1 DEF WaitCall
  <2>. QED
    BY <2>1, <2>2
<1>2. ASSUME NEW t \in Waiters, Snap(t) PROVE Solo'
    BY <1>2 DEF Snap, WaiterAt, GoTo, WaitReturns
<1>3. ASSUME NEW t \in Waiters, TakeDone(t) PROVE Solo'
    BY <1>3 DEF TakeDone, WaiterAt, GoTo, Consumed
<1>4. ASSUME NEW t \in Waiters, Enroll(t) PROVE Solo'
    BY <1>4 DEF Enroll, WaiterAt, GoTo
<1>5. ASSUME NEW t \in Waiters, RegisterWait(t) PROVE Solo'
    BY <1>5 DEF RegisterWait, WaiterAt, GoTo
<1>6. ASSUME NEW t \in Waiters, RegisterFailed(t) PROVE Solo'
    BY <1>6 DEF RegisterFailed, WaiterAt, GoTo, Consumed, WaitReturns
<1>7. ASSUME NEW t \in Waiters, CommitWait(t) PROVE Solo'
    BY <1>7 DEF CommitWait, WaiterAt, GoTo
<1>8. ASSUME NEW t \in Waiters, LateDone(t) PROVE Solo'
    BY <1>8 DEF LateDone, WaiterAt, GoTo
<1>9. ASSUME NEW t \in Waiters, Odd(t) PROVE Solo'
    BY <1>9 DEF Odd, WaiterAt, WaitReturns
<1>10. ASSUME NEW t \in Waiters, Wake(t) PROVE Solo'
    BY <1>10 DEF Wake, WaiterAt, GoTo
<1>11. ASSUME NEW t \in Waiters, Expire(t) PROVE Solo'
    BY <1>11 DEF Expire, WaiterAt, GoTo
<1>12. ASSUME NEW t \in Waiters, Woken(t) PROVE Solo'
    BY <1>12 DEF Woken, WaiterAt, GoTo, WaitReturns
<1>13. ASSUME NEW t \in Waiters, Expired(t) PROVE Solo'
    BY <1>13 DEF Expired, WaiterAt, GoTo
<1>14. ASSUME NEW t \in Waiters, Wipe(t) PROVE Solo'
    BY <1>14 DEF Wipe, WaiterAt, GoTo, WaitReturns
<1>15. ASSUME NEW t \in Waiters, Drain(t) PROVE Solo'
    BY <1>15 DEF Drain, WaiterAt, WaitReturns
<1>16. ASSUME NEW p \in Posters, DoneCall(p) PROVE Solo'
    BY <1>16 DEF DoneCall, DoneReturns
<1>17. ASSUME NEW p \in Posters, DoneSwap(p) PROVE Solo'
    BY <1>17 DEF DoneSwap, DoneReturns
<1>18. ASSUME NEW p \in Posters, Aim(p) PROVE Solo'
    BY <1>18 DEF Aim, DoneReturns
<1>19. ASSUME NEW p \in Posters, Post(p) PROVE Solo'
    BY <1>19 DEF Post, DoneReturns
<1>20. CASE DoneFromIsr
    BY <1>20 DEF DoneFromIsr
<1>21. CASE Reinit
    BY <1>21 DEF Reinit, Reset
<1>22. CASE UNCHANGED vars
    BY <1>22 DEF vars
<1>23. QED
    BY <1>1, <1>2, <1>3, <1>4, <1>5, <1>6, <1>7, <1>8, <1>9, <1>10, <1>11,
       <1>12, <1>13, <1>14, <1>15, <1>16, <1>17, <1>18, <1>19, <1>20, <1>21, <1>22
       DEF Next, WaiterStep, PosterStep

LEMMA HandleStep ==
    ASSUME TypeOK, Solo, Handle, [Next]_vars
    PROVE  Handle'
<1> USE CompletionAssumption DEF Solo, Handle, Registered, TypeOK, Status, Results, shared, waiting, posting, history
<1>1. ASSUME NEW t \in Waiters, WaitCall(t) PROVE Handle'
    BY <1>1 DEF WaitCall
<1>2. ASSUME NEW t \in Waiters, Snap(t) PROVE Handle'
    BY <1>2 DEF Snap, WaiterAt, GoTo, WaitReturns
<1>3. ASSUME NEW t \in Waiters, TakeDone(t) PROVE Handle'
    BY <1>3 DEF TakeDone, WaiterAt, GoTo, Consumed
<1>4. ASSUME NEW t \in Waiters, Enroll(t) PROVE Handle'
    BY <1>4 DEF Enroll, WaiterAt, GoTo
<1>5. ASSUME NEW t \in Waiters, RegisterWait(t) PROVE Handle'
    BY <1>5 DEF RegisterWait, WaiterAt, GoTo
<1>6. ASSUME NEW t \in Waiters, RegisterFailed(t) PROVE Handle'
    BY <1>6 DEF RegisterFailed, WaiterAt, GoTo, Consumed, WaitReturns
<1>7. ASSUME NEW t \in Waiters, CommitWait(t) PROVE Handle'
    BY <1>7 DEF CommitWait, WaiterAt, GoTo
<1>8. ASSUME NEW t \in Waiters, LateDone(t) PROVE Handle'
    BY <1>8 DEF LateDone, WaiterAt, GoTo
<1>9. ASSUME NEW t \in Waiters, Odd(t) PROVE Handle'
    BY <1>9 DEF Odd, WaiterAt, WaitReturns
<1>10. ASSUME NEW t \in Waiters, Wake(t) PROVE Handle'
    BY <1>10 DEF Wake, WaiterAt, GoTo
<1>11. ASSUME NEW t \in Waiters, Expire(t) PROVE Handle'
    BY <1>11 DEF Expire, WaiterAt, GoTo
<1>12. ASSUME NEW t \in Waiters, Woken(t) PROVE Handle'
    BY <1>12 DEF Woken, WaiterAt, GoTo, WaitReturns
<1>13. ASSUME NEW t \in Waiters, Expired(t) PROVE Handle'
    BY <1>13 DEF Expired, WaiterAt, GoTo
<1>14. ASSUME NEW t \in Waiters, Wipe(t) PROVE Handle'
    BY <1>14 DEF Wipe, WaiterAt, GoTo, WaitReturns
<1>15. ASSUME NEW t \in Waiters, Drain(t) PROVE Handle'
    BY <1>15 DEF Drain, WaiterAt, WaitReturns
<1>16. ASSUME NEW p \in Posters, DoneCall(p) PROVE Handle'
    BY <1>16 DEF DoneCall, DoneReturns
<1>17. ASSUME NEW p \in Posters, DoneSwap(p) PROVE Handle'
    BY <1>17 DEF DoneSwap, DoneReturns
<1>18. ASSUME NEW p \in Posters, Aim(p) PROVE Handle'
    BY <1>18 DEF Aim, DoneReturns
<1>19. ASSUME NEW p \in Posters, Post(p) PROVE Handle'
    BY <1>19 DEF Post, DoneReturns
<1>20. CASE DoneFromIsr
    BY <1>20 DEF DoneFromIsr
<1>21. CASE Reinit
    BY <1>21 DEF Reinit, Reset
<1>22. CASE UNCHANGED vars
    BY <1>22 DEF vars
<1>23. QED
    BY <1>1, <1>2, <1>3, <1>4, <1>5, <1>6, <1>7, <1>8, <1>9, <1>10, <1>11,
       <1>12, <1>13, <1>14, <1>15, <1>16, <1>17, <1>18, <1>19, <1>20, <1>21, <1>22
       DEF Next, WaiterStep, PosterStep

LEMMA AgreeStep ==
    ASSUME TypeOK, Solo, Agree, [Next]_vars
    PROVE  Agree'
<1> USE CompletionAssumption DEF Solo, Agree, InDone, TypeOK, Status, Results, shared, waiting, posting, history
<1>1. ASSUME NEW t \in Waiters, WaitCall(t) PROVE Agree'
    BY <1>1 DEF WaitCall
<1>2. ASSUME NEW t \in Waiters, Snap(t) PROVE Agree'
    BY <1>2 DEF Snap, WaiterAt, GoTo, WaitReturns
<1>3. ASSUME NEW t \in Waiters, TakeDone(t) PROVE Agree'
    BY <1>3 DEF TakeDone, WaiterAt, GoTo, Consumed
<1>4. ASSUME NEW t \in Waiters, Enroll(t) PROVE Agree'
    BY <1>4 DEF Enroll, WaiterAt, GoTo
<1>5. ASSUME NEW t \in Waiters, RegisterWait(t) PROVE Agree'
    BY <1>5 DEF RegisterWait, WaiterAt, GoTo
<1>6. ASSUME NEW t \in Waiters, RegisterFailed(t) PROVE Agree'
    BY <1>6 DEF RegisterFailed, WaiterAt, GoTo, Consumed, WaitReturns
<1>7. ASSUME NEW t \in Waiters, CommitWait(t) PROVE Agree'
    BY <1>7 DEF CommitWait, WaiterAt, GoTo
<1>8. ASSUME NEW t \in Waiters, LateDone(t) PROVE Agree'
    BY <1>8 DEF LateDone, WaiterAt, GoTo
<1>9. ASSUME NEW t \in Waiters, Odd(t) PROVE Agree'
    BY <1>9 DEF Odd, WaiterAt, WaitReturns
<1>10. ASSUME NEW t \in Waiters, Wake(t) PROVE Agree'
    BY <1>10 DEF Wake, WaiterAt, GoTo
<1>11. ASSUME NEW t \in Waiters, Expire(t) PROVE Agree'
    BY <1>11 DEF Expire, WaiterAt, GoTo
<1>12. ASSUME NEW t \in Waiters, Woken(t) PROVE Agree'
    BY <1>12 DEF Woken, WaiterAt, GoTo, WaitReturns
<1>13. ASSUME NEW t \in Waiters, Expired(t) PROVE Agree'
    BY <1>13 DEF Expired, WaiterAt, GoTo
<1>14. ASSUME NEW t \in Waiters, Wipe(t) PROVE Agree'
    BY <1>14 DEF Wipe, WaiterAt, GoTo, WaitReturns
<1>15. ASSUME NEW t \in Waiters, Drain(t) PROVE Agree'
    BY <1>15 DEF Drain, WaiterAt, WaitReturns
<1>16. ASSUME NEW p \in Posters, DoneCall(p) PROVE Agree'
    BY <1>16 DEF DoneCall, DoneReturns
<1>17. ASSUME NEW p \in Posters, DoneSwap(p) PROVE Agree'
    BY <1>17 DEF DoneSwap, DoneReturns
<1>18. ASSUME NEW p \in Posters, Aim(p) PROVE Agree'
    BY <1>18 DEF Aim, DoneReturns
<1>19. ASSUME NEW p \in Posters, Post(p) PROVE Agree'
    BY <1>19 DEF Post, DoneReturns
<1>20. CASE DoneFromIsr
    BY <1>20 DEF DoneFromIsr
<1>21. CASE Reinit
    BY <1>21 DEF Reinit, Reset
<1>22. CASE UNCHANGED vars
    BY <1>22 DEF vars
<1>23. QED
    BY <1>1, <1>2, <1>3, <1>4, <1>5, <1>6, <1>7, <1>8, <1>9, <1>10, <1>11,
       <1>12, <1>13, <1>14, <1>15, <1>16, <1>17, <1>18, <1>19, <1>20, <1>21, <1>22
       DEF Next, WaiterStep, PosterStep

LEMMA NoLostWakeStep ==
    ASSUME TypeOK, Aimed, Solo, Handle, Agree, NoLostWake, [Next]_vars
    PROVE  NoLostWake'
<1> USE CompletionAssumption DEF Solo, Agree, Aimed, Handle, Registered, NoLostWake, Box, TypeOK, Status, Results, shared, waiting, posting, history
<1>1. ASSUME NEW t \in Waiters, WaitCall(t) PROVE NoLostWake'
    BY <1>1 DEF WaitCall
<1>2. ASSUME NEW t \in Waiters, Snap(t) PROVE NoLostWake'
    BY <1>2 DEF Snap, WaiterAt, GoTo, WaitReturns
<1>3. ASSUME NEW t \in Waiters, TakeDone(t) PROVE NoLostWake'
    BY <1>3 DEF TakeDone, WaiterAt, GoTo, Consumed
<1>4. ASSUME NEW t \in Waiters, Enroll(t) PROVE NoLostWake'
    BY <1>4 DEF Enroll, WaiterAt, GoTo
<1>5. ASSUME NEW t \in Waiters, RegisterWait(t) PROVE NoLostWake'
    BY <1>5 DEF RegisterWait, WaiterAt, GoTo
<1>6. ASSUME NEW t \in Waiters, RegisterFailed(t) PROVE NoLostWake'
    BY <1>6 DEF RegisterFailed, WaiterAt, GoTo, Consumed, WaitReturns
<1>7. ASSUME NEW t \in Waiters, CommitWait(t) PROVE NoLostWake'
    BY <1>7 DEF CommitWait, WaiterAt, GoTo
<1>8. ASSUME NEW t \in Waiters, LateDone(t) PROVE NoLostWake'
    BY <1>8 DEF LateDone, WaiterAt, GoTo
<1>9. ASSUME NEW t \in Waiters, Odd(t) PROVE NoLostWake'
    BY <1>9 DEF Odd, WaiterAt, WaitReturns
<1>10. ASSUME NEW t \in Waiters, Wake(t) PROVE NoLostWake'
    BY <1>10 DEF Wake, WaiterAt, GoTo
<1>11. ASSUME NEW t \in Waiters, Expire(t) PROVE NoLostWake'
    BY <1>11 DEF Expire, WaiterAt, GoTo
<1>12. ASSUME NEW t \in Waiters, Woken(t) PROVE NoLostWake'
    BY <1>12 DEF Woken, WaiterAt, GoTo, WaitReturns
<1>13. ASSUME NEW t \in Waiters, Expired(t) PROVE NoLostWake'
    BY <1>13 DEF Expired, WaiterAt, GoTo
<1>14. ASSUME NEW t \in Waiters, Wipe(t) PROVE NoLostWake'
    BY <1>14 DEF Wipe, WaiterAt, GoTo, WaitReturns
<1>15. ASSUME NEW t \in Waiters, Drain(t) PROVE NoLostWake'
    BY <1>15 DEF Drain, WaiterAt, WaitReturns
<1>16. ASSUME NEW p \in Posters, DoneCall(p) PROVE NoLostWake'
    BY <1>16 DEF DoneCall, DoneReturns
<1>17. ASSUME NEW p \in Posters, DoneSwap(p) PROVE NoLostWake'
    BY <1>17 DEF DoneSwap, DoneReturns
<1>18. ASSUME NEW p \in Posters, Aim(p) PROVE NoLostWake'
    BY <1>18 DEF Aim, DoneReturns
<1>19. ASSUME NEW p \in Posters, Post(p) PROVE NoLostWake'
    BY <1>19 DEF Post, DoneReturns
<1>20. CASE DoneFromIsr
    BY <1>20 DEF DoneFromIsr
<1>21. CASE Reinit
    BY <1>21 DEF Reinit, Reset
<1>22. CASE UNCHANGED vars
    BY <1>22 DEF vars
<1>23. QED
    BY <1>1, <1>2, <1>3, <1>4, <1>5, <1>6, <1>7, <1>8, <1>9, <1>10, <1>11,
       <1>12, <1>13, <1>14, <1>15, <1>16, <1>17, <1>18, <1>19, <1>20, <1>21, <1>22
       DEF Next, WaiterStep, PosterStep

LEMMA WokenByDoneStep ==
    ASSUME TypeOK, Solo, Agree, Tokens, WokenByDone, [Next]_vars
    PROVE  WokenByDone'
<1> USE CompletionAssumption DEF Solo, Agree, Tokens, WokenByDone, Registered, Box, Orderly, TypeOK, Status, Results, shared, waiting, posting, history
<1>1. ASSUME NEW t \in Waiters, WaitCall(t) PROVE WokenByDone'
    BY <1>1 DEF WaitCall
<1>2. ASSUME NEW t \in Waiters, Snap(t) PROVE WokenByDone'
    BY <1>2 DEF Snap, WaiterAt, GoTo, WaitReturns
<1>3. ASSUME NEW t \in Waiters, TakeDone(t) PROVE WokenByDone'
    BY <1>3 DEF TakeDone, WaiterAt, GoTo, Consumed
<1>4. ASSUME NEW t \in Waiters, Enroll(t) PROVE WokenByDone'
    BY <1>4 DEF Enroll, WaiterAt, GoTo
<1>5. ASSUME NEW t \in Waiters, RegisterWait(t) PROVE WokenByDone'
    BY <1>5 DEF RegisterWait, WaiterAt, GoTo
<1>6. ASSUME NEW t \in Waiters, RegisterFailed(t) PROVE WokenByDone'
    BY <1>6 DEF RegisterFailed, WaiterAt, GoTo, Consumed, WaitReturns
<1>7. ASSUME NEW t \in Waiters, CommitWait(t) PROVE WokenByDone'
    BY <1>7 DEF CommitWait, WaiterAt, GoTo
<1>8. ASSUME NEW t \in Waiters, LateDone(t) PROVE WokenByDone'
    BY <1>8 DEF LateDone, WaiterAt, GoTo
<1>9. ASSUME NEW t \in Waiters, Odd(t) PROVE WokenByDone'
    BY <1>9 DEF Odd, WaiterAt, WaitReturns
<1>10. ASSUME NEW t \in Waiters, Wake(t) PROVE WokenByDone'
    BY <1>10 DEF Wake, WaiterAt, GoTo
<1>11. ASSUME NEW t \in Waiters, Expire(t) PROVE WokenByDone'
    BY <1>11 DEF Expire, WaiterAt, GoTo
<1>12. ASSUME NEW t \in Waiters, Woken(t) PROVE WokenByDone'
    BY <1>12 DEF Woken, WaiterAt, GoTo, WaitReturns
<1>13. ASSUME NEW t \in Waiters, Expired(t) PROVE WokenByDone'
    BY <1>13 DEF Expired, WaiterAt, GoTo
<1>14. ASSUME NEW t \in Waiters, Wipe(t) PROVE WokenByDone'
    BY <1>14 DEF Wipe, WaiterAt, GoTo, WaitReturns
<1>15. ASSUME NEW t \in Waiters, Drain(t) PROVE WokenByDone'
    BY <1>15 DEF Drain, WaiterAt, WaitReturns
<1>16. ASSUME NEW p \in Posters, DoneCall(p) PROVE WokenByDone'
    BY <1>16 DEF DoneCall, DoneReturns
<1>17. ASSUME NEW p \in Posters, DoneSwap(p) PROVE WokenByDone'
    BY <1>17 DEF DoneSwap, DoneReturns
<1>18. ASSUME NEW p \in Posters, Aim(p) PROVE WokenByDone'
    BY <1>18 DEF Aim, DoneReturns
<1>19. ASSUME NEW p \in Posters, Post(p) PROVE WokenByDone'
    BY <1>19 DEF Post, DoneReturns
<1>20. CASE DoneFromIsr
    BY <1>20 DEF DoneFromIsr
<1>21. CASE Reinit
    BY <1>21 DEF Reinit, Reset
<1>22. CASE UNCHANGED vars
    BY <1>22 DEF vars
<1>23. QED
    BY <1>1, <1>2, <1>3, <1>4, <1>5, <1>6, <1>7, <1>8, <1>9, <1>10, <1>11,
       <1>12, <1>13, <1>14, <1>15, <1>16, <1>17, <1>18, <1>19, <1>20, <1>21, <1>22
       DEF Next, WaiterStep, PosterStep

LEMMA OvertakesStep ==
    ASSUME TypeOK, Overtakes, [Next]_vars
    PROVE  Overtakes'
<1> USE CompletionAssumption DEF Overtakes, Sending, InDone, TypeOK, Status, Results, shared, waiting, posting, history
<1>1. ASSUME NEW t \in Waiters, WaitCall(t) PROVE Overtakes'
    BY <1>1 DEF WaitCall
<1>2. ASSUME NEW t \in Waiters, Snap(t) PROVE Overtakes'
    BY <1>2 DEF Snap, WaiterAt, GoTo, WaitReturns
<1>3. ASSUME NEW t \in Waiters, TakeDone(t) PROVE Overtakes'
    BY <1>3 DEF TakeDone, WaiterAt, GoTo, Consumed
<1>4. ASSUME NEW t \in Waiters, Enroll(t) PROVE Overtakes'
    BY <1>4 DEF Enroll, WaiterAt, GoTo
<1>5. ASSUME NEW t \in Waiters, RegisterWait(t) PROVE Overtakes'
    BY <1>5 DEF RegisterWait, WaiterAt, GoTo
<1>6. ASSUME NEW t \in Waiters, RegisterFailed(t) PROVE Overtakes'
    BY <1>6 DEF RegisterFailed, WaiterAt, GoTo, Consumed, WaitReturns
<1>7. ASSUME NEW t \in Waiters, CommitWait(t) PROVE Overtakes'
    BY <1>7 DEF CommitWait, WaiterAt, GoTo
<1>8. ASSUME NEW t \in Waiters, LateDone(t) PROVE Overtakes'
    BY <1>8 DEF LateDone, WaiterAt, GoTo
<1>9. ASSUME NEW t \in Waiters, Odd(t) PROVE Overtakes'
    BY <1>9 DEF Odd, WaiterAt, WaitReturns
<1>10. ASSUME NEW t \in Waiters, Wake(t) PROVE Overtakes'
    BY <1>10 DEF Wake, WaiterAt, GoTo
<1>11. ASSUME NEW t \in Waiters, Expire(t) PROVE Overtakes'
    BY <1>11 DEF Expire, WaiterAt, GoTo
<1>12. ASSUME NEW t \in Waiters, Woken(t) PROVE Overtakes'
    BY <1>12 DEF Woken, WaiterAt, GoTo, WaitReturns
<1>13. ASSUME NEW t \in Waiters, Expired(t) PROVE Overtakes'
    BY <1>13 DEF Expired, WaiterAt, GoTo
<1>14. ASSUME NEW t \in Waiters, Wipe(t) PROVE Overtakes'
    BY <1>14 DEF Wipe, WaiterAt, GoTo, WaitReturns
<1>15. ASSUME NEW t \in Waiters, Drain(t) PROVE Overtakes'
    BY <1>15 DEF Drain, WaiterAt, WaitReturns
<1>16. ASSUME NEW p \in Posters, DoneCall(p) PROVE Overtakes'
    BY <1>16 DEF DoneCall, DoneReturns
<1>17. ASSUME NEW p \in Posters, DoneSwap(p) PROVE Overtakes'
    BY <1>17 DEF DoneSwap, DoneReturns
<1>18. ASSUME NEW p \in Posters, Aim(p) PROVE Overtakes'
    BY <1>18 DEF Aim, DoneReturns
<1>19. ASSUME NEW p \in Posters, Post(p) PROVE Overtakes'
    BY <1>19 DEF Post, DoneReturns
<1>20. CASE DoneFromIsr
    BY <1>20 DEF DoneFromIsr
<1>21. CASE Reinit
    BY <1>21 DEF Reinit, Reset
<1>22. CASE UNCHANGED vars
    BY <1>22 DEF vars
<1>23. QED
    BY <1>1, <1>2, <1>3, <1>4, <1>5, <1>6, <1>7, <1>8, <1>9, <1>10, <1>11,
       <1>12, <1>13, <1>14, <1>15, <1>16, <1>17, <1>18, <1>19, <1>20, <1>21, <1>22
       DEF Next, WaiterStep, PosterStep

LEMMA InFlightStep ==
    ASSUME TypeOK, Aimed, Solo, Handle, Agree, WokenByDone, Overtakes, InFlight, [Next]_vars
    PROVE  InFlight'
<1> USE CompletionAssumption DEF Solo, Handle, Agree, WokenByDone, Aimed, Overtakes, InFlight, Registered, Box, Orderly, Undisturbed, InDone, TypeOK, Status, Results, shared, waiting, posting, history
<1>1. ASSUME NEW t \in Waiters, WaitCall(t) PROVE InFlight'
    BY <1>1 DEF WaitCall
<1>2. ASSUME NEW t \in Waiters, Snap(t) PROVE InFlight'
    BY <1>2 DEF Snap, WaiterAt, GoTo, WaitReturns
<1>3. ASSUME NEW t \in Waiters, TakeDone(t) PROVE InFlight'
    BY <1>3 DEF TakeDone, WaiterAt, GoTo, Consumed
<1>4. ASSUME NEW t \in Waiters, Enroll(t) PROVE InFlight'
    BY <1>4 DEF Enroll, WaiterAt, GoTo
<1>5. ASSUME NEW t \in Waiters, RegisterWait(t) PROVE InFlight'
    BY <1>5 DEF RegisterWait, WaiterAt, GoTo
<1>6. ASSUME NEW t \in Waiters, RegisterFailed(t) PROVE InFlight'
    BY <1>6 DEF RegisterFailed, WaiterAt, GoTo, Consumed, WaitReturns
<1>7. ASSUME NEW t \in Waiters, CommitWait(t) PROVE InFlight'
    BY <1>7 DEF CommitWait, WaiterAt, GoTo
<1>8. ASSUME NEW t \in Waiters, LateDone(t) PROVE InFlight'
    BY <1>8 DEF LateDone, WaiterAt, GoTo
<1>9. ASSUME NEW t \in Waiters, Odd(t) PROVE InFlight'
    BY <1>9 DEF Odd, WaiterAt, WaitReturns
<1>10. ASSUME NEW t \in Waiters, Wake(t) PROVE InFlight'
    BY <1>10 DEF Wake, WaiterAt, GoTo
<1>11. ASSUME NEW t \in Waiters, Expire(t) PROVE InFlight'
    BY <1>11 DEF Expire, WaiterAt, GoTo
<1>12. ASSUME NEW t \in Waiters, Woken(t) PROVE InFlight'
    BY <1>12 DEF Woken, WaiterAt, GoTo, WaitReturns
<1>13. ASSUME NEW t \in Waiters, Expired(t) PROVE InFlight'
    BY <1>13 DEF Expired, WaiterAt, GoTo
<1>14. ASSUME NEW t \in Waiters, Wipe(t) PROVE InFlight'
    BY <1>14 DEF Wipe, WaiterAt, GoTo, WaitReturns
<1>15. ASSUME NEW t \in Waiters, Drain(t) PROVE InFlight'
    BY <1>15 DEF Drain, WaiterAt, WaitReturns
<1>16. ASSUME NEW p \in Posters, DoneCall(p) PROVE InFlight'
    BY <1>16 DEF DoneCall, DoneReturns
<1>17. ASSUME NEW p \in Posters, DoneSwap(p) PROVE InFlight'
    BY <1>17 DEF DoneSwap, DoneReturns
<1>18. ASSUME NEW p \in Posters, Aim(p) PROVE InFlight'
    BY <1>18 DEF Aim, DoneReturns
<1>19. ASSUME NEW p \in Posters, Post(p) PROVE InFlight'
    BY <1>19 DEF Post, DoneReturns
<1>20. CASE DoneFromIsr
    BY <1>20 DEF DoneFromIsr
<1>21. CASE Reinit
    BY <1>21 DEF Reinit, Reset
<1>22. CASE UNCHANGED vars
    BY <1>22 DEF vars
<1>23. QED
    BY <1>1, <1>2, <1>3, <1>4, <1>5, <1>6, <1>7, <1>8, <1>9, <1>10, <1>11,
       <1>12, <1>13, <1>14, <1>15, <1>16, <1>17, <1>18, <1>19, <1>20, <1>21, <1>22
       DEF Next, WaiterStep, PosterStep

LEMMA OwingStep ==
    ASSUME TypeOK, Aimed, Solo, Handle, Agree, WokenByDone, Tokens, Owing, [Next]_vars
    PROVE  Owing'
<1> USE CompletionAssumption DEF Solo, Handle, Agree, WokenByDone, Aimed, Tokens, Owing, Registered, Box, Orderly, Taking, Sending, TypeOK, Status, Results, shared, waiting, posting, history
<1>1. ASSUME NEW t \in Waiters, WaitCall(t) PROVE Owing'
    BY <1>1 DEF WaitCall
<1>2. ASSUME NEW t \in Waiters, Snap(t) PROVE Owing'
    BY <1>2 DEF Snap, WaiterAt, GoTo, WaitReturns
<1>3. ASSUME NEW t \in Waiters, TakeDone(t) PROVE Owing'
    BY <1>3 DEF TakeDone, WaiterAt, GoTo, Consumed
<1>4. ASSUME NEW t \in Waiters, Enroll(t) PROVE Owing'
    BY <1>4 DEF Enroll, WaiterAt, GoTo
<1>5. ASSUME NEW t \in Waiters, RegisterWait(t) PROVE Owing'
    BY <1>5 DEF RegisterWait, WaiterAt, GoTo
<1>6. ASSUME NEW t \in Waiters, RegisterFailed(t) PROVE Owing'
    BY <1>6 DEF RegisterFailed, WaiterAt, GoTo, Consumed, WaitReturns
<1>7. ASSUME NEW t \in Waiters, CommitWait(t) PROVE Owing'
    BY <1>7 DEF CommitWait, WaiterAt, GoTo
<1>8. ASSUME NEW t \in Waiters, LateDone(t) PROVE Owing'
    BY <1>8 DEF LateDone, WaiterAt, GoTo
<1>9. ASSUME NEW t \in Waiters, Odd(t) PROVE Owing'
    BY <1>9 DEF Odd, WaiterAt, WaitReturns
<1>10. ASSUME NEW t \in Waiters, Wake(t) PROVE Owing'
    BY <1>10 DEF Wake, WaiterAt, GoTo
<1>11. ASSUME NEW t \in Waiters, Expire(t) PROVE Owing'
    BY <1>11 DEF Expire, WaiterAt, GoTo
<1>12. ASSUME NEW t \in Waiters, Woken(t) PROVE Owing'
    BY <1>12 DEF Woken, WaiterAt, GoTo, WaitReturns
<1>13. ASSUME NEW t \in Waiters, Expired(t) PROVE Owing'
    BY <1>13 DEF Expired, WaiterAt, GoTo
<1>14. ASSUME NEW t \in Waiters, Wipe(t) PROVE Owing'
    BY <1>14 DEF Wipe, WaiterAt, GoTo, WaitReturns
<1>15. ASSUME NEW t \in Waiters, Drain(t) PROVE Owing'
    BY <1>15 DEF Drain, WaiterAt, WaitReturns
<1>16. ASSUME NEW p \in Posters, DoneCall(p) PROVE Owing'
    BY <1>16 DEF DoneCall, DoneReturns
<1>17. ASSUME NEW p \in Posters, DoneSwap(p) PROVE Owing'
    BY <1>17 DEF DoneSwap, DoneReturns
<1>18. ASSUME NEW p \in Posters, Aim(p) PROVE Owing'
    BY <1>18 DEF Aim, DoneReturns
<1>19. ASSUME NEW p \in Posters, Post(p) PROVE Owing'
    BY <1>19 DEF Post, DoneReturns
<1>20. CASE DoneFromIsr
    BY <1>20 DEF DoneFromIsr
<1>21. CASE Reinit
    BY <1>21 DEF Reinit, Reset
<1>22. CASE UNCHANGED vars
    BY <1>22 DEF vars
<1>23. QED
    BY <1>1, <1>2, <1>3, <1>4, <1>5, <1>6, <1>7, <1>8, <1>9, <1>10, <1>11,
       <1>12, <1>13, <1>14, <1>15, <1>16, <1>17, <1>18, <1>19, <1>20, <1>21, <1>22
       DEF Next, WaiterStep, PosterStep

LEMMA TokensStep ==
    ASSUME TypeOK, Aimed, Solo, Handle, Agree, WokenByDone, Owing, Tokens, [Next]_vars
    PROVE  Tokens'
<1> USE CompletionAssumption DEF Solo, Handle, Agree, WokenByDone, Aimed, Owing, Tokens, Registered, Box, Orderly, Taking, Sending, TypeOK, Status, Results, shared, waiting, posting, history
<1>1. ASSUME NEW t \in Waiters, WaitCall(t) PROVE Tokens'
    BY <1>1 DEF WaitCall
<1>2. ASSUME NEW t \in Waiters, Snap(t) PROVE Tokens'
    BY <1>2 DEF Snap, WaiterAt, GoTo, WaitReturns
<1>3. ASSUME NEW t \in Waiters, TakeDone(t) PROVE Tokens'
    BY <1>3 DEF TakeDone, WaiterAt, GoTo, Consumed
<1>4. ASSUME NEW t \in Waiters, Enroll(t) PROVE Tokens'
    BY <1>4 DEF Enroll, WaiterAt, GoTo
<1>5. ASSUME NEW t \in Waiters, RegisterWait(t) PROVE Tokens'
    BY <1>5 DEF RegisterWait, WaiterAt, GoTo
<1>6. ASSUME NEW t \in Waiters, RegisterFailed(t) PROVE Tokens'
    BY <1>6 DEF RegisterFailed, WaiterAt, GoTo, Consumed, WaitReturns
<1>7. ASSUME NEW t \in Waiters, CommitWait(t) PROVE Tokens'
    BY <1>7 DEF CommitWait, WaiterAt, GoTo
<1>8. ASSUME NEW t \in Waiters, LateDone(t) PROVE Tokens'
    BY <1>8 DEF LateDone, WaiterAt, GoTo
<1>9. ASSUME NEW t \in Waiters, Odd(t) PROVE Tokens'
    BY <1>9 DEF Odd, WaiterAt, WaitReturns
<1>10. ASSUME NEW t \in Waiters, Wake(t) PROVE Tokens'
    BY <1>10 DEF Wake, WaiterAt, GoTo
<1>11. ASSUME NEW t \in Waiters, Expire(t) PROVE Tokens'
    BY <1>11 DEF Expire, WaiterAt, GoTo
<1>12. ASSUME NEW t \in Waiters, Woken(t) PROVE Tokens'
    BY <1>12 DEF Woken, WaiterAt, GoTo, WaitReturns
<1>13. ASSUME NEW t \in Waiters, Expired(t) PROVE Tokens'
    BY <1>13 DEF Expired, WaiterAt, GoTo
<1>14. ASSUME NEW t \in Waiters, Wipe(t) PROVE Tokens'
    BY <1>14 DEF Wipe, WaiterAt, GoTo, WaitReturns
<1>15. ASSUME NEW t \in Waiters, Drain(t) PROVE Tokens'
    BY <1>15 DEF Drain, WaiterAt, WaitReturns
<1>16. ASSUME NEW p \in Posters, DoneCall(p) PROVE Tokens'
    BY <1>16 DEF DoneCall, DoneReturns
<1>17. ASSUME NEW p \in Posters, DoneSwap(p) PROVE Tokens'
    BY <1>17 DEF DoneSwap, DoneReturns
<1>18. ASSUME NEW p \in Posters, Aim(p) PROVE Tokens'
    BY <1>18 DEF Aim, DoneReturns
<1>19. ASSUME NEW p \in Posters, Post(p) PROVE Tokens'
    BY <1>19 DEF Post, DoneReturns
<1>20. CASE DoneFromIsr
    BY <1>20 DEF DoneFromIsr
<1>21. CASE Reinit
    BY <1>21 DEF Reinit, Reset
<1>22. CASE UNCHANGED vars
    BY <1>22 DEF vars
<1>23. QED
    BY <1>1, <1>2, <1>3, <1>4, <1>5, <1>6, <1>7, <1>8, <1>9, <1>10, <1>11,
       <1>12, <1>13, <1>14, <1>15, <1>16, <1>17, <1>18, <1>19, <1>20, <1>21, <1>22
       DEF Next, WaiterStep, PosterStep

LEMMA OneShotStep ==
    ASSUME TypeOK, Solo, Agree, WokenByDone, OneShot, [Next]_vars
    PROVE  OneShot'
<1> USE CompletionAssumption DEF Solo, Agree, WokenByDone, OneShot, Orderly, TypeOK, Status, Results, shared, waiting, posting, history
<1>1. ASSUME NEW t \in Waiters, WaitCall(t) PROVE OneShot'
    BY <1>1 DEF WaitCall
<1>2. ASSUME NEW t \in Waiters, Snap(t) PROVE OneShot'
    BY <1>2 DEF Snap, WaiterAt, GoTo, WaitReturns
<1>3. ASSUME NEW t \in Waiters, TakeDone(t) PROVE OneShot'
    BY <1>3 DEF TakeDone, WaiterAt, GoTo, Consumed
<1>4. ASSUME NEW t \in Waiters, Enroll(t) PROVE OneShot'
    BY <1>4 DEF Enroll, WaiterAt, GoTo
<1>5. ASSUME NEW t \in Waiters, RegisterWait(t) PROVE OneShot'
    BY <1>5 DEF RegisterWait, WaiterAt, GoTo
<1>6. ASSUME NEW t \in Waiters, RegisterFailed(t) PROVE OneShot'
    BY <1>6 DEF RegisterFailed, WaiterAt, GoTo, Consumed, WaitReturns
<1>7. ASSUME NEW t \in Waiters, CommitWait(t) PROVE OneShot'
    BY <1>7 DEF CommitWait, WaiterAt, GoTo
<1>8. ASSUME NEW t \in Waiters, LateDone(t) PROVE OneShot'
    BY <1>8 DEF LateDone, WaiterAt, GoTo
<1>9. ASSUME NEW t \in Waiters, Odd(t) PROVE OneShot'
    BY <1>9 DEF Odd, WaiterAt, WaitReturns
<1>10. ASSUME NEW t \in Waiters, Wake(t) PROVE OneShot'
    BY <1>10 DEF Wake, WaiterAt, GoTo
<1>11. ASSUME NEW t \in Waiters, Expire(t) PROVE OneShot'
    BY <1>11 DEF Expire, WaiterAt, GoTo
<1>12. ASSUME NEW t \in Waiters, Woken(t) PROVE OneShot'
    BY <1>12 DEF Woken, WaiterAt, GoTo, WaitReturns
<1>13. ASSUME NEW t \in Waiters, Expired(t) PROVE OneShot'
    BY <1>13 DEF Expired, WaiterAt, GoTo
<1>14. ASSUME NEW t \in Waiters, Wipe(t) PROVE OneShot'
    BY <1>14 DEF Wipe, WaiterAt, GoTo, WaitReturns
<1>15. ASSUME NEW t \in Waiters, Drain(t) PROVE OneShot'
    BY <1>15 DEF Drain, WaiterAt, WaitReturns
<1>16. ASSUME NEW p \in Posters, DoneCall(p) PROVE OneShot'
    BY <1>16 DEF DoneCall, DoneReturns
<1>17. ASSUME NEW p \in Posters, DoneSwap(p) PROVE OneShot'
    BY <1>17 DEF DoneSwap, DoneReturns
<1>18. ASSUME NEW p \in Posters, Aim(p) PROVE OneShot'
    BY <1>18 DEF Aim, DoneReturns
<1>19. ASSUME NEW p \in Posters, Post(p) PROVE OneShot'
    BY <1>19 DEF Post, DoneReturns
<1>20. CASE DoneFromIsr
    BY <1>20 DEF DoneFromIsr
<1>21. CASE Reinit
    BY <1>21 DEF Reinit, Reset
<1>22. CASE UNCHANGED vars
    BY <1>22 DEF vars
<1>23. QED
    BY <1>1, <1>2, <1>3, <1>4, <1>5, <1>6, <1>7, <1>8, <1>9, <1>10, <1>11,
       <1>12, <1>13, <1>14, <1>15, <1>16, <1>17, <1>18, <1>19, <1>20, <1>21, <1>22
       DEF Next, WaiterStep, PosterStep

LEMMA ErrorsStep ==
    ASSUME TypeOK, Solo, Agree, InFlight, ErrorsNeedDisorder, [Next]_vars
    PROVE  ErrorsNeedDisorder'
<1> USE CompletionAssumption DEF Agree, InFlight, ErrorsNeedDisorder, Undisturbed, InDone, TypeOK, Status, Results, shared, waiting, posting, history
<1>1. ASSUME NEW t \in Waiters, WaitCall(t) PROVE ErrorsNeedDisorder'
    BY <1>1 DEF WaitCall
<1>2. ASSUME NEW t \in Waiters, Snap(t) PROVE ErrorsNeedDisorder'
    BY <1>2 DEF Snap, WaiterAt, GoTo, WaitReturns
<1>3. ASSUME NEW t \in Waiters, TakeDone(t) PROVE ErrorsNeedDisorder'
    BY <1>3 DEF TakeDone, WaiterAt, GoTo, Consumed
<1>4. ASSUME NEW t \in Waiters, Enroll(t) PROVE ErrorsNeedDisorder'
    BY <1>4 DEF Enroll, WaiterAt, GoTo
<1>5. ASSUME NEW t \in Waiters, RegisterWait(t) PROVE ErrorsNeedDisorder'
    BY <1>5 DEF RegisterWait, WaiterAt, GoTo
<1>6. ASSUME NEW t \in Waiters, RegisterFailed(t) PROVE ErrorsNeedDisorder'
    BY <1>6 DEF RegisterFailed, WaiterAt, GoTo, Consumed, WaitReturns
<1>7. ASSUME NEW t \in Waiters, CommitWait(t) PROVE ErrorsNeedDisorder'
    BY <1>7 DEF CommitWait, WaiterAt, GoTo
<1>8. ASSUME NEW t \in Waiters, LateDone(t) PROVE ErrorsNeedDisorder'
    BY <1>8 DEF LateDone, WaiterAt, GoTo
<1>9. ASSUME NEW t \in Waiters, Odd(t) PROVE ErrorsNeedDisorder'
    BY <1>9 DEF Odd, WaiterAt, WaitReturns
<1>10. ASSUME NEW t \in Waiters, Wake(t) PROVE ErrorsNeedDisorder'
    BY <1>10 DEF Wake, WaiterAt, GoTo
<1>11. ASSUME NEW t \in Waiters, Expire(t) PROVE ErrorsNeedDisorder'
    BY <1>11 DEF Expire, WaiterAt, GoTo
<1>12. ASSUME NEW t \in Waiters, Woken(t) PROVE ErrorsNeedDisorder'
    BY <1>12 DEF Woken, WaiterAt, GoTo, WaitReturns
<1>13. ASSUME NEW t \in Waiters, Expired(t) PROVE ErrorsNeedDisorder'
    BY <1>13 DEF Expired, WaiterAt, GoTo
<1>14. ASSUME NEW t \in Waiters, Wipe(t) PROVE ErrorsNeedDisorder'
    BY <1>14 DEF Wipe, WaiterAt, GoTo, WaitReturns
<1>15. ASSUME NEW t \in Waiters, Drain(t) PROVE ErrorsNeedDisorder'
    BY <1>15 DEF Drain, WaiterAt, WaitReturns
<1>16. ASSUME NEW p \in Posters, DoneCall(p) PROVE ErrorsNeedDisorder'
    BY <1>16 DEF DoneCall, DoneReturns
<1>17. ASSUME NEW p \in Posters, DoneSwap(p) PROVE ErrorsNeedDisorder'
    BY <1>17 DEF DoneSwap, DoneReturns
<1>18. ASSUME NEW p \in Posters, Aim(p) PROVE ErrorsNeedDisorder'
    BY <1>18 DEF Aim, DoneReturns
<1>19. ASSUME NEW p \in Posters, Post(p) PROVE ErrorsNeedDisorder'
    BY <1>19 DEF Post, DoneReturns
<1>20. CASE DoneFromIsr
    BY <1>20 DEF DoneFromIsr
<1>21. CASE Reinit
    BY <1>21 DEF Reinit, Reset
<1>22. CASE UNCHANGED vars
    BY <1>22 DEF vars
<1>23. QED
    BY <1>1, <1>2, <1>3, <1>4, <1>5, <1>6, <1>7, <1>8, <1>9, <1>10, <1>11,
       <1>12, <1>13, <1>14, <1>15, <1>16, <1>17, <1>18, <1>19, <1>20, <1>21, <1>22
       DEF Next, WaiterStep, PosterStep

\* The inductive invariant holds initially.
LEMMA InitInv == Init => IInv
<1> SUFFICES ASSUME Init PROVE IInv
    OBVIOUS
<1>1. TypeOK
  <2>1. waitThread \in Waiters \cup {None} /\ signal \subseteq Waiters \cup {Sem}
    BY DEF Init
  <2>2. calls \in 0..MaxDone /\ owed \in Int
    BY CompletionAssumption DEF Init, CompletionAssumption
  <2>. QED
    BY <2>1, <2>2 DEF Init, TypeOK, Status, Results
<1>5. Aimed
    BY DEF Init, Aimed
<1>2. Solo /\ Handle /\ Agree /\ WokenByDone
    BY DEF Init, Solo, Handle, Agree, WokenByDone, Registered
<1>3. NoLostWake /\ Overtakes /\ InFlight /\ Owing /\ Tokens /\ OneShot
    BY DEF Init, NoLostWake, Overtakes, InFlight, Owing, Tokens, OneShot
<1>4. ErrorsNeedDisorder
    BY DEF Init, ErrorsNeedDisorder
<1>. QED
    BY <1>1, <1>5, <1>2, <1>3, <1>4 DEF IInv

\* Each step of completion_wait, completion_done and of a quiescent reset keeps it.
LEMMA StepInv ==
    ASSUME IInv, [Next]_vars
    PROVE  IInv'
BY TypeStep, SoloStep, HandleStep, AgreeStep, NoLostWakeStep, WokenByDoneStep,
   OvertakesStep, InFlightStep, OwingStep, TokensStep, OneShotStep, ErrorsStep DEF IInv

(* The inductive invariant holds in every reachable state: each step of
   completion_wait, completion_done and of a quiescent reset keeps it. *)
THEOREM Invariance == Spec => []IInv
<1>1. Init => IInv
    BY InitInv
<1>2. IInv /\ [Next]_vars => IInv'
    BY StepInv
<1>. QED
    BY <1>1, <1>2, PTL DEF Spec

(* Every variable keeps its type; the poster never notifies a NULL task, which
   needs Aimed: the check of waitThread in completion_accel_done_one_shot. *)
THEOREM TypeCorrect == Spec => []TypeOK
<1>1. IInv => TypeOK
    BY DEF IInv
<1>. QED
    BY Invariance, <1>1, PTL

(* One done, one wake-up: completion_done succeeded once more than
   completion_wait exactly when status is DONE.  Excluded are waits that overlap
   and what follows a wait that took a done before its signal was sent; timeouts,
   lost exchanges and preempted done calls are not. *)
THEOREM OneShotHolds == Spec => []OneShot
<1>1. IInv => OneShot
    BY DEF IInv
<1>. QED
    BY Invariance, <1>1, PTL

(* A waiter asleep on a DONE completion has its signal, or the done call that
   owes it one has not finished, however often done calls are overtaken. *)
THEOREM NoLostWakeHolds == Spec => []NoLostWake
<1>1. IInv => NoLostWake
    BY DEF IInv
<1>. QED
    BY Invariance, <1>1, PTL

(* A signal sent before its done is taken is drained by the wait that takes it,
   for any number of callers, preempted anywhere.  That the signal is sent
   before is the hypothesis: completion_done does not see to it (the thread may
   be preempted between lines 190 and 195 of completion.c). *)
THEOREM NoStaleSignalHolds == Spec => []NoStaleSignal
<1>1. IInv => NoStaleSignal
    BY DEF IInv, Tokens, NoStaleSignal, Registered
<1>. QED
    BY Invariance, <1>1, PTL

(* completion_wait returns OM_ERROR only if waits overlapped, completion_done only
   if a waiter ran between its two exchanges. *)
THEOREM ErrorsNeedDisorderHolds == Spec => []ErrorsNeedDisorder
<1>1. IInv => ErrorsNeedDisorder
    BY DEF IInv
<1>. QED
    BY Invariance, <1>1, PTL

-----------------------------------------------------------------------------
\* A call that has not returned has no result yet, and only a finite timeout
\* expires.
InCall ==
    /\ \A t \in Waiters :
         /\ wpc[t] # "out" => wret[t] = "none"
         /\ wpc[t] = "expired" => tmo[t] = "finite"
    /\ \A p \in Posters : dpc[p] # "out" => dret[p] = "none"

LEMMA InCallStep ==
    ASSUME TypeOK, InCall, [Next]_vars
    PROVE  InCall'
<1> USE DEF InCall, TypeOK, Status, Results, shared, waiting, posting, history
<1>1. ASSUME NEW t \in Waiters, WaitCall(t) PROVE InCall'
    BY <1>1 DEF WaitCall
<1>2. ASSUME NEW t \in Waiters, Snap(t) PROVE InCall'
    BY <1>2 DEF Snap, WaiterAt, GoTo, WaitReturns
<1>3. ASSUME NEW t \in Waiters, TakeDone(t) PROVE InCall'
    BY <1>3 DEF TakeDone, WaiterAt, GoTo, Consumed
<1>4. ASSUME NEW t \in Waiters, Enroll(t) PROVE InCall'
    BY <1>4 DEF Enroll, WaiterAt, GoTo
<1>5. ASSUME NEW t \in Waiters, RegisterWait(t) PROVE InCall'
    BY <1>5 DEF RegisterWait, WaiterAt, GoTo
<1>6. ASSUME NEW t \in Waiters, RegisterFailed(t) PROVE InCall'
    BY <1>6 DEF RegisterFailed, WaiterAt, GoTo, Consumed, WaitReturns
<1>7. ASSUME NEW t \in Waiters, CommitWait(t) PROVE InCall'
    BY <1>7 DEF CommitWait, WaiterAt, GoTo
<1>8. ASSUME NEW t \in Waiters, LateDone(t) PROVE InCall'
    BY <1>8 DEF LateDone, WaiterAt, GoTo
<1>9. ASSUME NEW t \in Waiters, Odd(t) PROVE InCall'
    BY <1>9 DEF Odd, WaiterAt, WaitReturns
<1>10. ASSUME NEW t \in Waiters, Wake(t) PROVE InCall'
    BY <1>10 DEF Wake, WaiterAt, GoTo
<1>11. ASSUME NEW t \in Waiters, Expire(t) PROVE InCall'
    BY <1>11 DEF Expire, WaiterAt, GoTo
<1>12. ASSUME NEW t \in Waiters, Woken(t) PROVE InCall'
    BY <1>12 DEF Woken, WaiterAt, GoTo, WaitReturns
<1>13. ASSUME NEW t \in Waiters, Expired(t) PROVE InCall'
    BY <1>13 DEF Expired, WaiterAt, GoTo
<1>14. ASSUME NEW t \in Waiters, Wipe(t) PROVE InCall'
    BY <1>14 DEF Wipe, WaiterAt, GoTo, WaitReturns
<1>15. ASSUME NEW t \in Waiters, Drain(t) PROVE InCall'
    BY <1>15 DEF Drain, WaiterAt, WaitReturns
<1>16. ASSUME NEW p \in Posters, DoneCall(p) PROVE InCall'
    BY <1>16 DEF DoneCall, DoneReturns
<1>17. ASSUME NEW p \in Posters, DoneSwap(p) PROVE InCall'
    BY <1>17 DEF DoneSwap, DoneReturns
<1>18. ASSUME NEW p \in Posters, Aim(p) PROVE InCall'
    BY <1>18 DEF Aim, DoneReturns
<1>19. ASSUME NEW p \in Posters, Post(p) PROVE InCall'
    BY <1>19 DEF Post, DoneReturns
<1>20. CASE DoneFromIsr
    BY <1>20 DEF DoneFromIsr
<1>21. CASE Reinit
    BY <1>21 DEF Reinit, Reset
<1>22. CASE UNCHANGED vars
    BY <1>22 DEF vars
<1>23. QED
    BY <1>1, <1>2, <1>3, <1>4, <1>5, <1>6, <1>7, <1>8, <1>9, <1>10, <1>11,
       <1>12, <1>13, <1>14, <1>15, <1>16, <1>17, <1>18, <1>19, <1>20, <1>21, <1>22
       DEF Next, WaiterStep, PosterStep

\* Nobody but the waiter t, or the poster p, moves.
OnlyWaiter(t) ==
    /\ UNCHANGED posting
    /\ \A u \in Waiters \ {t} :
         wpc'[u] = wpc[u] /\ tmo'[u] = tmo[u] /\ wret'[u] = wret[u]
OnlyPoster(p) ==
    /\ UNCHANGED waiting
    /\ \A q \in Posters \ {p} : dpc'[q] = dpc[q] /\ dret'[q] = dret[q]

LEMMA OneMoves ==
    ASSUME TypeOK
    PROVE  /\ \A t \in Waiters : WaitCall(t) \/ WaiterStep(t) => OnlyWaiter(t)
           /\ \A p \in Posters : DoneCall(p) \/ PosterStep(p) => OnlyPoster(p)
<1> USE DEF TypeOK, OnlyWaiter, OnlyPoster, waiting, posting
<1>1. ASSUME NEW t \in Waiters, WaitCall(t) PROVE OnlyWaiter(t)
    BY <1>1 DEF WaitCall
<1>2. ASSUME NEW t \in Waiters, WaiterStep(t) PROVE OnlyWaiter(t)
  <2>1. /\ UNCHANGED posting
        /\ \/ \E at : GoTo(t, at)
           \/ \E r : WaitReturns(t, r)
    BY <1>2 DEF WaiterStep, Snap, TakeDone, Enroll, RegisterWait, RegisterFailed, CommitWait,
       LateDone, Odd, Wake, Expire, Woken, Expired, Wipe, Drain, WaiterAt, Consumed
  <2>2. ASSUME NEW at, GoTo(t, at) PROVE OnlyWaiter(t)
    BY <2>1, <2>2 DEF GoTo
  <2>3. ASSUME NEW r, WaitReturns(t, r) PROVE OnlyWaiter(t)
    BY <2>1, <2>3 DEF WaitReturns
  <2>. QED
    BY <2>1, <2>2, <2>3
<1>3. ASSUME NEW p \in Posters, DoneCall(p) PROVE OnlyPoster(p)
    BY <1>3 DEF DoneCall, DoneReturns
<1>4. ASSUME NEW p \in Posters, PosterStep(p) PROVE OnlyPoster(p)
    BY <1>4 DEF PosterStep, DoneSwap, Aim, Post, DoneReturns
<1>. QED
    BY <1>1, <1>2, <1>3, <1>4

\* A step of completion_wait moves one waiter of the event, or nothing.
LEMMA WaiterMaps ==
    ASSUME TypeOK, TypeOK', NEW t \in Waiters, OnlyWaiter(t)
    PROVE  /\ Promise!WaiterMoves(t, WaitPlace(t)', wret'[t])
           /\ WaitPlace(t)' = WaitPlace(t) /\ wret'[t] = wret[t]
                /\ (status = "DONE" <=> status' = "DONE")
                => UNCHANGED Promise!evars
<1> USE DEF OnlyWaiter
<1>1. \A u \in Waiters \ {t} : WaitPlace(u)' = WaitPlace(u)
    BY DEF WaitPlace
<1>2. [u \in Waiters |-> WaitPlace(u)]'
        = [[u \in Waiters |-> WaitPlace(u)] EXCEPT ![t] = WaitPlace(t)']
    BY <1>1
<1>3. wret' = [wret EXCEPT ![t] = wret'[t]]
    BY DEF TypeOK
<1>4. UNCHANGED [p \in Posters |-> DonePlace(p)] /\ UNCHANGED dret
    BY DEF DonePlace, posting
<1>5. ASSUME WaitPlace(t)' = WaitPlace(t), wret'[t] = wret[t], status = "DONE" <=> status' = "DONE"
      PROVE  UNCHANGED Promise!evars
  <2>1. UNCHANGED [u \in Waiters |-> WaitPlace(u)]
    BY <1>1, <1>5
  <2>2. UNCHANGED wret
    BY <1>3, <1>5 DEF TypeOK
  <2>3. UNCHANGED (status = "DONE")
    BY <1>5
  <2>. QED
    BY <2>1, <2>2, <2>3, <1>4 DEF Promise!evars
<1>. QED
    BY <1>2, <1>3, <1>4, <1>5 DEF Promise!WaiterMoves

\* A step of completion_done moves one poster of the event, or nothing.
LEMMA PosterMaps ==
    ASSUME TypeOK, TypeOK', NEW p \in Posters, OnlyPoster(p)
    PROVE  /\ Promise!PosterMoves(p, DonePlace(p)', dret'[p])
           /\ DonePlace(p)' = DonePlace(p) /\ dret'[p] = dret[p]
                /\ (status = "DONE" <=> status' = "DONE")
                => UNCHANGED Promise!evars
<1> USE DEF OnlyPoster
<1>1. \A q \in Posters \ {p} : DonePlace(q)' = DonePlace(q)
    BY DEF DonePlace
<1>2. [q \in Posters |-> DonePlace(q)]'
        = [[q \in Posters |-> DonePlace(q)] EXCEPT ![p] = DonePlace(p)']
    BY <1>1
<1>3. dret' = [dret EXCEPT ![p] = dret'[p]]
    BY DEF TypeOK
<1>4. UNCHANGED [t \in Waiters |-> WaitPlace(t)] /\ UNCHANGED wret
    BY DEF WaitPlace, waiting
<1>5. ASSUME DonePlace(p)' = DonePlace(p), dret'[p] = dret[p], status = "DONE" <=> status' = "DONE"
      PROVE  UNCHANGED Promise!evars
  <2>1. UNCHANGED [q \in Posters |-> DonePlace(q)]
    BY <1>1, <1>5
  <2>2. UNCHANGED dret
    BY <1>3, <1>5 DEF TypeOK
  <2>3. UNCHANGED (status = "DONE")
    BY <1>5
  <2>. QED
    BY <2>1, <2>2, <2>3, <1>4 DEF Promise!evars
<1>. QED
    BY <1>2, <1>3, <1>4, <1>5 DEF Promise!PosterMoves

(* Each step of the completion is a step of the event, or changes nothing
   that the event shows.  A wait takes the event with the exchange or store
   that replaces DONE by INIT, gives up with the exchange of WAITING for INIT
   (or at once, with a zero timeout), and a done call gives the event with the
   exchange that stores DONE. *)
LEMMA EventStep ==
    ASSUME IInv, IInv', InCall, Orderly', [Next]_vars
    PROVE  Promise!Next \/ UNCHANGED Promise!evars
<1> DEFINE Goal == Promise!Next \/ UNCHANGED Promise!evars
<1>a. TypeOK /\ TypeOK' /\ ~crowded' /\ ~unsent'
    BY DEF IInv, Orderly
<1>b. ~crowded /\ ~unsent
  <2> USE DEF history
  <2>1. ASSUME NEW t \in Waiters, WaitCall(t) \/ WaiterStep(t)
        PROVE  (crowded => crowded') /\ (unsent => unsent')
    <3>1. WaiterStep(t) => \E at : WaiterAt(t, at)
      BY DEF WaiterStep, Snap, TakeDone, Enroll, RegisterWait, RegisterFailed,
         CommitWait, LateDone, Odd, Wake, Expire, Woken, Expired, Wipe, Drain
    <3>2. CASE WaiterStep(t)
      <4>1. PICK at : WaiterAt(t, at)
        BY <3>1, <3>2
      <4>2. UNCHANGED crowded
        BY <4>1 DEF WaiterAt
      <4>3. unsent => unsent'
        BY <4>1 DEF WaiterAt
      <4>. QED
        BY <4>2, <4>3
    <3>3. CASE WaitCall(t)
      BY <3>3 DEF WaitCall
    <3>. QED
      BY <2>1, <3>2, <3>3
  <2>2. ASSUME NEW p \in Posters, DoneCall(p) \/ PosterStep(p)
        PROVE  UNCHANGED <<crowded, unsent>>
    BY <2>2 DEF DoneCall, PosterStep, DoneSwap, Aim, Post
  <2>3. CASE DoneFromIsr \/ Reinit \/ UNCHANGED vars
    BY <1>a, <2>3 DEF DoneFromIsr, Reinit, Reset, vars
  <2>. QED
    BY <1>a, <2>1, <2>2, <2>3 DEF Next
<1>c. /\ \A t, u \in Waiters : wpc[t] # "out" /\ wpc[u] # "out" => t = u
      /\ status = "WAIT" => \E t \in Waiters : wpc[t] = "casWaiting"
      /\ status = "WAITING" => \E t \in Waiters : wpc[t] \in {"sleep", "expired", "woken"}
    BY <1>b DEF IInv, Solo, Agree
<1>d. \A t \in Waiters :
         /\ wpc[t] \in {"take", "undoDone", "lateDone", "lateTimeout", "woken"} => status = "DONE"
         /\ wpc[t] = "casWaiting" => status \in {"WAIT", "DONE"}
         /\ wpc[t] \in {"sleep", "expired"} => status \in {"WAITING", "DONE"}
         /\ wpc[t] \notin {"resnap", "undoBusy", "odd"}
    BY <1>b DEF IInv, Agree, WokenByDone, Orderly
<1>e. ASSUME NEW t \in Waiters, WaitCall(t) \/ WaiterStep(t)
      PROVE  /\ Promise!WaiterMoves(t, WaitPlace(t)', wret'[t])
             /\ WaitPlace(t)' = WaitPlace(t) /\ wret'[t] = wret[t]
                  /\ (status = "DONE" <=> status' = "DONE")
                  => UNCHANGED Promise!evars
    BY <1>a, <1>e, OneMoves, WaiterMaps
<1>f. ASSUME NEW p \in Posters, DoneCall(p) \/ PosterStep(p)
      PROVE  /\ Promise!PosterMoves(p, DonePlace(p)', dret'[p])
             /\ DonePlace(p)' = DonePlace(p) /\ dret'[p] = dret[p]
                  /\ (status = "DONE" <=> status' = "DONE")
                  => UNCHANGED Promise!evars
    BY <1>a, <1>f, OneMoves, PosterMaps
<1>1. ASSUME NEW t \in Waiters, WaitCall(t) PROVE Goal
  <2>1. wret'[t] = "none" /\ WaitPlace(t) = "out" /\ WaitPlace(t)' \in {"timed", "forever"}
    BY <1>a, <1>1 DEF WaitCall, TypeOK, WaitPlace
  <2>2. UNCHANGED status
    BY <1>1 DEF WaitCall, shared
  <2>. QED
    BY <1>e, <1>1, <2>1, <2>2 DEF Promise!Next, Promise!Ask
<1>2. ASSUME NEW t \in Waiters, Snap(t) PROVE Goal
  <2>1. wpc[t] = "snap" /\ UNCHANGED status
    BY <1>d, <1>2 DEF Snap, WaiterAt, shared
  <2>2. status \in {"INIT", "DONE"}
    BY <1>a, <1>c, <2>1 DEF TypeOK, Status
  <2>3. CASE status = "INIT" /\ tmo[t] = "zero"
    <3>1. WaitPlace(t) = "timed" /\ WaitPlace(t)' = "out" /\ wret'[t] = "TIMEOUT"
      BY <1>a, <1>2, <2>1, <2>3 DEF Snap, WaiterAt, GoTo, WaitReturns, TypeOK, WaitPlace
    <3>. QED
      BY <1>e, <1>2, <2>1, <2>3, <3>1 DEF WaiterStep, Promise!Next, Promise!GiveUp
  <2>4. CASE ~(status = "INIT" /\ tmo[t] = "zero")
    <3>1. WaitPlace(t)' = WaitPlace(t) /\ wret'[t] = wret[t]
      BY <1>a, <1>2, <2>1, <2>2, <2>4 DEF Snap, WaiterAt, GoTo, TypeOK, WaitPlace
    <3>. QED
      BY <1>e, <1>2, <2>1, <3>1 DEF WaiterStep
  <2>. QED
    BY <2>3, <2>4
<1>3. ASSUME NEW t \in Waiters, TakeDone(t) PROVE Goal
  <2>1. WaitPlace(t) \in {"timed", "forever"} /\ WaitPlace(t)' = "took" /\ wret'[t] = "none"
    BY <1>a, <1>d, <1>3 DEF TakeDone, WaiterAt, GoTo, Consumed, shared, TypeOK, WaitPlace, InCall
  <2>2. status = "DONE" /\ status' = "INIT"
    BY <1>d, <1>3 DEF TakeDone, WaiterAt, GoTo, Consumed
  <2>. QED
    BY <1>e, <1>3, <2>1, <2>2 DEF WaiterStep, Promise!Next, Promise!Take
<1>4. ASSUME NEW t \in Waiters, Enroll(t) PROVE Goal
  <2>1. /\ WaitPlace(t)' = WaitPlace(t) /\ wret'[t] = wret[t]
        /\ status = "DONE" <=> status' = "DONE"
    BY <1>a, <1>d, <1>4 DEF Enroll, WaiterAt, GoTo, shared, TypeOK, WaitPlace
  <2>. QED
    BY <1>e, <1>4, <2>1 DEF WaiterStep
<1>5. ASSUME NEW t \in Waiters, RegisterWait(t) PROVE Goal
  <2>1. /\ WaitPlace(t)' = WaitPlace(t) /\ wret'[t] = wret[t]
        /\ status = "DONE" <=> status' = "DONE"
    BY <1>a, <1>d, <1>5 DEF RegisterWait, WaiterAt, GoTo, shared, TypeOK, WaitPlace
  <2>. QED
    BY <1>e, <1>5, <2>1 DEF WaiterStep
<1>6. ASSUME NEW t \in Waiters, RegisterFailed(t) PROVE Goal
  <2>1. WaitPlace(t) \in {"timed", "forever"} /\ WaitPlace(t)' = "took" /\ wret'[t] = "none"
    BY <1>a, <1>d, <1>6 DEF RegisterFailed, WaiterAt, GoTo, Consumed, shared, TypeOK, WaitPlace, InCall
  <2>2. status = "DONE" /\ status' = "INIT"
    BY <1>d, <1>6 DEF RegisterFailed, WaiterAt, GoTo, Consumed
  <2>. QED
    BY <1>e, <1>6, <2>1, <2>2 DEF WaiterStep, Promise!Next, Promise!Take
<1>7. ASSUME NEW t \in Waiters, CommitWait(t) PROVE Goal
  <2>1. /\ WaitPlace(t)' = WaitPlace(t) /\ wret'[t] = wret[t]
        /\ status = "DONE" <=> status' = "DONE"
    BY <1>a, <1>d, <1>7 DEF CommitWait, WaiterAt, GoTo, shared, TypeOK, WaitPlace
  <2>. QED
    BY <1>e, <1>7, <2>1 DEF WaiterStep
<1>8. ASSUME NEW t \in Waiters, LateDone(t) PROVE Goal
  <2>1. WaitPlace(t) \in {"timed", "forever"} /\ WaitPlace(t)' = "took" /\ wret'[t] = "none"
    BY <1>a, <1>d, <1>8 DEF LateDone, WaiterAt, GoTo, shared, TypeOK, WaitPlace, InCall
  <2>2. status = "DONE" /\ status' = "INIT"
    BY <1>d, <1>8 DEF LateDone, WaiterAt, GoTo
  <2>. QED
    BY <1>e, <1>8, <2>1, <2>2 DEF WaiterStep, Promise!Next, Promise!Take
<1>9. ASSUME NEW t \in Waiters, Odd(t) PROVE Goal
    BY <1>d, <1>9 DEF Odd, WaiterAt
<1>10. ASSUME NEW t \in Waiters, Wake(t) PROVE Goal
  <2>1. /\ WaitPlace(t)' = WaitPlace(t) /\ wret'[t] = wret[t]
        /\ status = "DONE" <=> status' = "DONE"
    BY <1>a, <1>d, <1>10 DEF Wake, WaiterAt, GoTo, shared, TypeOK, WaitPlace
  <2>. QED
    BY <1>e, <1>10, <2>1 DEF WaiterStep
<1>11. ASSUME NEW t \in Waiters, Expire(t) PROVE Goal
  <2>1. /\ WaitPlace(t)' = WaitPlace(t) /\ wret'[t] = wret[t]
        /\ status = "DONE" <=> status' = "DONE"
    BY <1>a, <1>d, <1>11 DEF Expire, WaiterAt, GoTo, shared, TypeOK, WaitPlace
  <2>. QED
    BY <1>e, <1>11, <2>1 DEF WaiterStep
<1>12. ASSUME NEW t \in Waiters, Woken(t) PROVE Goal
  <2>1. /\ WaitPlace(t) \in {"timed", "forever"}
        /\ \/ WaitPlace(t)' = "took" /\ wret'[t] = "none"
           \/ WaitPlace(t)' = "out" /\ wret'[t] = "OK"
    BY <1>a, <1>d, <1>12 DEF Woken, WaiterAt, GoTo, WaitReturns, shared, TypeOK, WaitPlace, InCall
  <2>2. status = "DONE" /\ status' = "INIT"
    BY <1>d, <1>12 DEF Woken, WaiterAt, GoTo, WaitReturns
  <2>. QED
    BY <1>e, <1>12, <2>1, <2>2 DEF WaiterStep, Promise!Next, Promise!Take
<1>13. ASSUME NEW t \in Waiters, Expired(t) PROVE Goal
  <2>1. CASE status = "WAITING"
    <3>1. WaitPlace(t) = "timed" /\ WaitPlace(t)' = "late" /\ wret'[t] = "none"
      BY <1>a, <1>13, <2>1 DEF Expired, WaiterAt, GoTo, TypeOK, WaitPlace, InCall
    <3>2. status' = "INIT"
      BY <1>13, <2>1 DEF Expired
    <3>. QED
      BY <1>e, <1>13, <2>1, <3>1, <3>2 DEF WaiterStep, Promise!Next, Promise!GiveUp
  <2>2. CASE status = "DONE"
    <3>1. WaitPlace(t)' = WaitPlace(t) /\ wret'[t] = wret[t] /\ UNCHANGED status
      BY <1>a, <1>13, <2>2 DEF Expired, WaiterAt, GoTo, TypeOK, WaitPlace
    <3>. QED
      BY <1>e, <1>13, <3>1 DEF WaiterStep
  <2>. QED
    BY <1>d, <1>13, <2>1, <2>2 DEF Expired, WaiterAt
<1>14. ASSUME NEW t \in Waiters, Wipe(t) PROVE Goal
  <2>1. UNCHANGED status
    BY <1>14 DEF Wipe
  <2>2. \/ WaitPlace(t)' = WaitPlace(t) /\ wret'[t] = wret[t]
        \/ WaitPlace(t) = "late" /\ WaitPlace(t)' = "out" /\ wret'[t] = "TIMEOUT"
    BY <1>a, <1>14 DEF Wipe, WaiterAt, GoTo, WaitReturns, TypeOK, WaitPlace
  <2>. QED
    BY <1>e, <1>14, <2>1, <2>2 DEF WaiterStep, Promise!Next, Promise!Return
<1>15. ASSUME NEW t \in Waiters, Drain(t) PROVE Goal
  <2>1. UNCHANGED status
    BY <1>15 DEF Drain
  <2>2. WaitPlace(t) = "took" /\ WaitPlace(t)' = "out" /\ wret'[t] = "OK"
    BY <1>a, <1>15 DEF Drain, WaiterAt, WaitReturns, TypeOK, WaitPlace
  <2>. QED
    BY <1>e, <1>15, <2>1, <2>2 DEF WaiterStep, Promise!Next, Promise!Return
<1>16. ASSUME NEW p \in Posters, DoneCall(p) PROVE Goal
  <2>1. \/ /\ status = "INIT" /\ status' = "DONE"
           /\ DonePlace(p) = "out" /\ DonePlace(p)' = "out" /\ dret'[p] = "OK"
        \/ /\ status = "DONE" /\ UNCHANGED status
           /\ DonePlace(p) = "out" /\ DonePlace(p)' = "out" /\ dret'[p] = "BUSY"
        \/ /\ UNCHANGED status
           /\ DonePlace(p) = "out" /\ DonePlace(p)' = "in" /\ dret'[p] = "none"
    BY <1>a, <1>16 DEF DoneCall, DoneReturns, TypeOK, DonePlace
  <2>. QED
    BY <1>f, <1>16, <2>1 DEF Promise!Next, Promise!Begin, Promise!Give, Promise!Refuse
<1>17. ASSUME NEW p \in Posters, DoneSwap(p) PROVE Goal
  <2>1. \/ /\ status # "DONE" /\ status' = "DONE"
           /\ DonePlace(p) = "in" /\ DonePlace(p)' = "gave" /\ dret'[p] = "none"
        \/ /\ status = "DONE" /\ UNCHANGED status
           /\ DonePlace(p) = "in" /\ DonePlace(p)' = "out" /\ dret'[p] = "BUSY"
        \/ /\ status # "DONE" /\ UNCHANGED status
           /\ DonePlace(p) = "in" /\ DonePlace(p)' = "out" /\ dret'[p] = "ERROR"
    BY <1>a, <1>17 DEF DoneSwap, DoneReturns, TypeOK, DonePlace, InCall
  <2>. QED
    BY <1>f, <1>17, <2>1 DEF PosterStep, Promise!Next, Promise!Give, Promise!Refuse, Promise!Fail
<1>18. ASSUME NEW p \in Posters, Aim(p) PROVE Goal
  <2>1. UNCHANGED status
    BY <1>18 DEF Aim, shared
  <2>2. \/ DonePlace(p)' = DonePlace(p) /\ dret'[p] = dret[p]
        \/ DonePlace(p) = "gave" /\ DonePlace(p)' = "out" /\ dret'[p] = "OK"
    BY <1>a, <1>18 DEF Aim, DoneReturns, TypeOK, DonePlace
  <2>. QED
    BY <1>f, <1>18, <2>1, <2>2 DEF PosterStep, Promise!Next, Promise!Confirm
<1>19. ASSUME NEW p \in Posters, Post(p) PROVE Goal
  <2>1. UNCHANGED status
    BY <1>19 DEF Post
  <2>2. DonePlace(p) = "gave" /\ DonePlace(p)' = "out" /\ dret'[p] = "OK"
    BY <1>a, <1>19 DEF Post, DoneReturns, TypeOK, DonePlace
  <2>. QED
    BY <1>f, <1>19, <2>1, <2>2 DEF PosterStep, Promise!Next, Promise!Confirm
<1>20. CASE DoneFromIsr
  <2>1. status # "DONE" /\ status' = "DONE" /\ UNCHANGED waiting /\ UNCHANGED posting
    BY <1>20 DEF DoneFromIsr
  <2>2. /\ UNCHANGED [t \in Waiters |-> WaitPlace(t)] /\ UNCHANGED wret
        /\ UNCHANGED [p \in Posters |-> DonePlace(p)] /\ UNCHANGED dret
    BY <2>1 DEF waiting, posting, WaitPlace, DonePlace
  <2>. QED
    BY <2>1, <2>2 DEF Promise!Next, Promise!GiveFromIsr
<1>21. CASE Reinit
  <2>1. status' = "INIT" /\ UNCHANGED waiting /\ UNCHANGED posting
    BY <1>21 DEF Reinit, Reset
  <2>2. /\ UNCHANGED [t \in Waiters |-> WaitPlace(t)] /\ UNCHANGED wret
        /\ UNCHANGED [p \in Posters |-> DonePlace(p)] /\ UNCHANGED dret
    BY <2>1 DEF waiting, posting, WaitPlace, DonePlace
  <2>3. /\ \A t \in Waiters : WaitPlace(t) = "out"
        /\ \A p \in Posters : DonePlace(p) = "out"
    BY <1>21 DEF Reinit, InDone, WaitPlace, DonePlace
  <2>. QED
    BY <2>1, <2>2, <2>3 DEF Promise!Next, Promise!Forget
<1>22. CASE UNCHANGED vars
  <2>1. UNCHANGED status /\ UNCHANGED waiting /\ UNCHANGED posting
    BY <1>22 DEF vars, shared
  <2>2. /\ UNCHANGED [t \in Waiters |-> WaitPlace(t)] /\ UNCHANGED wret
        /\ UNCHANGED [p \in Posters |-> DonePlace(p)] /\ UNCHANGED dret
    BY <2>1 DEF waiting, posting, WaitPlace, DonePlace
  <2>. QED
    BY <2>1, <2>2 DEF Promise!evars
<1>23. QED
    BY <1>1, <1>2, <1>3, <1>4, <1>5, <1>6, <1>7, <1>8, <1>9, <1>10, <1>11,
       <1>12, <1>13, <1>14, <1>15, <1>16, <1>17, <1>18, <1>19, <1>20, <1>21, <1>22
       DEF Next, WaiterStep, PosterStep

(* The completion implements the one-shot event for every number of waiters
   and posters, on both backends, wherever the callers are preempted: until a
   wait takes a done before its signal is sent, or two waits overlap, each call
   takes effect at one instant. *)
THEOREM EventImplemented == Spec => ImplementsEvent
<1>1. Init => Promise!Init /\ InCall
  <2>1. Init => /\ [t \in Waiters |-> WaitPlace(t)] = [t \in Waiters |-> "out"]
                /\ [p \in Posters |-> DonePlace(p)] = [p \in Posters |-> "out"]
    BY DEF Init, WaitPlace, DonePlace
  <2>. QED
    BY <2>1 DEF Init, InCall, Promise!Init
<1>2. IInv /\ InCall /\ [Next]_vars => InCall'
    BY InCallStep DEF IInv
<1>3. IInv /\ IInv' /\ InCall /\ [Next]_vars => [~Orderly' \/ Promise!Next]_(Promise!evars)
    BY EventStep
<1>. QED
    BY Invariance, <1>1, <1>2, <1>3, PTL DEF Spec, ImplementsEvent

=============================================================================
