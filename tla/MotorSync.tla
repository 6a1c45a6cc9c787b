----------------------------- MODULE MotorSync -----------------------------
(***************************************************************************)
(* The synchronous transaction of a P1010B motor driver, in                *)
(* lib/drivers/src/motor/vendors/direct_drive/P1010B.c: a caller registers *)
(* the reply it expects, sends a CAN frame and waits on a completion       *)
(* (module Completion); the receive interrupt matches replies and reports  *)
(* the end; a timed-out attempt is cancelled and made again.               *)
(*                                                                         *)
(* The registration is read and written with interrupts locked: each such  *)
(* section is one step.  Replies may be late or come twice, and a reply    *)
(* does not say which of two requests of the same command it answers.      *)
(***************************************************************************)
EXTENDS Integers, FiniteSets, EventVars

CONSTANTS Callers, Commands, NoCommand,
          MaxRetry,             \* config.maxRetryCount
          MtBackends, MtSem, NoCaller, MaxReplies   \* of Completion

\* What the constants must satisfy.
ASSUME MotorSyncAssumption ==
    /\ NoCommand \notin Commands /\ MaxRetry \in Nat
    /\ MtBackends \subseteq {"sem", "notify"}
    /\ MtSem \notin Callers /\ NoCaller \notin Callers /\ MtSem # NoCaller
    /\ MaxReplies \in Nat

VARIABLES
    pending,            \* sync.pendingCommand while sync.pending, or NoCommand
    resultOK, response, \* sync.result is OM_OK; the command of sync.response
    mpc, command, attempt,  \* callers: place, request, attempts made before
    \* history
    sent,               \* commands that were sent: replies to them may come
    mixed               \* a caller took the done, or the registration, of another,
                        \* or left a done to one that had looked for old ones

registration == <<pending, resultOK, response>>
mtVars == <<registration, mpc, command, attempt, eventVars, sent, mixed>>

\* sync.completion
Event == INSTANCE Completion WITH
            Waiters <- Callers, Posters <- {}, Backends <- MtBackends, Sem <- MtSem,
            None <- NoCaller, MaxDone <- MaxReplies

MotorTypeOK ==
    /\ pending \in Commands \cup {NoCommand} /\ resultOK \in BOOLEAN
    /\ response \in Commands \cup {NoCommand}
    /\ mpc \in [Callers -> {"out", "clear", "clearing", "register", "send", "wait",
                            "waiting", "fetch", "cancel", "drain", "draining", "next"}]
    /\ command \in [Callers -> Commands \cup {NoCommand}]
    /\ attempt \in [Callers -> 0..MaxRetry]
    /\ sent \subseteq Commands /\ mixed \in BOOLEAN
    /\ Event!TypeOK

OwnInit ==
    /\ pending = NoCommand /\ resultOK = FALSE /\ response = NoCommand
    /\ mpc = [c \in Callers |-> "out"]
    /\ command = [c \in Callers |-> NoCommand] /\ attempt = [c \in Callers |-> 0]
    /\ sent = {} /\ mixed = FALSE

MotorInit == OwnInit /\ Event!Init

CallerGoes(c, at) == mpc' = [mpc EXCEPT ![c] = at]
Call == UNCHANGED <<command, attempt>>

\* From its registration on, an attempt owns the next done.
Owns(c) == mpc[c] \in {"send", "wait", "waiting", "fetch", "cancel", "drain", "draining"}
Meets(c) == \E d \in Callers \ {c} : Owns(d)

Returns(c) ==
    /\ CallerGoes(c, "out")
    /\ command' = [command EXCEPT ![c] = NoCommand]
    /\ attempt' = [attempt EXCEPT ![c] = 0]

-----------------------------------------------------------------------------
(* p1010b_internal_send_sync_transaction *)

Request(c, k) ==
    /\ mpc[c] = "out" /\ CallerGoes(c, "clear")
    /\ command' = [command EXCEPT ![c] = k]
    /\ UNCHANGED <<attempt, registration, eventVars, sent, mixed>>

\* completion_wait of caller c, with a timeout of the kind d
Wait(c, d) == Event!WaitCall(c) /\ tmo'[c] = d

\* Old dones are taken, before the registration and after a timeout.
Empty(c) ==
    /\ mpc[c] \in {"clear", "drain"}
    /\ CallerGoes(c, IF mpc[c] = "clear" THEN "clearing" ELSE "draining")
    /\ Wait(c, "zero")
    /\ Call /\ UNCHANGED <<registration, sent, mixed>>

Emptied(c) ==
    /\ mpc[c] \in {"clearing", "draining"} /\ wpc[c] = "out"
    /\ \/ /\ wret[c] = "OK"
          /\ CallerGoes(c, IF mpc[c] = "clearing" THEN "clear" ELSE "drain")
          /\ mixed' = (mixed \/ Meets(c))
       \/ /\ wret[c] # "OK"
          /\ CallerGoes(c, IF mpc[c] = "clearing" THEN "register" ELSE "next")
          /\ UNCHANGED mixed
    /\ Call /\ UNCHANGED <<registration, eventVars, sent>>

\* OM_ERROR_BUSY ends the call.
Register(c) ==
    /\ mpc[c] = "register"
    /\ \/ /\ pending # NoCommand
          /\ Returns(c) /\ UNCHANGED <<registration, mixed>>
       \/ /\ pending = NoCommand
          /\ pending' = command[c] /\ resultOK' = FALSE /\ response' = command[c]
          /\ CallerGoes(c, "send") /\ Call
          /\ mixed' = (mixed \/ Meets(c))
    /\ UNCHANGED <<eventVars, sent>>

Clears == pending' = NoCommand /\ UNCHANGED <<resultOK, response>>

\* When the frame cannot be sent the registration is cancelled; the done of a late
\* reply to an earlier attempt stays, for the next call to take.
Send(c) ==
    /\ mpc[c] = "send"
    /\ \/ /\ sent' = sent \cup {command[c]}
          /\ CallerGoes(c, "wait") /\ Call /\ UNCHANGED <<registration, mixed>>
       \/ /\ Clears /\ Returns(c) /\ UNCHANGED sent
          /\ mixed' = (mixed \/ (status = "DONE" /\ \E d \in Callers :
                                                     mpc[d] \in {"clearing", "register"}))
    /\ UNCHANGED eventVars

Await(c) ==
    /\ mpc[c] = "wait" /\ CallerGoes(c, "waiting")
    /\ \E d \in {"finite", "forever"} : Wait(c, d)
    /\ Call /\ UNCHANGED <<registration, sent, mixed>>

Awaited(c) ==
    /\ mpc[c] = "waiting" /\ wpc[c] = "out"
    /\ CallerGoes(c, IF wret[c] = "OK" THEN "fetch" ELSE "cancel")
    /\ Call /\ UNCHANGED <<registration, eventVars, sent, mixed>>

\* Mutant: the registration stays.
CancelNothing(c) ==
    /\ mpc[c] = "cancel" /\ CallerGoes(c, IF wret[c] = "TIMEOUT" THEN "drain" ELSE "next")
    /\ Call /\ UNCHANGED <<registration, eventVars, sent, mixed>>

\* The wait failed; a reply may have come since.
Cancel(c) ==
    /\ mpc[c] = "cancel" /\ CallerGoes(c, IF wret[c] = "TIMEOUT" THEN "drain" ELSE "next")
    /\ Clears
    /\ Call /\ UNCHANGED <<eventVars, sent, mixed>>

\* The result and the response are read: OM_OK ends the call.
Fetch(c) ==
    /\ mpc[c] = "fetch"
    /\ IF resultOK THEN Returns(c) ELSE CallerGoes(c, "next") /\ Call
    /\ UNCHANGED <<registration, eventVars, sent, mixed>>

\* Any other result leads to the next attempt, or ends the last one.
NextAttempt(c) ==
    /\ mpc[c] = "next"
    /\ \/ /\ attempt[c] < MaxRetry
          /\ attempt' = [attempt EXCEPT ![c] = @ + 1]
          /\ CallerGoes(c, "clear") /\ UNCHANGED command
       \/ attempt[c] = MaxRetry /\ Returns(c)
    /\ UNCHANGED <<registration, eventVars, sent, mixed>>

-----------------------------------------------------------------------------
\* p1010b_internal_try_complete_sync_transaction, in the receive interrupt; a
\* reply that matches no registration changes nothing.
Reply(k) ==
    /\ k \in sent /\ pending = k
    /\ resultOK' = TRUE /\ response' = k /\ pending' = NoCommand
    /\ IF status = "DONE" THEN UNCHANGED eventVars ELSE Event!DoneFromIsr
    /\ UNCHANGED <<mpc, command, attempt, sent, mixed>>

-----------------------------------------------------------------------------
WaitStep(c) ==
    /\ Event!WaiterStep(c)
    /\ mixed' = (mixed \/ (mpc[c] = "clearing" /\ owed' < owed /\ Meets(c)))
    /\ UNCHANGED <<registration, mpc, command, attempt, sent>>

CallerStep(c) ==
    \/ Empty(c) \/ Emptied(c) \/ Register(c) \/ Send(c) \/ Await(c) \/ Awaited(c)
    \/ Cancel(c) \/ Fetch(c) \/ NextAttempt(c) \/ WaitStep(c)

MotorNext ==
    \/ \E c \in Callers : (\E k \in Commands : Request(c, k)) \/ CallerStep(c)
    \/ \E k \in Commands : Reply(k)

MotorSpec == MotorInit /\ [][MotorNext]_mtVars

-----------------------------------------------------------------------------
(* A caller whose wait succeeds finds the response to its own command, received
   since it registered: no done of an earlier attempt, timed out and answered
   late, ends the wait.  And a registration belongs to a call under way, so that
   the driver does not answer OM_ERROR_BUSY for ever.  Both fail when a second
   caller drains the completion (line 298, before the test of pending), or
   registers between the reply and its reader, or has drained when the send of the
   first fails after a late reply (line 369 does not drain). *)
OwnAnswer ==
    ~mixed =>
        /\ \A c \in Callers : mpc[c] = "fetch" => resultOK /\ response = command[c]
        /\ pending # NoCommand =>
               \E c \in Callers : Owns(c) /\ mpc[c] \notin {"drain", "draining"}
                                          /\ command[c] = pending

=============================================================================
