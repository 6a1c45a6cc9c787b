----------------------------- MODULE EventVars -----------------------------
(***************************************************************************)
(* The variables of a completion that is a member of a driver's structure, *)
(* named as in module Completion, which the driver's module instantiates.  *)
(***************************************************************************)

VARIABLES
    backend, status, waitThread, signal,    \* the completion
    wpc, tmo, wret,         \* threads in completion_wait
    dpc, target, dret,      \* threads in completion_done
    owed, calls, overtaken, unsent, crowded         \* history

eventVars == <<backend, status, waitThread, signal, wpc, tmo, wret, dpc, target, dret,
               owed, calls, overtaken, unsent, crowded>>

=============================================================================
