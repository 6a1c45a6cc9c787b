----------------------------- MODULE ByteStream -----------------------------
(***************************************************************************)
(* What lib/ipc/include/ipc/pipe.h promises of a pipe, without slots,      *)
(* counters or semaphores: at most Cap bytes under way from one writer to  *)
(* one reader, first in, first out.  A write adds the next bytes of the    *)
(* stream in one step.  A read first copies the oldest bytes and then      *)
(* takes exactly those, a peek copies them and takes none, and a skip      *)
(* takes without a copy.                                                   *)
(*                                                                         *)
(* A byte is its number in the writer's stream, modulo Stamp.              *)
(***************************************************************************)
EXTENDS Integers, Sequences

CONSTANTS Cap, Stamp

VARIABLES stream,  \* the bytes under way, the oldest first
          next,    \* the number of the next byte to be written
          lent     \* what a read or a peek that has not returned has copied

bvars == <<stream, next, lent>>

Oldest(n) == SubSeq(stream, 1, n)
Younger(n) == SubSeq(stream, n + 1, Len(stream))

Init == /\ stream = <<>>
        /\ next = 0
        /\ lent = <<>>

Put(n) == /\ Len(stream) + n <= Cap
          /\ stream' = stream \o [i \in 1 .. n |-> (next + i - 1) % Stamp]
          /\ next' = (next + n) % Stamp
          /\ UNCHANGED lent

Lend(n) == /\ n <= Len(stream)
           /\ lent = <<>>
           /\ lent' = Oldest(n)
           /\ UNCHANGED <<stream, next>>

\* The end of a read that has copied n bytes, and of a skip of n bytes.
Take(n) == /\ n <= Len(stream)
           /\ lent \in {<<>>, Oldest(n)}
           /\ stream' = Younger(n)
           /\ lent' = <<>>
           /\ UNCHANGED next

\* The end of a peek.
GiveBack == /\ lent = Oldest(Len(lent))
            /\ lent' = <<>>
            /\ UNCHANGED <<stream, next>>

Next == \/ \E n \in 1 .. Cap : Put(n) \/ Lend(n) \/ Take(n)
        \/ GiveBack

Spec == Init /\ [][Next]_bvars
=============================================================================
