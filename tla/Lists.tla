-------------------------------- MODULE Lists --------------------------------
(***************************************************************************)
(* What several components do to their linked lists, those of corelist.h   *)
(* and the one of osal_timer_none.c, which their modules keep as sequences *)
(* without repetitions.                                                    *)
(***************************************************************************)
EXTENDS Integers, Sequences

\* Item x is unlinked (list_del), wherever it is.  An item that was deleted before is
\* linked to itself, and nothing is left to do; one whose links are out of date,
\* because its list was emptied under it, is for the module to tell apart.
Without(list, x) ==
    LET at == CHOOSE i \in DOMAIN list : list[i] = x
    IN  IF \E i \in DOMAIN list : list[i] = x
        THEN [i \in 1..(Len(list) - 1) |-> IF i < at THEN list[i] ELSE list[i + 1]]
        ELSE list

\* The items of part have in `whole` the order they have in part.
SameOrder(part, whole) ==
    \A i, j \in DOMAIN part, k, l \in DOMAIN whole :
        part[i] = whole[k] /\ part[j] = whole[l] => (i < j <=> k < l)

=============================================================================
