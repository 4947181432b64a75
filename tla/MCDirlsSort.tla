---------------------------- MODULE MCDirlsSort ----------------------------
(***************************************************************************)
(* Checks http_dirls_sort against the reference definition of sorting,    *)
(* over every entry store of up to MaxEntries names drawn from Names.      *)
(* The store is chosen in Init and never changes; the invariant evaluates  *)
(* the sort on it.                                                         *)
(***************************************************************************)
EXTENDS DirlsSort, SequencesExt

CONSTANTS Names,       \* the names an entry can have (naturals)
          MaxEntries   \* the largest store checked

ASSUME Names \subseteq Nat /\ MaxEntries \in Nat

VARIABLE input

Init == input \in BoundedSeq(Names, MaxEntries)
Next == UNCHANGED input
Spec == Init /\ [][Next]_input

(* Reference: sorting yields the permutation of the store whose names are  *)
(* in non-decreasing strcmp order.  Comb sort only reaches it if the final *)
(* gap-1 passes are repeated until one makes no swap (the loop condition  *)
(* of http_dirls_sort); it is what puts a directory listing in order.     *)
SortsEveryStore ==
    LET out == http_dirls_sort(input)
    IN  /\ IsSorted(out, LAMBDA a, b : ~NameAfter(a, b))
        /\ ToBag(out) = ToBag(input)

=============================================================================
