----------------------------- MODULE DirlsSort -----------------------------
(***************************************************************************)
(* http_dirls_sort() of src/src/mod_dirlisting.c: the comb sort that       *)
(* orders one entry store (the directories or the files of a listing) by  *)
(* name before the buffered (sorted) HTML listing is rendered.             *)
(*                                                                         *)
(* An entry is abstracted to its name, and a name to a natural number: the *)
(* code compares names only with strcmp(), a byte-wise total order, and    *)
(* the order of the naturals stands for it.  The two nested C loops are    *)
(* two RECURSIVE operators; the store is a sequence (index i+1 here is     *)
(* ent[i] in C).                                                           *)
(***************************************************************************)
EXTENDS Integers, Sequences

\* strcmp(DIRLIST_ENT_NAME(a), DIRLIST_ENT_NAME(b)) > 0
NameAfter(a, b) == a > b

\* gap = (gap * 10) / 13; the degenerate gaps 9 and 10 become 11; never < 1
ShrinkGap(gap) ==
    LET g == (gap * 10) \div 13
    IN  IF g \in {9, 10} THEN 11 ELSE IF g < 1 THEN 1 ELSE g

\* The inner for-loop: one pass comparing ent[i] with ent[i + gap],
\* swapping out-of-order pairs; returns the store and the 'swapped' flag.
RECURSIVE CombPass(_, _, _, _)
CombPass(ent, gap, i, swapped) ==
    IF i > Len(ent) - gap
    THEN [ent |-> ent, swapped |-> swapped]
    ELSE LET j == i + gap IN
         IF NameAfter(ent[i], ent[j])
         THEN CombPass([ent EXCEPT ![i] = ent[j], ![j] = ent[i]], gap, i + 1, TRUE)
         ELSE CombPass(ent, gap, i + 1, swapped)

\* Mutant: the loop stops once the gap is 1, whether or not it swapped.
RECURSIVE CombLoop_gapOnly(_, _)
CombLoop_gapOnly(ent, gap) ==
    LET g    == ShrinkGap(gap)
        pass == CombPass(ent, g, 1, FALSE)
    IN  IF g > 1 THEN CombLoop_gapOnly(pass.ent, g) ELSE pass.ent

\* The do { ... } while (gap > 1 || swapped) loop.
RECURSIVE CombLoop(_, _)
CombLoop(ent, gap) ==
    LET g    == ShrinkGap(gap)
        pass == CombPass(ent, g, 1, FALSE)
    IN  IF g > 1 \/ pass.swapped THEN CombLoop(pass.ent, g) ELSE pass.ent

\* http_dirls_sort(ent, num): gap starts at num
http_dirls_sort(ent) == CombLoop(ent, Len(ent))

=============================================================================
