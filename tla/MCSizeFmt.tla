----------------------------- MODULE MCSizeFmt -----------------------------
(***************************************************************************)
(* Checks http_list_directory_sizefmt against what its size column must   *)
(* show, for every size up to a few KiB and for the sizes around each     *)
(* boundary where the scaling, the rounding or the carry changes: 100     *)
(* bytes, 1 KiB, 999.9 KiB, 1000 KiB, 1 MiB, 100 MiB.  Larger units repeat *)
(* the same steps but exceed TLC's integers in the reference arithmetic.  *)
(***************************************************************************)
EXTENDS SizeFmt

Boundaries == {100, 1024, 999 * 1024 + 1023, 1000 * 1024, 1024 * 1024,
               1000 * 1024 + 1023, 100 * 1024 * 1024, 102400 - 1}
Sizes == (0..2100) \cup UNION {(b - 3)..(b + 3) : b \in Boundaries}

VARIABLE size

Init == size \in Sizes
Next == UNCHANGED size
Spec == Init /\ [][Next]_size

(* The size text always fits sizebuf with its unit: at most three integer *)
(* digits, one decimal digit 0-9 and a unit index within "KMGTPE", so the *)
(* early return of http_list_directory_sizefmt (buflen + 3 >= bufsz) that  *)
(* would drop the decimal and the unit is never taken.                     *)
SizeTextFits ==
    LET f == http_list_directory_sizefmt(size)
    IN  /\ f.len = DecimalDigits(f.int) + 3
        /\ f.int <= 999 /\ f.dec \in 0..9 /\ f.u \in 0..5

(* The text is within a tenth of its unit of the size (the truncation of  *)
(* remain / 100, the cap at .9 and the carry of 1000-1023 units to 0.9 of  *)
(* the next unit), and a file of a few bytes never shows as 0.0K: sizes   *)
(* under 100 are rounded up first.                                         *)
SizeShownToTenth ==
    LET f    == http_list_directory_sizefmt(size)
        unit == 1024 ^ (f.u + 1)
        diff == 10 * size - (10 * f.int + f.dec) * unit
    IN  /\ -unit < diff /\ diff < unit
        /\ size > 0 => 10 * f.int + f.dec > 0

=============================================================================
