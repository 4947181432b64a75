------------------------------ MODULE SizeFmt ------------------------------
(***************************************************************************)
(* http_list_directory_sizefmt() of src/src/mod_dirlisting.c: the size    *)
(* column of an HTML listing row, "<int>.<digit><unit>" in units of 1024  *)
(* (K, M, G, T, P, E), written into char sizebuf[sizeof("999.9K")].       *)
(*                                                                         *)
(* The result is the text as its parts: the integer li_itostrn() writes,  *)
(* the digit after the point, the index u into "KMGTPE", and the length   *)
(* returned.  st_size is never negative, so size & 1023 is size % 1024    *)
(* and size >>= 10 is size \div 1024.                                      *)
(***************************************************************************)
EXTENDS Integers

\* sizeof("999.9K")
SizeBufLen == 7

\* Mutant: small sizes are not rounded up.
RoundSmall_none(size) == size

\* if (0 < size && size < 100) size += 99;
RoundSmall(size) == IF 0 < size /\ size < 100 THEN size + 99 ELSE size

\* do { remain = size & 1023; size >>= 10; ++u; } while (size & ~1023);
RECURSIVE ScaleDown(_, _, _)
ScaleDown(size, u, remain) ==
    LET s == [size |-> size \div 1024, u |-> u + 1, remain |-> size % 1024]
    IN  IF s.size >= 1024 THEN ScaleDown(s.size, s.u, s.remain) ELSE s

\* The number of characters li_itostrn() writes for n >= 0.
RECURSIVE DecimalDigits(_)
DecimalDigits(n) == IF n < 10 THEN 1 ELSE 1 + DecimalDigits(n \div 10)

\* Mutant: no carry of 1000-1023 units into the next unit.
sizefmt_noCarry(size) ==
    LET s   == ScaleDown(RoundSmall(size), -1, 0)
        dec == IF s.remain \div 100 > 9 THEN 9 ELSE s.remain \div 100
        len == DecimalDigits(s.size)
    IN  [int |-> s.size, dec |-> dec, u |-> s.u,
         len |-> IF len + 3 >= SizeBufLen THEN len ELSE len + 3]

\* remain /= 100, at most 9; a value above 999 becomes 0.9 of the next unit;
\* the unit is written only if buflen + 3 < bufsz.
http_list_directory_sizefmt(size) ==
    LET s     == ScaleDown(RoundSmall(size), -1, 0)
        carry == s.size > 999
        int   == IF carry THEN 0 ELSE s.size
        dec   == IF carry THEN 9
                 ELSE IF s.remain \div 100 > 9 THEN 9 ELSE s.remain \div 100
        len   == DecimalDigits(int)
    IN  [int |-> int, dec |-> dec, u |-> IF carry THEN s.u + 1 ELSE s.u,
         len |-> IF len + 3 >= SizeBufLen THEN len ELSE len + 3]

=============================================================================
