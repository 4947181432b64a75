---------------------------- MODULE MCDirlisting ----------------------------
(***************************************************************************)
(* A directory for model checking Dirlisting: readdir() returns           *)
(*   5, "." (1), 3, ".hidden" (2)                                          *)
(* where 3 is a subdirectory and may be removed while it is listed.  With *)
(* dot-files hidden, 5 and 3 are listed: readdir order 5 3, sorted order  *)
(* 3 (the directory) then 5.  Four raw entries in batches of three take   *)
(* two calls, the second one short; two rows exceed InMemRows, so the     *)
(* sorted render spills.                                                   *)
(***************************************************************************)
EXTENDS Dirlisting

MCEntries == <<5, 1, 3, 2>>
MCKind == [n \in {1, 2, 3, 5} |->
             CASE n = 1 -> "self" [] n = 2 -> "dot" [] OTHER -> "plain"]

(* dir-listing.cache = ("max-age" => "-1", ...): config_plugin_value_to_int32 *)
(* accepts any int32, and set_defaults only disables a max-age of 0.       *)
MCNegativeMaxAge == -1
=============================================================================
