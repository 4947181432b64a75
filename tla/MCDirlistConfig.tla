--------------------------- MODULE MCDirlistConfig ---------------------------
(* Model values for DirlistConfig.  max-age is an int32 read by           *)
(* config_plugin_value_to_int32(du, 15): the default, 0 (which disables   *)
(* the cache) and a negative value, which it accepts.                     *)
EXTENDS DirlistConfig

MCMaxAgeIn == {15, 0, -1}
=============================================================================
