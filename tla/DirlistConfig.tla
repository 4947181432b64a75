---------------------------- MODULE DirlistConfig ----------------------------
(***************************************************************************)
(* Configuration of mod_dirlisting (src/src/mod_dirlisting.c): how the     *)
(* directives of the global context and of the conditional contexts are   *)
(* validated once at start-up (mod_dirlisting_set_defaults, with           *)
(* mod_dirlisting_parse_cache) and resolved for each request               *)
(* (mod_dirlisting_patch_config, mod_dirlisting_merge_config).            *)
(*                                                                         *)
(* Two directives are modelled, the two whose values set_defaults         *)
(* rewrites: dir-listing.cache (a max-age and a "path", which stat()      *)
(* finds to be a directory, missing, or not a directory) and               *)
(* dir-listing.show-readme.  The boolean directives are copied unchanged   *)
(* by the same merge and are left out.  The memory of the cache entries   *)
(* is followed to mod_dirlisting_free, which runs at shutdown and after a  *)
(* failed set_defaults.                                                    *)
(***************************************************************************)
EXTENDS Integers, FiniteSets, FiniteSetsExt

CONSTANTS
    NULL,       \* a NULL pointer
    NBlocks,    \* config contexts: 1 is the global one, 2.. conditionals
    MaxAgeIn,   \* "max-age" values (15, the default, also stands for unset)
    PathIn,     \* "path": "none" (unset), "dir", "enoent" or "notdir"
    ReadmeIn    \* dir-listing.show-readme strings

ASSUME /\ NBlocks \in Nat \ {0} /\ MaxAgeIn \subseteq Int
       /\ PathIn \subseteq {"none", "dir", "enoent", "notdir"}

Blocks == 1..NBlocks
Conds == 2..NBlocks

(* A directive is absent from a context ({}) or given once ({v}).          *)
Opt(S) == {{}} \cup {{v} : v \in S}
Get(s) == CHOOSE v \in s : TRUE
Context == [cache : Opt([max_age : MaxAgeIn, path : PathIn]),
            show_readme : Opt(ReadmeIn)]

VARIABLES
    config,    \* the contexts as the configuration file gives them
    phase,     \* "init" before set_defaults, then "running" or "error",
               \* "stopped" once mod_dirlisting_free has run
    cvlist,    \* cvlist[i]: context i's values as set_defaults left them
    defaults,  \* p->defaults
    conf,      \* p->conf, as patch_config left it for the last request
               \* (NULL until a request arrives)
    matched,   \* the conditional contexts that request matched
    vtype,     \* vtype[i]: the cache entry's cpv->vtype, "array" or "local"
    cvptr,     \* cvptr[i]: the cache entry's cpv->v pointer
    heap,      \* the dirlist_cache objects allocated and not yet freed
    badFree    \* pointers free()d that were not live allocations

vars == <<config, phase, cvlist, defaults, conf, matched, vtype, cvptr, heap, badFree>>

(* The pointer config_plugin_values_init left in a cache entry (the       *)
(* configuration's own array), and the dirlist_cache parsed for context i.*)
Arr(i) == <<"array", i>>
Obj(i) == <<"cache", i>>

(* mod_dirlisting_init calloc()s plugin_data: no cache, no readme.         *)
BuiltinDefaults == [cache |-> NULL, show_readme |-> NULL]

(* mod_dirlisting_parse_cache: NULL on an error, else the dirlist_cache.  *)
(* A missing "path" is an error unless max-age is 0; a path that is not a *)
(* directory is an error; a path that does not exist is only a warning.   *)
mod_dirlisting_parse_cache(a) ==
    IF (a.path = "none" /\ a.max_age # 0) \/ a.path = "notdir" THEN NULL
    ELSE [max_age |-> a.max_age,
          path |-> IF a.path = "none" THEN NULL ELSE a.path]

(* set_defaults, case 15: a cache of max-age 0 is freed and set to NULL,  *)
(* which disables a cache enabled in an enclosing context.                *)
ParsedCache_keepZero(a) == mod_dirlisting_parse_cache(a)
ParsedCache(a) ==
    LET c == mod_dirlisting_parse_cache(a)
    IN  IF c.max_age = 0 THEN NULL ELSE c

(* set_defaults, case 7: "" becomes NULL, "enable" README.txt, "disable"  *)
(* is cleared to the empty string; any other name is kept.                *)
ParseReadme(b) ==
    CASE b = ""        -> NULL
      [] b = "enable"  -> "README.txt"
      [] b = "disable" -> ""
      [] OTHER         -> b

(* set_defaults walks the contexts in order and returns HANDLER_ERROR at   *)
(* the first dir-listing.cache that fails to parse: the cache entries of  *)
(* the contexts before it are processed, the later ones are not.           *)
Given == {i \in Blocks : config[i].cache # {}}
Failing == {i \in Given : mod_dirlisting_parse_cache(Get(config[i].cache)) = NULL}
Visited == IF Failing = {} THEN Given ELSE {i \in Given : i < Min(Failing)}

(* set_defaults, case 15, for a context it reached: the pointer left in   *)
(* cpv->v, and the allocations still live.  The cache of a max-age 0 is   *)
(* freed at once and the pointer set to NULL.                              *)
Kept(i) == mod_dirlisting_parse_cache(Get(config[i].cache)).max_age # 0
CacheValue_dangling(i) == Obj(i)
CacheValue(i) == IF Kept(i) THEN Obj(i) ELSE NULL

(* The values of one context after set_defaults processed it.             *)
ParseContext_raw(ctx) == ctx
ParseContext(ctx) ==
    [cache |-> {ParsedCache(a) : a \in ctx.cache},
     show_readme |-> {ParseReadme(b) : b \in ctx.show_readme}]

(* mod_dirlisting_merge_config(_cpv): every directive the context gives   *)
(* overwrites the field of pconf.                                          *)
mod_dirlisting_merge_config(pconf, cv) ==
    [k \in DOMAIN pconf |-> IF cv[k] = {} THEN pconf[k] ELSE Get(cv[k])]

(* mod_dirlisting_patch_config: p->defaults, then every matching           *)
(* conditional context merged in the order of the configuration.          *)
RECURSIVE PatchDown(_, _, _)
PatchDown(pconf, i, m) ==
    IF i < 2 THEN pconf
    ELSE PatchDown(IF i \in m THEN mod_dirlisting_merge_config(pconf, cvlist[i])
                   ELSE pconf, i - 1, m)
patch_config_reverse(m) == PatchDown(defaults, NBlocks, m)
RECURSIVE PatchFrom(_, _, _)
PatchFrom(pconf, i, m) ==
    IF i > NBlocks THEN pconf
    ELSE PatchFrom(IF i \in m THEN mod_dirlisting_merge_config(pconf, cvlist[i])
                   ELSE pconf, i + 1, m)
mod_dirlisting_patch_config(m) == PatchFrom(defaults, 2, m)

Init ==
    /\ config \in [Blocks -> Context]
    /\ phase = "init"
    /\ cvlist = [i \in Blocks |-> [cache |-> {}, show_readme |-> {}]]
    /\ defaults = BuiltinDefaults
    /\ conf = NULL
    /\ matched = {}
    /\ vtype = [i \in Blocks |-> "array"]
    /\ cvptr = [i \in Blocks |-> IF config[i].cache = {} THEN NULL ELSE Arr(i)]
    /\ heap = {}
    /\ badFree = {}

(* mod_dirlisting_set_defaults: HANDLER_ERROR, and the server does not    *)
(* start, if any dir-listing.cache fails to parse; otherwise the contexts *)
(* are rewritten and p->defaults is the built-in values merged with the   *)
(* global context.  Each cache entry reached becomes T_CONFIG_LOCAL; the  *)
(* one that failed holds NULL.                                             *)
SetDefaults ==
    /\ phase = "init"
    /\ vtype' = [i \in Blocks |-> IF i \in Visited THEN "local" ELSE "array"]
    /\ cvptr' = [i \in Blocks |->
                  CASE i \in Visited                      -> CacheValue(i)
                    [] Failing # {} /\ i = Min(Failing)   -> NULL
                    [] OTHER                              -> cvptr[i]]
    /\ heap' = {Obj(i) : i \in {j \in Visited : Kept(j)}}
    /\ IF Failing # {}
       THEN phase' = "error" /\ UNCHANGED <<cvlist, defaults>>
       ELSE LET cv == [i \in Blocks |-> ParseContext(config[i])]
            IN  /\ phase' = "running"
                /\ cvlist' = cv
                /\ defaults' = mod_dirlisting_merge_config(BuiltinDefaults, cv[1])
    /\ UNCHANGED <<config, conf, matched, badFree>>

(* A request arrives; the server evaluated which conditions it matches,   *)
(* and mod_dirlisting_subrequest_start calls patch_config.                *)
PatchConfig ==
    /\ phase = "running"
    /\ \E m \in SUBSET Conds :
          /\ conf' = mod_dirlisting_patch_config(m)
          /\ matched' = m
    /\ UNCHANGED <<config, phase, cvlist, defaults, vtype, cvptr, heap, badFree>>

(* mod_dirlisting_free, at shutdown or after set_defaults failed: free()  *)
(* the value of every cache entry that is T_CONFIG_LOCAL (free(NULL) of a *)
(* disabled cache does nothing) and skip the others.                      *)
FreeSet_noVtype == {cvptr[i] : i \in Blocks} \ {NULL}
FreeSet == {cvptr[i] : i \in {j \in Blocks : vtype[j] = "local"}} \ {NULL}

Free ==
    /\ phase \in {"running", "error"}
    /\ phase' = "stopped"
    /\ heap' = heap \ FreeSet
    /\ badFree' = FreeSet \ heap
    /\ UNCHANGED <<config, cvlist, defaults, conf, matched, vtype, cvptr>>

Next == SetDefaults \/ PatchConfig \/ Free

Spec == Init /\ [][Next]_vars

-----------------------------------------------------------------------------
(* Properties *)

(* The last context, in configuration order, among the global one and the *)
(* matched conditionals that gives directive k; 0 if none does.           *)
Innermost(k) ==
    LET setters == {i \in {1} \cup matched : config[i][k] # {}}
    IN  IF setters = {} THEN 0 ELSE Max(setters)

TypeOK ==
    /\ config \in [Blocks -> Context]
    /\ phase \in {"init", "running", "error", "stopped"}
    /\ vtype \in [Blocks -> {"array", "local"}]
    /\ cvptr \in [Blocks -> {NULL} \cup {Arr(i) : i \in Blocks} \cup {Obj(i) : i \in Blocks}]
    /\ heap \subseteq {Obj(i) : i \in Blocks}
    /\ badFree \subseteq {Arr(i) : i \in Blocks} \cup {Obj(i) : i \in Blocks}
    /\ matched \subseteq Conds
    /\ conf \in {NULL} \cup
         [cache : {NULL} \cup [max_age : MaxAgeIn, path : {NULL, "dir", "enoent"}],
          show_readme : {NULL, "README.txt"} \cup ReadmeIn]

(* Scope resolution (patch_config over merge_config): for every directive *)
(* a request uses the value of the innermost matching context that gives  *)
(* it, as set_defaults rewrote it, or the built-in default if none does.  *)
ScopeResolution ==
    conf # NULL =>
      /\ conf.cache =
           IF Innermost("cache") = 0 THEN BuiltinDefaults.cache
           ELSE ParsedCache(Get(config[Innermost("cache")].cache))
      /\ conf.show_readme =
           IF Innermost("show_readme") = 0 THEN BuiltinDefaults.show_readme
           ELSE ParseReadme(Get(config[Innermost("show_readme")].show_readme))

(* A cache that mod_dirlisting_cache_check and the tee use for a request  *)
(* has a non-zero max-age (0 disables caching) and a root that is, or may *)
(* be created as, a directory.                                             *)
CacheUsable ==
    conf # NULL /\ conf.cache # NULL =>
      /\ conf.cache.max_age # 0
      /\ conf.cache.path \in {"dir", "enoent"}

(* mod_dirlisting_free releases every dirlist_cache that set_defaults     *)
(* allocated and kept, and frees nothing else: not a cache it already     *)
(* freed for max-age 0, not the configuration's own value in a context    *)
(* that a failing set_defaults never reached.                              *)
FreeReleasesOwned ==
    /\ badFree = {}
    /\ phase = "stopped" => heap = {}

(* show-readme "disable" in the innermost matching context turns the      *)
(* README off: http_list_directory_footer includes no file (show_readme   *)
(* is NULL).                                                                *)
ReadmeDisableHonoured ==
    (conf # NULL /\ Innermost("show_readme") # 0
       /\ Get(config[Innermost("show_readme")].show_readme) = "disable")
      => conf.show_readme = NULL
=============================================================================
