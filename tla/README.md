# TLA+ models of mod_dirlisting

These modules model `src/src/mod_dirlisting.c`, lighttpd's directory-listing
module, and check it with TLC. The other file of the repository,
`src/unnamed/part_000`, is a systemd socket unit (listen on port 443). It is
configuration with no behaviour and is not modelled.

## The system

lighttpd runs a single-threaded, cooperative event loop per worker. A directory
listing request (`GET /dir/`, optionally `?json`) passes through these parts of
mod_dirlisting.

| Part | Code | State |
|------|------|-------|
| RequestController | `mod_dirlisting_subrequest_start`, `mod_dirlisting_subrequest`, `mod_dirlisting_reset`, `handler_ctx_init/free` | `p->processing` (shared), `r->plugin_ctx` (the `handler_ctx`) |
| Scanner | `http_open_directory`, `http_read_directory`, `mod_dirlisting_exclude` | `hctx->dp`, the directory stream position |
| EntryStore + sort | `hctx->dirs`, `hctx->files`, `http_dirls_sort` | entry sequences |
| Renderer | header/row/footer/json functions, `mod_dirlisting_stream_append`, `http_list_directory`, `mod_dirlisting_response` | `hctx->jb` / `hctx->hb`, `r->write_queue` |
| CacheManager | `mod_dirlisting_cache_check`, `cache_add`, `cache_stream_init/append_cq/add_footer`, `cache_stream` | `<cache>/<dir>/dirlist.{html,json}` (shared across requests), `hctx->jfd`/`jfn` temp file |
| Configuration | `set_defaults`, `parse_cache`, `parse_excludes`, `merge_config`, `patch_config` | `p->cvlist`, `p->defaults`, and `p->conf` per request |
| Size formatting | `http_list_directory_sizefmt` | none (a pure function) |

This is how the parts interact:

1. `subrequest_start` asks the cache for a fresh file, which is served and bypasses admission.
2. It then admits against `dirlist_max_in_progress`, where `max_conns >> 4` is at least 1. At the limit the answer is 503.
3. It opens the directory (a failure gives 403).
4. It picks a mode:
   - JSON streams into `jb`.
   - Unsorted HTML streams into `hb`, after a header queued at once.
   - Sorted HTML collects into the stores.
5. For the streaming modes it opens a cache temp file, the "tee".
6. It runs the first batch.
7. Each later batch runs from the joblist (`HANDLER_WAIT_FOR_EVENT` plus `joblist_append`), or after a write event once backpressure deferred it.
8. The last batch finishes the request:
   - A streamed response closes the JSON array, flushes, appends the footer (`add_footer`) and renames the temp file into place.
   - A sorted response sorts, renders through tempfile spills and copies the whole response to the cache.
   - Either way it then calls `mod_dirlisting_reset`, which the server calls again when it resets the request.

Meanwhile the connection sends the response. A streamed HTTP/1.1 response that
is not finished when its headers go out is sent chunked, and the tee must then
be given up. Other processes may remove directory entries, and cache steps may
fail.

## Modules

### `DirlsSort.tla`: `http_dirls_sort`
The comb sort. `ShrinkGap` is the gap update, `CombPass` the inner `for` loop
and `CombLoop` the `do ... while (gap > 1 || swapped)` loop; the last two are
RECURSIVE. Names are naturals, and strcmp's byte order stands as `>`.
`MCDirlsSort` checks the sort against a reference definition: a permutation
that is sorted (`IsSorted`, `ToBag` from the community modules). It does so for
every store of up to 12 entries over 3 names, which covers all the gaps
(12, 9→11, 8, 6, 4, 3, 2, 1) and repeated names.

### `Dirlisting.tla`: the request path
**State.** The variables are:
- `req[r]`, request `r` together with its `handler_ctx` fields;
- `processing`, which is `p->processing`;
- `cache[k]`, one of the two cache files of the directory;
- `sce[k]`, the stat cache's entry (with its open fd) for `cache[k]`;
- `tmp[r]`, r's temp file;
- `openFds`, the process's descriptors: 0 is not ours, r's temp file is fd `r`, and r's directory descriptor is `DirFd(r)`;
- `now`, which is `log_epoch_secs`;
- `gone`, the entries removed by another process;
- `crashes` and `orphans`, the server crashes so far and the temp files they left behind.

**Actions.** Each event-loop callback is one atomic action, because the loop
runs a handler to completion:
- `Start(r)` is `mod_dirlisting_subrequest_start` with every call it makes (cache check, admission, open, tee set-up, first batch, and finish if that batch ends the scan).
- `Resume(r)` is `mod_dirlisting_subrequest`.
- `Close(r)` and `Abort(r)` are `mod_dirlisting_reset`, called by the server at request end or on a client abort.
- Inside `Start`, `http_open_directory` opens the directory descriptor and then `fdopendir()`s it. Either call may fail, and the request is then a 403. If `fdopendir()` fails, the descriptor is closed again. On success the DIR owns the descriptor, and `closedir()` releases it: at the end of the scan in `http_read_directory`, or in `handler_ctx_free` when the request is aborted mid-scan.
- `Send`, `WriteEvent`, `Tick` and `Unlink` are the environment: the connection, the clock, and an external `unlink`.
- `Crash` is the server dying between two handler calls and restarting. Every admitted request is lost with its context, slot, fds and temp file, and the stat cache is empty. The files already renamed into the cache tree persist, and so do the temp files, counted in `orphans`, which no code path removes. `MaxCrashes` bounds it.

**World-passing style.** Inside a handler, every C function is one operator
from a "world" (the request plus the shared state) to the set of worlds it may
leave. There is more than one world where a system call may fail. `Then`
composes operators in the C order, so an action is the whole handler, and the
trailing reset, rename or flush are part of it.

**Data.** A body is a sequence of tokens: header, row(name), JSON
element(name, comma), footer, README, `[`/`]`, and a chunk-framing token. Byte
thresholds become token counts:
- the flush threshold `16384-1024` → `FlushLen`;
- the low-water mark `65536-4096` → `LowWater`;
- 256 rows in memory → `InMemRows`;
- `DIRLIST_BATCH` → `BATCH`.

Whether a spill happens after a row (`buffer_string_space(out) < 256`) depends
on byte counts, so it is a nondeterministic choice.

**Cache-Control.** `req[r].cc` is the max-age of the response's Cache-Control
header, set by `mod_dirlisting_cache_control` unless already set:
- on a cache hit, to the seconds the file has left (`mtime + max_age - now`);
- after `cache_add` renames its file, to the configured max-age;
- after `cache_stream` renames its file, to the configured max-age, but only if the headers are not yet sent.

`MaxAge` is any non-zero integer, because configuration disables only 0.

A renamed file's mtime is the kernel clock at its last write. That clock may
be up to `ClockSkew` seconds ahead of `now`, because lighttpd caches
`log_epoch_secs` once per pass of its event loop. The code does not clamp
the remaining time on a hit, so a response can carry max-age + 1. The model
reaches this when `ClockSkew = 1`, and no property claims an upper bound.

**Stat cache.** `cache_check` reads `dirlist.*` through
`stat_cache_get_entry_open` (`StatCacheOpen`): it uses the stat cache's
entry if there is one, and otherwise stats and opens the file and keeps it.
Every rename over the name (`Publish`, in `cache_stream` and `cache_add`)
calls `stat_cache_invalidate_entry`. The stat cache's own revalidation by
mtime is left out, so the model relies on the invalidation alone. The
entry is modelled for fidelity of `cache_check`; no property is stated about
it, because without revalidation or an external delete its coherence would
only restate the invalidation call.

### `DirlistService.tla` and the refinement
`DirlistService` is the contract of the request path, with no batches, buffers
or files. A request is `new`, `busy` (admitted), `done` or `closed`, and ends
in one of three ways:
- a complete listing of the directory (`IsComplete`, a constant operator);
- `forbidden`;
- `unavailable`, which it may only do while `MaxInProgress` requests are busy.

Entries removed by another process (`Remove`) may be missing from a listing.
`Dirlisting` defines `Service == INSTANCE DirlistService WITH ...`, mapping:
- the request state and the live `handler_ctx` to `phase`;
- the final status to `outcome`;
- the unframed write queue of a finished request to `body`;
- `gone` to `removed`.

`ImplementsService == Service!ASpec` is checked as a temporal property.
It is checked with `MaxCrashes = 0`. A crash ends several requests in one
step, which no single abstract step does.

### `SizeFmt.tla`: `http_list_directory_sizefmt`
The function is modelled as operators:
- `RoundSmall` is the `+99` for sizes 1..99;
- `ScaleDown` is the RECURSIVE `>>= 10` loop, with `& 1023` as `% 1024` because sizes are non-negative;
- `http_list_directory_sizefmt` covers the `> 999` carry and the `bufsz` cut-off, and returns the integer part, the tenth, the unit and the text length.

`MCSizeFmt` checks it against a reference for every size 0..2100 and for each
unit boundary ±3 up to 100M. The reference is the value the text stands for,
compared with the true size.

### `DirlistConfig.tla`: configuration
The model covers a global context and two conditional contexts. Each may give
`dir-listing.cache` (a max-age, and a path that `stat` finds to be a
directory, missing, not a directory, or absent) and `dir-listing.show-readme`.
- `SetDefaults` is `mod_dirlisting_set_defaults`. It refuses to start when a cache fails `mod_dirlisting_parse_cache`. It turns a max-age-0 cache into NULL and rewrites show-readme (blank → NULL, `enable` → `README.txt`, `disable` → empty string). It then merges the global context into `p->defaults`.
- `PatchConfig` is `mod_dirlisting_patch_config`: the defaults, then each matching conditional merged in order (`mod_dirlisting_merge_config`).
- `Free` is the cleanup hook `mod_dirlisting_free`. It runs at shutdown, or after `set_defaults` failed. It `free()`s the value of every cache entry whose `vtype` is `T_CONFIG_LOCAL`.

**Memory.** `set_defaults` stops at the first cache that fails to parse. The
cache entries of the contexts before that one hold a `dirlist_cache` it
allocated, or NULL for a max-age of 0, which is freed at once. Their `vtype`
is `T_CONFIG_LOCAL`. The failing entry holds NULL. The entries of later
contexts still hold the configuration's own array (`Arr(i)`). `heap` is the
set of allocations that are still live, and `badFree` is every pointer passed
to `free()` that was not one of them.

`MCDirlistConfig` supplies max-ages 15, 0 and -1, because
`config_plugin_value_to_int32` accepts any int32.

## Runs

| Run | Config | Result | What it shows |
|-----|--------|--------|---------------|
| streamed | `MCDirlisting.cfg` | pass (343k states, ~1 min) | unsorted HTML and JSON with the tee, chunked HTTP/1.1, backpressure, failures, aborts |
| sorted | `MCDirlistingSorted.cfg` | pass (220k states) | sorted HTML with spills and `cache_add` |
| combsort | `MCDirlsSort.cfg` | pass (797k states) | `http_dirls_sort` sorts |
| yields | `MCDirlistingYields.cfg` | violation | the yield count is floor, not ceil |
| readdir_error | `MCDirlistingReaddirError.cfg` | violation | a readdir error serves a truncated listing |
| spill_error | `MCDirlistingSpillError.cfg` | violation | a failed spill serves a truncated listing |
| sizefmt | `MCSizeFmt.cfg` | pass (2k states) | the size text fits `sizeof("999.9K")` and is right to a tenth |
| refinement | `MCDirlistingRefines.cfg` | pass (343k states) | `Dirlisting` implements `DirlistService` |
| two_slots | `MCDirlistingTwoSlots.cfg` | pass (2.2M states, ~70 s) | two concurrent scans and tees of one directory, cache expiry, files stamped ahead of the clock, Cache-Control, one crash |
| negative_max_age | `MCDirlistingNegativeMaxAge.cfg` | violation | a negative max-age is sent as `Cache-Control: max-age=-1` |
| config | `MCDirlistConfig.cfg` | pass (684k states) | per-request resolution of cache and README settings; the cleanup hook frees what start-up allocated |
| readme_disable | `MCDirlistConfigReadme.cfg` | violation | show-readme "disable" still triggers an include |

Properties:
- `ServedListingComplete`: every response finished with success (fresh, streamed or from the cache) is, once the chunk framing is removed, a complete listing. That means the right frame and one correctly formatted row (JSON comma included) per listable entry that still exists, with no duplicates, in readdir order or, when sorted, directories then files each in strcmp order. The order is checked against `SetToSortSeq`, independently of the comb sort.
- `CacheHoldsCompleteListing`: every cache file published by rename is a complete listing and holds no chunk framing.
- `AdmissionAccounting`: `processing` equals the number of live contexts and never exceeds the limit, across two requests, double resets, 403s and aborts.
- `ResourcesOwned`: the temp file and its descriptor exist exactly while a context holds them. The directory descriptor is open exactly while the context holds the directory stream, through an `fdopendir()` failure, an abort mid-scan and a crash. fd 0 (the `jfd` of a calloc'ed sorted context) is never closed.
- `SlotEventuallyReleased` (liveness): every admitted listing eventually gives up its context and slot.
- `ImplementsService`: the refinement above. Among other things, a 503 is given only when the ceiling is really reached, and every success, fresh or from the cache, is a complete listing.
- `CacheControlNotNegative`: no Cache-Control max-age a response carries is negative. On a hit it is `mtime + max_age - now`, which depends on when another request wrote the file, on the clock that stamped it and on the clock since. Only the freshness test (`<`, boundary second included) keeps it from going below 0.
- `SizeTextFits`, `SizeShownToTenth` (`MCSizeFmt`): the text has an integer part of at most 999, a digit and a unit, and fits its buffer. The shown value is within a tenth of a unit of the size, and non-zero sizes never show 0.0.
- `ScopeResolution` (`DirlistConfig`): a request uses, for each directive, the rewritten value of the innermost matching context that gives it, or the built-in default.
- `CacheUsable` (`DirlistConfig`): a cache handed to a request has a non-zero max-age and a root that is, or may be created as, a directory.
- `FreeReleasesOwned` (`DirlistConfig`): `mod_dirlisting_free` frees every `dirlist_cache` that `set_defaults` allocated and kept, and nothing else. It does not free a max-age-0 cache twice. It does not free the configuration array of a context that a failing `set_defaults` never reached.

Each property of a passing run is paired with a mutant in `PROJECT.json`: a
plausible bug written as an operator next to the code it changes, which TLC
must catch. Examples are a reset without its NULL check, the comma flag kept
per batch, the tee not abandoned when the response is chunked, and deferral
without the `is_writable` test.

### Findings
1. **Yield count (spec vs code).** `http_read_directory` counts every raw entry, including `.`, `..` and filtered ones, and yields only when the batch is used up. A directory of n entries therefore yields floor(n/BATCH) times. spec.md's acceptance scenario says ceil(n/BATCH).
2. **readdir error.** `readdir()` returning NULL on an error ends the scan like end-of-directory, so a truncated listing is served with 200 and cached. spec.md invariant (1) says partial results are discarded.
3. **Spill error.** In `http_list_directory` a failed tempfile spill `break`s or is ignored. The rest of the rows are silently dropped, and the page is served and cached. spec.md error taxonomy (5) says spill errors are fatal.
4. **Negative max-age (spec gap).** Configuration accepts a negative `max-age`, and `set_defaults` special-cases only 0. Every cache file is then stale, yet every listing writes one, and fresh responses carry `Cache-Control: max-age=-1`. spec.md settles only the zero case.
5. **show-readme "disable".** `set_defaults` clears the string to "" instead of setting NULL, as it does for a blank value. The footer's `if (p->conf.show_readme)` therefore still calls `http_list_directory_include_file`. That call appends the empty name to the directory's path and looks up the directory itself as the README. What that yields depends on `stat_cache`, which is outside this file. show-header behaves the same way.

## Bounds
The streamed and sorted runs use:
- two requests, which is enough for every interleaving on the counter and the shared cache;
- one listing slot (`MaxConns = 16`), so a second request meets the 503 path (`two_slots` uses two slots, so two scans and tees of the same directory run at once);
- a directory of four raw entries: `.`, a hidden dot-file, a subdirectory that may vanish, and a file.

The sorted order differs from the readdir order. A batch of 3 makes the scan
take two calls, the second one short, and two rows exceed `InMemRows = 1`, so
the sorted render spills. With `FlushLen = 2` and `LowWater = 1`, streams flush
mid-scan and backpressure deferral happens. `MaxTime = 1` with `MaxAge = 1`
gives fresh cache hits only; `two_slots` lets the clock reach 2, so cache
files also go stale and are rescanned. `two_slots` also stamps files up to `ClockSkew = 1` second ahead and allows one crash
(`MaxCrashes = 1`) at any point; the other runs have neither. The violation runs reuse these bounds
with one failure mode enabled.

`MCSizeFmt` stops at about 100M because TLC's integers are 32-bit. The G to E
units go through the same shift loop and carry, and are not checked.

`MCDirlistConfig` has three contexts. That is the least that shows an inner
context overriding an outer one, and a max-age of 0 disabling a cache that an
enclosing context enabled. It enumerates every combination of the two
directives in each context (140k configurations).

## Fairness
The event loop runs every request on its joblist (`WF Resume`) and delivers a
pending write event (`WF WriteEvent`). The server resets a request whose
response is out (`WF Close`). A connected client keeps reading (`WF Send`).
Client aborts, clock ticks and unlinks are not fair: they may never happen.

`DirlistConfig`, `SizeFmt` and `DirlistService` are checked for safety only,
so they assume no fairness. The config runs do not check for deadlock,
because a `set_defaults` that returns `HANDLER_ERROR` stops the server, which
then takes no further step.

## Not modelled
- Text formatting (HTML and JSON text, URL/HTML encoding, mtime), the header include file and auto-layout JS/CSS. Size formatting is checked on its own in `SizeFmt`.
- ETag headers and 103 Early Hints. Their failure, `HANDLER_ERROR`, tears the request down like `Abort`.
- Parts of configuration. `parse_excludes` compiles PCRE patterns, and its failure stops start-up like a bad cache. Its cleanup in `mod_dirlisting_free` is the same `vtype`-guarded free. Adding the directive would multiply the enumerated configurations by 27; the string directives are only blank-checked; the boolean directives are copied unchanged by the same merge. `DirlistConfig` and `Dirlisting` are not composed: the configuration model justifies `Dirlisting`'s constants (a cache is on only with a non-zero max-age).
- `mod_dirlisting_plugin_init`, which only assigns the hook pointers that the actions stand for. `init` and `cleanup` are modelled in `DirlistConfig`.
- Cleanup of orphan temp files after a crash: the code has none, and the model only counts them.
- The stat cache's own expiry and revalidation, and an external deletion of a cache file (the refresh that the comment in `cache_check` allows).
- Entries created during a scan. The readdir snapshot is fixed; only removals are modelled.

## Plan for later work
1. The README/HEADER include file: a missing or empty file, which appends nothing, and the 32k tempfile path with its failures.
2. `dir-listing.exclude` in `DirlistConfig`, with a smaller enumeration of the other directives: a start-up failure from `parse_excludes`, and the guarded `pcre_keyvalue_buffer_free`.
3. Excludes as a filter class in the scan, including `mod_dirlisting_exclude` failing closed on a match error.
4. Liveness on the abstract side. A busy request eventually stops being busy. Through the refinement mapping this says the same as `SlotEventuallyReleased`, so it is left until the abstract service has more to say.
