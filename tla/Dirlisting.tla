----------------------------- MODULE Dirlisting -----------------------------
(***************************************************************************)
(* The request path of mod_dirlisting (src/src/mod_dirlisting.c): the      *)
(* handlers the server's single-threaded event loop calls for a directory *)
(* listing request, the shared admission counter, the cache directory and *)
(* the client connection they interact with.                               *)
(*                                                                         *)
(*  - Start(r)   mod_dirlisting_subrequest_start: cache check, admission,  *)
(*               open, mode selection, cache tee set-up, first batch.      *)
(*  - Resume(r)  mod_dirlisting_subrequest, run from the joblist or after  *)
(*               a write event: one batch of readdir(), then yield or      *)
(*               finish (render, publish the cache file, release).         *)
(*  - Abort(r), Close(r)  mod_dirlisting_reset, called by the server when  *)
(*               the request is torn down (client gone) or completed.      *)
(*  - Send, WriteEvent, Tick, Unlink: the connection, the clock and an     *)
(*               external process removing directory entries.              *)
(*                                                                         *)
(* Every handler runs to completion before the event loop runs another, so *)
(* each is one atomic action.  The code of a handler is composed from     *)
(* operators, one per C function, that map a "world" (the request's state *)
(* together with the shared state it touches) to the set of worlds the    *)
(* function can leave behind; the set holds more than one world where a   *)
(* system call may fail.                                                   *)
(*                                                                         *)
(* Data abstraction.  A response body, a stream buffer (hctx->jb/hb) and a *)
(* cache file are sequences of tokens: one per HTML/JSON row, one for the  *)
(* page header, one for the footer, "[" and "]" of JSON, the README, and a *)
(* "frame" token for the HTTP/1.1 chunk framing that http_chunk_append_*() *)
(* adds once the response is sent chunked.  Byte thresholds become counts *)
(* of tokens.  A name is a natural number (strcmp order).                  *)
(***************************************************************************)
EXTENDS Integers, Sequences, SequencesExt, FiniteSets, DirlsSort

CONSTANTS
    Req,              \* the requests, 1..N (also the ids of their temp fds)
    Entries,          \* the raw entries readdir() returns, in its order
    Kind,             \* [name -> filter class], see Skip
    DirNames,         \* the entries that stat() reports as directories
    Volatile,         \* entries an external process may unlink mid-scan
    HideDotFiles,     \* dir-listing.hide-dotfiles
    HideIncludeFiles, \* dir-listing.hide-readme-file (show-readme set)
    Sort,             \* dir-listing.sort
    ShowReadme,       \* dir-listing.show-readme + encode-readme
    CacheOn,          \* dir-listing.cache with a path and max-age # 0
    MaxAge,           \* dir-listing.cache max-age
    MaxConns,         \* server.max-connections
    BATCH,            \* DIRLIST_BATCH
    FlushLen,         \* jb/hb flush threshold (16384-1024 bytes)
    LowWater,         \* deferral threshold of the write queue (65536-4096)
    InMemRows,        \* listings above this many rows spill (256)
    BufMin,           \* server.stream-response-body BUFMIN bit
    MaxTime,          \* bound on the clock
    CacheFails,       \* mkdir/mkostemp/write/rename in the cache may fail
    OpenFails,        \* opendir() may fail (permissions, removed dir)
    ReaddirFails,     \* readdir() may return NULL on an error
    SpillFails,       \* chunkqueue_append_mem_to_tempfile() may fail
    MaxCrashes,       \* bound on crashes (and restarts) of the server
    ClockSkew,        \* seconds the kernel clock may run ahead of log_epoch_secs
    NoFile            \* model value: no such file

Names == {Entries[i] : i \in DOMAIN Entries}

ASSUME /\ Req \subseteq Nat \ {0} /\ IsInjective(Entries)
       /\ Kind \in [Names -> {"self", "dot", "include", "excluded", "long", "plain"}]
       /\ DirNames \subseteq Names /\ Volatile \subseteq Names
       /\ ShowReadme \in {"none", "encoded", "raw"}
       /\ {BATCH, FlushLen, InMemRows} \subseteq Nat \ {0}
       /\ MaxAge \in Int \ {0}   \* set_defaults disables a cache of max-age 0
       /\ {MaxConns, LowWater, MaxTime} \subseteq Nat

(* dirlist_max_in_progress = srv->srvconf.max_conns >> 4, at least 1       *)
MaxInProgress == IF MaxConns \div 16 = 0 THEN 1 ELSE MaxConns \div 16

VARIABLES
    req,          \* req[r]: request r and its handler_ctx, see ReqRec
    processing,   \* p->processing, listings in progress
    cache,        \* cache[k]: <cache path>/<dir>/dirlist.{html,json}
    sce,          \* sce[k]: the stat_cache entry of cache[k] (with its fd)
    tmp,          \* tmp[r]: the temp file dirlist.*.XXXXXX of r's tee
    openFds,      \* descriptors open in the process (0 is not ours)
    now,          \* log_epoch_secs
    gone,         \* entries unlinked since the directory was listed
    crashes,      \* crashes of the server process so far
    orphans       \* temp files a crash left in the cache directory

crashvars == <<crashes, orphans>>
vars == <<req, processing, cache, sce, tmp, openFds, now, gone, crashes, orphans>>

(***************************************************************************)
(* Tokens of a body.                                                       *)
(***************************************************************************)
Tok(t) == [t |-> t, name |-> 0, dir |-> FALSE, comma |-> FALSE]
Hdr    == Tok("hdr")      \* http_list_directory_header()
Ftr    == Tok("ftr")      \* "</tbody>..." of http_list_directory_footer()
Readme == Tok("readme")   \* http_list_directory_include_file(r, p, 0)
Frame  == Tok("frame")    \* chunked-encoding framing
JOpen  == Tok("[")
JClose == Tok("]")
\* http_list_directory_dirname/filename()
HtmlRow(n) == [t |-> "row", name |-> n, dir |-> n \in DirNames, comma |-> FALSE]
\* http_list_directory_jsonname(): a leading ',' unless it is the first
JsonRow(n, comma) == [t |-> "json", name |-> n, dir |-> n \in DirNames, comma |-> comma]

Token == {Hdr, Ftr, Readme, Frame, JOpen, JClose}
         \cup {HtmlRow(n) : n \in Names}
         \cup {JsonRow(n, c) : n \in Names, c \in BOOLEAN}

(***************************************************************************)
(* The state of one request: fields of request_st and of its handler_ctx. *)
(***************************************************************************)
ReqRec == [st: {"new", "active", "done", "closed"},
           json: BOOLEAN,       \* p->conf.json (query "?json")
           h2: BOOLEAN,         \* r->http_version >= HTTP_VERSION_2
           status: {0, 200, 403, 503},
           hctx: BOOLEAN,       \* r->plugin_ctx[p->id] != NULL
           mode: {"none", "json", "hb", "sorted"},  \* hctx->jb / hb / neither
           dp: BOOLEAN,         \* hctx->dp open
           pos: 0..Len(Entries),\* position of the directory stream
           dirs: Seq(Names), files: Seq(Names),     \* the entry stores
           buf: Seq(Token),     \* hctx->jb or hctx->hb
           jcomma: BOOLEAN,
           jfd: {-1, 0} \cup Req, \* hctx->jfd (0 after calloc)
           jfn: BOOLEAN,        \* hctx->jfn != NULL
           wq: Seq(Token),      \* everything appended to r->write_queue
           sent: Nat,           \* tokens of wq already written to the client
           started: BOOLEAN,    \* r->resp_body_started
           finished: BOOLEAN,   \* r->resp_body_finished
           hdrSent: BOOLEAN,    \* r->resp_header_len != 0
           chunked: BOOLEAN,    \* r->resp_send_chunked
           writable: BOOLEAN,   \* r->con->is_writable
           queued: BOOLEAN,     \* on the joblist (joblist_append)
           cc: {NoFile} \cup Int, \* Cache-Control max-age set, if any
           yields: Nat]         \* HANDLER_WAIT_FOR_EVENT from a batch

NewReq == [st |-> "new", json |-> FALSE, h2 |-> FALSE, status |-> 0,
           hctx |-> FALSE, mode |-> "none", dp |-> FALSE, pos |-> 0,
           dirs |-> <<>>, files |-> <<>>, buf |-> <<>>, jcomma |-> FALSE,
           jfd |-> -1, jfn |-> FALSE, wq |-> <<>>, sent |-> 0,
           started |-> FALSE, finished |-> FALSE, hdrSent |-> FALSE,
           chunked |-> FALSE, writable |-> TRUE, queued |-> FALSE,
           cc |-> NoFile, yields |-> 0]

\* The descriptor numbers: r's temp file is fd r, its directory fd -r.
DirFd(r) == -r

Key(q) == IF q.json THEN "json" ELSE "html"
Pending(q) == Len(q.wq) - q.sent

\* The world a handler of request r acts on.
World(r) == [r |-> r, q |-> req[r], processing |-> processing, cache |-> cache, sce |-> sce,
             tmp |-> tmp[r], fds |-> openFds]

SetWorld(r, w) ==
    /\ req' = [req EXCEPT ![r] = w.q]
    /\ processing' = w.processing
    /\ cache' = w.cache
    /\ sce' = w.sce
    /\ tmp' = [tmp EXCEPT ![r] = w.tmp]
    /\ openFds' = w.fds
    /\ UNCHANGED <<now, gone, crashvars>>

\* Sequential composition of two steps of C code, each a set of outcomes.
Then(S, Op(_)) == UNION {Op(w) : w \in S}
\* A step that may fail (and leaves 'failed') only where the model lets it.
MayFail(ok, failed, canFail) == {ok} \cup (IF canFail THEN {failed} ELSE {})

(***************************************************************************)
(* Scanner: http_read_directory().                                         *)
(***************************************************************************)
\* The 'continue' filters of the loop body, in code order: "." and "..",
\* dot-files when hidden, the README/HEADER names when hidden, an exclude
\* pattern match (or a pcre error: fail closed), names over name_max.
Skip(n) ==
    \/ Kind[n] = "self"
    \/ Kind[n] = "dot" /\ HideDotFiles
    \/ Kind[n] = "include" /\ HideIncludeFiles
    \/ Kind[n] = "excluded"
    \/ Kind[n] = "long"

\* fstatat() fails for an entry that "*just* disappeared"
StatOk(n) == n \notin gone

\* Mutant: the JSON comma flag kept per call instead of in hctx.
ReadEntry_commaPerBatch(q, n) ==
    CASE q.mode = "json" -> [q EXCEPT !.buf = Append(@, JsonRow(n, q.jcomma))]
      [] q.mode = "hb"   -> [q EXCEPT !.buf = Append(@, HtmlRow(n))]
      [] OTHER           -> IF n \in DirNames
                            THEN [q EXCEPT !.dirs = Append(@, n)]
                            ELSE [q EXCEPT !.files = Append(@, n)]

\* The dispatch at the end of the loop body: a JSON element into jb, an
\* HTML row into hb, or the entry appended to the dirs or files store.
ReadEntry(q, n) ==
    CASE q.mode = "json" -> [q EXCEPT !.buf = Append(@, JsonRow(n, q.jcomma)),
                                      !.jcomma = TRUE]
      [] q.mode = "hb"   -> [q EXCEPT !.buf = Append(@, HtmlRow(n))]
      [] OTHER           -> IF n \in DirNames
                            THEN [q EXCEPT !.dirs = Append(@, n)]
                            ELSE [q EXCEPT !.files = Append(@, n)]

\* The number of entries one call reads: the batch, or fewer when the
\* stream ends; readdir() returning NULL on an error looks like the end.
ReadCounts(q) ==
    LET full == IF Len(Entries) - q.pos < BATCH THEN Len(Entries) - q.pos
                                                ELSE BATCH
    IN  {full} \cup (IF ReaddirFails THEN 0..(full - 1) ELSE {})

\* One call: at most BATCH readdir()s; HANDLER_WAIT_FOR_EVENT when the
\* batch is used up (fin = FALSE), else closedir(), which also closes the
\* directory descriptor, and HANDLER_FINISHED.
http_read_directory(w) ==
    { LET q == w.q
          batch == SubSeq(Entries, q.pos + 1, q.pos + k)
          keep(acc, n) == IF ~Skip(n) /\ StatOk(n) THEN ReadEntry(acc, n) ELSE acc
          fin == k < BATCH
      IN  [w |-> [w EXCEPT !.q = [FoldLeft(keep, q, batch) EXCEPT !.pos = q.pos + k,
                                                                 !.dp = ~fin],
                           !.fds = IF fin THEN @ \ {DirFd(w.r)} ELSE @],
           fin |-> fin]
    : k \in ReadCounts(w.q) }

(***************************************************************************)
(* Streaming output and the cache tee.                                     *)
(***************************************************************************)
\* http_chunk_append_*(): chunk framing once the response is chunked
ChunkFramed(q, data) == IF q.chunked /\ data # <<>> THEN <<Frame>> \o data ELSE data

\* Mutant: the failed tee is closed but its temp file not unlinked.
AbortTee_noUnlink(w) == [w EXCEPT !.fds = @ \ {w.q.jfd}, !.q.jfd = -1, !.q.jfn = FALSE]

\* close(jfd); jfd = -1; unlink(jfn); free(jfn); jfn = NULL
AbortTee(w) == [w EXCEPT !.fds = @ \ {w.q.jfd}, !.q.jfd = -1, !.q.jfn = FALSE,
                         !.tmp = NoFile]

\* write_all()/mod_dirlisting_write_cq() of data to the temp file; on a
\* write error the tee is torn down and the response goes on without it.
TeeWrite(w, data) ==
    MayFail([w EXCEPT !.tmp = @ \o data], AbortTee(w), CacheFails)

\* mod_dirlisting_stream_append(): aggregate until FlushLen unless fin,
\* then write jb/hb to the cache temp file and append it to the response.
mod_dirlisting_stream_append(w, fin) ==
    IF ~fin /\ Len(w.q.buf) < FlushLen THEN {w}
    ELSE Then(IF w.q.jfn THEN TeeWrite(w, w.q.buf) ELSE {w},
              LAMBDA v : {[v EXCEPT !.q.wq = @ \o ChunkFramed(v.q, v.q.buf),
                                    !.q.buf = <<>>]})

\* Mutant: the tee goes on after the response is sent chunked.
cache_stream_append_cq_ignoreChunked(w, cq) ==
    IF cq = <<>> \/ w.q.jfd = -1 THEN {w} ELSE TeeWrite(w, cq)

\* mod_dirlisting_cache_stream_append_cq(): copy the write queue cq to the
\* temp file, giving up the tee if the response is sent chunked.
mod_dirlisting_cache_stream_append_cq(w, cq) ==
    IF cq = <<>> \/ w.q.jfd = -1 THEN {w}
    ELSE IF w.q.chunked THEN {AbortTee(w)}
    ELSE TeeWrite(w, cq)

\* http_list_directory_footer(): the README is appended as memory when
\* encoded, or by http_chunk_append_file_ref() (framed) when raw.
Footer(q) ==
    <<Ftr>> \o CASE ShowReadme = "encoded" -> <<Readme>>
                 [] ShowReadme = "raw"     -> ChunkFramed(q, <<Readme>>)
                 [] OTHER                  -> <<>>

\* mod_dirlisting_cache_stream_add_footer(): the queued response is set
\* aside, the footer is written to the (now footer-only) queue and teed,
\* and the set-aside part is put back in front of it.
mod_dirlisting_cache_stream_add_footer(w) ==
    LET ftr == Footer(w.q)
    IN  Then(mod_dirlisting_cache_stream_append_cq(w, ftr),
             LAMBDA v : {[v EXCEPT !.q.wq = w.q.wq \o ftr]})

\* fdevent_rename() of a complete temp file over dirlist.k, then
\* stat_cache_invalidate_entry() so that no request is served the
\* replaced file through the stat cache.  The file's mtime is the kernel
\* clock at its last write, which may be ahead of log_epoch_secs (now), the
\* time lighttpd caches once per pass of its event loop.
Publish(w, k, data) ==
    {[w EXCEPT !.cache[k] = [data |-> data, mtime |-> t], !.sce[k] = NoFile]
     : t \in now..(now + ClockSkew)}

\* mod_dirlisting_cache_control(): Cache-Control: max-age=<max_age>,
\* unless the response already has a Cache-Control header.
mod_dirlisting_cache_control(w, max_age) ==
    IF w.q.cc # NoFile THEN w ELSE [w EXCEPT !.q.cc = max_age]

\* mod_dirlisting_cache_stream(): close the temp file and rename() it over
\* dirlist.{html,json}, adding Cache-Control if the response headers are
\* not yet sent; on a failed rename unlink it instead.
mod_dirlisting_cache_stream(w) ==
    LET closed == [w EXCEPT !.fds = @ \ {w.q.jfd}, !.q.jfd = -1, !.q.jfn = FALSE,
                            !.tmp = NoFile]
    IN  {IF w.q.hdrSent THEN v ELSE mod_dirlisting_cache_control(v, MaxAge)
         : v \in Publish(closed, Key(w.q), w.tmp)}
        \cup (IF CacheFails THEN {closed} ELSE {})

(***************************************************************************)
(* Buffered (sorted) rendering: mod_dirlisting_response().                 *)
(***************************************************************************)
\* Mutant: a spill that empties out without moving it to a tempfile.
RECURSIVE SpillRows_lost(_, _)
SpillRows_lost(rows, s) ==
    IF rows = <<>> THEN {s}
    ELSE LET s1 == [s EXCEPT !.out = Append(@, Head(rows))]
         IN  SpillRows_lost(Tail(rows), s1)
             \cup SpillRows_lost(Tail(rows), [s1 EXCEPT !.out = <<>>])

\* The row loops of http_list_directory() once out is r->tmp_buf: after a
\* row the buffer may be nearly full (buffer_string_space(out) < 256, a
\* matter of byte counts the model leaves open) and is then moved to a
\* tempfile chunk; a failed move breaks out of the loop, keeping out.
RECURSIVE SpillRows(_, _)
SpillRows(rows, s) ==
    IF rows = <<>> THEN {s}
    ELSE LET s1 == [s EXCEPT !.out = Append(@, Head(rows))]
         IN  SpillRows(Tail(rows), s1)
             \cup SpillRows(Tail(rows), [emitted |-> s1.emitted \o s1.out, out |-> <<>>])
             \cup (IF SpillFails THEN {s1} ELSE {})

\* http_list_directory(): sort both stores, then the directory rows and the
\* file rows, in memory for small listings, else through tempfiles; what
\* is left in out at the end is moved too, and dropped if that fails.
http_list_directory(q) ==
    LET ds == http_dirls_sort(q.dirs)
        fs == http_dirls_sort(q.files)
        dirRows  == [i \in 1..Len(ds) |-> HtmlRow(ds[i])]
        fileRows == [i \in 1..Len(fs) |-> HtmlRow(fs[i])]
        Files(s) == SpillRows(fileRows, s)
        Rest(s)  == IF s.out = <<>> THEN {s.emitted}
                    ELSE MayFail(s.emitted \o s.out, s.emitted, SpillFails)
    IN  IF Len(q.dirs) + Len(q.files) <= InMemRows
        THEN {dirRows \o fileRows}
        ELSE Then(Then(SpillRows(dirRows, [emitted |-> <<>>, out |-> <<>>]), Files), Rest)

\* mod_dirlisting_response(): header, listing, footer (and Content-Type)
mod_dirlisting_response(w) ==
    {[w EXCEPT !.q.wq = @ \o <<Hdr>> \o rows \o Footer(w.q)] : rows \in http_list_directory(w.q)}

\* mod_dirlisting_cache_add(): copy the whole write queue to a fresh temp
\* file and rename() it over dirlist.html.  A failure of mkdir_recursive(),
\* mkostemp(), the write or the rename leaves the cache as it was (the temp
\* file is unlinked in the same call) and the response intact; a rename
\* adds Cache-Control with the configured max-age.
mod_dirlisting_cache_add(w) ==
    {mod_dirlisting_cache_control(v, MaxAge) : v \in Publish(w, "html", w.q.wq)}
    \cup (IF CacheFails THEN {w} ELSE {})

(***************************************************************************)
(* Release: mod_dirlisting_reset() and mod_dirlisting_handler_ctx_free().  *)
(***************************************************************************)
\* Mutant: jfd closed whenever it is not -1, streaming or not.
handler_ctx_free_unguarded(w) ==
    LET q == w.q
    IN  [w EXCEPT !.q = [q EXCEPT !.hctx = FALSE, !.dp = FALSE, !.mode = "none",
                                  !.dirs = <<>>, !.files = <<>>, !.buf = <<>>,
                                  !.jcomma = FALSE, !.jfd = -1, !.jfn = FALSE],
                  !.fds = (IF q.jfd # -1 THEN @ \ {q.jfd} ELSE @)
                          \ (IF q.dp THEN {DirFd(w.r)} ELSE {}),
                  !.tmp = IF q.jfn THEN NoFile ELSE @]

\* closedir() if the stream is still open; free the stores; and, only if jb or hb was acquired, release
\* it, close jfd unless -1 and unlink the temp file if jfn is still set.
mod_dirlisting_handler_ctx_free(w) ==
    LET q == w.q
        streaming == q.mode \in {"json", "hb"}
    IN  [w EXCEPT !.q = [q EXCEPT !.hctx = FALSE, !.dp = FALSE, !.mode = "none",
                                  !.dirs = <<>>, !.files = <<>>, !.buf = <<>>,
                                  !.jcomma = FALSE, !.jfd = -1, !.jfn = FALSE],
                  !.fds = (IF streaming /\ q.jfd # -1 THEN @ \ {q.jfd} ELSE @)
                          \ (IF q.dp THEN {DirFd(w.r)} ELSE {}),
                  !.tmp = IF streaming /\ q.jfn THEN NoFile ELSE @]

\* Mutant: the slot released on every call, without the NULL check.
reset_unguarded(w) ==
    [mod_dirlisting_handler_ctx_free(w) EXCEPT !.processing = @ - 1]

\* mod_dirlisting_reset(): release the slot and the context, at most once
mod_dirlisting_reset(w) ==
    IF w.q.hctx
    THEN [mod_dirlisting_handler_ctx_free(w) EXCEPT !.processing = @ - 1]
    ELSE w

(***************************************************************************)
(* mod_dirlisting_subrequest(): one scheduling turn of an admitted request.*)
(***************************************************************************)
\* Mutant: deferral without the !r->con->is_writable check.
Deferred_anyway(q) == BufMin /\ Pending(q) > LowWater

\* Defer while more than LowWater is queued and the socket is not
\* writable: the write event will run the request again.
Deferred(q) == BufMin /\ Pending(q) > LowWater /\ ~q.writable

\* Mutant: the sorted page cached before it is rendered.
Finish_cacheFirst(w) ==
    LET closeJson == IF w.q.mode = "json"
                     THEN [w EXCEPT !.q.buf = Append(@, JClose)] ELSE w
        Footed(v)    == IF v.q.mode = "hb"
                        THEN mod_dirlisting_cache_stream_add_footer(v) ELSE {v}
        Published(v) == IF v.q.jfn THEN mod_dirlisting_cache_stream(v) ELSE {v}
        rendered ==
            IF w.q.mode \in {"json", "hb"}
            THEN Then(Then(mod_dirlisting_stream_append(closeJson, TRUE), Footed), Published)
            ELSE Then(IF CacheOn THEN mod_dirlisting_cache_add(w) ELSE {w},
                      mod_dirlisting_response)
    IN  {mod_dirlisting_reset([v EXCEPT !.q.finished = TRUE, !.q.st = "done"])
         : v \in rendered}

\* HANDLER_FINISHED: close the JSON array, flush jb/hb, add the footer and
\* publish the streamed cache file; or render the sorted listing and add
\* it to the cache; then resp_body_finished and mod_dirlisting_reset().
Finish(w) ==
    LET closeJson == IF w.q.mode = "json"
                     THEN [w EXCEPT !.q.buf = Append(@, JClose)] ELSE w
        Footed(v)    == IF v.q.mode = "hb"
                        THEN mod_dirlisting_cache_stream_add_footer(v) ELSE {v}
        Published(v) == IF v.q.jfn THEN mod_dirlisting_cache_stream(v) ELSE {v}
        Cached(v)    == IF CacheOn THEN mod_dirlisting_cache_add(v) ELSE {v}
        rendered ==
            IF w.q.mode \in {"json", "hb"}
            THEN Then(Then(mod_dirlisting_stream_append(closeJson, TRUE), Footed), Published)
            ELSE Then(mod_dirlisting_response(w), Cached)
    IN  {mod_dirlisting_reset([v EXCEPT !.q.finished = TRUE, !.q.st = "done"])
         : v \in rendered}

\* HANDLER_WAIT_FOR_EVENT: flush jb/hb if it is large, joblist_append()
Yield(w) ==
    {[v EXCEPT !.q.queued = TRUE, !.q.yields = @ + 1]
     : v \in IF w.q.mode \in {"json", "hb"}
             THEN mod_dirlisting_stream_append(w, FALSE) ELSE {w}}

mod_dirlisting_subrequest(w) ==
    IF Deferred(w.q) THEN {w}
    ELSE UNION {IF res.fin THEN Finish(res.w) ELSE Yield(res.w)
                : res \in http_read_directory(w)}

(***************************************************************************)
(* mod_dirlisting_subrequest_start()                                       *)
(***************************************************************************)
Finished(w, status) == [w EXCEPT !.q.status = status, !.q.finished = TRUE,
                                 !.q.st = "done"]

\* mod_dirlisting_cache_check(): a cache file whose mtime + max-age is not
\* before now is served (unless stat_cache/http_chunk_append_file_ref()
\* fails, which falls through to a fresh listing), with Cache-Control
\* max-age set to the seconds the file has left.
\* stat_cache_get_entry_open(): the stat cache's entry for dirlist.k if it
\* has one, else a stat() and open() of the file, which it then keeps.
StatCacheOpen(w, k) ==
    IF w.sce[k] # NoFile THEN w ELSE [w EXCEPT !.sce[k] = w.cache[k]]

mod_dirlisting_cache_check(w) ==
    LET v == StatCacheOpen(w, Key(w.q))
        c == v.sce[Key(w.q)]
    IN  IF c = NoFile \/ c.mtime + MaxAge < now THEN {v}
        ELSE MayFail(mod_dirlisting_cache_control(
                       [Finished(v, v.q.status) EXCEPT !.q.wq = c.data],
                       c.mtime + MaxAge - now), v, CacheFails)

\* mod_dirlisting_cache_stream_init(): mkostemp() dirlist.*.XXXXXX and, for
\* unsorted HTML, tee the header already queued (add_header).
mod_dirlisting_cache_stream_init(w) ==
    LET opened == [w EXCEPT !.q.jfd = w.r, !.q.jfn = TRUE, !.tmp = <<>>,
                            !.fds = @ \cup {w.r}]
        Header(v) == IF v.q.jfn /\ v.q.mode = "hb"
                     THEN mod_dirlisting_cache_stream_append_cq(v, v.q.wq) ELSE {v}
    IN  Then(MayFail(opened, w, CacheFails), Header)

\* Mutant: the descriptor is not closed when fdopendir() fails.
OpenDir_leakDfd(w) ==
    LET dfd == [w EXCEPT !.fds = @ \cup {DirFd(w.r)}]
    IN  {[ok |-> TRUE, w |-> [dfd EXCEPT !.q.dp = TRUE]]}
        \cup (IF OpenFails THEN {[ok |-> FALSE, w |-> w], [ok |-> FALSE, w |-> dfd]}
                           ELSE {})

\* http_open_directory(): fdevent_open_dirname(), then fdopendir() of the
\* descriptor, which the DIR then owns.  Either may fail (missing, not
\* permitted, removed meanwhile); when fdopendir() fails the descriptor is
\* closed again.  ok is the return value 0.
http_open_directory(w) ==
    LET dfd == [w EXCEPT !.fds = @ \cup {DirFd(w.r)}]
        closed == [dfd EXCEPT !.fds = @ \ {DirFd(w.r)}]
    IN  {[ok |-> TRUE, w |-> [dfd EXCEPT !.q.dp = TRUE]]}
        \cup (IF OpenFails THEN {[ok |-> FALSE, w |-> w], [ok |-> FALSE, w |-> closed]}
                           ELSE {})

\* The request is admitted and the directory open: ++p->processing, set up
\* jb ("[") or hb (header queued) and the cache tee, then run the first
\* batch by calling mod_dirlisting_subrequest().
Admitted(w) ==
    LET q == [w.q EXCEPT !.hctx = TRUE, !.pos = 0, !.jfd = 0,
                         !.mode = IF w.q.json THEN "json"
                                  ELSE IF Sort THEN "sorted" ELSE "hb"]
        set == [w EXCEPT !.processing = @ + 1, !.q =
                 CASE q.mode = "json" -> [q EXCEPT !.buf = <<JOpen>>]
                   [] q.mode = "hb"   -> [q EXCEPT !.wq = @ \o <<Hdr>>]
                   [] OTHER           -> q]
        Tee(v) == IF CacheOn THEN mod_dirlisting_cache_stream_init(v) ELSE {v}
        streams == [set EXCEPT !.q.jfd = -1, !.q.status = 200, !.q.started = TRUE]
        ready == IF q.mode \in {"json", "hb"} THEN Tee(streams) ELSE {set}
    IN  Then(ready, LAMBDA v : mod_dirlisting_subrequest([v EXCEPT !.q.st = "active"]))

\* Mutant: ++p->processing before http_open_directory() is checked.
Admission_countsFailedOpen(w) ==
    IF w.processing = MaxInProgress THEN {Finished(w, 503)}
    ELSE UNION {IF o.ok THEN Admitted(o.w)
                ELSE {[Finished(o.w, 403) EXCEPT !.processing = @ + 1]}
                : o \in http_open_directory(w)}

\* Mutant: the ceiling compared with > instead of ==.
Admission_pastCeiling(w) ==
    IF w.processing > MaxInProgress THEN {Finished(w, 503)}
    ELSE UNION {IF o.ok THEN Admitted(o.w) ELSE {Finished(o.w, 403)}
                : o \in http_open_directory(w)}

\* Admission against dirlist_max_in_progress, then http_open_directory():
\* 503 with Retry-After at the ceiling, 403 if opendir() fails.
Admission(w) ==
    IF w.processing = MaxInProgress THEN {Finished(w, 503)}
    ELSE UNION {IF o.ok THEN Admitted(o.w) ELSE {Finished(o.w, 403)}
                : o \in http_open_directory(w)}

\* The whole handler: the cache check if a cache is configured, then
\* admission, open and the first batch.  (The 103 Early Hints it may send
\* for a sorted listing over HTTP/2 changes no state modelled here; its
\* failure, HANDLER_ERROR, tears the request down like Abort.)
mod_dirlisting_subrequest_start(w) ==
    Then(IF CacheOn THEN mod_dirlisting_cache_check(w) ELSE {w},
         LAMBDA v : IF v.q.finished THEN {v} ELSE Admission(v))

(***************************************************************************)
(* Actions                                                                 *)
(***************************************************************************)
Init ==
    /\ req = [r \in Req |-> NewReq]
    /\ processing = 0
    /\ cache = [k \in {"html", "json"} |-> NoFile]
    /\ sce = [k \in {"html", "json"} |-> NoFile]
    /\ tmp = [r \in Req |-> NoFile]
    /\ openFds = {0}
    /\ now = 0
    /\ gone = {}
    /\ crashes = 0
    /\ orphans = 0

\* A GET/HEAD for a path ending in '/' with dir-listing enabled, with or
\* without "?json", over HTTP/1.1 or HTTP/2.
Start(r) ==
    /\ req[r].st = "new"
    /\ \E json, h2 \in BOOLEAN :
         \E w \in mod_dirlisting_subrequest_start(
                     [World(r) EXCEPT !.q.json = json, !.q.h2 = h2]) :
            SetWorld(r, w)

\* The event loop takes r off the joblist and runs its handler.
Resume(r) ==
    /\ req[r].st = "active"
    /\ req[r].queued
    /\ \E w \in mod_dirlisting_subrequest([World(r) EXCEPT !.q.queued = FALSE]) :
          SetWorld(r, w)

\* The connection writes: response headers first (chunked for a streamed
\* HTTP/1.1 response that is not finished), then what is queued; the
\* socket may be left full.  (Which tokens one write takes is not told
\* apart by any property; a full socket is.)
Send(r) ==
    LET q == req[r] IN
    /\ q.st \in {"active", "done"}
    /\ q.writable /\ (q.started \/ q.finished)
    /\ ~q.hdrSent \/ Pending(q) > 0
    /\ \E wr \in BOOLEAN :
         req' = [req EXCEPT ![r].hdrSent = TRUE,
                            ![r].chunked = IF q.hdrSent THEN q.chunked
                                           ELSE ~q.finished /\ ~q.h2,
                            ![r].sent = Len(q.wq),
                            ![r].writable = wr]
    /\ UNCHANGED <<processing, cache, sce, tmp, openFds, now, gone, crashvars>>

\* The socket becomes writable; the server runs the request again.
WriteEvent(r) ==
    /\ req[r].st \in {"active", "done"}
    /\ ~req[r].writable
    /\ req' = [req EXCEPT ![r].writable = TRUE,
                          ![r].queued = @ \/ req[r].st = "active"]
    /\ UNCHANGED <<processing, cache, sce, tmp, openFds, now, gone, crashvars>>

\* The response is out; the server resets the request (handle_request_reset)
Close(r) ==
    /\ req[r].st = "done"
    /\ req[r].hdrSent /\ Pending(req[r]) = 0
    /\ SetWorld(r, [mod_dirlisting_reset(World(r)) EXCEPT !.q.st = "closed"])

\* The client goes away (or the request errors): the same reset, at any time
Abort(r) ==
    /\ req[r].st \in {"active", "done"}
    /\ SetWorld(r, [mod_dirlisting_reset(World(r)) EXCEPT !.q.st = "closed"])

Tick ==
    /\ now < MaxTime
    /\ now' = now + 1
    /\ UNCHANGED <<req, processing, cache, sce, tmp, openFds, gone, crashvars>>

\* Another process removes an entry of the directory.
Unlink(n) ==
    /\ n \in Volatile \ gone
    /\ gone' = gone \cup {n}
    /\ UNCHANGED <<req, processing, cache, sce, tmp, openFds, now, crashvars>>

\* The server process dies (a crash, or a kill) between two handlers and is
\* started again.  Memory is lost: p->processing (calloc'ed again), every
\* handler_ctx with its descriptors, and the connections of the requests in
\* flight, whose clients see the response cut off.  The cache directory and
\* the listed directory survive.  A temp file dirlist.*.XXXXXX that a tee
\* had open stays on disk, unreferenced: nothing in mod_dirlisting removes
\* it.  (A crash inside mod_dirlisting_cache_add, after mkostemp(), leaves
\* one more such file and changes nothing else.)
Crash ==
    /\ crashes < MaxCrashes
    /\ req' = [r \in Req |->
                IF req[r].st = "new" THEN req[r]
                ELSE [req[r] EXCEPT !.st = "closed", !.hctx = FALSE, !.dp = FALSE,
                                    !.mode = "none", !.dirs = <<>>, !.files = <<>>,
                                    !.buf = <<>>, !.jfd = -1, !.jfn = FALSE,
                                    !.queued = FALSE]]
    /\ processing' = 0
    /\ sce' = [k \in {"html", "json"} |-> NoFile]
    /\ tmp' = [r \in Req |-> NoFile]
    /\ openFds' = {0}
    /\ orphans' = orphans + Cardinality({r \in Req : tmp[r] # NoFile})
    /\ crashes' = crashes + 1
    /\ UNCHANGED <<cache, now, gone>>

\* Every request has been served and reset.
Terminated ==
    /\ \A r \in Req : req[r].st = "closed"
    /\ UNCHANGED vars

Next ==
    \/ \E r \in Req : Start(r) \/ Resume(r) \/ Send(r) \/ WriteEvent(r)
                      \/ Close(r) \/ Abort(r)
    \/ Tick
    \/ \E n \in Names : Unlink(n)
    \/ Crash
    \/ Terminated

(* The event loop runs every queued request; the client keeps reading;    *)
(* the server resets a request whose response is out.                      *)
Fairness ==
    \A r \in Req : /\ WF_vars(Resume(r)) /\ WF_vars(Send(r))
                   /\ WF_vars(WriteEvent(r)) /\ WF_vars(Close(r))

Spec == Init /\ [][Next]_vars /\ Fairness

(***************************************************************************)
(* Properties                                                              *)
(***************************************************************************)
TypeOK ==
    /\ req \in [Req -> ReqRec]
    /\ processing \in Nat
    /\ cache \in [{"html", "json"} -> {NoFile} \cup [data: Seq(Token), mtime: 0..(MaxTime + ClockSkew)]]
    /\ sce \in [{"html", "json"} -> {NoFile} \cup [data: Seq(Token), mtime: 0..(MaxTime + ClockSkew)]]
    /\ tmp \in [Req -> {NoFile} \cup Seq(Token)]
    /\ openFds \subseteq {0} \cup Req \cup {DirFd(r) : r \in Req}
    /\ now \in 0..MaxTime
    /\ gone \subseteq Volatile
    /\ crashes \in 0..MaxCrashes /\ orphans \in Nat

\* The entries a listing must show: all but the filtered ones.
Listable == {n \in Names : ~Skip(n)}

\* The body as the client decodes it: without the chunk framing.
Unframed(body) == SelectSeq(body, LAMBDA t : t # Frame)

\* The tail of an HTML page: the footer and the README, if shown.
HtmlTail == <<Ftr>> \o (IF ShowReadme = "none" THEN <<>> ELSE <<Readme>>)

\* body is a complete, well-formed listing of the directory for key: its
\* frame, one row per listable entry that still exists (entries removed
\* mid-scan may or may not appear), no row twice, each row formatted for
\* its place (the JSON comma), in the order of the mode: sorted HTML lists
\* directories then files, each in strcmp order; otherwise readdir order.
ListingOf(body, key, removed) ==
    LET open  == IF key = "json" THEN <<JOpen>> ELSE <<Hdr>>
        close == IF key = "json" THEN <<JClose>> ELSE HtmlTail
        rows  == SubSeq(body, Len(open) + 1, Len(body) - Len(close))
        names == [i \in DOMAIN rows |-> rows[i].name]
        shown == Range(names)
    IN  /\ Len(body) >= Len(open) + Len(close)
        /\ IsPrefix(open, body) /\ IsSuffix(close, body)
        /\ \A i \in DOMAIN rows :
              rows[i] = IF key = "json" THEN JsonRow(names[i], i > 1)
                                        ELSE HtmlRow(names[i])
        /\ IsInjective(names)
        /\ Listable \ removed \subseteq shown /\ shown \subseteq Listable
        /\ names = IF key = "html" /\ Sort
                   THEN SetToSortSeq(shown \cap DirNames, <)
                        \o SetToSortSeq(shown \ DirNames, <)
                   ELSE SelectSeq(Entries, LAMBDA n : n \in shown)

IsListing(body, key) == ListingOf(body, key, gone)

\* Every response the module completes with success (fresh, streamed,
\* or from the cache) is the complete listing: batches resumed across
\* yields, the stream flushes, the footer juggling of add_footer and the
\* spilled sorted render all fit together.
ServedListingComplete ==
    \A r \in Req : req[r].finished /\ req[r].status \in {0, 200}
                     => IsListing(Unframed(req[r].wq), Key(req[r]))

\* A cache file published by rename() is a complete listing, and holds
\* no HTTP chunk framing (the tee is abandoned once the response is sent
\* chunked): what a later request is served from the cache is what a
\* fresh scan would have produced, whichever request renamed it last.
CacheHoldsCompleteListing ==
    \A k \in {"html", "json"} :
        cache[k] # NoFile => /\ IsListing(cache[k].data, k)
                             /\ Frame \notin Range(cache[k].data)

\* p->processing counts exactly the requests holding a handler_ctx, and
\* never exceeds dirlist_max_in_progress, whatever the interleaving of
\* admissions, completions, open failures and client aborts (each of
\* which calls mod_dirlisting_reset(), possibly twice).
AdmissionAccounting ==
    /\ processing = Cardinality({r \in Req : req[r].hctx})
    /\ processing <= MaxInProgress

\* Every descriptor and temp file is owned by a live context: r's temp
\* file exists iff its context holds jfn, its descriptor is open iff the
\* context holds it in jfd, its directory descriptor is open iff the
\* context holds the directory stream (also after an fdopendir() failure,
\* an abort mid-scan or a crash), and fd 0 (jfd of a calloc'ed sorted
\* context) is never closed.
ResourcesOwned ==
    /\ 0 \in openFds
    /\ \A r \in Req :
         /\ (tmp[r] # NoFile) = (req[r].hctx /\ req[r].jfn)
         /\ (r \in openFds) = (req[r].hctx /\ req[r].jfd = r)
         /\ (DirFd(r) \in openFds) = req[r].dp
         /\ req[r].dp => req[r].hctx

\* Cache-Control (mod_dirlisting_cache_control, set by cache_check on a
\* hit and by cache_add / cache_stream after a rename): the max-age a
\* response carries is never negative (HTTP delta-seconds).  On a hit it
\* is the time the cache file has left, mtime + max-age - now, which
\* depends on when another request wrote the file, on the kernel clock
\* that stamped it and on the clock since; only the freshness test keeps
\* it from going below 0.  (No upper bound is claimed: a file stamped
\* ahead of log_epoch_secs yields max-age + ClockSkew, unclamped.)
CacheControlNotNegative ==
    \A r \in Req : req[r].cc # NoFile => req[r].cc >= 0

\* An admitted listing always releases its slot: the joblist and write
\* events keep resuming it (also after a backpressure deferral) until it
\* finishes.
SlotEventuallyReleased ==
    \A r \in Req : req[r].hctx ~> ~req[r].hctx

(***************************************************************************)
(* Refinement: the request path implements DirlistService.  A request is  *)
(* busy while it holds a handler_ctx (and so a slot); it is answered once *)
(* resp_body_finished is set, with the status the handlers gave it; its   *)
(* body is what the client decodes from r->write_queue.                    *)
(***************************************************************************)
Phase(r) ==
    CASE req[r].st = "new"    -> "new"
      [] req[r].st = "closed" -> "closed"
      [] req[r].hctx          -> "busy"
      [] OTHER                -> "done"

Outcome(r) ==
    IF ~req[r].finished THEN "none"
    ELSE CASE req[r].status = 403 -> "forbidden"
           [] req[r].status = 503 -> "unavailable"
           [] OTHER               -> "listing"

Service == INSTANCE DirlistService WITH
    phase   <- [r \in Req |-> Phase(r)],
    outcome <- [r \in Req |-> Outcome(r)],
    body    <- [r \in Req |-> IF req[r].finished THEN Unframed(req[r].wq) ELSE <<>>],
    fmt     <- [r \in Req |-> Key(req[r])],
    removed <- gone,
    IsComplete <- ListingOf

\* Every behaviour of the handlers is one of the service: a request is
\* answered at most once and the answer never changes, a 503 is given only
\* while every slot is held, a slot is taken only while one is free, and
\* every listing answer is complete in the format the request asked for.
ImplementsService == Service!ASpec

\* Spec, Acceptance: a scan yields ceil(entries / batch) times.
YieldsPerScan ==
    \A r \in Req : req[r].finished /\ req[r].pos = Len(Entries)
        => req[r].yields = (Len(Entries) + BATCH - 1) \div BATCH

=============================================================================
