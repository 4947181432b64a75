--------------------------- MODULE DirlistService ---------------------------
(***************************************************************************)
(* What mod_dirlisting promises a client, without scans, batches, streams *)
(* or cache files.  A request for a directory is answered once: with a    *)
(* complete listing, with 403 (the directory cannot be opened) or with    *)
(* 503 (every listing slot is taken); at most MaxInProgress requests are  *)
(* being listed at a time; an answer, once given, is final; the request   *)
(* ends when the server closes it, possibly before it is answered.        *)
(***************************************************************************)
EXTENDS Naturals, FiniteSets

CONSTANTS
    Req,              \* the requests
    MaxInProgress,    \* the number of listing slots
    IsComplete(_, _, _) \* IsComplete(body, fmt, removed): body lists the
                        \* directory in fmt, the entries removed or not

VARIABLES
    phase,    \* phase[r]: "new", "busy" (holds a slot), "done" or "closed"
    outcome,  \* outcome[r]: "none", "listing", "forbidden" or "unavailable"
    body,     \* body[r]: the response body, once answered
    fmt,      \* fmt[r]: "html" or "json", as the request asks
    removed   \* the entries other processes have removed from the directory

avars == <<phase, outcome, body, fmt, removed>>

Busy == {r \in Req : phase[r] = "busy"}

\* The answer to a request not yet listed, and the format it asked for.
Answer(r, o) ==
    /\ phase[r] = "new"
    /\ phase' = [phase EXCEPT ![r] = "done"]
    /\ outcome' = [outcome EXCEPT ![r] = o]
    /\ UNCHANGED removed
    /\ fmt'[r] \in {"html", "json"}
    /\ fmt' = [fmt EXCEPT ![r] = fmt'[r]]

\* Listed at once (a fresh cache file, or a directory read in one turn).
Serve(r) ==
    /\ Answer(r, "listing")
    /\ body' = [body EXCEPT ![r] = body'[r]]
    /\ IsComplete(body'[r], fmt'[r], removed)

Forbid(r) ==
    /\ Answer(r, "forbidden")
    /\ body' = body

\* 503 only when no slot is free.
Unavailable(r) ==
    /\ Cardinality(Busy) = MaxInProgress
    /\ Answer(r, "unavailable")
    /\ body' = body

\* The request takes a slot to be listed over several turns.
Admit(r) ==
    /\ phase[r] = "new"
    /\ Cardinality(Busy) < MaxInProgress
    /\ phase' = [phase EXCEPT ![r] = "busy"]
    /\ fmt'[r] \in {"html", "json"}
    /\ fmt' = [fmt EXCEPT ![r] = fmt'[r]]
    /\ UNCHANGED <<outcome, body, removed>>

\* The listing is complete: it is answered and its slot is free.
Complete(r) ==
    /\ phase[r] = "busy"
    /\ phase' = [phase EXCEPT ![r] = "done"]
    /\ outcome' = [outcome EXCEPT ![r] = "listing"]
    /\ body' = [body EXCEPT ![r] = body'[r]]
    /\ IsComplete(body'[r], fmt[r], removed)
    /\ UNCHANGED <<fmt, removed>>

\* The server closes the request, answered or not.
Close(r) ==
    /\ phase[r] \in {"busy", "done"}
    /\ phase' = [phase EXCEPT ![r] = "closed"]
    /\ UNCHANGED <<outcome, body, fmt, removed>>

\* Another process removes entries of the directory.
Remove ==
    /\ removed \subseteq removed'
    /\ UNCHANGED <<phase, outcome, body, fmt>>

AInit ==
    /\ phase = [r \in Req |-> "new"]
    /\ outcome = [r \in Req |-> "none"]
    /\ body = [r \in Req |-> <<>>]
    /\ fmt = [r \in Req |-> "html"]
    /\ removed = {}

ANext == \E r \in Req : Serve(r) \/ Forbid(r) \/ Unavailable(r) \/ Admit(r)
                        \/ Complete(r) \/ Close(r)
         \/ Remove

ASpec == AInit /\ [][ANext]_avars

=============================================================================
