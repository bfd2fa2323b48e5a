----------------------------- MODULE ToolsCache -----------------------------
(***************************************************************************)
(* mcp/client.go: the cached tool list of an MCP client over stdio, the    *)
(* notification that invalidates it and the paginated fetch that renews    *)
(* it, with concurrent callers of Tools.                                   *)
(*                                                                         *)
(* The server's list is abstracted to its version; a list assembled from   *)
(* pages is the set of versions its pages come from.  It is never empty:   *)
(* an empty one is nil, which the code does not cache.  McpConn models how *)
(* a response finds its call; here a response goes to its caller, in the   *)
(* order of the pipe.                                                      *)
(***************************************************************************)
EXTENDS Integers, Sequences, FiniteSets, SequencesExt

CONSTANTS Callers,      \* goroutines that call Tools
          MaxPages,     \* maxToolListPages
          Cursors,      \* cursors the server may return
          MaxVersion    \* bound of the model: versions of the server's list

ASSUME ToolsAssumption == MaxPages \in Nat \ {0} /\ MaxVersion \in Nat

NoCursor == "no cursor"
Changed == [kind |-> "changed"]
Page(c, v, cursor) == [kind |-> "page", to |-> c, version |-> v, next |-> cursor]

VARIABLES version,    \* of the server's list
          requests,   \* callers whose tools/list request the server has
          pipe,       \* messages of the server, in order
          cache,      \* toolsCache: versions of its pages, {} for nil
          dirty,      \* toolsDirty
          caller,     \* caller[c]: "idle", "ask", "wait", "store"
          fetch,      \* fetch[c]: page, seen cursors and versions fetched
          overtaken,  \* overtaken[c]: a change was announced during c's fetch
          suspect     \* the cached list comes from an overtaken fetch

cacheVars == <<version, requests, pipe, cache, dirty, caller, fetch, overtaken, suspect>>

NoFetch == [page |-> 0, seen |-> {}, all |-> {}]

CacheTypeOK ==
    /\ version \in 1..MaxVersion
    /\ requests \subseteq Callers
    /\ pipe \in Seq({Changed} \cup {Page(c, v, n) : c \in Callers, v \in 1..MaxVersion,
                                                    n \in {NoCursor} \cup Cursors})
    /\ cache \subseteq 1..MaxVersion
    /\ dirty \in BOOLEAN
    /\ caller \in [Callers -> {"idle", "ask", "wait", "store"}]
    /\ fetch \in [Callers -> [page : 0..MaxPages, seen : SUBSET Cursors,
                              all : SUBSET (1..MaxVersion)]]
    /\ overtaken \in [Callers -> BOOLEAN]
    /\ suspect \in BOOLEAN

CacheInit ==
    /\ version = 1
    /\ requests = {}
    /\ pipe = <<>>
    /\ cache = {}
    /\ dirty = FALSE
    /\ caller = [c \in Callers |-> "idle"]
    /\ fetch = [c \in Callers |-> NoFetch]
    /\ overtaken = [c \in Callers |-> FALSE]
    /\ suspect = FALSE
-----------------------------------------------------------------------------
(* Tools *)

\* Mutant of Miss: the mark is cleared when the fetch starts.
MissClearsMark(c) ==
    /\ caller[c] = "idle"
    /\ cache = {} \/ dirty
    /\ dirty' = FALSE
    /\ caller' = [caller EXCEPT ![c] = "ask"]
    /\ fetch' = [fetch EXCEPT ![c] = NoFetch]
    /\ overtaken' = [overtaken EXCEPT ![c] = FALSE]
    /\ UNCHANGED <<version, requests, pipe, cache, suspect>>

\* The cache is missing or marked: start to fetch.  A hit changes nothing.
Miss(c) ==
    /\ caller[c] = "idle"
    /\ cache = {} \/ dirty
    /\ caller' = [caller EXCEPT ![c] = "ask"]
    /\ fetch' = [fetch EXCEPT ![c] = NoFetch]
    /\ overtaken' = [overtaken EXCEPT ![c] = FALSE]
    /\ UNCHANGED <<version, requests, pipe, cache, dirty, suspect>>

\* Request one page.
Ask(c) ==
    /\ caller[c] = "ask"
    /\ requests' = requests \cup {c}
    /\ caller' = [caller EXCEPT ![c] = "wait"]
    /\ UNCHANGED <<version, pipe, cache, dirty, fetch, overtaken, suspect>>

\* Where a page leads: the list is complete, the cursor repeats or the page
\* cap is reached (both an error), or the next page is asked for.
AfterPage(f, cursor) ==
    IF cursor = NoCursor THEN "store"
    ELSE IF cursor \in f.seen \/ f.page + 1 = MaxPages THEN "idle"
    ELSE "ask"

\* Where the pipe has the page that c waits for, which it does at most once.
Awaited(c) == {k \in DOMAIN pipe : pipe[k] # Changed /\ pipe[k].to = c}

\* The request cannot be sent, is answered by an error, or its context ends:
\* nothing is stored, and the response, if it comes, finds no call.
Fail(c) ==
    /\ caller[c] \in {"ask", "wait"}
    /\ requests' = requests \ {c}
    /\ pipe' = IF Awaited(c) = {} THEN pipe
               ELSE RemoveAt(pipe, CHOOSE k \in Awaited(c) : TRUE)
    /\ caller' = [caller EXCEPT ![c] = "idle"]
    /\ UNCHANGED <<version, cache, dirty, fetch, overtaken, suspect>>

\* Store the list and clear the mark, under the write lock.
Store(c) ==
    /\ caller[c] = "store"
    /\ cache' = fetch[c].all
    /\ dirty' = FALSE
    /\ suspect' = overtaken[c]
    /\ caller' = [caller EXCEPT ![c] = "idle"]
    /\ UNCHANGED <<version, requests, pipe, fetch, overtaken>>
-----------------------------------------------------------------------------
(* The read loop *)

\* Mutant of ReceivePage: it neither counts the page nor keeps the cursor.
ReceivePageForgets ==
    /\ pipe # <<>>
    /\ Head(pipe) # Changed
    /\ LET c == Head(pipe).to
       IN  /\ caller' = [caller EXCEPT ![c] = AfterPage(fetch[c], Head(pipe).next)]
           /\ fetch' = [fetch EXCEPT ![c].all = @ \cup {Head(pipe).version}]
    /\ pipe' = Tail(pipe)
    /\ UNCHANGED <<version, requests, cache, dirty, overtaken, suspect>>

\* The loop hands a page to its caller.  What the caller does with it before
\* its next request or its store touches nothing shared.
ReceivePage ==
    /\ pipe # <<>>
    /\ Head(pipe) # Changed
    /\ LET c == Head(pipe).to
           f == fetch[c]
       IN  /\ caller' = [caller EXCEPT ![c] = AfterPage(f, Head(pipe).next)]
           /\ fetch' = [fetch EXCEPT ![c] =
                  [page |-> f.page + 1,
                   seen |-> f.seen \cup ({Head(pipe).next} \ {NoCursor}),
                   all |-> f.all \cup {Head(pipe).version}]]
    /\ pipe' = Tail(pipe)
    /\ UNCHANGED <<version, requests, cache, dirty, overtaken, suspect>>

Begun(c) == caller[c] # "idle" /\ ~ (caller[c] = "ask" /\ fetch[c].page = 0)

\* The notification handler marks the cache, in the loop's goroutine.
ReceiveChanged ==
    /\ pipe # <<>>
    /\ Head(pipe) = Changed
    /\ dirty' = TRUE
    /\ overtaken' = [c \in Callers |-> overtaken[c] \/ Begun(c)]
    /\ pipe' = Tail(pipe)
    /\ UNCHANGED <<version, requests, cache, caller, fetch, suspect>>
-----------------------------------------------------------------------------
(* The server *)

Answer(c) ==
    /\ c \in requests
    /\ requests' = requests \ {c}
    /\ \E cursor \in {NoCursor} \cup Cursors : pipe' = Append(pipe, Page(c, version, cursor))
    /\ UNCHANGED <<version, cache, dirty, caller, fetch, overtaken, suspect>>

ListChanges ==
    /\ version < MaxVersion
    /\ version' = version + 1
    /\ pipe' = Append(pipe, Changed)
    /\ UNCHANGED <<requests, cache, dirty, caller, fetch, overtaken, suspect>>

CacheNext ==
    \/ \E c \in Callers : Miss(c) \/ Ask(c) \/ Fail(c) \/ Store(c) \/ Answer(c)
    \/ ReceivePage
    \/ ReceiveChanged
    \/ ListChanges

CacheSpec == CacheInit /\ [][CacheNext]_cacheVars

\* Goroutines are scheduled and the server answers what it is asked.
FairCacheSpec ==
    /\ CacheSpec
    /\ WF_cacheVars(ReceivePage \/ ReceiveChanged)
    /\ \A c \in Callers : WF_cacheVars(Ask(c)) /\ WF_cacheVars(Store(c)) /\ WF_cacheVars(Answer(c))
-----------------------------------------------------------------------------
\* The list in the cache is the server's current one, once the announcements
\* in the pipe have been handled and if none has marked it.
Fresh == cache # {} /\ ~ dirty /\ ~ Contains(pipe, Changed) => cache = {version}

\* The cache goes stale unmarked only through one race: a change announced
\* while the fetch that filled the cache was under way.  Concurrent callers,
\* failed fetches and lists of many pages leave it fresh or marked
\* (client.go:58-67, 132-153).
StaleOnlyIfOvertaken == ~ suspect => Fresh

\* A server that pages for ever, or in a circle, does not keep Tools from
\* returning (client.go:157-188).
FetchEnds == \A c \in Callers : caller[c] # "idle" ~> caller[c] = "idle"

-----------------------------------------------------------------------------
\* "Results are cached and refreshed automatically when the server sends a
\* notifications/tools/list_changed notification" (client.go:130-131).  A
\* notification handled between the last page and the store is wiped out by
\* the store, which clears the mark (client.go:147-150).
CacheRefreshed == Fresh
=============================================================================
