-------------------------------- MODULE Pages --------------------------------
(***************************************************************************)
(* What a reader of the record is shown: the generated views a verb writes *)
(* after it saved (cli.py _render_views, render.py), and the live page of  *)
(* `ar ui`: a thread that polls the record and publishes what changed      *)
(* (watch.py), documents cached until what they read changes (api.py), an  *)
(* event stream per page (server.py) and the page's own bookkeeping.       *)
(*                                                                         *)
(* A file's content is a version that grows with every write.  A verb saves*)
(* "entries"; "clock" stands for the facts that move with no file.  Polls, *)
(* builds, streams, responses and verbs interleave freely.                 *)
(***************************************************************************)
EXTENDS Naturals, Sequences, FiniteSets, FiniteSetsExt

CONSTANTS
    Resources,      \* of resources(), with "entries", and "clock"
    Docs, Reads,    \* the documents, and what each reads (READS)
    Browsers,       \* pages that show every document
    Threads,        \* of the server, one per request under way
    Verbs,          \* commands that save an entry and render the views
    LogSize,        \* of the watcher's log; the code keeps 256
    MaxEdits,       \* bound, of writes and of moves of the clock
    None, Idle

VARIABLES
    disk, last,     \* the record, and the watcher's last settled scan of it
    poll,           \* what the watcher's thread is at
    generation, log,            \* Watcher: published generations, the newest of them
    cache, invalidations,       \* Api: documents, and its own generation
    seen, todo, latest, shown,  \* a page: its stream, what to refetch, the newest request, the picture
    since,          \* documents refetched since the page's stream opened
    request,        \* what each server thread builds or answers
    verb, view, lapse           \* verbs, the queue view, and whether it may be stale

pagesVars == <<disk, last, poll, generation, log, cache, invalidations, seen, todo, latest, shown,
               since, request, verb, view, lapse>>
watchVars == <<last, poll, generation, log>>
apiVars   == <<cache, invalidations>>
pageVars  == <<seen, todo, latest, shown, since>>
viewVars  == <<verb, view, lapse>>

Versions == 0..MaxEdits
Scan     == [Resources -> Versions]

PagesTypeOK ==
    /\ disk \in Scan /\ last \in Scan /\ poll # Idle => poll.now \in Scan
    /\ Len(log) <= LogSize /\ \A i \in DOMAIN log : log[i].gen <= generation
    /\ \A d \in Docs : cache[d] = None \/ cache[d] \in [Reads[d] -> Versions]
    /\ \A b \in Browsers : /\ seen[b] = None \/ seen[b] <= generation
                           /\ todo[b] \subseteq Docs /\ since[b] \subseteq Docs
    /\ \A t \in Threads : request[t] = Idle \/ request[t].doc \in Docs

PagesInit ==
    /\ disk = [r \in Resources |-> 0] /\ last = disk /\ poll = Idle
    /\ generation = 0 /\ log = <<>>
    /\ cache = [d \in Docs |-> None] /\ invalidations = 0
    /\ seen = [b \in Browsers |-> None]
    /\ todo = [b \in Browsers |-> Docs]             \* watch(): fetched as the page loads
    /\ latest = [b \in Browsers |-> [d \in Docs |-> None]]
    /\ shown = [b \in Browsers |-> [d \in Docs |-> None]] /\ since = [b \in Browsers |-> {}]
    /\ request = [t \in Threads |-> Idle]
    /\ verb = [v \in Verbs |-> Idle] /\ view = 0 /\ lapse = FALSE

-----------------------------------------------------------------------------
(* The record, and the views of it.                                        *)

(* A write is seen by its path, time and size: a version of its own.       *)
Edit(r) ==
    /\ MapThenSumSet(LAMBDA x : disk[x], Resources) < MaxEdits
    /\ disk' = [disk EXCEPT ![r] = @ + 1]

Busy == {v \in Verbs : verb[v] # Idle}

(* A claim, a run, a memo: nothing the queue view renders.  Or time passes.*)
Touch(r) ==
    /\ r # "entries" /\ Edit(r)
    /\ UNCHANGED <<watchVars, apiVars, pageVars, request, viewVars>>

(* A verb saves its entry; a save among others may leave a stale view.     *)
Save(v) ==
    /\ verb[v] = Idle /\ Edit("entries")
    /\ verb' = [verb EXCEPT ![v] = [at |-> "read", got |-> 0]] /\ lapse' = (Busy # {})
    /\ UNCHANGED <<watchVars, apiVars, pageVars, request, view>>

(* _render_views(): the whole store is read ...                            *)
ReadStore(v) ==
    /\ verb[v] # Idle /\ verb[v].at = "read"
    /\ verb' = [verb EXCEPT ![v] = [at |-> "write", got |-> disk["entries"]]]
    /\ UNCHANGED <<disk, watchVars, apiVars, pageVars, request, view, lapse>>

(* ... and every view written from that.                                   *)
WriteViews(v) ==
    /\ verb[v] # Idle /\ verb[v].at = "write"
    /\ view' = verb[v].got /\ verb' = [verb EXCEPT ![v] = Idle]
    /\ UNCHANGED <<disk, watchVars, apiVars, pageVars, request, lapse>>

(* A sibling will not load: it warns and exits VIEWS_STALE.  Or it dies.   *)
LeaveStale(v) ==
    /\ verb[v] # Idle /\ verb' = [verb EXCEPT ![v] = Idle] /\ lapse' = TRUE
    /\ UNCHANGED <<disk, watchVars, apiVars, pageVars, request, view>>

(* check_views(): the view differs from what the records render.           *)
ViewProblem == view # disk["entries"]

-----------------------------------------------------------------------------
(* The watcher.                                                            *)

Changed(from, to) == {r \in Resources \ {"clock"} : from[r] # to[r]}

(* poll(): one scan; "clock" is in no directory.                           *)
Poll ==
    /\ poll = Idle /\ Changed(last, disk) # {}
    /\ poll' = [at |-> "settle", changed |-> Changed(last, disk),
                now |-> [disk EXCEPT !["clock"] = last["clock"]]]
    /\ UNCHANGED <<disk, last, generation, log, apiVars, pageVars, request, viewVars>>

(* A tree still moving is scanned again until it holds still.              *)
Settle ==
    /\ poll # Idle /\ poll.at = "settle"
    /\ LET moving == Changed(poll.now, disk)
       IN  poll' = [at |-> IF moving = {} THEN "invalidate" ELSE "settle",
                    changed |-> poll.changed \union moving,
                    now |-> [disk EXCEPT !["clock"] = last["clock"]]]
    /\ UNCHANGED <<disk, last, generation, log, apiVars, pageVars, request, viewVars>>

(* start(): once a minute, whatever the files do.                          *)
Tick ==
    /\ poll = Idle /\ last["clock"] # disk["clock"]
    /\ poll' = [at |-> "invalidate", changed |-> {"clock"},
                now |-> [last EXCEPT !["clock"] = disk["clock"]]]
    /\ UNCHANGED <<disk, last, generation, log, apiVars, pageVars, request, viewVars>>

(* make_server()'s publish() first drops what it makes stale: invalidate().*)
Invalidate ==
    /\ poll # Idle /\ poll.at = "invalidate"
    /\ invalidations' = invalidations + 1
    /\ cache' = [d \in Docs |-> IF Reads[d] \intersect poll.changed # {} THEN None ELSE cache[d]]
    /\ poll' = [poll EXCEPT !.at = "publish"]
    /\ UNCHANGED <<disk, last, generation, log, pageVars, request, viewVars>>

(* publish(): a new generation, in a log that forgets the oldest.          *)
Publish ==
    /\ poll # Idle /\ poll.at = "publish"
    /\ generation' = generation + 1
    /\ LET all == Append(log, [gen |-> generation', names |-> poll.changed])
       IN  log' = IF Len(all) > LogSize THEN Tail(all) ELSE all
    /\ last' = poll.now /\ poll' = Idle
    /\ UNCHANGED <<disk, apiVars, pageVars, request, viewVars>>

-----------------------------------------------------------------------------
(* The page.                                                               *)

(* The stream opens: `hello` says the generation of the moment.  Only a    *)
(* page that reconnects refetches on it.                                   *)
Connect(b) ==
    /\ seen' = [seen EXCEPT ![b] = generation]
    /\ todo' = IF seen[b] = None THEN todo ELSE [todo EXCEPT ![b] = Docs]
    /\ seen[b] # None => seen[b] # generation       \* a reconnect that missed something
    /\ since' = [since EXCEPT ![b] = {}]
    /\ UNCHANGED <<disk, watchVars, apiVars, latest, shown, request, viewVars>>

(* wait(): every resource changed since, or everything for a page that fell*)
(* out of the log.                                                         *)
Wait(s) ==
    IF log # <<>> /\ log[1].gen > s + 1 THEN Resources
    ELSE UNION {log[i].names : i \in {j \in DOMAIN log : log[j].gen > s}}

(* stale(): the documents that read something that changed.                *)
Stale(changed) == {d \in Docs : Reads[d] \intersect changed # {}}

(* A `change` event: refetch what it makes stale.                          *)
Hear(b) ==
    /\ seen[b] # None /\ generation > seen[b]
    /\ seen' = [seen EXCEPT ![b] = generation]
    /\ todo' = [todo EXCEPT ![b] = @ \union Stale(Wait(seen[b]))]
    /\ UNCHANGED <<disk, watchVars, apiVars, latest, shown, since, request, viewVars>>

(* refresh(), Api.get(): the newest request for this document, answered    *)
(* from the cache or built from the record.                                *)
Refresh(b, d, t) ==
    /\ d \in todo[b] /\ request[t] = Idle
    /\ todo' = [todo EXCEPT ![b] = @ \ {d}] /\ latest' = [latest EXCEPT ![b][d] = t]
    /\ request' = [request EXCEPT ![t] =
            [page |-> b, doc |-> d, started |-> invalidations, after |-> seen[b] # None,
             got |-> IF cache[d] # None THEN cache[d] ELSE [r \in {} |-> 0], built |-> cache[d] # None]]
    /\ UNCHANGED <<disk, watchVars, apiVars, seen, shown, since, viewVars>>

(* A build reads its resources one at a time ...                           *)
Read(t, r) ==
    /\ request[t] # Idle /\ ~request[t].built
    /\ r \in Reads[request[t].doc] \ DOMAIN request[t].got
    /\ request' = [request EXCEPT ![t].got =
            [x \in DOMAIN request[t].got \union {r} |->
                IF x = r THEN disk[r] ELSE request[t].got[x]]]
    /\ UNCHANGED <<disk, watchVars, apiVars, pageVars, viewVars>>

(* Fault: a document is kept whatever moved while it was built.            *)
KeepBuilt(t) ==
    /\ request[t] # Idle /\ ~request[t].built /\ DOMAIN request[t].got = Reads[request[t].doc]
    /\ cache' = [cache EXCEPT ![request[t].doc] = request[t].got]
    /\ request' = [request EXCEPT ![t].built = TRUE]
    /\ UNCHANGED <<disk, watchVars, invalidations, pageVars, viewVars>>

(* ... and is kept only if nothing was invalidated since it began.         *)
Keep(t) ==
    /\ request[t] # Idle /\ ~request[t].built /\ DOMAIN request[t].got = Reads[request[t].doc]
    /\ cache' = IF invalidations = request[t].started
                THEN [cache EXCEPT ![request[t].doc] = request[t].got] ELSE cache
    /\ request' = [request EXCEPT ![t].built = TRUE]
    /\ UNCHANGED <<disk, watchVars, invalidations, pageVars, viewVars>>

(* Responses arrive out of order; only the newest request's is drawn.      *)
Draw(t) ==
    /\ request[t] # Idle /\ request[t].built
    /\ LET b == request[t].page
           d == request[t].doc
       IN  IF latest[b][d] = t
           THEN /\ shown' = [shown EXCEPT ![b][d] = request[t].got]
                /\ since' = IF request[t].after THEN [since EXCEPT ![b] = @ \union {d}] ELSE since
                /\ latest' = [latest EXCEPT ![b][d] = None]
           ELSE UNCHANGED <<shown, since, latest>>
    /\ request' = [request EXCEPT ![t] = Idle]
    /\ UNCHANGED <<disk, watchVars, apiVars, seen, todo, viewVars>>

PagesNext ==
    \/ \E r \in Resources : Touch(r)
    \/ \E v \in Verbs : Save(v) \/ ReadStore(v) \/ WriteViews(v) \/ LeaveStale(v)
    \/ Poll \/ Settle \/ Tick \/ Invalidate \/ Publish
    \/ \E b \in Browsers : \/ Connect(b) \/ Hear(b)
                           \/ \E d \in Docs, t \in Threads : Refresh(b, d, t)
    \/ \E t \in Threads : Keep(t) \/ Draw(t) \/ \E r \in Resources : Read(t, r)

PagesSpec == PagesInit /\ [][PagesNext]_pagesVars

-----------------------------------------------------------------------------
(* A reader is not left with an old picture in silence.  A page that has   *)
(* heard everything and waits for nothing shows, of each document it       *)
(* fetched since its stream opened, nothing older than the last change the *)
(* watcher told of: whichever builds, invalidations, events and responses  *)
(* overtook each other, and however far it fell behind the log (watch.py   *)
(* wait, api.py get, app.js refresh).  And once the verbs are done the     *)
(* views agree with the record, unless verbs overlapped, one died, or one  *)
(* said that it left them stale (cli.py _render_views).                    *)
ReadersCurrent ==
    /\ \A b \in Browsers :
        seen[b] = generation /\ todo[b] = {} =>
            \A d \in since[b] :
                latest[b][d] = None => \A r \in Reads[d] : shown[b][d][r] >= last[r]
    /\ Busy = {} /\ ViewProblem => lapse
=============================================================================
