------------------------------ MODULE ReadAhead ------------------------------
(***************************************************************************)
(* The remote browser's read-ahead (remote/read_ahead.rs): worker threads  *)
(* crawl folder trees breadth-first, several at once, into one shared      *)
(* ListingCache, while the UI cancels them and clears the cache (Refresh). *)
(*                                                                         *)
(* A crawl step is one turn of the loop in Crawl::next or in drive. The    *)
(* focus that picks among the queued folders is re-read before each        *)
(* request and may name any of them, so the pick is any queued folder. The *)
(* object store is external: it answers a request in any order, with a     *)
(* listing or an error. A cached listing is represented by whether it is   *)
(* complete and by the refresh period in which the store answered it.      *)
(* Operators named ...Unsound and QueuedTooDeep, QueuedTooShallow and      *)
(* QueuedAgain are slips the code could have made.                         *)
(***************************************************************************)
EXTENDS Naturals, FiniteSets

CONSTANTS
  Folders,       \* folder URLs
  Sub,           \* Sub[u]: the subfolders of u
  FirstPage,     \* FirstPage[u]: those on the first page of its listing
  Long,          \* the folders whose listing takes more than one page
  Roots,         \* the folders a user may expand or type
  Crawls,        \* the read-aheads (one thread each)
  MaxDepth,      \* ReadAheadLimits::max_depth
  MaxRequests,   \* ReadAheadLimits::max_requests
  Concurrency,   \* ReadAheadLimits::concurrency
  MaxRefreshes,  \* bound: how often the user presses Refresh
  Unlisted       \* no cached listing

ASSUME FoldersAssumption == Folders # {} /\ Roots \subseteq Folders
ASSUME StoreAssumption ==
  /\ Sub \in [Folders -> SUBSET Folders]
  /\ FirstPage \in [Folders -> SUBSET Folders]
  /\ Long \subseteq Folders
  /\ \A u \in Folders : FirstPage[u] \subseteq Sub[u]
  /\ \A u \in Folders \ Long : FirstPage[u] = Sub[u]
ASSUME LimitsAssumption ==
  MaxDepth \in Nat /\ MaxRequests \in Nat \ {0} /\ Concurrency \in Nat \ {0}
ASSUME MaxRefreshesAssumption == MaxRefreshes \in Nat

Periods == 0 .. MaxRefreshes

(* CachedListing. *)
Listing == [complete : BOOLEAN, period : Periods]

ASSUME UnlistedAssumption == Unlisted \notin Listing

VARIABLES
  cache,      \* the ListingCache
  crawl,      \* the read-aheads
  replies,    \* what the store answered to requests not yet processed
  cancelled,  \* the read-aheads whose token is cancelled
  period      \* how many times Refresh was pressed

vars == <<cache, crawl, replies, cancelled, period>>

(* A folder to list, with its depth below the root of the crawl. *)
Stop == [url : Folders, depth : 0 .. MaxDepth]

(* seek: the call of Crawl::next before any connection is made; connect:    *)
(* resolving credentials and connecting; check, fill, await: the loop of    *)
(* drive. The rest: not started, and the results of read_ahead.             *)
Ended == {"ok", "failed", "stopped"}
Phase == {"idle", "seek", "connect", "check", "fill", "await"} \cup Ended

Crawl ==
  [phase : Phase,
   root : Folders,
   queue : SUBSET Stop,        \* Crawl::queue
   seen : SUBSET Folders,      \* Crawl::seen
   requests : 0 .. MaxRequests,
   inFlight : SUBSET Stop,
   born : Periods,             \* the refresh period it started in (history)
   issued : SUBSET Folders,    \* folders requested (history)
   skipped : BOOLEAN]          \* did a request fail, or the budget run out
                               \* with folders left? (history)

(* A reply belongs to a crawl and a request; an error carries no listing. *)
Reply ==
  [to : Crawls, stop : Stop, ok : BOOLEAN, listing : Listing]

TypeOK ==
  /\ cache \in [Folders -> Listing \cup {Unlisted}]
  /\ crawl \in [Crawls -> Crawl]
  /\ replies \subseteq Reply
  /\ cancelled \subseteq Crawls
  /\ period \in Periods

New(u) ==
  [phase |-> "seek", root |-> u, queue |-> {[url |-> u, depth |-> 0]},
   seen |-> {u}, requests |-> 0, inFlight |-> {}, born |-> period,
   issued |-> {}, skipped |-> FALSE]

Idle == [New(CHOOSE u \in Folders : TRUE) EXCEPT !.phase = "idle"]

Init ==
  /\ cache = [u \in Folders |-> Unlisted]
  /\ period = 0
  /\ crawl = [c \in Crawls |-> Idle]
  /\ replies = {}
  /\ cancelled = {}

------------------------------------------------------------------------------
(* The crawl. *)

QueuedTooDeep(r, depth, subfolders) ==
  IF depth > MaxDepth
    THEN r
    ELSE [r EXCEPT
           !.queue = @ \cup [url : subfolders \ r.seen, depth : {depth + 1}],
           !.seen = @ \cup subfolders]

QueuedTooShallow(r, depth, subfolders) ==
  IF depth + 1 >= MaxDepth
    THEN r
    ELSE [r EXCEPT
           !.queue = @ \cup [url : subfolders \ r.seen, depth : {depth + 1}],
           !.seen = @ \cup subfolders]

QueuedAgain(r, depth, subfolders) ==
  IF depth >= MaxDepth
    THEN r
    ELSE [r EXCEPT !.queue = @ \cup [url : subfolders, depth : {depth + 1}],
                   !.seen = @ \cup subfolders]

(* Crawl::listed: queue the subfolders within the depth limit, each once. *)
Queued(r, depth, subfolders) ==
  IF depth >= MaxDepth
    THEN r
    ELSE [r EXCEPT
           !.queue = @ \cup [url : subfolders \ r.seen, depth : {depth + 1}],
           !.seen = @ \cup subfolders]

(* The subfolders a listing of u shows. *)
Shows(u, listing) == IF listing.complete THEN Sub[u] ELSE FirstPage[u]

StandsInUnsound(s) == cache[s.url] # Unlisted

(* cached_in: a cached listing saves the request; for the root, only a      *)
(* complete one does.                                                       *)
StandsIn(s) ==
  /\ cache[s.url] # Unlisted
  /\ s.depth > 0 \/ cache[s.url].complete

(* read_ahead returns: the crawl and its requests are dropped. *)
Returned(r, result) ==
  [r EXCEPT !.phase = result, !.queue = {}, !.seen = {}, !.inFlight = {}]

Return(c, result) ==
  /\ crawl' = [crawl EXCEPT ![c] = Returned(@, result)]
  /\ replies' = {a \in replies : a.to # c}

(* Crawl::next runs, in read_ahead or in drive with room for a request. *)
Seeking(c) ==
  \/ crawl[c].phase = "seek"
  \/ crawl[c].phase = "fill" /\ Cardinality(crawl[c].inFlight) < Concurrency

(* Crawl::next: a queued folder whose listing is cached is expanded on the  *)
(* spot.                                                                    *)
ExpandCached(c) ==
  /\ Seeking(c)
  /\ \E s \in crawl[c].queue :
       /\ StandsIn(s)
       /\ crawl' = [crawl EXCEPT
            ![c] = Queued([crawl[c] EXCEPT !.queue = @ \ {s}], s.depth,
                          Shows(s.url, cache[s.url]))]
  /\ UNCHANGED <<cache, replies, cancelled, period>>

(* Crawl::next: a queued folder is requested. The first request waits in    *)
(* `first` while read_ahead connects.                                       *)
Request(c) ==
  /\ Seeking(c)
  /\ crawl[c].requests < MaxRequests
  /\ \E s \in crawl[c].queue :
       /\ ~StandsIn(s)
       /\ crawl' = [crawl EXCEPT
            ![c].queue = @ \ {s},
            ![c].requests = @ + 1,
            ![c].inFlight = @ \cup {s},
            ![c].issued = @ \cup {s.url},
            ![c].phase = IF @ = "seek" THEN "connect" ELSE "fill"]
  /\ UNCHANGED <<cache, replies, cancelled, period>>

(* Crawl::next: the budget is spent; the folder picked is forgotten. Its    *)
(* first call cannot come here, as max_requests > 0.                        *)
SpendBudget(c) ==
  /\ Seeking(c)
  /\ crawl[c].requests >= MaxRequests
  /\ \E s \in crawl[c].queue :
       /\ ~StandsIn(s)
       /\ crawl' = [crawl EXCEPT ![c].queue = @ \ {s}, ![c].skipped = TRUE,
                                 ![c].phase = "await"]
  /\ UNCHANGED <<cache, replies, cancelled, period>>

(* All within reach is cached already: read_ahead has nothing to do. *)
NothingToRequest(c) ==
  /\ crawl[c].phase = "seek"
  /\ crawl[c].queue = {}
  /\ Return(c, "ok")
  /\ UNCHANGED <<cache, cancelled, period>>

(* No room for another request, or nothing left to request. *)
StopFilling(c) ==
  /\ crawl[c].phase = "fill"
  /\ Cardinality(crawl[c].inFlight) >= Concurrency \/ crawl[c].queue = {}
  /\ crawl' = [crawl EXCEPT ![c].phase = "await"]
  /\ UNCHANGED <<cache, replies, cancelled, period>>

Connect(c) ==
  /\ crawl[c].phase = "connect"
  /\ crawl' = [crawl EXCEPT ![c].phase = "check"]
  /\ UNCHANGED <<cache, replies, cancelled, period>>

(* No credentials, a malformed URL, or no client for it. *)
ConnectFails(c) ==
  /\ crawl[c].phase = "connect"
  /\ Return(c, "failed")
  /\ UNCHANGED <<cache, cancelled, period>>

GoOnUnsound(c) ==
  /\ crawl[c].phase = "check"
  /\ crawl' = [crawl EXCEPT ![c].phase = "fill"]
  /\ UNCHANGED <<cache, replies, cancelled, period>>

(* The top of drive's loop: the only place where the token is looked at. *)
GoOn(c) ==
  /\ crawl[c].phase = "check"
  /\ c \notin cancelled
  /\ crawl' = [crawl EXCEPT ![c].phase = "fill"]
  /\ UNCHANGED <<cache, replies, cancelled, period>>

SeeCancelled(c) ==
  /\ crawl[c].phase = "check"
  /\ c \in cancelled
  /\ Return(c, "stopped")
  /\ UNCHANGED <<cache, cancelled, period>>

InsertUnsound(u, listing) == [cache EXCEPT ![u] = listing]

(* ListingCache::insert: a partial listing does not displace a complete one.*)
Insert(u, listing) ==
  IF listing.complete \/ cache[u] = Unlisted \/ ~cache[u].complete
    THEN [cache EXCEPT ![u] = listing]
    ELSE cache

(* A listing lands: its subfolders are queued and it is cached. *)
LandListing(c) ==
  /\ crawl[c].phase = "await"
  /\ \E a \in replies :
       /\ a.to = c /\ a.ok
       /\ replies' = replies \ {a}
       /\ cache' = Insert(a.stop.url, a.listing)
       /\ crawl' = [crawl EXCEPT
            ![c] = Queued([crawl[c] EXCEPT !.inFlight = @ \ {a.stop},
                                           !.phase = "check"],
                          a.stop.depth, Shows(a.stop.url, a.listing))]
  /\ UNCHANGED <<cancelled, period>>

(* A folder below the root that could not be listed is passed over. *)
LandError(c) ==
  /\ crawl[c].phase = "await"
  /\ \E a \in replies :
       /\ a.to = c /\ ~a.ok /\ a.stop.depth > 0
       /\ replies' = replies \ {a}
       /\ crawl' = [crawl EXCEPT ![c].inFlight = @ \ {a.stop},
                                 ![c].skipped = TRUE,
                                 ![c].phase = "check"]
  /\ UNCHANGED <<cache, cancelled, period>>

(* The root could not be listed: the whole read-ahead failed. *)
LandRootError(c) ==
  /\ crawl[c].phase = "await"
  /\ \E a \in replies : a.to = c /\ ~a.ok /\ a.stop.depth = 0
  /\ Return(c, "failed")
  /\ UNCHANGED <<cache, cancelled, period>>

(* Nothing in flight and nothing left to request. *)
Finish(c) ==
  /\ crawl[c].phase = "await"
  /\ crawl[c].inFlight = {}
  /\ Return(c, "ok")
  /\ UNCHANGED <<cache, cancelled, period>>

------------------------------------------------------------------------------
(* The UI and the store. *)

(* spawn_read_ahead: a folder is expanded, or typed up to a separator. *)
Start(c) ==
  /\ crawl[c].phase = "idle"
  /\ \E u \in Roots : crawl' = [crawl EXCEPT ![c] = New(u)]
  /\ UNCHANGED <<cache, replies, cancelled, period>>

Running(c) == crawl[c].phase \notin {"idle"} \cup Ended

(* The folder typed has changed: its read-ahead is no longer wanted. *)
Cancel(c) ==
  /\ Running(c)
  /\ c \notin cancelled
  /\ cancelled' = cancelled \cup {c}
  /\ UNCHANGED <<cache, crawl, replies, period>>

(* Refresh: abandon every read-ahead and clear the cache. *)
Refresh ==
  /\ period < MaxRefreshes
  /\ cancelled' = cancelled \cup {c \in Crawls : Running(c)}
  /\ cache' = [u \in Folders |-> Unlisted]
  /\ period' = period + 1
  /\ UNCHANGED <<crawl, replies>>

(* Lister::list, at the store: the root is listed in full, any other folder *)
(* by one page. Requests are on their way only while drive awaits them.     *)
Answer(c) ==
  /\ crawl[c].phase = "await"
  /\ \E s \in crawl[c].inFlight, ok \in BOOLEAN :
       /\ \A a \in replies : ~(a.to = c /\ a.stop = s)
       /\ replies' = replies \cup
            {[to |-> c, stop |-> s, ok |-> ok,
              listing |-> [complete |-> s.depth = 0 \/ s.url \notin Long,
                           period |-> period]]}
  /\ UNCHANGED <<cache, crawl, cancelled, period>>

------------------------------------------------------------------------------
CrawlStep(c) ==
  \/ ExpandCached(c) \/ Request(c) \/ SpendBudget(c) \/ NothingToRequest(c)
  \/ StopFilling(c) \/ Connect(c) \/ ConnectFails(c) \/ GoOn(c) \/ SeeCancelled(c)
  \/ LandListing(c) \/ LandError(c) \/ LandRootError(c) \/ Finish(c)

Next ==
  \/ \E c \in Crawls : CrawlStep(c) \/ Answer(c) \/ Start(c) \/ Cancel(c)
  \/ Refresh

(* A worker thread runs, and a request is answered or times out. *)
Fairness == \A c \in Crawls : WF_vars(CrawlStep(c)) /\ WF_vars(Answer(c))

Spec == Init /\ [][Next]_vars /\ Fairness

------------------------------------------------------------------------------
(* Properties. *)

(* "Bounded on every axis": depth (no deeper folder is ever queued or       *)
(* requested), requests, concurrency, and no folder requested twice.        *)
Bounded ==
  \A c \in Crawls :
    /\ Cardinality(crawl[c].issued) = crawl[c].requests
    /\ crawl[c].requests <= MaxRequests
    /\ Cardinality(crawl[c].inFlight) <= Concurrency

(* A complete listing is never displaced by a partial one, whichever        *)
(* read-aheads race for the folder; only Refresh takes it away.             *)
CompleteStays ==
  [][\A u \in Folders :
       cache[u] # Unlisted /\ cache[u].complete /\ period' = period
         => cache'[u] # Unlisted /\ cache'[u].complete]_vars

(* Once a read-ahead has returned Ok, the folder it was started for is in   *)
(* the cache in full, until the next Refresh: the tree node that waits for  *)
(* it can be filled.                                                        *)
OkMeansRootListed ==
  \A c \in Crawls :
    crawl[c].phase = "ok" /\ crawl[c].born = period =>
      LET root == cache[crawl[c].root] IN root # Unlisted /\ root.complete

(* The folders a read-ahead from u is sure to come across at each depth.    *)
Within(u) ==
  LET at[d \in 0 .. MaxDepth] ==
        IF d = 0 THEN {u}
        ELSE IF d = 1 THEN Sub[u]
        ELSE UNION {FirstPage[v] : v \in at[d - 1]}
  IN  UNION {at[d] : d \in 0 .. MaxDepth}

(* The folders a read-ahead from u may come across: those in every set that *)
(* has u and is closed under listing.                                       *)
Below(u) ==
  {v \in Folders :
     \A S \in SUBSET Folders : u \in S /\ (\A w \in S : Sub[w] \subseteq S) => v \in S}

(* In a store a folder is listed inside one other: its URL extends that     *)
(* folder's. What the root itself shows may be shown again.                 *)
OneParent ==
  \A u \in Roots : \A v, w \in Below(u) \ {u} :
    v # w => Sub[v] \cap Sub[w] \subseteq Sub[u] \cup {u}

(* Once a read-ahead has returned Ok without an error or an exhausted       *)
(* budget, every folder within reach is cached, until the next Refresh. It  *)
(* takes OneParent: a folder shown by two others may first be come across   *)
(* at the greater of its depths.                                            *)
OkMeansCovered ==
  \A c \in Crawls :
    crawl[c].phase = "ok" /\ crawl[c].born = period /\ ~crawl[c].skipped =>
      \A u \in Within(crawl[c].root) : cache[u] # Unlisted

(* What Refresh does achieve: a read-ahead it cancelled brings back at most *)
(* one listing from before it, the one whose arrival wakes it up.           *)
StaleAtMostOncePerCrawl ==
  Cardinality({u \in Folders : cache[u] # Unlisted /\ cache[u].period < period})
    <= Cardinality({c \in Crawls : crawl[c].phase # "idle" /\ crawl[c].born < period})

(* "Refresh re-lists from scratch": no listing the store answered before    *)
(* the last Refresh is in the cache.                                        *)
RefreshRelists ==
  \A u \in Folders : cache[u] # Unlisted => cache[u].period = period
==============================================================================
