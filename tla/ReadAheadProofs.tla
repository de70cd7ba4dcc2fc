--------------------------- MODULE ReadAheadProofs ---------------------------
(***************************************************************************)
(* Proofs about ReadAhead for any folders, listings, number of read-aheads *)
(* and limits: its type invariant, its bounds, and what the listing cache  *)
(* and a read-ahead that returned Ok promise the browser.                  *)
(***************************************************************************)
EXTENDS ReadAhead, FiniteSetTheorems, WellFoundedInduction, TLAPS

Working == Phase \ ({"idle"} \cup Ended)

(* What is counted is counted right. *)
Counted(r) ==
  /\ IsFiniteSet(r.issued) /\ Cardinality(r.issued) = r.requests
  /\ IsFiniteSet(r.inFlight) /\ Cardinality(r.inFlight) <= Concurrency

(* Every folder is queued once, and never again once it was requested. *)
QueuedOnce(r) ==
  /\ \A s \in r.queue : s.url \in r.seen /\ s.url \notin r.issued
  /\ \A s, t \in r.queue : s.url = t.url => s = t
  /\ r.phase \in Working => r.issued \subseteq r.seen

(* Before a connection is made nothing was requested. *)
SeekingFirst(r) == r.phase = "seek" => r.requests = 0 /\ r.inFlight = {}

RootStop(r) == [url |-> r.root, depth |-> 0]

Listed(u) == cache[u] # Unlisted /\ cache[u].complete

(* The root is still the one folder to look at, or is being requested, or   *)
(* is in the cache in full.                                                 *)
RootPending(r) ==
  /\ r.born <= period
  /\ r.born = period /\ r.phase \in Working =>
       \/ Listed(r.root)
       \/ RootStop(r) \in r.inFlight
       \/ r.phase = "seek" /\ r.queue = {RootStop(r)}
  /\ r.born = period /\ r.phase = "ok" => Listed(r.root)

(* The root is listed in full. *)
RootRepliesWhole ==
  \A a \in replies : a.stop.depth = 0 => a.listing.complete

IInv ==
  /\ TypeOK
  /\ RootRepliesWhole
  /\ \A c \in Crawls :
       /\ Counted(crawl[c])
       /\ QueuedOnce(crawl[c])
       /\ SeekingFirst(crawl[c])
       /\ RootPending(crawl[c])

------------------------------------------------------------------------------
(* Lemmas about the crawl. *)

LEMMA FoldersSubfolders ==
  ASSUME NEW u \in Folders, NEW listing \in Listing
  PROVE  Shows(u, listing) \subseteq Folders
BY StoreAssumption DEF Shows

(* Crawl::listed changes only the queue and what was seen, keeps the depth  *)
(* limit, and queues no folder twice.                                       *)
LEMMA QueuedKeeps ==
  ASSUME NEW r \in Crawl, NEW depth \in 0 .. MaxDepth, NEW subs \in SUBSET Folders
  PROVE  LET q == Queued(r, depth, subs) IN
           /\ q \in Crawl
           /\ q.phase = r.phase /\ q.root = r.root /\ q.born = r.born
           /\ q.requests = r.requests /\ q.issued = r.issued
           /\ q.inFlight = r.inFlight
           /\ QueuedOnce(r) /\ r.phase \in Working => QueuedOnce(q)
<1> DEFINE q == Queued(r, depth, subs)
           more == [url : subs \ r.seen, depth : {depth + 1}]
<1>1. CASE depth >= MaxDepth
  BY <1>1 DEF Queued
<1>2. CASE ~(depth >= MaxDepth)
  <2>1. q = [r EXCEPT !.queue = r.queue \cup more, !.seen = r.seen \cup subs]
    BY <1>2 DEF Queued
  <2>2. more \subseteq Stop
    BY <1>2, LimitsAssumption DEF Stop
  <2>3. q \in Crawl
    BY <2>1, <2>2 DEF Crawl
  <2>4. /\ q.phase = r.phase /\ q.root = r.root /\ q.born = r.born
        /\ q.requests = r.requests /\ q.issued = r.issued
        /\ q.inFlight = r.inFlight
        /\ q.queue = r.queue \cup more /\ q.seen = r.seen \cup subs
    BY <2>1 DEF Crawl
  <2>5. ASSUME QueuedOnce(r), r.phase \in Working PROVE QueuedOnce(q)
    <3>1. \A s \in more : s.url \in subs /\ s.url \notin r.seen /\ s.depth = depth + 1
      OBVIOUS
    <3>2. \A s, t \in more : s.url = t.url => s = t
      OBVIOUS
    <3>3. r.issued \subseteq r.seen
      BY <2>5 DEF QueuedOnce
    <3>4. QED
      BY <2>4, <2>5, <3>1, <3>2, <3>3 DEF QueuedOnce
  <2>6. QED
    BY <2>3, <2>4, <2>5
<1>3. QED
  BY <1>1, <1>2

(* One more request: the folder was not requested before. *)
LEMMA OneMore ==
  ASSUME NEW S, IsFiniteSet(S), NEW x
  PROVE  /\ IsFiniteSet(S \cup {x})
         /\ Cardinality(S) \in Nat
         /\ x \notin S => Cardinality(S \cup {x}) = Cardinality(S) + 1
         /\ Cardinality(S \cup {x}) <= Cardinality(S) + 1
BY FS_AddElement, FS_CardinalityType

LEMMA OneLess ==
  ASSUME NEW S, IsFiniteSet(S), NEW x
  PROVE  IsFiniteSet(S \ {x}) /\ Cardinality(S \ {x}) <= Cardinality(S)
<1>1. S \ {x} \subseteq S
  OBVIOUS
<1>2. QED
  BY <1>1, FS_Subset

LEMMA NewCrawl ==
  ASSUME NEW u \in Folders, period \in Periods
  PROVE  LET r == New(u) IN
           r \in Crawl /\ Counted(r) /\ QueuedOnce(r) /\ SeekingFirst(r) /\ RootPending(r)
<1> DEFINE r == New(u)
<1>1. r \in Crawl
  BY LimitsAssumption DEF New, Crawl, Phase, Stop
<1>2. Counted(r)
  BY FS_EmptySet, LimitsAssumption DEF New, Counted
<1>3. QueuedOnce(r) /\ SeekingFirst(r)
  BY DEF New, QueuedOnce, SeekingFirst
<1>4. RootPending(r)
  BY MaxRefreshesAssumption DEF New, RootPending, RootStop, Periods, Ended
<1>5. QED
  BY <1>1, <1>2, <1>3, <1>4

LEMMA InitIInv == Init => IInv
<1> SUFFICES ASSUME Init PROVE IInv
  OBVIOUS
<1> DEFINE u == CHOOSE v \in Folders : TRUE
<1>1. u \in Folders /\ period \in Periods /\ period = 0
  BY FoldersAssumption, MaxRefreshesAssumption DEF Init, Periods
<1>2. /\ New(u) \in Crawl
      /\ Counted(New(u)) /\ QueuedOnce(New(u)) /\ RootPending(New(u))
  BY <1>1, NewCrawl
<1>3. Idle = [New(u) EXCEPT !.phase = "idle"]
  BY DEF Idle
<1>4. /\ Idle \in Crawl
      /\ Counted(Idle) /\ QueuedOnce(Idle) /\ SeekingFirst(Idle) /\ RootPending(Idle)
  BY <1>2, <1>3
  DEF Crawl, Phase, Counted, QueuedOnce, SeekingFirst, RootPending, Working, Ended
<1>5. TypeOK
  BY <1>1, <1>4 DEF Init, TypeOK
<1>6. QED
  BY <1>4, <1>5 DEF Init, IInv, RootRepliesWhole

------------------------------------------------------------------------------
(* Steps. *)

(* The invariant of one read-ahead. *)
CrawlInv(r) == Counted(r) /\ QueuedOnce(r) /\ SeekingFirst(r) /\ RootPending(r)

(* A step that changes only one read-ahead, and perhaps drops replies.      *)
LEMMA OneCrawlStep ==
  ASSUME IInv, NEW c \in Crawls, NEW r \in Crawl,
         crawl' = [crawl EXCEPT ![c] = r], CrawlInv(r),
         replies' \subseteq replies, UNCHANGED <<cache, cancelled, period>>
  PROVE  IInv'
<1>1. TypeOK'
  BY DEF IInv, TypeOK
<1>2. RootRepliesWhole'
  BY DEF IInv, RootRepliesWhole
<1>3. ASSUME NEW d \in Crawls PROVE CrawlInv(crawl[d])'
  <2>1. crawl'[d] = IF d = c THEN r ELSE crawl[d]
    BY DEF IInv, TypeOK
  <2>2. CrawlInv(crawl'[d])
    BY <2>1 DEF IInv, CrawlInv
  <2>3. QED
    BY <2>2 DEF CrawlInv, RootPending, Listed, Counted, QueuedOnce, SeekingFirst, RootStop
<1>4. QED
  BY <1>1, <1>2, <1>3 DEF IInv, CrawlInv

(* A read-ahead returns: as "ok" only when its root is listed. *)
LEMMA ReturnStep ==
  ASSUME IInv, NEW c \in Crawls, NEW result \in Ended, Return(c, result),
         UNCHANGED <<cache, cancelled, period>>,
         result = "ok" /\ crawl[c].born = period => Listed(crawl[c].root)
  PROVE  IInv'
<1> DEFINE r == Returned(crawl[c], result)
<1>1. crawl[c] \in Crawl /\ CrawlInv(crawl[c])
  BY DEF IInv, TypeOK, CrawlInv
<1>2. r \in Crawl
  BY <1>1 DEF Returned, Crawl, Phase
<1>3. /\ r.phase = result /\ r.queue = {} /\ r.inFlight = {}
      /\ r.issued = crawl[c].issued /\ r.requests = crawl[c].requests
      /\ r.root = crawl[c].root /\ r.born = crawl[c].born
  BY <1>1 DEF Returned, Crawl
<1>4. r.phase \notin Working /\ r.phase # "seek"
  BY <1>3 DEF Working, Ended
<1>5. CrawlInv(r)
  BY <1>1, <1>3, <1>4, FS_EmptySet, LimitsAssumption
  DEF CrawlInv, Counted, QueuedOnce, SeekingFirst, RootPending
<1>6. crawl' = [crawl EXCEPT ![c] = r] /\ replies' \subseteq replies
  BY DEF Return
<1>7. QED
  BY <1>2, <1>5, <1>6, OneCrawlStep

LEMMA ExpandCachedStep == ASSUME IInv, NEW c \in Crawls, ExpandCached(c) PROVE IInv'
<1>1. crawl[c] \in Crawl /\ CrawlInv(crawl[c]) /\ crawl[c].phase \in Working
  BY DEF IInv, TypeOK, CrawlInv, ExpandCached, Seeking, Working, Phase, Ended
<1>2. PICK s \in crawl[c].queue :
        /\ StandsIn(s)
        /\ crawl' = [crawl EXCEPT
             ![c] = Queued([crawl[c] EXCEPT !.queue = crawl[c].queue \ {s}],
                           s.depth, Shows(s.url, cache[s.url]))]
  BY DEF ExpandCached
<1>3. s \in Stop /\ s.url \in Folders /\ s.depth \in 0 .. MaxDepth
  BY <1>1 DEF Crawl, Stop
<1>4. cache[s.url] \in Listing
  BY <1>2, <1>3 DEF StandsIn, IInv, TypeOK
<1> DEFINE r == [crawl[c] EXCEPT !.queue = crawl[c].queue \ {s}]
           subs == Shows(s.url, cache[s.url])
           q == Queued(r, s.depth, subs)
<1>5. subs \in SUBSET Folders
  BY <1>3, <1>4, FoldersSubfolders
<1>6. /\ r \in Crawl
      /\ r.queue = crawl[c].queue \ {s} /\ r.seen = crawl[c].seen
      /\ r.phase = crawl[c].phase /\ r.root = crawl[c].root
      /\ r.born = crawl[c].born /\ r.requests = crawl[c].requests
      /\ r.issued = crawl[c].issued /\ r.inFlight = crawl[c].inFlight
  BY <1>1 DEF Crawl
<1>7. QueuedOnce(r) /\ r.phase \in Working
  BY <1>1, <1>6 DEF CrawlInv, QueuedOnce
<1> HIDE DEF r, subs
<1>8. /\ q \in Crawl /\ QueuedOnce(q)
      /\ q.phase = r.phase /\ q.root = r.root /\ q.born = r.born
      /\ q.requests = r.requests /\ q.issued = r.issued /\ q.inFlight = r.inFlight
  BY <1>3, <1>5, <1>6, <1>7, QueuedKeeps
<1> HIDE DEF q
<1>9. Counted(q) /\ SeekingFirst(q)
  BY <1>1, <1>6, <1>8 DEF CrawlInv, Counted, SeekingFirst
<1>10. RootPending(q)
  <2>1. RootStop(q) = RootStop(crawl[c])
    BY <1>6, <1>8 DEF RootStop
  <2>2. crawl[c].queue = {RootStop(crawl[c])} => Listed(crawl[c].root)
    BY <1>2 DEF RootStop, StandsIn, Listed
  <2>3. QED
    BY <1>1, <1>6, <1>8, <2>1, <2>2 DEF CrawlInv, RootPending, Working, Ended
<1>11. crawl' = [crawl EXCEPT ![c] = q]
  BY <1>2 DEF q, r, subs
<1>12. QED
  BY <1>8, <1>9, <1>10, <1>11, OneCrawlStep DEF ExpandCached, CrawlInv

LEMMA RequestStep == ASSUME IInv, NEW c \in Crawls, Request(c) PROVE IInv'
<1>1. crawl[c] \in Crawl /\ CrawlInv(crawl[c]) /\ crawl[c].phase \in Working
  <2>1. crawl[c].phase \in {"seek", "fill"}
    BY DEF Request, Seeking
  <2>2. QED
    BY <2>1 DEF IInv, TypeOK, CrawlInv, Working, Phase, Ended
<1>2. PICK s \in crawl[c].queue :
        /\ ~StandsIn(s)
        /\ crawl' = [crawl EXCEPT
             ![c].queue = @ \ {s},
             ![c].requests = @ + 1,
             ![c].inFlight = @ \cup {s},
             ![c].issued = @ \cup {s.url},
             ![c].phase = IF @ = "seek" THEN "connect" ELSE "fill"]
  BY DEF Request
<1> DEFINE to == IF crawl[c].phase = "seek" THEN "connect" ELSE "fill"
           r == [crawl[c] EXCEPT
                   !.queue = crawl[c].queue \ {s},
                   !.requests = crawl[c].requests + 1,
                   !.inFlight = crawl[c].inFlight \cup {s},
                   !.issued = crawl[c].issued \cup {s.url},
                   !.phase = to]
<1>3. s \in Stop /\ s.url \in Folders
  BY <1>1 DEF Crawl, Stop
<1>4. to \in Working /\ to # "seek"
  BY DEF Working, Phase, Ended
<1> HIDE DEF to
<1>5. r \in Crawl
  <2>1. crawl[c].requests + 1 \in 0 .. MaxRequests
    BY <1>1, LimitsAssumption DEF Crawl, Request
  <2>2. to \in Phase
    BY <1>4 DEF Working
  <2>3. QED
    BY <1>1, <1>3, <2>1, <2>2 DEF Crawl
<1>6. /\ r.queue = crawl[c].queue \ {s} /\ r.seen = crawl[c].seen
      /\ r.phase = to /\ r.root = crawl[c].root
      /\ r.born = crawl[c].born /\ r.requests = crawl[c].requests + 1
      /\ r.issued = crawl[c].issued \cup {s.url}
      /\ r.inFlight = crawl[c].inFlight \cup {s}
  BY <1>1 DEF Crawl
<1>7. crawl' = [crawl EXCEPT ![c] = r]
  BY <1>1, <1>2 DEF to
<1> HIDE DEF r
<1>8. Counted(r)
  <2>1. s.url \notin crawl[c].issued
    BY <1>1 DEF CrawlInv, QueuedOnce
  <2>2. IsFiniteSet(r.issued) /\ Cardinality(r.issued) = r.requests
    <3>1. /\ IsFiniteSet(crawl[c].issued)
          /\ Cardinality(crawl[c].issued) = crawl[c].requests
      BY <1>1 DEF CrawlInv, Counted
    <3>2. /\ IsFiniteSet(crawl[c].issued \cup {s.url})
          /\ Cardinality(crawl[c].issued \cup {s.url})
               = Cardinality(crawl[c].issued) + 1
      BY <2>1, <3>1, OneMore
    <3>3. QED
      BY <1>6, <3>1, <3>2
  <2>3. Cardinality(crawl[c].inFlight) + 1 <= Concurrency
    <3>1. CASE crawl[c].phase = "seek"
      BY <1>1, <3>1, FS_EmptySet, LimitsAssumption DEF CrawlInv, SeekingFirst
    <3>2. CASE crawl[c].phase # "seek"
      BY <1>1, <3>2, LimitsAssumption, FS_CardinalityType
      DEF Request, Seeking, CrawlInv, Counted
    <3>3. QED
      BY <3>1, <3>2
  <2>4. /\ IsFiniteSet(r.inFlight)
        /\ Cardinality(r.inFlight) <= Cardinality(crawl[c].inFlight) + 1
        /\ Cardinality(crawl[c].inFlight) \in Nat
    <3>1. IsFiniteSet(crawl[c].inFlight)
      BY <1>1 DEF CrawlInv, Counted
    <3>2. /\ IsFiniteSet(crawl[c].inFlight \cup {s})
          /\ Cardinality(crawl[c].inFlight \cup {s})
               <= Cardinality(crawl[c].inFlight) + 1
          /\ Cardinality(crawl[c].inFlight) \in Nat
      BY <3>1, OneMore
    <3>3. QED
      BY <1>6, <3>2
  <2>5. Cardinality(r.inFlight) \in Nat
    BY <2>4, FS_CardinalityType
  <2>6. QED
    BY <2>2, <2>3, <2>4, <2>5, LimitsAssumption DEF Counted
<1>9. QueuedOnce(r) /\ SeekingFirst(r)
  BY <1>1, <1>4, <1>6 DEF CrawlInv, QueuedOnce, SeekingFirst
<1>10. RootPending(r)
  <2>1. RootStop(r) = RootStop(crawl[c])
    BY <1>6 DEF RootStop
  <2>2. QED
    BY <1>1, <1>4, <1>6, <2>1 DEF CrawlInv, RootPending, Working, Ended
<1>11. QED
  BY <1>5, <1>7, <1>8, <1>9, <1>10, OneCrawlStep DEF Request, CrawlInv

LEMMA SpendBudgetStep == ASSUME IInv, NEW c \in Crawls, SpendBudget(c) PROVE IInv'
<1>1. crawl[c] \in Crawl /\ CrawlInv(crawl[c])
  BY DEF IInv, TypeOK, CrawlInv
<1>2. crawl[c].phase = "fill"
  BY <1>1, LimitsAssumption DEF SpendBudget, Seeking, CrawlInv, SeekingFirst
<1>3. PICK s \in crawl[c].queue :
        crawl' = [crawl EXCEPT ![c].queue = @ \ {s}, ![c].skipped = TRUE,
                               ![c].phase = "await"]
  BY DEF SpendBudget
<1> DEFINE r == [crawl[c] EXCEPT !.queue = crawl[c].queue \ {s},
                                 !.skipped = TRUE, !.phase = "await"]
<1>4. r \in Crawl
  BY <1>1 DEF Crawl, Phase
<1>5. /\ r.queue \subseteq crawl[c].queue /\ r.seen = crawl[c].seen
      /\ r.phase = "await" /\ r.root = crawl[c].root
      /\ r.born = crawl[c].born /\ r.requests = crawl[c].requests
      /\ r.issued = crawl[c].issued /\ r.inFlight = crawl[c].inFlight
  BY <1>1 DEF Crawl
<1>6. crawl' = [crawl EXCEPT ![c] = r]
  BY <1>3
<1> HIDE DEF r
<1>7. CrawlInv(r)
  <2>1. RootStop(r) = RootStop(crawl[c])
    BY <1>5 DEF RootStop
  <2>2. QED
    BY <1>1, <1>2, <1>5, <2>1
    DEF CrawlInv, Counted, QueuedOnce, SeekingFirst, RootPending, Working, Phase, Ended
<1>8. QED
  BY <1>4, <1>6, <1>7, OneCrawlStep DEF SpendBudget

(* A step that moves a connected read-ahead to another phase of its loop.   *)
LEMMA MoveStep ==
  ASSUME IInv, NEW c \in Crawls, NEW to \in {"check", "fill", "await"},
         crawl[c].phase \in Working, crawl[c].phase # "seek",
         crawl' = [crawl EXCEPT ![c].phase = to],
         UNCHANGED <<cache, replies, cancelled, period>>
  PROVE  IInv'
<1>1. crawl[c] \in Crawl /\ CrawlInv(crawl[c])
  BY DEF IInv, TypeOK, CrawlInv
<1> DEFINE r == [crawl[c] EXCEPT !.phase = to]
<1>2. r \in Crawl
  BY <1>1 DEF Crawl, Phase
<1>3. /\ r.queue = crawl[c].queue /\ r.seen = crawl[c].seen
      /\ r.phase = to /\ r.root = crawl[c].root
      /\ r.born = crawl[c].born /\ r.requests = crawl[c].requests
      /\ r.issued = crawl[c].issued /\ r.inFlight = crawl[c].inFlight
  BY <1>1 DEF Crawl
<1>4. crawl' = [crawl EXCEPT ![c] = r]
  OBVIOUS
<1> HIDE DEF r
<1>5. CrawlInv(r)
  <2>1. RootStop(r) = RootStop(crawl[c])
    BY <1>3 DEF RootStop
  <2>2. QED
    BY <1>1, <1>3, <2>1
    DEF CrawlInv, Counted, QueuedOnce, SeekingFirst, RootPending, Working, Phase, Ended
<1>6. QED
  BY <1>2, <1>4, <1>5, OneCrawlStep

LEMMA LandErrorStep == ASSUME IInv, NEW c \in Crawls, LandError(c) PROVE IInv'
<1>1. crawl[c] \in Crawl /\ CrawlInv(crawl[c]) /\ crawl[c].phase = "await"
  BY DEF IInv, TypeOK, CrawlInv, LandError
<1>2. PICK a \in replies :
        /\ a.stop.depth > 0
        /\ replies' = replies \ {a}
        /\ crawl' = [crawl EXCEPT ![c].inFlight = @ \ {a.stop},
                                  ![c].skipped = TRUE,
                                  ![c].phase = "check"]
  BY DEF LandError
<1> DEFINE r == [crawl[c] EXCEPT !.inFlight = crawl[c].inFlight \ {a.stop},
                                 !.skipped = TRUE, !.phase = "check"]
<1>3. r \in Crawl
  BY <1>1 DEF Crawl, Phase
<1>4. /\ r.queue = crawl[c].queue /\ r.seen = crawl[c].seen
      /\ r.phase = "check" /\ r.root = crawl[c].root
      /\ r.born = crawl[c].born /\ r.requests = crawl[c].requests
      /\ r.issued = crawl[c].issued
      /\ r.inFlight = crawl[c].inFlight \ {a.stop}
  BY <1>1 DEF Crawl
<1>5. crawl' = [crawl EXCEPT ![c] = r]
  BY <1>2
<1> HIDE DEF r
<1>6. Counted(r)
  <2>1. /\ IsFiniteSet(crawl[c].inFlight)
        /\ Cardinality(crawl[c].inFlight) <= Concurrency
    BY <1>1 DEF CrawlInv, Counted
  <2>2. /\ IsFiniteSet(crawl[c].inFlight \ {a.stop})
        /\ Cardinality(crawl[c].inFlight \ {a.stop}) <= Cardinality(crawl[c].inFlight)
    BY <2>1, OneLess
  <2>3. /\ Cardinality(crawl[c].inFlight \ {a.stop}) \in Nat
        /\ Cardinality(crawl[c].inFlight) \in Nat
    BY <2>1, <2>2, FS_CardinalityType
  <2>4. QED
    BY <1>1, <1>4, <2>1, <2>2, <2>3, LimitsAssumption DEF CrawlInv, Counted
<1>7. QueuedOnce(r) /\ SeekingFirst(r)
  BY <1>1, <1>4 DEF CrawlInv, QueuedOnce, SeekingFirst, Working, Phase, Ended
<1>8. RootPending(r)
  <2>1. RootStop(r) = RootStop(crawl[c]) /\ RootStop(crawl[c]).depth = 0
    BY <1>4 DEF RootStop
  <2>2. RootStop(crawl[c]) # a.stop
    BY <1>2, <2>1
  <2>3. QED
    BY <1>1, <1>4, <2>1, <2>2 DEF CrawlInv, RootPending, Working, Phase, Ended
<1>9. QED
  BY <1>2, <1>3, <1>5, <1>6, <1>7, <1>8, OneCrawlStep DEF LandError, CrawlInv

ListedNext(u) == cache'[u] # Unlisted /\ cache'[u].complete

(* ListingCache::insert never takes a complete listing away.                *)
LEMMA InsertKeeps ==
  ASSUME TypeOK, NEW u \in Folders, NEW listing \in Listing,
         cache' = Insert(u, listing)
  PROVE  /\ cache' \in [Folders -> Listing \cup {Unlisted}]
         /\ \A v \in Folders : Listed(v) => ListedNext(v)
         /\ listing.complete => ListedNext(u)
<1>1. cache' \in [Folders -> Listing \cup {Unlisted}]
  BY DEF TypeOK, Insert
<1>2. ASSUME NEW v \in Folders, Listed(v) PROVE ListedNext(v)
  BY <1>2, UnlistedAssumption DEF TypeOK, Insert, Listed, ListedNext
<1>3. ASSUME listing.complete PROVE ListedNext(u)
  BY <1>3, UnlistedAssumption DEF TypeOK, Insert, ListedNext
<1>4. QED
  BY <1>1, <1>2, <1>3

LEMMA LandListingStep == ASSUME IInv, NEW c \in Crawls, LandListing(c) PROVE IInv'
<1>1. crawl[c] \in Crawl /\ CrawlInv(crawl[c]) /\ crawl[c].phase = "await"
  BY DEF IInv, TypeOK, CrawlInv, LandListing
<1>2. PICK a \in replies :
        /\ replies' = replies \ {a}
        /\ cache' = Insert(a.stop.url, a.listing)
        /\ crawl' = [crawl EXCEPT
             ![c] = Queued([crawl[c] EXCEPT !.inFlight = @ \ {a.stop},
                                            !.phase = "check"],
                           a.stop.depth, Shows(a.stop.url, a.listing))]
  BY DEF LandListing
<1>3. /\ a \in Reply /\ a.stop \in Stop /\ a.listing \in Listing
      /\ a.stop.url \in Folders /\ a.stop.depth \in 0 .. MaxDepth
      /\ a.stop.depth = 0 => a.listing.complete
  BY DEF IInv, TypeOK, RootRepliesWhole, Reply, Stop
<1> DEFINE r == [crawl[c] EXCEPT !.inFlight = @ \ {a.stop}, !.phase = "check"]
           subs == Shows(a.stop.url, a.listing)
<1> PICK q : q = Queued(r, a.stop.depth, subs)
  OBVIOUS
<1>4. subs \in SUBSET Folders
  BY <1>3, FoldersSubfolders
<1>5. r \in Crawl
  BY <1>1 DEF Crawl, Phase
<1>6. /\ r.queue = crawl[c].queue /\ r.seen = crawl[c].seen
      /\ r.phase = "check" /\ r.root = crawl[c].root
      /\ r.born = crawl[c].born /\ r.requests = crawl[c].requests
      /\ r.issued = crawl[c].issued
      /\ r.inFlight = crawl[c].inFlight \ {a.stop}
  BY <1>1 DEF Crawl
<1>7. crawl' = [crawl EXCEPT ![c] = q]
  BY <1>2
<1> HIDE DEF r, subs
<1>8. QueuedOnce(r) /\ r.phase \in Working
  BY <1>1, <1>6 DEF CrawlInv, QueuedOnce, Working, Phase, Ended
<1>9. /\ q \in Crawl /\ QueuedOnce(q)
      /\ q.phase = r.phase /\ q.root = r.root /\ q.born = r.born
      /\ q.requests = r.requests /\ q.issued = r.issued /\ q.inFlight = r.inFlight
  BY <1>3, <1>4, <1>5, <1>8, QueuedKeeps
<1>10. Counted(q)
  <2>1. /\ IsFiniteSet(crawl[c].inFlight)
        /\ Cardinality(crawl[c].inFlight) <= Concurrency
    BY <1>1 DEF CrawlInv, Counted
  <2>2. /\ IsFiniteSet(crawl[c].inFlight \ {a.stop})
        /\ Cardinality(crawl[c].inFlight \ {a.stop}) <= Cardinality(crawl[c].inFlight)
    BY <2>1, OneLess
  <2>3. /\ Cardinality(crawl[c].inFlight \ {a.stop}) \in Nat
        /\ Cardinality(crawl[c].inFlight) \in Nat
    BY <2>1, <2>2, FS_CardinalityType
  <2>4. QED
    BY <1>1, <1>6, <1>9, <2>1, <2>2, <2>3, LimitsAssumption DEF CrawlInv, Counted
<1>11. SeekingFirst(q)
  BY <1>6, <1>9 DEF SeekingFirst
<1>12. /\ cache' \in [Folders -> Listing \cup {Unlisted}]
       /\ \A v \in Folders : Listed(v) => ListedNext(v)
       /\ a.listing.complete => ListedNext(a.stop.url)
  BY <1>2, <1>3, InsertKeeps DEF IInv
<1>13. period' = period /\ cancelled' = cancelled
  BY DEF LandListing
<1>14. RootPending(q)'
  <2>1. RootStop(q) = RootStop(crawl[c]) /\ q.root \in Folders
    BY <1>6, <1>9 DEF RootStop, Crawl
  <2>2. a.stop = RootStop(crawl[c]) => ListedNext(q.root)
    BY <1>3, <1>6, <1>9, <1>12 DEF RootStop
  <2>3. q.born <= period /\ q.phase = "check"
    BY <1>1, <1>6, <1>9 DEF CrawlInv, RootPending
  <2>4. q.born = period =>
          Listed(q.root) \/ RootStop(crawl[c]) \in crawl[c].inFlight
    BY <1>1, <1>6, <1>9 DEF CrawlInv, RootPending, Working, Phase, Ended
  <2>5. q.born = period => ListedNext(q.root) \/ RootStop(q) \in q.inFlight
    BY <1>6, <1>9, <1>12, <2>1, <2>2, <2>4
  <2>6. QED
    BY <1>13, <2>3, <2>5 DEF RootPending, RootStop, Listed, ListedNext
<1>15. ASSUME NEW d \in Crawls PROVE CrawlInv(crawl[d])'
  <2>1. CASE d = c
    <3>1. crawl'[d] = q
      BY <1>7, <2>1 DEF IInv, TypeOK
    <3>2. QED
      BY <1>9, <1>10, <1>11, <1>14, <3>1
      DEF CrawlInv, Counted, QueuedOnce, SeekingFirst, RootPending, RootStop, Listed
  <2>2. CASE d # c
    <3>1. crawl'[d] = crawl[d]
      BY <1>7, <2>2 DEF IInv, TypeOK
    <3>2. crawl[d].root \in Folders
      BY DEF IInv, TypeOK, Crawl
    <3>3. Listed(crawl[d].root) => ListedNext(crawl[d].root)
      BY <1>12, <3>2
    <3>4. QED
      BY <1>13, <3>1, <3>3
      DEF IInv, CrawlInv, Counted, QueuedOnce, SeekingFirst, RootPending, RootStop,
          Listed, ListedNext
  <2>3. QED
    BY <2>1, <2>2
<1>16. TypeOK'
  BY <1>2, <1>7, <1>9, <1>12, <1>13 DEF IInv, TypeOK
<1>17. RootRepliesWhole'
  BY <1>2 DEF IInv, RootRepliesWhole
<1>18. QED
  BY <1>15, <1>16, <1>17 DEF IInv, CrawlInv

LEMMA StartStep == ASSUME IInv, NEW c \in Crawls, Start(c) PROVE IInv'
<1>1. PICK u \in Roots : crawl' = [crawl EXCEPT ![c] = New(u)]
  BY DEF Start
<1>2. u \in Folders /\ period \in Periods
  BY FoldersAssumption DEF IInv, TypeOK
<1>3. New(u) \in Crawl /\ CrawlInv(New(u))
  BY <1>2, NewCrawl DEF CrawlInv
<1>4. QED
  BY <1>1, <1>3, OneCrawlStep DEF Start

LEMMA AnswerStep == ASSUME IInv, NEW c \in Crawls, Answer(c) PROVE IInv'
<1>1. PICK s \in crawl[c].inFlight, ok \in BOOLEAN :
        replies' = replies \cup
          {[to |-> c, stop |-> s, ok |-> ok,
            listing |-> [complete |-> s.depth = 0 \/ s.url \notin Long,
                         period |-> period]]}
  BY DEF Answer
<1> DEFINE listing == [complete |-> s.depth = 0 \/ s.url \notin Long,
                       period |-> period]
           a == [to |-> c, stop |-> s, ok |-> ok, listing |-> listing]
<1>2. s \in Stop
  BY DEF IInv, TypeOK, Crawl
<1>3. listing \in Listing
  BY DEF IInv, TypeOK, Listing
<1>4. a.stop = s /\ a.listing.complete = (s.depth = 0 \/ s.url \notin Long)
  OBVIOUS
<1>5. replies' = replies \cup {a}
  BY <1>1
<1> HIDE DEF listing
<1>6. a \in Reply
  BY <1>2, <1>3 DEF Reply
<1> HIDE DEF a
<1>7. RootRepliesWhole'
  BY <1>4, <1>5 DEF IInv, RootRepliesWhole
<1>8. TypeOK'
  BY <1>5, <1>6 DEF IInv, TypeOK, Answer
<1>9. UNCHANGED <<cache, crawl, period>>
  BY DEF Answer
<1>10. QED
  BY <1>7, <1>8, <1>9
  DEF IInv, Counted, QueuedOnce, SeekingFirst, RootPending, RootStop, Listed

LEMMA RefreshStep == ASSUME IInv, Refresh PROVE IInv'
<1>1. /\ period \in Nat /\ period' = period + 1 /\ period' \in Periods
      /\ UNCHANGED <<crawl, replies>>
  BY MaxRefreshesAssumption DEF IInv, TypeOK, Refresh, Periods
<1>2. TypeOK'
  BY <1>1 DEF IInv, TypeOK, Refresh
<1>3. RootRepliesWhole'
  BY <1>1 DEF IInv, RootRepliesWhole
<1>4. ASSUME NEW d \in Crawls PROVE CrawlInv(crawl[d])'
  <2>1. CrawlInv(crawl[d]) /\ crawl[d].born \in Nat /\ crawl'[d] = crawl[d]
    BY <1>1, MaxRefreshesAssumption DEF IInv, CrawlInv, TypeOK, Crawl, Periods
  <2>2. RootPending(crawl[d])'
    BY <1>1, <2>1 DEF CrawlInv, RootPending
  <2>3. QED
    BY <2>1, <2>2 DEF CrawlInv, Counted, QueuedOnce, SeekingFirst
<1>5. QED
  BY <1>2, <1>3, <1>4 DEF IInv, CrawlInv

LEMMA NextIInv == IInv /\ [Next]_vars => IInv'
<1> SUFFICES ASSUME IInv, [Next]_vars PROVE IInv'
  OBVIOUS
<1>1. ASSUME NEW c \in Crawls, ExpandCached(c) \/ Request(c) \/ SpendBudget(c)
      PROVE  IInv'
  BY <1>1, ExpandCachedStep, RequestStep, SpendBudgetStep
<1>2. ASSUME NEW c \in Crawls, NothingToRequest(c) \/ Finish(c) PROVE IInv'
  <2>1. CrawlInv(crawl[c])
    BY DEF IInv, CrawlInv
  <2>2. crawl[c].born = period => Listed(crawl[c].root)
    BY <1>2, <2>1
    DEF NothingToRequest, Finish, CrawlInv, SeekingFirst, RootPending, Working,
        Phase, Ended
  <2>3. QED
    BY <1>2, <2>2, ReturnStep DEF NothingToRequest, Finish, Ended
<1>3. ASSUME NEW c \in Crawls,
             ConnectFails(c) \/ SeeCancelled(c) \/ LandRootError(c)
      PROVE  IInv'
  BY <1>3, ReturnStep DEF ConnectFails, SeeCancelled, LandRootError, Ended
<1>4. ASSUME NEW c \in Crawls, StopFilling(c) \/ Connect(c) \/ GoOn(c) PROVE IInv'
  BY <1>4, MoveStep DEF StopFilling, Connect, GoOn, Working, Phase, Ended
<1>5. ASSUME NEW c \in Crawls, LandListing(c) \/ LandError(c) PROVE IInv'
  BY <1>5, LandListingStep, LandErrorStep
<1>6. ASSUME NEW c \in Crawls, Start(c) \/ Answer(c) PROVE IInv'
  BY <1>6, StartStep, AnswerStep
<1>7. ASSUME NEW c \in Crawls, Cancel(c) PROVE IInv'
  <2>1. UNCHANGED <<cache, crawl, replies, period>> /\ cancelled' \subseteq Crawls
    BY <1>7 DEF Cancel, IInv, TypeOK
  <2>2. TypeOK'
    BY <2>1 DEF IInv, TypeOK
  <2>3. QED
    BY <2>1, <2>2
    DEF IInv, RootRepliesWhole, Counted, QueuedOnce, SeekingFirst, RootPending,
        RootStop, Listed
<1>8. CASE Refresh
  BY <1>8, RefreshStep
<1>9. CASE UNCHANGED vars
  <2>1. TypeOK'
    BY <1>9 DEF vars, IInv, TypeOK
  <2>2. QED
    BY <1>9, <2>1
    DEF vars, IInv, RootRepliesWhole, Counted, QueuedOnce, SeekingFirst,
        RootPending, RootStop, Listed
<1>10. QED
  BY <1>1, <1>2, <1>3, <1>4, <1>5, <1>6, <1>7, <1>8, <1>9 DEF Next, CrawlStep

------------------------------------------------------------------------------
(* Theorems. *)

(* The invariant holds in every reachable state of the read-aheads and the  *)
(* cache they share.                                                        *)
THEOREM InvariantHolds == Spec => []IInv
BY InitIInv, NextIInv, PTL DEF Spec

(* Type correctness; with it the depth limit: no folder deeper than         *)
(* MaxDepth is ever queued or requested.                                    *)
THEOREM TypeCorrect == Spec => []TypeOK
<1>1. IInv => TypeOK
  BY DEF IInv
<1>2. QED
  BY <1>1, InvariantHolds, PTL

(* "Bounded on every axis": a read-ahead makes at most MaxRequests requests,*)
(* no two for one folder, at most Concurrency of them at a time, however    *)
(* cached folders are expanded in between.                                  *)
THEOREM CrawlsBounded == Spec => []Bounded
<1>1. IInv => Bounded
  <2> SUFFICES ASSUME IInv, NEW c \in Crawls
               PROVE  /\ Cardinality(crawl[c].issued) = crawl[c].requests
                      /\ crawl[c].requests <= MaxRequests
                      /\ Cardinality(crawl[c].inFlight) <= Concurrency
    BY DEF Bounded
  <2>1. crawl[c].requests \in 0 .. MaxRequests
    BY DEF IInv, TypeOK, Crawl
  <2>2. QED
    BY <2>1 DEF IInv, Counted
<1>2. QED
  BY <1>1, InvariantHolds, PTL

(* A read-ahead that returned Ok has its root in the cache, in full, until  *)
(* the next Refresh, whatever other read-aheads insert.                     *)
THEOREM OkRootListed == Spec => []OkMeansRootListed
<1>1. IInv => OkMeansRootListed
  BY DEF IInv, RootPending, Listed, OkMeansRootListed
<1>2. QED
  BY <1>1, InvariantHolds, PTL

(* ListingCache keeps a complete listing until it is cleared, whichever     *)
(* read-aheads race for the folder.                                         *)
THEOREM CompleteListingStays == Spec => CompleteStays
<1> DEFINE Kept ==
      \A u \in Folders :
        cache[u] # Unlisted /\ cache[u].complete /\ period' = period
          => cache'[u] # Unlisted /\ cache'[u].complete
<1>1. ASSUME IInv, Next PROVE Kept
  <2>1. ASSUME NEW c \in Crawls, LandListing(c) PROVE Kept
    <3>1. PICK a \in replies : cache' = Insert(a.stop.url, a.listing)
      BY <2>1 DEF LandListing
    <3>2. a.stop.url \in Folders /\ a.listing \in Listing
      BY <1>1 DEF IInv, TypeOK, Reply, Stop
    <3>3. QED
      BY <1>1, <3>1, <3>2, InsertKeeps DEF IInv, Listed, ListedNext
  <2>2. CASE Refresh
    BY <1>1, <2>2, MaxRefreshesAssumption DEF IInv, TypeOK, Refresh, Periods
  <2>3. CASE UNCHANGED cache
    BY <2>3
  <2>4. ASSUME NEW c \in Crawls, CrawlStep(c), ~LandListing(c) PROVE UNCHANGED cache
    BY <2>4
    DEF CrawlStep, ExpandCached, Request, SpendBudget, NothingToRequest, StopFilling,
        Connect, ConnectFails, GoOn, SeeCancelled, LandError, LandRootError, Finish
  <2>5. ASSUME NEW c \in Crawls, Answer(c) \/ Start(c) \/ Cancel(c)
        PROVE  UNCHANGED cache
    BY <2>5 DEF Answer, Start, Cancel
  <2>6. QED
    BY <1>1, <2>1, <2>2, <2>3, <2>4, <2>5 DEF Next
<1>2. IInv /\ [Next]_vars => [Kept]_vars
  BY <1>1
<1>3. QED
  BY <1>2, InvariantHolds, PTL DEF Spec, CompleteStays

------------------------------------------------------------------------------
(* What Refresh leaves behind. *)

Resting == {"check"} \cup Ended

(* The read-aheads from before the last Refresh that have been woken by a   *)
(* reply or have ended: each can have brought one stale listing.            *)
Woken == {c \in Crawls : crawl[c].phase \in Resting /\ crawl[c].born < period}

Stale == {u \in Folders : cache[u] # Unlisted /\ cache[u].period < period}

Started == {c \in Crawls : crawl[c].phase # "idle"}

(* A reply is not older than the read-ahead it is for.                      *)
RepliesYoung ==
  \A a \in replies : a.to \in Started /\ crawl[a.to].born <= a.listing.period

(* Refresh cancels whatever runs.                                           *)
OldCancelled ==
  \A c \in Crawls : Running(c) /\ crawl[c].born < period => c \in cancelled

StaleInv ==
  /\ RepliesYoung
  /\ OldCancelled
  /\ IsFiniteSet(Started) /\ IsFiniteSet(Stale)
  /\ Cardinality(Stale) <= Cardinality(Woken)

LEMMA InitStale == Init => StaleInv
<1> SUFFICES ASSUME Init PROVE StaleInv
  OBVIOUS
<1>1. \A c \in Crawls : crawl[c].phase = "idle"
  <2>1. Idle.phase = "idle"
    BY DEF Idle, New
  <2>2. QED
    BY <2>1 DEF Init
<1>2. Started = {} /\ Woken = {} /\ Stale = {} /\ replies = {}
  BY <1>1 DEF Started, Woken, Stale, Resting, Ended, Init
<1>3. QED
  BY <1>1, <1>2, FS_EmptySet DEF StaleInv, RepliesYoung, OldCancelled, Running

(* A step of the read-aheads: what was woken stays so, none is born, and    *)
(* none starts or is forgotten.                                             *)
Onward ==
  \A d \in Crawls :
    /\ crawl'[d].born = crawl[d].born
    /\ crawl'[d].phase = "idle" <=> crawl[d].phase = "idle"
    /\ Running(d)' => Running(d)
    /\ d \in Woken => crawl'[d].phase \in Resting

LEMMA OneOnward ==
  ASSUME TypeOK, NEW c \in Crawls, NEW r, crawl' = [crawl EXCEPT ![c] = r],
         r.born = crawl[c].born, r.phase # "idle", Running(c),
         c \in Woken => r.phase \in Resting
  PROVE  Onward
<1> SUFFICES ASSUME NEW d \in Crawls PROVE
      /\ crawl'[d].born = crawl[d].born
      /\ crawl'[d].phase = "idle" <=> crawl[d].phase = "idle"
      /\ Running(d)' => Running(d)
      /\ d \in Woken => crawl'[d].phase \in Resting
  BY DEF Onward
<1>1. crawl'[d] = IF d = c THEN r ELSE crawl[d]
  BY DEF TypeOK
<1>2. QED
  BY <1>1 DEF Running, Woken

(* Every step of the loop is such a step; only a listing that lands changes *)
(* the cache. A woken read-ahead sees at once that it was cancelled.        *)
LEMMA ReturnOnward ==
  ASSUME IInv, NEW c \in Crawls, NEW result \in Ended, Return(c, result), Running(c)
  PROVE  Onward /\ replies' \subseteq replies
<1> DEFINE r == Returned(crawl[c], result)
<1>1. crawl[c] \in Crawl
  BY DEF IInv, TypeOK
<1>2. r.born = crawl[c].born /\ r.phase = result
  BY <1>1 DEF Returned, Crawl
<1>3. crawl' = [crawl EXCEPT ![c] = r] /\ replies' \subseteq replies
  BY DEF Return
<1> HIDE DEF r
<1>4. r.phase # "idle" /\ r.phase \in Resting
  BY <1>2 DEF Ended, Resting
<1>5. QED
  BY <1>2, <1>3, <1>4, OneOnward DEF IInv

LEMMA CrawlStepOnward ==
  ASSUME IInv, StaleInv, NEW c \in Crawls, CrawlStep(c)
  PROVE  /\ Onward /\ replies' \subseteq replies /\ UNCHANGED <<cancelled, period>>
         /\ LandListing(c) \/ UNCHANGED cache
<1>1. crawl[c] \in Crawl
  BY DEF IInv, TypeOK
<1>2. CASE ExpandCached(c)
  <2>1. PICK s \in crawl[c].queue :
          /\ StandsIn(s)
          /\ crawl' = [crawl EXCEPT
               ![c] = Queued([crawl[c] EXCEPT !.queue = @ \ {s}], s.depth,
                             Shows(s.url, cache[s.url]))]
    BY <1>2 DEF ExpandCached
  <2> DEFINE r == [crawl[c] EXCEPT !.queue = crawl[c].queue \ {s}]
  <2> PICK q : q = Queued(r, s.depth, Shows(s.url, cache[s.url]))
    OBVIOUS
  <2>2. r \in Crawl /\ r.phase = crawl[c].phase /\ r.born = crawl[c].born
    BY <1>1 DEF Crawl
  <2>3. s \in Stop /\ cache[s.url] \in Listing
    BY <1>1, <2>1 DEF Crawl, Stop, StandsIn, IInv, TypeOK
  <2>4. Shows(s.url, cache[s.url]) \in SUBSET Folders /\ s.depth \in 0 .. MaxDepth
    BY <2>3, FoldersSubfolders DEF Stop
  <2> HIDE DEF r
  <2>5. q.phase = crawl[c].phase /\ q.born = crawl[c].born
    BY <2>2, <2>4, QueuedKeeps
  <2>6. crawl' = [crawl EXCEPT ![c] = q]
    BY <2>1 DEF r
  <2>7. crawl[c].phase \in {"seek", "fill"}
    BY <1>2 DEF ExpandCached, Seeking
  <2>8. Onward
    BY <2>5, <2>6, <2>7, OneOnward DEF IInv, Running, Woken, Resting, Ended
  <2>9. QED
    BY <1>2, <2>8 DEF ExpandCached
<1>3. CASE Request(c)
  <2>1. PICK s \in crawl[c].queue :
          crawl' = [crawl EXCEPT
            ![c].queue = @ \ {s},
            ![c].requests = @ + 1,
            ![c].inFlight = @ \cup {s},
            ![c].issued = @ \cup {s.url},
            ![c].phase = IF @ = "seek" THEN "connect" ELSE "fill"]
    BY <1>3 DEF Request
  <2> DEFINE to == IF crawl[c].phase = "seek" THEN "connect" ELSE "fill"
             r == [crawl[c] EXCEPT
                     !.queue = crawl[c].queue \ {s},
                     !.requests = crawl[c].requests + 1,
                     !.inFlight = crawl[c].inFlight \cup {s},
                     !.issued = crawl[c].issued \cup {s.url},
                     !.phase = to]
  <2>2. to \in {"connect", "fill"}
    OBVIOUS
  <2> HIDE DEF to
  <2>3. r.born = crawl[c].born /\ r.phase = to
    BY <1>1 DEF Crawl
  <2>4. crawl' = [crawl EXCEPT ![c] = r]
    BY <1>1, <2>1 DEF to
  <2>5. crawl[c].phase \in {"seek", "fill"}
    BY <1>3 DEF Request, Seeking
  <2> HIDE DEF r
  <2>6. Onward
    BY <2>2, <2>3, <2>4, <2>5, OneOnward DEF IInv, Running, Woken, Resting, Ended
  <2>7. QED
    BY <1>3, <2>6 DEF Request
<1>4. CASE SpendBudget(c)
  <2>1. PICK s \in crawl[c].queue :
          crawl' = [crawl EXCEPT ![c] =
            [crawl[c] EXCEPT !.queue = crawl[c].queue \ {s}, !.skipped = TRUE,
                             !.phase = "await"]]
    BY <1>4 DEF SpendBudget
  <2> DEFINE r == [crawl[c] EXCEPT !.queue = crawl[c].queue \ {s}, !.skipped = TRUE,
                                   !.phase = "await"]
  <2>2. r.born = crawl[c].born /\ r.phase = "await"
    BY <1>1 DEF Crawl
  <2>3. crawl[c].phase \in {"seek", "fill"}
    BY <1>4 DEF SpendBudget, Seeking
  <2> HIDE DEF r
  <2>4. Onward
    BY <2>1, <2>2, <2>3, OneOnward DEF r, IInv, Running, Woken, Resting, Ended
  <2>5. QED
    BY <1>4, <2>4 DEF SpendBudget
<1>5. CASE StopFilling(c) \/ Connect(c) \/ GoOn(c)
  <2>1. PICK to \in {"check", "fill", "await"} :
          crawl' = [crawl EXCEPT ![c] = [crawl[c] EXCEPT !.phase = to]]
    BY <1>5 DEF StopFilling, Connect, GoOn
  <2> DEFINE r == [crawl[c] EXCEPT !.phase = to]
  <2>2. r.born = crawl[c].born /\ r.phase = to
    BY <1>1 DEF Crawl
  <2>3. Running(c)
    BY <1>5 DEF StopFilling, Connect, GoOn, Running, Ended
  <2>4. c \notin Woken
    BY <1>5, <2>3 DEF StopFilling, Connect, GoOn, Woken, Resting, Ended, StaleInv,
       OldCancelled
  <2> HIDE DEF r
  <2>5. Onward
    BY <2>1, <2>2, <2>3, <2>4, OneOnward DEF r, IInv
  <2>6. QED
    BY <1>5, <2>5 DEF StopFilling, Connect, GoOn
<1>6. CASE LandError(c)
  <2>1. PICK a \in replies :
          /\ replies' = replies \ {a}
          /\ crawl' = [crawl EXCEPT ![c] =
               [crawl[c] EXCEPT !.inFlight = crawl[c].inFlight \ {a.stop},
                                !.skipped = TRUE, !.phase = "check"]]
    BY <1>6 DEF LandError
  <2> DEFINE r == [crawl[c] EXCEPT !.inFlight = crawl[c].inFlight \ {a.stop},
                                   !.skipped = TRUE, !.phase = "check"]
  <2>2. r.born = crawl[c].born /\ r.phase = "check"
    BY <1>1 DEF Crawl
  <2>3. crawl[c].phase = "await"
    BY <1>6 DEF LandError
  <2> HIDE DEF r
  <2>4. Onward
    BY <2>1, <2>2, <2>3, OneOnward DEF r, IInv, Running, Woken, Resting, Ended
  <2>5. QED
    BY <1>6, <2>1, <2>4 DEF LandError
<1>7. CASE LandListing(c)
  <2>1. PICK a \in replies :
          /\ replies' = replies \ {a}
          /\ crawl' = [crawl EXCEPT
               ![c] = Queued([crawl[c] EXCEPT !.inFlight = @ \ {a.stop},
                                              !.phase = "check"],
                             a.stop.depth, Shows(a.stop.url, a.listing))]
    BY <1>7 DEF LandListing
  <2> DEFINE r == [crawl[c] EXCEPT !.inFlight = @ \ {a.stop}, !.phase = "check"]
  <2> PICK q : q = Queued(r, a.stop.depth, Shows(a.stop.url, a.listing))
    OBVIOUS
  <2>2. r \in Crawl /\ r.phase = "check" /\ r.born = crawl[c].born
    BY <1>1 DEF Crawl, Phase
  <2>3. a.stop \in Stop /\ a.listing \in Listing
    BY DEF IInv, TypeOK, Reply
  <2>4. /\ Shows(a.stop.url, a.listing) \in SUBSET Folders
        /\ a.stop.depth \in 0 .. MaxDepth
    BY <2>3, FoldersSubfolders DEF Stop
  <2> HIDE DEF r
  <2>5. q.phase = "check" /\ q.born = crawl[c].born
    BY <2>2, <2>4, QueuedKeeps
  <2>6. crawl' = [crawl EXCEPT ![c] = q]
    BY <2>1 DEF r
  <2>7. crawl[c].phase = "await"
    BY <1>7 DEF LandListing
  <2>8. Onward
    BY <2>5, <2>6, <2>7, OneOnward DEF IInv, Running, Woken, Resting, Ended
  <2>9. QED
    BY <1>7, <2>1, <2>8 DEF LandListing
<1>8. CASE \/ NothingToRequest(c) \/ ConnectFails(c) \/ SeeCancelled(c)
           \/ LandRootError(c) \/ Finish(c)
  <2>1. \E result \in Ended : Return(c, result)
    BY <1>8 DEF NothingToRequest, ConnectFails, SeeCancelled, LandRootError, Finish, Ended
  <2>2. Running(c)
    BY <1>8 DEF NothingToRequest, ConnectFails, SeeCancelled, LandRootError, Finish,
       Ended, Running
  <2>3. UNCHANGED <<cache, cancelled, period>>
    BY <1>8 DEF NothingToRequest, ConnectFails, SeeCancelled, LandRootError, Finish
  <2>4. QED
    BY <2>1, <2>2, <2>3, ReturnOnward
<1>9. QED
  BY <1>2, <1>3, <1>4, <1>5, <1>6, <1>7, <1>8 DEF CrawlStep

(* What such a step keeps.                                                  *)
LEMMA OnwardKeeps ==
  ASSUME StaleInv, Onward, replies' \subseteq replies, UNCHANGED <<cancelled, period>>
  PROVE  /\ RepliesYoung' /\ OldCancelled' /\ IsFiniteSet(Started')
         /\ Started' = Started /\ Woken \subseteq Woken'
         /\ IsFiniteSet(Woken') /\ IsFiniteSet(Woken)
<1>1. Started' = Started
  BY DEF Started, Onward
<1>2. Woken \subseteq Woken'
  BY DEF Woken, Onward
<1>3. Woken \subseteq Started /\ Woken' \subseteq Started
  BY <1>1 DEF Woken, Started, Resting, Ended
<1>4. IsFiniteSet(Woken) /\ IsFiniteSet(Woken')
  BY <1>3, FS_Subset DEF StaleInv
<1>5. RepliesYoung'
  BY <1>1 DEF StaleInv, RepliesYoung, Started, Onward
<1>6. OldCancelled'
  BY DEF StaleInv, OldCancelled, Onward
<1>7. QED
  BY <1>1, <1>2, <1>4, <1>5, <1>6 DEF StaleInv

LEMMA SameCacheStale ==
  ASSUME StaleInv, Onward, replies' \subseteq replies, UNCHANGED <<cache, cancelled, period>>
  PROVE  StaleInv'
<1>1. Stale' = Stale
  BY DEF Stale
<1>2. Cardinality(Woken) <= Cardinality(Woken')
  BY OnwardKeeps, FS_Subset
<1>3. /\ Cardinality(Stale) \in Nat
      /\ Cardinality(Woken) \in Nat /\ Cardinality(Woken') \in Nat
  BY OnwardKeeps, FS_CardinalityType DEF StaleInv
<1>4. QED
  BY <1>1, <1>2, <1>3, OnwardKeeps DEF StaleInv

(* A listing that lands: a stale one is one more, and so is its read-ahead. *)
LEMMA LandStale ==
  ASSUME IInv, StaleInv, NEW c \in Crawls, LandListing(c) PROVE StaleInv'
<1>1. PICK a \in replies :
        /\ a.to = c
        /\ cache' = Insert(a.stop.url, a.listing)
        /\ crawl' = [crawl EXCEPT
             ![c] = Queued([crawl[c] EXCEPT !.inFlight = @ \ {a.stop},
                                            !.phase = "check"],
                           a.stop.depth, Shows(a.stop.url, a.listing))]
  BY DEF LandListing
<1>2. /\ Onward /\ replies' \subseteq replies /\ UNCHANGED <<cancelled, period>>
  BY CrawlStepOnward DEF CrawlStep
<1>3. /\ a.stop.url \in Folders /\ a.listing \in Listing
      /\ a.listing.period \in Nat /\ period \in Nat /\ crawl[c].born \in Nat
      /\ crawl[c].born <= a.listing.period
  BY <1>1, MaxRefreshesAssumption
  DEF IInv, TypeOK, Reply, Stop, Listing, Crawl, Periods, StaleInv, RepliesYoung
<1>4. /\ IsFiniteSet(Woken) /\ IsFiniteSet(Woken') /\ Woken \subseteq Woken'
      /\ RepliesYoung' /\ OldCancelled' /\ IsFiniteSet(Started')
  BY <1>2, OnwardKeeps
<1>5. \A v \in Folders : cache'[v] = cache[v] \/ (v = a.stop.url /\ cache'[v] = a.listing)
  BY <1>1 DEF Insert, IInv, TypeOK
<1>6. IsFiniteSet(Stale) /\ Cardinality(Stale) <= Cardinality(Woken)
  BY DEF StaleInv
<1>7. CASE a.listing.period < period
  <2>1. Stale' \subseteq Stale \cup {a.stop.url}
    BY <1>2, <1>5 DEF Stale
  <2>2. c \notin Woken
    BY DEF LandListing, Woken, Resting, Ended
  <2>3. c \in Woken'
    <3>1. crawl'[c].born < period'
      BY <1>2, <1>3, <1>7 DEF Onward
    <3>2. crawl'[c].phase = "check"
      <4> DEFINE r == [crawl[c] EXCEPT !.inFlight = @ \ {a.stop}, !.phase = "check"]
      <4>1. r \in Crawl /\ r.phase = "check"
        BY DEF IInv, TypeOK, Crawl, Phase
      <4>2. /\ Shows(a.stop.url, a.listing) \in SUBSET Folders
            /\ a.stop.depth \in 0 .. MaxDepth
        BY <1>3, FoldersSubfolders DEF IInv, TypeOK, Reply, Stop
      <4>3. crawl'[c] = Queued(r, a.stop.depth, Shows(a.stop.url, a.listing))
        BY <1>1 DEF IInv, TypeOK
      <4> HIDE DEF r
      <4>4. QED
        BY <4>1, <4>2, <4>3, QueuedKeeps
    <3>3. QED
      BY <3>1, <3>2 DEF Woken, Resting
  <2>4. IsFiniteSet(Woken \cup {c}) /\ Cardinality(Woken \cup {c}) = Cardinality(Woken) + 1
    BY <1>4, <2>2, OneMore
  <2>5. Woken \cup {c} \subseteq Woken'
    BY <1>4, <2>3
  <2>6. Cardinality(Woken \cup {c}) <= Cardinality(Woken')
    BY <1>4, <2>5, FS_Subset
  <2>7. /\ IsFiniteSet(Stale \cup {a.stop.url})
        /\ Cardinality(Stale \cup {a.stop.url}) <= Cardinality(Stale) + 1
    BY <1>6, OneMore
  <2>8. IsFiniteSet(Stale') /\ Cardinality(Stale') <= Cardinality(Stale \cup {a.stop.url})
    BY <2>1, <2>7, FS_Subset
  <2>9. /\ Cardinality(Stale) \in Nat /\ Cardinality(Stale') \in Nat
        /\ Cardinality(Stale \cup {a.stop.url}) \in Nat
        /\ Cardinality(Woken) \in Nat /\ Cardinality(Woken') \in Nat
        /\ Cardinality(Woken \cup {c}) \in Nat
    BY <1>4, <1>6, <2>4, <2>7, <2>8, FS_CardinalityType
  <2>10. Cardinality(Stale') <= Cardinality(Woken')
    BY <1>6, <2>4, <2>6, <2>7, <2>8, <2>9
  <2>11. QED
    BY <1>4, <2>8, <2>10 DEF StaleInv
<1>8. CASE ~(a.listing.period < period)
  <2>1. Stale' \subseteq Stale
    BY <1>2, <1>5, <1>8 DEF Stale
  <2>2. IsFiniteSet(Stale') /\ Cardinality(Stale') <= Cardinality(Stale)
    BY <1>6, <2>1, FS_Subset
  <2>3. Cardinality(Woken) <= Cardinality(Woken')
    BY <1>4, FS_Subset
  <2>4. /\ Cardinality(Stale) \in Nat /\ Cardinality(Stale') \in Nat
        /\ Cardinality(Woken) \in Nat /\ Cardinality(Woken') \in Nat
    BY <1>4, <1>6, <2>2, FS_CardinalityType
  <2>5. Cardinality(Stale') <= Cardinality(Woken')
    BY <1>6, <2>2, <2>3, <2>4
  <2>6. QED
    BY <1>4, <2>2, <2>5 DEF StaleInv
<1>9. QED
  BY <1>7, <1>8

(* Refresh empties the cache and cancels what runs.                         *)
LEMMA RefreshStale == ASSUME IInv, StaleInv, Refresh PROVE StaleInv'
<1>1. /\ UNCHANGED <<crawl, replies>> /\ period' = period + 1
      /\ cache' = [u \in Folders |-> Unlisted]
      /\ cancelled' = cancelled \cup {c \in Crawls : Running(c)}
  BY DEF Refresh
<1>2. Started' = Started /\ Stale' = {}
  BY <1>1 DEF Started, Stale
<1>3. Woken' \subseteq Started
  BY <1>1 DEF Woken, Started, Resting, Ended
<1>4. IsFiniteSet(Woken')
  BY <1>3, FS_Subset DEF StaleInv
<1>5. Cardinality(Woken') \in Nat /\ IsFiniteSet({}) /\ Cardinality({}) = 0
  BY <1>4, FS_CardinalityType, FS_EmptySet
<1>6. RepliesYoung' /\ OldCancelled'
  BY <1>1, <1>2 DEF StaleInv, RepliesYoung, OldCancelled, Running
<1>7. QED
  BY <1>2, <1>5, <1>6 DEF StaleInv

LEMMA StartStale == ASSUME IInv, StaleInv, NEW c \in Crawls, Start(c) PROVE StaleInv'
<1>1. PICK u \in Roots : crawl' = [crawl EXCEPT ![c] = New(u)]
  BY DEF Start
<1>2. crawl[c].phase = "idle" /\ UNCHANGED <<cache, replies, cancelled, period>>
  BY DEF Start
<1>3. New(u).phase = "seek" /\ New(u).born = period
  BY DEF New
<1>4. \A d \in Crawls : crawl'[d] = IF d = c THEN New(u) ELSE crawl[d]
  BY <1>1 DEF IInv, TypeOK
<1>5. period \in Nat
  BY MaxRefreshesAssumption DEF IInv, TypeOK, Periods
<1>6. Started' = Started \cup {c}
  BY <1>3, <1>4 DEF Started
<1>7. IsFiniteSet(Started')
  BY <1>6, OneMore DEF StaleInv
<1>8. Woken' = Woken /\ Stale' = Stale
  BY <1>2, <1>3, <1>4, <1>5 DEF Woken, Stale, Resting, Ended
<1>9. RepliesYoung'
  <2> SUFFICES ASSUME NEW a \in replies PROVE
        a.to \in Started' /\ crawl'[a.to].born <= a.listing.period
    BY <1>2 DEF RepliesYoung
  <2>1. a.to \in Started /\ crawl[a.to].born <= a.listing.period
    BY DEF StaleInv, RepliesYoung
  <2>2. a.to \in Crawls /\ a.to # c
    BY <1>2, <2>1 DEF Started
  <2>3. QED
    BY <1>4, <1>6, <2>1, <2>2
<1>10. OldCancelled'
  BY <1>2, <1>3, <1>4, <1>5 DEF StaleInv, OldCancelled, Running
<1>11. QED
  BY <1>7, <1>8, <1>9, <1>10 DEF StaleInv

LEMMA AnswerStale == ASSUME IInv, StaleInv, NEW c \in Crawls, Answer(c) PROVE StaleInv'
<1>1. PICK s \in crawl[c].inFlight, ok \in BOOLEAN :
        replies' = replies \cup
          {[to |-> c, stop |-> s, ok |-> ok,
            listing |-> [complete |-> s.depth = 0 \/ s.url \notin Long,
                         period |-> period]]}
  BY DEF Answer
<1>2. crawl[c].phase = "await" /\ UNCHANGED <<cache, crawl, cancelled, period>>
  BY DEF Answer
<1>3. crawl[c].born <= period
  BY DEF IInv, RootPending
<1>4. Started' = Started /\ Woken' = Woken /\ Stale' = Stale /\ c \in Started
  BY <1>2 DEF Started, Woken, Stale
<1>5. RepliesYoung'
  BY <1>1, <1>2, <1>3, <1>4 DEF StaleInv, RepliesYoung
<1>6. OldCancelled'
  BY <1>2 DEF StaleInv, OldCancelled, Running
<1>7. QED
  BY <1>4, <1>5, <1>6 DEF StaleInv

LEMMA NextStale == IInv /\ StaleInv /\ [Next]_vars => StaleInv'
<1> SUFFICES ASSUME IInv, StaleInv, [Next]_vars PROVE StaleInv'
  OBVIOUS
<1>1. ASSUME NEW c \in Crawls, CrawlStep(c) PROVE StaleInv'
  <2>1. /\ Onward /\ replies' \subseteq replies /\ UNCHANGED <<cancelled, period>>
        /\ LandListing(c) \/ UNCHANGED cache
    BY <1>1, CrawlStepOnward
  <2>2. CASE LandListing(c)
    BY <2>2, LandStale
  <2>3. CASE UNCHANGED cache
    BY <2>1, <2>3, SameCacheStale
  <2>4. QED
    BY <2>1, <2>2, <2>3
<1>2. ASSUME NEW c \in Crawls, Answer(c) \/ Start(c) PROVE StaleInv'
  BY <1>2, AnswerStale, StartStale
<1>3. ASSUME NEW c \in Crawls, Cancel(c) PROVE StaleInv'
  <2>1. /\ UNCHANGED <<cache, crawl, replies, period>>
        /\ cancelled' = cancelled \cup {c}
    BY <1>3 DEF Cancel
  <2>2. Started' = Started /\ Woken' = Woken /\ Stale' = Stale
    BY <2>1 DEF Started, Woken, Stale
  <2>3. QED
    BY <2>1, <2>2 DEF StaleInv, RepliesYoung, OldCancelled, Running
<1>4. CASE Refresh
  BY <1>4, RefreshStale
<1>5. CASE UNCHANGED vars
  <2>1. Started' = Started /\ Woken' = Woken /\ Stale' = Stale
    BY <1>5 DEF vars, Started, Woken, Stale
  <2>2. QED
    BY <1>5, <2>1 DEF vars, StaleInv, RepliesYoung, OldCancelled, Running
<1>6. QED
  BY <1>1, <1>2, <1>3, <1>4, <1>5 DEF Next

(* However many read-aheads were on their way at a Refresh, each brings     *)
(* back at most one listing from before it (drive looks at the token before *)
(* it takes the next reply).                                                *)
THEOREM StaleStaysBounded == Spec => []StaleAtMostOncePerCrawl
<1>1. StaleInv => StaleAtMostOncePerCrawl
  <2> SUFFICES ASSUME StaleInv PROVE StaleAtMostOncePerCrawl
    OBVIOUS
  <2> DEFINE Old == {c \in Crawls : crawl[c].phase # "idle" /\ crawl[c].born < period}
  <2>1. Woken \subseteq Old /\ Old \subseteq Started
    BY DEF Woken, Started, Resting, Ended
  <2>2. IsFiniteSet(Old) /\ IsFiniteSet(Woken) /\ Cardinality(Woken) <= Cardinality(Old)
    <3>1. IsFiniteSet(Old)
      BY <2>1, FS_Subset DEF StaleInv
    <3> HIDE DEF Old
    <3>2. QED
      BY <2>1, <3>1, FS_Subset
  <2>3. /\ Cardinality(Stale) \in Nat /\ Cardinality(Woken) \in Nat
        /\ Cardinality(Old) \in Nat
    BY <2>2, FS_CardinalityType DEF StaleInv
  <2>4. Cardinality(Stale) <= Cardinality(Old)
    <3> HIDE DEF Old
    <3> QED BY <2>2, <2>3 DEF StaleInv
  <2>5. QED
    BY <2>4 DEF StaleAtMostOncePerCrawl, Stale
<1>2. QED
  BY <1>1, InitStale, NextStale, InvariantHolds, PTL DEF Spec

------------------------------------------------------------------------------
(* Induction over the naturals, as facts about a set of numbers: the least  *)
(* element of a non-empty set is the minimal one of a well-founded order.   *)

LEMMA LeastNatural ==
  ASSUME NEW T, T \subseteq Nat, T # {}
  PROVE  \E x \in T : \A y \in T : x <= y
<1> DEFINE R == OpToRel(<, Nat)
<1>1. IsWellFoundedOn(R, Nat)
  BY NatLessThanWellFounded
<1>2. \A x, y \in Nat : x < y => <<x, y>> \in R
  BY DEF OpToRel
<1> HIDE DEF R
<1>3. \E x \in T : \A y \in T : ~(<<y, x>> \in R)
  BY <1>1, WFMin
<1>4. PICK x \in T : \A y \in T : ~(<<y, x>> \in R)
  BY <1>3
<1>5. ASSUME NEW y \in T PROVE x <= y
  <2>1. x \in Nat /\ y \in Nat
    OBVIOUS
  <2>2. ~(y < x)
    BY <1>2, <1>4, <2>1
  <2>3. QED
    BY <2>1, <2>2
<1>6. QED
  BY <1>5

LEMMA Induction ==
  ASSUME NEW T, 0 \in T, \A n \in T \cap Nat : n + 1 \in T
  PROVE  Nat \subseteq T
<1> SUFFICES ASSUME Nat \ T # {} PROVE FALSE
  OBVIOUS
<1>1. PICK x \in Nat \ T : \A y \in Nat \ T : x <= y
  BY LeastNatural
<1>2. x # 0 /\ x - 1 \in Nat
  BY <1>1
<1>3. x - 1 \in T
  BY <1>1, <1>2
<1>4. (x - 1) + 1 \in T
  BY <1>2, <1>3
<1>5. (x - 1) + 1 = x
  BY <1>2
<1>6. QED
  BY <1>4, <1>5

------------------------------------------------------------------------------
(* What a read-ahead covers. *)

(* The folders at depth d, when f gives those above them. *)
Found(u, f, d) ==
  IF d = 0 THEN {u}
  ELSE IF d = 1 THEN Sub[u]
  ELSE UNION {FirstPage[v] : v \in f[d - 1]}

Levels(u, n, f) == f = [d \in 0 .. n |-> Found(u, f, d)]

LEMMA LevelsExist ==
  ASSUME NEW u
  PROVE  \A n \in Nat : \E f : Levels(u, n, f)
<1> DEFINE T == {n \in Nat : \E f : Levels(u, n, f)}
<1>1. 0 \in T
  <2> DEFINE f == [d \in 0 .. 0 |-> {u}]
  <2>1. \A d \in 0 .. 0 : Found(u, f, d) = {u}
    BY DEF Found
  <2>2. Levels(u, 0, f)
    BY <2>1 DEF Levels
  <2>3. QED
    BY <2>2
<1>2. ASSUME NEW n \in T \cap Nat PROVE n + 1 \in T
  <2>1. PICK f : Levels(u, n, f)
    OBVIOUS
  <2> DEFINE g == [d \in 0 .. n + 1 |-> Found(u, f, d)]
  <2>2. \A d \in 0 .. n : f[d] = Found(u, f, d)
    BY <2>1, Zenon DEF Levels
  <2>3. \A d \in 0 .. n : g[d] = f[d]
    BY <2>2
  <2> HIDE DEF g
  <2>4. ASSUME NEW d \in 0 .. n + 1 PROVE Found(u, g, d) = Found(u, f, d)
    <3>1. CASE d = 0 \/ d = 1
      BY <3>1 DEF Found
    <3>2. CASE d # 0 /\ d # 1
      <4>1. d - 1 \in 0 .. n
        BY <3>2
      <4>2. g[d - 1] = f[d - 1]
        BY <2>3, <4>1
      <4>3. QED
        BY <4>2 DEF Found
    <3>3. QED
      BY <3>1, <3>2
  <2>5. Levels(u, n + 1, g)
    BY <2>4, Zenon DEF Levels, g
  <2>6. QED
    BY <2>5
<1>3. Nat \subseteq T
  <2> HIDE DEF T
  <2>1. QED
    BY <1>1, <1>2, Induction
<1>4. QED
  BY <1>3

LEMMA WithinLevels ==
  ASSUME NEW u
  PROVE  \E at : /\ Levels(u, MaxDepth, at)
                 /\ Within(u) = UNION {at[d] : d \in 0 .. MaxDepth}
<1> DEFINE at == CHOOSE f : Levels(u, MaxDepth, f)
<1>1. Levels(u, MaxDepth, at)
  BY LevelsExist, LimitsAssumption, Zenon
<1>2. at = CHOOSE f : f = [d \in 0 .. MaxDepth |->
                            IF d = 0 THEN {u}
                            ELSE IF d = 1 THEN Sub[u]
                            ELSE UNION {FirstPage[v] : v \in f[d - 1]}]
  BY Zenon DEF Levels, Found
<1>3. Within(u) = UNION {at[d] : d \in 0 .. MaxDepth}
  BY <1>2, Zenon DEF Within
<1>4. QED
  BY <1>1, <1>3

LEMMA BelowClosed ==
  ASSUME NEW u \in Folders
  PROVE  u \in Below(u) /\ \A v \in Below(u) : Sub[v] \subseteq Below(u)
<1>1. ASSUME NEW v \in Below(u), NEW w \in Sub[v] PROVE w \in Below(u)
  <2>1. v \in Folders /\ w \in Folders
    BY StoreAssumption DEF Below
  <2>2. ASSUME NEW S \in SUBSET Folders, u \in S, \A x \in S : Sub[x] \subseteq S
        PROVE  w \in S
    BY <2>2 DEF Below
  <2>3. QED
    BY <2>1, <2>2 DEF Below
<1>2. QED
  BY <1>1 DEF Below

Have == {u \in Folders : cache[u] # Unlisted}

(* What a listing of u shows at the least: all of the root, a page of others. *)
Shown(r, u) == IF u = r.root THEN Sub[u] ELSE FirstPage[u]

Waiting(r) == r.queue \cup r.inFlight

(* Every folder come across waits, or is listed and what it shows was come  *)
(* across too, within the depth limit; dep says at which depth. The root is *)
(* listed before any other folder.                                          *)
CoveredAt(r, dep, have) ==
  /\ r.root \in r.seen /\ dep[r.root] = 0
  /\ r.root \in Roots /\ r.seen \subseteq Below(r.root)
  /\ r.seen = {r.root} \/ Sub[r.root] \subseteq r.seen
  /\ \A s \in Waiting(r) : s.url \in r.seen /\ s.depth = dep[s.url]
  /\ \A u \in r.seen \ {r.root} :
       \E v \in r.seen : /\ u \in Sub[v] /\ dep[u] = dep[v] + 1
                         /\ u \in Sub[r.root] => v = r.root
  /\ \A u \in r.seen :
       \/ \E s \in Waiting(r) : s.url = u
       \/ u \in have /\ (dep[u] < MaxDepth => Shown(r, u) \subseteq r.seen)

Covers(r, have) == \E dep \in [Folders -> 0 .. MaxDepth] : CoveredAt(r, dep, have)

(* No folder was lost: neither to Refresh, nor to an error or the budget.   *)
Intact(r) == r.born = period /\ ~r.skipped

CoverInv ==
  /\ \A a \in replies : a.stop \in crawl[a.to].inFlight
  /\ \A a, b \in replies : a.to = b.to /\ a.stop = b.stop => a = b
  /\ \A c \in Crawls :
       LET r == crawl[c] IN
         /\ Intact(r) /\ r.phase \in Working => Covers(r, Have)
         /\ Intact(r) /\ r.phase = "await" => r.queue = {} \/ r.inFlight # {}
         /\ Intact(r) /\ r.phase = "ok" => Within(r.root) \subseteq Have

(* Once nothing waits, all that is within reach of the root is cached.      *)
LEMMA NothingWaits ==
  ASSUME OneParent, NEW r \in Crawl, NEW have, Covers(r, have), Waiting(r) = {}
  PROVE  Within(r.root) \subseteq have
<1>1. PICK dep \in [Folders -> 0 .. MaxDepth] : CoveredAt(r, dep, have)
  BY DEF Covers
<1>2. PICK at : /\ Levels(r.root, MaxDepth, at)
                /\ Within(r.root) = UNION {at[d] : d \in 0 .. MaxDepth}
  BY WithinLevels
<1>3. \A d \in 0 .. MaxDepth : at[d] = Found(r.root, at, d)
  BY <1>2, Zenon DEF Levels
<1>4. r.root \in Folders /\ r.seen \subseteq Folders
  BY DEF Crawl
<1>5. \A u \in r.seen :
        u \in have /\ (dep[u] < MaxDepth => Shown(r, u) \subseteq r.seen)
  BY <1>1 DEF CoveredAt
<1>6. at[0] = {r.root}
  <2>1. 0 \in 0 .. MaxDepth
    BY LimitsAssumption
  <2>2. Found(r.root, at, 0) = {r.root}
    BY DEF Found
  <2>3. QED
    BY <1>3, <2>1, <2>2
<1> DEFINE T == {n \in Nat : n <= MaxDepth =>
                                \A u \in at[n] : u \in r.seen /\ dep[u] <= n}
<1>7. 0 \in T
  <2>1. at[0] = {r.root}
    BY <1>6
  <2>2. QED
    BY <1>1, <2>1 DEF CoveredAt
<1>8. ASSUME NEW n \in T \cap Nat PROVE n + 1 \in T
  <2> SUFFICES ASSUME n + 1 <= MaxDepth, NEW u \in at[n + 1]
               PROVE  u \in r.seen /\ dep[u] <= n + 1
    OBVIOUS
  <2>1. n \in 0 .. MaxDepth /\ n + 1 \in 0 .. MaxDepth /\ n < MaxDepth
    BY LimitsAssumption
  <2>2. \A v \in at[n] : v \in r.seen /\ dep[v] <= n
    BY <2>1
  <2>3. at[n + 1] = Found(r.root, at, n + 1) /\ (n + 1) - 1 = n
    BY <1>3, <2>1
  <2>4. PICK v \in at[n] : u \in Shown(r, v)
    <3>1. CASE n = 0
      <4>1. u \in Sub[r.root]
        BY <2>3, <3>1 DEF Found
      <4>2. r.root \in at[n]
        BY <1>6, <3>1
      <4>3. QED
        BY <4>1, <4>2 DEF Shown
    <3>2. CASE n # 0
      <4>1. u \in UNION {FirstPage[v] : v \in at[n]}
        BY <2>3, <3>2 DEF Found
      <4>2. PICK v \in at[n] : u \in FirstPage[v]
        BY <4>1
      <4>3. v \in Folders
        BY <1>4, <2>2
      <4>4. u \in Shown(r, v)
        BY <4>2, <4>3, StoreAssumption DEF Shown
      <4>5. QED
        BY <4>4
    <3>3. QED
      BY <3>1, <3>2
  <2>5. v \in r.seen /\ dep[v] <= n /\ v \in Folders /\ dep[v] \in 0 .. MaxDepth
    BY <1>4, <2>2
  <2>6. u \in r.seen /\ u \in Sub[v]
    <3>1. dep[v] < MaxDepth
      BY <2>1, <2>5, LimitsAssumption
    <3>2. QED
      BY <1>5, <2>4, <2>5, <3>1, StoreAssumption DEF Shown
  <2>7. dep[u] <= n + 1
    <3>1. CASE u = r.root
      BY <1>1, <3>1 DEF CoveredAt
    <3>2. CASE u # r.root
      <4>1. PICK w \in r.seen : /\ u \in Sub[w] /\ dep[u] = dep[w] + 1
                                /\ u \in Sub[r.root] => w = r.root
        BY <1>1, <2>6, <3>2 DEF CoveredAt
      <4>2. CASE u \in Sub[r.root]
        BY <1>1, <4>1, <4>2 DEF CoveredAt
      <4>3. CASE u \notin Sub[r.root]
        <5>1. v # r.root /\ w # r.root
          BY <2>6, <4>1, <4>3
        <5>2. v \in Below(r.root) /\ w \in Below(r.root) /\ r.root \in Roots
          BY <1>1, <2>5, <4>1 DEF CoveredAt
        <5>3. w = v
          BY <2>6, <3>2, <4>1, <4>3, <5>1, <5>2 DEF OneParent
        <5>4. QED
          BY <2>5, <4>1, <5>3
      <4>4. QED
        BY <4>2, <4>3
    <3>3. QED
      BY <3>1, <3>2
  <2>8. QED
    BY <2>6, <2>7
<1>9. Nat \subseteq T
  <2> HIDE DEF T
  <2>1. QED
    BY <1>7, <1>8, Induction
<1>10. \A d \in 0 .. MaxDepth : at[d] \subseteq r.seen
  BY <1>9, LimitsAssumption
<1>11. QED
  BY <1>2, <1>5, <1>10

(* What waits may move, and more may be cached.                             *)
LEMMA CoversMoved ==
  ASSUME NEW r, NEW q, NEW have, NEW more, Covers(r, have), have \subseteq more,
         q.root = r.root, q.seen = r.seen, Waiting(q) = Waiting(r)
  PROVE  Covers(q, more)
<1>1. PICK dep \in [Folders -> 0 .. MaxDepth] : CoveredAt(r, dep, have)
  BY DEF Covers
<1>2. CoveredAt(q, dep, more)
  BY <1>1 DEF CoveredAt, Shown
<1>3. QED
  BY <1>2 DEF Covers

(* A folder waits no longer: it is cached, and the subfolders its listing   *)
(* shows are queued.                                                        *)
LEMMA CoversExpanded ==
  ASSUME NEW r \in Crawl, NEW q \in Crawl, NEW have, NEW more, NEW s \in Waiting(r),
         NEW subs, Covers(r, have), have \subseteq more, s.url \in more,
         q.root = r.root, q.seen = r.seen,
         Waiting(q) \subseteq Waiting(r), Waiting(r) \ {s} \subseteq Waiting(q),
         subs \subseteq Sub[s.url],
         FirstPage[s.url] \subseteq subs, s.depth = 0 => Sub[s.url] \subseteq subs
  PROVE  Covers(Queued(q, s.depth, subs), more)
<1>1. PICK dep \in [Folders -> 0 .. MaxDepth] : CoveredAt(r, dep, have)
  BY DEF Covers
<1>2. /\ s.url \in r.seen /\ s.depth = dep[s.url] /\ s.url \in Folders
      /\ dep[s.url] \in 0 .. MaxDepth /\ r.seen \subseteq Folders
  BY <1>1 DEF CoveredAt, Crawl
<1>3. Shown(q, s.url) \subseteq subs
  BY <1>1, <1>2 DEF Shown, CoveredAt
<1>4. CASE s.depth >= MaxDepth
  <2>1. Queued(q, s.depth, subs) = q
    BY <1>4 DEF Queued
  <2>2. ~(dep[s.url] < MaxDepth)
    BY <1>2, <1>4, LimitsAssumption
  <2>3. CoveredAt(q, dep, more)
    BY <1>1, <1>2, <2>2 DEF CoveredAt, Shown
  <2>4. QED
    BY <2>1, <2>3 DEF Covers
<1>5. CASE ~(s.depth >= MaxDepth)
  <2> DEFINE new == [url : subs \ q.seen, depth : {s.depth + 1}]
             z == [q EXCEPT !.queue = q.queue \cup new, !.seen = q.seen \cup subs]
             dp == [u \in Folders |-> IF u \in subs \ r.seen THEN s.depth + 1 ELSE dep[u]]
  <2>1. Queued(q, s.depth, subs) = z
    BY <1>5 DEF Queued
  <2>2. z.root = r.root /\ z.seen = r.seen \cup subs /\ Waiting(z) = Waiting(q) \cup new
    <3>1. /\ z.root = q.root /\ z.queue = q.queue \cup new /\ z.inFlight = q.inFlight
          /\ z.seen = q.seen \cup subs
      BY DEF Crawl
    <3>2. QED
      BY <3>1 DEF Waiting
  <2>3. subs \subseteq Folders
    BY <1>2, StoreAssumption
  <2>4. \A t \in new : t.url \in subs \ r.seen /\ t.depth = s.depth + 1
    OBVIOUS
  <2>5. \A u \in subs \ r.seen : \E t \in new : t.url = u
    <3>1. ASSUME NEW u \in subs \ r.seen PROVE \E t \in new : t.url = u
      <4>1. [url |-> u, depth |-> s.depth + 1] \in new
        OBVIOUS
      <4>2. QED
        BY <4>1
    <3>2. QED
      BY <3>1
  <2> HIDE DEF new, z
  <2>6. s.depth + 1 \in 0 .. MaxDepth
    BY <1>2, <1>5, LimitsAssumption
  <2>7. dp \in [Folders -> 0 .. MaxDepth]
    BY <2>6
  <2>8. \A u \in r.seen : dp[u] = dep[u]
    BY <1>2
  <2>9. \A u \in subs \ r.seen : dp[u] = s.depth + 1
    BY <2>3
  <2> HIDE DEF dp
  <2>10. CoveredAt(z, dp, more)
    <3>1. z.root \in z.seen /\ dp[z.root] = 0
      BY <1>1, <2>2, <2>8 DEF CoveredAt
    <3>2. ASSUME NEW t \in Waiting(z) PROVE t.url \in z.seen /\ t.depth = dp[t.url]
      <4>1. CASE t \in Waiting(r)
        BY <1>1, <2>2, <2>8, <4>1 DEF CoveredAt
      <4>2. CASE t \in new
        BY <2>2, <2>4, <2>9, <4>2
      <4>3. QED
        BY <2>2, <4>1, <4>2
    <3>3. ASSUME NEW u \in z.seen \ {z.root}
          PROVE  \E v \in z.seen : /\ u \in Sub[v] /\ dp[u] = dp[v] + 1
                                   /\ u \in Sub[z.root] => v = z.root
      <4>1. CASE u \in r.seen
        <5>1. PICK v \in r.seen : /\ u \in Sub[v] /\ dep[u] = dep[v] + 1
                                  /\ u \in Sub[r.root] => v = r.root
          BY <1>1, <2>2, <4>1 DEF CoveredAt
        <5>2. QED
          BY <2>2, <2>8, <4>1, <5>1
      <4>2. CASE u \in subs \ r.seen
        <5>1. u \in Sub[r.root] => s.url = r.root
          BY <1>1, <1>2, <4>2 DEF CoveredAt
        <5>2. QED
          BY <1>2, <2>2, <2>8, <2>9, <4>2, <5>1
      <4>3. QED
        BY <2>2, <4>1, <4>2
    <3>4. ASSUME NEW u \in z.seen
          PROVE  \/ \E t \in Waiting(z) : t.url = u
                 \/ u \in more /\ (dp[u] < MaxDepth => Shown(z, u) \subseteq z.seen)
      <4>1. CASE u \in subs \ r.seen
        BY <2>2, <2>5, <4>1
      <4>2. CASE u = s.url
        BY <1>3, <2>2, <4>2 DEF Shown
      <4>3. CASE u \in r.seen /\ u # s.url
        <5>1. CASE \E t \in Waiting(r) : t.url = u
          BY <2>2, <4>3, <5>1
        <5>2. CASE u \in have /\ (dep[u] < MaxDepth => Shown(r, u) \subseteq r.seen)
          <6>1. Shown(z, u) = Shown(r, u)
            BY <2>2 DEF Shown
          <6>2. QED
            BY <2>2, <2>8, <4>3, <5>2, <6>1
        <5>3. QED
          BY <1>1, <4>3, <5>1, <5>2 DEF CoveredAt
      <4>4. QED
        BY <2>2, <4>1, <4>2, <4>3
    <3>5. z.root \in Roots /\ z.seen \subseteq Below(z.root)
      <4>1. /\ r.root \in Roots /\ r.root \in Folders
            /\ r.seen \subseteq Below(r.root)
        BY <1>1, FoldersAssumption DEF CoveredAt
      <4>2. subs \subseteq Below(r.root)
        BY <1>2, <4>1, BelowClosed
      <4>3. QED
        BY <2>2, <4>1, <4>2
    <3>6. z.seen = {z.root} \/ Sub[z.root] \subseteq z.seen
      <4>1. CASE s.url = r.root
        BY <1>1, <1>2, <2>2, <4>1 DEF CoveredAt
      <4>2. CASE s.url # r.root
        BY <1>1, <1>2, <2>2, <4>2 DEF CoveredAt
      <4>3. QED
        BY <4>1, <4>2
    <3>7. QED
      BY <3>1, <3>2, <3>3, <3>4, <3>5, <3>6 DEF CoveredAt
  <2>11. QED
    BY <2>1, <2>7, <2>10 DEF Covers
<1>6. QED
  BY <1>4, <1>5

(* The invariant of one read-ahead. *)
CrawlCovers(r, have) ==
  /\ Intact(r) /\ r.phase \in Working => Covers(r, have)
  /\ Intact(r) /\ r.phase = "await" => r.queue = {} \/ r.inFlight # {}
  /\ Intact(r) /\ r.phase = "ok" => Within(r.root) \subseteq have

(* A step that changes one read-ahead, while the cache loses nothing.       *)
LEMMA OneCovers ==
  ASSUME IInv, CoverInv, NEW c \in Crawls, NEW r \in Crawl,
         crawl' = [crawl EXCEPT ![c] = r], period' = period, Have \subseteq Have',
         CrawlCovers(r, Have'),
         \A a \in replies' : a \in replies,
         \A a \in replies' : a.to = c => a.stop \in r.inFlight
  PROVE  CoverInv'
<1>1. \A d \in Crawls : crawl'[d] = IF d = c THEN r ELSE crawl[d]
  BY DEF IInv, TypeOK
<1>2. ASSUME NEW d \in Crawls PROVE CrawlCovers(crawl'[d], Have')
  <2>1. CASE d = c
    BY <1>1, <2>1
  <2>2. CASE d # c
    <3>1. CrawlCovers(crawl[d], Have)
      BY DEF CoverInv, CrawlCovers
    <3>2. Covers(crawl[d], Have) => Covers(crawl[d], Have')
      BY CoversMoved
    <3>3. crawl'[d] = crawl[d]
      BY <1>1, <2>2
    <3>4. QED
      BY <3>1, <3>2, <3>3 DEF CrawlCovers
  <2>3. QED
    BY <2>1, <2>2
<1>3. \A d \in Crawls : Intact(crawl[d])' <=> Intact(crawl'[d])
  BY DEF Intact
<1>4. ASSUME NEW a \in replies' PROVE a.stop \in crawl'[a.to].inFlight
  <2>1. a \in replies /\ a.to \in Crawls
    BY DEF IInv, TypeOK, Reply
  <2>2. QED
    BY <1>1, <2>1 DEF CoverInv
<1>5. QED
  BY <1>2, <1>3, <1>4 DEF CoverInv, CrawlCovers

(* A read-ahead returns: as "ok" only when nothing waits.                   *)
LEMMA ReturnCovers ==
  ASSUME OneParent, IInv, CoverInv, NEW c \in Crawls, NEW result \in Ended,
         Return(c, result), UNCHANGED <<cache, period>>,
         result = "ok" => crawl[c].phase \in Working,
         result = "ok" /\ ~crawl[c].skipped /\ crawl[c].born = period
           => crawl[c].queue = {} /\ crawl[c].inFlight = {}
  PROVE  CoverInv'
<1> DEFINE r == Returned(crawl[c], result)
<1>1. crawl[c] \in Crawl
  BY DEF IInv, TypeOK
<1>2. r \in Crawl
  BY <1>1 DEF Returned, Crawl, Phase
<1>3. /\ r.phase = result /\ r.root = crawl[c].root /\ r.born = crawl[c].born
      /\ r.skipped = crawl[c].skipped
  BY <1>1 DEF Returned, Crawl
<1>4. crawl' = [crawl EXCEPT ![c] = r] /\ replies' = {a \in replies : a.to # c}
  BY DEF Return
<1> HIDE DEF r
<1>5. r.phase \notin Working /\ r.phase # "await"
  BY <1>3 DEF Working, Ended
<1>6. Have' = Have
  BY DEF Have
<1>7. ASSUME Intact(r), result = "ok" PROVE Within(r.root) \subseteq Have
  <2>1. Covers(crawl[c], Have) /\ Waiting(crawl[c]) = {}
    BY <1>3, <1>7 DEF CoverInv, Intact, Waiting
  <2>2. QED
    BY <1>1, <1>3, <2>1, NothingWaits
<1>8. CrawlCovers(r, Have')
  BY <1>3, <1>5, <1>6, <1>7 DEF CrawlCovers
<1>9. QED
  BY <1>2, <1>4, <1>6, <1>8, OneCovers

LEMMA ExpandCachedCovers ==
  ASSUME IInv, CoverInv, NEW c \in Crawls, ExpandCached(c) PROVE CoverInv'
<1>1. crawl[c] \in Crawl /\ crawl[c].phase \in Working \ {"await"}
  BY DEF IInv, TypeOK, ExpandCached, Seeking, Working, Phase, Ended
<1>2. PICK s \in crawl[c].queue :
        /\ StandsIn(s)
        /\ crawl' = [crawl EXCEPT
             ![c] = Queued([crawl[c] EXCEPT !.queue = crawl[c].queue \ {s}],
                           s.depth, Shows(s.url, cache[s.url]))]
  BY DEF ExpandCached
<1>3. s \in Stop /\ s.url \in Folders /\ s.depth \in 0 .. MaxDepth
  BY <1>1 DEF Crawl, Stop
<1>4. cache[s.url] \in Listing /\ s.url \in Have
  BY <1>2, <1>3 DEF StandsIn, IInv, TypeOK, Have
<1> DEFINE r == [crawl[c] EXCEPT !.queue = crawl[c].queue \ {s}]
           subs == Shows(s.url, cache[s.url])
           q == Queued(r, s.depth, subs)
<1>5. subs \in SUBSET Folders
  BY <1>3, <1>4, FoldersSubfolders
<1>6. /\ FirstPage[s.url] \subseteq subs /\ subs \subseteq Sub[s.url]
      /\ s.depth = 0 => Sub[s.url] \subseteq subs
  BY <1>2, <1>3, StoreAssumption DEF Shows, StandsIn
<1>7. /\ r \in Crawl /\ r.inFlight = crawl[c].inFlight /\ r.skipped = crawl[c].skipped
      /\ r.queue = crawl[c].queue \ {s} /\ r.seen = crawl[c].seen
      /\ r.phase = crawl[c].phase /\ r.root = crawl[c].root /\ r.born = crawl[c].born
  BY <1>1 DEF Crawl
<1>8. q.skipped = r.skipped
  BY <1>7 DEF Queued, Crawl
<1> HIDE DEF r, subs
<1>9. /\ q \in Crawl /\ q.phase = r.phase /\ q.root = r.root /\ q.born = r.born
      /\ q.inFlight = r.inFlight
  BY <1>3, <1>5, <1>7, QueuedKeeps
<1>10. ASSUME Covers(crawl[c], Have) PROVE Covers(q, Have)
  <2>1. /\ Waiting(r) \subseteq Waiting(crawl[c]) /\ s \in Waiting(crawl[c])
        /\ Waiting(crawl[c]) \ {s} \subseteq Waiting(r)
    BY <1>7 DEF Waiting
  <2>2. QED
    BY <1>1, <1>4, <1>6, <1>7, <1>10, <2>1, CoversExpanded
<1> HIDE DEF q
<1>11. crawl' = [crawl EXCEPT ![c] = q] /\ UNCHANGED <<cache, replies, period>>
  BY <1>2 DEF q, r, subs, ExpandCached
<1>12. Have' = Have
  BY <1>11 DEF Have
<1>13. CrawlCovers(q, Have)
  <2>1. q.phase # "await" /\ q.phase # "ok"
    BY <1>1, <1>7, <1>9 DEF Working, Ended
  <2>2. Intact(q) => Covers(q, Have)
    BY <1>1, <1>7, <1>8, <1>9, <1>10 DEF CoverInv, Intact
  <2>3. QED
    BY <2>1, <2>2 DEF CrawlCovers
<1>14. \A a \in replies : a.to = c => a.stop \in q.inFlight
  BY <1>7, <1>9 DEF CoverInv
<1>15. QED
  BY <1>9, <1>11, <1>12, <1>13, <1>14, OneCovers

LEMMA RequestCovers ==
  ASSUME IInv, CoverInv, NEW c \in Crawls, Request(c) PROVE CoverInv'
<1>1. crawl[c] \in Crawl /\ crawl[c].phase \in Working
  BY DEF IInv, TypeOK, Request, Seeking, Working, Phase, Ended
<1>2. PICK s \in crawl[c].queue :
        crawl' = [crawl EXCEPT
          ![c].queue = @ \ {s},
          ![c].requests = @ + 1,
          ![c].inFlight = @ \cup {s},
          ![c].issued = @ \cup {s.url},
          ![c].phase = IF @ = "seek" THEN "connect" ELSE "fill"]
  BY DEF Request
<1> DEFINE to == IF crawl[c].phase = "seek" THEN "connect" ELSE "fill"
           r == [crawl[c] EXCEPT
                   !.queue = crawl[c].queue \ {s},
                   !.requests = crawl[c].requests + 1,
                   !.inFlight = crawl[c].inFlight \cup {s},
                   !.issued = crawl[c].issued \cup {s.url},
                   !.phase = to]
<1>3. to \in {"connect", "fill"}
  OBVIOUS
<1> HIDE DEF to
<1>4. /\ r.queue = crawl[c].queue \ {s} /\ r.seen = crawl[c].seen
      /\ r.phase = to /\ r.root = crawl[c].root
      /\ r.born = crawl[c].born /\ r.skipped = crawl[c].skipped
      /\ r.inFlight = crawl[c].inFlight \cup {s}
  BY <1>1 DEF Crawl
<1>5. crawl' = [crawl EXCEPT ![c] = r]
  BY <1>1, <1>2 DEF to
<1>6. r \in Crawl
  <2>1. IInv'
    BY RequestStep
  <2>2. crawl'[c] = r
    BY <1>5 DEF IInv, TypeOK
  <2>3. QED
    BY <2>1, <2>2 DEF IInv, TypeOK
<1> HIDE DEF r
<1>7. UNCHANGED <<replies, period>> /\ Have' = Have
  BY DEF Request, Have
<1>8. CrawlCovers(r, Have)
  <2>1. Waiting(r) = Waiting(crawl[c])
    BY <1>4 DEF Waiting
  <2>2. Covers(crawl[c], Have) => Covers(r, Have)
    BY <1>4, <2>1, CoversMoved
  <2>3. Intact(r) => Covers(r, Have)
    BY <1>1, <1>4, <2>2 DEF CoverInv, Intact
  <2>4. QED
    BY <1>3, <1>4, <2>3 DEF CrawlCovers
<1>9. \A a \in replies : a.to = c => a.stop \in r.inFlight
  BY <1>4 DEF CoverInv
<1>10. QED
  BY <1>5, <1>6, <1>7, <1>8, <1>9, OneCovers

(* The loop only moves on: it begins to wait when nothing is queued or as   *)
(* many requests as allowed, so at least one, are in flight.                *)
LEMMA MoveCovers ==
  ASSUME IInv, CoverInv, NEW c \in Crawls, NEW phase \in Working,
         crawl' = [crawl EXCEPT ![c].phase = phase], crawl[c].phase \in Working,
         UNCHANGED <<cache, replies, period>>,
         phase = "await" => \/ Cardinality(crawl[c].inFlight) >= Concurrency
                            \/ crawl[c].queue = {}
  PROVE  CoverInv'
<1> DEFINE r == [crawl[c] EXCEPT !.phase = phase]
<1>1. crawl[c] \in Crawl /\ phase \in Phase
  BY DEF IInv, TypeOK, Working
<1>2. r \in Crawl
  BY <1>1 DEF Crawl
<1>3. /\ r.queue = crawl[c].queue /\ r.seen = crawl[c].seen /\ r.phase = phase
      /\ r.root = crawl[c].root /\ r.born = crawl[c].born
      /\ r.skipped = crawl[c].skipped /\ r.inFlight = crawl[c].inFlight
  BY <1>1 DEF Crawl
<1>4. crawl' = [crawl EXCEPT ![c] = r]
  BY <1>1
<1> HIDE DEF r
<1>5. Have' = Have
  BY DEF Have
<1>6. CrawlCovers(r, Have)
  <2>1. Covers(crawl[c], Have) => Covers(r, Have)
    BY <1>3, CoversMoved DEF Waiting
  <2>2. Intact(r) => Covers(r, Have)
    BY <1>3, <2>1 DEF CoverInv, Intact
  <2>3. phase = "await" => r.queue = {} \/ r.inFlight # {}
    <3>1. ~(Cardinality({}) >= Concurrency)
      BY FS_EmptySet, LimitsAssumption
    <3>2. crawl[c].inFlight = {} => ~(Cardinality(crawl[c].inFlight) >= Concurrency)
      BY <3>1, Zenon
    <3>3. QED
      BY <1>3, <3>2
  <2>4. QED
    BY <1>3, <2>2, <2>3 DEF CrawlCovers, Working, Ended
<1>7. \A a \in replies : a.to = c => a.stop \in r.inFlight
  BY <1>3 DEF CoverInv
<1>8. QED
  BY <1>2, <1>4, <1>5, <1>6, <1>7, OneCovers

(* From now on something was skipped.                                       *)
LEMMA SkipCovers ==
  ASSUME IInv, CoverInv, NEW c \in Crawls, SpendBudget(c) \/ LandError(c)
  PROVE  CoverInv'
<1>1. IInv'
  BY SpendBudgetStep, LandErrorStep
<1>2. crawl[c] \in Crawl /\ crawl'[c] \in Crawl
  BY <1>1 DEF IInv, TypeOK
<1>3. UNCHANGED <<cache, period>>
  BY DEF SpendBudget, LandError
<1>4. Have' = Have
  BY <1>3 DEF Have
<1>5. CASE SpendBudget(c)
  <2>1. PICK s \in crawl[c].queue :
          crawl' = [crawl EXCEPT ![c] =
            [crawl[c] EXCEPT !.queue = crawl[c].queue \ {s}, !.skipped = TRUE,
                             !.phase = "await"]]
    BY <1>5 DEF SpendBudget
  <2>2. crawl' = [crawl EXCEPT ![c] = crawl'[c]]
    BY <2>1 DEF IInv, TypeOK
  <2>3. crawl'[c].skipped = TRUE /\ crawl'[c].inFlight = crawl[c].inFlight
    BY <1>2, <2>1 DEF IInv, TypeOK, Crawl
  <2>4. CrawlCovers(crawl'[c], Have')
    BY <2>3 DEF CrawlCovers, Intact
  <2>5. replies' = replies
    BY <1>5 DEF SpendBudget
  <2>6. \A a \in replies' : a.to = c => a.stop \in crawl'[c].inFlight
    BY <2>3, <2>5 DEF CoverInv
  <2>7. QED
    BY <1>2, <1>3, <1>4, <2>2, <2>4, <2>5, <2>6, OneCovers
<1>6. CASE LandError(c)
  <2>1. PICK a \in replies :
          /\ a.to = c /\ replies' = replies \ {a}
          /\ crawl' = [crawl EXCEPT ![c] =
               [crawl[c] EXCEPT !.inFlight = crawl[c].inFlight \ {a.stop},
                                !.skipped = TRUE, !.phase = "check"]]
    BY <1>6 DEF LandError
  <2>2. crawl' = [crawl EXCEPT ![c] = crawl'[c]]
    BY <2>1 DEF IInv, TypeOK
  <2>3. /\ crawl'[c].skipped = TRUE
        /\ crawl'[c].inFlight = crawl[c].inFlight \ {a.stop}
    BY <1>2, <2>1 DEF IInv, TypeOK, Crawl
  <2>4. CrawlCovers(crawl'[c], Have')
    BY <2>3 DEF CrawlCovers, Intact
  <2>5. \A b \in replies' : b.to = c => b.stop \in crawl'[c].inFlight
    BY <2>1, <2>3 DEF CoverInv
  <2>6. QED
    BY <1>2, <1>3, <1>4, <2>1, <2>2, <2>4, <2>5, OneCovers
<1>7. QED
  BY <1>5, <1>6

(* A listing that lands is what the folder waited for. *)
LEMMA LandListingCovers ==
  ASSUME IInv, CoverInv, NEW c \in Crawls, LandListing(c) PROVE CoverInv'
<1>1. crawl[c] \in Crawl /\ crawl[c].phase \in Working /\ period' = period
  BY DEF IInv, TypeOK, LandListing, Working, Phase, Ended
<1>2. PICK a \in replies :
        /\ a.to = c /\ replies' = replies \ {a}
        /\ cache' = Insert(a.stop.url, a.listing)
        /\ crawl' = [crawl EXCEPT
             ![c] = Queued([crawl[c] EXCEPT !.inFlight = crawl[c].inFlight \ {a.stop},
                                            !.phase = "check"],
                           a.stop.depth, Shows(a.stop.url, a.listing))]
  BY DEF LandListing
<1> PICK s : s = a.stop
  OBVIOUS
<1>3. /\ s \in Stop /\ s.url \in Folders /\ s.depth \in 0 .. MaxDepth
      /\ a.listing \in Listing
  BY DEF IInv, TypeOK, Reply, Stop
<1> DEFINE r == [crawl[c] EXCEPT !.inFlight = crawl[c].inFlight \ {s}, !.phase = "check"]
           subs == Shows(s.url, a.listing)
           q == Queued(r, s.depth, subs)
<1>4. subs \in SUBSET Folders
  BY <1>3, FoldersSubfolders
<1>5. /\ FirstPage[s.url] \subseteq subs /\ subs \subseteq Sub[s.url]
      /\ s.depth = 0 => Sub[s.url] \subseteq subs
  BY <1>3, StoreAssumption DEF Shows, IInv, RootRepliesWhole
<1>6. /\ r \in Crawl /\ r.inFlight = crawl[c].inFlight \ {s}
      /\ r.skipped = crawl[c].skipped /\ r.queue = crawl[c].queue
      /\ r.seen = crawl[c].seen /\ r.phase = "check"
      /\ r.root = crawl[c].root /\ r.born = crawl[c].born
  BY <1>1 DEF Crawl, Phase
<1>7. q.skipped = r.skipped
  BY <1>6 DEF Queued, Crawl
<1> HIDE DEF r, subs
<1>8. /\ q \in Crawl /\ q.phase = r.phase /\ q.root = r.root /\ q.born = r.born
      /\ q.inFlight = r.inFlight
  BY <1>3, <1>4, <1>6, QueuedKeeps
<1>9. Have \subseteq Have' /\ s.url \in Have'
  <2>1. cache' = cache \/ cache' = [cache EXCEPT ![s.url] = a.listing]
    BY <1>2 DEF Insert
  <2>2. a.listing # Unlisted
    BY <1>3, UnlistedAssumption
  <2>3. cache'[s.url] # Unlisted
    BY <1>2, <1>3, <2>2 DEF Insert, IInv, TypeOK
  <2>4. QED
    BY <1>3, <2>1, <2>2, <2>3 DEF Have, IInv, TypeOK
<1>10. ASSUME Covers(crawl[c], Have) PROVE Covers(q, Have')
  <2>1. /\ Waiting(r) \subseteq Waiting(crawl[c]) /\ s \in Waiting(crawl[c])
        /\ Waiting(crawl[c]) \ {s} \subseteq Waiting(r)
    BY <1>2, <1>6 DEF Waiting, CoverInv
  <2>2. QED
    BY <1>1, <1>5, <1>6, <1>9, <1>10, <2>1, CoversExpanded
<1> HIDE DEF q
<1>11. crawl' = [crawl EXCEPT ![c] = q]
  BY <1>2 DEF q, r, subs
<1>12. CrawlCovers(q, Have')
  <2>1. q.phase # "await" /\ q.phase # "ok"
    BY <1>6, <1>8
  <2>2. Intact(q) => Covers(q, Have')
    BY <1>1, <1>6, <1>7, <1>8, <1>10 DEF CoverInv, Intact
  <2>3. QED
    BY <2>1, <2>2 DEF CrawlCovers
<1>13. ASSUME NEW b \in replies', b.to = c PROVE b.stop \in q.inFlight
  <2>1. b \in replies /\ b # a
    BY <1>2
  <2>2. b.stop \in crawl[c].inFlight /\ b.stop # s
    BY <1>2, <1>13, <2>1 DEF CoverInv
  <2>3. QED
    BY <1>6, <1>8, <2>2
<1>14. QED
  BY <1>1, <1>2, <1>8, <1>9, <1>11, <1>12, <1>13, OneCovers

LEMMA InitCovers == Init => CoverInv
<1> SUFFICES ASSUME Init PROVE CoverInv
  OBVIOUS
<1>1. Idle.phase = "idle"
  BY DEF Idle, New
<1>2. \A c \in Crawls : crawl[c].phase = "idle" /\ replies = {}
  BY <1>1 DEF Init
<1>3. QED
  BY <1>2 DEF CoverInv, Working, Init

LEMMA StartCovers ==
  ASSUME IInv, StaleInv, CoverInv, NEW c \in Crawls, Start(c) PROVE CoverInv'
<1>1. PICK u \in Roots : crawl' = [crawl EXCEPT ![c] = New(u)]
  BY DEF Start
<1>2. u \in Folders /\ period \in Periods /\ UNCHANGED <<replies, period, cache>>
  BY FoldersAssumption DEF IInv, TypeOK, Start
<1>3. New(u) \in Crawl
  BY <1>2, NewCrawl
<1> DEFINE r == New(u)
           dep == [v \in Folders |-> 0]
<1>4. /\ r.phase = "seek" /\ r.root = u /\ r.queue = {[url |-> u, depth |-> 0]}
      /\ r.seen = {u} /\ r.inFlight = {}
  BY DEF New
<1> HIDE DEF r
<1>5. Have' = Have
  BY <1>2 DEF Have
<1>6. Covers(r, Have)
  <2>1. dep \in [Folders -> 0 .. MaxDepth] /\ dep[u] = 0
    BY <1>2, LimitsAssumption
  <2> HIDE DEF dep
  <2>2. Waiting(r) = {[url |-> u, depth |-> 0]}
    BY <1>4 DEF Waiting
  <2>3. u \in Roots /\ u \in Below(u)
    BY <1>2, BelowClosed
  <2>4. CoveredAt(r, dep, Have)
    BY <1>4, <2>1, <2>2, <2>3 DEF CoveredAt
  <2>5. QED
    BY <2>1, <2>4 DEF Covers
<1>7. CrawlCovers(r, Have)
  BY <1>4, <1>6 DEF CrawlCovers
<1>8. \A a \in replies : a.to # c
  BY DEF StaleInv, RepliesYoung, Started, Start
<1>9. QED
  BY <1>1, <1>2, <1>3, <1>5, <1>7, <1>8, OneCovers DEF r

(* The store answers each request once. *)
LEMMA AnswerCovers ==
  ASSUME IInv, CoverInv, NEW c \in Crawls, Answer(c) PROVE CoverInv'
<1>1. PICK s \in crawl[c].inFlight, ok \in BOOLEAN :
        /\ \A a \in replies : ~(a.to = c /\ a.stop = s)
        /\ replies' = replies \cup
             {[to |-> c, stop |-> s, ok |-> ok,
               listing |-> [complete |-> s.depth = 0 \/ s.url \notin Long,
                            period |-> period]]}
  BY DEF Answer
<1> DEFINE a == [to |-> c, stop |-> s, ok |-> ok,
                 listing |-> [complete |-> s.depth = 0 \/ s.url \notin Long,
                              period |-> period]]
<1>2. a.to = c /\ a.stop = s /\ replies' = replies \cup {a}
  BY <1>1
<1> HIDE DEF a
<1>3. UNCHANGED <<cache, crawl, period>>
  BY DEF Answer
<1>4. \A b \in replies' : b.stop \in crawl[b.to].inFlight
  BY <1>2 DEF CoverInv
<1>5. \A b, d \in replies' : b.to = d.to /\ b.stop = d.stop => b = d
  BY <1>1, <1>2 DEF CoverInv
<1>6. QED
  BY <1>3, <1>4, <1>5 DEF CoverInv, Intact, Have

LEMMA RefreshCovers == ASSUME IInv, CoverInv, Refresh PROVE CoverInv'
<1>1. period' = period + 1 /\ UNCHANGED <<crawl, replies>> /\ period \in Nat
  BY MaxRefreshesAssumption DEF IInv, TypeOK, Periods, Refresh
<1>2. \A c \in Crawls : ~Intact(crawl[c])'
  <2>1. ASSUME NEW c \in Crawls PROVE crawl[c].born # period + 1
    <3>1. crawl[c].born <= period /\ crawl[c].born \in Nat
      BY MaxRefreshesAssumption DEF IInv, RootPending, TypeOK, Crawl, Periods
    <3>2. QED
      BY <1>1, <3>1
  <2>2. QED
    BY <1>1, <2>1 DEF Intact
<1>3. QED
  BY <1>1, <1>2 DEF CoverInv

LEMMA NextCovers ==
  ASSUME OneParent, IInv, StaleInv, CoverInv, [Next]_vars PROVE CoverInv'
<1>1. ASSUME NEW c \in Crawls, ExpandCached(c) \/ Request(c) \/ LandListing(c)
      PROVE  CoverInv'
  BY <1>1, ExpandCachedCovers, RequestCovers, LandListingCovers
<1>2. ASSUME NEW c \in Crawls, SpendBudget(c) \/ LandError(c) PROVE CoverInv'
  BY <1>2, SkipCovers
<1>3. ASSUME NEW c \in Crawls, NothingToRequest(c) PROVE CoverInv'
  <2>1. crawl[c].queue = {} /\ crawl[c].inFlight = {} /\ crawl[c].phase \in Working
    BY <1>3 DEF NothingToRequest, IInv, SeekingFirst, Working, Phase, Ended
  <2>2. QED
    BY <1>3, <2>1, ReturnCovers DEF NothingToRequest, Ended
<1>4. ASSUME NEW c \in Crawls, Finish(c) PROVE CoverInv'
  <2>1. crawl[c].phase = "await" /\ crawl[c].inFlight = {} /\ crawl[c].phase \in Working
    BY <1>4 DEF Finish, Working, Phase, Ended
  <2>2. ~crawl[c].skipped /\ crawl[c].born = period => crawl[c].queue = {}
    BY <2>1 DEF CoverInv, Intact
  <2>3. QED
    BY <1>4, <2>1, <2>2, ReturnCovers DEF Finish, Ended
<1>5. ASSUME NEW c \in Crawls,
             ConnectFails(c) \/ SeeCancelled(c) \/ LandRootError(c)
      PROVE  CoverInv'
  BY <1>5, ReturnCovers DEF ConnectFails, SeeCancelled, LandRootError, Ended
<1>6. ASSUME NEW c \in Crawls, StopFilling(c) \/ Connect(c) \/ GoOn(c) PROVE CoverInv'
  BY <1>6, MoveCovers DEF StopFilling, Connect, GoOn, Working, Phase, Ended
<1>7. ASSUME NEW c \in Crawls, Start(c) \/ Answer(c) PROVE CoverInv'
  BY <1>7, StartCovers, AnswerCovers
<1>8. ASSUME NEW c \in Crawls, Cancel(c) PROVE CoverInv'
  BY <1>8 DEF Cancel, CoverInv, Intact, Have
<1>9. CASE Refresh
  BY <1>9, RefreshCovers
<1>10. CASE UNCHANGED vars
  BY <1>10 DEF vars, CoverInv, Intact, Have
<1>11. QED
  BY <1>1, <1>2, <1>3, <1>4, <1>5, <1>6, <1>7, <1>8, <1>9, <1>10 DEF Next, CrawlStep

(* A read-ahead that returned Ok, and lost nothing on the way, has listed   *)
(* every folder within reach, whatever the order in which the focus makes   *)
(* it pick them and the answers land, and whichever of them other           *)
(* read-aheads list first. A folder shown by two others may be come across  *)
(* at the greater of its depths, and what lies at the limit below it is     *)
(* then left out: hence OneParent.                                          *)
THEOREM OkCovers == ASSUME OneParent PROVE Spec => []OkMeansCovered
<1>1. CoverInv => OkMeansCovered
  BY DEF CoverInv, Intact, Have, OkMeansCovered
<1>2. IInv /\ StaleInv /\ CoverInv /\ [Next]_vars => CoverInv'
  BY NextCovers
<1>3. QED
  BY <1>1, <1>2, InitCovers, InitStale, NextStale, InvariantHolds, PTL DEF Spec
==============================================================================
