------------------------------ MODULE BrowseTree ------------------------------
(***************************************************************************)
(* The browser of the start screen (show_landing and what it calls in      *)
(* app.rs, complete.rs): the tree of remote folders, its jobs, and the     *)
(* jump-to field with its suggestions, over the read-aheads and the        *)
(* listing cache of ReadAhead.                                             *)
(*                                                                         *)
(* The UI thread runs whole frames: poll_browse, update_goto_completion,   *)
(* then at most one thing the user does. Bucket lists, local listings and  *)
(* read-aheads run on threads of their own. A node of the tree is named by *)
(* its path, the URLs from the top level down to it: one folder may be in  *)
(* the tree twice, below its parent and as a target jumped to. The text of *)
(* the field stands for the folder it names up to its last separator. The  *)
(* name typed after it, files, and the local tree, whose folders are       *)
(* listed on the spot, are left out. Operators named ...Unsound are slips  *)
(* the code could have made.                                               *)
(***************************************************************************)
EXTENDS Naturals, Sequences, FiniteSets, SequencesExt

CONSTANTS
  Folders, Sub, FirstPage, Long, Crawls, MaxDepth, MaxRequests, Concurrency,
  MaxRefreshes, Unlisted,   \* of ReadAhead
  Buckets,       \* the folders the list of buckets names, in its order
  Typeable,      \* the folders a user may type
  LocalFolders,  \* what may be typed in local mode
  LocalSub,      \* LocalSub[f]: the subfolders of f
  S3,            \* the text s3://
  MaxActs,       \* bound: how often the user does something
  None           \* no text, no job, no suggestions

ASSUME BucketsAssumption == Buckets \in Seq(Folders) /\ IsInjective(Buckets)
ASSUME TypeableAssumption == Typeable \subseteq Folders
ASSUME MaxActsAssumption == MaxActs \in Nat
ASSUME LocalAssumption ==
  /\ LocalSub \in [LocalFolders -> SUBSET LocalFolders]
  /\ LocalFolders \cap Folders = {}
  /\ S3 \notin Folders \cup LocalFolders
  /\ None \notin Folders \cup LocalFolders \cup {S3} \cup Crawls

VARIABLES
  cache, crawl, replies, cancelled, period,   \* of ReadAhead
  tree,        \* browse_root
  bucketJob,   \* browse_jobs: the list of buckets on its way
  treeJobs,    \* tree_read_aheads
  mode,        \* browse_mode
  text,        \* browse_goto
  complete,    \* goto_complete
  s3,          \* is the list of buckets in the listing cache?
  s3Asked,     \* does a thread list the buckets for the suggestions?
  acts         \* how often the user did something (bound)

RA == INSTANCE ReadAhead WITH Roots <- Folders

(* The assumptions of ReadAhead. *)
ASSUME FoldersAssumption == Folders # {}
ASSUME StoreAssumption ==
  /\ Sub \in [Folders -> SUBSET Folders]
  /\ FirstPage \in [Folders -> SUBSET Folders]
  /\ Long \subseteq Folders
  /\ \A u \in Folders : FirstPage[u] \subseteq Sub[u]
  /\ \A u \in Folders \ Long : FirstPage[u] = Sub[u]
ASSUME LimitsAssumption ==
  MaxDepth \in Nat /\ MaxRequests \in Nat \ {0} /\ Concurrency \in Nat \ {0}
ASSUME RefreshAssumption ==
  MaxRefreshes \in Nat /\ Unlisted \notin RA!Listing

raVars == <<cache, crawl, replies, cancelled, period>>
treeVars == <<tree, bucketJob, treeJobs>>
fieldVars == <<mode, text, complete, s3, s3Asked, acts>>
vars == <<raVars, treeVars, fieldVars>>

(* ChildState, without the children. *)
ChildState == {"unloaded", "loading", "loaded", "failed"}
Node == [expanded : BOOLEAN, children : ChildState]
NewNode == [expanded |-> FALSE, children |-> "unloaded"]

(* top: the order of the top level; nodes: every BrowseNode by its path. *)
Emptied(root) == [root |-> root, top |-> <<>>, nodes |-> <<>>]

BucketJob == {None, "running", "listed", "failed"}

Typed == {None, S3} \cup Folders \cup LocalFolders

(* GotoCompletion. *)
GotoCompletion ==
  [parent : Typed,
   dirs : {None} \cup SUBSET (Folders \cup LocalFolders),
   final : BOOLEAN,                   \* dirs_complete
   job : [parent : LocalFolders, done : BOOLEAN, ok : BOOLEAN] \cup {None},
   readAhead : Crawls \cup {None}]

NoCompletion ==
  [parent |-> None, dirs |-> None, final |-> FALSE, job |-> None,
   readAhead |-> None]

TypeOK ==
  /\ tree.root \in ChildState
  /\ Range(tree.top) \subseteq Folders /\ IsInjective(tree.top)
  /\ DOMAIN tree.nodes \subseteq Seq(Folders) \ {<<>>}
  /\ \A p \in DOMAIN tree.nodes : tree.nodes[p] \in Node
  /\ {p[1] : p \in DOMAIN tree.nodes} = Range(tree.top)
  /\ bucketJob \in BucketJob
  /\ treeJobs \subseteq Crawls
  /\ mode \in {"local", "remote"}
  /\ text \in Typed
  /\ complete \in GotoCompletion
  /\ s3 \in BOOLEAN /\ s3Asked \in BOOLEAN
  /\ acts \in 0 .. MaxActs

Init ==
  /\ RA!Init
  /\ tree = Emptied("unloaded") /\ bucketJob = None /\ treeJobs = {}
  /\ mode = "local" /\ text = None /\ complete = NoCompletion
  /\ s3 = FALSE /\ s3Asked = FALSE /\ acts = 0

------------------------------------------------------------------------------
(* The tree. *)

LoadingNodes(t) == {p \in DOMAIN t.nodes : t.nodes[p].children = "loading"}

Whole(u) == cache[u] # Unlisted /\ cache[u].complete

FillsUnsound(u) == cache[u] # Unlisted

(* A listing fills a node only when it is complete.                         *)
Fills(u) == Whole(u)

(* install_cached: every folder that waits and whose listing is there.      *)
Installed(t) ==
  LET filled == {p \in LoadingNodes(t) : Fills(Last(p))}
      fresh == UNION {{Append(p, u) : u \in RA!Shows(Last(p), cache[Last(p)])} :
                        p \in filled}
  IN  [t EXCEPT !.nodes =
        [p \in DOMAIN @ \cup fresh |->
           IF p \in fresh THEN NewNode
           ELSE IF p \in filled THEN [@[p] EXCEPT !.children = "loaded"]
           ELSE @[p]]]

(* find_node_mut walks siblings in their order, and a folder before what is *)
(* below it. A folder is in the tree at most twice: below its parent and at *)
(* the top.                                                                 *)
WalkedBefore(t, p, q) ==
  LET position(r) == CHOOSE i \in DOMAIN t.top : t.top[i] = r[1]
  IN  position(p) < position(q) \/ (p[1] = q[1] /\ Len(p) < Len(q))

Named(t, u) == {p \in DOMAIN t.nodes : Last(p) = u}
Found(t, u) == CHOOSE p \in Named(t, u) : \A q \in Named(t, u) \ {p} : WalkedBefore(t, p, q)

(* The folders that could not be listed: the first node of each, if waiting.*)
Marked(t, failed) ==
  LET marked == {Found(t, u) : u \in {v \in failed : Named(t, v) # {}}}
                  \cap LoadingNodes(t)
  IN  [t EXCEPT !.nodes =
        [p \in DOMAIN @ |-> IF p \in marked THEN [@[p] EXCEPT !.children = "failed"]
                            ELSE @[p]]]

TopLevel(folders) ==
  [root |-> "loaded", top |-> folders,
   nodes |-> [p \in {<<u>> : u \in Range(folders)} |-> NewNode]]

RootInstalledUnsound(t) == IF bucketJob = "listed" THEN TopLevel(Buckets) ELSE t

(* The list of buckets, or the failure to get it, replaces the root.        *)
RootInstalled(t) ==
  CASE bucketJob = "listed" -> TopLevel(Buckets)
    [] bucketJob = "failed" -> Emptied("failed")
    [] OTHER -> t

Collected == {c \in treeJobs : crawl[c].phase \in RA!Ended}

(* A start screen in remote mode with nothing listed asks for the buckets.  *)
AsksForBuckets == mode = "remote" /\ tree.root = "unloaded"

(* poll_browse. *)
Polled ==
  Marked(Installed(RootInstalled(IF AsksForBuckets THEN Emptied("loading") ELSE tree)),
         {crawl[c].root : c \in {d \in Collected : crawl[d].phase # "ok"}})

JobsLeft == treeJobs \ Collected

------------------------------------------------------------------------------
(* The suggestions. *)

Idle == {c \in Crawls : crawl[c].phase = "idle"}

(* spawn_read_ahead *)
Started(c, u) == crawl' = [crawl EXCEPT ![c] = RA!New(u)]

(* The field's text names another folder than the suggestions. *)
Moved == text # complete.parent

ResetUnsound ==
  [NoCompletion EXCEPT
     !.parent = text,
     !.job = IF complete.job # None THEN complete.job
             ELSE IF text \in LocalFolders
               THEN [parent |-> text, done |-> FALSE, ok |-> FALSE] ELSE None]

(* The old listing goes unread; a local folder is listed by a new thread. *)
Reset ==
  [NoCompletion EXCEPT
     !.parent = text,
     !.job = IF text \in LocalFolders
               THEN [parent |-> text, done |-> FALSE, ok |-> FALSE] ELSE None]

(* cached_dirs, with whether they are all. *)
CachedDirs(u) ==
  IF u = S3 THEN IF s3 THEN <<Range(Buckets), TRUE>> ELSE <<None, FALSE>>
  ELSE IF u \notin Folders \/ cache[u] = Unlisted THEN <<None, FALSE>>
  ELSE <<RA!Shows(u, cache[u]), cache[u].complete>>

(* update_goto_completion, when the text has not moved. *)
Updated(k) ==
  LET k1 == IF k.job = None \/ ~k.job.done THEN k
            ELSE [k EXCEPT !.job = None, !.final = TRUE,
                           !.dirs = IF k.job.ok THEN LocalSub[k.job.parent] ELSE None]
      dirs == CachedDirs(k.parent)
  IN  IF mode = "remote" /\ ~k1.final /\ dirs[1] # None
        THEN [k1 EXCEPT !.dirs = dirs[1], !.final = dirs[2]]
        ELSE k1

(* What a frame does to the jobs, leaving the tree in state t: a list of    *)
(* buckets that has arrived feeds the suggestions too.                      *)
Frame(t, jobs) ==
  /\ tree' = t /\ treeJobs' = jobs
  /\ bucketJob' = IF AsksForBuckets \/ bucketJob = "running" THEN "running" ELSE None
  /\ s3' = (s3 \/ bucketJob = "listed")

(* The read-ahead of the folder typed before is no longer wanted; the token *)
(* of one that has ended no longer matters.                                 *)
Cancels == complete.readAhead # None /\ RA!Running(complete.readAhead)

(* update_goto_completion, text moved: first the old folder's read-ahead.   *)
CancelOld ==
  /\ Moved /\ complete.readAhead # None
  /\ complete' = [complete EXCEPT !.readAhead = None]
  /\ cancelled' = IF Cancels THEN cancelled \cup {complete.readAhead} ELSE cancelled
  /\ UNCHANGED <<cache, crawl, replies, period, treeVars, mode, text, s3, s3Asked, acts>>

(* start_completion_listing *)
FollowText ==
  /\ Moved /\ complete.readAhead = None
  /\ UNCHANGED <<mode, text, acts>> /\ Frame(Polled, JobsLeft)
  /\ IF text \in Folders
       THEN \E c \in Idle :
              Started(c, text) /\ complete' = Updated([Reset EXCEPT !.readAhead = c])
       ELSE UNCHANGED crawl /\ complete' = Updated(Reset)
  /\ s3Asked' = (s3Asked \/ (text = S3 /\ ~s3))
  /\ UNCHANGED <<cache, replies, cancelled, period>>

(* A frame in which the user does nothing. *)
QuietFrame ==
  /\ ~Moved
  /\ UNCHANGED <<mode, text, acts>> /\ Frame(Polled, JobsLeft)
  /\ complete' = Updated(complete)
  /\ UNCHANGED <<raVars, s3Asked>>

------------------------------------------------------------------------------
(* What the user does in a frame (the suggestions do not lag: a bound).     *)

Acts == ~Moved /\ acts < MaxActs /\ acts' = acts + 1 /\ UNCHANGED s3Asked
UserFrame == Acts /\ complete' = Updated(complete)
Polls == Frame(Polled, JobsLeft)

(* bound: a read-ahead is left for the folder, and one thread lists buckets.*)
CanType(u) == (u \in Folders => Idle # {}) /\ (u = S3 => ~s3Asked)

Type ==
  /\ UserFrame /\ UNCHANGED mode /\ Polls
  /\ \E u \in {None} \cup (IF mode = "remote" THEN {S3} \cup Typeable ELSE LocalFolders) :
       u # text /\ CanType(u) /\ text' = u
  /\ UNCHANGED raVars

(* accept: the suggestion, with its separator, is the new text. *)
Accept ==
  /\ UserFrame /\ UNCHANGED mode /\ Polls
  /\ LET dirs == Updated(complete).dirs IN
       dirs # None /\ \E u \in dirs : CanType(u) /\ text' = u
  /\ UNCHANGED raVars

ToggleMode ==
  /\ UserFrame
  /\ mode' = IF mode = "remote" THEN "local" ELSE "remote"
  /\ text' = None
  /\ Polls /\ UNCHANGED raVars

Visible(t, p) == \A i \in 1 .. Len(p) - 1 : t.nodes[SubSeq(p, 1, i)].expanded

(* load_children: what is cached already is shown at once, and the folder   *)
(* is read ahead from all the same.                                         *)
Load(t, u) ==
  \E c \in Idle :
    /\ Started(c, u)
    /\ Frame(Installed(t), JobsLeft \cup {c})
    /\ UNCHANGED <<cache, replies, cancelled, period>>

Wants(node) == node.children \in {"unloaded", "failed"}

(* show_browse_node, a folder is clicked. *)
ClickNode ==
  /\ UserFrame /\ mode = "remote" /\ UNCHANGED <<mode, text>>
  /\ \E p \in {q \in DOMAIN Polled.nodes : Visible(Polled, q)} :
       LET node == Polled.nodes[p]
           open == ~node.expanded
           loads == open /\ Wants(node)
           t == [Polled EXCEPT !.nodes[p] =
                  [expanded |-> open,
                   children |-> IF loads THEN "loading" ELSE node.children]]
       IN  IF loads THEN Load(t, Last(p))
           ELSE Frame(t, JobsLeft) /\ UNCHANGED raVars

JumpsFromUnsound(t) == Emptied("loaded")

JumpsFrom(t) == IF t.root = "loaded" THEN t ELSE Emptied("loaded")

ThereUnsound(t, u) == FALSE

There(t, u) == u \in Range(t.top)

(* goto_browse with the folder in the field: a new top-level node, unless   *)
(* there is one, expanded.                                                  *)
Go ==
  /\ UserFrame /\ mode = "remote" /\ UNCHANGED <<mode, text>>
  /\ text \in Folders
  /\ LET base == JumpsFrom(Polled)
         p == <<text>>
         there == There(base, text)
         node == IF there THEN base.nodes[p] ELSE NewNode
         t == [base EXCEPT
                !.top = IF there THEN @ ELSE Append(@, text),
                !.nodes = [q \in DOMAIN @ \cup {p} |->
                  IF q # p THEN @[q]
                  ELSE [expanded |-> TRUE,
                        children |-> IF Wants(node) THEN "loading" ELSE node.children]]]
     IN  IF Wants(node) THEN Load(t, text)
         ELSE Frame(t, JobsLeft) /\ UNCHANGED raVars

UnwantedUnsound == {c \in JobsLeft : RA!Running(c)}

Unwanted == {c \in JobsLeft \cup ({complete.readAhead} \ {None}) : RA!Running(c)}

AfreshUnsound == [NoCompletion EXCEPT !.parent = text]

(* The folder behind the suggestions is listed again by the next frame.     *)
Afresh == NoCompletion

(* Refresh in remote mode; the list of buckets under way goes unread. *)
Refresh ==
  /\ Acts /\ mode = "remote" /\ UNCHANGED <<mode, text>>
  /\ period < MaxRefreshes /\ CanType(text)
  /\ cancelled' = cancelled \cup Unwanted
  /\ cache' = [u \in Folders |-> Unlisted] /\ s3' = FALSE
  /\ period' = period + 1
  /\ tree' = Emptied("loading") /\ bucketJob' = "running" /\ treeJobs' = {}
  /\ complete' = Afresh
  /\ UNCHANGED <<crawl, replies>>

(* Refresh in local mode: only the folder typed is listed again. *)
RefreshLocal ==
  /\ Acts /\ mode = "local" /\ UNCHANGED <<mode, text>>
  /\ Polls
  /\ complete' = Afresh
  /\ UNCHANGED raVars

------------------------------------------------------------------------------
(* The other threads. *)

CrawlStep(c) == (RA!CrawlStep(c) \/ RA!Answer(c)) /\ UNCHANGED <<treeVars, fieldVars>>

BucketsLand ==
  /\ bucketJob = "running"
  /\ bucketJob' \in {"listed", "failed"}
  /\ UNCHANGED <<raVars, tree, treeJobs, fieldVars>>

LocalLists ==
  /\ complete.job # None /\ ~complete.job.done
  /\ \E ok \in BOOLEAN :
       complete' = [complete EXCEPT !.job.done = TRUE, !.job.ok = ok]
  /\ UNCHANGED <<raVars, treeVars, mode, text, s3, s3Asked, acts>>

(* list_s3_buckets for the suggestions; a failure leaves no trace. *)
S3Lands ==
  /\ s3Asked /\ s3Asked' = FALSE
  /\ s3' \in {s3, TRUE}
  /\ UNCHANGED <<raVars, treeVars, mode, text, complete, acts>>

Next ==
  \/ QuietFrame \/ CancelOld \/ FollowText
  \/ Type \/ Accept \/ ToggleMode \/ ClickNode \/ Go \/ Refresh \/ RefreshLocal
  \/ \E c \in Crawls : CrawlStep(c)
  \/ BucketsLand \/ LocalLists \/ S3Lands

(* Frames are drawn, threads run, and requests are answered or time out.    *)
Fairness ==
  /\ WF_vars(QuietFrame) /\ WF_vars(CancelOld \/ FollowText)
  /\ \A c \in Crawls : WF_vars(CrawlStep(c))
  /\ WF_vars(BucketsLand) /\ WF_vars(LocalLists)

Spec == Init /\ [][Next]_vars /\ Fairness

------------------------------------------------------------------------------
(* Properties. *)

(* The app uses read-aheads as ReadAhead says: one runs per folder asked    *)
(* for, and they are cancelled, or all abandoned, only as described there;  *)
(* Refresh leaves none running that it knows of (app.rs 1303-1321).         *)
ReadAheadUsed == RA!Init /\ [][RA!Next]_raVars

(* "mark the folders that could not be listed" (app.rs:1012): a folder that *)
(* says Listing... has a read-ahead, or its listing is there, even when it  *)
(* is in the tree twice.                                                    *)
EveryFailureShows ==
  \A p \in LoadingNodes(tree) :
    (\E c \in treeJobs : crawl[c].root = Last(p)) \/ Whole(Last(p))

(* A listed folder shows all of its subfolders, never one page of them, and *)
(* nothing is shown below a folder that is not listed (app.rs:1525).        *)
ShowsWholeListing ==
  \A p \in DOMAIN tree.nodes :
    {q \in DOMAIN tree.nodes : Len(q) = Len(p) + 1 /\ SubSeq(q, 1, Len(p)) = p}
      = IF tree.nodes[p].children = "loaded" THEN {Append(p, u) : u \in Sub[Last(p)]}
        ELSE {}

(* The suggestions are subfolders of the folder they are shown for, all of  *)
(* them once they no longer change, whichever listing arrives when          *)
(* (app.rs:1100, app.rs:1116).                                              *)
SuggestionsBelong ==
  LET below == IF complete.parent \in Folders THEN Sub[complete.parent]
               ELSE IF complete.parent \in LocalFolders THEN LocalSub[complete.parent]
               ELSE IF complete.parent = S3 THEN Range(Buckets) ELSE {}
  IN  complete.dirs # None =>
        complete.dirs \subseteq below /\ (complete.final => complete.dirs = below)

(* Only Refresh and the arrival of the bucket list (app.rs:998) take a      *)
(* folder out of the tree, or forget what was listed below it.              *)
NodesStay ==
  [][period' = period /\ bucketJob \notin {"listed", "failed"} =>
       /\ DOMAIN tree.nodes \subseteq DOMAIN tree'.nodes
       /\ \A p \in DOMAIN tree.nodes :
            tree.nodes[p].children = "loaded" => tree'.nodes[p].children = "loaded"]_vars

(* The tree does not say Listing... for ever (app.rs:1015), the folders     *)
(* excepted that are in it twice.                                           *)
TreeSettles ==
  /\ tree.root = "loading" ~> tree.root # "loading"
  /\ \A u \in Folders :
       (\E p \in LoadingNodes(tree) : Last(p) = u)
         ~> \/ \A p \in LoadingNodes(tree) : Last(p) # u
            \/ Cardinality(Named(tree, u)) > 1

(* The folder typed is suggested from in the end, after a Refresh too       *)
(* (app.rs:1304), unless its read-ahead failed or the user moves on.        *)
SuggestionsArrive ==
  \A u \in Folders \cup LocalFolders :
    text = u ~> \/ text # u
                \/ complete.parent = u /\ complete.final
                \/ complete.readAhead # None /\ crawl[complete.readAhead].phase = "failed"
==============================================================================
