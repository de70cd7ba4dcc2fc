------------------------------- MODULE AppOpen -------------------------------
(***************************************************************************)
(* The application around the file on screen (TableizerApp::ui in app.rs,  *)
(* ui/menu.rs, persist.rs): how a target becomes an open file by way of a  *)
(* download and a decompression, the recent files, and the search bar and  *)
(* side panel that come and go with it.                                    *)
(*                                                                         *)
(* The UI thread draws frames; `stage` says which part of a frame is next, *)
(* in the order of TableizerApp::ui, and the user may act in the parts     *)
(* that have widgets. A file is what detection and opening look at. Of a   *)
(* search only whether there is one matters; what it does to the rows is   *)
(* in LoadedTable, the browser is in BrowseTree, the threads of the jobs   *)
(* are in CacheFetch. Operators named ...Unsound are slips the code could  *)
(* have made.                                                              *)
(***************************************************************************)
EXTENDS Naturals, Sequences, FiniteSets, SequencesExt

CONSTANTS
  Targets,       \* local paths and URLs
  Remote,        \* the URLs among them
  Content,       \* Content[t]: what is at the target, unpacked
  Gzipped,       \* the targets that are packed
  Searched,      \* the targets whose saved view has a search
  Finder,        \* the targets the desktop may hand over
  MaxRecents,    \* length of the list of recent files
  MaxActs,       \* bound: how often the user does something
  None           \* no target, no job, no focus

(* What detection looks at, and whether the file can be read at all.        *)
File ==
  [magic : BOOLEAN, json : {None, "lines", "array"},
   extension : {"parquet", "ndjson", "other"}, readable : BOOLEAN]

ASSUME TargetsAssumption ==
  /\ Remote \subseteq Targets /\ Gzipped \subseteq Targets
  /\ Searched \subseteq Targets /\ Finder \subseteq Targets \ Remote
  /\ Content \in [Targets -> File]
  /\ None \notin Targets
ASSUME FocusAssumption == None \notin {"find", "field"}
ASSUME BoundsAssumption == MaxRecents \in Nat \ {0} /\ MaxActs \in Nat

VARIABLES
  stage,     \* the part of the frame that is next
  frame,     \* what the parts of one frame leave for later ones
  app,       \* view, download_job, decompress_job, recent
  disk,      \* recent.txt
  pending,   \* pending_target: the command line's
  panel,     \* panel_open and panel_tab
  search,    \* search_open
  focus,     \* the widget with the keyboard focus
  held,      \* keyboard_focus_held
  drawn,     \* what the last frame showed (history)
  acts       \* how often the user did something (bound)

vars == <<stage, frame, app, disk, pending, panel, search, focus, held, drawn, acts>>
chrome == <<panel, search, focus>>

Stages ==
  <<"start", "download", "decompress", "keys", "menu", "toolbar", "panel", "draw">>

Target == Targets \cup {None}

View ==
  [kind : {"empty", "loaded", "failed"}, target : Target, search : BOOLEAN]
Empty == [kind |-> "empty", target |-> None, search |-> FALSE]

(* DownloadJob, DecompressJob. *)
Job == [target : Targets, outcome : {None, "ok", "err"}, cancelled : BOOLEAN]
NewJob(t) == [target |-> t, outcome |-> None, cancelled |-> FALSE]

ASSUME NoneAssumption == None \notin Job /\ None \notin {"ok", "err"}

App ==
  [view : View, download : Job \cup {None}, decompress : Job \cup {None},
   recent : BoundedSeq(Targets, MaxRecents)]

Tabs == {"columns", "parsing", "settings"}

(* found: was the find shortcut pressed; was: the search bar before; bar:   *)
(* is it drawn; escaped: did Esc take the focus from the Find field;        *)
(* closed: what Esc has closed (history).                                   *)
Frame ==
  [found : BOOLEAN, was : BOOLEAN, bar : BOOLEAN, escaped : BOOLEAN,
   toOpen : Target, closed : SUBSET {"panel", "search"}]
NewFrame ==
  [found |-> FALSE, was |-> search, bar |-> FALSE, escaped |-> FALSE,
   toOpen |-> None, closed |-> {}]

TypeOK ==
  /\ stage \in Range(Stages)
  /\ frame \in Frame
  /\ app.view \in View
  /\ app.download \in Job \cup {None} /\ app.decompress \in Job \cup {None}
  /\ app.recent \in Seq(Targets) /\ Len(app.recent) <= MaxRecents /\ IsInjective(app.recent)
  /\ disk = app.recent
  /\ pending \in Target
  /\ panel \in [open : BOOLEAN, tab : Tabs]
  /\ search \in BOOLEAN
  /\ focus \in {None, "find", "field"} /\ held \in BOOLEAN
  /\ drawn \in [search : BOOLEAN, bar : BOOLEAN]
  /\ acts \in 0 .. MaxActs

Init ==
  /\ stage = "start"
  /\ disk = <<>>
  /\ app = [view |-> Empty, download |-> None, decompress |-> None, recent |-> <<>>]
  /\ pending \in Target
  /\ panel = [open |-> FALSE, tab |-> "columns"]
  /\ search = FALSE /\ focus = None /\ held = FALSE
  /\ frame = NewFrame
  /\ drawn = [search |-> FALSE, bar |-> FALSE]
  /\ acts = 0

------------------------------------------------------------------------------
(* Opening. *)

(* detect_format: the content first, the extension when it says nothing.    *)
Format(f) ==
  CASE f.magic -> "parquet"
    [] ~f.magic /\ f.json # None -> "json"
    [] OTHER -> CASE f.extension = "parquet" -> "parquet"
                  [] f.extension = "ndjson" -> "json"
                  [] OTHER -> "delimited"

(* open_table: a file that is no Parquet cannot be read as one.             *)
Opens(f) == f.readable /\ (Format(f) = "parquet" => f.magic)

Prefix(s, n) == SubSeq(s, 1, IF Len(s) <= n THEN Len(s) ELSE n)

(* Vec::retain, of what is not t. *)
Without(s, t) ==
  LET places == {i \in DOMAIN s : s[i] # t}
      upTo(i) == Cardinality({j \in places : j <= i})
  IN  [k \in 1 .. Cardinality(places) |-> s[CHOOSE i \in places : upTo(i) = k]]

AddedTooLong(recent, t) == <<t>> \o Without(recent, t)

(* recent::add *)
Added(recent, t) == Prefix(<<t>> \o Without(recent, t), MaxRecents)

(* open_resolved: the saved view brings its search back. *)
Resolved(a, t) ==
  IF Opens(Content[t])
    THEN [a EXCEPT !.view = [kind |-> "loaded", target |-> t, search |-> t \in Searched],
                   !.recent = Added(@, t)]
    ELSE [a EXCEPT !.view = [kind |-> "failed", target |-> t, search |-> FALSE]]

(* open_prepared; start_decompress: one at a time. *)
Prepared(a, t) ==
  IF t \notin Gzipped THEN Resolved(a, t)
  ELSE IF a.decompress # None THEN a
  ELSE [a EXCEPT !.decompress = NewJob(t)]

StartedUnsound(a, t) == [a EXCEPT !.download = NewJob(t)]

(* start_download: one at a time. *)
Started(a, t) == IF a.download # None THEN a ELSE [a EXCEPT !.download = NewJob(t)]

(* open_target *)
Opened(a, t) == IF t \in Remote THEN Started(a, t) ELSE Prepared(a, t)

(* The list on disk follows the one in memory. *)
Becomes(a) == app' = a /\ disk' = IF a.recent = app.recent THEN disk ELSE a.recent

------------------------------------------------------------------------------
(* The parts of a frame. *)

At(s) == stage = s
Goes(s) == stage' = Stages[1 + (CHOOSE i \in DOMAIN Stages : Stages[i] = s)]

Start ==
  /\ At("start") /\ Goes("start")
  /\ frame' = NewFrame
  /\ IF pending = None THEN UNCHANGED <<app, disk>> ELSE Becomes(Opened(app, pending))
  /\ pending' = None
  /\ UNCHANGED <<chrome, held, drawn, acts>>

Arrived(job) == job # None /\ job.outcome = "ok"

DeliveredUnsound(a) == [a EXCEPT !.download = None]

(* poll_download, a download has arrived. *)
Delivered(a) == Prepared([a EXCEPT !.download = None], a.download.target)

PollDownload ==
  /\ At("download") /\ Goes("download")
  /\ IF Arrived(app.download) THEN Becomes(Delivered(app)) ELSE UNCHANGED <<app, disk>>
  /\ UNCHANGED <<frame, pending, chrome, held, drawn, acts>>

(* poll_decompress, a file has been unpacked. *)
Unpacked(a) == Resolved([a EXCEPT !.decompress = None], a.decompress.target)

PollDecompress ==
  /\ At("decompress") /\ Goes("decompress")
  /\ IF Arrived(app.decompress) THEN Becomes(Unpacked(app)) ELSE UNCHANGED <<app, disk>>
  /\ UNCHANGED <<frame, pending, chrome, held, drawn, acts>>

AfterKeys ==
  /\ At("keys") /\ Goes("keys")
  /\ UNCHANGED <<frame, app, disk, pending, chrome, held, drawn, acts>>

Loaded == app.view.kind = "loaded"

BarOpenUnsound == search \/ frame.found

(* search_bar_open *)
BarOpen == search \/ frame.found \/ app.view.search

(* After the menu: the bar, and the focus for a bar opened on purpose.      *)
ShowBar ==
  /\ At("menu") /\ Goes("menu")
  /\ search' = IF Loaded THEN BarOpen ELSE search
  /\ frame' = [frame EXCEPT !.bar = search' /\ Loaded]
  /\ focus' = IF frame'.bar /\ (frame.found \/ (~frame.was /\ search)) THEN "find" ELSE focus
  /\ UNCHANGED <<app, disk, pending, panel, held, drawn, acts>>

(* hide_search clears the search. *)
Hidden(a) == [a EXCEPT !.view.search = FALSE]

AvailableTabs ==
  {"settings"} \cup (IF Loaded THEN {"columns"} ELSE {}) \cup
  (IF Loaded /\ Format(Content[app.view.target]) = "delimited" THEN {"parsing"} ELSE {})

(* fix_panel_tab *)
Fixed ==
  IF panel.tab \in AvailableTabs THEN panel.tab
  ELSE IF Loaded THEN "columns" ELSE "settings"

(* After the search bar, which Esc in its field hides: the side panel.      *)
ShowPanel ==
  /\ At("toolbar") /\ Goes("toolbar")
  /\ LET hides == frame.escaped /\ frame.bar IN
       /\ app' = IF hides THEN Hidden(app) ELSE app
       /\ search' = (search /\ ~hides)
       /\ frame' = [frame EXCEPT !.closed = IF hides THEN @ \cup {"search"} ELSE @]
  /\ panel' = [panel EXCEPT !.tab = Fixed]
  /\ UNCHANGED <<disk, pending, focus, held, drawn, acts>>

Draw ==
  /\ At("panel") /\ Goes("panel")
  /\ drawn' = [search |-> app.view.search, bar |-> frame.bar]
  /\ UNCHANGED <<frame, app, disk, pending, chrome, held, acts>>

(* The end of a frame: what the menu asked to open, and the focus, which a  *)
(* widget that is not drawn loses.                                          *)
EndFrame ==
  /\ At("draw") /\ stage' = "start"
  /\ IF frame.toOpen = None THEN UNCHANGED <<app, disk>>
     ELSE Becomes(Opened(app, frame.toOpen))
  /\ focus' = IF (focus = "find" /\ ~(frame.bar /\ search)) \/ (focus = "field" /\ ~panel.open)
                THEN None ELSE focus
  /\ held' = (focus' # None)
  /\ UNCHANGED <<frame, pending, panel, search, drawn, acts>>

------------------------------------------------------------------------------
(* What the user does. *)

Acts(s) == At(s) /\ acts < MaxActs /\ acts' = acts + 1 /\ UNCHANGED <<stage, pending, held, drawn>>

(* show_download, show_decompress: Cancel while it runs, Close after an error.*)
DownloadDialog ==
  /\ Acts("decompress") /\ app.download # None
  /\ \/ app.download.outcome = None /\ app' = [app EXCEPT !.download.cancelled = TRUE]
     \/ app.download.outcome = "err" /\ app' = [app EXCEPT !.download = None]
  /\ UNCHANGED <<frame, disk, chrome>>

DecompressDialog ==
  /\ Acts("keys") /\ app.decompress # None
  /\ \/ app.decompress.outcome = None /\ app' = [app EXCEPT !.decompress.cancelled = TRUE]
     \/ app.decompress.outcome = "err" /\ app' = [app EXCEPT !.decompress = None]
  /\ UNCHANGED <<frame, disk, chrome>>

FindShortcut ==
  /\ Acts("keys") /\ frame' = [frame EXCEPT !.found = TRUE]
  /\ UNCHANGED <<app, disk, chrome>>

(* The close shortcut, and later in the frame Browse Files, Close File and  *)
(* the button in the corner.                                                *)
Close ==
  /\ Acts("keys") \/ Acts("menu")
  /\ Loaded \/ At("menu")
  /\ app' = [app EXCEPT !.view = Empty]
  /\ UNCHANGED <<frame, disk, chrome>>

(* The settings shortcut toggles; the menu's Settings opens. *)
Settings ==
  /\ Acts("keys") \/ Acts("menu")
  /\ panel' = [open |-> At("menu") \/ ~(panel.open /\ panel.tab = "settings"),
               tab |-> "settings"]
  /\ UNCHANGED <<frame, app, disk, search, focus>>

HoldsFocusUnsound == focus' # None

(* Was a widget focused at the end of the last frame?                       *)
HoldsFocus == held

(* Esc: the focused field loses the focus before anything sees the key.     *)
Escape ==
  /\ Acts("keys")
  /\ focus' = None
  /\ LET closes == panel.open /\ ~HoldsFocus IN
       /\ panel' = [panel EXCEPT !.open = @ /\ ~closes]
       /\ frame' = [frame EXCEPT !.escaped = focus = "find",
                                 !.closed = IF closes THEN @ \cup {"panel"} ELSE @]
  /\ UNCHANGED <<app, disk, search>>

(* Open Recent; a second choice in one frame is not possible. *)
ChooseRecent ==
  /\ Acts("menu") /\ frame.toOpen = None
  /\ \E t \in Range(app.recent) : frame' = [frame EXCEPT !.toOpen = t]
  /\ UNCHANGED <<app, disk, chrome>>

(* recent::clear, from the menu or the start screen. *)
ClearRecents ==
  /\ Acts("menu") \/ (Acts("draw") /\ app.view = Empty)
  /\ app' = [app EXCEPT !.recent = <<>>] /\ disk' = <<>>
  /\ UNCHANGED <<frame, chrome>>

(* The corner's toggles. *)
ToggleColumns ==
  /\ Acts("menu") /\ Loaded
  /\ panel' = IF panel.open /\ panel.tab = "columns" THEN [panel EXCEPT !.open = FALSE]
              ELSE [open |-> TRUE, tab |-> "columns"]
  /\ UNCHANGED <<frame, app, disk, search, focus>>

ToggleSearch ==
  /\ Acts("menu") /\ Loaded
  /\ search' = ~search
  /\ app' = IF search THEN Hidden(app) ELSE app
  /\ UNCHANGED <<frame, disk, panel, focus>>

(* The toolbar: type or clear the search, or hide the bar with its button.  *)
EditSearch ==
  /\ Acts("toolbar") /\ frame.bar
  /\ focus' = "find" /\ \E s \in BOOLEAN : app' = [app EXCEPT !.view.search = s]
  /\ UNCHANGED <<frame, disk, panel, search>>

HideSearch ==
  /\ Acts("toolbar") /\ frame.bar
  /\ search' = FALSE /\ app' = Hidden(app)
  /\ UNCHANGED <<frame, disk, panel, focus>>

(* The side panel: choose a tab, click into a field, close it with its      *)
(* button, or drag its edge, which opens it as well.                        *)
UsePanel ==
  /\ Acts("panel")
  /\ \/ panel.open /\ \E t \in AvailableTabs : panel' = [panel EXCEPT !.tab = t]
        /\ UNCHANGED focus
     \/ panel.open /\ focus' = "field" /\ UNCHANGED panel
     \/ panel' = [panel EXCEPT !.open = ~@] /\ UNCHANGED focus
  /\ UNCHANGED <<frame, app, disk, search>>

(* A recent file or a file of the browser, on the start screen.             *)
OpenFromStart ==
  /\ Acts("draw") /\ app.view = Empty
  /\ \E t \in Targets : Becomes(Opened(app, t))
  /\ UNCHANGED <<frame, chrome>>

(* Files the desktop hands over, several at once. *)
OpenFromFinder ==
  /\ Acts("draw")
  /\ \E t \in Finder : Becomes(Opened(app, t))
  /\ UNCHANGED <<frame, chrome>>

User ==
  \/ DownloadDialog \/ DecompressDialog \/ FindShortcut \/ Close \/ Settings
  \/ Escape \/ ChooseRecent \/ ClearRecents \/ ToggleColumns \/ ToggleSearch
  \/ EditSearch \/ HideSearch \/ UsePanel \/ OpenFromStart \/ OpenFromFinder

------------------------------------------------------------------------------
(* The threads; a cancelled one may still succeed. *)

Ends(job) == job # None /\ job.outcome = None

DownloadEnds ==
  /\ Ends(app.download)
  /\ \E o \in {"ok", "err"} : app' = [app EXCEPT !.download.outcome = o]
  /\ UNCHANGED <<stage, frame, disk, pending, chrome, held, drawn, acts>>

DecompressEnds ==
  /\ Ends(app.decompress)
  /\ \E o \in {"ok", "err"} : app' = [app EXCEPT !.decompress.outcome = o]
  /\ UNCHANGED <<stage, frame, disk, pending, chrome, held, drawn, acts>>

FrameStep ==
  \/ Start \/ PollDownload \/ PollDecompress \/ AfterKeys \/ ShowBar \/ ShowPanel
  \/ Draw \/ EndFrame

Next == FrameStep \/ User \/ DownloadEnds \/ DecompressEnds

(* Frames are drawn while a job runs, and its thread ends.                  *)
Fairness == WF_vars(FrameStep) /\ WF_vars(DownloadEnds) /\ WF_vars(DecompressEnds)

Spec == Init /\ [][Next]_vars /\ Fairness

------------------------------------------------------------------------------
(* Properties. *)

(* "so a search never filters or highlights rows out of sight" (app.rs:     *)
(* 1692): rows are drawn under a search only with the search bar above, for *)
(* a search restored with the file too.                                     *)
SearchInSight == drawn.search => drawn.bar

(* One Esc closes one thing: the Find field's closes the search bar and not *)
(* the panel as well (app.rs:446).                                          *)
EscapeClosesOne == Cardinality(frame.closed) <= 1

(* A job goes away only when the file it fetched is on screen or being      *)
(* unpacked, or when the user has closed the message of its failure. A      *)
(* download that ends while something is being unpacked is excepted: it is  *)
(* lost without a word (app.rs:748).                                        *)
OutcomesKept ==
  [][LET down == app.download
         unpack == app.decompress
     IN  /\ down # None /\ app'.download # down /\ down.outcome # None =>
              \/ app'.view.target = down.target
              \/ app'.decompress # None /\ app'.decompress.target = down.target
              \/ down.outcome = "err" /\ app'.download = None
              \/ unpack # None
         /\ unpack # None /\ app'.decompress # unpack /\ unpack.outcome # None =>
              \/ app'.view.target = unpack.target
              \/ unpack.outcome = "err" /\ app'.decompress = None]_vars

(* What was asked for gets on screen, or the user is told that it failed    *)
(* (app.rs:726, app.rs:790), unless something else is being unpacked when   *)
(* its download ends.                                                       *)
Served ==
  \A t \in Targets :
    LET fails(job) == job # None /\ job.target = t /\ job.outcome = "err"
        wants(job) == job # None /\ job.target = t
    IN  /\ wants(app.decompress) ~> app.view.target = t \/ fails(app.decompress)
        /\ wants(app.download) ~>
             \/ app.view.target = t \/ fails(app.download) \/ fails(app.decompress)
             \/ app.decompress # None /\ app.decompress.target # t
=============================================================================
