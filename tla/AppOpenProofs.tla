---------------------------- MODULE AppOpenProofs ----------------------------
(***************************************************************************)
(* Proofs about AppOpen, for any targets, contents and number of actions:  *)
(* a search is never in effect out of sight, one Esc closes one thing, the *)
(* recent files name each target once, and no job goes away without a      *)
(* trace.                                                                  *)
(***************************************************************************)
EXTENDS AppOpen, FiniteSetTheorems, WellFoundedInduction, TLAPS

StageSet == {"start", "download", "decompress", "keys", "menu", "toolbar", "panel", "draw"}

(* Each part of a frame is followed by the next one.                        *)
LEMMA StagesInOrder ==
  /\ Stages[1] = "start" /\ Stages[2] = "download" /\ Stages[3] = "decompress"
  /\ Stages[4] = "keys" /\ Stages[5] = "menu" /\ Stages[6] = "toolbar"
  /\ Stages[7] = "panel" /\ Stages[8] = "draw" /\ DOMAIN Stages = 1 .. 8
BY DEF Stages

LEMMA Follows ==
  /\ Goes("start") <=> stage' = "download"
  /\ Goes("download") <=> stage' = "decompress"
  /\ Goes("decompress") <=> stage' = "keys"
  /\ Goes("keys") <=> stage' = "menu"
  /\ Goes("menu") <=> stage' = "toolbar"
  /\ Goes("toolbar") <=> stage' = "panel"
  /\ Goes("panel") <=> stage' = "draw"
<1> DEFINE place(s) == CHOOSE i \in DOMAIN Stages : Stages[i] = s
<1> USE StagesInOrder
<1>1. \A i \in 1 .. 8 : i \in {1, 2, 3, 4, 5, 6, 7, 8}
  OBVIOUS
<1>2. place("start") = 1 /\ place("download") = 2 /\ place("decompress") = 3 /\ place("keys") = 4
  BY <1>1
<1>3. place("menu") = 5 /\ place("toolbar") = 6 /\ place("panel") = 7
  BY <1>1
<1>4. QED
  BY <1>2, <1>3 DEF Goes

------------------------------------------------------------------------------
(* The inductive invariant. *)

(* What the proofs need of the types: the fields of the records, and which  *)
(* of them are Boolean. Only a loaded file has a search.                    *)
ViewShape(v) ==
  /\ v = [kind |-> v.kind, target |-> v.target, search |-> v.search]
  /\ v.search \in BOOLEAN
  /\ v.kind # "loaded" => v.search = FALSE

AppShape(a) ==
  /\ a = [view |-> a.view, download |-> a.download, decompress |-> a.decompress,
          recent |-> a.recent]
  /\ ViewShape(a.view)

FrameShape(f) ==
  /\ f = [found |-> f.found, was |-> f.was, bar |-> f.bar, escaped |-> f.escaped,
          toOpen |-> f.toOpen, closed |-> f.closed]
  /\ {f.found, f.was, f.bar, f.escaped} \subseteq BOOLEAN
  /\ f.closed \subseteq {"panel", "search"}

Shape ==
  /\ stage \in StageSet
  /\ AppShape(app) /\ FrameShape(frame)
  /\ panel = [open |-> panel.open, tab |-> panel.tab] /\ panel.open \in BOOLEAN
  /\ search \in BOOLEAN /\ held \in BOOLEAN
  /\ drawn = [search |-> drawn.search, bar |-> drawn.bar]

(* From the search bar to the rows: a search is below its bar, and the bar  *)
(* above a loaded file.                                                     *)
BelowBar ==
  /\ stage \in {"toolbar", "panel"} => (app.view.search => frame.bar)
  /\ stage = "toolbar" => (frame.bar => app.view.kind = "loaded")

(* Until the keys are read the focus is where the last frame has left it,   *)
(* and what Esc does to it is seen by the search bar alone.                 *)
OneTaker ==
  /\ stage \in {"start", "download", "decompress", "keys"} => (focus # None => held)
  /\ stage \in {"download", "decompress", "keys", "menu", "toolbar"} =>
       /\ frame.escaped => held
       /\ "panel" \in frame.closed => ~held
       /\ "search" \notin frame.closed
  /\ ~("panel" \in frame.closed /\ "search" \in frame.closed)

IInv == Shape /\ BelowBar /\ OneTaker /\ SearchInSight

(* Opening a target leaves a view, whose search is that of a loaded file.   *)
LEMMA OpeningShape ==
  ASSUME NEW a, NEW t, AppShape(a)
  PROVE  AppShape(Resolved(a, t)) /\ AppShape(Prepared(a, t)) /\ AppShape(Opened(a, t))
<1>1. \A d : AppShape([a EXCEPT !.download = d]) /\ AppShape([a EXCEPT !.decompress = d])
  BY DEF AppShape
<1>2. AppShape(Resolved(a, t))
  <2> DEFINE loaded == [kind |-> "loaded", target |-> t, search |-> t \in Searched]
             failed == [kind |-> "failed", target |-> t, search |-> FALSE]
  <2>1. ViewShape(loaded) /\ ViewShape(failed)
    BY DEF ViewShape
  <2>2. /\ AppShape([a EXCEPT !.view = loaded, !.recent = Added(a.recent, t)])
        /\ AppShape([a EXCEPT !.view = failed])
    <3> HIDE DEF loaded, failed
    <3>1. AppShape([a EXCEPT !.view = loaded]) /\ AppShape([a EXCEPT !.view = failed])
      BY <2>1 DEF AppShape
    <3>2. \A b, r : AppShape(b) => AppShape([b EXCEPT !.recent = r])
      BY DEF AppShape
    <3>3. [a EXCEPT !.view = loaded, !.recent = Added(a.recent, t)]
            = [[a EXCEPT !.view = loaded] EXCEPT !.recent = Added(a.recent, t)]
      OBVIOUS
    <3>4. QED
      BY <3>1, <3>2, <3>3
  <2>3. CASE Opens(Content[t])
    BY <2>2, <2>3 DEF Resolved
  <2>4. CASE ~Opens(Content[t])
    BY <2>2, <2>4 DEF Resolved
  <2>5. QED
    BY <2>3, <2>4
<1>3. AppShape(Prepared(a, t))
  BY <1>1, <1>2 DEF Prepared
<1>4. AppShape(Started(a, t))
  BY <1>1 DEF Started
<1>5. QED
  BY <1>2, <1>3, <1>4 DEF Opened

LEMMA ArrivingShape ==
  ASSUME AppShape(app) PROVE AppShape(Delivered(app)) /\ AppShape(Unpacked(app))
<1>1. \A d : AppShape([app EXCEPT !.download = d]) /\ AppShape([app EXCEPT !.decompress = d])
  BY DEF AppShape
<1>2. QED
  BY <1>1, OpeningShape DEF Delivered, Unpacked

LEMMA InitIInv == Init => IInv
<1> SUFFICES ASSUME Init PROVE IInv
  OBVIOUS
<1>1. stage = "start" /\ search = FALSE /\ focus = None /\ held = FALSE
  BY DEF Init
<1>2. AppShape(app)
  BY DEF Init, AppShape, ViewShape, Empty
<1>3. FrameShape(frame) /\ frame.closed = {}
  BY <1>1 DEF Init, FrameShape, NewFrame
<1>4. Shape
  BY <1>1, <1>2, <1>3 DEF Init, Shape, StageSet
<1>5. BelowBar /\ OneTaker
  BY <1>1, <1>3 DEF BelowBar, OneTaker
<1>6. SearchInSight
  BY DEF Init, SearchInSight
<1>7. QED
  BY <1>4, <1>5, <1>6 DEF IInv

------------------------------------------------------------------------------
(* The parts of a frame. *)

LEMMA StartStep == IInv /\ Start => IInv'
<1> SUFFICES ASSUME IInv, Start PROVE IInv'
  OBVIOUS
<1>1. stage' = "download" /\ search \in BOOLEAN
  BY Follows DEF Start, IInv, Shape
<1>2. AppShape(app')
  BY OpeningShape DEF Start, Becomes, IInv, Shape
<1>3. FrameShape(frame') /\ frame'.closed = {} /\ frame'.escaped = FALSE
  BY <1>1 DEF Start, FrameShape, NewFrame
<1>4. UNCHANGED <<panel, search, focus, held, drawn>>
  BY DEF Start, chrome
<1>5. Shape'
  BY <1>1, <1>2, <1>3, <1>4 DEF IInv, Shape, StageSet
<1>6. BelowBar' /\ OneTaker' /\ SearchInSight'
  BY <1>1, <1>3, <1>4 DEF IInv, BelowBar, OneTaker, SearchInSight, Start, At
<1>7. QED
  BY <1>5, <1>6 DEF IInv

LEMMA PollStep == IInv /\ (PollDownload \/ PollDecompress \/ AfterKeys) => IInv'
<1> SUFFICES ASSUME IInv, PollDownload \/ PollDecompress \/ AfterKeys PROVE IInv'
  OBVIOUS
<1>1. \/ stage = "download" /\ stage' = "decompress"
      \/ stage = "decompress" /\ stage' = "keys"
      \/ stage = "keys" /\ stage' = "menu"
  BY Follows DEF PollDownload, PollDecompress, AfterKeys, At
<1>2. AppShape(app')
  BY ArrivingShape DEF PollDownload, PollDecompress, AfterKeys, Becomes, IInv, Shape
<1>3. UNCHANGED <<frame, panel, search, focus, held, drawn>>
  BY DEF PollDownload, PollDecompress, AfterKeys, chrome
<1>4. Shape'
  BY <1>1, <1>2, <1>3 DEF IInv, Shape, StageSet
<1>5. BelowBar' /\ OneTaker' /\ SearchInSight'
  BY <1>1, <1>3 DEF IInv, BelowBar, OneTaker, SearchInSight
<1>6. QED
  BY <1>4, <1>5 DEF IInv

LEMMA ShowBarStep == IInv /\ ShowBar => IInv'
<1> SUFFICES ASSUME IInv, ShowBar PROVE IInv'
  OBVIOUS
<1>1. stage = "menu" /\ stage' = "toolbar"
  BY Follows DEF ShowBar, At
<1>2. UNCHANGED <<app, panel, held, drawn>>
  BY DEF ShowBar
<1>3. /\ AppShape(app) /\ FrameShape(frame) /\ search \in BOOLEAN
  BY DEF IInv, Shape
<1>4. search' \in BOOLEAN /\ (Loaded /\ app.view.search => search')
  BY <1>3 DEF ShowBar, BarOpen, AppShape, ViewShape, FrameShape
<1>5. frame' = [frame EXCEPT !.bar = search' /\ Loaded]
  BY DEF ShowBar
<1>6. /\ FrameShape(frame') /\ frame'.bar = (search' /\ Loaded)
      /\ frame'.closed = frame.closed /\ frame'.escaped = frame.escaped
  BY <1>3, <1>5 DEF FrameShape
<1>7. Shape'
  BY <1>1, <1>2, <1>4, <1>6 DEF IInv, Shape, StageSet
<1>8. BelowBar'
  BY <1>1, <1>2, <1>3, <1>4, <1>6 DEF BelowBar, Loaded, AppShape, ViewShape
<1>9. OneTaker' /\ SearchInSight'
  BY <1>1, <1>2, <1>6 DEF IInv, OneTaker, SearchInSight
<1>10. QED
  BY <1>7, <1>8, <1>9 DEF IInv

(* Editing the search, and hide_search with it, changes nothing else.       *)
LEMMA SearchEdited ==
  ASSUME AppShape(app), NEW s \in BOOLEAN, s = TRUE => app.view.kind = "loaded"
  PROVE  LET a == [app EXCEPT !.view.search = s]
         IN  AppShape(a) /\ a.view.search = s /\ a.view.kind = app.view.kind
<1> DEFINE v == [app.view EXCEPT !.search = s]
<1>1. ViewShape(v) /\ v.search = s /\ v.kind = app.view.kind
  BY DEF AppShape, ViewShape
<1>2. [app EXCEPT !.view.search = s] = [app EXCEPT !.view = v]
  OBVIOUS
<1> HIDE DEF v
<1>3. AppShape([app EXCEPT !.view = v]) /\ [app EXCEPT !.view = v].view = v
  BY <1>1 DEF AppShape
<1>4. QED
  BY <1>1, <1>2, <1>3

LEMMA HiddenShape ==
  ASSUME AppShape(app)
  PROVE  /\ AppShape(Hidden(app)) /\ Hidden(app).view.search = FALSE
         /\ Hidden(app).view.kind = app.view.kind
BY SearchEdited DEF Hidden

LEMMA ShowPanelStep == IInv /\ ShowPanel => IInv'
<1> SUFFICES ASSUME IInv, ShowPanel PROVE IInv'
  OBVIOUS
<1> DEFINE hides == frame.escaped /\ frame.bar
<1>1. stage = "toolbar" /\ stage' = "panel"
  BY Follows DEF ShowPanel, At
<1>2. UNCHANGED <<focus, held, drawn>> /\ search' \in BOOLEAN
  BY DEF ShowPanel
<1>3. AppShape(app) /\ FrameShape(frame)
  BY DEF IInv, Shape
<1>4. AppShape(app') /\ (app'.view.search => app.view.search)
  BY <1>3, HiddenShape DEF ShowPanel
<1>5. frame' = [frame EXCEPT !.closed = IF hides THEN frame.closed \cup {"search"}
                                       ELSE frame.closed]
  BY DEF ShowPanel
<1>6. /\ FrameShape(frame') /\ frame'.bar = frame.bar /\ frame'.escaped = frame.escaped
      /\ frame'.closed = IF hides THEN frame.closed \cup {"search"} ELSE frame.closed
  BY <1>3, <1>5 DEF FrameShape
<1>7. panel' = [open |-> panel'.open, tab |-> panel'.tab] /\ panel'.open \in BOOLEAN
  BY DEF ShowPanel, IInv, Shape
<1>8. held \in BOOLEAN /\ Shape'
  BY <1>1, <1>2, <1>4, <1>6, <1>7 DEF IInv, Shape, StageSet
<1>9. BelowBar'
  BY <1>1, <1>4, <1>6 DEF IInv, BelowBar
<1>10. OneTaker'
  BY <1>1, <1>6 DEF IInv, OneTaker
<1>11. SearchInSight'
  BY <1>2 DEF IInv, SearchInSight
<1>12. QED
  BY <1>8, <1>9, <1>10, <1>11 DEF IInv

LEMMA DrawStep == IInv /\ Draw => IInv'
<1> SUFFICES ASSUME IInv, Draw PROVE IInv'
  OBVIOUS
<1>1. stage = "panel" /\ stage' = "draw"
  BY Follows DEF Draw, At
<1>2. UNCHANGED <<app, frame, panel, search, focus, held>>
  BY DEF Draw, chrome
<1>3. drawn' = [search |-> app.view.search, bar |-> frame.bar]
  BY DEF Draw
<1>4. Shape'
  BY <1>1, <1>2, <1>3 DEF IInv, Shape, StageSet
<1>5. BelowBar' /\ OneTaker'
  BY <1>1, <1>2 DEF IInv, BelowBar, OneTaker
<1>6. SearchInSight'
  BY <1>1, <1>3 DEF IInv, BelowBar, SearchInSight
<1>7. QED
  BY <1>4, <1>5, <1>6 DEF IInv

LEMMA EndFrameStep == IInv /\ EndFrame => IInv'
<1> SUFFICES ASSUME IInv, EndFrame PROVE IInv'
  OBVIOUS
<1>1. stage = "draw" /\ stage' = "start"
  BY DEF EndFrame, At
<1>2. AppShape(app')
  BY OpeningShape DEF EndFrame, Becomes, IInv, Shape
<1>3. UNCHANGED <<frame, panel, search, drawn>> /\ held' = (focus' # None)
  BY DEF EndFrame
<1>4. Shape'
  BY <1>1, <1>2, <1>3 DEF IInv, Shape, StageSet
<1>5. BelowBar' /\ OneTaker' /\ SearchInSight'
  BY <1>1, <1>3 DEF IInv, BelowBar, OneTaker, SearchInSight
<1>6. QED
  BY <1>4, <1>5 DEF IInv

------------------------------------------------------------------------------
(* What the user and the threads do. *)

(* What they do to the application without touching the view.               *)
LEMMA JobsEdited ==
  ASSUME AppShape(app)
  PROVE  \A d : LET a == [app EXCEPT !.download = d]
                    b == [app EXCEPT !.decompress = d]
                IN  /\ AppShape(a) /\ a.view = app.view
                    /\ AppShape(b) /\ b.view = app.view
BY DEF AppShape

(* A step that leaves the chrome and the frame alone, and the view while    *)
(* the rows are about to be drawn.                                          *)
LEMMA AppOnly ==
  ASSUME IInv, UNCHANGED <<stage, frame, panel, search, focus, held, drawn>>,
         AppShape(app'), stage \in {"toolbar", "panel"} => app'.view = app.view
  PROVE  IInv'
<1>1. Shape'
  BY DEF IInv, Shape
<1>2. BelowBar' /\ OneTaker' /\ SearchInSight'
  BY DEF IInv, BelowBar, OneTaker, SearchInSight
<1>3. QED
  BY <1>1, <1>2 DEF IInv

LEMMA ThreadStep == IInv /\ (DownloadEnds \/ DecompressEnds) => IInv'
<1> SUFFICES ASSUME IInv, DownloadEnds \/ DecompressEnds PROVE IInv'
  OBVIOUS
<1>1. \E d : app' = [app EXCEPT !.download = d] \/ app' = [app EXCEPT !.decompress = d]
  BY DEF DownloadEnds, DecompressEnds
<1>2. AppShape(app') /\ app'.view = app.view
  BY <1>1, JobsEdited DEF IInv, Shape
<1>3. QED
  BY <1>2, AppOnly DEF DownloadEnds, DecompressEnds, chrome

LEMMA DialogStep == IInv /\ (DownloadDialog \/ DecompressDialog) => IInv'
<1> SUFFICES ASSUME IInv, DownloadDialog \/ DecompressDialog PROVE IInv'
  OBVIOUS
<1>1. \E d : app' = [app EXCEPT !.download = d] \/ app' = [app EXCEPT !.decompress = d]
  BY DEF DownloadDialog, DecompressDialog
<1>2. AppShape(app') /\ app'.view = app.view
  BY <1>1, JobsEdited DEF IInv, Shape
<1>3. QED
  BY <1>2, AppOnly DEF DownloadDialog, DecompressDialog, Acts, chrome

LEMMA CloseStep == IInv /\ Close => IInv'
<1> SUFFICES ASSUME IInv, Close PROVE IInv'
  OBVIOUS
<1>1. stage \in {"keys", "menu"}
  BY DEF Close, Acts, At
<1>2. AppShape(app')
  BY DEF Close, IInv, Shape, AppShape, ViewShape, Empty
<1>3. QED
  BY <1>1, <1>2, AppOnly DEF Close, Acts, chrome

LEMMA ClearRecentsStep == IInv /\ ClearRecents => IInv'
<1> SUFFICES ASSUME IInv, ClearRecents PROVE IInv'
  OBVIOUS
<1>1. AppShape(app') /\ app'.view = app.view
  BY DEF ClearRecents, IInv, Shape, AppShape
<1>2. QED
  BY <1>1, AppOnly DEF ClearRecents, Acts, chrome

LEMMA OpenStep == IInv /\ (OpenFromStart \/ OpenFromFinder) => IInv'
<1> SUFFICES ASSUME IInv, OpenFromStart \/ OpenFromFinder PROVE IInv'
  OBVIOUS
<1>1. stage = "draw"
  BY DEF OpenFromStart, OpenFromFinder, Acts, At
<1>2. AppShape(app')
  BY OpeningShape DEF OpenFromStart, OpenFromFinder, Becomes, IInv, Shape
<1>3. QED
  BY <1>1, <1>2, AppOnly DEF OpenFromStart, OpenFromFinder, Acts, chrome

(* A step that leaves all but the side panel alone.                         *)
LEMMA PanelOnly ==
  ASSUME IInv, UNCHANGED <<stage, frame, app, search, held, drawn>>,
         focus' = focus \/ stage = "panel",
         panel' = [open |-> panel'.open, tab |-> panel'.tab], panel'.open \in BOOLEAN
  PROVE  IInv'
<1>1. Shape'
  BY DEF IInv, Shape
<1>2. BelowBar' /\ OneTaker' /\ SearchInSight'
  BY DEF IInv, BelowBar, OneTaker, SearchInSight
<1>3. QED
  BY <1>1, <1>2 DEF IInv

LEMMA PanelStep == IInv /\ (Settings \/ ToggleColumns \/ UsePanel) => IInv'
<1> SUFFICES ASSUME IInv, Settings \/ ToggleColumns \/ UsePanel PROVE IInv'
  OBVIOUS
<1>1. /\ UNCHANGED <<stage, frame, app, search, held, drawn>>
      /\ focus' = focus \/ stage = "panel"
  BY DEF Settings, ToggleColumns, UsePanel, Acts, At, chrome
<1>2. panel = [open |-> panel.open, tab |-> panel.tab] /\ panel.open \in BOOLEAN
  BY DEF IInv, Shape
<1>3. CASE Settings
  <2>1. \E o \in BOOLEAN : panel' = [open |-> o, tab |-> "settings"]
    BY <1>3 DEF Settings
  <2>2. QED
    BY <1>1, <2>1, PanelOnly
<1>4. CASE ToggleColumns
  BY <1>1, <1>2, <1>4, PanelOnly DEF ToggleColumns
<1>5. CASE UsePanel
  <2>1. \E t : \/ panel' = [panel EXCEPT !.tab = t] \/ panel' = panel
               \/ panel' = [panel EXCEPT !.open = ~panel.open]
    BY <1>5 DEF UsePanel
  <2>2. panel' = [open |-> panel'.open, tab |-> panel'.tab] /\ panel'.open \in BOOLEAN
    BY <1>2, <2>1
  <2>3. QED
    BY <1>1, <2>2, PanelOnly
<1>6. QED
  BY <1>3, <1>4, <1>5

LEMMA NoteStep == IInv /\ (FindShortcut \/ ChooseRecent) => IInv'
<1> SUFFICES ASSUME IInv, FindShortcut \/ ChooseRecent PROVE IInv'
  OBVIOUS
<1>1. UNCHANGED <<stage, app, panel, search, focus, held, drawn>>
  BY DEF FindShortcut, ChooseRecent, Acts, chrome
<1>2. FrameShape(frame)
  BY DEF IInv, Shape
<1>3. /\ FrameShape(frame') /\ frame'.bar = frame.bar /\ frame'.escaped = frame.escaped
      /\ frame'.closed = frame.closed
  <2>1. \E t : frame' = [frame EXCEPT !.found = TRUE] \/ frame' = [frame EXCEPT !.toOpen = t]
    BY DEF FindShortcut, ChooseRecent
  <2>2. QED
    BY <1>2, <2>1 DEF FrameShape
<1>4. Shape'
  BY <1>1, <1>3 DEF IInv, Shape
<1>5. BelowBar' /\ OneTaker' /\ SearchInSight'
  BY <1>1, <1>3 DEF IInv, BelowBar, OneTaker, SearchInSight
<1>6. QED
  BY <1>4, <1>5 DEF IInv

(* The Find field has the focus only when it had it at the end of the last  *)
(* frame, and then Esc leaves the side panel alone.                         *)
LEMMA EscapeStep == IInv /\ Escape => IInv'
<1> SUFFICES ASSUME IInv, Escape PROVE IInv'
  OBVIOUS
<1> DEFINE closes == panel.open /\ ~HoldsFocus
<1>1. stage = "keys" /\ UNCHANGED <<stage, app, search, held, drawn>> /\ focus' = None
  BY DEF Escape, Acts, At
<1>2. FrameShape(frame) /\ panel = [open |-> panel.open, tab |-> panel.tab]
      /\ panel.open \in BOOLEAN
  BY DEF IInv, Shape
<1>3. panel' = [panel EXCEPT !.open = panel.open /\ ~closes]
  BY DEF Escape
<1>4. panel' = [open |-> panel'.open, tab |-> panel'.tab] /\ panel'.open \in BOOLEAN
  BY <1>2, <1>3
<1>5. frame' = [frame EXCEPT !.escaped = focus = "find",
                             !.closed = IF closes THEN frame.closed \cup {"panel"}
                                        ELSE frame.closed]
  BY DEF Escape
<1>6. /\ FrameShape(frame') /\ frame'.bar = frame.bar /\ frame'.escaped = (focus = "find")
      /\ frame'.closed = IF closes THEN frame.closed \cup {"panel"} ELSE frame.closed
  BY <1>2, <1>5 DEF FrameShape
<1>7. Shape'
  BY <1>1, <1>4, <1>6 DEF IInv, Shape
<1>8. (focus = "find" => held) /\ (closes => ~held)
  BY <1>1, FocusAssumption DEF IInv, OneTaker, HoldsFocus
<1>9. OneTaker'
  <2> HIDE DEF closes
  <2>1. frame'.escaped => held
    BY <1>6, <1>8
  <2>2. /\ "panel" \in frame.closed => ~held
        /\ "search" \notin frame.closed
    BY <1>1 DEF IInv, OneTaker
  <2>3. /\ "panel" \in frame'.closed => ~held
        /\ "search" \notin frame'.closed
    BY <1>6, <1>8, <2>2
  <2>4. QED
    BY <1>1, <2>1, <2>3 DEF OneTaker
<1>10. BelowBar' /\ SearchInSight'
  BY <1>1 DEF IInv, BelowBar, SearchInSight
<1>11. QED
  BY <1>7, <1>9, <1>10 DEF IInv

(* The search bar: its button, and what is typed into it.                   *)
LEMMA SearchStep == IInv /\ (ToggleSearch \/ EditSearch \/ HideSearch) => IInv'
<1> SUFFICES ASSUME IInv, ToggleSearch \/ EditSearch \/ HideSearch PROVE IInv'
  OBVIOUS
<1>1. UNCHANGED <<stage, frame, panel, held, drawn>> /\ search' \in BOOLEAN
  BY DEF ToggleSearch, EditSearch, HideSearch, Acts, IInv, Shape
<1>2. AppShape(app) /\ stage \in {"menu", "toolbar"} /\ (focus' = focus \/ stage = "toolbar")
  BY DEF ToggleSearch, EditSearch, HideSearch, Acts, At, IInv, Shape
<1>3. AppShape(app') /\ app'.view.kind = app.view.kind
      /\ (app'.view.search => app.view.search \/ frame.bar)
  <2>1. CASE ToggleSearch \/ HideSearch
    BY <1>2, <2>1, HiddenShape DEF ToggleSearch, HideSearch
  <2>2. CASE EditSearch
    <3>1. frame.bar /\ app.view.kind = "loaded"
      BY <2>2 DEF EditSearch, Acts, At, IInv, BelowBar
    <3>2. PICK s \in BOOLEAN : app' = [app EXCEPT !.view.search = s]
      BY <2>2 DEF EditSearch
    <3>3. QED
      BY <1>2, <3>1, <3>2, SearchEdited
  <2>3. QED
    BY <2>1, <2>2
<1>4. Shape'
  BY <1>1, <1>3 DEF IInv, Shape
<1>5. BelowBar' /\ OneTaker' /\ SearchInSight'
  BY <1>1, <1>2, <1>3 DEF IInv, BelowBar, OneTaker, SearchInSight
<1>6. QED
  BY <1>4, <1>5 DEF IInv

------------------------------------------------------------------------------
(* The theorems. *)

LEMMA NextIInv == IInv /\ [Next]_vars => IInv'
<1> SUFFICES ASSUME IInv, [Next]_vars PROVE IInv'
  OBVIOUS
<1>1. CASE FrameStep
  BY <1>1, StartStep, PollStep, ShowBarStep, ShowPanelStep, DrawStep, EndFrameStep
     DEF FrameStep
<1>2. CASE User
  BY <1>2, DialogStep, NoteStep, CloseStep, PanelStep, EscapeStep, ClearRecentsStep,
     SearchStep, OpenStep DEF User
<1>3. CASE DownloadEnds \/ DecompressEnds
  BY <1>3, ThreadStep
<1>4. CASE UNCHANGED vars
  BY <1>4, AppOnly DEF vars, chrome, IInv, Shape
<1>5. QED
  BY <1>1, <1>2, <1>3, <1>4 DEF Next

LEMMA InvariantHolds == Spec => []IInv
BY InitIInv, NextIInv, PTL DEF Spec

(* Rows are never drawn under a search without the search bar above them,   *)
(* whatever the files, their saved views and what the user does             *)
(* (search_bar_open, hide_search).                                          *)
THEOREM SearchStaysInSight == Spec => []SearchInSight
<1>1. IInv => SearchInSight
  BY DEF IInv
<1>2. QED
  BY <1>1, InvariantHolds, PTL

(* One Esc never closes the search bar and the side panel both              *)
(* (keyboard_focus_held), however often it is pressed.                      *)
THEOREM OneEscapeOneThing == Spec => []EscapeClosesOne
<1>1. IInv => EscapeClosesOne
  <2> SUFFICES ASSUME IInv PROVE Cardinality(frame.closed) <= 1
    BY DEF EscapeClosesOne
  <2>1. frame.closed \in {{}, {"panel"}, {"search"}}
    BY DEF IInv, Shape, FrameShape, OneTaker
  <2>2. Cardinality({}) = 0 /\ Cardinality({"panel"}) = 1 /\ Cardinality({"search"}) = 1
    BY FS_EmptySet, FS_Singleton
  <2>3. QED
    BY <2>1, <2>2
<1>2. QED
  BY <1>1, InvariantHolds, PTL

------------------------------------------------------------------------------
(* The recent files: what is kept of a list, and what is added to it. *)

(* The library has the well-founded order of the naturals, and so a least   *)
(* element of every set of them and, with sets for predicates, induction.   *)
LEMMA LeastNatural ==
  ASSUME NEW T, T \subseteq Nat, T # {}
  PROVE  \E x \in T : \A y \in T : x <= y
<1> DEFINE R == OpToRel(<, Nat)
<1>1. IsWellFoundedOn(R, Nat)
  BY NatLessThanWellFounded
<1>2. \A x, y \in Nat : x < y => <<x, y>> \in R
  BY DEF OpToRel
<1> HIDE DEF R
<1>3. \E x \in T : \A y \in T : ~(<<y, x>> \in R)
  BY <1>1, WFMin
<1>4. PICK x \in T : \A y \in T : ~(<<y, x>> \in R)
  BY <1>3
<1>5. ASSUME NEW y \in T PROVE x <= y
  <2>1. x \in Nat /\ y \in Nat
    OBVIOUS
  <2>2. ~(y < x)
    BY <1>2, <1>4, <2>1
  <2>3. QED
    BY <2>1, <2>2
<1>6. QED
  BY <1>5

LEMMA Induction ==
  ASSUME NEW T, 0 \in T, \A n \in T \cap Nat : n + 1 \in T
  PROVE  Nat \subseteq T
<1> SUFFICES ASSUME Nat \ T # {} PROVE FALSE
  OBVIOUS
<1>1. PICK x \in Nat \ T : \A y \in Nat \ T : x <= y
  BY LeastNatural
<1>2. x # 0 /\ x - 1 \in Nat
  BY <1>1
<1>3. x - 1 \in T
  BY <1>1, <1>2
<1>4. (x - 1) + 1 \in T
  BY <1>2, <1>3
<1>5. (x - 1) + 1 = x
  BY <1>2
<1>6. QED
  BY <1>4, <1>5

(* In a set of n places or fewer the k-th from below is there. *)
LEMMA PlaceByRank ==
  \A n \in Nat : \A P \in SUBSET (1 .. n) : \A k \in 1 .. Cardinality(P) :
    \E i \in P : Cardinality({j \in P : j <= i}) = k
<1> TAKE n \in Nat
<1> TAKE P \in SUBSET (1 .. n)
<1> TAKE k \in 1 .. Cardinality(P)
<1> DEFINE below(i) == {j \in P : j <= i}
           T == {m \in Nat : \A l \in 1 .. Cardinality(below(m)) :
                               \E i \in P : Cardinality(below(i)) = l}
<1>0. \A j \in P : j \in Nat /\ 1 <= j /\ j <= n
  OBVIOUS
<1>1. IsFiniteSet(P)
  <2>1. IsFiniteSet(1 .. n)
    BY FS_Interval
  <2>2. QED
    BY <2>1, FS_Subset
<1>2. \A m \in Nat : IsFiniteSet(below(m)) /\ Cardinality(below(m)) \in Nat
  <2> TAKE m \in Nat
  <2>1. below(m) \subseteq P
    OBVIOUS
  <2> HIDE DEF below
  <2>2. QED
    BY <1>1, <2>1, FS_Subset, FS_CardinalityType
<1>3. 0 \in T
  <2>1. below(0) = {}
    <3>1. \A j \in P : ~(j <= 0)
      BY <1>0
    <3>2. QED
      BY <3>1
  <2> HIDE DEF below
  <2>2. Cardinality(below(0)) = 0
    BY <2>1, FS_EmptySet
  <2>3. QED
    BY <2>2
<1>4. ASSUME NEW m \in T \cap Nat PROVE m + 1 \in T
  <2>1. m + 1 \in Nat
    OBVIOUS
  <2>2. CASE m + 1 \in P
    <3>1. below(m + 1) = below(m) \cup {m + 1} /\ m + 1 \notin below(m)
      <4>1. \A j \in P : j <= m + 1 <=> j <= m \/ j = m + 1
        BY <1>0
      <4>2. ~(m + 1 <= m)
        OBVIOUS
      <4>3. QED
        BY <2>2, <4>1, <4>2
    <3> HIDE DEF below
    <3>2. Cardinality(below(m + 1)) = Cardinality(below(m)) + 1
      BY <1>2, <3>1, FS_AddElement
    <3>3. ASSUME NEW l \in 1 .. Cardinality(below(m + 1))
          PROVE  \E i \in P : Cardinality(below(i)) = l
      <4>1. CASE l \in 1 .. Cardinality(below(m))
        BY <4>1
      <4>2. CASE l = Cardinality(below(m + 1))
        BY <2>2, <4>2
      <4>3. QED
        BY <1>2, <3>2, <3>3, <4>1, <4>2
    <3>4. QED
      BY <2>1, <3>3
  <2>3. CASE m + 1 \notin P
    <3>1. below(m + 1) = below(m)
      <4>1. \A j \in P : j <= m + 1 <=> j <= m
        BY <1>0, <2>3
      <4>2. QED
        BY <4>1
    <3> HIDE DEF below
    <3>2. QED
      BY <2>1, <3>1
  <2>4. QED
    BY <2>2, <2>3
<1>5. n \in T
  <2> HIDE DEF T
  <2>1. QED
    BY <1>3, <1>4, Induction
<1>6. below(n) = P
  BY <1>0
<1>7. QED
  BY <1>5, <1>6

(* A list and what is kept of it name each target once. *)
Listed(s) == s \in Seq(Targets) /\ IsInjective(s)

LEMMA WithoutListed ==
  ASSUME NEW s, Listed(s), NEW t
  PROVE  /\ Listed(Without(s, t)) /\ Len(Without(s, t)) \in Nat
         /\ \A k \in 1 .. Len(Without(s, t)) : Without(s, t)[k] # t
<1> DEFINE P == {i \in DOMAIN s : s[i] # t}
           upTo(i) == Cardinality({j \in P : j <= i})
           place(k) == CHOOSE i \in P : upTo(i) = k
           n == Cardinality(P)
<1>1. s \in [1 .. Len(s) -> Targets] /\ Len(s) \in Nat
  BY DEF Listed
<1>2. P \subseteq 1 .. Len(s) /\ \A i \in P : i \in DOMAIN s /\ s[i] \in Targets /\ s[i] # t
  BY <1>1
<1>3. Without(s, t) = [k \in 1 .. n |-> s[place(k)]]
  BY DEF Without
<1>4. \A i, j \in DOMAIN s : s[i] = s[j] => i = j
  BY DEF Listed, IsInjective
<1> HIDE DEF P
<1>5. n \in Nat
  <2>1. IsFiniteSet(1 .. Len(s))
    BY <1>1, FS_Interval
  <2>2. QED
    BY <1>2, <2>1, FS_Subset, FS_CardinalityType
<1>6. \A k \in 1 .. n : place(k) \in P /\ upTo(place(k)) = k
  <2> TAKE k \in 1 .. n
  <2>1. \E i \in P : upTo(i) = k
    <3>1. P \in SUBSET (1 .. Len(s)) /\ Len(s) \in Nat
      BY <1>1, <1>2
    <3>2. QED
      BY <3>1, PlaceByRank, Zenon
  <2> HIDE DEF upTo
  <2>2. QED
    BY <2>1
<1> HIDE DEF place, upTo, n
<1>7. /\ Without(s, t) \in [1 .. n -> Targets]
      /\ \A k \in 1 .. n : Without(s, t)[k] # t /\ Without(s, t)[k] = s[place(k)]
  BY <1>2, <1>3, <1>6
<1>8. Without(s, t) \in Seq(Targets) /\ Len(Without(s, t)) = n /\ DOMAIN Without(s, t) = 1 .. n
  BY <1>5, <1>7
<1>9. IsInjective(Without(s, t))
  <2>1. ASSUME NEW a \in 1 .. n, NEW b \in 1 .. n, Without(s, t)[a] = Without(s, t)[b]
        PROVE  a = b
    <3>1. s[place(a)] = s[place(b)]
      BY <1>7, <2>1
    <3>2. place(a) = place(b)
      BY <1>2, <1>4, <1>6, <3>1
    <3>3. QED
      BY <1>6, <3>2
  <2>2. QED
    BY <1>8, <2>1 DEF IsInjective
<1>10. QED
  BY <1>5, <1>7, <1>8, <1>9 DEF Listed

LEMMA AddedListed ==
  ASSUME NEW s, Listed(s), NEW t \in Targets
  PROVE  Listed(Added(s, t)) /\ Len(Added(s, t)) <= MaxRecents
<1> DEFINE w == Without(s, t)
           l == <<t>> \o w
           n == IF Len(l) <= MaxRecents THEN Len(l) ELSE MaxRecents
<1>1. /\ w \in Seq(Targets) /\ IsInjective(w) /\ Len(w) \in Nat
      /\ \A k \in 1 .. Len(w) : w[k] # t
  BY WithoutListed DEF Listed
<1> HIDE DEF w
<1>2. /\ l \in Seq(Targets) /\ Len(l) = Len(w) + 1 /\ l[1] = t
      /\ \A i \in 2 .. Len(l) : l[i] = w[i - 1]
  BY <1>1
<1>3. \A i, j \in 1 .. Len(l) : l[i] = l[j] => i = j
  <2>1. \A i \in 2 .. Len(l) : i - 1 \in 1 .. Len(w) /\ l[i] # t
    BY <1>1, <1>2
  <2>2. \A i, j \in 1 .. Len(w) : w[i] = w[j] => i = j
    BY <1>1 DEF IsInjective
  <2>3. ASSUME NEW i \in 1 .. Len(l), NEW j \in 1 .. Len(l), l[i] = l[j] PROVE i = j
    <3>1. CASE i = 1 \/ j = 1
      BY <1>1, <1>2, <2>1, <2>3, <3>1
    <3>2. CASE i # 1 /\ j # 1
      <4>1. i \in 2 .. Len(l) /\ j \in 2 .. Len(l)
        BY <1>1, <1>2, <3>2
      <4>2. i - 1 = j - 1
        BY <1>2, <2>1, <2>2, <2>3, <4>1
      <4>3. QED
        BY <4>1, <4>2
    <3>3. QED
      BY <3>1, <3>2
  <2>4. QED
    BY <2>3
<1>4. n \in 1 .. Len(l) /\ n <= MaxRecents
  BY <1>1, <1>2, BoundsAssumption
<1>5. Added(s, t) = SubSeq(l, 1, n)
  BY DEF Added, Prefix, w
<1> HIDE DEF l, n
<1>6. /\ SubSeq(l, 1, n) \in Seq(Targets) /\ Len(SubSeq(l, 1, n)) = n
      /\ \A i \in 1 .. n : SubSeq(l, 1, n)[i] = l[i]
  BY <1>2, <1>4
<1>7. DOMAIN SubSeq(l, 1, n) = 1 .. n
  BY <1>6
<1>8. IsInjective(SubSeq(l, 1, n))
  <2>1. \A i \in 1 .. n : i \in 1 .. Len(l)
    BY <1>1, <1>2, <1>4
  <2>2. QED
    BY <1>3, <1>6, <1>7, <2>1 DEF IsInjective
<1>9. QED
  BY <1>4, <1>5, <1>6, <1>8 DEF Listed

------------------------------------------------------------------------------
(* Types. *)

(* The four parts of the application, each of its type. *)
AppTyped(a) ==
  /\ a.view \in View
  /\ a.download \in Job \cup {None} /\ a.decompress \in Job \cup {None}
  /\ Listed(a.recent) /\ Len(a.recent) <= MaxRecents

LEMMA StagesRange == Range(Stages) = StageSet
<1>1. \A i \in 1 .. 8 : i \in {1, 2, 3, 4, 5, 6, 7, 8}
  OBVIOUS
<1>2. QED
  BY <1>1, StagesInOrder DEF Range, StageSet

LEMMA JobFields ==
  ASSUME NEW j \in Job
  PROVE  /\ j # None /\ j.target \in Targets
         /\ \A o \in {None, "ok", "err"} : [j EXCEPT !.outcome = o] \in Job
         /\ [j EXCEPT !.cancelled = TRUE] \in Job
BY NoneAssumption DEF Job

LEMMA NewJobTyped == \A t \in Targets : NewJob(t) \in Job /\ NewJob(t) # None
<1>1. \A t \in Targets : NewJob(t) \in Job
  BY DEF NewJob, Job
<1>2. QED
  BY <1>1, NoneAssumption

LEMMA OpeningTyped ==
  ASSUME NEW a, NEW t \in Targets, AppShape(a), AppTyped(a)
  PROVE  AppTyped(Resolved(a, t)) /\ AppTyped(Prepared(a, t)) /\ AppTyped(Opened(a, t))
<1>1. AppTyped(Resolved(a, t))
  <2> DEFINE loaded == [kind |-> "loaded", target |-> t, search |-> t \in Searched]
             failed == [kind |-> "failed", target |-> t, search |-> FALSE]
             r == Added(a.recent, t)
  <2>1. loaded \in View /\ failed \in View
    BY DEF View, Target
  <2>2. Listed(r) /\ Len(r) <= MaxRecents
    BY AddedListed DEF AppTyped
  <2> HIDE DEF loaded, failed, r
  <2>3. /\ AppTyped([a EXCEPT !.view = loaded, !.recent = r])
        /\ AppTyped([a EXCEPT !.view = failed])
    BY <2>1, <2>2 DEF AppTyped, AppShape
  <2>4. QED
    BY <2>3 DEF Resolved, loaded, failed, r
<1>2. AppTyped(Prepared(a, t))
  BY <1>1, NewJobTyped DEF Prepared, AppTyped, AppShape
<1>3. AppTyped(Started(a, t))
  BY NewJobTyped DEF Started, AppTyped, AppShape
<1>4. QED
  BY <1>1, <1>2, <1>3 DEF Opened

LEMMA ArrivingTyped ==
  ASSUME AppShape(app), AppTyped(app)
  PROVE  /\ Arrived(app.download) => AppTyped(Delivered(app))
         /\ Arrived(app.decompress) => AppTyped(Unpacked(app))
<1> DEFINE a == [app EXCEPT !.download = None]
           b == [app EXCEPT !.decompress = None]
<1>1. AppShape(a) /\ AppTyped(a) /\ AppShape(b) /\ AppTyped(b)
  BY DEF AppShape, AppTyped
<1>2. /\ Arrived(app.download) => app.download.target \in Targets
      /\ Arrived(app.decompress) => app.decompress.target \in Targets
  BY JobFields DEF Arrived, AppTyped
<1> HIDE DEF a, b
<1>3. QED
  BY <1>1, <1>2, OpeningTyped DEF Delivered, Unpacked, a, b

LEMMA TypesInParts ==
  TypeOK <=>
    /\ stage \in StageSet /\ frame \in Frame /\ AppTyped(app) /\ disk = app.recent
    /\ pending \in Target /\ panel \in [open : BOOLEAN, tab : Tabs]
    /\ search \in BOOLEAN /\ focus \in {None, "find", "field"} /\ held \in BOOLEAN
    /\ drawn \in [search : BOOLEAN, bar : BOOLEAN] /\ acts \in 0 .. MaxActs
BY StagesRange DEF TypeOK, AppTyped, Listed

LEMMA InitTyped == Init => TypeOK
<1> SUFFICES ASSUME Init PROVE TypeOK
  OBVIOUS
<1>1. AppTyped(app) /\ disk = app.recent
  <2>1. Listed(<<>>) /\ Len(<<>>) <= MaxRecents
    BY BoundsAssumption DEF Listed, IsInjective
  <2>2. QED
    BY <2>1 DEF Init, AppTyped, Empty, View, Target
<1>2. frame \in Frame
  BY DEF Init, NewFrame, Frame, Target
<1>3. panel \in [open : BOOLEAN, tab : Tabs] /\ drawn \in [search : BOOLEAN, bar : BOOLEAN]
  BY DEF Init, Tabs
<1>4. stage \in StageSet /\ acts \in 0 .. MaxActs
  BY BoundsAssumption DEF Init, StageSet
<1>5. pending \in Target /\ search \in BOOLEAN /\ focus = None /\ held \in BOOLEAN
  BY DEF Init
<1>6. QED
  BY <1>1, <1>2, <1>3, <1>4, <1>5, TypesInParts

(* The application changes by opening, arriving, editing or ending a job,   *)
(* and by edits of the view and the list.                                   *)
LEMMA AppStepTyped ==
  ASSUME IInv, TypeOK, Next PROVE AppTyped(app') /\ disk' = app'.recent
<1>1. AppShape(app) /\ AppTyped(app) /\ disk = app.recent
  BY TypesInParts DEF IInv, Shape
<1>2. CASE UNCHANGED <<app, disk>>
  BY <1>1, <1>2
<1>3. ASSUME NEW a, AppTyped(a), Becomes(a) PROVE AppTyped(app') /\ disk' = app'.recent
  BY <1>1, <1>3 DEF Becomes
<1>4. CASE Start \/ EndFrame \/ OpenFromStart \/ OpenFromFinder
  <2>1. \/ UNCHANGED <<app, disk>>
        \/ \E t \in Targets : Becomes(Opened(app, t))
    <3>1. pending \in Target /\ frame.toOpen \in Target /\ Finder \subseteq Targets
      BY TypesInParts, TargetsAssumption DEF Frame
    <3>2. QED
      BY <1>4, <3>1 DEF Start, EndFrame, OpenFromStart, OpenFromFinder, Target
  <2>2. QED
    BY <1>1, <1>2, <1>3, <2>1, OpeningTyped
<1>5. CASE PollDownload \/ PollDecompress
  BY <1>1, <1>2, <1>3, <1>5, ArrivingTyped DEF PollDownload, PollDecompress
<1>6. ASSUME NEW d \in Job \cup {None}, UNCHANGED disk,
             \/ app' = [app EXCEPT !.download = d]
             \/ app' = [app EXCEPT !.decompress = d]
      PROVE  AppTyped(app') /\ disk' = app'.recent
  BY <1>1, <1>6 DEF AppShape, AppTyped
<1>7. CASE DownloadDialog \/ DownloadEnds
  <2>1. app.download \in Job
    BY <1>1, <1>7 DEF DownloadDialog, DownloadEnds, Ends, AppTyped
  <2>2. \E d \in Job \cup {None} : app' = [app EXCEPT !.download = d]
    <3>1. CASE app' = [app EXCEPT !.download = None]
      BY <3>1
    <3>2. CASE app' = [app EXCEPT !.download.cancelled = TRUE]
      BY <2>1, <3>2, JobFields
    <3>3. CASE \E o \in {"ok", "err"} : app' = [app EXCEPT !.download.outcome = o]
      BY <2>1, <3>3, JobFields
    <3>4. QED
      BY <1>7, <3>1, <3>2, <3>3 DEF DownloadDialog, DownloadEnds
  <2>3. QED
    BY <1>6, <1>7, <2>2 DEF DownloadDialog, DownloadEnds
<1>8. CASE DecompressDialog \/ DecompressEnds
  <2>1. app.decompress \in Job
    BY <1>1, <1>8 DEF DecompressDialog, DecompressEnds, Ends, AppTyped
  <2>2. \E d \in Job \cup {None} : app' = [app EXCEPT !.decompress = d]
    <3>1. CASE app' = [app EXCEPT !.decompress = None]
      BY <3>1
    <3>2. CASE app' = [app EXCEPT !.decompress.cancelled = TRUE]
      BY <2>1, <3>2, JobFields
    <3>3. CASE \E o \in {"ok", "err"} : app' = [app EXCEPT !.decompress.outcome = o]
      BY <2>1, <3>3, JobFields
    <3>4. QED
      BY <1>8, <3>1, <3>2, <3>3 DEF DecompressDialog, DecompressEnds
  <2>3. QED
    BY <1>6, <1>8, <2>2 DEF DecompressDialog, DecompressEnds
<1>9. ASSUME NEW v \in View, UNCHANGED disk, app' = [app EXCEPT !.view = v]
      PROVE  AppTyped(app') /\ disk' = app'.recent
  BY <1>1, <1>9 DEF AppShape, AppTyped
<1>10. CASE ShowPanel \/ ToggleSearch \/ EditSearch \/ HideSearch
  <2>1. app.view \in View
    BY <1>1 DEF AppTyped
  <2>2. \A s \in BOOLEAN : [app.view EXCEPT !.search = s] \in View
    BY <2>1 DEF View
  <2>3. \/ app' = app
        \/ \E s \in BOOLEAN : app' = [app EXCEPT !.view = [app.view EXCEPT !.search = s]]
    BY <1>10 DEF ShowPanel, ToggleSearch, EditSearch, HideSearch, Hidden
  <2>4. UNCHANGED disk
    BY <1>10 DEF ShowPanel, ToggleSearch, EditSearch, HideSearch
  <2>5. QED
    BY <1>2, <1>9, <2>2, <2>3, <2>4
<1>11. CASE Close
  <2>1. Empty \in View
    BY DEF Empty, View, Target
  <2>2. QED
    BY <1>9, <1>11, <2>1 DEF Close
<1>12. CASE ClearRecents
  <2>1. Listed(<<>>) /\ Len(<<>>) <= MaxRecents
    BY BoundsAssumption DEF Listed, IsInjective
  <2>2. QED
    BY <1>1, <1>12, <2>1 DEF ClearRecents, AppShape, AppTyped
<1>13. CASE \/ AfterKeys \/ ShowBar \/ Draw \/ FindShortcut \/ Settings \/ Escape
            \/ ChooseRecent \/ ToggleColumns \/ UsePanel
  BY <1>2, <1>13 DEF AfterKeys, ShowBar, Draw, FindShortcut, Settings, Escape, ChooseRecent,
     ToggleColumns, UsePanel
<1>14. QED
  BY <1>4, <1>5, <1>7, <1>8, <1>10, <1>11, <1>12, <1>13 DEF Next, FrameStep, User

LEMMA FrameStepTyped == ASSUME IInv, TypeOK, Next PROVE frame' \in Frame
<1>1. frame \in Frame /\ search \in BOOLEAN /\ Listed(app.recent)
  BY TypesInParts DEF AppTyped
<1>2. CASE UNCHANGED frame
  BY <1>1, <1>2
<1>3. CASE Start
  BY <1>1, <1>3 DEF Start, NewFrame, Frame, Target
<1>4. CASE ShowBar
  <2>1. search' \in BOOLEAN
    BY <1>1, <1>4 DEF ShowBar, BarOpen, IInv, Shape, AppShape, ViewShape, Frame
  <2>2. QED
    BY <1>1, <1>4, <2>1 DEF ShowBar, Frame, Loaded
<1>5. CASE ShowPanel \/ Escape
  <2>1. frame.closed \cup {"search"} \subseteq {"panel", "search"}
    BY <1>1 DEF Frame
  <2>2. frame.closed \cup {"panel"} \subseteq {"panel", "search"}
    BY <1>1 DEF Frame
  <2>3. \A c \in SUBSET {"panel", "search"}, e \in BOOLEAN :
          [frame EXCEPT !.closed = c] \in Frame /\ [frame EXCEPT !.escaped = e, !.closed = c] \in Frame
    BY <1>1 DEF Frame
  <2>4. frame.closed \in SUBSET {"panel", "search"}
    BY <1>1 DEF Frame
  <2>5. CASE ShowPanel
    BY <2>1, <2>3, <2>4, <2>5 DEF ShowPanel
  <2>6. CASE Escape
    BY <2>2, <2>3, <2>4, <2>6 DEF Escape
  <2>7. QED
    BY <1>5, <2>5, <2>6
<1>6. CASE FindShortcut
  BY <1>1, <1>6 DEF FindShortcut, Frame
<1>7. CASE ChooseRecent
  <2>1. PICK t \in Range(app.recent) : frame' = [frame EXCEPT !.toOpen = t]
    BY <1>7 DEF ChooseRecent
  <2>2. t \in Target
    BY <1>1, <2>1 DEF Listed, Range, Target
  <2>3. QED
    BY <1>1, <2>1, <2>2 DEF Frame
<1>8. QED
  BY <1>2, <1>3, <1>4, <1>5, <1>6, <1>7 DEF Next, FrameStep, User, PollDownload, PollDecompress,
     AfterKeys, Draw, EndFrame, DownloadDialog, DecompressDialog, Close, Settings, ClearRecents,
     ToggleColumns, ToggleSearch, EditSearch, HideSearch, UsePanel, OpenFromStart,
     OpenFromFinder, DownloadEnds, DecompressEnds

LEMMA PanelStepTyped ==
  ASSUME IInv, TypeOK, Next PROVE panel' \in [open : BOOLEAN, tab : Tabs]
<1>1. panel \in [open : BOOLEAN, tab : Tabs] /\ AvailableTabs \subseteq Tabs
  BY TypesInParts DEF AvailableTabs, Tabs
<1>2. CASE UNCHANGED panel
  BY <1>1, <1>2
<1>3. CASE ShowPanel \/ UsePanel
  <2>1. Fixed \in Tabs
    BY <1>1 DEF Fixed, Tabs
  <2>2. \A t \in Tabs : [panel EXCEPT !.tab = t] \in [open : BOOLEAN, tab : Tabs]
    BY <1>1
  <2>3. [panel EXCEPT !.open = ~panel.open] \in [open : BOOLEAN, tab : Tabs]
    BY <1>1
  <2>4. QED
    BY <1>1, <1>2, <1>3, <2>1, <2>2, <2>3 DEF ShowPanel, UsePanel
<1>4. CASE Settings
  BY <1>1, <1>4 DEF Settings, Tabs
<1>5. CASE Escape
  <2>1. \A o \in BOOLEAN : [panel EXCEPT !.open = o] \in [open : BOOLEAN, tab : Tabs]
    BY <1>1
  <2>2. \E o \in BOOLEAN : panel' = [panel EXCEPT !.open = o]
    BY <1>5 DEF Escape
  <2>3. QED
    BY <2>1, <2>2
<1>6. CASE ToggleColumns
  BY <1>1, <1>6 DEF ToggleColumns, Tabs
<1>7. QED
  BY <1>2, <1>3, <1>4, <1>5, <1>6 DEF Next, FrameStep, User, Start, ShowBar, PollDownload,
     PollDecompress, AfterKeys, Draw, EndFrame, DownloadDialog, DecompressDialog, FindShortcut,
     Close, ChooseRecent, ClearRecents, ToggleSearch, EditSearch, HideSearch, OpenFromStart,
     OpenFromFinder, DownloadEnds, DecompressEnds, chrome

LEMMA RestStepTyped ==
  ASSUME IInv, TypeOK, Next
  PROVE  /\ pending' \in Target /\ focus' \in {None, "find", "field"}
         /\ drawn' \in [search : BOOLEAN, bar : BOOLEAN] /\ acts' \in 0 .. MaxActs
<1>1. /\ pending \in Target /\ focus \in {None, "find", "field"}
      /\ drawn \in [search : BOOLEAN, bar : BOOLEAN] /\ acts \in 0 .. MaxActs
  BY TypesInParts
<1>2. MaxActs \in Nat
  BY BoundsAssumption
<1>3. CASE FrameStep
  <2>1. app.view.search \in BOOLEAN /\ frame.bar \in BOOLEAN
    BY DEF IInv, Shape, AppShape, ViewShape, FrameShape
  <2>2. QED
    BY <1>1, <1>3, <2>1 DEF FrameStep, Start, PollDownload, PollDecompress, AfterKeys, ShowBar,
       ShowPanel, Draw, EndFrame, chrome, Target
<1>4. CASE User
  <2>1. /\ acts < MaxActs /\ acts' = acts + 1 /\ UNCHANGED <<pending, drawn>>
    BY <1>4 DEF User, Acts, DownloadDialog, DecompressDialog, FindShortcut, Close, Settings,
       Escape, ChooseRecent, ClearRecents, ToggleColumns, ToggleSearch, EditSearch, HideSearch,
       UsePanel, OpenFromStart, OpenFromFinder
  <2>2. focus' \in {None, "find", "field"}
    BY <1>1, <1>4 DEF User, DownloadDialog, DecompressDialog, FindShortcut, Close, Settings,
       Escape, ChooseRecent, ClearRecents, ToggleColumns, ToggleSearch, EditSearch, HideSearch,
       UsePanel, OpenFromStart, OpenFromFinder, chrome
  <2>3. QED
    BY <1>1, <1>2, <2>1, <2>2
<1>5. CASE DownloadEnds \/ DecompressEnds
  BY <1>1, <1>5 DEF DownloadEnds, DecompressEnds, chrome
<1>6. QED
  BY <1>3, <1>4, <1>5 DEF Next

LEMMA NextTyped == IInv /\ TypeOK /\ [Next]_vars => TypeOK'
<1> SUFFICES ASSUME IInv, TypeOK, [Next]_vars PROVE TypeOK'
  OBVIOUS
<1>1. CASE Next
  <2>1. IInv'
    BY NextIInv
  <2>2. stage' \in StageSet /\ search' \in BOOLEAN /\ held' \in BOOLEAN
    BY <2>1 DEF IInv, Shape
  <2>3. QED
    BY <1>1, <2>2, AppStepTyped, FrameStepTyped, PanelStepTyped, RestStepTyped, StagesRange
       DEF TypeOK, AppTyped, Listed
<1>2. CASE UNCHANGED vars
  BY <1>2 DEF vars, chrome, TypeOK
<1>3. QED
  BY <1>1, <1>2

(* Every part of the application keeps its type: the view, the jobs and the *)
(* recent files, which name each target once, are no more than MaxRecents,  *)
(* and are on disk what they are in memory (recent::add, recent::clear).    *)
THEOREM TypeCorrect == Spec => []TypeOK
<1>1. Init => IInv /\ TypeOK
  BY InitIInv, InitTyped
<1>2. (IInv /\ TypeOK) /\ [Next]_vars => (IInv /\ TypeOK)'
  BY NextIInv, NextTyped
<1>3. QED
  BY <1>1, <1>2, PTL DEF Spec

------------------------------------------------------------------------------
(* The jobs. *)

(* Opening a target leaves a running job alone; a file that is not packed   *)
(* is put on screen, and a packed one is unpacked unless another one is.    *)
LEMMA OpeningKeepsJobs ==
  ASSUME NEW a, NEW t, AppShape(a)
  PROVE  /\ Resolved(a, t).download = a.download /\ Resolved(a, t).decompress = a.decompress
         /\ Resolved(a, t).view.target = t
         /\ Prepared(a, t).download = a.download
         /\ a.decompress # None => Prepared(a, t).decompress = a.decompress
         /\ \/ Prepared(a, t).view.target = t
            \/ Prepared(a, t).decompress = NewJob(t)
            \/ a.decompress # None
         /\ a.download # None => Opened(a, t).download = a.download
         /\ a.decompress # None => Opened(a, t).decompress = a.decompress
<1> USE DEF AppShape
<1>1. /\ Resolved(a, t).download = a.download /\ Resolved(a, t).decompress = a.decompress
      /\ Resolved(a, t).view.target = t
  BY DEF Resolved
<1>2. /\ Prepared(a, t).download = a.download
      /\ a.decompress # None => Prepared(a, t).decompress = a.decompress
      /\ \/ Prepared(a, t).view.target = t
         \/ Prepared(a, t).decompress = NewJob(t)
         \/ a.decompress # None
  BY <1>1 DEF Prepared
<1>3. /\ a.download # None => Opened(a, t).download = a.download
      /\ a.decompress # None => Opened(a, t).decompress = a.decompress
  BY <1>2 DEF Opened, Started
<1>4. QED
  BY <1>1, <1>2, <1>3

(* What becomes of a job that has ended, in one step: `kept` for the file   *)
(* of a download, `shown` for one that has been unpacked.                   *)
Kept(down, unpack) ==
  down # None /\ app'.download # down /\ down.outcome # None =>
    \/ app'.view.target = down.target
    \/ app'.decompress # None /\ app'.decompress.target = down.target
    \/ down.outcome = "err" /\ app'.download = None
    \/ unpack # None
Shown(unpack) ==
  unpack # None /\ app'.decompress # unpack /\ unpack.outcome # None =>
    \/ app'.view.target = unpack.target
    \/ unpack.outcome = "err" /\ app'.decompress = None

LEMMA StepKeepsOutcomes ==
  ASSUME IInv, TypeOK, Next PROVE Kept(app.download, app.decompress) /\ Shown(app.decompress)
<1> USE DEF Kept, Shown
<1>1. AppShape(app)
  BY DEF IInv, Shape
<1>2. CASE app'.download = app.download /\ app'.decompress = app.decompress
  BY <1>2
<1>3. CASE \E t : app' = Opened(app, t)
  BY <1>1, <1>3, OpeningKeepsJobs
<1>4. CASE PollDownload /\ Arrived(app.download)
  <2> DEFINE a == [app EXCEPT !.download = None]
             t == app.download.target
  <2>1. AppShape(a) /\ a.decompress = app.decompress
    BY <1>1 DEF AppShape
  <2>2. app' = Prepared(a, t)
    BY <1>4 DEF PollDownload, Becomes, Delivered
  <2>3. NewJob(t) # None => NewJob(t).target = t
    BY DEF NewJob
  <2> HIDE DEF a
  <2>4. \/ app'.view.target = t
        \/ app'.decompress = NewJob(t)
        \/ app.decompress # None
    BY <2>1, <2>2, OpeningKeepsJobs
  <2>5. app.decompress # None => app'.decompress = app.decompress
    BY <2>1, <2>2, OpeningKeepsJobs
  <2>6. NewJob(t) # None
      <3>1. t \in Targets
      BY <1>4, TypesInParts, JobFields DEF AppTyped, Arrived
    <3>2. QED
      BY <3>1, NewJobTyped
  <2>7. QED
    BY <2>3, <2>4, <2>5, <2>6
<1>5. CASE PollDecompress /\ Arrived(app.decompress)
  <2> DEFINE a == [app EXCEPT !.decompress = None]
             t == app.decompress.target
  <2>1. AppShape(a) /\ a.download = app.download
    BY <1>1 DEF AppShape
  <2>2. app' = Resolved(a, t)
    BY <1>5 DEF PollDecompress, Becomes, Unpacked
  <2> HIDE DEF a
  <2>3. app'.view.target = t /\ app'.download = app.download
    BY <2>1, <2>2, OpeningKeepsJobs
  <2>4. QED
    BY <2>3
<1>6. CASE DownloadDialog \/ DecompressDialog
  BY <1>1, <1>6 DEF DownloadDialog, DecompressDialog, AppShape
<1>7. CASE DownloadEnds \/ DecompressEnds
  BY <1>1, <1>7 DEF DownloadEnds, DecompressEnds, Ends, AppShape
<1>8. CASE Start \/ EndFrame \/ OpenFromStart \/ OpenFromFinder
  BY <1>2, <1>3, <1>8 DEF Start, EndFrame, OpenFromStart, OpenFromFinder, Becomes
<1>9. CASE PollDownload \/ PollDecompress
  BY <1>2, <1>4, <1>5, <1>9 DEF PollDownload, PollDecompress
<1>10. CASE ShowPanel \/ ToggleSearch \/ EditSearch \/ HideSearch \/ Close \/ ClearRecents
  BY <1>1, <1>2, <1>10 DEF ShowPanel, ToggleSearch, EditSearch, HideSearch, Close,
     ClearRecents, Hidden, AppShape
<1>11. CASE \/ AfterKeys \/ ShowBar \/ Draw \/ FindShortcut \/ Settings \/ Escape
            \/ ChooseRecent \/ ToggleColumns \/ UsePanel
  BY <1>2, <1>11 DEF AfterKeys, ShowBar, Draw, FindShortcut, Settings, Escape, ChooseRecent,
     ToggleColumns, UsePanel
<1>12. QED
  BY <1>6, <1>7, <1>8, <1>9, <1>10, <1>11 DEF Next, FrameStep, User

(* A job goes away only when its file is on screen or being unpacked, or    *)
(* when the message of its failure has been closed, whatever the threads,   *)
(* the frames and the user do and in whatever order; only a download that   *)
(* ends while something is being unpacked is lost (poll_download,           *)
(* poll_decompress, show_download, show_decompress, start_decompress).      *)
THEOREM NothingGoesUnseen == Spec => OutcomesKept
<1>1. IInv /\ TypeOK /\ [Next]_vars =>
        [Kept(app.download, app.decompress) /\ Shown(app.decompress)]_vars
  BY StepKeepsOutcomes
<1>2. QED
  BY <1>1, InvariantHolds, TypeCorrect, PTL DEF Spec, OutcomesKept, Kept, Shown
==============================================================================
