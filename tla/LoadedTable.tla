----------------------------- MODULE LoadedTable -----------------------------
(***************************************************************************)
(* One open delimited file in the application (LoadedTable in model.rs):   *)
(* the controls the user edits, the table behind them, and the threads     *)
(* that read the table meanwhile: the scan for the next match (next_match) *)
(* and the export (run_export, for_each_batch).                            *)
(*                                                                         *)
(* The UI thread runs whole frames (TableizerApp::ui): the edits of the    *)
(* menus, toolbar and side panel, the reaction to them, the find requests  *)
(* and results, and last the grid. A table is what ViewPromise says of it: *)
(* it displays the answer to the view asked for last, or still to the one  *)
(* before. A query stands for its text with its options; BadQuery is a     *)
(* regular expression that does not compile. The order of columns and the  *)
(* anchor of a selection are in GridTable. Display rows and data rows      *)
(* count from 0. Operators named ...Unsound are slips the code could have  *)
(* made.                                                                   *)
(***************************************************************************)
EXTENDS Integers, Sequences, FiniteSets, KeySort

CONSTANTS
  Records,       \* number of records in the file, a header included
  Delimiters,
  Width,         \* Width[d]: columns of the file when parsed with d
  Detected,      \* the delimiter Dialect::sniff finds
  Hits,          \* Hits[d]: the cells <<record, column>> the query matches
  Key,           \* Key[d][c][r]: what record r sorts by in column c (KeySort)
  Query, BadQuery, NoQuery,
  SavedViews,    \* what earlier runs of the program may have saved
  FindBatch,     \* rows per window of next_match
  ExportBatch,   \* rows per batch of for_each_batch
  IndexBatch,    \* records between two reports of the index build
  MaxTables,     \* bound: how often the file is opened or re-opened
  MaxEdits,      \* bound: how often the user does something
  None           \* no row, no job, no table, no saved view

ASSUME FileAssumption ==
  /\ Records \in Nat \ {0}
  /\ Width \in [Delimiters -> Nat \ {0}]
  /\ Detected \in Delimiters
ASSUME KeyAssumption ==
  \A d \in Delimiters : \A c \in 0 .. Width[d] - 1, r \in 0 .. Records - 1 :
    Key[d][c][r] \in Parsed
ASSUME BatchAssumption ==
  FindBatch \in Nat \ {0} /\ ExportBatch \in Nat \ {0} /\ IndexBatch \in Nat \ {0}
ASSUME NoneAssumption == None \notin {"view", "source"}
ASSUME BoundAssumption == MaxTables \in Nat \ {0} /\ MaxEdits \in Nat

Columns(d) == 0 .. Width[d] - 1
AllColumns == UNION {Columns(d) : d \in Delimiters}

(* SortKey, and ViewSpec with the query of its filter. *)
Sort == [column : AllColumns, ascending : BOOLEAN]
View == [query : {Query, BadQuery, NoQuery}, sort : Sort \cup {None}]
Identity == [query |-> NoQuery, sort |-> None]

(* Dialect. *)
Dialect == [delimiter : Delimiters, header : BOOLEAN]
Sniffed == [delimiter |-> Detected, header |-> TRUE]

Row == 0 .. Records

(* SavedView, with the number of columns it was saved for. *)
Saved ==
  [view : View, width : Nat, visible : SUBSET AllColumns,
   delimiter : Delimiters \cup {None}]

(* Which columns are visible is saved as one flag per column. *)
ASSUME SavedAssumption ==
  \A s \in SavedViews \ {None} : s \in Saved /\ s.visible \subseteq 0 .. s.width - 1

VARIABLES
  ctl,       \* the controls: LoadedTable without the table and its jobs
  tables,    \* the tables opened so far; None once nobody refers to it
  find,      \* find_nav, with what its thread has got to
  export,    \* export_job, with what its thread has got to
  file,      \* what is at the path the user exports to
  disk,      \* the saved view of this file in the config directory
  left,      \* the view the user left at the last Close (history)
  quiet,     \* was the last frame free of edits? (history)
  edits      \* how often the user did something (bound)

vars == <<ctl, tables, find, export, file, disk, left, quiet, edits>>

Controls ==
  [table : 0 .. MaxTables,        \* the table on screen; 0: no file is open
   dialect : Dialect, auto : BOOLEAN,
   search : {Query, BadQuery, NoQuery}, filter : BOOLEAN,
   sort : Sort \cup {None},
   applied : View, error : BOOLEAN,
   lead : Row \cup {None},        \* lead of the selection
   width : Nat, visible : SUBSET AllColumns]

Table ==
  [dialect : Dialect, indexed : BOOLEAN, frontier : Row,
   asked : View, shown : View]

(* A job at table 0 is none. shown, steady: the view displayed at the       *)
(* start, and has it stayed so? (history)                                   *)
FindJob ==
  [table : 0 .. MaxTables, columns : SUBSET AllColumns, from : Row,
   forward : BOOLEAN, total : Row, at : Row, done : BOOLEAN,
   row : Row \cup {None}, steady : BOOLEAN]

ExportJob ==
  [table : 0 .. MaxTables, scope : {"view", "source"},
   phase : {"none", "create", "batch", "ok", "err"}, total : Row,
   written : Seq(Row), cancelled : BOOLEAN, shown : View, steady : BOOLEAN]

NoFind ==
  [table |-> 0, columns |-> {}, from |-> 0, forward |-> TRUE, total |-> 0,
   at |-> 0, done |-> FALSE, row |-> None, steady |-> TRUE]

NoExport ==
  [table |-> 0, scope |-> "view", phase |-> "none", total |-> 0, written |-> <<>>,
   cancelled |-> FALSE, shown |-> Identity, steady |-> TRUE]

TypeOK ==
  /\ ctl \in Controls
  /\ ctl.table # 0 =>
       /\ ctl.width = Width[tables[ctl.table].dialect.delimiter]
       /\ ctl.visible \subseteq 0 .. ctl.width - 1
  /\ tables \in Seq(Table \cup {None}) /\ Len(tables) <= MaxTables
  /\ find \in FindJob /\ (find.table = 0 <=> find = NoFind)
  /\ export \in ExportJob /\ (export.table = 0 <=> export = NoExport)
  /\ file \in {"absent", "other", "partial", "stuck", "whole"}
  /\ disk \in Saved \cup {None}
  /\ left \in Saved \cup {None}
  /\ quiet \in BOOLEAN
  /\ edits \in 0 .. MaxEdits

------------------------------------------------------------------------------
(* The table. *)

HeaderRows(d) == IF d.header THEN 1 ELSE 0
DataRows(d) == Records - HeaderRows(d)

Matches(d, row, columns) ==
  row < DataRows(d) /\
  \E c \in columns : <<row + HeaderRows(d), c>> \in Hits[d.delimiter]

(* What the rows sort by; a column the file has not got is empty in every   *)
(* record.                                                                  *)
SortedBy(d, sort) ==
  [r \in 0 .. DataRows(d) - 1 |->
     IF sort.column \in Columns(d.delimiter)
       THEN Key[d.delimiter][sort.column][r + HeaderRows(d)]
       ELSE [kind |-> "text", integer |-> 0, number |-> 0, bytes |-> 0]]

(* build_view: the data rows a filter keeps, ...                            *)
Kept(d, view) ==
  {r \in 0 .. DataRows(d) - 1 :
     view.query = NoQuery \/ Matches(d, r, Columns(d.delimiter))}

(* ... in display order, if it does not panic: then the view never lands.   *)
Build(d, view) ==
  IF view.sort = None THEN Ascending(Kept(d, view))
  ELSE SortBy(Kept(d, view), SortedBy(d, view.sort), view.sort.ascending)

Minimum(m, n) == IF m <= n THEN m ELSE n
(* saturating_sub *)
Monus(m, n) == IF m <= n THEN 0 ELSE m - n

(* row_count: a view has its own; else what is indexed. *)
RowCount(t) ==
  IF t.shown # Identity THEN [exact |-> TRUE, rows |-> Len(Build(t.dialect, t.shown))]
  ELSE IF t.indexed THEN [exact |-> TRUE, rows |-> DataRows(t.dialect)]
  ELSE [exact |-> FALSE, rows |-> Monus(t.frontier, HeaderRows(t.dialect))]

(* fetch_source: rows past the end come out empty; Records stands for them. *)
FetchSource(t, start, len) ==
  [i \in 1 .. len |-> IF start + i <= DataRows(t.dialect) THEN start + i - 1 ELSE Records]

(* fetch: through the view on display, if there is one. *)
Fetch(t, start, len) ==
  IF t.shown = Identity
    THEN FetchSource(t, start, len)
    ELSE SubSeq(Build(t.dialect, t.shown), start + 1,
                Minimum(start + len, Len(Build(t.dialect, t.shown))))

(* CsvTable::open, with an index from the cache or none yet. *)
Opened(dialect, cached) ==
  [dialect |-> dialect, indexed |-> cached,
   frontier |-> IF cached THEN Records ELSE 0,
   asked |-> Identity, shown |-> Identity]

(* set_view: an invalid query is refused and changes nothing; the identity  *)
(* is displayed at once, any other view when it is built.                   *)
SetView(t, view) ==
  IF view.query = BadQuery THEN t
  ELSE IF view = Identity THEN [t EXCEPT !.asked = view, !.shown = view]
  ELSE [t EXCEPT !.asked = view]

(* A table lives as long as the window or a thread refers to it.            *)
Referred(ts, c, jobs) ==
  [t \in DOMAIN ts |->
     IF t = c.table \/ \E j \in jobs : j.table = t THEN ts[t] ELSE None]

(* The histories of the jobs over table t when its display changes. *)
Disturbed(job, ts) ==
  IF job.table # 0 /\ ts[job.table].shown # tables[job.table].shown
    THEN [job EXCEPT !.steady = FALSE]
    ELSE job

(* The index build reports its progress, and publishes the finished index.  *)
IndexGrows(t) ==
  /\ tables[t] # None /\ ~tables[t].indexed
  /\ tables[t].frontier + IndexBatch < Records
  /\ tables' = [tables EXCEPT ![t].frontier = @ + IndexBatch]
  /\ UNCHANGED <<ctl, find, export, file, disk, left, quiet, edits>>

IndexLands(t) ==
  /\ tables[t] # None /\ ~tables[t].indexed
  /\ tables[t].frontier + IndexBatch >= Records
  /\ tables' = [tables EXCEPT ![t].indexed = TRUE, ![t].frontier = Records]
  /\ UNCHANGED <<ctl, find, export, file, disk, left, quiet, edits>>

(* The worker of set_view stores its rows. *)
ViewLands(t) ==
  /\ tables[t] # None /\ tables[t].shown # tables[t].asked
  /\ tables' = [tables EXCEPT ![t].shown = tables[t].asked]
  /\ find' = Disturbed(find, tables')
  /\ export' = Disturbed(export, tables')
  /\ UNCHANGED <<ctl, file, disk, left, quiet, edits>>

------------------------------------------------------------------------------
(* The controls. *)

Fresh(t, dialect, auto) ==
  [table |-> t, dialect |-> dialect, auto |-> auto, search |-> NoQuery,
   filter |-> FALSE, sort |-> None, applied |-> Identity, error |-> FALSE,
   lead |-> None, width |-> Width[dialect.delimiter],
   visible |-> Columns(dialect.delimiter)]

Closed == Fresh(0, Sniffed, TRUE)

(* ViewControls::desired. *)
Desired(c) == [query |-> IF c.filter THEN c.search ELSE NoQuery, sort |-> c.sort]

(* SavedView::snapshot, SavedView::apply. *)
Snapshot(c) ==
  [view |-> Desired(c), width |-> c.width, visible |-> c.visible,
   delimiter |-> IF c.auto THEN None ELSE c.dialect.delimiter]

Applied(saved, c) ==
  [c EXCEPT !.visible = IF saved.width = c.width THEN saved.visible ELSE @,
            !.sort = saved.view.sort,
            !.search = saved.view.query,
            !.filter = saved.view.query # NoQuery]

Init ==
  /\ ctl = Closed
  /\ tables = <<>>
  /\ find = NoFind /\ export = NoExport
  /\ file = "other"
  /\ disk \in SavedViews /\ left = None
  /\ quiet = FALSE /\ edits = 0

FreeTable == Len(tables) < MaxTables
InUse == ctl.table # 0
Current == tables[ctl.table]

(* open_resolved on a delimited file: the delimiter of the saved view is    *)
(* applied before opening, the rest of it after.                            *)
OpenFile ==
  /\ ~InUse /\ FreeTable
  /\ LET auto == disk = None \/ disk.delimiter = None
         dialect == IF auto THEN Sniffed
                    ELSE [Sniffed EXCEPT !.delimiter = disk.delimiter]
         fresh == Fresh(Len(tables) + 1, dialect, auto)
     IN  /\ ctl' = IF disk = None THEN fresh ELSE Applied(disk, fresh)
         /\ \E cached \in BOOLEAN : tables' = Append(tables, Opened(dialect, cached))
  /\ quiet' = FALSE
  /\ UNCHANGED <<find, export, file, disk, left, edits>>

(* Close File, the close button, or the shortcut: the frame goes on without *)
(* a file. Nobody cancels the scan that may be running; its thread goes on  *)
(* to no effect.                                                            *)
Close ==
  /\ InUse
  /\ ctl' = Closed
  /\ find' = NoFind
  /\ left' = IF quiet THEN Snapshot(ctl) ELSE None
  /\ quiet' = FALSE
  /\ tables' = Referred(tables, ctl', {export})
  /\ UNCHANGED <<export, file, disk, edits>>

------------------------------------------------------------------------------
(* A frame with a file open. *)

ViewAppliedUnsound(e) ==
  LET desired == Desired(e)
      c == [e EXCEPT !.applied = desired, !.error = desired.query = BadQuery]
  IN  IF desired = e.applied
        THEN [ctl |-> e, tables |-> tables, disk |-> disk]
        ELSE [ctl |-> c,
              tables |-> [tables EXCEPT ![e.table] = SetView(@, desired)],
              disk |-> Snapshot(c)]

(* The reaction to the edits that made e of the controls, when the dialect  *)
(* is the one the frame began with: apply the view, save it.                *)
ViewApplied(e) ==
  LET desired == Desired(e)
      news == desired # e.applied
      ts == IF news THEN [tables EXCEPT ![e.table] = SetView(@, desired)] ELSE tables
      c == IF news
             THEN [e EXCEPT !.applied = desired, !.error = desired.query = BadQuery]
             ELSE e
  IN  [ctl |-> c, tables |-> ts, disk |-> Snapshot(c)]

(* A changed dialect re-opens the file and keeps the layout if the number   *)
(* of columns is the same. Nothing happens when it cannot be opened.        *)
ReopenedUnsound(e) ==
  {[ctl |-> [e EXCEPT !.table = Len(tables) + 1],
    tables |-> Append(tables, Opened(e.dialect, cached)),
    disk |-> disk] : cached \in BOOLEAN}

Reopened(e) ==
  LET width == Width[e.dialect.delimiter]
      c == IF width # e.width
             THEN [e EXCEPT !.width = width, !.visible = 0 .. width - 1]
             ELSE e
  IN  {[ctl |-> [c EXCEPT !.table = Len(tables) + 1],
        tables |-> Append(tables, Opened(e.dialect, cached)),
        disk |-> disk] : cached \in BOOLEAN}

Reactions(e) ==
  IF e.dialect # ctl.dialect
    THEN Reopened(e) \cup {[ctl |-> e, tables |-> tables, disk |-> disk]}
    ELSE {ViewApplied(e)}

(* start_find_nav from where the selection is, unless there is nothing to   *)
(* look for; a scan that runs goes on then.                                 *)
Scan(r, forward) ==
  LET t == r.tables[r.ctl.table]
      total == RowCount(t).rows
      lead == r.ctl.lead
      from == IF lead = None THEN IF forward THEN 0 ELSE total - 1
              ELSE IF forward THEN lead + 1 ELSE lead - 1
  IN  IF \/ r.ctl.search # Query \/ total = 0 \/ r.ctl.visible = {}
         \/ lead = 0 /\ ~forward
        THEN Disturbed(find, r.tables)
        ELSE [table |-> r.ctl.table, columns |-> r.ctl.visible,
              from |-> from, forward |-> forward, total |-> total, at |-> from,
              done |-> from >= total, row |-> None, steady |-> TRUE]

(* start_export. *)
Exporting(r, scope) ==
  [table |-> r.ctl.table, scope |-> scope, phase |-> "create", total |-> 0,
   written |-> <<>>, cancelled |-> FALSE,
   shown |-> r.tables[r.ctl.table].shown, steady |-> TRUE]

(* A whole frame: edited are the controls after the menus, the toolbar and  *)
(* the panel, want the find button pressed, scope the export chosen from    *)
(* the menu, OnGrid what the user does on the grid, which is drawn last. A  *)
(* finished scan moves the selection.                                       *)
Frame(edited, want, scope, OnGrid(_)) ==
  \E r \in Reactions(edited) :
    LET job == IF want = None THEN Disturbed(find, r.tables)
               ELSE Scan(r, want = "next")
        c == IF job.done /\ job.row # None
               THEN [r.ctl EXCEPT !.lead = job.row]
               ELSE r.ctl
    IN  /\ ctl' = OnGrid(c)
        /\ disk' = r.disk
        /\ find' = IF job.done THEN NoFind ELSE job
        /\ export' = IF scope = None THEN Disturbed(export, r.tables)
                     ELSE Exporting(r, scope)
        /\ tables' = Referred(r.tables, ctl', {find', export'})
        /\ UNCHANGED <<file, left>>

Same(c) == c

(* Nothing is edited: repaints while something is going on. *)
QuietFrame ==
  /\ InUse
  /\ Frame(ctl, None, None, Same)
  /\ quiet' = TRUE
  /\ UNCHANGED edits

UserFrame(edited, want, scope, OnGrid(_)) ==
  /\ InUse /\ edits < MaxEdits
  /\ Frame(edited, want, scope, OnGrid)
  /\ quiet' = FALSE
  /\ edits' = edits + 1

EditFrame(edited) == UserFrame(edited, None, None, Same)
GridFrame(OnGrid(_)) == UserFrame(ctl, None, None, OnGrid)

(* The toolbar. *)
TypeQuery ==
  \E text \in {Query, BadQuery, NoQuery} \ {ctl.search} :
    EditFrame([ctl EXCEPT !.search = text])

ToggleFilter == EditFrame([ctl EXCEPT !.filter = ~@])

Find ==
  /\ ctl.search # NoQuery
  /\ \E want \in {"next", "prev"} : UserFrame(ctl, want, None, Same)

(* The Parsing tab. *)
ToggleHeader ==
  FreeTable /\ EditFrame([ctl EXCEPT !.dialect.header = ~@])

PickDelimiter ==
  /\ FreeTable
  /\ \E d \in Delimiters :
       EditFrame([ctl EXCEPT !.dialect.delimiter = d, !.auto = FALSE])

AutoDelimiter ==
  /\ FreeTable
  /\ EditFrame([ctl EXCEPT !.dialect.delimiter = Detected, !.auto = TRUE])

(* The Columns tab. reset_view keeps the applied view, which the reaction   *)
(* then finds out of date.                                                  *)
ShowColumns ==
  \E cs \in SUBSET (0 .. ctl.width - 1) \ {ctl.visible} :
    EditFrame([ctl EXCEPT !.visible = cs])

ResetView ==
  InUse /\ EditFrame([ctl EXCEPT !.width = Width[Current.dialect.delimiter],
                        !.visible = Columns(Current.dialect.delimiter),
                        !.sort = None, !.search = NoQuery, !.filter = FALSE,
                        !.lead = None])

(* The grid: a click on a row, or a header clicked, which turns the sort of *)
(* its column from none to ascending, descending and none.                  *)
SelectRow ==
  \E row \in 0 .. Records :
    /\ InUse /\ ctl.visible # {} /\ row < RowCount(Current).rows
    /\ GridFrame(LAMBDA c : [c EXCEPT !.lead = row])

Cycled(sort, column) ==
  IF sort = None \/ sort.column # column THEN [column |-> column, ascending |-> TRUE]
  ELSE IF sort.ascending THEN [column |-> column, ascending |-> FALSE]
  ELSE None

ClickHeader ==
  \E column \in ctl.visible :
    GridFrame(LAMBDA c : [c EXCEPT !.sort = Cycled(c.sort, column)])

------------------------------------------------------------------------------
(* The thread of next_match: one window per step. *)

WindowUnsound(j) ==
  LET len == Minimum(FindBatch, IF j.forward THEN j.total - j.at ELSE j.at)
  IN  [start |-> IF j.forward THEN j.at ELSE j.at - len, len |-> len]

(* The window of display rows it looks at next, and the match in it nearest *)
(* in its direction, over the view displayed now.                           *)
Window(j) ==
  LET len == Minimum(FindBatch, IF j.forward THEN j.total - j.at ELSE j.at + 1)
  IN  [start |-> IF j.forward THEN j.at ELSE j.at + 1 - len, len |-> len]

HitsIn(j, w) ==
  LET t == tables[j.table]
      rows == Fetch(t, w.start, w.len)
  IN  {w.start + i - 1 : i \in {k \in DOMAIN rows : Matches(t.dialect, rows[k], j.columns)}}

Scanning == find.table # 0 /\ ~find.done

FindWindow ==
  /\ Scanning
  /\ LET w == Window(find)
         hits == HitsIn(find, w)
         hit == IF find.forward THEN CHOOSE r \in hits : \A o \in hits : r <= o
                ELSE CHOOSE r \in hits : \A o \in hits : r >= o
     IN  find' = IF hits # {} THEN [find EXCEPT !.done = TRUE, !.row = hit]
                 ELSE IF find.forward /\ find.at + w.len < find.total
                   THEN [find EXCEPT !.at = @ + w.len]
                 ELSE IF ~find.forward /\ w.start # 0
                   THEN [find EXCEPT !.at = w.start - 1]
                 ELSE [find EXCEPT !.done = TRUE]
  /\ UNCHANGED <<ctl, tables, export, file, disk, left, quiet, edits>>

------------------------------------------------------------------------------
(* The export. *)

ExportRunning == export.phase \in {"create", "batch"}

ExportableUnsound == TRUE

(* The menu offers the export only when the row count is exact. *)
Exportable == RowCount(Current).exact

(* start_export, at the end of the frame. The frames in which the submenus  *)
(* open have reacted to the edits before them.                              *)
StartExport ==
  /\ InUse /\ quiet
  /\ Exportable
  /\ ~ExportRunning
  /\ \E scope \in {"view", "source"} : UserFrame(ctl, None, scope, Same)

ExportGoes(job, path) ==
  /\ export' = job
  /\ file' = path
  /\ UNCHANGED <<ctl, tables, find, disk, left, quiet, edits>>

(* run_export creates the file, or empties the one that is there, and       *)
(* for_each_batch asks for the row count again, on the thread.              *)
CreateFile ==
  /\ export.phase = "create"
  /\ ExportGoes([export EXCEPT !.phase = "batch",
                               !.total = RowCount(tables[export.table]).rows],
                "partial")

Progress(job) == Len(job.written)
MoreToWrite(job) == job.phase = "batch" /\ Progress(job) < job.total

BatchRowsUnsound(job) ==
  LET t == tables[job.table]
  IN  IF job.scope = "view" THEN Fetch(t, Progress(job), ExportBatch)
      ELSE FetchSource(t, Progress(job), ExportBatch)

(* The rows of the next batch; fewer than asked for, or none, when the view *)
(* has shrunk.                                                              *)
BatchRows(job) ==
  LET t == tables[job.table]
      len == Minimum(ExportBatch, job.total - Progress(job))
  IN  IF job.scope = "view" THEN Fetch(t, Progress(job), len)
      ELSE FetchSource(t, Progress(job), len)

WriteBatch ==
  /\ MoreToWrite(export) /\ ~export.cancelled
  /\ LET rows == BatchRows(export)
     IN  /\ rows # <<>>
         /\ ExportGoes([export EXCEPT !.written = @ \o rows], file)

(* All rows are there, or no more come: the writer is flushed. *)
FinishExport ==
  /\ export.phase = "batch"
  /\ \/ ~MoreToWrite(export)
     \/ ~export.cancelled /\ BatchRows(export) = <<>>
  /\ ExportGoes([export EXCEPT !.phase = "ok"], "whole")

FailedUnsound(job) == ExportGoes([job EXCEPT !.phase = "err"], file)

(* What is at the path is removed. Whether that succeeds is not looked at:  *)
(* it may stay, a file begun, or one there before that was not emptied.     *)
Failed(job) ==
  \E path \in {"absent", IF job.phase = "batch" THEN "stuck" ELSE file} :
    ExportGoes([job EXCEPT !.phase = "err"], path)

(* The file cannot be created, or written.                                  *)
FailExport == ExportRunning /\ Failed(export)

(* The token is looked at before each batch.                                *)
SeeCancelled == MoreToWrite(export) /\ export.cancelled /\ Failed(export)

CancelExport ==
  /\ ExportRunning /\ ~export.cancelled
  /\ ExportGoes([export EXCEPT !.cancelled = TRUE], file)

DismissExport ==
  /\ export.phase \in {"ok", "err"}
  /\ export' = NoExport
  /\ tables' = Referred(tables, ctl, {find})
  /\ UNCHANGED <<ctl, find, file, disk, left, quiet, edits>>

------------------------------------------------------------------------------
ExportStep == CreateFile \/ WriteBatch \/ FinishExport \/ SeeCancelled

Next ==
  \/ OpenFile \/ Close \/ QuietFrame
  \/ TypeQuery \/ ToggleFilter \/ Find
  \/ ToggleHeader \/ PickDelimiter \/ AutoDelimiter
  \/ ShowColumns \/ ResetView \/ SelectRow \/ ClickHeader
  \/ \E t \in 1 .. Len(tables) : IndexGrows(t) \/ IndexLands(t) \/ ViewLands(t)
  \/ FindWindow
  \/ StartExport \/ ExportStep \/ FailExport \/ CancelExport \/ DismissExport

Spec == Init /\ [][Next]_vars

------------------------------------------------------------------------------
(* Properties. *)

RowsAlong(job) ==
  IF job.forward THEN job.from .. job.total - 1 ELSE 0 .. job.from

MatchesAt(job, row) ==
  LET rows == Fetch(tables[job.table], row, 1)
  IN  rows # <<>> /\ Matches(tables[job.table].dialect, rows[1], job.columns)

(* Next and Prev find the nearest match in their direction, or none if      *)
(* there is none, however the rows fall into windows, as long as the view   *)
(* they scan stays the same. (A selection left beyond the end of a view     *)
(* that has shrunk makes Prev give up at once: from >= total.)              *)
FindsNearest ==
  find.done /\ find.steady /\ find.from < find.total =>
    LET hits == {r \in RowsAlong(find) : MatchesAt(find, r)}
    IN  IF hits = {} THEN find.row = None
        ELSE /\ find.row \in hits
             /\ \A r \in hits : IF find.forward THEN find.row <= r ELSE r <= find.row

Everything(d) == [i \in 1 .. DataRows(d) |-> i - 1]

(* A finished export holds every row of its view once and in order, whatever*)
(* the user has done since with the file on screen (edited, re-opened,      *)
(* closed it), provided the view displayed has not changed meanwhile; an    *)
(* export of the source holds every row of it, unless a filter was on.      *)
ExportComplete ==
  export.phase = "ok" /\ export.steady =>
    LET t == tables[export.table]
    IN  /\ export.scope = "view" => export.written = Build(t.dialect, export.shown)
        /\ export.scope = "source" /\ export.shown.query = NoQuery =>
             export.written = Everything(t.dialect)

(* A file that is not whole is at the path only while its export writes it: *)
(* one that ends well has completed it, and one that fails or is cancelled, *)
(* at whatever point, has tried to remove it. What remove_file could not    *)
(* remove is "stuck".                                                       *)
NoTruncatedFile ==
  /\ file = "partial" => export.phase = "batch"
  /\ export.phase = "ok" => file = "whole"

(* run_export: "a cancelled or failed export never leaves a truncated file  *)
(* behind". It may, as the removal may fail.                                *)
FailedLeavesNothing == file # "stuck"

(* A file closed and opened again comes back as it was left: filter, sort,  *)
(* hidden columns, delimiter override. (Unless its last frame had edits,    *)
(* which are saved by the next one, or a re-open with another delimiter     *)
(* had failed.)                                                             *)
ReopenRestores ==
  [][~InUse /\ ctl'.table # 0 /\ left # None =>
       LET now == Snapshot(ctl')
       IN  /\ now.view = left.view
           /\ now.delimiter = left.delimiter
           /\ now.width = left.width => now.visible = left.visible]_vars

(* "The ViewSpec last applied to the engine": what the controls take to be  *)
(* applied was asked of the table on screen.                                *)
AppliedWasAsked ==
  ctl.table # 0 /\ ~ctl.error => Current.asked = ctl.applied

(* ExportScope::Source: "every row in source order, ignoring any            *)
(* filter/sort".                                                            *)
SourceExportWhole ==
  export.phase = "ok" /\ export.scope = "source" =>
    export.written = Everything(tables[export.table].dialect)
==============================================================================
