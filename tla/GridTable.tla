------------------------------ MODULE GridTable ------------------------------
(***************************************************************************)
(* The grid (ui/grid.rs) over a Parquet table (parquet.rs): what a frame   *)
(* draws, the selection, the order of the columns and what is copied, while *)
(* another thread reads rows of the same table through its one-entry cache *)
(* of fetches, and the views asked for arrive in the background.           *)
(*                                                                         *)
(* A frame is the edits of the Columns panel and the filter, the view they *)
(* ask for, the keys, the fetch of the rows in sight, what the pointer does *)
(* to them, and the fetch of the rows copied. In one frame the user does   *)
(* one thing. Which rows are in sight is the user's choice in every frame. *)
(* Rows and columns count from 0; the cell of row r in column c is         *)
(* <<r, c>>. Operators named ...Unsound are slips the code could have made. *)
(***************************************************************************)
EXTENDS Integers, Sequences, FiniteSets, SequencesExt, KeySort

CONSTANTS
  Rows, Cols,   \* rows and columns of the file
  Key,          \* Key[c][r]: what row r sorts by in column c (KeySort)
  Kept,         \* the rows the query of the filter matches
  Layouts,      \* the layouts saved views have left: [order, visible]
  Window,       \* most rows in sight
  Page,         \* rows PageUp and PageDown move
  MaxCopy,      \* MAX_COPY_ROWS
  MaxActs,      \* bound: how often the user does something
  MaxReads,     \* bound: how often the other thread reads rows
  None

ASSUME SizeAssumption ==
  /\ {Rows, Cols, Window, Page, MaxCopy} \subseteq Nat \ {0}
  /\ {MaxActs, MaxReads} \subseteq Nat

Row == 0 .. Rows - 1
Col == 0 .. Cols - 1
Orders == {o \in [1 .. Cols -> Col] : IsInjective(o)}

ASSUME KeyAssumption == \A c \in Col, r \in Row : Key[c][r] \in Parsed
ASSUME LayoutsAssumption == \A l \in Layouts : l.order \in Orders /\ l.visible \subseteq Col

Sort == [column : Col, ascending : BOOLEAN]
View == [filter : BOOLEAN, sort : Sort \cup {None}]
Identity == [filter |-> FALSE, sort |-> None]
Span == [anchor : Row, lead : Row]

VARIABLES
  grid,     \* layout, sort, filter and selection
  table,    \* the view asked for last, and the one displayed
  last,     \* the fetch cache: ParquetTable::last
  fetches,  \* fetches[p]: how far thread p is with its fetch
  phase,    \* where the frame is
  copying,  \* the rows it is about to copy
  drawn,    \* what the frame has drawn
  copied,   \* what the frame has copied
  acts, reads  \* bounds

gridVars == <<grid, table, last, fetches, phase, copying, drawn, copied, acts, reads>>

Cell == (Row \X Col) \cup {""}

GridTypeOK ==
  /\ grid \in [order : Orders, visible : SUBSET Col, filter : BOOLEAN,
               sort : Sort \cup {None}, selected : Span \cup {None}, selecting : BOOLEAN]
  /\ table \in [asked : View, shown : View]
  /\ phase \in {"idle", "fetch", "drawn", "copy"} /\ copying \in Span \cup {None}
  /\ \A p \in {"grid", "reader"} : fetches[p] # None =>
       fetches[p].phase \in {"resolve", "lookup", "decode", "done"}
  /\ last # None =>
       \A i \in DOMAIN last.got : last.got[i] \in Seq(Cell) /\ Len(last.got[i]) = Len(last.columns)
  /\ acts \in 0 .. MaxActs /\ reads \in 0 .. MaxReads

GridInit ==
  /\ \E l \in Layouts :
       grid = [order |-> l.order, visible |-> l.visible, filter |-> FALSE, sort |-> None,
               selected |-> None, selecting |-> FALSE]
  /\ table = [asked |-> Identity, shown |-> Identity]
  /\ last = None /\ fetches = [p \in {"grid", "reader"} |-> None]
  /\ phase = "idle" /\ copying = None /\ drawn = None /\ copied = None
  /\ acts = 0 /\ reads = 0

------------------------------------------------------------------------------
(* Sequences. *)

(* The elements in S of a sequence that has none of them twice.             *)
Place(s, x) == CHOOSE i \in DOMAIN s : s[i] = x
Picked(s, S) ==
  LET at == Ascending({i \in DOMAIN s : s[i] \in S})
  IN  [k \in DOMAIN at |-> s[at[k]]]

------------------------------------------------------------------------------
(* ParquetTable. *)

Matched(view) == {r \in Row : view.filter => r \in Kept}

(* build_view: only the sort column is read unless there is a filter; the   *)
(* key is the field at its place among those read.                          *)
SortedBy(view) ==
  LET read == IF view.filter THEN [i \in 1 .. Cols |-> i - 1] ELSE <<view.sort.column>>
      pos == IF view.filter THEN view.sort.column + 1 ELSE 1
  IN  Key[read[pos]]

BuildView(view) ==
  IF view.sort = None THEN Ascending(Matched(view))
  ELSE SortBy(Matched(view), SortedBy(view), view.sort.ascending)

(* row_count. *)
Total(view) == IF view = Identity THEN Rows ELSE Cardinality(Matched(view))

(* The data rows of a range of display rows: contiguous_rows, or the part   *)
(* of the view that is there.                                               *)
Resolved(view, first, length) ==
  IF view = Identity THEN [i \in 1 .. length |-> first + i - 1]
  ELSE LET rows == BuildView(view)
           end == IF first + length > Len(rows) THEN Len(rows) ELSE first + length
       IN  SubSeq(rows, first + 1, end)

(* row_selection: one [skip, select] for each run of consecutive rows.      *)
RowSelection(rows) ==
  LET starts == Ascending({i \in DOMAIN rows : i = 1 \/ rows[i] # rows[i - 1] + 1})
      last_(k) == IF k = Len(starts) THEN Len(rows) ELSE starts[k + 1] - 1
      cursor(k) == IF k = 1 THEN 0 ELSE rows[starts[k] - 1] + 1
  IN  [k \in DOMAIN starts |->
        [skip |-> rows[starts[k]] - cursor(k), select |-> last_(k) - starts[k] + 1]]

(* The reader of the parquet crate: the rows a selection lets through.      *)
Yielded(selection) ==
  LET upTo[k \in 0 .. Len(selection)] ==
        IF k = 0 THEN [cursor |-> 0, rows |-> <<>>]
        ELSE LET from == upTo[k - 1].cursor + selection[k].skip
             IN  [cursor |-> from + selection[k].select,
                  rows |-> upTo[k - 1].rows
                             \o [i \in 1 .. selection[k].select |-> from + i - 1]]
  IN  upTo[Len(selection)].rows

(* read_rows past the cache: the rows in the file, decoded in file order    *)
(* with the columns asked for in schema order, and put back in the order of *)
(* the request.                                                             *)
Decoded(rows, columns) ==
  LET roots == Ascending(Range(columns))
      sorted == Ascending(Range(rows) \cap Row)
      yielded == Yielded(RowSelection(sorted))
      rendered(k) == [p \in DOMAIN roots |-> <<yielded[k], roots[p]>>]
  IN  [i \in DOMAIN rows |-> [j \in DOMAIN columns |->
        IF rows[i] \in Row THEN rendered(Place(sorted, rows[i]))[Place(roots, columns[j])]
        ELSE ""]]

(* Slip: the entry is compared by its rows only.                            *)
HitUnsound(f) == last # None /\ last.rows = f.rows
Hit(f) == last # None /\ last.rows = f.rows /\ last.columns = f.columns

Request(first, length, columns, source) ==
  [phase |-> "resolve", first |-> first, length |-> length, columns |-> columns,
   source |-> source, view |-> None, rows |-> None, got |-> None]

(* fetch, fetch_source: the rows are resolved under the view lock, ...      *)
Resolve(p) ==
  /\ fetches[p] # None /\ fetches[p].phase = "resolve"
  /\ LET f == fetches[p]
         view == IF f.source THEN Identity ELSE table.shown
     IN  fetches' = [fetches EXCEPT ![p] =
           [f EXCEPT !.phase = "lookup", !.view = view,
                     !.rows = Resolved(view, f.first, f.length)]]
  /\ UNCHANGED <<grid, table, last, phase, copying, drawn, copied, acts, reads>>

(* ... looked up in the cache under its lock, ...                           *)
Lookup(p) ==
  /\ fetches[p] # None /\ fetches[p].phase = "lookup"
  /\ LET f == fetches[p]
     IN  fetches' = [fetches EXCEPT ![p] =
           IF f.rows = <<>> THEN [f EXCEPT !.phase = "done", !.got = <<>>]
           ELSE IF Hit(f) THEN [f EXCEPT !.phase = "done", !.got = last.got]
           ELSE [f EXCEPT !.phase = "decode"]]
  /\ UNCHANGED <<grid, table, last, phase, copying, drawn, copied, acts, reads>>

(* ... decoded without a lock, and stored under it.                         *)
Store(p) ==
  /\ fetches[p] # None /\ fetches[p].phase = "decode"
  /\ LET f == fetches[p]
         got == Decoded(f.rows, f.columns)
     IN  /\ fetches' = [fetches EXCEPT ![p] = [f EXCEPT !.phase = "done", !.got = got]]
         /\ last' = IF Range(f.rows) \cap Row = {} THEN last
                    ELSE [rows |-> f.rows, columns |-> f.columns, got |-> got]
  /\ UNCHANGED <<grid, table, phase, copying, drawn, copied, acts, reads>>

(* The view thread: the view asked for last takes the place of the one      *)
(* displayed.                                                               *)
ViewLands ==
  /\ table.shown # table.asked
  /\ table' = [table EXCEPT !.shown = table.asked]
  /\ UNCHANGED <<grid, last, fetches, phase, copying, drawn, copied, acts, reads>>

(* An export or a find in another thread.                                   *)
Read(first, length, columns, source) ==
  /\ fetches["reader"] = None /\ reads < MaxReads /\ reads' = reads + 1
  /\ fetches' = [fetches EXCEPT !["reader"] = Request(first, length, columns, source)]
  /\ UNCHANGED <<grid, table, last, phase, copying, drawn, copied, acts>>

ReadEnd ==
  /\ fetches["reader"] # None /\ fetches["reader"].phase = "done"
  /\ fetches' = [fetches EXCEPT !["reader"] = None]
  /\ UNCHANGED <<grid, table, last, phase, copying, drawn, copied, acts, reads>>

------------------------------------------------------------------------------
(* The frame. *)

Displayed(u) == Picked(u.order, u.visible)

(* columns_tab with reset_view, and the filter of the toolbar.              *)
PanelEdits(u) ==
  {[u EXCEPT !.visible = (@ \ {c}) \cup ({c} \ @)] : c \in Col}
    \cup {[u EXCEPT !.visible = Col], [u EXCEPT !.visible = {}],
          [u EXCEPT !.filter = ~@],
          [u EXCEPT !.order = [i \in 1 .. Cols |-> i - 1], !.visible = Col,
                    !.sort = None, !.filter = FALSE, !.selected = None]}

(* desired, and set_view when it is not what was applied.                   *)
Synced(u) ==
  LET desired == [filter |-> u.filter, sort |-> u.sort]
  IN  IF desired = table.asked THEN table
      ELSE [asked |-> desired, shown |-> IF desired = Identity THEN Identity ELSE table.shown]

(* RowSpan. *)
Single(row) == [anchor |-> row, lead |-> row]
(* Slip: the selection is taken to begin at its anchor.                     *)
LoUnsound(span) == span.anchor
Lo(span) == IF span.anchor < span.lead THEN span.anchor ELSE span.lead
Hi(span) == IF span.anchor < span.lead THEN span.lead ELSE span.anchor
Length(span) == Hi(span) - Lo(span) + 1

Keys == {"Down", "Up", "PageDown", "PageUp", "Home", "End"}

Clamped(row, total) == IF row > total - 1 THEN total - 1 ELSE row
Floored(row) == IF row < 0 THEN 0 ELSE row

(* Slip: a page down is not stopped at the last row.                        *)
LeadAfterUnsound(lead, key, total) ==
  CASE key = "Home" -> 0
    [] key = "End" -> total - 1
    [] OTHER -> IF lead = None THEN 0
                ELSE CASE key = "Down" -> Clamped(lead + 1, total)
                       [] key = "PageDown" -> lead + Page
                       [] key = "Up" -> Floored(lead - 1)
                       [] OTHER -> Floored(lead - Page)

LeadAfter(lead, key, total) ==
  CASE key = "Home" -> 0
    [] key = "End" -> total - 1
    [] OTHER -> IF lead = None THEN 0
                ELSE CASE key = "Down" -> Clamped(lead + 1, total)
                       [] key = "PageDown" -> Clamped(lead + Page, total)
                       [] key = "Up" -> Floored(lead - 1)
                       [] OTHER -> Floored(lead - Page)

Moved(u, key, shift, total) ==
  LET next == LeadAfter(IF u.selected = None THEN None ELSE u.selected.lead, key, total)
  IN  [u EXCEPT !.selected =
        IF shift /\ @ # None THEN [anchor |-> @.anchor, lead |-> next] ELSE Single(next)]

(* The edits, the view they ask for, the keys, and the fetch of the rows in *)
(* sight; nothing of the grid runs when all columns are hidden.             *)
Frame(u, table_) ==
  /\ table' = table_
  /\ drawn' = None /\ copied' = None
  /\ IF Displayed(u) = <<>>
       THEN grid' = u /\ UNCHANGED <<phase, fetches>>
       ELSE LET total == Total(table_.shown)
            IN  \E first \in {0} \cup 0 .. total - 1 :
                  /\ grid' = u /\ phase' = "fetch"
                  /\ fetches' = [fetches EXCEPT !["grid"] =
                       Request(first, Clamped(Window, total - first + 1), Displayed(u), FALSE)]
  /\ UNCHANGED <<last, copying, reads>>

BeginFrame ==
  /\ phase = "idle"
  /\ \/ Frame(grid, Synced(grid)) /\ UNCHANGED acts
     \/ /\ acts < MaxActs /\ acts' = acts + 1
        /\ \/ \E u \in PanelEdits(grid) : Frame(u, Synced(u))
           \/ LET total == Total(Synced(grid).shown)
              IN  /\ total > 0 /\ Displayed(grid) # <<>>
                  /\ \E key \in Keys, shift \in BOOLEAN :
                       Frame(Moved(grid, key, shift, total), Synced(grid))

(* GridDelegate::prepare, and the cells.                                    *)
Draw ==
  /\ phase = "fetch" /\ fetches["grid"].phase = "done"
  /\ phase' = "drawn"
  /\ LET f == fetches["grid"]
     IN  drawn' = [first |-> f.first, got |-> f.got, columns |-> f.columns, view |-> f.view]
  /\ fetches' = [fetches EXCEPT !["grid"] = None]
  /\ UNCHANGED <<grid, table, last, copying, copied, acts, reads>>

InSight == drawn.first .. drawn.first + Len(drawn.got) - 1

(* Slip: the column dropped always lands before the target.                 *)
ReorderedUnsound(order, dragged, target, after) ==
  LET others == Picked(order, Col \ {dragged})
  IN  InsertAt(others, Place(others, target), dragged)

(* reorder. *)
Reordered(order, dragged, target, after) ==
  LET others == Picked(order, Col \ {dragged})
      at == Place(others, target)
  IN  InsertAt(others, IF after THEN at + 1 ELSE at, dragged)

(* header_cell_ui: the column dropped lands on the far side of the target.  *)
AfterDrop(dragged, target) ==
  LET after == Place(drawn.columns, dragged) < Place(drawn.columns, target)
  IN  [grid EXCEPT !.order = Reordered(@, dragged, target, after)]

SortCycled(column) ==
  [grid EXCEPT !.sort =
    IF @ = [column |-> column, ascending |-> TRUE]
      THEN [column |-> column, ascending |-> FALSE]
    ELSE IF @ = [column |-> column, ascending |-> FALSE] THEN None
    ELSE [column |-> column, ascending |-> TRUE]]

(* A drag begins at a row, or goes on over one; a click; the release.       *)
Pressed(row) == [grid EXCEPT !.selected = Single(row), !.selecting = TRUE]
DraggedTo(row) ==
  IF grid.selected # None THEN [grid EXCEPT !.selected.lead = row] ELSE grid
Clicked(row) == [grid EXCEPT !.selected = Single(row), !.selecting = FALSE]
Released == [grid EXCEPT !.selecting = FALSE]

EndFrame ==
  /\ phase = "drawn" /\ phase' = "idle"
  /\ UNCHANGED <<grid, table, last, fetches, copying, drawn, copied, acts, reads>>

Point(u) ==
  /\ phase = "drawn" /\ phase' = "idle"
  /\ acts < MaxActs /\ acts' = acts + 1
  /\ grid' = u
  /\ UNCHANGED <<table, last, fetches, copying, drawn, copied, reads>>

DropColumn(dragged, target) ==
  /\ phase = "drawn" /\ dragged # target
  /\ {dragged, target} \subseteq Range(drawn.columns)
  /\ Point(AfterDrop(dragged, target))

HeaderClick(column) ==
  /\ phase = "drawn" /\ column \in Range(drawn.columns)
  /\ Point(SortCycled(column))

RowEvent(row) ==
  /\ phase = "drawn" /\ row \in InSight
  /\ Point(Pressed(row)) \/ Point(Clicked(row))

(* A drag ends by itself: going on and letting go are not counted.          *)
Drag(u) ==
  /\ phase = "drawn" /\ phase' = "idle" /\ grid.selecting
  /\ grid' = u
  /\ UNCHANGED <<table, last, fetches, copying, drawn, copied, acts, reads>>

DragOver(row) == phase = "drawn" /\ row \in InSight /\ Drag(DraggedTo(row))
Release == Drag(Released)

(* Copy Row, Copy Selected or the shortcut: at most MAX_COPY_ROWS rows.     *)
Copy(span) ==
  /\ phase = "drawn" /\ phase' = "copy" /\ copying' = span
  /\ acts < MaxActs /\ acts' = acts + 1
  /\ fetches' = [fetches EXCEPT !["grid"] =
       Request(Lo(span), Clamped(Length(span), MaxCopy + 1), drawn.columns, FALSE)]
  /\ UNCHANGED <<grid, table, last, drawn, copied, reads>>

CopyRow(row) == phase = "drawn" /\ row \in InSight /\ Copy(Single(row))
CopySelected == grid.selected # None /\ Copy(grid.selected)

(* The rows are fetched once more; nothing is copied when there are none.   *)
CopyEnd ==
  /\ phase = "copy" /\ fetches["grid"].phase = "done"
  /\ phase' = "idle"
  /\ LET f == fetches["grid"]
     IN  copied' = IF f.got = <<>> THEN None
                   ELSE [span |-> copying, got |-> f.got, view |-> f.view]
  /\ fetches' = [fetches EXCEPT !["grid"] = None]
  /\ UNCHANGED <<grid, table, last, copying, drawn, acts, reads>>

GridNext ==
  \/ BeginFrame \/ Draw \/ EndFrame \/ Release \/ CopySelected \/ CopyEnd
  \/ \E dragged, target \in Col : DropColumn(dragged, target)
  \/ \E column \in Col : HeaderClick(column)
  \/ \E row \in Row : RowEvent(row) \/ DragOver(row) \/ CopyRow(row)
  \/ ViewLands \/ ReadEnd
  \/ \E columns \in {<<0>>, [i \in 1 .. Cols |-> i - 1]}, source \in BOOLEAN :
       Read(0, Window, columns, source)
  \/ \E p \in {"grid", "reader"} : Resolve(p) \/ Lookup(p) \/ Store(p)

GridSpec == GridInit /\ [][GridNext]_gridVars

------------------------------------------------------------------------------
(* Properties. *)

CellsOf(rows, columns) ==
  [i \in DOMAIN rows |-> [j \in DOMAIN columns |->
    IF rows[i] \in Row THEN <<rows[i], columns[j]>> ELSE ""]]

(* Whatever is fetched are the cells of the rows and columns asked for, of  *)
(* the view displayed when the rows were resolved, with two threads using   *)
(* the one-entry cache and the view and the columns changing between two    *)
(* requests (read_rows, "keyed by the exact rows + columns it served"). And *)
(* what is copied is what the frame has drawn as selected, unless another   *)
(* view has landed in between (grid).                                       *)
RowsRight ==
  /\ \A p \in {"grid", "reader"} : fetches[p] # None /\ fetches[p].phase = "done" =>
       LET f == fetches[p]
       IN  f.got = CellsOf(Resolved(f.view, f.first, f.length), f.columns)
  /\ copied # None /\ copied.view = drawn.view =>
       LET ends == {copied.span.anchor, copied.span.lead}
           place(row) == row - Min(ends) + 1
       IN  \A row \in InSight \cap (Min(ends) .. Max(ends)) : place(row) <= MaxCopy =>
             /\ place(row) \in DOMAIN copied.got
             /\ copied.got[place(row)] = drawn.got[row - drawn.first + 1]

(* A column dropped on another takes its slot among the columns displayed,  *)
(* whatever columns are hidden between them, and the others keep their      *)
(* order (header_cell_ui: "the dragged column will take this column's       *)
(* slot").                                                                  *)
TakesSlot ==
  [][\A dragged, target \in Col : DropColumn(dragged, target) =>
       LET before == Displayed(grid)
           after == Displayed(grid')
       IN  /\ Picked(after, Col \ {dragged}) = Picked(before, Col \ {dragged})
           /\ \A i \in DOMAIN before : before[i] = target => after[i] = dragged]_gridVars
==============================================================================
