----------------------------- MODULE JsonRecords -----------------------------
(***************************************************************************)
(* A JSON file as a table (json.rs): how the file is routed to this reader *)
(* (detect_format), how the bounds of its records are found, in a file of  *)
(* one value per line or in one top-level array, the thread that builds    *)
(* the index of records, and the rows served before and after it landed,   *)
(* in the order of the file or of a view.                                  *)
(*                                                                         *)
(* A text is a sequence of tokens: the brackets, the comma, "quote", "esc" *)
(* (a backslash), the blanks "sp", "cr" and "nl", the byte order mark, and *)
(* the rest: a key with its colon, or a number or word. Positions count    *)
(* from 1; the end of a record is the position after it. The files are     *)
(* what a writer produces from a list of values, whole or cut short        *)
(* somewhere. Operators named ...Unsound are slips the code could have     *)
(* made.                                                                   *)
(***************************************************************************)
EXTENDS Naturals, Sequences, FiniteSets, SequencesExt, KeySort

CONSTANTS
  Values,      \* the values a file may hold
  Files,       \* what writers may have left at the path: [text, extension, rows]
  Specs,       \* the views the user may ask for (ViewSpec)
  Key,         \* Key[cell]: what a cell sorts by (KeySort)
  HeadLength,  \* tokens detect_format reads
  Interval,    \* ANCHOR_INTERVAL: records per anchor
  Cadence,     \* records between two reports of the index build (4096)
  Sample,      \* SCHEMA_SAMPLE_ROWS
  MaxViews,    \* bound: how often the user changes the view
  MaxLength,   \* bound: rows of a viewport
  None

ASSUME StepAssumption ==
  {HeadLength, Interval, Cadence, Sample, MaxLength} \subseteq Nat \ {0}
ASSUME ViewsAssumption == MaxViews \in Nat

Blank == {"sp", "cr", "nl"}
Open == {"{", "["}
Close == {"}", "]"}

Cells == DOMAIN Key

(* A value: its text, and what serde_json makes of it: the keys of an       *)
(* object in order, what each of them renders as ("" for null) and its      *)
(* type; a value that is no object renders as whole.                        *)
KeysOf(value) == Range(value.keys)
Kind == {"null", "integer", "float", "boolean", "other"}
IsValue(v) ==
  /\ v.cell \in [KeysOf(v) -> Cells] /\ v.kind \in [KeysOf(v) -> Kind]
  /\ v.whole \in Cells /\ v.object \in BOOLEAN

ASSUME ValuesAssumption == \A v \in Values : IsValue(v)
ASSUME CellsAssumption == Key \in [Cells -> Parsed] /\ "" \in Cells

(* What a writer leaves: a row of the file, whole or not, is at least one   *)
(* token of it.                                                             *)
ASSUME FilesAssumption ==
  \A f \in Files :
    f.text \in Seq(STRING) /\ f.rows \in Seq(Values \cup {None}) /\ Len(f.rows) <= Len(f.text)
ASSUME NoneAssumption == None \notin Nat

------------------------------------------------------------------------------
(* Finding the records. *)

Slice(s, from, to) == SubSeq(s, from, Min({to, Len(s)}))

(* The first position from pos on whose token is in the set, or is not.     *)
To(text, pos, tokens) ==
  Min({i \in pos .. Len(text) : text[i] \in tokens} \cup {Len(text) + 1})
Past(text, pos, tokens) ==
  Min({i \in pos .. Len(text) : text[i] \notin tokens} \cup {Len(text) + 1})

BomLen(text) == IF text # <<>> /\ text[1] = "bom" THEN 1 ELSE 0

(* serde_json::from_slice: blanks around the value do not matter.           *)
Parse(slice) ==
  LET from == Past(slice, 1, Blank)
      to == Max({i \in 1 .. Len(slice) : slice[i] \notin Blank} \cup {0})
      found == {v \in Values : v.text = SubSeq(slice, from, to)}
  IN  IF found = {} THEN None ELSE CHOOSE v \in found : TRUE

(* is_value_start, in tokens: "junk" is a word that begins no value.        *)
IsValueStart(token) ==
  token \notin Close \cup {",", "esc", "junk", "bom"}

Sniff(text) ==
  LET first == Past(text, BomLen(text) + 1, Blank)
      second == Past(text, first + 1, Blank)
  IN  CASE first > Len(text) -> None
        [] first <= Len(text) /\ text[first] = "[" ->
             IF second > Len(text) \/ text[second] = "]" \/ IsValueStart(text[second])
               THEN "array" ELSE None
        [] first <= Len(text) /\ text[first] = "{" ->
             IF Parse(SubSeq(text, first, To(text, first, {"nl"}) - 1)) # None
               THEN "lines" ELSE None
        [] OTHER -> None

(* detect_format: the mode when the file is opened as JSON, else None.      *)
Route(f) ==
  LET mode == Sniff(Slice(f.text, 1, HeadLength))
  IN  IF mode = None /\ f.extension = "jsonl" THEN "lines" ELSE mode

(* Records::detect. *)
Detect(text) ==
  LET mode == IF Sniff(text) = None THEN "lines" ELSE Sniff(text)
      from == BomLen(text) + 1
  IN  [mode |-> mode,
       start |-> IF mode = "lines" \/ To(text, from, {"["}) > Len(text)
                   THEN from ELSE To(text, from, {"["}) + 1]

Record(start, end, next) == [start |-> start, end |-> end, next |-> next]

NextLine(text, pos) ==
  LET starts == {s \in {pos} \cup {i + 1 : i \in {i \in pos .. Len(text) : text[i] = "nl"}} :
                   Past(text, s, Blank) < To(text, s, {"nl"})}
      start == Min(starts)
      stop == To(text, start, {"nl"})
  IN  IF starts = {} THEN None
      ELSE Record(start,
                  IF text[stop - 1] = "cr" THEN stop - 1 ELSE stop,
                  Min({stop + 1, Len(text) + 1}))

(* Does the token begin or end a string?                                    *)
Toggles(s, token) == token = "quote" /\ ~s.escaped

(* One token of a string or a container, and the end once the value is      *)
(* closed.                                                                  *)
ScanToken(s, token) ==
  LET depth == IF s.quoted THEN s.depth
               ELSE IF token \in Open THEN s.depth + 1
               ELSE IF token \in Close /\ s.depth > 0 THEN s.depth - 1 ELSE s.depth
      quoted == IF Toggles(s, token) THEN ~s.quoted ELSE s.quoted
  IN  IF s.closed THEN s
      ELSE [depth |-> depth, quoted |-> quoted,
            escaped |-> s.quoted /\ token = "esc" /\ ~s.escaped,
            closed |-> depth = 0 /\ ~quoted, end |-> s.end + 1]

ScanState ==
  [depth : Nat, quoted : BOOLEAN, escaped : BOOLEAN, closed : BOOLEAN, end : Nat]

Unscanned(start) ==
  [depth |-> 0, quoted |-> FALSE, escaped |-> FALSE, closed |-> FALSE, end |-> start]
Scanned(token) == [s \in ScanState |-> ScanToken(s, token)]

(* scan_value_end with scan_string_end.                                     *)
ValueEnd(text, start) ==
  LET at[i \in start - 1 .. Len(text)] ==
        IF i < start THEN Unscanned(start) ELSE Scanned(text[i])[at[i - 1]]
  IN  IF text[start] \in Open \cup {"quote"} THEN at[Len(text)].end
      ELSE To(text, start, Blank \cup Close \cup {","})

NextElement(text, pos) ==
  LET start == Past(text, pos, Blank \cup {","})
      end == ValueEnd(text, start)
  IN  IF start > Len(text) \/ text[start] = "]" THEN None ELSE Record(start, end, end)

(* Records::next, with what serde_json makes of the text of the record:     *)
(* None for text that is no value.                                          *)
NextRecord(text, mode, pos) ==
  LET found == IF mode = "lines" THEN NextLine(text, pos) ELSE NextElement(text, pos)
  IN  IF pos > Len(text) \/ found = None THEN None
      ELSE [start |-> found.start, next |-> found.next,
            value |-> Parse(SubSeq(text, found.start, found.end - 1))]

(* What Records::next finds from each position of a file.                   *)
Bounds(f) ==
  [pos \in 1 .. Len(f.text) + 1 |-> NextRecord(f.text, Detect(f.text).mode, pos)]

(* Where a reader is that began at pos and has read n records.              *)
After(found, pos, n) ==
  LET next == [p \in DOMAIN found |-> IF found[p] = None THEN p ELSE found[p].next]
      at[k \in 0 .. n] == IF k = 0 THEN pos ELSE next[at[k - 1]]
  IN  at[n]

------------------------------------------------------------------------------
(* The cells of a record. *)

(* TypeAcc: the type of a column whose values in the sample had these kinds.*)
Inferred(kinds) ==
  LET seen == kinds \ {"null"}
  IN  CASE seen = {} -> "text"
        [] seen = {"integer"} -> "integer"
        [] seen # {} /\ seen # {"integer"} /\ seen \subseteq {"integer", "float"} -> "float"
        [] seen = {"boolean"} -> "boolean"
        [] OTHER -> "text"

(* render_column with render_value, and project. *)
Render(value, key) ==
  IF value = None THEN ""
  ELSE IF key = None THEN value.whole
  ELSE IF key \in KeysOf(value) THEN value.cell[key] ELSE ""

Project(value, cols) == [i \in DOMAIN cols |-> Render(value, cols[i].key)]

(* The cells a sort reads; the cell of a column that is not there is empty. *)
SortedBy(row, sort) ==
  [r \in DOMAIN row |->
     Key[IF sort.column \in DOMAIN row[r] THEN row[r][sort.column] ELSE ""]]

(* The rows a view shows, in order, of a table whose row r is row[r].       *)
Kept(row, spec) ==
  {r \in DOMAIN row : spec.filter = None \/ spec.filter \in Range(row[r])}
Displayed(row, spec) ==
  IF spec.sort = None THEN Ascending(Kept(row, spec))
  ELSE SortBy(Kept(row, spec), SortedBy(row, spec.sort), spec.sort.ascending)

------------------------------------------------------------------------------
VARIABLES
  file,      \* what is at the path; it does not change while it is open
  records,   \* the record boundary strategy of the reader
  bounds,    \* bounds[pos]: the record Records::next finds from pos on
  columns,   \* its columns
  scan,      \* the thread that builds the index
  frontier,  \* the rows it has reported
  index,     \* the index once it landed
  asked,     \* number of the view asked for last: its token is the valid one
  view,      \* the rows displayed, with the view they were built for
  jobs,      \* the threads building views
  building,  \* view_building
  dropped    \* has the table been dropped?

vars == <<file, records, bounds, columns, scan, frontier, index, asked, view, jobs,
          building, dropped>>

(* The record found after n others from pos on.                             *)
Skip(pos, n) == bounds[After(bounds, pos, n)]

(* The first n records, or as many as there are.                            *)
First(n) ==
  LET count == Min({k \in 0 .. n - 1 : Skip(records.start, k) = None} \cup {n})
  IN  [k \in 1 .. count |-> Skip(records.start, k - 1)]

(* derive_columns: [key, kind] in the order the keys are seen first; a key  *)
(* of None is the one column of a file without objects.                     *)
DeriveColumns ==
  LET sampled == First(Sample)
      value == [n \in DOMAIN sampled |-> sampled[n].value]
      objects == {n \in DOMAIN value : value[n] # None /\ value[n].object}
      having(key) == {n \in objects : key \in KeysOf(value[n])}
      place(key) == CHOOSE i \in DOMAIN value[Min(having(key))].keys :
                      value[Min(having(key))].keys[i] = key
      before(k1, k2) == \/ Min(having(k1)) < Min(having(k2))
                        \/ Min(having(k1)) = Min(having(k2)) /\ place(k1) < place(k2)
      all == UNION {KeysOf(value[n]) : n \in objects}
      keys == InOrder(all, {p \in all \X all : before(p[1], p[2])})
  IN  IF objects = {} THEN <<[key |-> None, type |-> "text"]>>
      ELSE [i \in DOMAIN keys |->
             [key |-> keys[i],
              type |-> Inferred({value[n].kind[keys[i]] : n \in having(keys[i])})]]

Identity == [filter |-> None, sort |-> None]
NoRow == Project(None, columns)

TypeOK ==
  /\ file \in Files
  /\ records.mode \in {"lines", "array"} /\ records.start \in 1 .. Len(file.text) + 1
  /\ \A i \in DOMAIN columns :
       columns[i].type \in {"text", "integer", "float", "boolean"}
  /\ scan.phase \in {"running", "built", "done", "stopped"}
  /\ scan.pos \in records.start .. Len(file.text) + 1
  /\ scan.anchors \in Seq(1 .. Len(file.text))
  /\ {scan.count, frontier} \subseteq 0 .. Len(file.text)
  /\ index \in {None, [anchors |-> scan.anchors, count |-> scan.count]}
  /\ asked \in 0 .. MaxViews
  /\ view = None \/ view.rows \in Seq(0 .. Len(file.text))
  /\ \A j \in jobs : j.id \in 1 .. MaxViews /\ j.spec \in Specs
                       /\ j.phase \in {"build", "store"}
  /\ building \in BOOLEAN /\ dropped \in BOOLEAN

(* JsonTable::open of a file that is routed here. *)
Init ==
  /\ file \in {f \in Files : Route(f) # None}
  /\ records = Detect(file.text)
  /\ bounds = Bounds(file)
  /\ columns = DeriveColumns
  /\ scan = [phase |-> "running", pos |-> records.start, count |-> 0, anchors |-> <<>>]
  /\ frontier = 0 /\ index = None
  /\ asked = 0 /\ view = None /\ jobs = {} /\ building = FALSE
  /\ dropped = FALSE

(* --- RecordIndex::build_with, one record at a time ---------------------- *)

(* Slip: the anchor is the end of the record instead of its start.          *)
AnchoredUnsound(found) ==
  IF scan.count % Interval = 0 THEN Append(scan.anchors, found.next) ELSE scan.anchors
Anchored(found) ==
  IF scan.count % Interval = 0 THEN Append(scan.anchors, found.start) ELSE scan.anchors

ScanRecord ==
  LET found == bounds[scan.pos]
      count == scan.count + 1
  IN  /\ scan.phase = "running" /\ found # None
      /\ count <= Len(file.text) + 1      \* bound: one more record than tokens
      /\ scan' = [phase |-> IF count % Cadence = 0 /\ dropped THEN "stopped" ELSE "running",
                  pos |-> found.next, count |-> count, anchors |-> Anchored(found)]
      /\ frontier' = IF count % Cadence = 0 /\ ~dropped THEN count ELSE frontier
      /\ UNCHANGED <<file, records, bounds, columns, index, asked, view, jobs, building,
                     dropped>>

(* Slip: the scan goes on while it is within the text, past the "]" too.    *)
ScanEndUnsound ==
  /\ scan.phase = "running" /\ scan.pos > Len(file.text)
  /\ scan' = [scan EXCEPT !.phase = IF dropped THEN "stopped" ELSE "built"]
  /\ frontier' = IF dropped THEN frontier ELSE scan.count
  /\ UNCHANGED <<file, records, bounds, columns, index, asked, view, jobs, building,
                 dropped>>

ScanEnd ==
  /\ scan.phase = "running" /\ bounds[scan.pos] = None
  /\ scan' = [scan EXCEPT !.phase = IF dropped THEN "stopped" ELSE "built"]
  /\ frontier' = IF dropped THEN frontier ELSE scan.count
  /\ UNCHANGED <<file, records, bounds, columns, index, asked, view, jobs, building,
                 dropped>>

Land ==
  /\ scan.phase = "built"
  /\ scan' = [scan EXCEPT !.phase = "done"]
  /\ index' = [anchors |-> scan.anchors, count |-> scan.count]
  /\ UNCHANGED <<file, records, bounds, columns, frontier, asked, view, jobs, building,
                 dropped>>

(* --- fetch, fetch_source ------------------------------------------------ *)

(* RecordIndex::offset_of_row. *)
OffsetOfRow(row) ==
  LET found == Skip(index.anchors[row \div Interval + 1], row % Interval)
  IN  IF row >= index.count \/ found = None THEN None ELSE found.start

CellsOf(found) == IF found = None THEN NoRow ELSE Project(found.value, columns)

(* fetch_streaming, before the index has landed; fetch_data_rows with       *)
(* record_value, which finds the record again at its offset.                *)
Streamed(row) == CellsOf(Skip(records.start, row))
Indexed(row) ==
  CellsOf(IF OffsetOfRow(row) = None THEN None ELSE bounds[OffsetOfRow(row)])
RowCells(row) == IF index = None THEN Streamed(row) ELSE Indexed(row)

Fetch(first, length) ==
  LET rows == IF view = None THEN [i \in 1 .. length |-> first + i - 1]
              ELSE Slice(view.rows, first + 1, first + length)
  IN  [i \in DOMAIN rows |-> RowCells(rows[i])]

FetchSource(first, length) == [i \in 1 .. length |-> RowCells(first + i - 1)]

(* --- set_view, clear_view, the view threads, drop ----------------------- *)

SetView(spec) ==
  /\ ~dropped /\ asked < MaxViews
  /\ asked' = asked + 1
  /\ view' = IF spec = Identity THEN None ELSE view
  /\ jobs' = IF spec = Identity THEN jobs
             ELSE jobs \cup {[id |-> asked + 1, spec |-> spec, phase |-> "build"]}
  /\ building' = (spec # Identity)
  /\ UNCHANGED <<file, records, bounds, columns, scan, frontier, index, dropped>>

Cancelled(job) == dropped \/ job.id # asked

(* build_view: the rows of the file, numbered from 0 as they are found, if  *)
(* the scan of them ends.                                                   *)
Rows ==
  LET count == Len(First(Len(file.text)))
  IN  [r \in 0 .. count - 1 |-> Project(Skip(records.start, r).value, columns)]

ViewBuilt(job) ==
  /\ job.phase = "build" /\ Skip(records.start, Len(file.text)) = None
  /\ \E row \in {Rows} :
       view' = IF Cancelled(job) THEN view
               ELSE [spec |-> job.spec, rows |-> Displayed(row, job.spec)]
  /\ jobs' = (jobs \ {job}) \cup {[job EXCEPT !.phase = "store"]}
  /\ UNCHANGED <<file, records, bounds, columns, scan, frontier, index, asked, building,
                 dropped>>

(* sort_by panics on keys that contradict each other: the thread ends, and  *)
(* the flag stays as it is.                                                 *)
ViewPanics(job) ==
  /\ job.phase = "build" /\ job.spec.sort # None
  /\ Skip(records.start, Len(file.text)) = None
  /\ \E row \in {Rows} :
       ~Orderly(SortedBy(row, job.spec.sort), Kept(row, job.spec))
  /\ jobs' = jobs \ {job}
  /\ UNCHANGED <<file, records, bounds, columns, scan, frontier, index, asked, view,
                 building, dropped>>

ViewThreadEnd(job) ==
  /\ job.phase = "store"
  /\ jobs' = jobs \ {job}
  /\ building' = FALSE
  /\ UNCHANGED <<file, records, bounds, columns, scan, frontier, index, asked, view,
                 dropped>>

Drop ==
  /\ ~dropped /\ dropped' = TRUE
  /\ UNCHANGED <<file, records, bounds, columns, scan, frontier, index, asked, view, jobs,
                 building>>

ScanStep == ScanRecord \/ ScanEnd \/ Land
ViewStep == \E job \in jobs : ViewBuilt(job) \/ ViewPanics(job) \/ ViewThreadEnd(job)

Next ==
  \/ ScanStep \/ ViewStep \/ Drop
  \/ \E spec \in Specs \cup {Identity} : SetView(spec)

(* The threads run until their work is done; the user need not do anything. *)
Spec == Init /\ [][Next]_vars /\ WF_vars(ScanStep) /\ WF_vars(ViewStep)

------------------------------------------------------------------------------
(* What a reader of the file would expect. *)

(* The rows the writer wrote, numbered from 0; file.rows has None for the   *)
(* one that was cut off.                                                    *)
Written == [r \in 0 .. Len(file.rows) - 1 |-> Project(file.rows[r + 1], columns)]

Source(first, length) ==
  [i \in 1 .. length |->
    IF first + i - 1 \in DOMAIN Written THEN Written[first + i - 1] ELSE NoRow]

(* Streamed from its head, a file gives what was written to it, value by    *)
(* value, and then ends: what the writers of Files do, and what Records::   *)
(* next and serde_json make of it.                                          *)
ReadsAsWritten ==
  \A f \in {f \in Files : Route(f) # None} :
    \E found \in {Bounds(f)} :
      LET nth(n) == found[After(found, Detect(f.text).start, n)]
      IN  /\ \A n \in DOMAIN f.rows : nth(n - 1) # None /\ nth(n - 1).value = f.rows[n]
          /\ nth(Len(f.rows)) = None

(* The rows a fetch returns are the rows the writer wrote, whether they are *)
(* found by streaming from the head or through the index, in the order of   *)
(* the file or of the view displayed; a row that is not there is empty      *)
(* (fetch_data_rows, fetch_streaming, build_view, offset_of_row). The row   *)
(* count never names a row the file has not got, and is exact at the end.   *)
ServesRecords ==
  /\ frontier <= Len(file.rows)
  /\ index # None => index.count = Len(file.rows)
  /\ LET shown == Displayed(Written, view.spec)
     IN  \A first \in 0 .. MaxLength, length \in 1 .. MaxLength :
           /\ FetchSource(first, length) = Source(first, length)
           /\ IF view = None THEN Fetch(first, length) = Source(first, length)
              ELSE LET order == Slice(shown, first + 1, first + length)
                   IN  Fetch(first, length) = [i \in DOMAIN order |-> Written[order[i]]]

(* Every file is read to its end, or until the table is dropped: the thread *)
(* of the index ends, and with it the threads of the views.                 *)
ScanEnds == <>[](scan.phase \in {"done", "stopped"} /\ jobs = {})

(* Every row counted is text in the file: "on malformed/truncated input the *)
(* scan stops at EOF" (scan_value_end), "the row count grows honestly"      *)
(* (JsonTable).                                                             *)
RowsWithinText == scan.count <= Len(file.text)
==============================================================================
