# Tableizer: a TLA+ model of its engine

Tableizer is a desktop viewer for large tables (CSV and other delimited text,
JSON, Parquet; local, gzipped, or in an object store). Two crates:
`tableizer-core` (readers, index, views, export, remote access; no UI) and
`tableizer` (the egui application). The UI thread must never block, so almost
every operation that takes time runs on a thread of its own, is superseded or
cancelled through a shared token, and hands its result back through a mutex or
an atomic. What the program shows is right only if results that arrive late,
out of order, half done, or for something that has changed meanwhile do no
harm. That is what these modules are about.

Paths below are relative to `crates/tableizer-core/src/` (core) or
`crates/tableizer/src/` (app).

## 1. Inventory

### 1.1 Components

| component | code | state it keeps | operations | module |
|---|---|---|---|---|
| view machinery | core `table.rs` 178-234, 300-341; the same code in `json.rs`, `parquet.rs`; `cancel.rs` | `view` (rows in display order, or none), `view_cancel` (token), `view_building` (flag), one worker thread per request | `set_view`, `clear_view`, `view_status`, drop | `ViewBuild`, `ViewPromise` |
| offset index and its cache | core `table.rs` 68-116, 345-365; `index.rs`; `cache.rs` | the mmap, `index`, `frontier`, `complete`; one cache file per path | open, background build, load, save, clear, drop | `IndexCache` |
| read-ahead and listing cache | core `remote/read_ahead.rs` | `ListingCache` (shared), per crawl: queue, seen, requests, futures in flight | `read_ahead`, `ListingCache::{get, insert, clear}`, cancel | `ReadAhead` |
| download and decompression caches | core `remote.rs` 379-460; `gzip.rs` | files in a cache directory: `<identity>` and `<identity>.partial` | `fetch_to_cache`, `decompress_to_cache`, clear | `CacheFetch` |
| remote and local browser | app `app.rs` 79-236, 930-1660; `complete.rs` | the tree of nodes, its jobs, the jump-to field with its suggestions and its job | expand, jump to, accept, Refresh, mode, poll | `BrowseTree` over `ReadAhead` |
| opening a file in the app | app `app.rs` 340-470, 670-930, 1780-2035; `persist.rs` 1-46; `macos_open.rs` | `view`, `download_job`, `decompress_job`, `pending_target`, `recent`, side panel, search bar, focus | open, close, dialogs, keys, recents | `AppOpen` |
| open table and its controls | app `app.rs` 1895-1990; `model.rs` 340-456; `ui/menu.rs`; `ui/mod.rs` | `ViewControls`, the layout, the dialect, the saved view | edit, filter, sort, re-open, restore | `LoadedTable` |
| export | core `export.rs`; app `app.rs` 530-662, 2044-2093 | a file being written, progress, token | start, batch, cancel, fail, dismiss | `LoadedTable` |
| find navigation | app `model.rs` 105-183; `app.rs` 1968-1989, 2099-2147 | one job: token and result slot | next, previous, scan, poll | `LoadedTable` |
| JSON reader | core `json.rs` | mode, columns, `index`, `frontier`, view | detect, scan records, fetch, view, drop | `JsonRecords` |
| row access, Parquet | core `parquet.rs` | `last`: the last rows fetched | `fetch`, `fetch_source`, `build_view` | `GridTable` |
| grid and selection | app `ui/grid.rs`; `model.rs` 266-340 | column order, visibility, sort, selection | draw, select, drag, drop, copy | `GridTable` |
| sort keys | core `sort.rs` | none | `compare_keys` | `KeySort`, used by the three readers' views |
| parsing and detection | core `parse.rs`, `source.rs`; app `model.rs` 40-80 | none | `detect_format`, delimiter sniffing | routing in `AppOpen`, `JsonRecords` |
| persistence | app `persist.rs` | recent files, saved views, settings | read, write, by one thread | recents in `AppOpen`, views in `LoadedTable` |
| user interface | app `ui/`, `theme.rs`, `fonts.rs`, `main.rs` | widgets | rendering | its effects only |

### 1.2 How they interact

* The UI thread calls a table (`ViewportSource`) directly: `set_view`,
  `clear_view`, `fetch`, `row_count`. A table's workers are reached only through
  its tokens, its mutexes and its atomics. Export and find threads hold the table
  too and call `fetch` while the UI changes the view under them.
* A table is opened over a local path. For a remote object the path is what
  `fetch_to_cache` returned, for a gzip file what `decompress_to_cache` returned;
  both are memory-mapped, so the files of those caches must never change.
* Read-ahead threads and the UI share the `ListingCache`; the UI starts, cancels
  and collects the threads, and fills the tree from the cache when one returns.
* All instances of the program share the cache directories on disk.

### 1.3 What is hard, and what makes each component correct

* View machinery: a superseded build ends after the request that superseded it.
  Correct: the rows on display only ever move forward to a newer request; a
  cleared view stays cleared; nothing requested is lost; the building flag is not
  left up by a build that has ended, whoever superseded whom.
* Index cache: a replaced file, a torn cache file, another table with another
  dialect, a dropped table. Correct: an index is never used with bytes or a
  dialect it was not built from, nor when it is partial; every table gets one.
* Read-ahead: several crawls over overlapping folders, a partial listing against a
  full one, cancellation and Refresh in mid-request, limits. Correct: bounded,
  ends, covers what is within reach, and "Ok" means that the root is cached in
  full.
* Caches of files: a crash at any step, errors, cancellation, leftovers, a source
  that changes, a second instance. Correct: what bears a final name is whole and
  is never written to again, and is the source it is named for.
* Browser: read-aheads, bucket lists and local listings arrive after the text, the
  tree or the cache has changed. Correct: an expanded folder gets its children or
  its error, whole listings only; suggestions belong to the text and arrive; nobody's
  read-ahead is cancelled while it is wanted; folders do not vanish.
* Opening: two kinds of jobs, targets from four places and a close in any order.
  Correct: what was asked for gets on screen or its failure is shown; no search
  works out of sight; one Esc closes one thing.
* Open table, export, find: threads read a table that is filtered, sorted,
  re-opened and closed meanwhile. Correct: the nearest match, every row once and in
  order, no truncated file, and a file comes back as it was left.
* JSON reader: boundaries of records among brackets, strings, escapes, blanks and
  files cut short; rows fetched before and after the index. Correct: the rows are
  the values written, the count is honest, the scan ends.
* Grid over Parquet: one cache entry for several threads, hidden columns, selections
  across frames. Correct: what is drawn and copied is what was asked for, and a
  dragged column lands where the highlight says.

`PROJECT.json` lists the hazards with their lines and the properties that cover
them; those no property covers say why.

## 2. Modules

### 2.1 `ViewBuild` and `ViewPromise`

`ViewPromise` is what a table promises its readers: requests are numbered, and
the rows on display are the answer to one of those made so far, never an older
one than before (`Ask`, `Show`).

`ViewBuild` is the machinery, one action per stretch of code between two accesses
to shared state:

| model | code |
|---|---|
| `asked`, `kind` | the calls made so far (request 0: the table as opened) |
| `token`, `cancelled` | the token `view_cancel` holds, the tokens cancelled |
| `shown`, `viewLock` | the content of the `view` mutex, its holder among the workers |
| `building` | `view_building` |
| `ui` | where the UI thread stands inside `set_view` / `clear_view` |
| `worker[r]` | where the worker of request `r` stands |
| `SetView`, `RaiseBuilding`, `SpawnBuild` | `set_view` with a filter or a sort |
| `SetView`, `InstallNone`, `Settle` | `set_view` with neither |
| `ClearView`, `InstallNone`, `Settle` | `clear_view` |
| `ScanDone`, `ScanCancelled`, `ScanFailed` | the ways `build_view` returns |
| `LockView`, `StoreRows`, `DiscardRows` | the store under the view lock after a look at the token |
| `BuildPanics` | `sort_by` panics on keys that are no total order: the thread ends in `build_view`, nothing is stored, the flag stays as it is |
| `LowerBuilding` | the worker's last statement, reached by every build that returns |
| `Drop` | `Drop for CsvTable` |

The rows themselves are represented by the number of the request they answer.
The look at the token and the store are two steps because a cancellation may fall
between them: the lock is what makes that harmless. `ScanFailed` happens in
`parquet.rs` only (decoding a row group may fail; the scans of text cannot);
`BuildPanics` may in all three readers (2.10). A worker holds no lock while it
sorts, so a panic poisons none.

### 2.2 `IndexCache`

Opening a delimited file: map it, take the fingerprint of the path, load the
cache file if it is valid, else build in the background, save, publish.

| model | code |
|---|---|
| `file` | the content now at the path; its fingerprint is unique to it |
| `blob` | the cache file: none, `Torn` (any file `load_in` finds damaged), or a header and an index |
| `table[t]` | the mmap, dialect, `frontier`, index slot, token, and where opening or building stands |
| `Open`, `TakeLoadStamp`, `LoadIndex`, `SpawnBuild` | `CsvTable::open`, `load_in` |
| `ScanChunk`, `ScanCancelled` | `build_with`, one step per 4096 rows, the last one includes the rest |
| `TakeSaveStamp`, `TruncateBlob`, `WriteBlob`, `SaveFails` | `save_in` |
| `Publish` | the end of `spawn_index_build` |
| `Drop`, `Kill`, `ClearCache`, `Replace` | drop, the process killed, Settings > Clear cache, another program replacing the file |
| `raced` | history: was the file replaced after some table mapped it and before the last fingerprint taken for it? |

A fingerprint (size and mtime) is taken to be unique to a content, the best
strict validation can hope for. The tables may belong to one process or to
several. A file changed in place under the mapping is not modelled.

### 2.3 `ReadAhead`

Any number of read-aheads, one record each, crawl a folder graph into one
`cache`. A step is one turn of the loop of `Crawl::next` (`ExpandCached`,
`Request`, `SpendBudget`) or a stretch of `drive` between two awaits (`GoOn`,
`SeeCancelled`, `StopFilling`, `LandListing`, `LandError`, `LandRootError`,
`Finish`), after the connection (`Connect`, `ConnectFails`). `Start`, `Cancel` and
`Refresh` are the UI's, `Answer` is the store's.

* The focus (what the user looks at) decides which queued folder is next. It is
  read before every request and may name any folder, so the model picks any.
* A cached listing is represented by whether it is complete (all pages) and by
  the refresh period in which the store answered it (`period` counts Refresh).
* The worker's runtime is single-threaded: requests make progress only while
  `drive` awaits, so `Answer` is enabled only then; replies come in any order,
  and a listing or an error is up to the store.
* `born`, `issued`, `skipped` are history variables used by the properties.
* `Sub` may be any graph, so one folder can be come across twice.

### 2.4 `CacheFetch`

`fetch_to_cache` and `decompress_to_cache` are one protocol with two orders of
steps, selected by `kind`, which never changes: gzip opens its source before
it creates the `.partial` file, remote asks for the object after; gzip looks at
its token before every read, the one that finds the end included, remote only
when a chunk has arrived.

| model | code |
|---|---|
| `source` | the content of the object or archive now, with its identity |
| `dest`, `partial` | the names in the cache directory, per identity: inodes |
| `content` | what each inode holds, chunk by chunk |
| `fetch[p]` | the fetch of process `p`: step, identity, version being read, open file, chunks received and chunks that left the `BufWriter`, token |
| `Head`, `Reuse`, `NotThere`, `CreatePartial`, `Get`, `Chunk`, `SeeCancelled`, `EndOfStream`, `Rename`, `Fail` | the function, step by step; every call may fail |
| `Cancel`, `Kill`, `ClearCache`, `Replace` | the user, a crash, Settings, the source changing |

Names and open files refer to inodes, as on the systems the program is built for:
truncating a `.partial` file truncates it for whoever has it open, and unlinking
or renaming a name does not touch an open file. One process runs one fetch at a
time because the app keeps a job until its outcome is there (`app.rs` 674-743,
894-896). Not modelled: loss of unsynced data at a power failure.

### 2.5 `BrowseTree`

The start screen over an instance of `ReadAhead` (`RA == INSTANCE ReadAhead`): every
step of a read-ahead in it is a step of that module, and `ReadAheadUsed` checks
that the app starts, cancels and abandons them only as `ReadAhead` allows.

| model | code |
|---|---|
| `tree` | `browse_root`: the top level and every `BrowseNode` by its path |
| `bucketJob`, `treeJobs` | `browse_jobs`, `tree_read_aheads` |
| `mode`, `text`, `complete` | `browse_mode`, `browse_goto`, `goto_complete` |
| `QuietFrame` and the user's actions | a frame: `poll_browse`, then what the user does |
| `CancelOld`, `FollowText` | `update_goto_completion` when the text has moved on |
| `ClickNode`, `Go`, `Accept`, `Type`, `ToggleMode`, `Refresh` | the widgets of `show_landing` |
| `BucketsLand`, `LocalLists`, `S3Lands`, `CrawlStep` | the threads |

A text is the folder it names up to the last separator. A frame has at most one
action of the user.

### 2.6 `AppOpen`

`stage` goes through the parts of `TableizerApp::ui` in their order (pending target,
`poll_download`, `poll_decompress`, keys, menu bar, toolbar, side panel, drawing) and
the user acts in the parts that have widgets, so a close, a second target and an
arriving file meet in one frame in every order the code allows. A file is what
`detect_format` and `open_table` look at: magic, JSON or not, extension, readable. The
threads of the jobs end with a file or an error, cancelled or not.

### 2.7 `LoadedTable`

One delimited file on screen: `ctl` are the controls, `tables` the tables opened so
far (one per open or dialect change) with the index and the view as `ViewPromise`
allows them to change, `find` and `export` the two jobs with the state of their
threads, `file` what is at the export's path as the export has left it (a truncated file
is `stuck` when removing it failed, which the code ignores), `disk` the saved view. `Build`
puts the rows of a view in order by `KeySort`. An edit of the
user is one frame with the reactions of `App::ui` to it (`Reactions`: re-open after a
dialect change, `set_view` after a change of the desired view, saving). `FindWindow` is
one window of `next_match`, `WriteBatch` one batch of `for_each_batch`. `steady`, `left`
and `quiet` are history.

### 2.8 `JsonRecords`

A text is a sequence of tokens. `Route`, `Detect`, `NextLine`, `NextElement`, `ValueEnd`
and `DeriveColumns` are the functions of `json.rs` on it; the state is that of one
table: `scan` (the index thread), `frontier`, `index`, the view with its threads.
`bounds` tabulates `Records::next` for the file and never changes. A row is served by
`Streamed` (`fetch_streaming`: walk there from the head) until the index has landed, and
then by `Indexed` (`fetch_data_rows`: `offset_of_row` walks from the anchor before it,
`record_value` finds the record again at its offset). `Displayed` puts the rows of a
view in order by `KeySort`, and `ViewPanics` is its thread dying where the keys contradict
each other. `Fetch` and `FetchSource` are operators, since a fetch changes nothing;
`ServesRecords` compares them, in every state, with the values the writer of the file
wrote. `ReadsAsWritten` says of the files that, streamed once from the head, they are
those values; TLC evaluates it for every file of the run (`WritersAreRead`), so that
boundaries of records and order, index and views are separate questions. Files that
are no output of a writer, whole or cut short, are left to the finding below.

### 2.9 `GridTable`

`grid` is the layout, sort, filter and selection, `table` the view asked for and the one
displayed, `last` the cache of `ParquetTable`, `fetches[p]` the fetch of the grid and
that of another thread, step by step (`Resolve` under the view lock, `Lookup` and
`Store` under the cache lock, decoding under none). A frame is `BeginFrame` (edits, view, keys, request),
`Draw`, and one thing the pointer does (`DropColumn`, `HeaderClick`, `RowEvent`, `DragOver`,
`Release`, `CopyRow`, `CopySelected`) or nothing (`EndFrame`). `RowSelection` and
`Yielded` are the run-length selection handed to the Parquet reader and what it yields.
`Picked` says which element of the layout stands where.

### 2.10 `KeySort`

How rows are put in order: `Parsed` is a field as `compare_keys` reads it (an integer, a
decimal number, NaN or text, with the place of its bytes), `Less` the comparison,
`Precedes` the order of two rows in a view, ties in the order of the file, and `SortBy`
what `sort_by` returns. `Less` is no total order of a column that mixes kinds: `2` is
before `10` as a number, `10` before `1a` and `1a` before `2` as text, and NaN equals every
number. `Orderly` says that the keys of some rows contradict each other nowhere. When they
do, `sort_by` promises every row once and no order, so `SortBy` is some such list, which
no property relies on, and it may panic, which is an action of the modules that have the
worker (`BuildPanics`, `ViewPanics`). `InOrder` and `Ascending` number the elements of a
finite set by how many are before each of them.

Operators whose name ends in `Unsound`, `TooDeep`, `TooShallow`, `TooLate`,
`TooEarly` or `Again` are mistakes the code could have made (a lost guard, an
off-by-one, a missing flush). No `Next` uses them: each is there to show that a
property notices it.

## 3. Runs

| run | configuration | shows |
|---|---|---|
| `view` | `MCViewBuild.cfg`: 4 requests | `TypeOK`; `ClearedStaysCleared`; `StatusTells`; `KeepsPromise` (refinement of `ViewPromise`); `LatestRequestLands` |
| `index` | `MCIndexCache.cfg`: 2 tables, 2 dialects, 2 contents, 2 chunks | `TypeOK`; `NoRaceRightIndex`; `OpensSettle` |
| `read_ahead` | `MCReadAhead.cfg`: 2 crawls, 6 folders, depth 2, 3 requests, 2 in flight, 1 Refresh | `TypeOK`; `Bounded`; `OkMeansRootListed`; `OkMeansCovered`; `StaleAtMostOncePerCrawl`; `CompleteStays` |
| `fetch` | `MCCacheFetch.cfg`: 1 process, both kinds, 2 contents, 2 chunks, 4 inodes | `TypeOK`; `DestWhole`; `DestNeverRewritten` |
| `browse` | `MCBrowseTree.cfg`: 3 folders, 2 read-aheads, 2 local folders, 4 acts, 1 Refresh | `TypeOK`; `ShowsWholeListing`; `SuggestionsBelong`; `ReadAheadUsed` (refinement of `ReadAhead`); `NodesStay` |
| `browse_live` | `MCBrowseTreeLive.cfg`: 2 folders, 2 read-aheads, 3 acts, 1 Refresh | `TreeSettles`; `SuggestionsArrive` |
| `open` | `MCAppOpen.cfg`: 4 targets, 3 acts | `TypeOK`; `SearchInSight`; `EscapeClosesOne`; `OutcomesKept`; `Served` |
| `table` | `MCLoadedTable.cfg`: 5 records, 2 delimiters, find windows and export batches of 2, index batches of 3, 2 tables, 2 edits | `TypeOK`; `FindsNearest`; `ExportComplete`; `NoTruncatedFile`; `ReopenRestores` |
| `json` | `MCJsonRecords.cfg`: about 230 files of up to 3 values, anchors every 2 records, 2 views | `TypeOK`; `ServesRecords`; `ScanEnds` |
| `grid` | `MCGridTable.cfg`: 3 rows of 3 columns, 2 in sight, 2 acts, 1 read of another thread | `GridTypeOK`; `RowsRight`; `TakesSlot` |
| `export_source` | `MCLoadedTableSource.cfg` | finding 1 |
| `json_stray` | `MCJsonRecordsStray.cfg` | finding 2 |

### 3.1 Why the bounds are enough

* View: what matters is the order of two requests and their workers; three calls
  put a clear between two builds, four let a worker hold the lock while two more
  requests follow.
* Index: two tables make two writers and a reader of one cache file, two contents
  make a stale index (the first may come back), two dialects a foreign one, two
  chunks a partial one. A cache file is replaced as a whole, so a third table
  adds no new state of it.
* Read-ahead: the graph has a folder of more than one page (`x`), met both as a
  root (all pages) and below one (one page), a folder come across twice (`y` shows
  `x`), and one beyond the depth limit (`z`); the budget of 3 is exceeded
  from `b` and not from `p`, and the concurrency of 2 reached.
* Fetch: two chunks make a partly received and a partly written file; two
  contents make a source that changes and comes back; the four inodes cover both
  destinations and both `.partial` files. Inodes are interchangeable, so the runs
  without liveness use symmetry.

* Browse: `b` lists `x`, `x` has two pages (its first page lacks `y`), so that a
  one-page listing cached on the way shows; `x` may be typed as well as listed; two
  read-aheads serve the tree and the field at once. Four acts are expand, type, Refresh
  and one more. The liveness run has a smaller store (`x` has two pages of files), two
  read-aheads and three acts: typing a remote folder takes one read-ahead, so that Refresh
  while the field waits for its listing starts the second, and one act is left. More
  than one folder of a kind adds breadth, not order.
* Open: the targets are one of each kind (remote and packed, packed, plain with a
  saved search, misnamed). Three acts start a job, interfere, and close; the run with
  four passes too (140 s).
* Table: two edits are enough for a view to change under an export or a scan, or a
  dialect change and a second view. Five records, windows of two and a saved view that
  hides the column of the first matches make scans march, under a display that stays the
  same: forward and backward over windows without a match to one that has one, and
  to the end without any. The last window is short in one direction and the first in the
  other. Index batches of three make the count inexact until the index lands. Column 0 sorts
  in neither order and has ties; the keys of column 1 contradict each other. Two tables:
  the first one is read by a thread after it was replaced.
* JSON: the values have brackets, commas, quotes and an escaped quote inside strings;
  three records cross an anchor interval of two; files are cut at every token, and
  written tightly and with byte order mark, blanks and carriage returns. The second view
  supersedes the first while its thread is building. Two of the files hold 2.5, 10
  and 1a, whose keys contradict each other, so that the thread of a sorted view may die.
* Grid: the keys of one column contradict each other; the middle column may be hidden between the dragged one and its target; two
  acts select and extend, or sort and copy; the page is larger than the window, and at
  most two rows are copied of a selection of three. Moving on in a drag and letting
  go are not counted as acts.

`CHECK_DEADLOCK FALSE` is said where the model really stops: `ViewBuild` when its
calls are used up and the workers have ended, `ReadAhead` when every crawl has,
`BrowseTree` when its acts are used up and nothing runs, `LoadedTable` likewise, and
`JsonRecords` when the table is dropped. The others are checked for deadlock.

### 3.2 Fairness

Weak fairness of a worker's own steps, of the UI thread inside a call it has
entered, and of the store's answer: the operating system schedules runnable
threads, the code holds no lock while it waits for anything but another lock, and
the HTTP client turns a request that hangs into an error. Never assumed: that the
user does anything, that a request succeeds, that a scan sees its token in time.
A mutex is not assumed to be fair: `LatestRequestLands` holds with weak fairness
because each worker takes the lock once. `CacheFetch` has no liveness property:
nothing but the client's own timeouts bounds a stalled download. In `BrowseTree` and
`AppOpen` frames are fair while there is something to poll: the code asks for a
repaint as long as a job is under way. In `JsonRecords` the index thread and the view
threads are fair. `GridTable` and `LoadedTable` state safety only.

### 3.3 Findings

1. `export.rs:46`: an export takes its total from `row_count`, which is the view's
   while a filter is on, for a source export too. The file then has only the first
   rows of the source, as many as the filtered view has, although `export.rs:31`
   promises "every row in source order, ignoring any filter/sort".
2. `json.rs:721`: in an array, a `}` where an element should begin is taken for a
   value of no length at which the scan resumes. The index thread then counts rows and
   stores anchors for ever, and so does a view's, until its table is dropped; the
   comment (`json.rs:683`) says that malformed input stops the scan at its end.

### 3.4 Known divergences

Other disagreements met while modelling. Where a configuration is named, TLC finds
the violation with it; it is not among the runs.

* `MCViewBuildFlag.cfg` (`BuildingWhileBuilt`): `table.rs:225`, `json.rs:310`,
  `parquet.rs:174`: `view_building` is lowered by a superseded worker while the latest
  view is being built. `StatusTells` bounds it: down during the latest build only if the
  worker of an older request has ended.
* `sort.rs:38-46`, `table.rs:338`: a sort by a column whose keys are no total order may
  panic. The worker dies before it lowers the flag: the view asked for is never shown and
  `view_building` stays up until the next request is answered (`StatusTells` and
  `LatestRequestLands` except it). If it does not panic, the order depends on
  the standard library.
* `MCIndexCacheStale.cfg` (`NeverWrongIndex`): `cache.rs:113`: `save_in` takes the
  fingerprint of the path after the build, so a file replaced during the build gets
  the old file's index. `CacheNeverMisleads` shows that this and the gap between
  mapping and `load_in` are the only ways to a wrong index.
* `MCReadAheadRefresh.cfg` (`RefreshRelists`): `remote/read_ahead.rs:146`: one listing
  per cancelled crawl survives Refresh, and not more (`StaleAtMostOncePerCrawl`).
* `MCCacheFetchTwo.cfg` (`DestWhole`): `remote.rs:437`: one `.partial` name per object,
  shared by all instances of the program; `gzip.rs` does the same.
* `MCCacheFetchIdentity.cfg` (`ReusedCopyIsCurrent`): `remote.rs:440`: the bytes are
  requested without a condition on the identity `head` returned.
* `MCBrowseTreeTwice.cfg` (`EveryFailureShows`): `app.rs:1019`: the failure of a
  read-ahead is shown on the first node of its folder; a second node of it stays
  `Loading` and cannot be retried.
* `MCLoadedTableView.cfg` (`AppliedWasAsked`): `app.rs:1948`: after a dialect change
  `applied` still equals the desired view, so the new table is shown without its filter
  and sort.
* `MCLoadedTableRemove.cfg` (`FailedLeavesNothing`): `app.rs:2089-2091` ignores a removal
  that fails, so the truncated file of a failed or cancelled export may stay, although
  `app.rs:2039-2040` promises that "a cancelled or failed export never leaves a truncated
  file behind" (`NoTruncatedFile` excepts it). When
  the file could not be created at all, the removal may take away the user's own file of
  that name.
* `export.rs:46`: an export fetches batch by batch while the view may change, so one file
  may have rows of two views, or fewer rows than either (`ExportComplete` speaks of exports
  under a display that stays the same).
* `app.rs:1981`: a match found in one view is selected in the view that has replaced it
  since (`FindsNearest` speaks of scans under a display that stays the same).
* `app.rs:748`: a download that ends while something is being unpacked is dropped
  (`OutcomesKept` and `Served` except it).
* `app.rs:998`: the bucket list, and its failure, replaces the whole root, folders
  added by the jump-to field included (`NodesStay` excepts it).
* JSON: a `.jsonl` file whose lines are arrays is taken for one array; text after the
  closing `]` is ignored; keys first seen after the 200th record have no column; a
  first line longer than the 64 KiB head does not parse, so that the file is routed by
  its extension.
* Grid: a selection stays when the view shrinks, and the up keys do not bring it back
  within the rows (`grid.rs:76`); copying fetches the rows again, so a view that lands
  between drawing and copying gives other rows than those highlighted.

## 4. Proofs

Checked by TLAPS for every value of the constants.

`TableProofs` holds the proofs about the two sides of an open table. Of `ViewBuild` (any
number of requests and workers):
* `TypeCorrect`: `Spec => []TypeOK`.
* `ClearedNotResurrected`: `Spec => []ClearedStaysCleared`.
* `StatusTellsHolds`: `Spec => []StatusTells`.
* `ImplementsPromise`: `Spec => KeepsPromise`, step by step: a store or an
  identity view is `Show`, a call is `Ask`, all else a stutter.

`ClearedStaysCleared` is not inductive: that no worker stores over the cleared
view depends on where each of them stands. The invariant `IInv` adds what the
lock and the tokens give together: the lock is held exactly by the worker in its
store step (`LockHeld`); a worker whose request was superseded and that may still
store has its token cancelled, and only the latest request can hold a good one
(`SupersededIsCancelled`); a worker stores at most once and only over something
older (`StoresForward`); from the moment the UI thread has had the lock the view
answers the clearing request (`ClearedIsShown`). For `StatusTells` it says
that the flag is up only for the latest request (`FlagIsLatest`), that only the worker of
an older one lowers it early (`LoweredByOlder`), and that the latest worker works, has
delivered, or has failed or died (`LatestDelivers`).

Of `GridTable` (any rows, columns, keys and layouts, any number of acts and reads):
* `GridTypeCorrect`: `GridSpec => []GridTypeOK`: no key or drag takes the selection off
  the rows, no drop makes two of a column.
* `RowsServedRight`: `GridSpec => []RowsRight`.
* `DropTakesSlot`: `GridSpec => TakesSlot`.
* `SelectionYields`: the run-length selection of any climbing rows lets exactly these
  through.
* `DecodedRight`: the rows asked for come back in the order of the request, with the
  cells of the columns asked for.
* `BuildViewLists`: a view has every row its filter keeps once; they are in the order of the
  file if it is not sorted, and in the order of the sort if their keys are `Orderly`.
* `AlikeAreOrderly`: keys of one kind are `Orderly`: integers alone, decimal numbers alone, or
  text alone.

`RowsRight` speaks of the fetches that are done, and says nothing of the cache or of a
fetch under way. `GridInv` does: the cache holds the cells of the rows and columns it is
filed under (`LastRight`), whichever thread has stored them and whatever the view is by
then; the rows of a fetch are those of the view it was resolved in and stay so
(`FetchRight`), so what it decodes, or finds under the same key, is right; the fetch of
the grid is for the columns displayed, then for those drawn, and what was drawn and
copied are rows of the view noted with them (`FrameRight`). What a decoding gives rests
on `DecodedRight`, and that on `SelectionYields`: after the k-th pair of the
selection the reader has let through what the first k runs hold (`YieldedSteps`).
`TakesSlot` compares what is displayed before and after a drop. `Picked` takes the
elements of a set out of a sequence in its order (`PickedLists`), and two sequences that
list one set in one order are one (`ListsAgree`); that the dragged column is where its
target was is a count of what lies before either (`SlotTaken`), for a drag to the left and
to the right. `KeyAssumption` only gives every cell of a sort column a
parsed key, of any kind; `LayoutsAssumption` says that a saved layout has every column once.

`IndexCacheProofs` (any tables, dialects, chunks, contents):
* `TypeCorrect`: `Spec => []TypeOK`.
* `CacheNeverMisleads`: `Spec => []NoRaceRightIndex`.

Its invariant relates every step of the builder to the cache file: a scan that is
over is whole (`ScanWhole`), and, unless a replacement raced, a saved blob has the
index of the content and dialect in its header (`BlobHonest`), a table that has
yet to take a fingerprint maps the current file (`MapsCurrent`), and one that has
taken it has that of its mapping (`StampHonest`).

`ReadAheadProofs` (any folders and listings, any number of read-aheads, any limits):
* `TypeCorrect`: `Spec => []TypeOK`, the depth limit included.
* `CrawlsBounded`: `Spec => []Bounded`.
* `OkRootListed`: `Spec => []OkMeansRootListed`.
* `CompleteListingStays`: `Spec => CompleteStays`.
* `StaleStaysBounded`: `Spec => []StaleAtMostOncePerCrawl`.
* `OkCovers`: `Spec => []OkMeansCovered`, if no folder has two parents (`OneParent`).

The invariant of the first four has four parts per read-ahead. `Counted`: the history of requests
has as many folders as there were requests, which holds because of `QueuedOnce`:
a folder is queued once and a queued folder was never requested. `SeekingFirst`:
nothing is requested before the connection, so the budget cannot be spent there
and the root cannot be lost by it. `RootPending`: until the crawl ends, its root is
the one queued folder, or in flight, or cached in full. `RootRepliesWhole` adds
that the store's answer for the root has all its pages.

`StaleStaysBounded` has an invariant of its own, `StaleInv`. A listing answered before a
Refresh can land only from a crawl that was running at the Refresh: such a crawl is cancelled (`OldCancelled`), its
replies are never younger than the period (`RepliesYoung`), and after it has landed
one it sees its token and stops. So every stale folder in the cache is charged to a
cancelled crawl that has woken since, and to one only; the sets are finite because
the crawls and the folders are.

`OkCovers` is about every folder within depth and width of a root, so its invariant
(`CoverInv`) says what holds before that is reached: while neither a Refresh nor the
budget nor an error has cost the crawl a folder, every folder it has come across, at some
depth, is queued or in flight at that depth, or is listed, and what a listing of it
shows at the least has been come across too unless it is at the depth limit. When
nothing waits, the reach is covered by induction on the depth (`NothingWaits`). That a
folder is at the least of its depths is where `OneParent` comes in, and it is needed: in
a graph that is no tree a folder may be met first on a longer path, at the depth limit,
and is not queued again when the shorter path reaches it (with depth 3, `b` showing `x`
and `y`, `x` showing `p`, `p` and `y` showing `q`, `q` showing `z`: `z` may stay
unlisted). The folders of a store form a tree, except that what a root shows may be shown
again below; TLC evaluates `OneParent` for the run's graph (`StoreIsATree`).

`CacheFetchProofs` (any length and contents of the source):
* `TypeCorrect`: `Spec => []TypeOK`, for any number of processes.
* `OneInstanceWhole`: `Spec => []DestWhole` if one process uses the cache.
* `OneInstanceNeverRewrites`: `Spec => DestNeverRewritten`, likewise.

The proviso is the point: with two processes `DestWhole` is violated (3.4). The invariant
says which names and open files may share an inode (no destination with a `.partial` file or an open one, no two `.partial` files), and that
the open file holds exactly what its fetch has written.

`AppOpenProofs` (any files, any number of acts):
* `TypeCorrect`: `Spec => []TypeOK`.
* `SearchStaysInSight`: `Spec => []SearchInSight`.
* `OneEscapeOneThing`: `Spec => []EscapeClosesOne`.
* `NothingGoesUnseen`: `Spec => OutcomesKept`.

The invariant is `Shape` (the parts of the state the steps read), `BelowBar` (when a
frame draws its toolbar the bar is there for an active search), `OneTaker` and the
two properties. Both relate stages of one frame, so neither is inductive: what `Esc`
closes is decided at three places of a frame, and `OneTaker` says which of them have
had it at each stage (the focus is where the last frame has left it until the keys
are read, and what closed first leaves nothing to the later ones).
`FocusAssumption` says that `None` is no field. `TypeOK` has the recent files in it: that
they name each target once follows from `Without`, which takes an element out of a
sequence by the places of the others. `OutcomesKept` is an action property and needs the
two jobs typed; `NoneAssumption` keeps the absence of a job apart from a job.

`LoadedTableProofs` (any records, batch sizes, views and numbers of exports):
* `TypeCorrect`: `Spec => []TypeOK`.
* `BuildInOrder`: a view has every row its filter keeps once; they are in the order of the
  file if it is not sorted, and in the order of the sort if their keys are `Orderly`.
* `FindIsNearest`: `Spec => []FindsNearest`.
* `ExportsAreComplete`: `Spec => []ExportComplete`.
* `NothingTruncatedStays`: `Spec => []NoTruncatedFile`: the file is truncated only while the
  export writes it, or when removing it failed, and one reported as done is whole.
* `FilesComeBack`: `Spec => ReopenRestores`.

For the exports the invariant says that what a running export has written is the
prefix of the view it began with, which cannot have changed under it, and that it
began with the exact number of rows (`ExportOk`, `ExportRight`). For the files it
says that a frame in which nothing is edited leaves nothing to apply or to save
(`QuietOk`) and that what the user left is on disk from the moment the file is
closed until it is opened again (`LeftOk`); `CtlOk` keeps the controls and the
table in step. `NoneAssumption` says that `None` is no view.

`BuildInOrder` is constant-level: to number the elements of a finite set by how many are
before each of them is to put them in order (`Ranked`), if "before" is a total order.
The comparison of a view is one, ties included, when no keys contradict each other
(`OrderlyOrders`); else nothing but that every row is there once is claimed, and proved.
`KeyAssumption` says that every record has a parsed key of some kind. For `FindIsNearest` the invariant (`Typed`, with `TypeOK`) says of a
scan under way, as long as the display has stayed the same, that no row it has passed
matches (`FindRight`) and that its next window lies right beyond those; so the match that
ends it is the nearest one in its direction, and if there is none it has passed them all.
`SavedAssumption` says that the views on disk are some the program has saved.

`BrowseTreeProofs` (any folders and buckets, any number of read-aheads and acts):
* `TypeCorrect`: `Spec => []TypeOK`.
* `ReadAheadsUsed`: `Spec => ReadAheadUsed`, the refinement of `ReadAhead`'s steps.
* `WholeListingShown`: `Spec => []ShowsWholeListing`.
* `SuggestionsAreRight`: `Spec => []SuggestionsBelong`.
* `FoldersStay`: `Spec => NodesStay`.

The invariant contains that of `ReadAheadProofs`, instantiated over the browser's
variables: each step of the browser is one of `ReadAhead`'s or leaves the read-aheads
alone, so its lemmas carry over. That Refresh cancels all that run, as `ReadAhead`
says, needs `JobsOk`: a read-ahead that runs is cancelled already, or the tree or the
field still knows it. `TreeOk` says how the tree hangs together (`Grafted`: a node
below another is there because that one is listed, and a listed node has all of its
subfolders), which makes `ShowsWholeListing` inductive; every function of the tree has
a lemma that it keeps `TreeOk`, and what was in the tree. `SuggestionsOk` ties the
suggestions, and the listings under way for them, to one folder; `TextOk` says that in
local mode no read-ahead is made for the field. The assumptions of `ReadAhead` are
repeated in `BrowseTree`, and shown to be those.

`JsonRecordsProofs` (any files, tokens, values and views, any interval of anchors):
* `IndexAgrees`: `Spec => []SameRows`: once the index has landed, a row found through it
  is the row streamed from the head. Of any text, malformed and cut short ones too.
* `ViewInOrder`: a view has every row its filter keeps once; they are in the order of the
  file if it is not sorted, and in the order of the sort if their keys are `Orderly`.
* `TypeCorrect`: `Spec => []TypeOK`, if `ReadsAsWritten`.
* `RowsServed`: `Spec => []ServesRecords`, if `ReadsAsWritten`.

`IndexInv` is about the thread of the index: its position is where a walk from the head
is after as many records as it has counted, each of those is a record, and the anchors
are the starts of every `Interval`-th of them. Then a walk from the anchor before a row
is the end of the walk from the head (`AnchorFinds`). That a record is found again at its
own start (`RecordFound`) is a lemma about the scans of lines and of elements: blanks and
commas are skipped to the same place from anywhere before it. `ServedInv` adds
that a view displayed holds the rows written, each once, as its sort has put them. `ReadsAsWritten` is
a hypothesis and not an assumption: it is false for the text of finding 2, whose scan
counts more rows than the text has tokens, so that `TypeOK` fails there as well.
What remains under it is the reading of one text from its head, which is
recursion over the text, and TLC evaluates it. `CellsAssumption`: rendering has the
empty cell, and every cell has a parsed key. `FilesAssumption`: a file has no more rows than tokens. `NoneAssumption`:
`None` is no number.

Two things about the form. Where an argument needs induction it is over a set of
natural numbers that has a least element (`LeastNatural`, `Induction`), since the
induction theorems of the library cannot be used with the provers here; recursive
definitions are recursive functions, and a lemma first gives the equation they satisfy.
Sequences are filtered, sorted and searched by operators that say which element stands
where (`InOrder` of `KeySort`, `Without`), about which there is something to prove, rather than by
the recursive ones of the library.

Only model-checked: the liveness properties (`LatestRequestLands`, `OpensSettle`,
`ScanEnds`, `TreeSettles`, `SuggestionsArrive`, `Served`), which are out of the prover's
reach; and `ReadsAsWritten` and `OneParent`, which TLC evaluates for the constants of the
runs. `DestWhole` and `DestNeverRewritten` are proved for one process and checked for one.
Every other property of a run that passes is also a theorem. The assumptions on the constants are named
`ASSUME`s in the modules that declare them.

## 5. Plan

1. One module of lemmas for what the proofs share: induction over sets of numbers, and
   sets put in order (the lemmas about `InOrder` and `SortBy` of `KeySort`, which each
   proof of a reader's views has for itself now).
2. `OffsetIndex` for delimited files: `offset_of_row` and the saved blob.
3. `parse_int` and `parse_number`, whose outcome `KeySort` takes as given, and which
   columns of real files are `Orderly` beyond those of one kind.
4. `CacheFetch` with identities that coincide and with power loss.
5. Cloud settings: which credentials and which region a request uses
   (`remote.rs` 40-290, `model.rs` 459-535).

Not modelled, and why: themes, fonts, rendering and column widths (no state with a
correctness of its own); decoding of Parquet and Arrow, regular expressions, JSON
values, credentials and the object store itself (libraries: what the code relies on
is in the external definitions); the settings form (one thread, whole files);
delimiter sniffing (a heuristic); the splitting of a typed path into folder and name
(`complete.rs` 1-60); a file truncated or rewritten in place under a mapping, or a
Parquet file replaced under its old metadata.
