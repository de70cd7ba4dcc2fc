------------------------------ MODULE IndexCache ------------------------------
(***************************************************************************)
(* Opening a delimited file and indexing it (CsvTable::open and            *)
(* spawn_index_build in table.rs, OffsetIndex::build_with in index.rs, and *)
(* the on-disk index cache of cache.rs). Several tables, of one process or *)
(* of several, may open the same path at once and share one cache file;    *)
(* the source may be replaced, the cache cleared and a process killed at   *)
(* any moment.                                                             *)
(*                                                                         *)
(* The source is a version number: replacing the file gives it another     *)
(* content and another fingerprint (size + mtime), the most the strict     *)
(* comparison in load_in can hope for. A table maps the version it opened  *)
(* and keeps it. An index is the version and the dialect it was built      *)
(* from and the rows it covers, counted in chunks of 4096 rows, the        *)
(* cadence of build_with; the last chunk is the rest of the file.          *)
(* Operators named ...Unsound are slips the code could have made.          *)
(***************************************************************************)
EXTENDS Naturals

CONSTANTS
  Tables,        \* the tables that may open the path
  Dialects,      \* delimiter and quote pairs a table may parse with
  Chunks,        \* how many 4096-row chunks the file has
  MaxVersions,   \* bound: how many contents the file goes through
  None,          \* no index, no cache file
  Torn           \* a cache file created but not (wholly) written

ASSUME ChunksAssumption == Chunks \in Nat \ {0}
ASSUME MaxVersionsAssumption == MaxVersions \in Nat \ {0}
ASSUME DialectsAssumption == Dialects # {}

Versions == 1 .. MaxVersions

Index == [content : Versions, dialect : Dialects, rows : 0 .. Chunks]

(* A cache file: the header's fingerprint and dialect, and the index. *)
Blob == [stamp : Versions, dialect : Dialects, index : Index]

ASSUME NoneAssumption == None \notin Index
ASSUME NoBlobAssumption == None # Torn /\ None \notin Blob /\ Torn \notin Blob

VARIABLES
  file,     \* the content (and fingerprint) now at the path
  blob,     \* the cache file of the path
  table,    \* each table: its open, its index builder and what it shows
  raced     \* was the file ever replaced after a table mapped it and before
            \* the last fingerprint taken for that table? (history)

vars == <<file, blob, table, raced>>

(* In the order they are gone through: mapped the file, took its            *)
(* fingerprint, then ready, or building: scanning, done, fingerprinted for  *)
(* the save, cache file truncated, saved.                                   *)
Building == {"scan", "built", "save", "write", "publish"}
Pc == {"closed", "mapped", "stamped", "ready"} \cup Building

Table ==
  [pc : Pc,
   mapped : Versions,            \* the content in the mmap
   dialect : Dialects,           \* what it is parsed with
   stamp : Versions,             \* the fingerprint taken last
   frontier : 0 .. Chunks,       \* published lower bound of the row count
   slot : Index \cup {None},     \* the index, once there
   cancelled : BOOLEAN]          \* dropped while the builder ran

TypeOK ==
  /\ file \in Versions
  /\ blob \in Blob \cup {None, Torn}
  /\ table \in [Tables -> Table]
  /\ raced \in BOOLEAN

Fresh(v, d) ==
  [pc |-> "mapped", mapped |-> v, dialect |-> d, stamp |-> v, frontier |-> 0,
   slot |-> None, cancelled |-> FALSE]

(* No table: the other fields mean nothing. *)
Closed == [Fresh(1, CHOOSE d \in Dialects : TRUE) EXCEPT !.pc = "closed"]

Init ==
  /\ file = 1
  /\ blob = None
  /\ table = [t \in Tables |-> Closed]
  /\ raced = FALSE

------------------------------------------------------------------------------
(* Opening, on the UI thread. *)

(* open_source: map the file. *)
Open(t) ==
  /\ table[t].pc = "closed"
  /\ \E d \in Dialects : table' = [table EXCEPT ![t] = Fresh(file, d)]
  /\ UNCHANGED <<file, blob, raced>>

(* load_in takes the fingerprint of whatever is at the path by now. *)
TakeLoadStamp(t) ==
  /\ table[t].pc = "mapped"
  /\ table' = [table EXCEPT ![t].pc = "stamped", ![t].stamp = file]
  /\ UNCHANGED <<file, blob, raced>>

UsableUnsound(t) ==
  blob \in Blob /\ blob.stamp = table[t].stamp

(* The strict validation of load_in: intact, same fingerprint, same dialect.*)
Usable(t) ==
  /\ blob \in Blob
  /\ blob.stamp = table[t].stamp
  /\ blob.dialect = table[t].dialect

(* Cache hit: indexed at once. *)
LoadIndex(t) ==
  /\ table[t].pc = "stamped"
  /\ Usable(t)
  /\ table' = [table EXCEPT ![t].pc = "ready",
                            ![t].frontier = blob.index.rows,
                            ![t].slot = blob.index]
  /\ UNCHANGED <<file, blob, raced>>

(* Cache miss: the index builder is spawned. *)
SpawnBuild(t) ==
  /\ table[t].pc = "stamped"
  /\ ~Usable(t)
  /\ table' = [table EXCEPT ![t].pc = "scan"]
  /\ UNCHANGED <<file, blob, raced>>

------------------------------------------------------------------------------
(* The index builder. *)

ScanChunkUnsound(t) ==
  LET done == table[t].frontier + 1 IN
  /\ table[t].pc = "scan"
  /\ ~table[t].cancelled
  /\ table' = [table EXCEPT ![t].frontier = done,
                            ![t].pc = IF done > Chunks THEN "built" ELSE "scan"]
  /\ UNCHANGED <<file, blob, raced>>

(* 4096 records, or the rest of the file: progress is published. *)
ScanChunk(t) ==
  LET done == table[t].frontier + 1 IN
  /\ table[t].pc = "scan"
  /\ ~table[t].cancelled
  /\ table' = [table EXCEPT ![t].frontier = done,
                            ![t].pc = IF done = Chunks THEN "built" ELSE "scan"]
  /\ UNCHANGED <<file, blob, raced>>

ScanCancelledUnsound(t) ==
  /\ table[t].pc = "scan"
  /\ table[t].cancelled
  /\ table' = [table EXCEPT ![t].pc = "built"]
  /\ UNCHANGED <<file, blob, raced>>

(* The builder sees that its table is gone: no index, nothing saved. *)
ScanCancelled(t) ==
  /\ table[t].pc = "scan"
  /\ table[t].cancelled
  /\ table' = [table EXCEPT ![t] = Closed]
  /\ UNCHANGED <<file, blob, raced>>

(* save_in takes the fingerprint of whatever is at the path by now. *)
TakeSaveStamp(t) ==
  /\ table[t].pc = "built"
  /\ table' = [table EXCEPT ![t].pc = "save", ![t].stamp = file]
  /\ UNCHANGED <<file, blob, raced>>

(* fs::write first creates or truncates the cache file ... *)
TruncateBlob(t) ==
  /\ table[t].pc = "save"
  /\ blob' = Torn
  /\ table' = [table EXCEPT ![t].pc = "write"]
  /\ UNCHANGED <<file, raced>>

BuiltIndex(t) ==
  [content |-> table[t].mapped, dialect |-> table[t].dialect,
   rows |-> table[t].frontier]

(* ... and then writes it. *)
WriteBlob(t) ==
  /\ table[t].pc = "write"
  /\ blob' = [stamp |-> table[t].stamp, dialect |-> table[t].dialect,
              index |-> BuiltIndex(t)]
  /\ table' = [table EXCEPT ![t].pc = "publish"]
  /\ UNCHANGED <<file, raced>>

SaveFailsUnsound(t) ==
  /\ table[t].pc \in {"save", "write"}
  /\ table' = [table EXCEPT ![t].pc = "ready"]
  /\ UNCHANGED <<file, blob, raced>>

(* Saving is best effort: a failure at any point of it is ignored. *)
SaveFails(t) ==
  /\ table[t].pc \in {"save", "write"}
  /\ table' = [table EXCEPT ![t].pc = "publish"]
  /\ UNCHANGED <<file, blob, raced>>

(* The total (published by the last chunk already) and the index are stored;*)
(* a dropped table's builder ends.                                          *)
Publish(t) ==
  /\ table[t].pc = "publish"
  /\ table' = [table EXCEPT
       ![t] = IF table[t].cancelled
                THEN Closed
                ELSE [@ EXCEPT !.pc = "ready", !.slot = BuiltIndex(t)]]
  /\ UNCHANGED <<file, blob, raced>>

------------------------------------------------------------------------------
(* The rest of the world. *)

(* The table is dropped: its builder is told to stop, if there is one. *)
Drop(t) ==
  /\ \/ /\ table[t].pc = "ready"
        /\ table' = [table EXCEPT ![t] = Closed]
     \/ /\ table[t].pc \in Building
        /\ ~table[t].cancelled
        /\ table' = [table EXCEPT ![t].cancelled = TRUE]
  /\ UNCHANGED <<file, blob, raced>>

(* The process is killed: only the disk stays as it is. *)
Kill(t) ==
  /\ table[t].pc # "closed"
  /\ table' = [table EXCEPT ![t] = Closed]
  /\ UNCHANGED <<file, blob, raced>>

(* Settings > Clear cache. A builder that is writing has its file unlinked: *)
(* what it still writes is never seen again.                                *)
ClearCache ==
  /\ blob # None
  /\ blob' = None
  /\ table' = [t \in Tables |->
                 IF table[t].pc = "write"
                   THEN [table[t] EXCEPT !.pc = "publish"]
                   ELSE table[t]]
  /\ UNCHANGED <<file, raced>>

(* Another program replaces the file (an older backup may come back). *)
Replace ==
  /\ \E v \in Versions \ {file} : file' = v
  /\ raced' = (raced \/ \E t \in Tables :
                          table[t].pc \in {"mapped", "stamped", "scan", "built"})
  /\ UNCHANGED <<blob, table>>

------------------------------------------------------------------------------
TableStep(t) ==
  \/ TakeLoadStamp(t) \/ LoadIndex(t) \/ SpawnBuild(t)
  \/ ScanChunk(t) \/ ScanCancelled(t)
  \/ TakeSaveStamp(t) \/ TruncateBlob(t) \/ WriteBlob(t) \/ SaveFails(t)
  \/ Publish(t)

Next ==
  \/ \E t \in Tables : Open(t) \/ TableStep(t) \/ Drop(t) \/ Kill(t)
  \/ ClearCache
  \/ Replace

(* open() runs to its end, and so does a builder that was spawned. *)
Spec == Init /\ [][Next]_vars /\ \A t \in Tables : WF_vars(TableStep(t))

------------------------------------------------------------------------------
(* Properties. *)

(* The index a table resolves rows with was built over the very bytes the   *)
(* table maps, all of them, with the dialect it parses with.                *)
RightIndex(t) ==
  \/ table[t].slot = None
  \/ table[t].slot = [content |-> table[t].mapped,
                      dialect |-> table[t].dialect,
                      rows |-> Chunks]

(* What the cache guarantees: as long as the file was never replaced        *)
(* between a table's mmap and the last fingerprint taken for it, no table   *)
(* uses a wrong or a partial index, whatever other tables, dialects,        *)
(* replacements at other times, torn writes, dropped builds, kills and      *)
(* cache clearing there were.                                               *)
NoRaceRightIndex == ~raced => \A t \in Tables : RightIndex(t)

(* What cache.rs says of load, "never a wrong index", without the proviso.  *)
NeverWrongIndex == \A t \in Tables : RightIndex(t)

(* A table that was opened comes to rest: it gets its index, even when      *)
(* saving it fails, or it is dropped and its builder has ended.             *)
OpensSettle ==
  \A t \in Tables :
    table[t].pc = "mapped" ~> (table[t].slot # None \/ table[t].pc = "closed")
===============================================================================
