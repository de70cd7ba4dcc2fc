--------------------------- MODULE IndexCacheProofs ---------------------------
(***************************************************************************)
(* Proofs about IndexCache, for any number of tables, dialects, chunks and *)
(* versions of the file: its type invariant, and that without a race       *)
(* between a mapping and its fingerprint no table uses a wrong index.      *)
(***************************************************************************)
EXTENDS IndexCache, TLAPS

Whole(v, d) == [content |-> v, dialect |-> d, rows |-> Chunks]

(* The header of an intact cache file tells the truth about its index. *)
BlobHonest ==
  blob \in Blob => blob.index = Whole(blob.stamp, blob.dialect)

(* What a table knows of the file it maps, up to its last fingerprint ... *)
MapsCurrent ==
  \A t \in Tables :
    table[t].pc \in {"mapped", "stamped", "scan", "built"} =>
      table[t].mapped = file

(* ... and from then on. *)
StampHonest ==
  \A t \in Tables :
    table[t].pc \in {"stamped", "save", "write"} =>
      table[t].stamp = table[t].mapped

RightIndexes == \A t \in Tables : RightIndex(t)

(* Only a scan that reached the end of the file is saved or published. *)
ScanWhole ==
  \A t \in Tables :
    /\ table[t].pc \in {"built", "save", "write", "publish"} =>
         table[t].frontier = Chunks
    /\ table[t].pc = "scan" => table[t].frontier < Chunks
    /\ table[t].pc \in {"mapped", "stamped"} => table[t].frontier = 0

Honest == BlobHonest /\ MapsCurrent /\ StampHonest /\ RightIndexes

IInv ==
  /\ TypeOK
  /\ ScanWhole
  /\ ~raced => Honest

------------------------------------------------------------------------------
LEMMA FreshTyped ==
  ASSUME NEW v \in Versions, NEW d \in Dialects
  PROVE  Fresh(v, d) \in Table
BY ChunksAssumption DEF Fresh, Table, Pc

LEMMA ClosedTyped == Closed \in Table /\ Closed.pc = "closed" /\ Closed.slot = None
<1>1. 1 \in Versions
  BY MaxVersionsAssumption DEF Versions
<1>2. PICK d \in Dialects : d = CHOOSE e \in Dialects : TRUE
  BY DialectsAssumption
<1>3. Fresh(1, d) \in Table
  BY <1>1, <1>2, FreshTyped
<1>4. Closed = [Fresh(1, d) EXCEPT !.pc = "closed"]
  BY <1>2 DEF Closed
<1>5. QED
  BY <1>3, <1>4 DEF Fresh, Table, Pc

LEMMA InitIInv == Init => IInv
<1> SUFFICES ASSUME Init PROVE IInv
  OBVIOUS
<1>1. \A t \in Tables : table[t] = Closed
  BY DEF Init
<1>2. TypeOK
  <2>1. file \in Versions
    BY MaxVersionsAssumption DEF Init, Versions
  <2>2. table \in [Tables -> Table]
    BY ClosedTyped DEF Init
  <2>3. QED
    BY <2>1, <2>2 DEF Init, TypeOK
<1>3. ScanWhole
  BY <1>1, ClosedTyped DEF ScanWhole
<1>4. Honest
  BY <1>1, ClosedTyped, NoBlobAssumption
     DEF Init, Honest, BlobHonest, MapsCurrent, StampHonest, RightIndexes, RightIndex
<1>5. QED
  BY <1>2, <1>3, <1>4 DEF IInv

(* Every action but Replace and ClearCache changes one table at most. *)
LEMMA NextIInv == IInv /\ [Next]_vars => IInv'
<1> SUFFICES ASSUME IInv, [Next]_vars PROVE IInv'
  OBVIOUS
<1> USE ChunksAssumption DEF IInv
<1>1. ASSUME NEW t \in Tables, Open(t) PROVE IInv'
  <2>1. PICK d \in Dialects : table' = [table EXCEPT ![t] = Fresh(file, d)]
    BY <1>1 DEF Open
  <2>2. Fresh(file, d) \in Table
    BY FreshTyped DEF TypeOK
  <2>3. TypeOK'
    BY <1>1, <2>1, <2>2 DEF Open, TypeOK
  <2>4. ScanWhole'
    BY <2>1 DEF TypeOK, ScanWhole, Fresh
  <2>5. (~raced => Honest)'
    BY <1>1, <2>1 DEF Open, TypeOK, Honest, BlobHonest, MapsCurrent, StampHonest,
       RightIndexes, RightIndex, Fresh
  <2>6. QED
    BY <2>3, <2>4, <2>5
<1>2. ASSUME NEW t \in Tables, TakeLoadStamp(t) PROVE IInv'
  <2>1. TypeOK'
    <3> DEFINE r == [table[t] EXCEPT !.pc = "stamped", !.stamp = file]
    <3>1. r \in Table
      BY DEF TypeOK, Table, Pc
    <3>2. table' = [table EXCEPT ![t] = r]
      BY <1>2 DEF TakeLoadStamp, TypeOK, Table
    <3>3. QED
      BY <1>2, <3>1, <3>2 DEF TakeLoadStamp, TypeOK
  <2>2. ScanWhole'
    BY <1>2 DEF TakeLoadStamp, TypeOK, Table, ScanWhole
  <2>3. (~raced => Honest)'
    BY <1>2 DEF TakeLoadStamp, TypeOK, Table, Honest, BlobHonest, MapsCurrent,
       StampHonest, RightIndexes, RightIndex
  <2>4. QED
    BY <2>1, <2>2, <2>3
<1>3. ASSUME NEW t \in Tables, LoadIndex(t) PROVE IInv'
  <2> DEFINE r == [table[t] EXCEPT !.pc = "ready", !.frontier = blob.index.rows,
                                   !.slot = blob.index]
  <2>1. blob \in Blob /\ blob.index \in Index /\ blob.index.rows \in 0 .. Chunks
    BY <1>3 DEF LoadIndex, Usable, Blob, Index
  <2>2. table' = [table EXCEPT ![t] = r]
    BY <1>3 DEF LoadIndex, TypeOK, Table
  <2>3. TypeOK'
    <3>1. r \in Table
      BY <2>1 DEF TypeOK, Table, Pc
    <3>2. QED
      BY <1>3, <2>2, <3>1 DEF LoadIndex, TypeOK
  <2>4. /\ r.pc = "ready" /\ r.slot = blob.index
        /\ r.mapped = table[t].mapped /\ r.dialect = table[t].dialect
    BY DEF TypeOK, Table
  <2> HIDE DEF r
  <2>5. ScanWhole'
    BY <2>2, <2>4 DEF TypeOK, ScanWhole
  <2>6. (~raced => Honest)'
    <3> SUFFICES ASSUME ~raced PROVE Honest'
      BY <1>3 DEF LoadIndex
    <3>1. blob.index = Whole(table[t].mapped, table[t].dialect)
      BY <1>3, <2>1 DEF LoadIndex, Usable, Honest, BlobHonest, StampHonest
    <3>2. RightIndexes'
      BY <2>2, <2>4, <3>1 DEF TypeOK, Honest, RightIndexes, RightIndex, Whole
    <3>3. (BlobHonest /\ MapsCurrent /\ StampHonest)'
      BY <1>3, <2>2, <2>4 DEF LoadIndex, TypeOK, Honest, BlobHonest, MapsCurrent, StampHonest
    <3>4. QED
      BY <3>2, <3>3 DEF Honest
  <2>7. QED
    BY <2>3, <2>5, <2>6
<1>4. ASSUME NEW t \in Tables, SpawnBuild(t) PROVE IInv'
  <2>1. TypeOK'
    BY <1>4 DEF SpawnBuild, TypeOK, Table, Pc, Building
  <2>2. ScanWhole'
    BY <1>4 DEF SpawnBuild, TypeOK, Table, ScanWhole
  <2>3. (~raced => Honest)'
    BY <1>4 DEF SpawnBuild, TypeOK, Table, Honest, BlobHonest, MapsCurrent,
       StampHonest, RightIndexes, RightIndex
  <2>4. QED
    BY <2>1, <2>2, <2>3
<1>5. ASSUME NEW t \in Tables, ScanChunk(t) PROVE IInv'
  <2>1. table[t].frontier + 1 \in 0 .. Chunks
    BY <1>5 DEF ScanChunk, TypeOK, Table, ScanWhole
  <2>2. TypeOK'
    <3> DEFINE pc == IF table[t].frontier + 1 = Chunks THEN "built" ELSE "scan"
               r == [table[t] EXCEPT !.frontier = @ + 1, !.pc = pc]
    <3>1. pc \in Pc
      BY DEF Pc, Building
    <3>2. r \in Table
      BY <2>1, <3>1 DEF TypeOK, Table
    <3>3. table' = [table EXCEPT ![t] = r]
      BY <1>5 DEF ScanChunk, TypeOK, Table
    <3>4. QED
      BY <1>5, <3>2, <3>3 DEF ScanChunk, TypeOK
  <2>3. ScanWhole'
    BY <1>5, <2>1 DEF ScanChunk, TypeOK, Table, ScanWhole
  <2>4. (~raced => Honest)'
    BY <1>5 DEF ScanChunk, TypeOK, Table, Honest, BlobHonest, MapsCurrent,
       StampHonest, RightIndexes, RightIndex
  <2>5. QED
    BY <2>2, <2>3, <2>4
<1>6. ASSUME NEW t \in Tables, table' = [table EXCEPT ![t] = Closed],
             UNCHANGED <<file, blob, raced>>
      PROVE  IInv'
  <2>1. TypeOK'
    BY <1>6, ClosedTyped DEF TypeOK
  <2>2. ScanWhole'
    BY <1>6, ClosedTyped DEF TypeOK, ScanWhole
  <2>3. (~raced => Honest)'
    BY <1>6, ClosedTyped DEF TypeOK, Honest, BlobHonest, MapsCurrent,
       StampHonest, RightIndexes, RightIndex
  <2>4. QED
    BY <2>1, <2>2, <2>3
<1>7. ASSUME NEW t \in Tables, TakeSaveStamp(t) PROVE IInv'
  <2>1. TypeOK'
    <3> DEFINE r == [table[t] EXCEPT !.pc = "save", !.stamp = file]
    <3>1. r \in Table
      BY DEF TypeOK, Table, Pc, Building
    <3>2. table' = [table EXCEPT ![t] = r]
      BY <1>7 DEF TakeSaveStamp, TypeOK, Table
    <3>3. QED
      BY <1>7, <3>1, <3>2 DEF TakeSaveStamp, TypeOK
  <2>2. ScanWhole'
    BY <1>7 DEF TakeSaveStamp, TypeOK, Table, ScanWhole
  <2>3. (~raced => Honest)'
    BY <1>7 DEF TakeSaveStamp, TypeOK, Table, Honest, BlobHonest, MapsCurrent,
       StampHonest, RightIndexes, RightIndex
  <2>4. QED
    BY <2>1, <2>2, <2>3
<1>8. ASSUME NEW t \in Tables, TruncateBlob(t) PROVE IInv'
  <2>1. TypeOK'
    BY <1>8 DEF TruncateBlob, TypeOK, Table, Pc, Building
  <2>2. ScanWhole'
    BY <1>8 DEF TruncateBlob, TypeOK, Table, ScanWhole
  <2>3. (~raced => Honest)'
    BY <1>8, NoBlobAssumption DEF TruncateBlob, TypeOK, Table, Honest, BlobHonest,
       MapsCurrent, StampHonest, RightIndexes, RightIndex
  <2>4. QED
    BY <2>1, <2>2, <2>3
<1>9. ASSUME NEW t \in Tables, WriteBlob(t) PROVE IInv'
  <2>1. BuiltIndex(t) \in Index /\ BuiltIndex(t) = Whole(table[t].mapped, table[t].dialect)
    BY <1>9 DEF WriteBlob, TypeOK, Table, BuiltIndex, Index, Whole, ScanWhole
  <2>2. blob' \in Blob
    BY <1>9, <2>1 DEF WriteBlob, TypeOK, Table, Blob
  <2>3. TypeOK'
    BY <1>9, <2>2 DEF WriteBlob, TypeOK, Table, Pc, Building
  <2>4. ScanWhole'
    BY <1>9 DEF WriteBlob, TypeOK, Table, ScanWhole
  <2>5. (~raced => Honest)'
    <3> SUFFICES ASSUME ~raced PROVE Honest'
      BY <1>9 DEF WriteBlob
    <3>1. BlobHonest'
      BY <1>9, <2>1 DEF WriteBlob, Honest, StampHonest, BlobHonest, Whole
    <3>2. (MapsCurrent /\ StampHonest /\ RightIndexes)'
      BY <1>9 DEF WriteBlob, TypeOK, Table, Honest, MapsCurrent, StampHonest,
         RightIndexes, RightIndex
    <3>3. QED
      BY <3>1, <3>2 DEF Honest
  <2>6. QED
    BY <2>3, <2>4, <2>5
<1>10. ASSUME NEW t \in Tables, SaveFails(t) PROVE IInv'
  <2>1. TypeOK'
    BY <1>10 DEF SaveFails, TypeOK, Table, Pc, Building
  <2>2. ScanWhole'
    BY <1>10 DEF SaveFails, TypeOK, Table, ScanWhole
  <2>3. (~raced => Honest)'
    BY <1>10 DEF SaveFails, TypeOK, Table, Honest, BlobHonest, MapsCurrent,
       StampHonest, RightIndexes, RightIndex
  <2>4. QED
    BY <2>1, <2>2, <2>3
<1>11. ASSUME NEW t \in Tables, Publish(t) PROVE IInv'
  <2>1. CASE table[t].cancelled
    BY <1>6, <1>11, <2>1 DEF Publish
  <2>2. CASE ~table[t].cancelled
    <3> DEFINE r == [table[t] EXCEPT !.pc = "ready", !.slot = BuiltIndex(t)]
    <3>1. table' = [table EXCEPT ![t] = r]
      BY <1>11, <2>2 DEF Publish, TypeOK, Table
    <3>2. BuiltIndex(t) \in Index /\ BuiltIndex(t) = Whole(table[t].mapped, table[t].dialect)
      BY <1>11 DEF Publish, TypeOK, Table, BuiltIndex, Index, Whole, ScanWhole
    <3>3. TypeOK'
      <4>1. r \in Table
        BY <3>2 DEF TypeOK, Table, Pc
      <4>2. QED
        BY <1>11, <3>1, <4>1 DEF Publish, TypeOK
    <3> HIDE DEF r
    <3>4. /\ r.pc = "ready" /\ r.slot = Whole(table[t].mapped, table[t].dialect)
          /\ r.mapped = table[t].mapped /\ r.dialect = table[t].dialect
      BY <3>2 DEF r, TypeOK, Table
    <3>5. ScanWhole'
      BY <3>1, <3>4 DEF TypeOK, ScanWhole
    <3>6. (~raced => Honest)'
      <4>1. (~raced => RightIndexes)'
        BY <1>11, <3>1, <3>4 DEF Publish, TypeOK, Honest, RightIndexes, RightIndex, Whole
      <4>2. (~raced => BlobHonest)'
        BY <1>11 DEF Publish, Honest, BlobHonest
      <4>3. (~raced => MapsCurrent /\ StampHonest)'
        BY <1>11, <3>1, <3>4 DEF Publish, TypeOK, Honest, MapsCurrent, StampHonest
      <4>4. QED
        BY <4>1, <4>2, <4>3 DEF Honest
    <3>7. QED
      BY <3>3, <3>5, <3>6
  <2>3. QED
    BY <2>1, <2>2
<1>12. ASSUME NEW t \in Tables, Drop(t) PROVE IInv'
  <2>1. CASE table' = [table EXCEPT ![t] = Closed]
    BY <1>6, <1>12, <2>1 DEF Drop
  <2>2. CASE table' = [table EXCEPT ![t].cancelled = TRUE]
    <3>1. TypeOK'
      BY <1>12, <2>2 DEF Drop, TypeOK, Table
    <3>2. ScanWhole'
      BY <2>2 DEF TypeOK, Table, ScanWhole
    <3>3. (~raced => Honest)'
      BY <1>12, <2>2 DEF Drop, TypeOK, Table, Honest, BlobHonest, MapsCurrent,
         StampHonest, RightIndexes, RightIndex
    <3>4. QED
      BY <3>1, <3>2, <3>3
  <2>3. QED
    BY <1>12, <2>1, <2>2 DEF Drop
<1>13. CASE ClearCache
  <2>1. TypeOK'
    BY <1>13 DEF ClearCache, TypeOK, Table, Pc, Building
  <2>2. ScanWhole'
    BY <1>13 DEF ClearCache, TypeOK, Table, ScanWhole
  <2>3. (~raced => Honest)'
    BY <1>13, NoBlobAssumption DEF ClearCache, TypeOK, Table, Honest, BlobHonest,
       MapsCurrent, StampHonest, RightIndexes, RightIndex
  <2>4. QED
    BY <2>1, <2>2, <2>3
<1>14. CASE Replace
  <2>1. file' \in Versions /\ UNCHANGED <<blob, table>>
    BY <1>14 DEF Replace
  <2>2. TypeOK'
    BY <1>14, <2>1 DEF Replace, TypeOK
  <2>3. ScanWhole'
    BY <2>1 DEF ScanWhole
  <2>4. (~raced => Honest)'
    BY <1>14, <2>1 DEF Replace, Honest, BlobHonest, MapsCurrent, StampHonest,
       RightIndexes, RightIndex
  <2>5. QED
    BY <2>2, <2>3, <2>4
<1>15. CASE UNCHANGED vars
  BY <1>15 DEF vars, TypeOK, ScanWhole, Honest, BlobHonest, MapsCurrent,
     StampHonest, RightIndexes, RightIndex
<1>16. ASSUME NEW t \in Tables, ScanCancelled(t) \/ Kill(t) PROVE IInv'
  BY <1>6, <1>16 DEF ScanCancelled, Kill
<1>17. QED
  BY <1>1, <1>2, <1>3, <1>4, <1>5, <1>7, <1>8, <1>9, <1>10, <1>11, <1>12, <1>13,
     <1>14, <1>15, <1>16 DEF Next, TableStep

THEOREM InvariantHolds == Spec => []IInv
<1>1. Init => IInv
  BY InitIInv
<1>2. IInv /\ [Next]_vars => IInv'
  BY NextIInv
<1>3. QED
  BY <1>1, <1>2, PTL DEF Spec

(* Every variable keeps its type, whatever the tables, the file and the     *)
(* cache do.                                                                *)
THEOREM TypeCorrect == Spec => []TypeOK
<1>1. IInv => TypeOK
  BY DEF IInv
<1>2. QED
  BY <1>1, InvariantHolds, PTL

(* Without a race between a table's mmap and its last fingerprint, no table *)
(* resolves rows with an index of other bytes, of another dialect, or of    *)
(* part of the file: the guarantee behind cache.rs's strict validation.     *)
THEOREM CacheNeverMisleads == Spec => []NoRaceRightIndex
<1>1. IInv => NoRaceRightIndex
  BY DEF IInv, Honest, RightIndexes, NoRaceRightIndex
<1>2. QED
  BY <1>1, InvariantHolds, PTL
===============================================================================
