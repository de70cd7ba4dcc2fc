--------------------------- MODULE CacheFetchProofs ---------------------------
(***************************************************************************)
(* Proofs about CacheFetch for any source, any number of versions and any  *)
(* length: its type invariant for any number of processes, and for one     *)
(* process that only whole files get the name of a destination and that    *)
(* they are never written to again.                                        *)
(***************************************************************************)
EXTENDS CacheFetch, TLAPS

OneInstance == \A p, q \in Processes : p = q

Early == {"idle", "named", "create"}

(* A destination shares its inode with no .partial file ... *)
DestApart ==
  \A v, w \in Versions : dest[v] # NoFile => partial[w] # dest[v]

(* ... and no two .partial files share one ... *)
PartialsApart ==
  \A v, w \in Versions : partial[v] # NoFile /\ partial[v] = partial[w] => v = w

(* ... and no destination is open. *)
OpenApart ==
  \A p \in Processes, v \in Versions : dest[v] # NoFile => fetch[p].file # dest[v]

(* A fetch has its file open from its creation on, and the file holds       *)
(* exactly what the fetch has written.                                      *)
FileIsWritten ==
  \A p \in Processes :
    /\ fetch[p].pc \in Early => fetch[p].file = NoFile
    /\ fetch[p].pc \notin Early =>
         /\ fetch[p].file \in Inodes
         /\ content[fetch[p].file] =
              [k \in 1 .. Chunks |-> IF k <= fetch[p].written
                                       THEN fetch[p].reading ELSE Hole]
    /\ fetch[p].pc \in Early \cup {"get"} => fetch[p].written = 0
    /\ fetch[p].pc = "rename" => fetch[p].written = Chunks

(* The .partial file is the open one, unless the cache was cleared. *)
PartialIsOpen ==
  \A p \in Processes :
    fetch[p].pc \notin Early =>
      partial[fetch[p].identity] \in {NoFile, fetch[p].file}

IInv ==
  /\ TypeOK
  /\ DestWhole
  /\ DestApart
  /\ PartialsApart
  /\ OpenApart
  /\ FileIsWritten
  /\ PartialIsOpen

------------------------------------------------------------------------------
LEMMA EmptyContent == Empty \in Content
BY DEF Empty, Content

LEMMA NoFetchTyped == NoFetch \in Fetch /\ NoFetch.written <= NoFetch.read
BY MaxVersionsAssumption, ChunksAssumption DEF NoFetch, Fetch, Pc, Versions

LEMMA SpilledTyped ==
  ASSUME TypeOK, NEW p \in Processes, NEW w \in Nat
  PROVE  Spilled(p, w) \in [Inodes -> Content]
<1>1. CASE fetch[p].file \in Inodes
  <2>1. fetch[p].reading \in Versions \cup {Hole}
    BY DEF TypeOK, Fetch
  <2>2. [k \in 1 .. Chunks |-> IF k \in fetch[p].written + 1 .. w
           THEN fetch[p].reading ELSE content[fetch[p].file][k]] \in Content
    BY <1>1, <2>1 DEF TypeOK, Content
  <2>3. QED
    BY <2>2 DEF Spilled, TypeOK
<1>2. CASE fetch[p].file \notin Inodes
  BY <1>2 DEF Spilled, TypeOK
<1>3. QED
  BY <1>1, <1>2

LEMMA InitTypeOK == Init => TypeOK
<1> SUFFICES ASSUME Init PROVE TypeOK
  OBVIOUS
<1>1. 1 \in Versions
  BY MaxVersionsAssumption DEF Versions
<1>2. /\ content \in [Inodes -> Content]
      /\ dest \in [Versions -> Inodes \cup {NoFile}]
      /\ partial \in [Versions -> Inodes \cup {NoFile}]
  BY EmptyContent DEF Init
<1>3. /\ fetch \in [Processes -> Fetch]
      /\ \A p \in Processes : fetch[p].written <= fetch[p].read
  BY NoFetchTyped DEF Init
<1>4. QED
  BY <1>1, <1>2, <1>3 DEF Init, TypeOK

LEMMA FetchTyped ==
  ASSUME TypeOK, NEW p \in Processes, NEW f \in Fetch, f.written <= f.read,
         fetch' = [fetch EXCEPT ![p] = f]
  PROVE  /\ fetch' \in [Processes -> Fetch]
         /\ \A q \in Processes : fetch'[q].written <= fetch'[q].read
BY DEF TypeOK

LEMMA NextTypeOK == TypeOK /\ [Next]_vars => TypeOK'
<1> SUFFICES ASSUME TypeOK, [Next]_vars PROVE TypeOK'
  OBVIOUS
<1> USE DEF TypeOK, origin, names
<1>1. ASSUME NEW p \in Processes, Return(p), UNCHANGED origin,
             dest' \in [Versions -> Inodes \cup {NoFile}],
             partial' \in [Versions -> Inodes \cup {NoFile}],
             content' \in [Inodes -> Content]
      PROVE  TypeOK'
  BY <1>1, NoFetchTyped DEF Return
<1>2. ASSUME NEW p \in Processes, Head(p) \/ NotThere(p) \/ Get(p) \/ Cancel(p)
      PROVE  TypeOK'
  <2>1. PICK f : fetch' = [fetch EXCEPT ![p] = f] /\ f \in Fetch /\ f.written <= f.read
    <3>1. fetch[p] \in Fetch /\ fetch[p].written <= fetch[p].read /\ source \in Versions
      OBVIOUS
    <3>2. CASE Head(p)
      <4>1. DEFINE f == [fetch[p] EXCEPT !.pc = "named", !.identity = source]
      <4>2. fetch' = [fetch EXCEPT ![p] = f] /\ f \in Fetch /\ f.written <= f.read
        BY <3>1, <3>2 DEF Head, Fetch, Pc
      <4>3. QED
        BY <4>2
    <3>3. CASE NotThere(p)
      <4>1. PICK v : v = IF Gzip THEN source ELSE fetch[p].reading
        OBVIOUS
      <4>2. v \in Versions
        BY <3>1, <4>1 DEF Fetch
      <4>3. DEFINE f == [fetch[p] EXCEPT !.pc = "create", !.reading = v]
      <4>4. fetch' = [fetch EXCEPT ![p] = f] /\ f \in Fetch /\ f.written <= f.read
        BY <3>1, <3>3, <4>1, <4>2 DEF NotThere, Fetch, Pc
      <4>5. QED
        BY <4>4
    <3>4. CASE Get(p)
      <4>1. DEFINE f == [fetch[p] EXCEPT !.pc = "stream", !.reading = source]
      <4>2. fetch' = [fetch EXCEPT ![p] = f] /\ f \in Fetch /\ f.written <= f.read
        BY <3>1, <3>4 DEF Get, Fetch, Pc
      <4>3. QED
        BY <4>2
    <3>5. CASE Cancel(p)
      <4>1. DEFINE f == [fetch[p] EXCEPT !.cancelled = TRUE]
      <4>2. fetch' = [fetch EXCEPT ![p] = f] /\ f \in Fetch /\ f.written <= f.read
        BY <3>1, <3>5 DEF Cancel, Fetch
      <4>3. QED
        BY <4>2
    <3>6. QED
      BY <1>2, <3>2, <3>3, <3>4, <3>5
  <2>2. QED
    BY <1>2, <2>1, FetchTyped DEF Head, NotThere, Get, Cancel
<1>3. ASSUME NEW p \in Processes, Reuse(p) \/ Kill(p) \/ SeeCancelled(p) \/ Rename(p)
      PROVE  TypeOK'
  <2>1. fetch[p].identity \in Versions
    BY DEF Fetch
  <2>2. QED
    BY <1>1, <1>3, <2>1 DEF Reuse, Kill, SeeCancelled, Rename
<1>4. ASSUME NEW p \in Processes, CreatePartial(p) PROVE TypeOK'
  <2>1. PICK i \in Inodes :
          /\ partial' = [partial EXCEPT ![fetch[p].identity] = i]
          /\ content' = [content EXCEPT ![i] = Empty]
          /\ fetch' = [fetch EXCEPT ![p].pc = IF Gzip THEN "stream" ELSE "get",
                                    ![p].file = i]
    BY <1>4 DEF CreatePartial
  <2> PICK to \in Pc : to = IF Gzip THEN "stream" ELSE "get"
    BY DEF Pc
  <2> DEFINE f == [fetch[p] EXCEPT !.pc = to, !.file = i]
  <2>2. fetch' = [fetch EXCEPT ![p] = f] /\ f \in Fetch /\ f.written <= f.read
    BY <2>1 DEF Fetch
  <2>3. QED
    <3>1. /\ partial' \in [Versions -> Inodes \cup {NoFile}]
          /\ content' \in [Inodes -> Content]
      BY <2>1, EmptyContent
    <3>2. UNCHANGED <<origin, dest>>
      BY <1>4 DEF CreatePartial
    <3>3. /\ fetch' \in [Processes -> Fetch]
          /\ \A q \in Processes : fetch'[q].written <= fetch'[q].read
      BY <2>2, FetchTyped
    <3>4. QED
      BY <3>1, <3>2, <3>3
<1>5. ASSUME NEW p \in Processes, Chunk(p) PROVE TypeOK'
  <2>1. PICK w \in fetch[p].written .. fetch[p].read + 1 :
          /\ content' = Spilled(p, w)
          /\ fetch' = [fetch EXCEPT ![p].read = @ + 1, ![p].written = w]
    BY <1>5 DEF Chunk
  <2>2. /\ fetch[p].written \in 0 .. Chunks
        /\ fetch[p].read \in 0 .. Chunks /\ fetch[p].read < Chunks
    BY <1>5 DEF Chunk, Fetch
  <2>3. w \in 0 .. Chunks /\ fetch[p].read + 1 \in 0 .. Chunks /\ w <= fetch[p].read + 1
    BY <2>2, ChunksAssumption
  <2>4. fetch' \in [Processes -> Fetch] /\ \A q \in Processes : fetch'[q].written <= fetch'[q].read
    <3> DEFINE f == [fetch[p] EXCEPT !.read = @ + 1, !.written = w]
    <3>1. f \in Fetch /\ f.written = w /\ f.read = fetch[p].read + 1
      BY <2>3 DEF Fetch
    <3>2. fetch' = [fetch EXCEPT ![p] = f]
      BY <2>1
    <3>3. QED
      BY <2>3, <3>1, <3>2, FetchTyped
  <2>5. content' \in [Inodes -> Content]
    BY <2>1, <2>3, SpilledTyped
  <2>6. QED
    BY <1>5, <2>4, <2>5 DEF Chunk
<1>6. ASSUME NEW p \in Processes, EndOfStream(p) PROVE TypeOK'
  <2>1. content' \in [Inodes -> Content]
    BY <1>6, ChunksAssumption, SpilledTyped DEF EndOfStream
  <2>2. Chunks \in 0 .. Chunks
    BY ChunksAssumption
  <2> DEFINE f == [fetch[p] EXCEPT !.pc = "rename", !.written = Chunks]
  <2>3. fetch' = [fetch EXCEPT ![p] = f] /\ f \in Fetch /\ f.written <= f.read
    <3>1. fetch[p] \in Fetch /\ fetch[p].read = Chunks
      BY <1>6 DEF EndOfStream
    <3>2. f \in Fetch /\ f.written = Chunks /\ f.read = Chunks
      BY <2>2, <3>1 DEF Fetch, Pc
    <3>3. fetch' = [fetch EXCEPT ![p] = f]
      BY <1>6 DEF EndOfStream
    <3>4. QED
      BY <3>2, <3>3, ChunksAssumption
  <2>4. QED
    BY <1>6, <2>1, <2>3, FetchTyped DEF EndOfStream
<1>7. ASSUME NEW p \in Processes, Fail(p) PROVE TypeOK'
  <2>1. fetch[p].written \in Nat /\ fetch[p].read \in Nat
    BY ChunksAssumption DEF Fetch
  <2>2. content' \in [Inodes -> Content]
    BY <1>7, <2>1, SpilledTyped DEF Fail
  <2>3. QED
    BY <1>1, <1>7, <2>2 DEF Fail
<1>8. CASE ClearCache
  BY <1>8 DEF ClearCache
<1>9. CASE Replace
  BY <1>9 DEF Replace
<1>10. CASE UNCHANGED vars
  BY <1>10 DEF vars
<1>11. QED
  BY <1>2, <1>3, <1>4, <1>5, <1>6, <1>7, <1>8, <1>9, <1>10 DEF Next, Step

------------------------------------------------------------------------------
(* One process. *)

LEMMA InitIInv == Init => IInv
<1> SUFFICES ASSUME Init PROVE IInv
  OBVIOUS
<1>1. TypeOK
  BY InitTypeOK
<1>2. DestWhole /\ DestApart /\ PartialsApart /\ OpenApart
  BY DEF Init, DestWhole, DestApart, PartialsApart, OpenApart
<1>3. \A p \in Processes : fetch[p].pc = "idle" /\ fetch[p].file = NoFile /\ fetch[p].written = 0
  BY DEF Init, NoFetch
<1>4. FileIsWritten /\ PartialIsOpen
  BY <1>3 DEF FileIsWritten, PartialIsOpen, Early
<1>5. QED
  BY <1>1, <1>2, <1>4 DEF IInv

(* Writing out of the buffer extends the open file and touches no other.    *)
LEMMA SpillExtends ==
  ASSUME IInv, NEW p \in Processes, fetch[p].pc \notin Early,
         NEW w \in Nat, fetch[p].written <= w
  PROVE  /\ Spilled(p, w)[fetch[p].file] =
              [k \in 1 .. Chunks |-> IF k <= w THEN fetch[p].reading ELSE Hole]
         /\ \A i \in Inodes : i # fetch[p].file => Spilled(p, w)[i] = content[i]
         /\ \A v \in Versions : dest[v] # NoFile =>
              Spilled(p, w)[dest[v]] = content[dest[v]]
<1> DEFINE f == fetch[p]
<1>1. /\ f.file \in Inodes
      /\ content[f.file] =
           [k \in 1 .. Chunks |-> IF k <= f.written THEN f.reading ELSE Hole]
  BY DEF IInv, FileIsWritten
<1>2. f.written \in Nat
  BY ChunksAssumption DEF IInv, TypeOK, Fetch
<1>3. Spilled(p, w) =
        [content EXCEPT ![f.file] =
          [k \in 1 .. Chunks |-> IF k \in f.written + 1 .. w
                                   THEN f.reading ELSE content[f.file][k]]]
  BY DEF Spilled
<1>4. ASSUME NEW k \in 1 .. Chunks
      PROVE  (IF k \in f.written + 1 .. w THEN f.reading ELSE content[f.file][k])
               = (IF k <= w THEN f.reading ELSE Hole)
  <2>1. content[f.file][k] = IF k <= f.written THEN f.reading ELSE Hole
    BY <1>1
  <2>2. k \in f.written + 1 .. w <=> k > f.written /\ k <= w
    BY <1>2, ChunksAssumption
  <2>3. QED
    BY <1>2, <2>1, <2>2, ChunksAssumption
<1>5. \A i \in Inodes : i # f.file => Spilled(p, w)[i] = content[i]
  BY <1>1, <1>3 DEF IInv, TypeOK
<1>6. Spilled(p, w)[f.file] = [k \in 1 .. Chunks |-> IF k <= w THEN f.reading ELSE Hole]
  <2>1. Spilled(p, w)[f.file] =
          [k \in 1 .. Chunks |-> IF k \in f.written + 1 .. w
                                   THEN f.reading ELSE content[f.file][k]]
    BY <1>1, <1>3 DEF IInv, TypeOK
  <2>2. [k \in 1 .. Chunks |-> IF k \in f.written + 1 .. w
                                 THEN f.reading ELSE content[f.file][k]]
          = [k \in 1 .. Chunks |-> IF k <= w THEN f.reading ELSE Hole]
    BY <1>4
  <2>3. QED
    BY <2>1, <2>2
<1>7. \A v \in Versions : dest[v] # NoFile => dest[v] \in Inodes /\ dest[v] # f.file
  BY DEF IInv, TypeOK, OpenApart
<1>8. QED
  BY <1>5, <1>6, <1>7

(* The fetch of the one process returns. *)
LEMMA ReturnStep ==
  ASSUME OneInstance, IInv, TypeOK', NEW p \in Processes, Return(p),
         DestWhole', DestApart', PartialsApart'
  PROVE  IInv'
<1>1. \A q \in Processes : fetch'[q] = NoFetch
  BY DEF OneInstance, Return, IInv, TypeOK
<1>2. \A q \in Processes : fetch'[q].pc = "idle" /\ fetch'[q].file = NoFile /\ fetch'[q].written = 0
  BY <1>1 DEF NoFetch
<1>3. OpenApart'
  BY <1>2 DEF OpenApart
<1>4. FileIsWritten' /\ PartialIsOpen'
  BY <1>2 DEF FileIsWritten, PartialIsOpen, Early
<1>5. QED
  BY <1>3, <1>4 DEF IInv

LEMMA RenameStep ==
  ASSUME OneInstance, IInv, TypeOK', NEW p \in Processes, Rename(p)
  PROVE  IInv'
<1> DEFINE v == fetch[p].identity
           i == fetch[p].file
           whole == [k \in 1 .. Chunks |-> fetch[p].reading]
<1>1. fetch[p].pc = "rename" /\ v \in Versions /\ fetch[p].reading \in Versions
  BY DEF Rename, At, IInv, TypeOK, Fetch
<1>2. /\ i \in Inodes /\ fetch[p].written = Chunks
      /\ content[i] = [k \in 1 .. Chunks |-> IF k <= fetch[p].written
                                               THEN fetch[p].reading ELSE Hole]
      /\ partial[v] = i
  BY <1>1 DEF IInv, FileIsWritten, PartialIsOpen, Early, Rename
<1>3. content[i] = whole
  BY <1>2, ChunksAssumption
<1>4. /\ dest' = [dest EXCEPT ![v] = i]
      /\ partial' = [partial EXCEPT ![v] = NoFile]
      /\ content' = content
  BY <1>2 DEF Rename
<1> HIDE DEF v, i
<1>5. DestWhole'
  <2> SUFFICES ASSUME NEW u \in Versions, dest'[u] # NoFile
               PROVE  \E w \in Versions : content'[dest'[u]] = [k \in 1 .. Chunks |-> w]
    BY DEF DestWhole
  <2>1. CASE u = v
    BY <1>1, <1>3, <1>4, <2>1 DEF IInv, TypeOK
  <2>2. CASE u # v
    BY <1>4, <2>2 DEF IInv, TypeOK, DestWhole
  <2>3. QED
    BY <2>1, <2>2
<1>6. DestApart'
  BY <1>1, <1>2, <1>4, NoFileAssumption DEF IInv, TypeOK, DestApart, PartialsApart
<1>7. PartialsApart'
  BY <1>1, <1>4 DEF IInv, TypeOK, PartialsApart
<1>8. QED
  BY <1>5, <1>6, <1>7, ReturnStep DEF Rename

(* A step of the one process that keeps its file open, if it is. *)
LEMMA WorkStep ==
  ASSUME OneInstance, IInv, TypeOK', NEW p \in Processes, NEW f \in Fetch,
         fetch' = [fetch EXCEPT ![p] = f], UNCHANGED names,
         f.identity = fetch[p].identity \/ f.pc \in Early,
         f.file = fetch[p].file,
         f.pc \in Early <=> fetch[p].pc \in Early,
         f.pc \in Early \cup {"get"} => f.written = 0,
         f.pc = "rename" => f.written = Chunks,
         f.pc \notin Early => content'[f.file] =
           [k \in 1 .. Chunks |-> IF k <= f.written THEN f.reading ELSE Hole],
         \A v \in Versions : dest[v] # NoFile => content'[dest[v]] = content[dest[v]]
  PROVE  IInv'
<1>1. \A q \in Processes : q = p /\ fetch'[q] = f
  BY DEF OneInstance, IInv, TypeOK
<1>2. dest' = dest /\ partial' = partial
  BY DEF names
<1>3. DestWhole'
  BY <1>2 DEF IInv, DestWhole
<1>4. DestApart' /\ PartialsApart'
  BY <1>2 DEF IInv, DestApart, PartialsApart
<1>5. OpenApart'
  BY <1>1, <1>2 DEF IInv, OpenApart
<1>6. FileIsWritten'
  BY <1>1 DEF IInv, FileIsWritten
<1>7. PartialIsOpen'
  BY <1>1, <1>2 DEF IInv, PartialIsOpen
<1>8. QED
  BY <1>3, <1>4, <1>5, <1>6, <1>7 DEF IInv

LEMMA QuietSteps ==
  ASSUME OneInstance, IInv, TypeOK', NEW p \in Processes,
         Head(p) \/ NotThere(p) \/ Get(p) \/ Cancel(p)
  PROVE  IInv'
<1>1. fetch[p] \in Fetch /\ source \in Versions
  BY DEF IInv, TypeOK
<1>2. /\ fetch[p].pc \in Early => fetch[p].file = NoFile
      /\ fetch[p].pc \in Early \cup {"get"} => fetch[p].written = 0
      /\ fetch[p].pc = "rename" => fetch[p].written = Chunks
      /\ fetch[p].pc \notin Early => content[fetch[p].file] =
           [k \in 1 .. Chunks |-> IF k <= fetch[p].written
                                    THEN fetch[p].reading ELSE Hole]
  BY DEF IInv, FileIsWritten
<1>3. CASE Head(p)
  <2> DEFINE f == [fetch[p] EXCEPT !.pc = "named", !.identity = source]
  <2>1. /\ f \in Fetch /\ f.pc = "named" /\ f.file = fetch[p].file
        /\ f.written = fetch[p].written
    BY <1>1 DEF Fetch, Pc
  <2>2. /\ fetch' = [fetch EXCEPT ![p] = f] /\ UNCHANGED <<names, content>>
        /\ fetch[p].pc = "idle"
    BY <1>3 DEF Head, At
  <2> HIDE DEF f
  <2>3. QED
    BY <1>2, <2>1, <2>2, WorkStep DEF Early
<1>4. CASE NotThere(p)
  <2> PICK v : v = IF Gzip THEN source ELSE fetch[p].reading
    OBVIOUS
  <2> DEFINE f == [fetch[p] EXCEPT !.pc = "create", !.reading = v]
  <2>1. /\ f \in Fetch /\ f.pc = "create" /\ f.file = fetch[p].file
        /\ f.written = fetch[p].written
    BY <1>1 DEF Fetch, Pc
  <2>2. /\ fetch' = [fetch EXCEPT ![p] = f] /\ UNCHANGED <<names, content>>
        /\ fetch[p].pc = "named"
    BY <1>4 DEF NotThere, At
  <2> HIDE DEF f
  <2>3. QED
    BY <1>2, <2>1, <2>2, WorkStep DEF Early
<1>5. CASE Get(p)
  <2> DEFINE f == [fetch[p] EXCEPT !.pc = "stream", !.reading = source]
  <2>1. /\ f \in Fetch /\ f.pc = "stream" /\ f.file = fetch[p].file
        /\ f.written = fetch[p].written /\ f.identity = fetch[p].identity
    BY <1>1 DEF Fetch, Pc
  <2>2. /\ fetch' = [fetch EXCEPT ![p] = f] /\ UNCHANGED <<names, content>>
        /\ fetch[p].pc = "get"
    BY <1>5 DEF Get, At
  <2>3. fetch[p].written = 0
    BY <1>2, <2>2
  <2> HIDE DEF f
  <2>4. content[f.file] =
          [k \in 1 .. Chunks |-> IF k <= f.written THEN f.reading ELSE Hole]
    <3>1. content[f.file] = [k \in 1 .. Chunks |-> Hole]
      BY <1>2, <2>1, <2>2, <2>3, ChunksAssumption DEF Early
    <3>2. [k \in 1 .. Chunks |-> IF k <= f.written THEN f.reading ELSE Hole]
            = [k \in 1 .. Chunks |-> Hole]
      BY <2>1, <2>3, ChunksAssumption
    <3>3. QED
      BY <3>1, <3>2
  <2>5. QED
    BY <2>1, <2>2, <2>4, WorkStep DEF Early
<1>6. CASE Cancel(p)
  <2> DEFINE f == [fetch[p] EXCEPT !.cancelled = TRUE]
  <2>1. /\ f \in Fetch /\ f.pc = fetch[p].pc /\ f.file = fetch[p].file
        /\ f.written = fetch[p].written /\ f.reading = fetch[p].reading
        /\ f.identity = fetch[p].identity
    BY <1>1 DEF Fetch
  <2>2. fetch' = [fetch EXCEPT ![p] = f] /\ UNCHANGED <<names, content>>
    BY <1>6 DEF Cancel
  <2> HIDE DEF f
  <2>3. QED
    BY <1>2, <2>1, <2>2, WorkStep
<1>7. QED
  BY <1>3, <1>4, <1>5, <1>6

LEMMA CreateStep ==
  ASSUME OneInstance, IInv, TypeOK', NEW p \in Processes, CreatePartial(p)
  PROVE  IInv'
<1> DEFINE v == fetch[p].identity
<1>1. fetch[p] \in Fetch /\ v \in Versions /\ fetch[p].pc = "create"
  BY DEF CreatePartial, At, IInv, TypeOK, Fetch
<1>2. PICK i \in Inodes :
        /\ IF partial[v] = NoFile THEN Free(i) ELSE i = partial[v]
        /\ partial' = [partial EXCEPT ![v] = i]
        /\ content' = [content EXCEPT ![i] = Empty]
        /\ fetch' = [fetch EXCEPT ![p].pc = IF Gzip THEN "stream" ELSE "get",
                                  ![p].file = i]
  BY DEF CreatePartial
<1>3. dest' = dest
  BY DEF CreatePartial
<1>4. /\ \A w \in Versions : dest[w] # i
      /\ \A w \in Versions : partial[w] = i => w = v
  <2>1. CASE partial[v] = NoFile
    BY <1>2, <2>1 DEF Free
  <2>2. CASE partial[v] # NoFile
    BY <1>1, <1>2, <2>2, NoFileAssumption DEF IInv, DestApart, PartialsApart
  <2>3. QED
    BY <2>1, <2>2
<1>5. /\ fetch'[p].pc \in {"stream", "get"} /\ fetch'[p].file = i
      /\ fetch'[p].written = fetch[p].written /\ fetch'[p].reading = fetch[p].reading
      /\ fetch'[p].identity = v
  BY <1>1, <1>2 DEF IInv, TypeOK, Fetch
<1>6. fetch[p].written = 0
  BY <1>1 DEF IInv, FileIsWritten, Early
<1>7. content'[i] = Empty /\ \A j \in Inodes : j # i => content'[j] = content[j]
  BY <1>2 DEF IInv, TypeOK
<1>8. \A q \in Processes : q = p
  BY DEF OneInstance
<1>9. partial'[v] = i /\ \A w \in Versions : w # v => partial'[w] = partial[w]
  BY <1>1, <1>2 DEF IInv, TypeOK
<1> HIDE DEF v
<1>10. DestWhole'
  <2>1. \A w \in Versions : dest[w] # NoFile => content'[dest[w]] = content[dest[w]]
    BY <1>4, <1>7 DEF IInv, TypeOK
  <2>2. QED
    BY <1>3, <2>1 DEF IInv, DestWhole
<1>11. DestApart'
  BY <1>3, <1>4, <1>9 DEF IInv, DestApart
<1>12. PartialsApart'
  BY <1>4, <1>9 DEF IInv, PartialsApart
<1>13. OpenApart'
  BY <1>3, <1>4, <1>5, <1>8 DEF OpenApart
<1>14. FileIsWritten'
  <2>1. Empty = [k \in 1 .. Chunks |-> IF k <= 0 THEN fetch[p].reading ELSE Hole]
    BY ChunksAssumption DEF Empty
  <2>2. fetch'[p].pc \notin Early
    BY <1>5 DEF Early
  <2>3. fetch'[p].written = 0 /\ fetch'[p].pc # "rename"
    BY <1>5, <1>6
  <2>4. content'[fetch'[p].file] =
          [k \in 1 .. Chunks |-> IF k <= fetch'[p].written
                                   THEN fetch'[p].reading ELSE Hole]
    BY <1>5, <1>7, <2>1, <2>3
  <2>5. QED
    BY <1>5, <1>8, <2>2, <2>3, <2>4 DEF FileIsWritten
<1>15. PartialIsOpen'
  BY <1>5, <1>8, <1>9 DEF PartialIsOpen
<1>16. QED
  BY <1>10, <1>11, <1>12, <1>13, <1>14, <1>15 DEF IInv

LEMMA StreamSteps ==
  ASSUME OneInstance, IInv, TypeOK', NEW p \in Processes,
         Chunk(p) \/ EndOfStream(p)
  PROVE  IInv'
<1>1. fetch[p] \in Fetch /\ fetch[p].pc = "stream" /\ UNCHANGED names
  BY DEF IInv, TypeOK, Chunk, EndOfStream, At
<1>2. fetch[p].pc \notin Early /\ fetch[p].file \in Inodes
  BY <1>1 DEF IInv, FileIsWritten, Early
<1>3. /\ fetch[p].written \in Nat /\ fetch[p].read \in Nat
      /\ fetch[p].written \in 0 .. Chunks /\ fetch[p].written <= Chunks
  BY <1>1, ChunksAssumption DEF Fetch
<1>4. PICK w \in Nat, to \in {"stream", "rename"} :
        /\ fetch[p].written <= w
        /\ content' = Spilled(p, w)
        /\ fetch'[p].written = w /\ fetch'[p].pc = to
        /\ to = "rename" => w = Chunks
  <2>1. CASE Chunk(p)
    <3>1. PICK w \in fetch[p].written .. fetch[p].read + 1 :
            /\ content' = Spilled(p, w)
            /\ fetch' = [fetch EXCEPT ![p].read = @ + 1, ![p].written = w]
      BY <2>1 DEF Chunk
    <3>2. w \in Nat /\ fetch[p].written <= w
      BY <1>3
    <3>3. fetch'[p].written = w /\ fetch'[p].pc = "stream"
      BY <1>1, <3>1 DEF IInv, TypeOK, Fetch
    <3>4. QED
      BY <3>1, <3>2, <3>3
  <2>2. CASE EndOfStream(p)
    <3>1. content' = Spilled(p, Chunks)
      BY <2>2 DEF EndOfStream
    <3>2. fetch'[p].written = Chunks /\ fetch'[p].pc = "rename"
      BY <1>1, <2>2 DEF EndOfStream, IInv, TypeOK, Fetch
    <3>3. QED
      BY <1>3, <3>1, <3>2, ChunksAssumption
  <2>3. QED
    BY <2>1, <2>2
<1>5. /\ fetch'[p].file = fetch[p].file /\ fetch'[p].reading = fetch[p].reading
      /\ fetch'[p].identity = fetch[p].identity
  BY <1>1 DEF Chunk, EndOfStream, IInv, TypeOK, Fetch
<1> PICK f : f = fetch'[p]
  OBVIOUS
<1>6. f \in Fetch
  BY DEF TypeOK
<1>7. fetch' = [fetch EXCEPT ![p] = f]
  BY DEF Chunk, EndOfStream, IInv, TypeOK
<1>8. /\ Spilled(p, w)[fetch[p].file] =
           [k \in 1 .. Chunks |-> IF k <= w THEN fetch[p].reading ELSE Hole]
      /\ \A v \in Versions : dest[v] # NoFile =>
           Spilled(p, w)[dest[v]] = content[dest[v]]
  BY <1>2, <1>4, SpillExtends
<1>9. f.pc \notin Early /\ f.pc # "get"
  BY <1>4 DEF Early
<1>10. content'[f.file] =
         [k \in 1 .. Chunks |-> IF k <= f.written THEN f.reading ELSE Hole]
  BY <1>4, <1>5, <1>8
<1>11. f.pc = "rename" => f.written = Chunks
  BY <1>4
<1>12. \A v \in Versions : dest[v] # NoFile => content'[dest[v]] = content[dest[v]]
  BY <1>4, <1>8
<1>13. QED
  BY <1>1, <1>2, <1>5, <1>6, <1>7, <1>9, <1>10, <1>11, <1>12, WorkStep

LEMMA NextIInv == OneInstance /\ IInv /\ [Next]_vars => IInv'
<1> SUFFICES ASSUME OneInstance, IInv, [Next]_vars PROVE IInv'
  OBVIOUS
<1>1. TypeOK'
  BY NextTypeOK DEF IInv
<1>2. ASSUME NEW p \in Processes,
             Head(p) \/ NotThere(p) \/ Get(p) \/ Cancel(p) \/ CreatePartial(p)
               \/ Chunk(p) \/ EndOfStream(p) \/ Rename(p)
      PROVE  IInv'
  BY <1>1, <1>2, QuietSteps, CreateStep, StreamSteps, RenameStep
<1>3. ASSUME NEW p \in Processes, Reuse(p) \/ Kill(p) PROVE IInv'
  <2>1. Return(p) /\ UNCHANGED <<dest, partial, content>>
    BY <1>3 DEF Reuse, Kill, names
  <2>2. DestWhole' /\ DestApart' /\ PartialsApart'
    BY <2>1 DEF IInv, DestWhole, DestApart, PartialsApart
  <2>3. QED
    BY <1>1, <2>1, <2>2, ReturnStep
<1>4. ASSUME NEW p \in Processes, SeeCancelled(p) PROVE IInv'
  <2>1. /\ Return(p) /\ UNCHANGED <<dest, content>>
        /\ partial' = [partial EXCEPT ![fetch[p].identity] = NoFile]
    BY <1>4 DEF SeeCancelled
  <2>2. DestWhole' /\ DestApart' /\ PartialsApart'
    BY <2>1, NoFileAssumption DEF IInv, TypeOK, DestWhole, DestApart, PartialsApart
  <2>3. QED
    BY <1>1, <2>1, <2>2, ReturnStep
<1>5. ASSUME NEW p \in Processes, Fail(p) PROVE IInv'
  <2>1. Return(p) /\ UNCHANGED <<dest, partial>>
    BY <1>5 DEF Fail, names
  <2>2. \A v \in Versions : dest[v] # NoFile => content'[dest[v]] = content[dest[v]]
    <3>1. CASE fetch[p].file = NoFile
      BY <1>5, <3>1 DEF Fail
    <3>2. CASE fetch[p].file # NoFile
      <4>1. fetch[p].pc \notin Early
        BY <3>2 DEF IInv, FileIsWritten
      <4>2. /\ fetch[p].written \in Nat /\ fetch[p].read \in Nat
            /\ fetch[p].written <= fetch[p].written /\ fetch[p].written <= fetch[p].read
        BY ChunksAssumption DEF IInv, TypeOK, Fetch
      <4>3. PICK w \in {fetch[p].written, fetch[p].read} : content' = Spilled(p, w)
        BY <1>5, <3>2 DEF Fail
      <4>4. w \in Nat /\ fetch[p].written <= w
        BY <4>2
      <4>5. QED
        BY <4>1, <4>3, <4>4, SpillExtends
    <3>3. QED
      BY <3>1, <3>2
  <2>3. DestWhole' /\ DestApart' /\ PartialsApart'
    BY <2>1, <2>2 DEF IInv, DestWhole, DestApart, PartialsApart
  <2>4. QED
    BY <1>1, <2>1, <2>3, ReturnStep
<1>6. CASE ClearCache
  <2>1. /\ \A v \in Versions : dest'[v] = NoFile /\ partial'[v] = NoFile
        /\ UNCHANGED <<content, fetch>>
    BY <1>6 DEF ClearCache
  <2>2. DestWhole' /\ DestApart' /\ PartialsApart' /\ OpenApart'
    BY <2>1 DEF DestWhole, DestApart, PartialsApart, OpenApart
  <2>3. FileIsWritten'
    BY <2>1 DEF IInv, FileIsWritten
  <2>4. PartialIsOpen'
    BY <2>1 DEF IInv, TypeOK, Fetch, PartialIsOpen
  <2>5. QED
    BY <1>1, <2>2, <2>3, <2>4 DEF IInv
<1>7. CASE Replace \/ UNCHANGED vars
  <2>1. UNCHANGED <<dest, partial, content, fetch>>
    BY <1>7 DEF Replace, vars, names
  <2>2. QED
    BY <1>1, <2>1
    DEF IInv, DestWhole, DestApart, PartialsApart, OpenApart, FileIsWritten, PartialIsOpen
<1>8. QED
  BY <1>2, <1>3, <1>4, <1>5, <1>6, <1>7 DEF Next, Step

------------------------------------------------------------------------------
(* Theorems. *)

(* Type correctness, for any number of processes.                           *)
THEOREM TypeCorrect == Spec => []TypeOK
BY InitTypeOK, NextTypeOK, PTL DEF Spec

(* The invariant holds as long as one instance of the program uses the      *)
(* cache directory.                                                         *)
THEOREM InvariantHolds == ASSUME OneInstance PROVE Spec => []IInv
<1>1. IInv /\ [Next]_vars => IInv'
  BY NextIInv
<1>2. QED
  BY <1>1, InitIInv, PTL DEF Spec

(* One instance never gives a half-written file the name a later open takes *)
(* for the complete object, whatever errors, kills, cancellations and       *)
(* leftovers there were: the comment in fetch_to_cache.                     *)
THEOREM OneInstanceWhole == ASSUME OneInstance PROVE Spec => []DestWhole
<1>1. IInv => DestWhole
  BY DEF IInv
<1>2. QED
  BY <1>1, InvariantHolds, PTL

(* One instance never writes to a destination, which a table may have       *)
(* memory-mapped, not even when it fetches the same source again.           *)
THEOREM OneInstanceNeverRewrites == ASSUME OneInstance PROVE Spec => DestNeverRewritten
<1> DEFINE Kept ==
      \A v \in Versions :
        dest[v] # NoFile => content'[dest[v]] = content[dest[v]]
                              \/ \A w \in Versions : dest'[w] # dest[v]
<1>1. ASSUME IInv, Next PROVE Kept
  <2> SUFFICES ASSUME NEW v \in Versions, dest[v] # NoFile
               PROVE  content'[dest[v]] = content[dest[v]]
    OBVIOUS
  <2> USE <1>1
  <2>1. ASSUME NEW p \in Processes, CreatePartial(p)
        PROVE  content'[dest[v]] = content[dest[v]]
    <3>1. PICK i \in Inodes :
            /\ IF partial[fetch[p].identity] = NoFile
                 THEN Free(i) ELSE i = partial[fetch[p].identity]
            /\ content' = [content EXCEPT ![i] = Empty]
      BY <2>1 DEF CreatePartial
    <3>2. fetch[p].identity \in Versions
      BY DEF IInv, TypeOK, Fetch
    <3>3. i # dest[v]
      BY <3>1, <3>2 DEF Free, IInv, DestApart
    <3>4. QED
      BY <3>1, <3>3 DEF IInv, TypeOK
  <2>2. ASSUME NEW p \in Processes, fetch[p].file # NoFile,
               NEW w \in Nat, fetch[p].written <= w, content' = Spilled(p, w)
        PROVE  content'[dest[v]] = content[dest[v]]
    <3>1. fetch[p].pc \notin Early
      BY <2>2 DEF IInv, FileIsWritten
    <3>2. QED
      BY <2>2, <3>1, SpillExtends
  <2>3. ASSUME NEW p \in Processes
        PROVE  /\ fetch[p].written \in Nat /\ fetch[p].read \in Nat
               /\ fetch[p].written <= fetch[p].read /\ fetch[p].written <= Chunks
    BY ChunksAssumption DEF IInv, TypeOK, Fetch
  <2>4. ASSUME NEW p \in Processes, Chunk(p) \/ EndOfStream(p)
        PROVE  content'[dest[v]] = content[dest[v]]
    <3>1. fetch[p].file # NoFile
      BY <2>4, NoFileAssumption
      DEF Chunk, EndOfStream, At, IInv, FileIsWritten, Early
    <3>2. PICK w \in Nat : fetch[p].written <= w /\ content' = Spilled(p, w)
      <4>1. CASE Chunk(p)
        BY <2>3, <4>1 DEF Chunk
      <4>2. CASE EndOfStream(p)
        BY <2>3, <4>2, ChunksAssumption DEF EndOfStream
      <4>3. QED
        BY <2>4, <4>1, <4>2
    <3>3. QED
      BY <2>2, <3>1, <3>2
  <2>5. ASSUME NEW p \in Processes, Fail(p)
        PROVE  content'[dest[v]] = content[dest[v]]
    <3>1. CASE fetch[p].file = NoFile
      BY <2>5, <3>1 DEF Fail
    <3>2. CASE fetch[p].file # NoFile
      <4>1. PICK w \in {fetch[p].written, fetch[p].read} : content' = Spilled(p, w)
        BY <2>5, <3>2 DEF Fail
      <4>2. w \in Nat /\ fetch[p].written <= w
        BY <2>3
      <4>3. QED
        BY <2>2, <3>2, <4>1, <4>2
    <3>3. QED
      BY <3>1, <3>2
  <2>6. CASE UNCHANGED content
    BY <2>6
  <2>7. ASSUME NEW p \in Processes,
               Head(p) \/ Reuse(p) \/ NotThere(p) \/ Get(p) \/ SeeCancelled(p)
                 \/ Rename(p) \/ Cancel(p) \/ Kill(p)
        PROVE  UNCHANGED content
    BY <2>7 DEF Head, Reuse, NotThere, Get, SeeCancelled, Rename, Cancel, Kill
  <2>8. ClearCache \/ Replace => UNCHANGED content
    BY DEF ClearCache, Replace
  <2>9. QED
    BY <2>1, <2>4, <2>5, <2>6, <2>7, <2>8 DEF Next, Step
<1>2. IInv /\ [Next]_vars => [Kept]_vars
  BY <1>1
<1>3. QED
  BY <1>2, InvariantHolds, PTL DEF Spec, DestNeverRewritten
===============================================================================
