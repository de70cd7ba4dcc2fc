----------------------------- MODULE CacheFetch -----------------------------
(***************************************************************************)
(* Filling the local cache with a downloaded object (remote.rs,            *)
(* fetch_to_cache) or with a decompressed file (gzip.rs,                   *)
(* decompress_to_cache): the source's identity names the destination, the  *)
(* bytes are streamed into a .partial file beside it, which is renamed to  *)
(* the destination at the end. A process runs one fetch at a time (app.rs  *)
(* keeps the job until its outcome is there), may be killed at any moment, *)
(* and may not be alone: every instance of the program uses the same       *)
(* cache directory.                                                        *)
(*                                                                         *)
(* The source is a version number, its identity (ETag, or size and time).  *)
(* A file is an inode with a version, or nothing, in each of its chunks;   *)
(* names and open files refer to inodes. Operators named ...Unsound or     *)
(* ...TooEarly are slips the code could have made.                         *)
(***************************************************************************)
EXTENDS Naturals

CONSTANTS
  Processes,     \* the running instances of the program
  Inodes,        \* bound: the files the cache directory can hold
  Chunks,        \* the length of the source
  MaxVersions,   \* bound: how many contents the source goes through
  Kinds,         \* which of the two functions: "remote", "gzip"
  NoFile

ASSUME ChunksAssumption == Chunks \in Nat \ {0}
ASSUME MaxVersionsAssumption == MaxVersions \in Nat \ {0}
ASSUME KindsAssumption == Kinds \subseteq {"remote", "gzip"}
ASSUME NoFileAssumption == NoFile \notin Inodes

Versions == 1 .. MaxVersions
Hole == 0

VARIABLES
  kind,      \* the function that fills the cache: fetch_to_cache for a remote
             \* object, decompress_to_cache for a gzip file; never changes
  source,    \* the content of the source now
  dest,      \* the destination of each identity: an inode, or none
  partial,   \* its .partial file
  content,   \* what each inode holds
  fetch      \* the fetch of each process

origin == <<kind, source>>
names == <<dest, partial>>
vars == <<origin, names, content, fetch>>

Gzip == kind = "gzip"

Content == [1 .. Chunks -> Versions \cup {Hole}]
Empty == [k \in 1 .. Chunks |-> Hole]

Pc == {"idle", "named", "create", "get", "stream", "rename"}

Fetch ==
  [pc : Pc,
   identity : Versions,          \* the version the destination is named for
   reading : Versions,           \* the version that is streamed
   file : Inodes \cup {NoFile},  \* the open .partial file
   read : 0 .. Chunks,           \* chunks received
   written : 0 .. Chunks,        \* chunks that left the BufWriter
   cancelled : BOOLEAN]

TypeOK ==
  /\ kind \in Kinds
  /\ source \in Versions
  /\ dest \in [Versions -> Inodes \cup {NoFile}]
  /\ partial \in [Versions -> Inodes \cup {NoFile}]
  /\ content \in [Inodes -> Content]
  /\ fetch \in [Processes -> Fetch]
  /\ \A p \in Processes : fetch[p].written <= fetch[p].read

NoFetch ==
  [pc |-> "idle", identity |-> 1, reading |-> 1, file |-> NoFile, read |-> 0,
   written |-> 0, cancelled |-> FALSE]

Init ==
  /\ kind \in Kinds
  /\ source = 1
  /\ dest = [v \in Versions |-> NoFile]
  /\ partial = [v \in Versions |-> NoFile]
  /\ content = [i \in Inodes |-> Empty]
  /\ fetch = [p \in Processes |-> NoFetch]

At(p, pc) == fetch[p].pc = pc

(* fetch_to_cache or decompress_to_cache returns, one way or another. *)
Return(p) == fetch' = [fetch EXCEPT ![p] = NoFetch]

------------------------------------------------------------------------------
(* head / metadata: the identity of the source as it is now. *)
Head(p) ==
  /\ At(p, "idle")
  /\ fetch' = [fetch EXCEPT ![p].pc = "named", ![p].identity = source]
  /\ UNCHANGED <<origin, names, content>>

(* The destination exists: it is reused as it is. *)
Reuse(p) ==
  /\ At(p, "named")
  /\ dest[fetch[p].identity] # NoFile
  /\ Return(p)
  /\ UNCHANGED <<origin, names, content>>

(* It does not: the source is opened before the .partial file is created    *)
(* (gzip), or only after it (remote).                                       *)
NotThere(p) ==
  /\ At(p, "named")
  /\ dest[fetch[p].identity] = NoFile
  /\ fetch' = [fetch EXCEPT ![p].pc = "create",
                            ![p].reading = IF Gzip THEN source ELSE @]
  /\ UNCHANGED <<origin, names, content>>

(* Inodes that nothing refers to any more. *)
Free(i) ==
  /\ \A v \in Versions : dest[v] # i /\ partial[v] # i
  /\ \A p \in Processes : fetch[p].file # i

CreatePartialUnsound(p) ==
  LET v == fetch[p].identity IN
  /\ At(p, "create")
  /\ \E i \in Inodes :
       /\ Free(i)
       /\ dest' = [dest EXCEPT ![v] = i]
       /\ content' = [content EXCEPT ![i] = Empty]
       /\ fetch' = [fetch EXCEPT ![p].pc = IF Gzip THEN "stream" ELSE "get",
                                 ![p].file = i]
  /\ UNCHANGED <<origin, partial>>

(* File::create truncates the .partial file if there is one, whoever else   *)
(* has it open.                                                             *)
CreatePartial(p) ==
  LET v == fetch[p].identity IN
  /\ At(p, "create")
  /\ \E i \in Inodes :
       /\ IF partial[v] = NoFile THEN Free(i) ELSE i = partial[v]
       /\ partial' = [partial EXCEPT ![v] = i]
       /\ content' = [content EXCEPT ![i] = Empty]
       /\ fetch' = [fetch EXCEPT ![p].pc = IF Gzip THEN "stream" ELSE "get",
                                 ![p].file = i]
  /\ UNCHANGED <<origin, dest>>

(* fetch_to_cache asks for the object: the version there is now. *)
Get(p) ==
  /\ At(p, "get")
  /\ fetch' = [fetch EXCEPT ![p].pc = "stream", ![p].reading = source]
  /\ UNCHANGED <<origin, names, content>>

(* What the file holds once the chunks up to `written` have left the buffer.*)
Spilled(p, written) ==
  [content EXCEPT ![fetch[p].file] =
     [k \in 1 .. Chunks |-> IF k \in fetch[p].written + 1 .. written
                              THEN fetch[p].reading ELSE @[k]]]

(* A chunk arrives and goes through the BufWriter, which may keep it back.  *)
Chunk(p) ==
  /\ At(p, "stream")
  /\ ~fetch[p].cancelled
  /\ fetch[p].read < Chunks
  /\ \E w \in fetch[p].written .. fetch[p].read + 1 :
       /\ content' = Spilled(p, w)
       /\ fetch' = [fetch EXCEPT ![p].read = @ + 1, ![p].written = w]
  /\ UNCHANGED <<origin, names>>

(* The token is looked at when a chunk has arrived (remote), or before each *)
(* read, the last one included (gzip): the .partial file is removed.        *)
SeeCancelled(p) ==
  /\ At(p, "stream")
  /\ fetch[p].cancelled
  /\ Gzip \/ fetch[p].read < Chunks
  /\ partial' = [partial EXCEPT ![fetch[p].identity] = NoFile]
  /\ Return(p)
  /\ UNCHANGED <<origin, dest, content>>

EndOfStreamTooEarly(p) ==
  /\ At(p, "stream")
  /\ Gzip => ~fetch[p].cancelled
  /\ content' = Spilled(p, Chunks)
  /\ fetch' = [fetch EXCEPT ![p].pc = "rename", ![p].written = Chunks]
  /\ UNCHANGED <<origin, names>>

EndOfStreamUnsound(p) ==
  /\ At(p, "stream")
  /\ fetch[p].read = Chunks
  /\ Gzip => ~fetch[p].cancelled
  /\ fetch' = [fetch EXCEPT ![p].pc = "rename"]
  /\ UNCHANGED <<origin, names, content>>

(* The end of the stream: the buffer is flushed. *)
EndOfStream(p) ==
  /\ At(p, "stream")
  /\ fetch[p].read = Chunks
  /\ Gzip => ~fetch[p].cancelled
  /\ content' = Spilled(p, Chunks)
  /\ fetch' = [fetch EXCEPT ![p].pc = "rename", ![p].written = Chunks]
  /\ UNCHANGED <<origin, names>>

(* rename: the destination refers to what the name .partial refers to now.  *)
Rename(p) ==
  LET v == fetch[p].identity IN
  /\ At(p, "rename")
  /\ partial[v] # NoFile
  /\ dest' = [dest EXCEPT ![v] = partial[v]]
  /\ partial' = [partial EXCEPT ![v] = NoFile]
  /\ Return(p)
  /\ UNCHANGED <<origin, content>>

(* Any call may fail (the network, the disk, a damaged archive, a .partial  *)
(* file that is gone): an error is returned, the .partial file stays, and   *)
(* dropping the BufWriter may still write out what it kept.                 *)
Fail(p) ==
  /\ ~At(p, "idle")
  /\ \E w \in {fetch[p].written, fetch[p].read} :
       content' = IF fetch[p].file = NoFile THEN content ELSE Spilled(p, w)
  /\ Return(p)
  /\ UNCHANGED <<origin, names>>

------------------------------------------------------------------------------
(* The user presses Cancel in the progress dialog. *)
Cancel(p) ==
  /\ ~At(p, "idle")
  /\ ~fetch[p].cancelled
  /\ fetch' = [fetch EXCEPT ![p].cancelled = TRUE]
  /\ UNCHANGED <<origin, names, content>>

(* The process is killed: what its BufWriter kept is lost. *)
Kill(p) ==
  /\ ~At(p, "idle")
  /\ Return(p)
  /\ UNCHANGED <<origin, names, content>>

(* Settings > Clear cache: every name goes, open files live on. *)
ClearCache ==
  /\ \E v \in Versions : dest[v] # NoFile \/ partial[v] # NoFile
  /\ dest' = [v \in Versions |-> NoFile]
  /\ partial' = [v \in Versions |-> NoFile]
  /\ UNCHANGED <<origin, content, fetch>>

(* The source is replaced (an older version may come back). *)
Replace ==
  /\ \E v \in Versions \ {source} : source' = v
  /\ UNCHANGED <<kind, names, content, fetch>>

------------------------------------------------------------------------------
Step(p) ==
  \/ Head(p) \/ Reuse(p) \/ NotThere(p) \/ CreatePartial(p) \/ Get(p)
  \/ Chunk(p) \/ SeeCancelled(p) \/ EndOfStream(p) \/ Rename(p) \/ Fail(p)

Next ==
  \/ \E p \in Processes : Step(p) \/ Cancel(p) \/ Kill(p)
  \/ ClearCache
  \/ Replace

Spec == Init /\ [][Next]_vars

------------------------------------------------------------------------------
(* Properties. *)

(* "A cancelled or failed download must never leave a half-written file     *)
(* that a later open would treat as the complete object": whatever bears    *)
(* the name of a destination is one whole version of the source, after      *)
(* kills, errors, cancellations and leftovers of earlier attempts.          *)
DestWhole ==
  \A v \in Versions : dest[v] # NoFile =>
    \E w \in Versions : content[dest[v]] = [k \in 1 .. Chunks |-> w]

(* A destination is never written to: a table has it memory-mapped, and     *)
(* reading a mapping of a file that is truncated kills the process.         *)
DestNeverRewritten ==
  [][\A v \in Versions :
       dest[v] # NoFile => content'[dest[v]] = content[dest[v]]
                             \/ \A w \in Versions : dest'[w] # dest[v]]_vars

(* "An already downloaded copy is reused when the object's identity is      *)
(* unchanged": the copy that is reused is the object of that identity.      *)
ReusedCopyIsCurrent ==
  \A p \in Processes :
    LET v == fetch[p].identity IN
      At(p, "named") /\ dest[v] # NoFile =>
        content[dest[v]] = [k \in 1 .. Chunks |-> v]
==============================================================================
