---------------------------- MODULE MCBrowseTree ----------------------------
(* The bucket b holds the folder x, listed below it or typed; the folder    *)
(* that is typed in local mode holds another.                               *)
EXTENDS BrowseTree

CONSTANTS b, x, y, home, docs, c1, c2, c3

MCFolders == {b, x, y}
MCSub == [u \in MCFolders |-> IF u = b THEN {x} ELSE IF u = x THEN {y} ELSE {}]
MCFirstPage == [MCSub EXCEPT ![x] = {}]
MCLong == {x}
MCBuckets == <<b>>
MCTypeable == {x}
MCLocalFolders == {home, docs}
MCLocalSub == [f \in MCLocalFolders |-> IF f = home THEN {docs} ELSE {}]

(* For liveness a smaller store: x has files only, on two pages.            *)
MCLiveFolders == {b, x}
MCLiveSub == [u \in MCLiveFolders |-> IF u = b THEN {x} ELSE {}]
=============================================================================
