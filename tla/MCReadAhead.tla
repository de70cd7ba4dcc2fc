----------------------------- MODULE MCReadAhead -----------------------------
(* TLC instance of ReadAhead: a bucket b with folders x and y, x holding p  *)
(* and (on its second page) q. A read-ahead from b meets x at depth 1, one  *)
(* page of it, while a read-ahead from x lists it in full; z, below p, is   *)
(* out of reach from b; y shows x again, so that a folder is come across    *)
(* twice. A read-ahead from p is within its budget, so that one may find    *)
(* all it wants in the cache.                                               *)
EXTENDS ReadAhead

CONSTANTS b, x, y, z, p, q, c1, c2

MCFolders == {b, x, y, z, p, q}
MCSub ==
  [u \in MCFolders |-> CASE u = b -> {x, y}
                         [] u = x -> {p, q}
                         [] u = y -> {x}
                         [] u = p -> {z}
                         [] OTHER -> {}]
MCFirstPage == [MCSub EXCEPT ![x] = {p}]
MCLong == {x}
MCRoots == {b, x, p}
MCCrawls == {c1, c2}
OneCrawl == {c1}

(* The hypothesis of OkMeansCovered. *)
ASSUME StoreIsATree == OneParent
==============================================================================
