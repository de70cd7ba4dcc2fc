-------------------------- MODULE BrowseTreeProofs --------------------------
(***************************************************************************)
(* Proofs about BrowseTree for any folders, buckets, limits, number of     *)
(* read-aheads and acts of the user: that it uses the read-aheads as       *)
(* ReadAhead says, and so inherits what ReadAheadProofs proves of them;    *)
(* what the tree shows; and what is suggested.                             *)
(***************************************************************************)
EXTENDS BrowseTree, FiniteSetTheorems, SequenceTheorems, TLAPS

RAP == INSTANCE ReadAheadProofs WITH Roots <- Folders

------------------------------------------------------------------------------
(* The read-aheads. *)

LEMMA ReadAheadAssumptions ==
  /\ RAP!FoldersAssumption /\ RAP!StoreAssumption /\ RAP!LimitsAssumption
  /\ RAP!MaxRefreshesAssumption /\ RAP!UnlistedAssumption
BY FoldersAssumption, StoreAssumption, LimitsAssumption, RefreshAssumption
DEF RAP!FoldersAssumption, RAP!StoreAssumption, RAP!LimitsAssumption,
    RAP!MaxRefreshesAssumption, RAP!UnlistedAssumption, RAP!Listing, RAP!Periods,
    RA!Listing, RA!Periods

LEMMA SameCardinality == \A S : RA!Cardinality(S) = RAP!Cardinality(S)
BY Zenon DEF RA!Cardinality, RAP!Cardinality

(* The proofs are about the same actions.                                   *)
LEMMA SameInit == RA!Init <=> RAP!Init
BY DEF RA!Init, RA!Idle, RA!New, RAP!Init, RAP!Idle, RAP!New

LEMMA SameSteps ==
  ASSUME NEW c
  PROVE  /\ RA!CrawlStep(c) <=> RAP!CrawlStep(c)
         /\ RA!Answer(c) <=> RAP!Answer(c)
<1>1. RA!ExpandCached(c) <=> RAP!ExpandCached(c)
  BY SameCardinality DEF RA!ExpandCached, RA!Seeking, RA!StandsIn, RA!Queued, RA!Shows,
         RAP!ExpandCached, RAP!Seeking, RAP!StandsIn, RAP!Queued, RAP!Shows
<1>2. RA!Request(c) <=> RAP!Request(c)
  BY SameCardinality DEF RA!Request, RA!Seeking, RA!StandsIn, RAP!Request, RAP!Seeking, RAP!StandsIn
<1>3. RA!SpendBudget(c) <=> RAP!SpendBudget(c)
  BY SameCardinality DEF RA!SpendBudget, RA!Seeking, RA!StandsIn,
         RAP!SpendBudget, RAP!Seeking, RAP!StandsIn
<1>4. \A result : RA!Return(c, result) <=> RAP!Return(c, result)
  BY DEF RA!Return, RA!Returned, RAP!Return, RAP!Returned
<1>5. /\ RA!NothingToRequest(c) <=> RAP!NothingToRequest(c)
      /\ RA!ConnectFails(c) <=> RAP!ConnectFails(c)
      /\ RA!SeeCancelled(c) <=> RAP!SeeCancelled(c)
      /\ RA!LandRootError(c) <=> RAP!LandRootError(c)
      /\ RA!Finish(c) <=> RAP!Finish(c)
  BY <1>4 DEF RA!NothingToRequest, RA!ConnectFails, RA!SeeCancelled,
              RA!LandRootError, RA!Finish, RAP!NothingToRequest, RAP!ConnectFails,
              RAP!SeeCancelled, RAP!LandRootError, RAP!Finish
<1>6. /\ RA!StopFilling(c) <=> RAP!StopFilling(c)
      /\ RA!Connect(c) <=> RAP!Connect(c)
      /\ RA!GoOn(c) <=> RAP!GoOn(c)
      /\ RA!LandError(c) <=> RAP!LandError(c)
  BY SameCardinality DEF RA!StopFilling, RA!Connect, RA!GoOn, RA!LandError,
         RAP!StopFilling, RAP!Connect, RAP!GoOn, RAP!LandError
<1>7. RA!LandListing(c) <=> RAP!LandListing(c)
  BY DEF RA!LandListing, RA!Insert, RA!Queued, RA!Shows,
         RAP!LandListing, RAP!Insert, RAP!Queued, RAP!Shows
<1>8. RA!Answer(c) <=> RAP!Answer(c)
  BY DEF RA!Answer, RAP!Answer
<1>9. QED
  BY <1>1, <1>2, <1>3, <1>5, <1>6, <1>7, <1>8 DEF RA!CrawlStep, RAP!CrawlStep

LEMMA SameNext == [RA!Next]_raVars <=> [RAP!Next]_(RAP!vars)
<1>1. \A c : RA!Start(c) <=> RAP!Start(c)
  BY DEF RA!Start, RA!New, RAP!Start, RAP!New
<1>2. \A c : RA!Cancel(c) <=> RAP!Cancel(c)
  BY DEF RA!Cancel, RA!Running, RA!Ended, RAP!Cancel, RAP!Running, RAP!Ended
<1>3. RA!Refresh <=> RAP!Refresh
  BY DEF RA!Refresh, RA!Running, RA!Ended, RAP!Refresh, RAP!Running, RAP!Ended
<1>4. RA!Next <=> RAP!Next
  BY <1>1, <1>2, <1>3, SameSteps DEF RA!Next, RAP!Next
<1>5. QED
  BY <1>4 DEF raVars, RAP!vars

(* What a step of the read-aheads keeps, and what the browser needs of it.  *)
ReadAheadInv == RAP!IInv /\ RAP!StaleInv

LEMMA ReadAheadStep ==
  ReadAheadInv /\ [RA!Next]_raVars => ReadAheadInv'
BY ReadAheadAssumptions, SameNext, RAP!NextIInv, RAP!NextStale DEF ReadAheadInv

LEMMA ReadAheadInit == RA!Init => ReadAheadInv
BY ReadAheadAssumptions, SameInit, RAP!InitIInv, RAP!InitStale DEF ReadAheadInv

LEMMA ReadAheadTypes ==
  ASSUME ReadAheadInv
  PROVE  /\ \A u \in Folders : cache[u] # Unlisted => cache[u].complete \in BOOLEAN
         /\ crawl = [c \in Crawls |-> crawl[c]]
         /\ cancelled \subseteq Crawls
         /\ period \in Nat
BY RefreshAssumption
DEF ReadAheadInv, RAP!IInv, RAP!TypeOK, RAP!Listing, RAP!Periods

LEMMA NobodyStarts ==
  ASSUME ReadAheadInv, NEW c \in Crawls, RA!CrawlStep(c) \/ RA!Answer(c)
  PROVE  /\ \A d \in Crawls : RA!Running(d)' => RA!Running(d)
         /\ UNCHANGED <<cancelled, period>>
<1>1. CASE RA!CrawlStep(c)
  <2>1. RAP!Onward /\ UNCHANGED <<cancelled, period>>
    BY <1>1, ReadAheadAssumptions, SameSteps, RAP!CrawlStepOnward DEF ReadAheadInv
  <2>2. QED
    BY <2>1 DEF RAP!Onward, RAP!Running, RAP!Ended, RA!Running, RA!Ended
<1>2. CASE RA!Answer(c)
  BY <1>2 DEF RA!Answer, RA!Running
<1>3. QED
  BY <1>1, <1>2

------------------------------------------------------------------------------
(* Paths. *)

Path == Seq(Folders) \ {<<>>}

Parent(q) == SubSeq(q, 1, Len(q) - 1)

LEMMA ChildPath ==
  ASSUME NEW p \in Path, NEW u \in Folders
  PROVE  LET q == Append(p, u) IN
           /\ q \in Path /\ Len(q) = Len(p) + 1 /\ Len(p) > 0
           /\ Parent(q) = p /\ Last(q) = u /\ q[1] = p[1]
<1>1. p \in Seq(Folders) /\ p # <<>> /\ Len(p) \in Nat /\ Len(p) # 0
  BY EmptySeq DEF Path
<1>2. Append(p, u) \in Seq(Folders) /\ Len(Append(p, u)) = Len(p) + 1
  BY <1>1
<1>3. Append(p, u) # <<>> /\ Last(Append(p, u)) = u /\ Append(p, u)[1] = p[1]
  BY <1>1, <1>2 DEF Last
<1>4. SubSeq(Append(p, u), 1, Len(p)) = p
  BY <1>1
<1>5. QED
  BY <1>1, <1>2, <1>3, <1>4 DEF Path, Parent

LEMMA ParentPath ==
  ASSUME NEW q \in Path, Len(q) > 1
  PROVE  /\ Parent(q) \in Path /\ Last(q) \in Folders
         /\ Append(Parent(q), Last(q)) = q /\ Parent(q)[1] = q[1]
<1>1. q \in Seq(Folders) /\ Len(q) \in Nat
  BY DEF Path
<1>2. /\ Parent(q) \in Seq(Folders) /\ Len(Parent(q)) = Len(q) - 1
      /\ \A i \in 1 .. Len(q) - 1 : Parent(q)[i] = q[i]
  BY <1>1 DEF Parent
<1>3. Parent(q) # <<>> /\ Parent(q)[1] = q[1]
  BY <1>1, <1>2
<1>4. Last(q) = q[Len(q)] /\ Last(q) \in Folders
  BY <1>1 DEF Last
<1> DEFINE r == Append(Parent(q), Last(q))
<1>5. r \in Seq(Folders) /\ Len(r) = Len(q)
  BY <1>1, <1>2, <1>4
<1>6. \A i \in 1 .. Len(q) : r[i] = q[i]
  BY <1>1, <1>2, <1>4
<1> HIDE DEF r
<1>7. r = q
  BY <1>1, <1>5, <1>6, SeqEqual
<1>8. QED
  BY <1>2, <1>3, <1>4, <1>7 DEF Path, r

LEMMA TopPath ==
  ASSUME NEW u \in Folders
  PROVE  <<u>> \in Path /\ Len(<<u>>) = 1 /\ Last(<<u>>) = u /\ <<u>>[1] = u
BY DEF Path, Last

LEMMA LastType == ASSUME NEW p \in Path PROVE Last(p) \in Folders
<1>1. p \in Seq(Folders) /\ Len(p) \in Nat /\ Len(p) # 0
  BY EmptySeq DEF Path
<1>2. QED
  BY <1>1 DEF Last

------------------------------------------------------------------------------
(* The tree. *)

(* A node below another is there because that one is listed, and a listed   *)
(* node shows all that is below it.                                         *)
Grafted(nodes) ==
  /\ \A q \in DOMAIN nodes : Len(q) > 1 =>
       /\ Parent(q) \in DOMAIN nodes /\ nodes[Parent(q)].children = "loaded"
       /\ Last(q) \in Sub[Last(Parent(q))]
  /\ \A p \in DOMAIN nodes : nodes[p].children = "loaded" =>
       \A u \in Sub[Last(p)] : Append(p, u) \in DOMAIN nodes

NodesOk(nodes) ==
  /\ DOMAIN nodes \subseteq Path
  /\ nodes \in [DOMAIN nodes -> Node]
  /\ Grafted(nodes)

TopOk(top, nodes) ==
  /\ top \in Seq(Folders) /\ IsInjective(top)
  /\ \A u \in Range(top) : <<u>> \in DOMAIN nodes
  /\ \A p \in DOMAIN nodes : p[1] \in Range(top)

TreeOk(t) ==
  /\ t = [root |-> t.root, top |-> t.top, nodes |-> t.nodes]
  /\ t.root \in ChildState
  /\ NodesOk(t.nodes) /\ TopOk(t.top, t.nodes)
  /\ t.root # "loaded" => DOMAIN t.nodes = {}

(* No folder goes, and what was listed stays so.                            *)
Keeps(t1, t2) ==
  /\ DOMAIN t1.nodes \subseteq DOMAIN t2.nodes
  /\ \A p \in DOMAIN t1.nodes :
       t1.nodes[p].children = "loaded" => t2.nodes[p].children = "loaded"

LEMMA EmptiedOk ==
  ASSUME NEW root \in ChildState
  PROVE  TreeOk(Emptied(root)) /\ Emptied(root).root = root /\ DOMAIN Emptied(root).nodes = {}
<1> DEFINE t == Emptied(root)
<1>1. t.root = root /\ t.top = <<>> /\ t.nodes = <<>> /\ DOMAIN t.nodes = {}
  BY DEF Emptied
<1>2. t = [root |-> t.root, top |-> t.top, nodes |-> t.nodes]
  BY DEF Emptied
<1>3. <<>> \in Seq(Folders) /\ IsInjective(<<>>) /\ Range(<<>>) = {}
  BY DEF IsInjective, Range
<1>4. <<>> \in [{} -> Node]
  OBVIOUS
<1> HIDE DEF t
<1>5. NodesOk(t.nodes)
  <2>1. Grafted(t.nodes)
    BY <1>1, Zenon DEF Grafted
  <2>2. t.nodes \in [DOMAIN t.nodes -> Node] /\ DOMAIN t.nodes \subseteq Path
    BY <1>1, <1>4, Zenon
  <2>3. QED
    BY <2>1, <2>2 DEF NodesOk
<1>6. TopOk(t.top, t.nodes)
  BY <1>1, <1>3 DEF TopOk
<1>7. QED
  BY <1>1, <1>2, <1>5, <1>6 DEF TreeOk, t

LEMMA NewNodeType == NewNode \in Node /\ NewNode.children = "unloaded"
BY DEF NewNode, Node, ChildState

LEMMA RangeType ==
  ASSUME NEW s \in Seq(Folders)
  PROVE  Range(s) \subseteq Folders
BY DEF Range

LEMMA TopLevelOk == TreeOk(TopLevel(Buckets))
<1> DEFINE t == TopLevel(Buckets)
           D == {<<u>> : u \in Range(Buckets)}
<1>1. /\ t.root = "loaded" /\ t.top = Buckets
      /\ t.nodes = [p \in D |-> NewNode] /\ DOMAIN t.nodes = D
  BY DEF TopLevel
<1>2. t = [root |-> t.root, top |-> t.top, nodes |-> t.nodes]
  BY DEF TopLevel
<1>3. Range(Buckets) \subseteq Folders
  BY BucketsAssumption, RangeType
<1>4. \A p \in D : p \in Path /\ Len(p) = 1 /\ p[1] \in Range(Buckets)
  BY <1>3, TopPath
<1> HIDE DEF t, D
<1>5. \A p \in D : t.nodes[p] = NewNode
  BY <1>1
<1>6. Grafted(t.nodes)
  <2>1. \A p \in D : ~(Len(p) > 1) /\ t.nodes[p].children # "loaded"
    BY <1>4, <1>5, NewNodeType
  <2>2. DOMAIN t.nodes = D
    BY <1>1
  <2>3. QED
    BY <2>1, <2>2, Zenon DEF Grafted
<1>7. NodesOk(t.nodes)
  BY <1>1, <1>4, <1>6, NewNodeType DEF NodesOk
<1>8. TopOk(t.top, t.nodes)
  BY <1>1, <1>4, BucketsAssumption DEF TopOk, D
<1>9. QED
  BY <1>1, <1>2, <1>7, <1>8 DEF TreeOk, t, ChildState

(* Nodes that change without being listed or forgotten.                     *)
LEMMA Relabelled ==
  ASSUME NEW t, TreeOk(t), NEW n, n \in [DOMAIN t.nodes -> Node],
         \A p \in DOMAIN t.nodes :
           n[p].children = "loaded" <=> t.nodes[p].children = "loaded"
  PROVE  LET t2 == [t EXCEPT !.nodes = n] IN TreeOk(t2) /\ Keeps(t, t2) /\ t2.root = t.root
<1> DEFINE t2 == [t EXCEPT !.nodes = n]
<1>1. t2 = [root |-> t.root, top |-> t.top, nodes |-> n]
  BY DEF TreeOk
<1>2. t2.root = t.root /\ t2.top = t.top /\ t2.nodes = n
  BY <1>1
<1>3. t2 = [root |-> t2.root, top |-> t2.top, nodes |-> t2.nodes]
  BY <1>1, <1>2
<1> HIDE DEF t2
<1>4. DOMAIN n = DOMAIN t.nodes
  OBVIOUS
<1>5. Grafted(n)
  BY <1>4 DEF Grafted, TreeOk, NodesOk
<1>6. NodesOk(t2.nodes) /\ TopOk(t2.top, t2.nodes)
  BY <1>2, <1>4, <1>5 DEF TreeOk, NodesOk, TopOk
<1>7. Keeps(t, t2)
  BY <1>2, <1>4 DEF Keeps
<1>8. QED
  BY <1>2, <1>3, <1>4, <1>6, <1>7 DEF TreeOk, t2

LEMMA MarkedOk ==
  ASSUME NEW t, TreeOk(t), NEW failed
  PROVE  TreeOk(Marked(t, failed)) /\ Keeps(t, Marked(t, failed)) /\ Marked(t, failed).root = t.root
<1> DEFINE marked == {Found(t, u) : u \in {v \in failed : Named(t, v) # {}}}
                       \cap LoadingNodes(t)
           n == [p \in DOMAIN t.nodes |->
                  IF p \in marked THEN [t.nodes[p] EXCEPT !.children = "failed"]
                  ELSE t.nodes[p]]
<1>1. Marked(t, failed) = [t EXCEPT !.nodes = n]
  BY DEF Marked
<1>2. \A p \in marked : t.nodes[p].children = "loading"
  BY DEF LoadingNodes
<1> HIDE DEF marked
<1>3. \A x \in Node : LET y == [x EXCEPT !.children = "failed"] IN
        y \in Node /\ y.children = "failed"
  BY DEF Node, ChildState
<1>4. n \in [DOMAIN t.nodes -> Node]
  BY <1>3 DEF TreeOk, NodesOk
<1>5. \A p \in DOMAIN t.nodes : n[p].children = "loaded" <=> t.nodes[p].children = "loaded"
  BY <1>2, <1>3 DEF TreeOk, NodesOk
<1> HIDE DEF n
<1>6. QED
  BY <1>1, <1>4, <1>5, Relabelled

(* Folders listed in full get all that is below them.                       *)
LEMMA InstalledOk ==
  ASSUME NEW t, TreeOk(t)
  PROVE  TreeOk(Installed(t)) /\ Keeps(t, Installed(t)) /\ Installed(t).root = t.root
<1> DEFINE D == DOMAIN t.nodes
           filled == {p \in LoadingNodes(t) : Fills(Last(p))}
           fresh == UNION {{Append(p, u) : u \in RA!Shows(Last(p), cache[Last(p)])} :
                             p \in filled}
           n == [p \in D \cup fresh |->
                  IF p \in fresh THEN NewNode
                  ELSE IF p \in filled THEN [t.nodes[p] EXCEPT !.children = "loaded"]
                  ELSE t.nodes[p]]
           t2 == Installed(t)
<1>1. D \subseteq Path /\ t.nodes \in [D -> Node] /\ Grafted(t.nodes) /\ TopOk(t.top, t.nodes)
  BY DEF TreeOk, NodesOk
<1>2. t2 = [root |-> t.root, top |-> t.top, nodes |-> n]
  <2>1. t2 = [t EXCEPT !.nodes = n]
    BY DEF Installed
  <2> HIDE DEF n, t2
  <2>2. QED
    BY <2>1 DEF TreeOk
<1>3. t2.root = t.root /\ t2.top = t.top /\ t2.nodes = n
  <2> HIDE DEF n, t2
  <2> QED BY <1>2
<1>4. \A p \in filled : /\ p \in D /\ t.nodes[p].children = "loading"
                        /\ RA!Shows(Last(p), cache[Last(p)]) = Sub[Last(p)]
                        /\ Last(p) \in Folders /\ Sub[Last(p)] \subseteq Folders
  <2> SUFFICES ASSUME NEW p \in filled
               PROVE  /\ p \in D /\ t.nodes[p].children = "loading"
                      /\ RA!Shows(Last(p), cache[Last(p)]) = Sub[Last(p)]
                      /\ Last(p) \in Folders /\ Sub[Last(p)] \subseteq Folders
    OBVIOUS
  <2>1. p \in D /\ t.nodes[p].children = "loading" /\ Fills(Last(p))
    BY DEF LoadingNodes
  <2>2. RA!Shows(Last(p), cache[Last(p)]) = Sub[Last(p)]
    BY <2>1 DEF Fills, Whole, RA!Shows
  <2>3. Last(p) \in Folders
    BY <1>1, <2>1, LastType
  <2>4. QED
    BY <2>1, <2>2, <2>3, StoreAssumption
<1>5. \A q : q \in fresh <=> \E p \in filled : \E u \in Sub[Last(p)] : q = Append(p, u)
  BY <1>4
<1> HIDE DEF filled, fresh, t2
<1>6. \A q \in fresh : /\ q \in Path /\ Len(q) > 1 /\ Parent(q) \in filled
                       /\ Last(q) \in Sub[Last(Parent(q))] /\ q[1] = Parent(q)[1]
  <2> TAKE q \in fresh
  <2>0. PICK p \in filled : \E u \in Sub[Last(p)] : q = Append(p, u)
    BY <1>5
  <2>1. PICK u \in Sub[Last(p)] : q = Append(p, u)
    BY <2>0
  <2>2. p \in Path /\ u \in Folders
    BY <1>1, <1>4
  <2>3. Len(p) \in Nat
    BY <2>2 DEF Path
  <2>4. /\ q \in Path /\ Len(q) = Len(p) + 1 /\ Len(p) > 0
        /\ Parent(q) = p /\ Last(q) = u /\ q[1] = p[1]
    BY <2>1, <2>2, ChildPath
  <2>5. QED
    BY <2>3, <2>4
<1>7. fresh \cap D = {}
  BY <1>1, <1>4, <1>6 DEF Grafted
<1>8. \A x \in Node : LET y == [x EXCEPT !.children = "loaded"] IN
        y \in Node /\ y.children = "loaded"
  BY DEF Node, ChildState
<1>9. /\ DOMAIN n = D \cup fresh
      /\ \A p \in fresh : n[p] = NewNode
      /\ \A p \in filled : n[p] \in Node /\ n[p].children = "loaded"
      /\ \A p \in D \ filled : n[p] = t.nodes[p]
  BY <1>1, <1>4, <1>7, <1>8
<1> HIDE DEF n
<1>10. n \in [D \cup fresh -> Node]
  <2>1. \A p \in D \cup fresh : n[p] \in Node
    BY <1>1, <1>9, NewNodeType
  <2>2. n = [p \in D \cup fresh |-> n[p]]
    BY DEF n
  <2>3. QED
    BY <2>1, <2>2
<1>11. \A p \in D : t.nodes[p].children = "loaded" => n[p].children = "loaded"
  BY <1>9
<1>12. Grafted(n)
  <2>1. ASSUME NEW q \in D \cup fresh, Len(q) > 1
        PROVE  /\ Parent(q) \in D \cup fresh /\ n[Parent(q)].children = "loaded"
               /\ Last(q) \in Sub[Last(Parent(q))]
    <3>1. CASE q \in D
      BY <1>1, <1>11, <2>1, <3>1 DEF Grafted
    <3>2. CASE q \in fresh
      BY <1>4, <1>6, <1>9, <3>2
    <3>3. QED
      BY <3>1, <3>2
  <2>2. ASSUME NEW p \in D \cup fresh, n[p].children = "loaded", NEW u \in Sub[Last(p)]
        PROVE  Append(p, u) \in D \cup fresh
    <3>1. CASE p \in filled
      BY <1>5, <3>1
    <3>2. CASE p \in D \ filled
      BY <1>1, <1>9, <2>2, <3>2 DEF Grafted
    <3>3. CASE p \in fresh
      BY <1>9, <2>2, <3>3, NewNodeType
    <3>4. QED
      BY <3>1, <3>2, <3>3
  <2>3. QED
    BY <1>9, <2>1, <2>2 DEF Grafted
<1>13. NodesOk(n)
  BY <1>1, <1>6, <1>9, <1>10, <1>12 DEF NodesOk
<1>14. TopOk(t.top, n)
  BY <1>1, <1>4, <1>6, <1>9 DEF TopOk
<1>15. DOMAIN t.nodes = {} => DOMAIN n = {}
  BY <1>4, <1>6, <1>9
<1>16. TreeOk(t2)
  BY <1>2, <1>3, <1>13, <1>14, <1>15 DEF TreeOk
<1>17. Keeps(t, t2)
  BY <1>3, <1>9, <1>11 DEF Keeps
<1>18. QED
  BY <1>3, <1>16, <1>17 DEF t2

LEMMA KeepsTransitive ==
  ASSUME NEW t1, NEW t2, NEW t3, Keeps(t1, t2), Keeps(t2, t3)
  PROVE  Keeps(t1, t3)
BY DEF Keeps

LEMMA KeepsSelf == ASSUME NEW t PROVE Keeps(t, t)
BY DEF Keeps

LEMMA NothingToKeep ==
  ASSUME NEW t1, DOMAIN t1.nodes = {}, NEW t2
  PROVE  Keeps(t1, t2)
BY DEF Keeps

BucketsStay == bucketJob \notin {"listed", "failed"}

LEMMA PolledOk ==
  ASSUME TreeOk(tree)
  PROVE  TreeOk(Polled) /\ (BucketsStay => Keeps(tree, Polled))
<1> DEFINE t1 == IF AsksForBuckets THEN Emptied("loading") ELSE tree
           t2 == RootInstalled(t1)
           t3 == Installed(t2)
           failed == {crawl[c].root : c \in {d \in Collected : crawl[d].phase # "ok"}}
<1>1. TreeOk(t1) /\ Keeps(tree, t1)
  <2>1. CASE AsksForBuckets
    <3>1. TreeOk(Emptied("loading"))
      BY EmptiedOk DEF ChildState
    <3>2. DOMAIN tree.nodes = {}
      BY <2>1 DEF AsksForBuckets, TreeOk
    <3>3. QED
      BY <2>1, <3>1, <3>2, NothingToKeep
  <2>2. CASE ~AsksForBuckets
    BY <2>2, KeepsSelf
  <2>3. QED
    BY <2>1, <2>2
<1> HIDE DEF t1
<1>2. TreeOk(t2) /\ (BucketsStay => Keeps(tree, t2))
  <2>1. CASE bucketJob = "listed"
    BY <2>1, TopLevelOk DEF RootInstalled, BucketsStay
  <2>2. CASE bucketJob = "failed"
    <3>1. TreeOk(Emptied("failed"))
      BY EmptiedOk DEF ChildState
    <3>2. QED
      BY <2>2, <3>1 DEF RootInstalled, BucketsStay
  <2>3. CASE bucketJob \notin {"listed", "failed"}
    BY <1>1, <2>3 DEF RootInstalled, BucketsStay
  <2>4. QED
    BY <2>1, <2>2, <2>3
<1> HIDE DEF t2
<1>3. TreeOk(t3) /\ (BucketsStay => Keeps(tree, t3))
  BY <1>2, InstalledOk, KeepsTransitive
<1> HIDE DEF t3, failed
<1>4. TreeOk(Marked(t3, failed)) /\ (BucketsStay => Keeps(tree, Marked(t3, failed)))
  BY <1>3, MarkedOk, KeepsTransitive
<1>5. Polled = Marked(t3, failed)
  BY DEF Polled, t1, t2, t3, failed
<1>6. QED
  BY <1>4, <1>5

(* The nodes after a click and after a jump.                                *)
LEMMA ClickedOk ==
  ASSUME NEW t, TreeOk(t), NEW p \in DOMAIN t.nodes
  PROVE  LET node == t.nodes[p]
             open == ~node.expanded
             loads == open /\ Wants(node)
             t2 == [t EXCEPT !.nodes[p] =
                     [expanded |-> open,
                      children |-> IF loads THEN "loading" ELSE node.children]]
         IN  TreeOk(t2) /\ Keeps(t, t2)
<1> DEFINE node == t.nodes[p]
           open == ~node.expanded
           loads == open /\ Wants(node)
           new == [expanded |-> open,
                   children |-> IF loads THEN "loading" ELSE node.children]
           n == [t.nodes EXCEPT ![p] = new]
           t2 == [t EXCEPT !.nodes[p] = new]
<1>1. node \in Node /\ t.nodes \in [DOMAIN t.nodes -> Node]
  BY DEF TreeOk, NodesOk
<1>2. new \in Node
  BY <1>1 DEF Node, ChildState
<1>3. new.children = "loaded" <=> node.children = "loaded"
  BY DEF Wants
<1> HIDE DEF new
<1>4. n \in [DOMAIN t.nodes -> Node]
  BY <1>1, <1>2
<1>5. \A q \in DOMAIN t.nodes : n[q].children = "loaded" <=> t.nodes[q].children = "loaded"
  BY <1>1, <1>3
<1>6. t2 = [t EXCEPT !.nodes = n]
  OBVIOUS
<1> HIDE DEF n
<1>7. TreeOk([t EXCEPT !.nodes = n]) /\ Keeps(t, [t EXCEPT !.nodes = n])
  BY <1>4, <1>5, Relabelled
<1>8. QED
  BY <1>6, <1>7 DEF new

LEMMA JumpsFromOk ==
  ASSUME NEW t, TreeOk(t)
  PROVE  TreeOk(JumpsFrom(t)) /\ Keeps(t, JumpsFrom(t)) /\ JumpsFrom(t).root = "loaded"
<1>1. CASE t.root = "loaded"
  BY <1>1, KeepsSelf DEF JumpsFrom
<1>2. CASE t.root # "loaded"
  <2>1. TreeOk(Emptied("loaded")) /\ Emptied("loaded").root = "loaded"
    BY EmptiedOk DEF ChildState
  <2>2. DOMAIN t.nodes = {}
    BY <1>2 DEF TreeOk
  <2>3. QED
    BY <1>2, <2>1, <2>2, NothingToKeep DEF JumpsFrom
<1>3. QED
  BY <1>1, <1>2

LEMMA AppendRange ==
  ASSUME NEW s \in Seq(Folders), IsInjective(s), NEW u \in Folders, u \notin Range(s)
  PROVE  LET r == Append(s, u) IN
           r \in Seq(Folders) /\ IsInjective(r) /\ Range(r) = Range(s) \cup {u}
<1> DEFINE r == Append(s, u)
<1>1. r \in Seq(Folders) /\ Len(r) = Len(s) + 1 /\ Len(s) \in Nat
  OBVIOUS
<1>2. \A i \in 1 .. Len(s) : r[i] = s[i] /\ r[i] # u
  BY DEF Range
<1>3. r[Len(s) + 1] = u
  OBVIOUS
<1>4. DOMAIN r = 1 .. Len(s) + 1 /\ DOMAIN s = 1 .. Len(s)
  OBVIOUS
<1> HIDE DEF r
<1>5. IsInjective(r)
  BY <1>1, <1>2, <1>3, <1>4 DEF IsInjective
<1>6. Range(r) = Range(s) \cup {u}
  <2>1. \A x \in Range(r) : x \in Range(s) \cup {u}
    BY <1>1, <1>2, <1>3, <1>4 DEF Range
  <2>2. u \in Range(r)
    BY <1>1, <1>3, <1>4 DEF Range
  <2>3. \A x \in Range(s) : x \in Range(r)
    BY <1>1, <1>2, <1>4 DEF Range
  <2>4. QED
    BY <2>1, <2>2, <2>3
<1>7. QED
  BY <1>1, <1>5, <1>6 DEF r

(* goto_browse in tree t: the node of the folder is there, and expanded.    *)
Jumped(t, u) ==
  LET there == There(t, u)
      node == IF there THEN t.nodes[<<u>>] ELSE NewNode
  IN  [t EXCEPT
        !.top = IF there THEN @ ELSE Append(@, u),
        !.nodes = [q \in DOMAIN @ \cup {<<u>>} |->
          IF q # <<u>> THEN @[q]
          ELSE [expanded |-> TRUE,
                children |-> IF Wants(node) THEN "loading" ELSE node.children]]]

LEMMA JumpedOk ==
  ASSUME NEW t, TreeOk(t), t.root = "loaded", NEW u \in Folders
  PROVE  TreeOk(Jumped(t, u)) /\ Keeps(t, Jumped(t, u))
<1> DEFINE D == DOMAIN t.nodes
           p == <<u>>
           there == There(t, u)
           node == IF there THEN t.nodes[p] ELSE NewNode
           new == [expanded |-> TRUE,
                   children |-> IF Wants(node) THEN "loading" ELSE node.children]
           top == IF there THEN t.top ELSE Append(t.top, u)
           n == [q \in D \cup {p} |-> IF q # p THEN t.nodes[q] ELSE new]
           t2 == Jumped(t, u)
<1>1. /\ D \subseteq Path /\ t.nodes \in [D -> Node] /\ Grafted(t.nodes)
      /\ TopOk(t.top, t.nodes)
  BY DEF TreeOk, NodesOk
<1>2. t2 = [root |-> t.root, top |-> top, nodes |-> n]
  <2>1. t2 = [t EXCEPT !.top = top, !.nodes = n]
    BY DEF Jumped
  <2> HIDE DEF n, top, t2
  <2>2. QED
    BY <2>1 DEF TreeOk
<1>3. t2.root = "loaded" /\ t2.top = top /\ t2.nodes = n
  <2> HIDE DEF n, top, t2
  <2> QED BY <1>2
<1>4. p \in Path /\ ~(Len(p) > 1) /\ p[1] = u
  BY TopPath
<1>5. there <=> p \in D
  <2>1. there => p \in D
    BY <1>1 DEF There, TopOk
  <2>2. p \in D => there
    BY <1>1, <1>4 DEF There, TopOk
  <2>3. QED
    BY <2>1, <2>2
<1>6. top \in Seq(Folders) /\ IsInjective(top) /\ Range(top) = Range(t.top) \cup {u}
  <2>1. t.top \in Seq(Folders) /\ IsInjective(t.top)
    BY <1>1 DEF TopOk
  <2>2. CASE there
    BY <2>1, <2>2 DEF There
  <2>3. CASE ~there
    <3>1. top = Append(t.top, u) /\ u \notin Range(t.top)
      BY <2>3 DEF There
    <3>2. QED
      BY <2>1, <3>1, AppendRange
  <2>4. QED
    BY <2>2, <2>3
<1> HIDE DEF top, t2, p
<1>7. node \in Node /\ (there => node = t.nodes[p])
                    /\ (~there => node.children = "unloaded")
  BY <1>1, <1>5, NewNodeType
<1> HIDE DEF node, there
<1>8. new \in Node /\ (new.children = "loaded" <=> node.children = "loaded")
  BY <1>7 DEF Node, ChildState, Wants
<1> HIDE DEF new
<1>9. /\ DOMAIN n = D \cup {p} /\ n[p] = new
      /\ \A q \in D \ {p} : n[q] = t.nodes[q]
  OBVIOUS
<1>10. n \in [D \cup {p} -> Node]
  BY <1>1, <1>8
<1> HIDE DEF n
<1>11. \A q \in D : n[q].children = "loaded" <=> t.nodes[q].children = "loaded"
  BY <1>5, <1>7, <1>8, <1>9
<1>12. n[p].children = "loaded" => p \in D
  BY <1>5, <1>7, <1>8, <1>9
<1>13. Grafted(n)
  <2>1. ASSUME NEW q \in D \cup {p}, Len(q) > 1
        PROVE  /\ Parent(q) \in D \cup {p} /\ n[Parent(q)].children = "loaded"
               /\ Last(q) \in Sub[Last(Parent(q))]
    <3>1. q # p
      BY <1>4, <2>1
    <3>2. q \in D
      BY <3>1
    <3>3. QED
      BY <1>1, <1>11, <2>1, <3>2 DEF Grafted
  <2>2. ASSUME NEW q \in D \cup {p}, n[q].children = "loaded", NEW v \in Sub[Last(q)]
        PROVE  Append(q, v) \in D \cup {p}
    BY <1>1, <1>11, <1>12, <2>2 DEF Grafted
  <2>3. QED
    BY <1>9, <2>1, <2>2 DEF Grafted
<1>14. NodesOk(n)
  BY <1>1, <1>4, <1>9, <1>10, <1>13 DEF NodesOk
<1>15. TopOk(top, n)
  BY <1>1, <1>4, <1>6, <1>9 DEF TopOk, p
<1>16. QED
  <2>1. TreeOk(t2)
    BY <1>2, <1>3, <1>14, <1>15 DEF TreeOk, ChildState
  <2>2. Keeps(t, t2)
    BY <1>3, <1>9, <1>11 DEF Keeps
  <2>3. QED
    BY <2>1, <2>2 DEF t2

(* A step keeps the tree well formed, and what is in it.                    *)
LEMMA TreeStep ==
  ASSUME TreeOk(tree), text \in Typed, [Next]_vars
  PROVE  /\ TreeOk(tree')
         /\ period' = period /\ BucketsStay => Keeps(tree, tree')
<1> DEFINE Goal == /\ TreeOk(tree')
                   /\ period' = period /\ BucketsStay => Keeps(tree, tree')
<1> SUFFICES Goal
  OBVIOUS
<1>1. TreeOk(Polled) /\ (BucketsStay => Keeps(tree, Polled))
  BY PolledOk
<1>2. ASSUME UNCHANGED tree PROVE Goal
  BY <1>2, KeepsSelf
<1>3. ASSUME tree' = Polled PROVE Goal
  BY <1>1, <1>3
<1>4. ASSUME NEW t, TreeOk(t), Keeps(Polled, t), tree' = t \/ tree' = Installed(t)
      PROVE  Goal
  <2>1. TreeOk(Installed(t)) /\ Keeps(Polled, Installed(t))
    BY <1>4, InstalledOk, KeepsTransitive
  <2>2. QED
    BY <1>1, <1>4, <2>1, KeepsTransitive
<1> HIDE DEF Goal
<1>5. CASE ClickNode
  <2>1. PICK p \in DOMAIN Polled.nodes :
          LET node == Polled.nodes[p]
              open == ~node.expanded
              loads == open /\ Wants(node)
              t == [Polled EXCEPT !.nodes[p] =
                     [expanded |-> open,
                      children |-> IF loads THEN "loading" ELSE node.children]]
          IN  IF loads THEN Load(t, Last(p))
              ELSE Frame(t, JobsLeft) /\ UNCHANGED raVars
    BY <1>5 DEF ClickNode
  <2> DEFINE node == Polled.nodes[p]
             open == ~node.expanded
             loads == open /\ Wants(node)
             t == [Polled EXCEPT !.nodes[p] =
                     [expanded |-> open,
                      children |-> IF loads THEN "loading" ELSE node.children]]
  <2>2. TreeOk(t) /\ Keeps(Polled, t)
    BY <1>1, ClickedOk
  <2>3. tree' = t \/ tree' = Installed(t)
    BY <2>1 DEF Load, Frame
  <2> HIDE DEF t
  <2>4. QED
    BY <1>4, <2>2, <2>3
<1>6. CASE Go
  <2> DEFINE base == JumpsFrom(Polled)
             t == Jumped(base, text)
  <2>1. TreeOk(base) /\ Keeps(Polled, base) /\ base.root = "loaded"
    BY <1>1, JumpsFromOk
  <2>2. tree' = t \/ tree' = Installed(t)
    BY <1>6 DEF Go, Load, Frame, Jumped
  <2> HIDE DEF base
  <2>3. TreeOk(t) /\ Keeps(base, t)
    BY <1>6, <2>1, JumpedOk DEF Go
  <2> HIDE DEF t
  <2>4. QED
    BY <1>4, <2>1, <2>2, <2>3, KeepsTransitive
<1>7. CASE Refresh
  <2>1. tree' = Emptied("loading") /\ period' = period + 1
    BY <1>7 DEF Refresh
  <2>2. TreeOk(Emptied("loading"))
    BY EmptiedOk DEF ChildState
  <2>3. QED
    BY <2>1, <2>2 DEF Goal
<1>8. CASE QuietFrame \/ FollowText \/ Type \/ Accept \/ ToggleMode \/ RefreshLocal
  BY <1>3, <1>8 DEF QuietFrame, FollowText, Type, Accept, ToggleMode, RefreshLocal, Polls, Frame
<1>9. CASE CancelOld \/ (\E c \in Crawls : CrawlStep(c)) \/ BucketsLand
             \/ LocalLists \/ S3Lands \/ UNCHANGED vars
  BY <1>2, <1>9 DEF CancelOld, CrawlStep, BucketsLand, LocalLists, S3Lands, treeVars, vars
<1>10. QED
  BY <1>5, <1>6, <1>7, <1>8, <1>9 DEF Next, Goal

------------------------------------------------------------------------------
(* The field and the suggestions.                                           *)

Below(u) ==
  IF u \in Folders THEN Sub[u]
  ELSE IF u \in LocalFolders THEN LocalSub[u]
  ELSE IF u = S3 THEN Range(Buckets) ELSE {}

Belongs(k) ==
  k.dirs # None => k.dirs \subseteq Below(k.parent) /\ (k.final => k.dirs = Below(k.parent))

(* Suggestions, and what is on its way for them, are those of one folder.   *)
SuggestionsOk(k) ==
  /\ k \in GotoCompletion
  /\ k.readAhead # None => k.parent \in Folders
  /\ k.job # None => k.job.parent = k.parent
  /\ Belongs(k)

(* What the field may name.                                                 *)
TextOk ==
  /\ mode \in {"local", "remote"}
  /\ text \in IF mode = "remote" THEN {None, S3} \cup Folders ELSE {None} \cup LocalFolders

LEMMA BelowType ==
  ASSUME NEW u \in Typed
  PROVE  /\ u \in {S3} \cup Folders => Below(u) \subseteq Folders
         /\ u \in LocalFolders => Below(u) \subseteq LocalFolders
         /\ u = None => Below(u) = {}
         /\ Below(u) \subseteq Folders \cup LocalFolders
<1>1. Range(Buckets) \subseteq Folders
  BY BucketsAssumption, RangeType
<1>2. QED
  BY <1>1, LocalAssumption, StoreAssumption DEF Below, Typed

LEMMA NoSuggestionsOk == SuggestionsOk(NoCompletion)
BY DEF SuggestionsOk, NoCompletion, GotoCompletion, Belongs, Typed

LEMMA ResetOk ==
  ASSUME text \in Typed
  PROVE  /\ SuggestionsOk(Reset) /\ Reset.readAhead = None
         /\ \A c \in Crawls : text \in Folders =>
              LET k == [Reset EXCEPT !.readAhead = c] IN
                SuggestionsOk(k) /\ k.readAhead = c
<1> DEFINE job == IF text \in LocalFolders
                    THEN [parent |-> text, done |-> FALSE, ok |-> FALSE] ELSE None
<1>1. job \in [parent : LocalFolders, done : BOOLEAN, ok : BOOLEAN] \cup {None}
  OBVIOUS
<1>2. job # None => job.parent = text
  OBVIOUS
<1> HIDE DEF job
<1>3. /\ Reset \in GotoCompletion /\ Reset.parent = text /\ Reset.dirs = None
      /\ Reset.job = job /\ Reset.readAhead = None
  <2>1. Reset = [NoCompletion EXCEPT !.parent = text, !.job = job]
    BY DEF Reset, job
  <2>2. /\ NoCompletion \in GotoCompletion
        /\ NoCompletion.dirs = None /\ NoCompletion.readAhead = None
    BY DEF NoCompletion, GotoCompletion, Typed
  <2>3. QED
    BY <1>1, <2>1, <2>2 DEF GotoCompletion
<1>4. SuggestionsOk(Reset) /\ Reset.readAhead = None
  BY <1>2, <1>3 DEF SuggestionsOk, Belongs
<1>5. ASSUME NEW c \in Crawls, text \in Folders
      PROVE  LET k == [Reset EXCEPT !.readAhead = c] IN
               SuggestionsOk(k) /\ k.readAhead = c
  <2> DEFINE k == [Reset EXCEPT !.readAhead = c]
  <2>1. /\ k \in GotoCompletion /\ k.parent = text /\ k.dirs = None
        /\ k.job = job /\ k.readAhead = c
    BY <1>3 DEF GotoCompletion
  <2> HIDE DEF k
  <2>2. SuggestionsOk(k) /\ k.readAhead = c
    BY <1>2, <1>5, <2>1 DEF SuggestionsOk, Belongs
  <2>3. QED
    BY <2>2 DEF k
<1>6. QED
  BY <1>4, <1>5

LEMMA CachedBelow ==
  ASSUME ReadAheadInv, NEW u \in Typed, CachedDirs(u)[1] # None
  PROVE  LET dirs == CachedDirs(u) IN
           /\ dirs[1] \subseteq Below(u) /\ dirs[2] \in BOOLEAN
           /\ dirs[2] => dirs[1] = Below(u)
<1>1. CASE u = S3
  <2>1. CachedDirs(u) = <<Range(Buckets), TRUE>>
    BY <1>1 DEF CachedDirs
  <2>2. Below(u) = Range(Buckets)
    BY <1>1, LocalAssumption DEF Below
  <2>3. QED
    BY <2>1, <2>2
<1>2. CASE u # S3
  <2>1. /\ u \in Folders /\ cache[u] # Unlisted
        /\ CachedDirs(u) = <<RA!Shows(u, cache[u]), cache[u].complete>>
    BY <1>2 DEF CachedDirs
  <2>2. cache[u].complete \in BOOLEAN /\ Below(u) = Sub[u]
    BY <2>1, ReadAheadTypes DEF Below
  <2>3. RA!Shows(u, cache[u]) = IF cache[u].complete THEN Sub[u] ELSE FirstPage[u]
    BY DEF RA!Shows
  <2>4. QED
    BY <2>1, <2>2, <2>3, StoreAssumption
<1>3. QED
  BY <1>1, <1>2

LEMMA UpdatedOk ==
  ASSUME ReadAheadInv, NEW k, SuggestionsOk(k)
  PROVE  /\ SuggestionsOk(Updated(k))
         /\ Updated(k).readAhead = k.readAhead /\ Updated(k).parent = k.parent
<1> DEFINE arrived == k.job # None /\ k.job.done
           k1 == IF k.job = None \/ ~k.job.done THEN k
                 ELSE [k EXCEPT !.job = None, !.final = TRUE,
                                !.dirs = IF k.job.ok THEN LocalSub[k.job.parent] ELSE None]
           dirs == CachedDirs(k.parent)
           k2 == [k1 EXCEPT !.dirs = dirs[1], !.final = dirs[2]]
<1>1. k \in GotoCompletion /\ k.parent \in Typed
  BY DEF SuggestionsOk, GotoCompletion
<1>2. SuggestionsOk(k1) /\ k1.readAhead = k.readAhead /\ k1.parent = k.parent
  <2>1. CASE k.job = None \/ ~k.job.done
    BY <2>1
  <2>2. CASE ~(k.job = None \/ ~k.job.done)
    <3> DEFINE d == IF k.job.ok THEN LocalSub[k.job.parent] ELSE None
    <3>1. k.job.parent = k.parent /\ k.parent \in LocalFolders
      BY <1>1, <2>2 DEF SuggestionsOk, GotoCompletion
    <3>2. Below(k.parent) = LocalSub[k.parent] /\ Below(k.parent) \subseteq LocalFolders
      BY <3>1, LocalAssumption DEF Below
    <3>3. /\ d \in {None} \cup SUBSET (Folders \cup LocalFolders)
          /\ d # None => d = Below(k.parent)
      BY <3>1, <3>2
    <3> HIDE DEF d
    <3>4. k1 = [parent |-> k.parent, dirs |-> d, final |-> TRUE, job |-> None,
                readAhead |-> k.readAhead]
      BY <1>1, <2>2 DEF GotoCompletion, d
    <3> HIDE DEF k1
    <3>5. QED
      BY <1>1, <3>3, <3>4 DEF SuggestionsOk, GotoCompletion, Belongs
  <2>3. QED
    BY <2>1, <2>2
<1> HIDE DEF k1
<1>3. ASSUME dirs[1] # None
      PROVE  SuggestionsOk(k2) /\ k2.readAhead = k.readAhead /\ k2.parent = k.parent
  <2>1. /\ dirs[1] \subseteq Below(k.parent) /\ dirs[2] \in BOOLEAN
        /\ dirs[2] => dirs[1] = Below(k.parent)
    BY <1>1, <1>3, CachedBelow
  <2>2. Below(k.parent) \subseteq Folders \cup LocalFolders
    BY <1>1, BelowType
  <2> HIDE DEF dirs
  <2>3. k1 \in GotoCompletion
    BY <1>2 DEF SuggestionsOk
  <2>4. dirs[1] \in {None} \cup SUBSET (Folders \cup LocalFolders)
    BY <2>1, <2>2
  <2>5. /\ k2 \in GotoCompletion /\ k2.parent = k1.parent /\ k2.dirs = dirs[1]
        /\ k2.final = dirs[2] /\ k2.job = k1.job /\ k2.readAhead = k1.readAhead
    BY <2>1, <2>3, <2>4 DEF GotoCompletion
  <2> HIDE DEF k2
  <2>6. QED
    BY <1>2, <2>1, <2>5 DEF SuggestionsOk, Belongs
<1>4. Updated(k) = IF mode = "remote" /\ ~k1.final /\ dirs[1] # None THEN k2 ELSE k1
  BY DEF Updated, k1
<1> HIDE DEF k2, dirs
<1>5. QED
  BY <1>2, <1>3, <1>4

------------------------------------------------------------------------------
(* The inductive invariant.                                                 *)

(* No read-ahead runs that is not cancelled and that the app has forgotten. *)
JobsOk ==
  /\ treeJobs \subseteq Crawls
  /\ \A c \in Crawls :
       RA!Running(c) => c \in cancelled \cup treeJobs \cup {complete.readAhead}

FlagsOk ==
  /\ bucketJob \in BucketJob
  /\ s3 \in BOOLEAN /\ s3Asked \in BOOLEAN
  /\ acts \in 0 .. MaxActs

IInv ==
  /\ ReadAheadInv
  /\ TreeOk(tree)
  /\ SuggestionsOk(complete)
  /\ TextOk
  /\ JobsOk
  /\ FlagsOk

LEMMA TextTyped == TextOk => text \in Typed
BY DEF TextOk, Typed

LEMMA InitIInv == Init => IInv
<1> SUFFICES ASSUME Init PROVE IInv
  OBVIOUS
<1>1. ReadAheadInv
  BY ReadAheadInit DEF Init
<1>2. TreeOk(tree)
  BY EmptiedOk DEF Init, ChildState
<1>3. SuggestionsOk(complete) /\ TextOk
  BY NoSuggestionsOk DEF Init, TextOk
<1>4. JobsOk
  <2>1. \A c \in Crawls : crawl[c].phase = "idle"
    BY DEF Init, RA!Init, RA!Idle, RA!New
  <2>2. QED
    BY <2>1 DEF Init, JobsOk, RA!Running
<1>5. FlagsOk
  <2>1. acts \in 0 .. MaxActs
    BY MaxActsAssumption DEF Init
  <2>2. bucketJob \in BucketJob /\ s3 \in BOOLEAN /\ s3Asked \in BOOLEAN
    BY DEF Init, BucketJob
  <2>3. QED
    BY <2>1, <2>2 DEF FlagsOk
<1>6. QED
  BY <1>1, <1>2, <1>3, <1>4, <1>5 DEF IInv

LEMMA FlagsStep ==
  ASSUME FlagsOk, [Next]_vars
  PROVE  FlagsOk'
<1>1. acts' \in 0 .. MaxActs
  <2>1. acts' = acts \/ (acts < MaxActs /\ acts' = acts + 1)
    BY DEF Next, vars, fieldVars, QuietFrame, CancelOld, FollowText, Type, Accept,
           ToggleMode, ClickNode, Go, Refresh, RefreshLocal, UserFrame, Acts, CrawlStep,
           BucketsLand, LocalLists, S3Lands
  <2>2. QED
    BY <2>1, MaxActsAssumption DEF FlagsOk
<1>2. bucketJob' \in BucketJob
  <2>1. bucketJob' \in {bucketJob, "running", "listed", "failed", None}
    BY DEF Next, vars, treeVars, QuietFrame, CancelOld, FollowText, Type, Accept,
           ToggleMode, ClickNode, Go, Refresh, RefreshLocal, Polls, Load, Frame,
           CrawlStep, BucketsLand, LocalLists, S3Lands
  <2>2. QED
    BY <2>1 DEF FlagsOk, BucketJob
<1>3. s3' \in BOOLEAN
  <2>1. s3' \in {s3, TRUE, FALSE} \/ s3' = (s3 \/ bucketJob = "listed")
    BY DEF Next, vars, fieldVars, QuietFrame, CancelOld, FollowText, Type, Accept,
           ToggleMode, ClickNode, Go, Refresh, RefreshLocal, Polls, Load, Frame,
           CrawlStep, BucketsLand, LocalLists, S3Lands
  <2>2. QED
    BY <2>1 DEF FlagsOk
<1>4. s3Asked' \in BOOLEAN
  <2>1. s3Asked' \in {s3Asked, FALSE} \/ s3Asked' = (s3Asked \/ (text = S3 /\ ~s3))
    BY DEF Next, vars, fieldVars, QuietFrame, CancelOld, FollowText, Type, Accept,
           ToggleMode, ClickNode, Go, Refresh, RefreshLocal, UserFrame, Acts,
           CrawlStep, BucketsLand, LocalLists, S3Lands
  <2>2. QED
    BY <2>1 DEF FlagsOk
<1>5. QED
  BY <1>1, <1>2, <1>3, <1>4 DEF FlagsOk

(* A suggestion accepted is a folder of the field's kind.                   *)
LEMMA SuggestionType ==
  ASSUME TextOk, NEW k, SuggestionsOk(k), k.parent = text, k.dirs # None, NEW u \in k.dirs
  PROVE  u \in IF mode = "remote" THEN Folders ELSE LocalFolders
<1>1. u \in Below(text)
  BY DEF SuggestionsOk, Belongs
<1>2. QED
  BY <1>1, BelowType, TextTyped DEF TextOk

LEMMA FieldStep ==
  ASSUME IInv, [Next]_vars
  PROVE  SuggestionsOk(complete') /\ TextOk'
<1>1. ReadAheadInv /\ SuggestionsOk(complete) /\ TextOk /\ text \in Typed
  BY TextTyped DEF IInv
<1>2. SuggestionsOk(Updated(complete)) /\ Updated(complete).parent = complete.parent
  BY <1>1, UpdatedOk
<1>3. CASE QuietFrame \/ ClickNode \/ Go
  BY <1>1, <1>2, <1>3 DEF QuietFrame, ClickNode, Go, UserFrame, TextOk
<1>4. CASE CancelOld
  <2>1. complete' = [complete EXCEPT !.readAhead = None] /\ UNCHANGED <<mode, text>>
    BY <1>4 DEF CancelOld
  <2>2. /\ complete' \in GotoCompletion /\ complete'.readAhead = None
        /\ complete'.parent = complete.parent /\ complete'.job = complete.job
        /\ complete'.dirs = complete.dirs /\ complete'.final = complete.final
    BY <1>1, <2>1 DEF SuggestionsOk, GotoCompletion
  <2>3. QED
    BY <1>1, <2>1, <2>2 DEF SuggestionsOk, Belongs, TextOk
<1>5. CASE FollowText
  <2>1. SuggestionsOk(complete')
    <3>1. CASE text \in Folders
      <4>1. PICK c \in Idle : complete' = Updated([Reset EXCEPT !.readAhead = c])
        BY <1>5, <3>1 DEF FollowText
      <4>2. SuggestionsOk([Reset EXCEPT !.readAhead = c])
        BY <1>1, <3>1, ResetOk DEF Idle
      <4>3. QED
        BY <1>1, <4>1, <4>2, UpdatedOk
    <3>2. CASE text \notin Folders
      BY <1>1, <1>5, <3>2, ResetOk, UpdatedOk DEF FollowText
    <3>3. QED
      BY <3>1, <3>2
  <2>2. TextOk'
    BY <1>1, <1>5 DEF FollowText, TextOk
  <2>3. QED
    BY <2>1, <2>2
<1>6. CASE Type
  <2>1. SuggestionsOk(complete') /\ mode' = mode
    BY <1>2, <1>6 DEF Type, UserFrame
  <2>2. text' \in {None} \cup (IF mode = "remote" THEN {S3} \cup Typeable ELSE LocalFolders)
    BY <1>6 DEF Type
  <2>3. QED
    BY <1>1, <2>1, <2>2, TypeableAssumption DEF TextOk
<1>7. CASE Accept
  <2>1. SuggestionsOk(complete') /\ mode' = mode /\ text = complete.parent
    BY <1>2, <1>7 DEF Accept, UserFrame, Acts, Moved
  <2>2. Updated(complete).dirs # None /\ text' \in Updated(complete).dirs
    BY <1>7 DEF Accept
  <2>3. text' \in IF mode = "remote" THEN Folders ELSE LocalFolders
    BY <1>1, <1>2, <2>1, <2>2, SuggestionType
  <2>4. QED
    BY <1>1, <2>1, <2>3 DEF TextOk
<1>8. CASE ToggleMode
  BY <1>1, <1>2, <1>8 DEF ToggleMode, UserFrame, TextOk
<1>9. CASE Refresh \/ RefreshLocal
  BY <1>1, <1>9, NoSuggestionsOk DEF Refresh, RefreshLocal, Afresh, TextOk
<1>10. CASE LocalLists
  <2>1. PICK ok \in BOOLEAN :
          complete' = [complete EXCEPT !.job.done = TRUE, !.job.ok = ok]
    BY <1>10 DEF LocalLists
  <2>2. complete.job # None /\ UNCHANGED <<mode, text>>
    BY <1>10 DEF LocalLists
  <2> DEFINE job == complete'.job
  <2>3. /\ complete.job \in [parent : LocalFolders, done : BOOLEAN, ok : BOOLEAN]
        /\ complete \in GotoCompletion
    BY <1>1, <2>2 DEF SuggestionsOk, GotoCompletion
  <2>4. job = [[complete.job EXCEPT !.done = TRUE] EXCEPT !.ok = ok]
    BY <2>1, <2>3 DEF GotoCompletion
  <2>5. job \in [parent : LocalFolders, done : BOOLEAN, ok : BOOLEAN]
        /\ job.parent = complete.job.parent
    BY <2>3, <2>4
  <2>6. /\ complete' \in GotoCompletion /\ complete'.readAhead = complete.readAhead
        /\ complete'.parent = complete.parent
        /\ complete'.dirs = complete.dirs /\ complete'.final = complete.final
    BY <2>1, <2>3, <2>5 DEF GotoCompletion
  <2>7. QED
    BY <1>1, <2>2, <2>5, <2>6 DEF SuggestionsOk, Belongs, TextOk
<1>11. CASE (\E c \in Crawls : CrawlStep(c)) \/ BucketsLand \/ S3Lands \/ UNCHANGED vars
  <2>1. UNCHANGED <<mode, text, complete>>
    BY <1>11 DEF CrawlStep, BucketsLand, S3Lands, vars, fieldVars
  <2>2. QED
    BY <1>1, <2>1 DEF TextOk
<1>12. QED
  BY <1>3, <1>4, <1>5, <1>6, <1>7, <1>8, <1>9, <1>10, <1>11 DEF Next

(* Jobs collected have ended.                                               *)
LEMMA JobsLeftRun ==
  ASSUME NEW c \in treeJobs, RA!Running(c)
  PROVE  c \in JobsLeft
BY DEF JobsLeft, Collected, RA!Running

(* In local mode there is no read-ahead for the suggestions.                *)
LEMMA LocalReadsNothing ==
  ASSUME IInv, mode = "local", ~Moved
  PROVE  complete.readAhead = None
BY LocalAssumption DEF IInv, TextOk, SuggestionsOk, Moved

(* The read-ahead that a step starts is known to the app.                   *)
LEMMA JobsStep ==
  ASSUME IInv, [Next]_vars
  PROVE  JobsOk'
<1> DEFINE Known(jobs, c) ==
      \A d \in Crawls : RA!Running(d) => d \in cancelled \cup jobs \cup {c}
<1>1. /\ treeJobs \subseteq Crawls /\ JobsLeft \subseteq treeJobs
      /\ Known(treeJobs, complete.readAhead)
      /\ crawl = [d \in Crawls |-> crawl[d]]
  BY ReadAheadTypes DEF IInv, JobsOk, JobsLeft
<1>2. Known(JobsLeft, complete.readAhead)
  BY <1>1, JobsLeftRun
<1>3. Updated(complete).readAhead = complete.readAhead
  BY UpdatedOk DEF IInv
<1>4. ASSUME UNCHANGED <<crawl, cancelled>>, treeJobs' = JobsLeft,
             complete'.readAhead = complete.readAhead
      PROVE  JobsOk'
  BY <1>1, <1>2, <1>4 DEF JobsOk, RA!Running
<1>5. ASSUME NEW c \in Idle, NEW u, Started(c, u), UNCHANGED cancelled,
             treeJobs' \in {JobsLeft, JobsLeft \cup {c}},
             c \in treeJobs' \cup {complete'.readAhead},
             complete.readAhead \in {None, complete'.readAhead}
      PROVE  JobsOk'
  <2>1. \A d \in Crawls \ {c} : RA!Running(d)' => RA!Running(d)
    BY <1>1, <1>5 DEF Started, RA!Running
  <2>2. treeJobs' \subseteq Crawls /\ JobsLeft \subseteq treeJobs'
    BY <1>1, <1>5 DEF Idle
  <2>3. None \notin Crawls
    BY LocalAssumption
  <2>4. ASSUME NEW d \in Crawls, RA!Running(d)'
        PROVE  d \in cancelled' \cup treeJobs' \cup {complete'.readAhead}
    <3>1. CASE d = c
      BY <1>5, <3>1
    <3>2. CASE d # c
      BY <1>2, <1>5, <2>1, <2>2, <2>3, <2>4, <3>2
    <3>3. QED
      BY <3>1, <3>2
  <2>5. QED
    BY <2>2, <2>4 DEF JobsOk
<1> HIDE DEF Known
<1>6. ASSUME NEW t, NEW u, Load(t, u), complete' = Updated(complete) PROVE JobsOk'
  <2>1. PICK c \in Idle : /\ Started(c, u) /\ treeJobs' = JobsLeft \cup {c}
                          /\ UNCHANGED cancelled
    BY <1>6 DEF Load, Frame
  <2>2. complete'.readAhead = complete.readAhead
    BY <1>3, <1>6
  <2>3. QED
    BY <1>5, <2>1, <2>2
<1>7. CASE QuietFrame \/ Type \/ Accept \/ ToggleMode
  <2>1. complete' = Updated(complete) /\ treeJobs' = JobsLeft /\ UNCHANGED raVars
    BY <1>7 DEF QuietFrame, Type, Accept, ToggleMode, UserFrame, Polls, Frame
  <2>2. QED
    BY <1>3, <1>4, <2>1 DEF raVars
<1>8. CASE CancelOld
  <2>1. /\ complete' = [complete EXCEPT !.readAhead = None]
        /\ cancelled' = IF Cancels THEN cancelled \cup {complete.readAhead} ELSE cancelled
        /\ UNCHANGED <<crawl, treeJobs>> /\ complete.readAhead # None
    BY <1>8 DEF CancelOld, treeVars
  <2>2. RA!Running(complete.readAhead) => complete.readAhead \in cancelled'
    BY <2>1 DEF Cancels
  <2>3. \A d \in Crawls : RA!Running(d) => d \in cancelled' \cup treeJobs
    BY <1>1, <2>1, <2>2 DEF Known
  <2>4. QED
    BY <1>1, <2>1, <2>3 DEF JobsOk, RA!Running
<1>9. CASE FollowText
  <2>1. complete.readAhead = None /\ treeJobs' = JobsLeft /\ UNCHANGED cancelled
        /\ text \in Typed
    BY <1>9, TextTyped DEF FollowText, Frame, IInv
  <2>2. CASE text \in Folders
    <3>1. PICK c \in Idle : /\ Started(c, text)
                            /\ complete' = Updated([Reset EXCEPT !.readAhead = c])
      BY <1>9, <2>2 DEF FollowText
    <3> DEFINE k == [Reset EXCEPT !.readAhead = c]
    <3>2. SuggestionsOk(k) /\ k.readAhead = c
      BY <2>1, <2>2, ResetOk DEF Idle
    <3> HIDE DEF k
    <3>3. Updated(k).readAhead = c
      BY <3>2, UpdatedOk DEF IInv
    <3>4. complete'.readAhead = c
      BY <3>1, <3>3 DEF k
    <3>5. QED
      BY <1>5, <2>1, <3>1, <3>4
  <2>3. CASE text \notin Folders
    <3>1. complete' = Updated(Reset) /\ UNCHANGED crawl
      BY <1>9, <2>3 DEF FollowText
    <3>2. complete'.readAhead = None
      BY <2>1, <3>1, ResetOk, UpdatedOk DEF IInv
    <3>3. QED
      BY <1>4, <2>1, <3>1, <3>2
  <2>4. QED
    BY <2>2, <2>3
<1>10. CASE ClickNode
  <2>1. complete' = Updated(complete)
    BY <1>10 DEF ClickNode, UserFrame
  <2>2. (\E t, u : Load(t, u)) \/ (treeJobs' = JobsLeft /\ UNCHANGED raVars)
    BY <1>10 DEF ClickNode, Frame
  <2>3. QED
    BY <1>3, <1>4, <1>6, <2>1, <2>2 DEF raVars
<1>11. CASE Go
  <2>1. complete' = Updated(complete)
    BY <1>11 DEF Go, UserFrame
  <2>2. (\E t, u : Load(t, u)) \/ (treeJobs' = JobsLeft /\ UNCHANGED raVars)
    BY <1>11 DEF Go, Frame
  <2>3. QED
    BY <1>3, <1>4, <1>6, <2>1, <2>2 DEF raVars
<1>12. CASE Refresh
  <2>1. /\ cancelled' = cancelled \cup Unwanted /\ treeJobs' = {} /\ UNCHANGED crawl
    BY <1>12 DEF Refresh
  <2>2. \A d \in Crawls : RA!Running(d) => d \in cancelled \cup Unwanted
    BY <1>2, LocalAssumption DEF Known, Unwanted
  <2>3. QED
    BY <2>1, <2>2 DEF JobsOk, RA!Running
<1>13. CASE RefreshLocal
  <2>1. /\ complete' = NoCompletion /\ treeJobs' = JobsLeft /\ UNCHANGED raVars
        /\ mode = "local" /\ ~Moved
    BY <1>13 DEF RefreshLocal, Afresh, Polls, Frame, Acts
  <2>2. complete'.readAhead = None /\ complete.readAhead = None
    BY <2>1, LocalReadsNothing DEF NoCompletion
  <2>3. QED
    BY <1>4, <2>1, <2>2 DEF raVars
<1>14. CASE \E c \in Crawls : CrawlStep(c)
  <2>1. PICK c \in Crawls : CrawlStep(c)
    BY <1>14
  <2>2. /\ \A d \in Crawls : RA!Running(d)' => RA!Running(d)
        /\ UNCHANGED <<cancelled, treeJobs, complete>>
    BY <2>1, NobodyStarts DEF CrawlStep, IInv, treeVars, fieldVars
  <2>3. QED
    BY <1>1, <2>2 DEF JobsOk, Known
<1>15. CASE BucketsLand \/ S3Lands \/ UNCHANGED vars
  <2>1. UNCHANGED <<crawl, cancelled, treeJobs, complete>>
    BY <1>15 DEF BucketsLand, S3Lands, vars, raVars, treeVars, fieldVars
  <2>2. QED
    BY <1>1, <2>1 DEF JobsOk, Known, RA!Running
<1>16. CASE LocalLists
  <2>1. UNCHANGED <<crawl, cancelled, treeJobs>> /\ complete'.readAhead = complete.readAhead
    BY <1>16 DEF LocalLists, raVars, treeVars, IInv, SuggestionsOk, GotoCompletion
  <2>2. QED
    BY <1>1, <2>1 DEF JobsOk, Known, RA!Running
<1>17. QED
  BY <1>7, <1>8, <1>9, <1>10, <1>11, <1>12, <1>13, <1>14, <1>15, <1>16 DEF Next

(* Every step of the browser is one of the read-aheads, or none.            *)
LEMMA ReadAheadsStep ==
  ASSUME IInv, [Next]_vars
  PROVE  [RA!Next]_raVars
<1>1. ASSUME NEW c \in Idle, NEW u \in Folders, Started(c, u),
             UNCHANGED <<cache, replies, cancelled, period>>
      PROVE  RA!Next
  BY <1>1 DEF Idle, Started, RA!Next, RA!Start
<1>2. ASSUME NEW t, NEW u \in Folders, Load(t, u) PROVE RA!Next
  BY <1>1, <1>2 DEF Load
<1>3. CASE CancelOld
  <2>1. /\ cancelled' = IF Cancels THEN cancelled \cup {complete.readAhead} ELSE cancelled
        /\ UNCHANGED <<cache, crawl, replies, period>>
        /\ complete.readAhead \in Crawls
    BY <1>3 DEF CancelOld, IInv, SuggestionsOk, GotoCompletion
  <2>2. CASE Cancels /\ complete.readAhead \notin cancelled
    BY <2>1, <2>2 DEF Cancels, RA!Next, RA!Cancel
  <2>3. CASE ~(Cancels /\ complete.readAhead \notin cancelled)
    BY <2>1, <2>3 DEF raVars
  <2>4. QED
    BY <2>2, <2>3
<1>4. CASE FollowText
  BY <1>1, <1>4 DEF FollowText, raVars
<1>5. CASE ClickNode
  <2>1. \A p \in DOMAIN Polled.nodes : Last(p) \in Folders
    BY PolledOk, LastType DEF IInv, TreeOk, NodesOk
  <2>2. (\E p \in DOMAIN Polled.nodes : \E t : Load(t, Last(p))) \/ UNCHANGED raVars
    BY <1>5 DEF ClickNode
  <2>3. QED
    BY <1>2, <2>1, <2>2
<1>6. CASE Go
  <2>1. text \in Folders /\ ((\E t : Load(t, text)) \/ UNCHANGED raVars)
    BY <1>6 DEF Go
  <2>2. QED
    BY <1>2, <2>1
<1>7. CASE Refresh
  <2>1. Unwanted \subseteq {c \in Crawls : RA!Running(c)}
    BY DEF Unwanted, JobsLeft, IInv, JobsOk, SuggestionsOk, GotoCompletion
  <2>2. \A c \in Crawls : RA!Running(c) => c \in cancelled \cup Unwanted
    BY JobsLeftRun, LocalAssumption DEF IInv, JobsOk, Unwanted
  <2>3. cancelled \cup Unwanted = cancelled \cup {c \in Crawls : RA!Running(c)}
    BY <2>1, <2>2
  <2>4. RA!Refresh
    BY <1>7, <2>3 DEF Refresh, RA!Refresh
  <2>5. QED
    BY <2>4 DEF RA!Next
<1>8. CASE \E c \in Crawls : CrawlStep(c)
  BY <1>8 DEF CrawlStep, RA!Next
<1>9. CASE QuietFrame \/ Type \/ Accept \/ ToggleMode \/ RefreshLocal \/ BucketsLand
             \/ LocalLists \/ S3Lands \/ UNCHANGED vars
  BY <1>9 DEF QuietFrame, Type, Accept, ToggleMode, RefreshLocal, BucketsLand,
              LocalLists, S3Lands, vars
<1>10. QED
  BY <1>3, <1>4, <1>5, <1>6, <1>7, <1>8, <1>9 DEF Next

LEMMA NextIInv == IInv /\ [Next]_vars => IInv'
<1> SUFFICES ASSUME IInv, [Next]_vars PROVE IInv'
  OBVIOUS
<1>1. ReadAheadInv'
  BY ReadAheadsStep, ReadAheadStep DEF IInv
<1>2. TreeOk(tree')
  BY TreeStep, TextTyped DEF IInv
<1>3. SuggestionsOk(complete') /\ TextOk'
  BY FieldStep
<1>4. JobsOk' /\ FlagsOk'
  BY JobsStep, FlagsStep DEF IInv
<1>5. QED
  BY <1>1, <1>2, <1>3, <1>4 DEF IInv

LEMMA InvariantHolds == Spec => []IInv
BY InitIInv, NextIInv, PTL DEF Spec

------------------------------------------------------------------------------
(* The theorems.                                                            *)

THEOREM TypeCorrect == Spec => []TypeOK
<1>1. IInv => TypeOK
  <2> SUFFICES ASSUME IInv PROVE TypeOK
    OBVIOUS
  <2>1. tree.root \in ChildState /\ IsInjective(tree.top) /\ Range(tree.top) \subseteq Folders
    BY RangeType DEF IInv, TreeOk, TopOk
  <2>2. /\ DOMAIN tree.nodes \subseteq Seq(Folders) \ {<<>>}
        /\ \A p \in DOMAIN tree.nodes : tree.nodes[p] \in Node
    BY DEF IInv, TreeOk, NodesOk, Path
  <2>3. {p[1] : p \in DOMAIN tree.nodes} = Range(tree.top)
    <3>1. \A p \in DOMAIN tree.nodes : p[1] \in Range(tree.top)
      BY DEF IInv, TreeOk, TopOk
    <3>2. \A u \in Range(tree.top) : <<u>> \in DOMAIN tree.nodes /\ <<u>>[1] = u
      BY DEF IInv, TreeOk, TopOk
    <3>3. QED
      BY <3>1, <3>2
  <2>4. treeJobs \subseteq Crawls /\ mode \in {"local", "remote"} /\ text \in Typed
    BY TextTyped DEF IInv, JobsOk, TextOk
  <2>5. complete \in GotoCompletion
    BY DEF IInv, SuggestionsOk
  <2>6. bucketJob \in BucketJob /\ s3 \in BOOLEAN /\ s3Asked \in BOOLEAN /\ acts \in 0 .. MaxActs
    BY DEF IInv, FlagsOk
  <2>7. QED
    BY <2>1, <2>2, <2>3, <2>4, <2>5, <2>6 DEF TypeOK
<1>2. QED
  BY <1>1, InvariantHolds, PTL

(* The app starts, cancels and abandons read-aheads only as ReadAhead says, *)
(* and so a Refresh leaves none running that nobody waits for: spawn,       *)
(* update_goto_completion and the Refresh of browse_remote.                 *)
THEOREM ReadAheadsUsed == Spec => ReadAheadUsed
<1>1. Init => RA!Init
  BY DEF Init
<1>2. IInv /\ [Next]_vars => [RA!Next]_raVars
  BY ReadAheadsStep
<1>3. QED
  BY <1>1, <1>2, InvariantHolds, PTL DEF Spec, ReadAheadUsed

(* A listed folder shows all its subfolders, and an unlisted one none,      *)
(* whatever is cached page by page meanwhile (install_cached).              *)
THEOREM WholeListingShown == Spec => []ShowsWholeListing
<1>1. IInv => ShowsWholeListing
  <2> SUFFICES ASSUME IInv, NEW p \in DOMAIN tree.nodes PROVE
        {q \in DOMAIN tree.nodes : Len(q) = Len(p) + 1 /\ SubSeq(q, 1, Len(p)) = p}
          = IF tree.nodes[p].children = "loaded" THEN {Append(p, u) : u \in Sub[Last(p)]}
            ELSE {}
    BY DEF ShowsWholeListing
  <2> DEFINE D == DOMAIN tree.nodes
             shown == {q \in D : Len(q) = Len(p) + 1 /\ SubSeq(q, 1, Len(p)) = p}
  <2>1. D \subseteq Path /\ Grafted(tree.nodes)
    BY DEF IInv, TreeOk, NodesOk
  <2>2. p \in Path /\ Last(p) \in Folders /\ Len(p) \in Nat /\ Len(p) > 0
    <3>1. p \in Seq(Folders) /\ p # <<>>
      BY <2>1 DEF Path
    <3>2. Len(p) \in Nat /\ Len(p) # 0
      BY <3>1, EmptySeq
    <3>3. QED
      BY <2>1, <3>2, LastType
  <2>3. ASSUME NEW q \in shown
        PROVE  /\ tree.nodes[p].children = "loaded"
               /\ Last(q) \in Sub[Last(p)] /\ q = Append(p, Last(q))
    <3>1. q \in D /\ q \in Path /\ Len(q) = Len(p) + 1 /\ SubSeq(q, 1, Len(p)) = p
      BY <2>1, <2>3
    <3>2. Len(q) > 1 /\ Len(q) - 1 = Len(p)
      BY <2>2, <3>1
    <3>3. Parent(q) = p
      BY <3>1, <3>2 DEF Parent
    <3>4. Append(p, Last(q)) = q
      BY <3>1, <3>2, <3>3, ParentPath
    <3>5. QED
      BY <2>1, <3>1, <3>2, <3>3, <3>4 DEF Grafted
  <2>4. ASSUME tree.nodes[p].children = "loaded", NEW u \in Sub[Last(p)]
        PROVE  Append(p, u) \in shown
    <3>1. Append(p, u) \in D /\ u \in Folders
      BY <2>1, <2>2, <2>4, StoreAssumption DEF Grafted
    <3>2. Len(Append(p, u)) = Len(p) + 1 /\ Parent(Append(p, u)) = p
      BY <2>2, <3>1, ChildPath
    <3>3. SubSeq(Append(p, u), 1, Len(p)) = p
      BY <2>2, <3>2 DEF Parent
    <3>4. QED
      BY <3>1, <3>2, <3>3
  <2> HIDE DEF shown
  <2>5. shown = IF tree.nodes[p].children = "loaded" THEN {Append(p, u) : u \in Sub[Last(p)]}
                ELSE {}
    BY <2>3, <2>4
  <2>6. QED
    BY <2>5 DEF shown
<1>2. QED
  BY <1>1, InvariantHolds, PTL

(* Suggestions are subfolders of the folder typed, and final only when they *)
(* are all of them, however late a listing comes (update_goto_completion).  *)
THEOREM SuggestionsAreRight == Spec => []SuggestionsBelong
<1>1. IInv => SuggestionsBelong
  BY DEF IInv, SuggestionsOk, Belongs, Below, SuggestionsBelong
<1>2. QED
  BY <1>1, InvariantHolds, PTL

Stay ==
  period' = period /\ bucketJob \notin {"listed", "failed"} =>
    /\ DOMAIN tree.nodes \subseteq DOMAIN tree'.nodes
    /\ \A p \in DOMAIN tree.nodes :
         tree.nodes[p].children = "loaded" => tree'.nodes[p].children = "loaded"

(* Nothing but Refresh and the list of buckets takes a folder from the      *)
(* tree or forgets its listing (goto_browse, install_cached, poll_browse).  *)
THEOREM FoldersStay == Spec => NodesStay
<1>1. IInv /\ [Next]_vars => [Stay]_vars
  <2> SUFFICES ASSUME IInv, [Next]_vars, period' = period, BucketsStay PROVE Keeps(tree, tree')
    BY DEF Stay, Keeps, BucketsStay
  <2>1. QED
    BY TreeStep, TextTyped DEF IInv
<1>2. QED
  BY <1>1, InvariantHolds, PTL DEF Spec, NodesStay, Stay
=============================================================================
