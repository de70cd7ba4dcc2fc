----------------------------- MODULE TableProofs -----------------------------
(***************************************************************************)
(* Proofs about the two sides of an open table, for any number of requests, *)
(* rows and columns. Of ViewBuild: its invariants, and that it implements  *)
(* ViewPromise. Of GridTable: that every fetch returns the cells asked for, *)
(* that what is copied is what was drawn as selected, that a column dropped *)
(* takes the slot of its target, and what its operators compute.           *)
(***************************************************************************)
EXTENDS ViewBuild, GridTable, FiniteSetTheorems, FunctionTheorems, SequenceTheorems,
        WellFoundedInduction, TLAPS

------------------------------------------------------------------------------
(* The view machinery. *)

(* The view lock is held exactly by the worker about to store. *)
LockHeld == \A r \in Requests : worker[r] = "store" <=> viewLock = r

(* Workers exist only for build requests that were made. *)
OnlyBuildsWork ==
  /\ kind[0] = "identity"
  /\ \A r \in Requests : worker[r] # "absent" => r <= asked /\ kind[r] = "build"

(* What the UI thread is in the middle of answers the latest request. *)
UiServesLatest ==
  /\ ui \in {"none", "settle"} => kind[asked] # "build"
  /\ ui \in {"raise", "spawn"} =>
       kind[asked] = "build" /\ shown < asked /\ worker[asked] = "absent"

(* Only the latest request can still hold a good token. *)
SupersededIsCancelled ==
  /\ kind[asked] = "build" => token = asked
  /\ \A r \in Requests : Live(r) /\ r < asked => r \in cancelled
  /\ ~dropped /\ kind[asked] = "build" => asked \notin cancelled

(* A worker stores at most once, and only over something older. *)
StoresForward ==
  \A r \in Requests :
    /\ Live(r) => shown # r
    /\ worker[r] = "store" => shown < r

(* Once cleared, cleared: the view answers the latest request. *)
ClearedIsShown ==
  ui \in {"idle", "settle"} /\ kind[asked] # "build" => shown = asked

(* Between two calls the flag is up only for the latest request.           *)
FlagIsLatest ==
  ui = "idle" /\ building =>
    asked \in Requests /\ (Working(asked) \/ worker[asked] = "dead")

(* A flag that is down while the latest build works was lowered by the      *)
(* worker of an older request.                                              *)
LoweredByOlder ==
  /\ ui = "spawn" => building \/ \E r \in 1 .. asked - 1 : worker[r] = "done"
  /\ ui = "idle" /\ ~building /\ asked \in Requests /\ Working(asked) =>
       \E r \in 1 .. asked - 1 : worker[r] = "done"

(* The worker of the latest request works, has delivered, or panicked.      *)
LatestDelivers ==
  kind[asked] = "build" =>
    /\ ui = "idle" => worker[asked] # "absent"
    /\ worker[asked] \in {"lower", "done"} =>
         asked \in failed \/ asked \in cancelled \/ shown = asked

IInv ==
  /\ TypeOK
  /\ LockHeld
  /\ OnlyBuildsWork
  /\ UiServesLatest
  /\ SupersededIsCancelled
  /\ StoresForward
  /\ ClearedIsShown
  /\ FlagIsLatest
  /\ LoweredByOlder
  /\ LatestDelivers

------------------------------------------------------------------------------
LEMMA InitIInv == Init => IInv
<1> SUFFICES ASSUME Init PROVE IInv
  OBVIOUS
<1> USE MaxRequestsAssumption DEF Init, Requests
<1>1. TypeOK
  <2>1. /\ kind \in [0 .. MaxRequests -> Kind]
        /\ worker \in [Requests -> WorkerState]
    BY DEF Kind, WorkerState
  <2>2. /\ asked \in 0 .. MaxRequests
        /\ token \in 0 .. asked
        /\ shown \in 0 .. asked
        /\ viewLock \in 0 .. MaxRequests
    OBVIOUS
  <2>3. ui \in UiState /\ building \in BOOLEAN /\ dropped \in BOOLEAN
    BY DEF UiState
  <2>4. cancelled \subseteq 0 .. asked /\ failed \subseteq Requests
    OBVIOUS
  <2>5. QED
    BY <2>1, <2>2, <2>3, <2>4 DEF TypeOK
<1>2. LockHeld /\ OnlyBuildsWork /\ UiServesLatest
  BY DEF LockHeld, OnlyBuildsWork, UiServesLatest
<1>3. SupersededIsCancelled /\ StoresForward
  BY DEF SupersededIsCancelled, StoresForward, Live
<1>4. ClearedIsShown /\ FlagIsLatest /\ LoweredByOlder /\ LatestDelivers
  BY DEF ClearedIsShown, FlagIsLatest, LoweredByOlder, LatestDelivers
<1>5. QED
  BY <1>1, <1>2, <1>3, <1>4 DEF IInv

LEMMA NextIInv == IInv /\ [Next]_vars => IInv'
<1> SUFFICES ASSUME IInv, [Next]_vars PROVE IInv'
  OBVIOUS
<1> USE MaxRequestsAssumption
    DEF IInv, TypeOK, Requests, Kind, UiState, WorkerState, LockHeld,
        OnlyBuildsWork, UiServesLatest, SupersededIsCancelled, StoresForward,
        ClearedIsShown, FlagIsLatest, LoweredByOlder, LatestDelivers, Working, Live,
        requestVars, viewVars, workerVars
<1>1. ASSUME NEW k \in {"identity", "build"}, SetView(k) PROVE IInv'
  BY <1>1 DEF SetView, MayAsk, Retired
<1>2. CASE ClearView
  BY <1>2 DEF ClearView, MayAsk, Retired
<1>3. CASE InstallNone
  BY <1>3 DEF InstallNone
<1>4. CASE Settle
  BY <1>4 DEF Settle
<1>5. CASE RaiseBuilding
  BY <1>5 DEF RaiseBuilding
<1>6. CASE SpawnBuild
  BY <1>6 DEF SpawnBuild
<1>7. CASE Drop
  BY <1>7 DEF Drop, Retired
<1>8. ASSUME NEW r \in Requests, ScanDone(r) PROVE IInv'
  BY <1>8 DEF ScanDone, Advance
<1>9. ASSUME NEW r \in Requests, ScanCancelled(r) PROVE IInv'
  BY <1>9 DEF ScanCancelled, Advance
<1>10. ASSUME NEW r \in Requests, ScanFailed(r) PROVE IInv'
  BY <1>10 DEF ScanFailed, Advance
<1>11. ASSUME NEW r \in Requests, LockView(r) PROVE IInv'
  BY <1>11 DEF LockView, StillWanted, Advance
<1>12. ASSUME NEW r \in Requests, DiscardRows(r) PROVE IInv'
  BY <1>12 DEF DiscardRows, StillWanted, Advance
<1>13. ASSUME NEW r \in Requests, StoreRows(r) PROVE IInv'
  BY <1>13 DEF StoreRows, Advance
<1>14. ASSUME NEW r \in Requests, LowerBuilding(r) PROVE IInv'
  <2> USE <1>14 DEF LowerBuilding, Advance
  <2>1. TypeOK'
    OBVIOUS
  <2>2. LockHeld' /\ OnlyBuildsWork' /\ UiServesLatest'
    OBVIOUS
  <2>3. SupersededIsCancelled' /\ StoresForward' /\ ClearedIsShown'
    OBVIOUS
  <2>4. FlagIsLatest' /\ LoweredByOlder' /\ LatestDelivers'
    OBVIOUS
  <2>5. QED
    BY <2>1, <2>2, <2>3, <2>4
<1>15. ASSUME NEW r \in Requests, BuildPanics(r) PROVE IInv'
  BY <1>15 DEF BuildPanics, Advance
<1>16. CASE UNCHANGED vars
  BY <1>16 DEF vars
<1> HIDE DEF IInv, Requests, requestVars, viewVars, workerVars
<1>17. QED
  BY <1>1, <1>2, <1>3, <1>4, <1>5, <1>6, <1>7, <1>8, <1>9, <1>10, <1>11,
     <1>12, <1>13, <1>14, <1>15, <1>16 DEF Next, UiStep, WorkerStep

(* The inductive invariant holds throughout. *)
THEOREM InvariantHolds == Spec => []IInv
  BY InitIInv, NextIInv, PTL DEF Spec

------------------------------------------------------------------------------
(* Type correctness of the view machinery's state. *)
THEOREM TypeCorrect == Spec => []TypeOK
<1>1. IInv => TypeOK
  BY DEF IInv
<1>2. QED
  BY <1>1, InvariantHolds, PTL

(* A cleared view is never resurrected by a worker that was already         *)
(* running: the comment in set_view of table.rs, for any number of calls.   *)
THEOREM ClearedNotResurrected == Spec => []ClearedStaysCleared
<1>1. IInv => ClearedStaysCleared
  BY DEF IInv, ClearedIsShown, ClearedStaysCleared
<1>2. QED
  BY <1>1, InvariantHolds, PTL

(* What view_status tells: a flag that is up belongs to the latest build,   *)
(* one that is down while that build works was lowered by an older worker,  *)
(* and when every thread rests the latest request is shown, unless its scan *)
(* failed, its sort panicked or the table is gone.                          *)
THEOREM StatusTellsHolds == Spec => []StatusTells
<1>1. IInv => StatusTells
  <2> SUFFICES ASSUME IInv, Quiet
               PROVE  \/ shown = asked
                      \/ dropped
                      \/ asked \in failed
                      \/ asked \in Requests /\ worker[asked] = "dead"
    BY DEF StatusTells, IInv, FlagIsLatest, LoweredByOlder
  <2>1. CASE kind[asked] # "build"
    BY <2>1 DEF IInv, ClearedIsShown, Quiet
  <2>2. CASE kind[asked] = "build"
    <3>1. asked \in Requests
      BY <2>2, MaxRequestsAssumption
      DEF IInv, TypeOK, OnlyBuildsWork, Requests
    <3>2. worker[asked] \in {"done", "dead"}
      BY <2>2, <3>1 DEF IInv, LatestDelivers, TypeOK, WorkerState, Quiet, Working, Live
    <3>3. QED
      BY <2>2, <3>1, <3>2 DEF IInv, LatestDelivers, SupersededIsCancelled
  <2>3. QED
    BY <2>1, <2>2
<1>2. QED
  BY <1>1, InvariantHolds, PTL

------------------------------------------------------------------------------
(* Every step of the threads is a step of the promise or invisible in it.   *)
LEMMA StepKeepsPromise ==
  IInv /\ [Next]_vars => [Promise!Next]_(Promise!promiseVars)
<1> SUFFICES ASSUME IInv, [Next]_vars
             PROVE  [Promise!Next]_(Promise!promiseVars)
  OBVIOUS
<1> USE DEF IInv, TypeOK, Promise!Next, Promise!promiseVars,
        requestVars, viewVars, workerVars
<1>1. ASSUME NEW k \in {"identity", "build"}, SetView(k)
      PROVE  Promise!Ask
  BY <1>1 DEF SetView, MayAsk, Promise!Ask
<1>2. CASE ClearView
  BY <1>2 DEF ClearView, Promise!Ask
<1>3. CASE InstallNone
  BY <1>3 DEF InstallNone, Promise!Show
<1>4. CASE Settle \/ RaiseBuilding \/ SpawnBuild \/ Drop
  BY <1>4 DEF Settle, RaiseBuilding, SpawnBuild, Drop
<1>5. ASSUME NEW r \in Requests, StoreRows(r)
      PROVE  Promise!Show
  BY <1>5, MaxRequestsAssumption
  DEF StoreRows, Advance, StoresForward, OnlyBuildsWork, Promise!Show, Requests
<1>6. ASSUME NEW r \in Requests, WorkerStep(r), ~StoreRows(r)
      PROVE  UNCHANGED <<asked, shown>>
  BY <1>6 DEF WorkerStep, ScanDone, ScanCancelled, ScanFailed, BuildPanics, LockView,
              DiscardRows, LowerBuilding
<1>7. CASE UNCHANGED vars
  BY <1>7 DEF vars
<1>8. QED
  BY <1>1, <1>2, <1>3, <1>4, <1>5, <1>6, <1>7 DEF Next, UiStep

(* A table implements the promise its readers rely on: the displayed rows   *)
(* only ever move forward to the answers of newer requests.                 *)
THEOREM ImplementsPromise == Spec => KeepsPromise
<1>1. Init => Promise!Init
  BY DEF Init, Promise!Init
<1>2. QED
  BY <1>1, StepKeepsPromise, InvariantHolds, PTL
  DEF Spec, KeepsPromise, Promise!Spec

------------------------------------------------------------------------------
(* Numbers. *)

(* The library has the well-founded order of the naturals, and so a least   *)
(* element of every set of them and, with sets for predicates, induction.   *)
LEMMA LeastNatural ==
  ASSUME NEW T, T \subseteq Nat, T # {}
  PROVE  \E x \in T : \A y \in T : x <= y
<1> DEFINE R == OpToRel(<, Nat)
<1>1. IsWellFoundedOn(R, Nat)
  BY NatLessThanWellFounded
<1>2. \A x, y \in Nat : x < y => <<x, y>> \in R
  BY DEF OpToRel
<1> HIDE DEF R
<1>3. \E x \in T : \A y \in T : ~(<<y, x>> \in R)
  BY <1>1, WFMin
<1>4. PICK x \in T : \A y \in T : ~(<<y, x>> \in R)
  BY <1>3
<1>5. ASSUME NEW y \in T PROVE x <= y
  <2>1. x \in Nat /\ y \in Nat
    OBVIOUS
  <2>2. ~(y < x)
    BY <1>2, <1>4, <2>1
  <2>3. QED
    BY <2>1, <2>2
<1>6. QED
  BY <1>5

LEMMA Induction ==
  ASSUME NEW T, 0 \in T, \A n \in T \cap Nat : n + 1 \in T
  PROVE  Nat \subseteq T
<1> SUFFICES ASSUME Nat \ T # {} PROVE FALSE
  OBVIOUS
<1>1. PICK x \in Nat \ T : \A y \in Nat \ T : x <= y
  BY LeastNatural
<1>2. x # 0 /\ x - 1 \in Nat
  BY <1>1
<1>3. x - 1 \in T
  BY <1>1, <1>2
<1>4. (x - 1) + 1 \in T
  BY <1>2, <1>3
<1>5. (x - 1) + 1 = x
  BY <1>2
<1>6. QED
  BY <1>4, <1>5

(* A function given by its first value and a step from each value to the    *)
(* next is there, and its values are of the step's type.                    *)
Iterates(f, n, a, step) ==
  f[0] = a /\ \A k \in 1 .. n : f[k] = step[<<k, f[k - 1]>>]

LEMMA Iteration ==
  ASSUME NEW S, NEW a \in S, NEW step \in [Nat \X S -> S], NEW n \in Nat
  PROVE  \E f \in [0 .. n -> S] : Iterates(f, n, a, step)
<1> DEFINE T == {m \in Nat : \E f \in [0 .. m -> S] : Iterates(f, m, a, step)}
<1>1. 0 \in T
  <2> DEFINE f == [k \in 0 .. 0 |-> a]
  <2>1. f \in [0 .. 0 -> S] /\ Iterates(f, 0, a, step)
    BY DEF Iterates
  <2>2. QED
    BY <2>1
<1>2. ASSUME NEW m \in T \cap Nat PROVE m + 1 \in T
  <2>1. PICK f \in [0 .. m -> S] : Iterates(f, m, a, step)
    OBVIOUS
  <2> DEFINE g == [k \in 0 .. m + 1 |-> IF k \in 0 .. m THEN f[k] ELSE step[<<m + 1, f[m]>>]]
  <2>2. g \in [0 .. m + 1 -> S]
    <3>1. f[m] \in S /\ m + 1 \in Nat
      OBVIOUS
    <3>2. step[<<m + 1, f[m]>>] \in S
      BY <3>1
    <3>3. QED
      BY <3>2
  <2>3. (\A k \in 0 .. m : g[k] = f[k]) /\ g[m + 1] = step[<<m + 1, f[m]>>]
    OBVIOUS
  <2> HIDE DEF g
  <2>4. Iterates(g, m + 1, a, step)
    <3>1. g[0] = a
      BY <2>1, <2>3 DEF Iterates
    <3>2. ASSUME NEW k \in 1 .. m + 1 PROVE g[k] = step[<<k, g[k - 1]>>]
      <4>1. k - 1 \in 0 .. m
        OBVIOUS
      <4>2. CASE k \in 1 .. m
        BY <2>1, <2>3, <4>1, <4>2 DEF Iterates
      <4>3. CASE k = m + 1
        BY <2>3, <4>3
      <4>4. QED
        BY <4>2, <4>3
    <3>3. QED
      BY <3>1, <3>2 DEF Iterates
  <2>5. QED
    BY <2>2, <2>4
<1>3. Nat \subseteq T
  <2> HIDE DEF T
  <2>1. QED
    BY <1>1, <1>2, Induction
<1>4. QED
  BY <1>3

------------------------------------------------------------------------------
(* Order. *)

(* A strict total order on S, as a set of pairs.                            *)
TotalOrder(R, S) ==
  /\ \A x \in S : <<x, x>> \notin R
  /\ \A x, y, z \in S : <<x, y>> \in R /\ <<y, z>> \in R => <<x, z>> \in R
  /\ \A x, y \in S : x = y \/ <<x, y>> \in R \/ <<y, x>> \in R

Under(R, S, x) == {y \in S : <<y, x>> \in R}

(* Counting what is under an element of a finite set numbers the elements   *)
(* in order, from 0 on without a gap.                                       *)
LEMMA Ranked ==
  ASSUME NEW S, IsFiniteSet(S), NEW R, TotalOrder(R, S)
  PROVE  /\ Cardinality(S) \in Nat
         /\ \A x \in S : Cardinality(Under(R, S, x)) \in 0 .. Cardinality(S) - 1
         /\ \A x, y \in S : <<x, y>> \in R <=>
              Cardinality(Under(R, S, x)) < Cardinality(Under(R, S, y))
         /\ \A k \in 0 .. Cardinality(S) - 1 :
              \E x \in S : Cardinality(Under(R, S, x)) = k
<1> DEFINE n == Cardinality(S)
           f == [x \in S |-> Cardinality(Under(R, S, x))]
<1>1. n \in Nat
  BY FS_CardinalityType
<1>2. ASSUME NEW x \in S
      PROVE  IsFiniteSet(Under(R, S, x)) /\ f[x] \in 0 .. n - 1
  <2>1. Under(R, S, x) \in SUBSET (S \ {x})
    BY DEF Under, TotalOrder
  <2>2. IsFiniteSet(S \ {x}) /\ Cardinality(S \ {x}) = n - 1
    BY FS_RemoveElement
  <2>3. /\ IsFiniteSet(Under(R, S, x))
        /\ Cardinality(Under(R, S, x)) <= Cardinality(S \ {x})
    BY <2>1, <2>2, FS_Subset
  <2>4. Cardinality(Under(R, S, x)) \in Nat
    BY <2>3, FS_CardinalityType
  <2>5. QED
    BY <1>1, <2>2, <2>3, <2>4
<1>3. ASSUME NEW x \in S, NEW y \in S, <<x, y>> \in R PROVE f[x] < f[y]
  <2>1. Under(R, S, x) \in SUBSET Under(R, S, y)
    BY <1>3 DEF Under, TotalOrder
  <2>2. x \in Under(R, S, y) /\ x \notin Under(R, S, x)
    BY <1>3 DEF Under, TotalOrder
  <2>3. /\ Cardinality(Under(R, S, x)) <= Cardinality(Under(R, S, y))
        /\ Cardinality(Under(R, S, y)) # Cardinality(Under(R, S, x))
    BY <1>2, <2>1, <2>2, FS_Subset
  <2>4. f[x] \in Nat /\ f[y] \in Nat
    BY <1>2, <1>1
  <2>5. QED
    BY <2>3, <2>4
<1>4. \A x, y \in S : <<x, y>> \in R <=> f[x] < f[y]
  <2>1. ASSUME NEW x \in S, NEW y \in S, f[x] < f[y] PROVE <<x, y>> \in R
    <3>1. f[x] \in Int /\ f[y] \in Int
      BY <1>1, <1>2
    <3>2. ~(<<y, x>> \in R) /\ x # y
      BY <1>3, <2>1, <3>1
    <3>3. QED
      BY <3>2 DEF TotalOrder
  <2>2. QED
    BY <1>3, <2>1
<1>5. ASSUME NEW k \in 0 .. n - 1 PROVE \E x \in S : f[x] = k
  <2>1. f \in [S -> 0 .. n - 1]
    BY <1>2
  <2>2. \A x, y \in S : f[x] = f[y] => x = y
    <3>1. ASSUME NEW x \in S, NEW y \in S, f[x] = f[y] PROVE x = y
      <4>1. f[x] \in Int /\ f[y] \in Int
        BY <1>1, <1>2
      <4>2. ~(f[x] < f[y]) /\ ~(f[y] < f[x])
        BY <3>1, <4>1
      <4>3. QED
        BY <1>3, <4>2 DEF TotalOrder
    <3>2. QED
      BY <3>1
  <2> HIDE DEF f
  <2>3. f \in Injection(S, 0 .. n - 1)
    BY <2>1, <2>2 DEF Injection, IsInjective
  <2>4. IsFiniteSet(0 .. n - 1) /\ Cardinality(0 .. n - 1) = n
    BY <1>1, FS_Interval
  <2> DEFINE T == 0 .. n - 1
  <2>5. IsFiniteSet(T) /\ Cardinality(S) = Cardinality(T)
    BY <2>4
  <2>6. f \in Injection(S, T) /\ k \in T
    BY <2>3
  <2> HIDE DEF T, n
  <2>7. f \in Surjection(S, T)
    BY <2>5, <2>6, FS_Injection, Zenon
  <2>8. QED
    BY <2>6, <2>7 DEF Surjection
<1>6. QED
  BY <1>1, <1>2, <1>4, <1>5

(* A finite set put in order: every element once, each after those before it. *)
Lists(s, S, R) ==
  /\ s \in Seq(S) /\ Len(s) = Cardinality(S) /\ DOMAIN s = 1 .. Cardinality(S)
  /\ Cardinality(S) \in Nat
  /\ \A i \in DOMAIN s : s[i] \in S /\ Cardinality(Under(R, S, s[i])) = i - 1
  /\ \A x \in S : Cardinality(Under(R, S, x)) + 1 \in DOMAIN s
                    /\ s[Cardinality(Under(R, S, x)) + 1] = x
  /\ \A i, j \in DOMAIN s : i < j <=> <<s[i], s[j]>> \in R

LEMMA InOrderLists ==
  ASSUME NEW S, IsFiniteSet(S), NEW R, TotalOrder(R, S)
  PROVE  Lists(InOrder(S, R), S, R)
<1> DEFINE N == Cardinality(S)
           place(x) == Cardinality(Under(R, S, x))
           s == InOrder(S, R)
<1>1. s = [i \in 1 .. N |-> CHOOSE x \in S : place(x) = i - 1]
  BY DEF InOrder, Under
<1> HIDE DEF s
<1>2. /\ N \in Nat /\ \A x \in S : place(x) \in 0 .. N - 1
      /\ \A x, y \in S : <<x, y>> \in R <=> place(x) < place(y)
      /\ \A k \in 0 .. N - 1 : \E x \in S : place(x) = k
  BY Ranked
<1>3. \A x, y \in S : place(x) = place(y) => x = y
  <2> TAKE x, y \in S
  <2> HAVE place(x) = place(y)
  <2>1. place(x) \in Int /\ place(y) \in Int
    BY <1>2
  <2>2. ~(place(x) < place(y)) /\ ~(place(y) < place(x))
    BY <2>1
  <2>3. <<x, y>> \notin R /\ <<y, x>> \notin R
    BY <1>2, <2>2
  <2>4. QED
    BY <2>3 DEF TotalOrder
<1> HIDE DEF place, N
<1>4. ASSUME NEW i \in 1 .. N PROVE s[i] \in S /\ place(s[i]) = i - 1
  <2>1. i - 1 \in 0 .. N - 1
    BY <1>2
  <2>2. \E x \in S : place(x) = i - 1
    BY <1>2, <2>1
  <2>3. s[i] = CHOOSE x \in S : place(x) = i - 1
    BY <1>1
  <2>4. QED
    BY <2>2, <2>3
<1>5. s \in Seq(S) /\ Len(s) = N /\ DOMAIN s = 1 .. N
  <2> DEFINE e(i) == CHOOSE x \in S : place(x) = i - 1
  <2>1. \A i \in 1 .. N : e(i) \in S
    BY <1>1, <1>4
  <2>2. s = [i \in 1 .. N |-> e(i)]
    BY <1>1
  <2> HIDE DEF e
  <2>3. QED
    BY <1>2, <2>1, <2>2
<1>6. ASSUME NEW x \in S PROVE place(x) + 1 \in 1 .. N /\ s[place(x) + 1] = x
  <2>1. place(x) + 1 \in 1 .. N /\ (place(x) + 1) - 1 = place(x)
    BY <1>2
  <2>2. s[place(x) + 1] \in S /\ place(s[place(x) + 1]) = place(x)
    BY <1>4, <2>1
  <2>3. QED
    BY <1>3, <2>1, <2>2
<1>7. ASSUME NEW i \in 1 .. N, NEW j \in 1 .. N PROVE i < j <=> <<s[i], s[j]>> \in R
  <2>1. /\ s[i] \in S /\ s[j] \in S /\ place(s[i]) = i - 1 /\ place(s[j]) = j - 1
    BY <1>4
  <2>2. <<s[i], s[j]>> \in R <=> i - 1 < j - 1
    BY <1>2, <2>1
  <2>3. QED
    BY <2>2
<1>8. QED
  BY <1>2, <1>4, <1>5, <1>6, <1>7 DEF Lists, place, N, s

(* The numbers of a finite set, the lowest first. *)
Lower(S) == {p \in S \X S : p[1] < p[2]}

LEMMA AscendingLists ==
  ASSUME NEW S, IsFiniteSet(S), S \subseteq Int
  PROVE  /\ Lists(Ascending(S), S, Lower(S))
         /\ Ascending(S) \in Seq(S) /\ DOMAIN Ascending(S) = 1 .. Cardinality(S)
         /\ Len(Ascending(S)) = Cardinality(S) /\ Cardinality(S) \in Nat
         /\ \A i, j \in DOMAIN Ascending(S) : i < j <=> Ascending(S)[i] < Ascending(S)[j]
         /\ \A x \in S : \E i \in DOMAIN Ascending(S) : Ascending(S)[i] = x
<1>1. \A x, y \in S : <<x, y>> \in Lower(S) <=> x < y
  BY DEF Lower
<1>2. TotalOrder(Lower(S), S)
  <2>1. \A x \in S : x \in Int
    OBVIOUS
  <2>2. QED
    BY <1>1, <2>1 DEF TotalOrder
<1>3. \A x \in S : {y \in S : <<y, x>> \in Lower(S)} = {y \in S : y < x}
  BY <1>1
<1> DEFINE p(x) == {y \in S : <<y, x>> \in Lower(S)}
           q(x) == {y \in S : y < x}
           e(i) == CHOOSE x \in S : Cardinality(p(x)) = i - 1
           g(i) == CHOOSE x \in S : Cardinality(q(x)) = i - 1
<1>4. \A i : e(i) = g(i)
  <2> TAKE i
  <2> DEFINE P == {x \in S : Cardinality(p(x)) = i - 1}
             Q == {x \in S : Cardinality(q(x)) = i - 1}
  <2>1. P = Q
    BY <1>3
  <2>2. e(i) = CHOOSE x : x \in P
    OBVIOUS
  <2>3. g(i) = CHOOSE x : x \in Q
    OBVIOUS
  <2> HIDE DEF P, Q
  <2>4. QED
    BY <2>1, <2>2, <2>3, Zenon
<1>5. Ascending(S) = [i \in 1 .. Cardinality(S) |-> g(i)]
  BY DEF Ascending
<1>6. InOrder(S, Lower(S)) = [i \in 1 .. Cardinality(S) |-> e(i)]
  BY DEF InOrder
<1> HIDE DEF e, g
<1>7. Ascending(S) = InOrder(S, Lower(S))
  BY <1>4, <1>5, <1>6
<1>8. Lists(Ascending(S), S, Lower(S))
  BY <1>2, <1>7, InOrderLists
<1>9. \A i, j \in DOMAIN Ascending(S) : i < j <=> Ascending(S)[i] < Ascending(S)[j]
  BY <1>1, <1>8 DEF Lists
<1>10. \A x \in S : \E i \in DOMAIN Ascending(S) : Ascending(S)[i] = x
  BY <1>8 DEF Lists
<1>11. QED
  BY <1>8, <1>9, <1>10 DEF Lists

(* Every element of a finite set, once.                                     *)
Once(s, S) ==
  /\ s \in Seq(S) /\ Len(s) = Cardinality(S) /\ DOMAIN s = 1 .. Cardinality(S)
  /\ Cardinality(S) \in Nat
  /\ \A x \in S : \E i \in DOMAIN s : s[i] = x
  /\ \A i, j \in DOMAIN s : s[i] = s[j] => i = j

LEMMA ListsOnce ==
  ASSUME NEW S, NEW R, NEW s, Lists(s, S, R)
  PROVE  Once(s, S)
<1>1. \A x \in S : \E i \in DOMAIN s : s[i] = x
  BY DEF Lists
<1>2. ASSUME NEW i \in DOMAIN s, NEW j \in DOMAIN s, s[i] = s[j] PROVE i = j
  <2>1. Cardinality(Under(R, S, s[i])) = i - 1 /\ Cardinality(Under(R, S, s[j])) = j - 1
    BY DEF Lists
  <2>2. i \in Int /\ j \in Int
    BY DEF Lists
  <2>3. i - 1 = j - 1
    BY <1>2, <2>1
  <2>4. QED
    BY <2>2, <2>3
<1>3. QED
  BY <1>1, <1>2 DEF Lists, Once

(* compare_keys never has each of two keys before the other.                *)
LEMMA LessOneWay ==
  ASSUME NEW a \in Parsed, NEW b \in Parsed
  PROVE  ~(Less(a, b) /\ Less(b, a)) /\ ~Less(a, a)
BY DEF Parsed, Less

(* Keys that contradict each other nowhere put the rows in one order, with  *)
(* the ties among them in file order.                                       *)
LEMMA OrderlyOrders ==
  ASSUME NEW S, S \subseteq Int, NEW key, \A r \in S : key[r] \in Parsed,
         Orderly(key, S), NEW up \in BOOLEAN
  PROVE  TotalOrder({p \in S \X S : Precedes(key, up, p[1], p[2])}, S)
<1> DEFINE R == {p \in S \X S : Precedes(key, up, p[1], p[2])}
           L == {p \in S \X S : Less(key[p[1]], key[p[2]])}
<1>1. \A a, b \in S : <<a, b>> \in L <=> Less(key[a], key[b])
  OBVIOUS
<1>2. \A a, b \in S : <<a, b>> \in R <=>
        \/ up /\ <<a, b>> \in L
        \/ ~up /\ <<b, a>> \in L
        \/ <<a, b>> \notin L /\ <<b, a>> \notin L /\ a < b
  BY <1>1 DEF Precedes
<1>3. \A a, b \in S : <<a, b>> \in L => <<b, a>> \notin L
  BY <1>1, LessOneWay
<1>4. \A a, b, c \in S : <<a, b>> \in L => <<a, c>> \in L \/ <<c, b>> \in L
  BY <1>1 DEF Orderly
<1>5. \A a \in S : a \in Int
  OBVIOUS
<1> HIDE DEF R, L
<1>6. \A x \in S : <<x, x>> \notin R
  BY <1>2, <1>3, <1>5
<1>7. ASSUME NEW x \in S, NEW y \in S, NEW z \in S, <<x, y>> \in R, <<y, z>> \in R
      PROVE  <<x, z>> \in R
  <2>1. x \in Int /\ y \in Int /\ z \in Int
    BY <1>5
  <2>2. /\ <<x, y>> \in L => <<x, z>> \in L \/ <<z, y>> \in L
        /\ <<y, z>> \in L => <<y, x>> \in L \/ <<x, z>> \in L
        /\ <<y, x>> \in L => <<y, z>> \in L \/ <<z, x>> \in L
        /\ <<z, y>> \in L => <<z, x>> \in L \/ <<x, y>> \in L
        /\ <<x, z>> \in L => <<x, y>> \in L \/ <<y, z>> \in L
        /\ <<z, x>> \in L => <<z, y>> \in L \/ <<y, x>> \in L
    BY <1>4
  <2>3. /\ <<x, y>> \in L => <<y, x>> \notin L
        /\ <<y, z>> \in L => <<z, y>> \notin L
        /\ <<x, z>> \in L => <<z, x>> \notin L
    BY <1>3
  <2>4. QED
    BY <1>2, <1>7, <2>1, <2>2, <2>3
<1>8. ASSUME NEW x \in S, NEW y \in S, x # y PROVE <<x, y>> \in R \/ <<y, x>> \in R
  <2>1. x < y \/ y < x
    BY <1>5, <1>8
  <2>2. CASE <<x, y>> \in L \/ <<y, x>> \in L
    BY <1>2, <2>2
  <2>3. CASE <<x, y>> \notin L /\ <<y, x>> \notin L
    BY <1>2, <2>1, <2>3
  <2>4. QED
    BY <2>2, <2>3
<1>9. QED
  BY <1>6, <1>7, <1>8 DEF TotalOrder, R

(* sort_by keeps every row once; in the order of the keys, if these have    *)
(* one.                                                                     *)
LEMMA SortByLists ==
  ASSUME NEW S, IsFiniteSet(S), S \subseteq Int, NEW key, \A r \in S : key[r] \in Parsed,
         NEW up \in BOOLEAN
  PROVE  LET s == SortBy(S, key, up)
         IN  /\ Once(s, S)
             /\ Orderly(key, S) =>
                  \A i, j \in DOMAIN s : i < j <=> Precedes(key, up, s[i], s[j])
<1> DEFINE R == {p \in S \X S : Precedes(key, up, p[1], p[2])}
           N == Cardinality(S)
           Whole(s) == \A row \in S : \E i \in DOMAIN s : s[i] = row
<1>1. CASE Orderly(key, S)
  <2>1. SortBy(S, key, up) = InOrder(S, R)
    BY <1>1 DEF SortBy
  <2>2. TotalOrder(R, S)
    BY <1>1, OrderlyOrders
  <2>3. \A x, y \in S : <<x, y>> \in R <=> Precedes(key, up, x, y)
    OBVIOUS
  <2> HIDE DEF R
  <2>4. Lists(InOrder(S, R), S, R)
    BY <2>2, InOrderLists
  <2>5. Once(InOrder(S, R), S)
    BY <2>4, ListsOnce
  <2> DEFINE s == InOrder(S, R)
  <2>6. \A i, j \in DOMAIN s : s[i] \in S /\ s[j] \in S /\ (i < j <=> <<s[i], s[j]>> \in R)
    BY <2>4 DEF Lists
  <2> HIDE DEF s
  <2>7. \A i, j \in DOMAIN s : i < j <=> Precedes(key, up, s[i], s[j])
    BY <2>3, <2>6
  <2>8. QED
    BY <2>1, <2>5, <2>7 DEF s
<1>2. CASE ~Orderly(key, S)
  <2> DEFINE s == CHOOSE s \in [1 .. N -> S] : Whole(s)
  <2>1. SortBy(S, key, up) = s
    BY <1>2 DEF SortBy
  <2>2. N \in Nat /\ Once(Ascending(S), S)
    BY AscendingLists, ListsOnce
  <2>3. Ascending(S) \in [1 .. N -> S] /\ Whole(Ascending(S))
    BY <2>2 DEF Once
  <2> HIDE DEF Whole, N
  <2>4. s \in [1 .. N -> S] /\ Whole(s)
    BY <2>3
  <2> HIDE DEF s
  <2>5. s \in Seq(S) /\ Len(s) = N /\ DOMAIN s = 1 .. N
    BY <2>2, <2>4
  <2>6. \A i, j \in DOMAIN s : s[i] = s[j] => i = j
    <3> DEFINE D == 1 .. N
    <3>1. IsFiniteSet(D) /\ Cardinality(D) = N
      BY <2>2, FS_Interval
    <3>2. s \in Surjection(D, S)
      BY <2>4, <2>5 DEF Surjection, Whole
    <3> HIDE DEF D
    <3>3. s \in Injection(D, S)
      BY <3>1, <3>2, FS_SurjSameCardinalityImpliesInj DEF N
    <3>4. \A i, j \in D : s[i] = s[j] => i = j
      BY <3>3 DEF Injection, IsInjective
    <3>5. QED
      BY <2>5, <3>4 DEF D
  <2>7. Once(s, S)
    BY <2>2, <2>4, <2>5, <2>6 DEF Once, Whole, N
  <2>8. QED
    BY <1>2, <2>1, <2>7
<1>3. QED
  BY <1>1, <1>2

(* A column of integers alone, of decimal numbers alone or of text alone    *)
(* has an order: compare_keys contradicts itself only across kinds.         *)
THEOREM AlikeAreOrderly ==
  ASSUME NEW S, NEW key, \A r \in S : key[r] \in Parsed,
         NEW one \in {"integer", "float", "text"}, \A r \in S : key[r].kind = one
  PROVE  Orderly(key, S)
<1> SUFFICES ASSUME NEW a \in S, NEW b \in S, NEW c \in S, Less(key[a], key[b])
             PROVE  Less(key[a], key[c]) \/ Less(key[c], key[b])
  BY DEF Orderly
<1>1. \A r \in {a, b, c} :
        /\ key[r].kind = one /\ key[r].integer \in Int
        /\ key[r].number \in Int /\ key[r].bytes \in Int
  BY DEF Parsed
<1>2. QED
  BY <1>1 DEF Less

------------------------------------------------------------------------------
(* The selection of rows handed to the Parquet reader. *)

Run == [skip : Nat, select : Nat]
Reader == [cursor : Nat, rows : Seq(Nat)]
AtHead == [cursor |-> 0, rows |-> <<>>]
Past(r, run) ==
  [cursor |-> r.cursor + run.skip + run.select,
   rows |-> r.rows \o [i \in 1 .. run.select |-> r.cursor + run.skip + i - 1]]

LEMMA PastType == ASSUME NEW r \in Reader, NEW run \in Run PROVE Past(r, run) \in Reader
<1> DEFINE more == [i \in 1 .. run.select |-> r.cursor + run.skip + i - 1]
<1>1. r.cursor \in Nat /\ run.skip \in Nat /\ run.select \in Nat /\ r.rows \in Seq(Nat)
  BY DEF Reader, Run
<1>2. more \in Seq(Nat)
  <2> DEFINE e(i) == r.cursor + run.skip + i - 1
             n == run.select
  <2>1. n \in Nat /\ \A i \in 1 .. n : e(i) \in Nat
    BY <1>1
  <2> HIDE DEF e
  <2>2. [i \in 1 .. n |-> e(i)] \in Seq(Nat)
    BY <2>1
  <2>3. QED
    BY <2>2 DEF e
<1>3. r.rows \o more \in Seq(Nat)
  BY <1>1, <1>2, ConcatProperties
<1>4. r.cursor + run.skip + run.select \in Nat
  BY <1>1
<1> HIDE DEF more
<1>5. QED
  BY <1>3, <1>4 DEF Past, Reader, more

(* The reader takes one run of the selection after the other.               *)
LEMMA YieldedSteps ==
  ASSUME NEW sel \in Seq(Run)
  PROVE  \E f \in [0 .. Len(sel) -> Reader] :
           /\ Yielded(sel) = f[Len(sel)].rows
           /\ f[0] = AtHead /\ \A k \in 1 .. Len(sel) : f[k] = Past(f[k - 1], sel[k])
<1> DEFINE n == Len(sel)
           Reads(f) == f = [k \in 0 .. Len(sel) |->
             IF k = 0 THEN [cursor |-> 0, rows |-> <<>>]
             ELSE LET from == f[k - 1].cursor + sel[k].skip
                  IN  [cursor |-> from + sel[k].select,
                       rows |-> f[k - 1].rows
                                  \o [i \in 1 .. sel[k].select |-> from + i - 1]]]
           at == CHOOSE f : Reads(f)
           step == [q \in Nat \X Reader |->
                     IF q[1] \in 1 .. n THEN Past(q[2], sel[q[1]]) ELSE q[2]]
<1>1. Yielded(sel) = at[n].rows
  BY Zenon DEF Yielded
<1>2. n \in Nat /\ \A k \in 1 .. n : sel[k] \in Run
  OBVIOUS
<1>3. AtHead \in Reader
  BY DEF AtHead, Reader
<1>4. step \in [Nat \X Reader -> Reader]
  <2>1. ASSUME NEW q \in Nat \X Reader
        PROVE  (IF q[1] \in 1 .. n THEN Past(q[2], sel[q[1]]) ELSE q[2]) \in Reader
    BY <1>2, PastType
  <2>2. QED
    BY <2>1
<1>5. \A k \in 1 .. n, r \in Reader : step[<<k, r>>] = Past(r, sel[k])
  <2> TAKE k \in 1 .. n, r \in Reader
  <2>1. <<k, r>> \in Nat \X Reader
    OBVIOUS
  <2>2. QED
    BY <2>1
<1> HIDE DEF step
<1>6. PICK f \in [0 .. n -> Reader] : Iterates(f, n, AtHead, step)
  <2> HIDE DEF n
  <2>1. QED
    BY <1>2, <1>3, <1>4, Iteration
<1>7. ASSUME NEW k \in 0 .. n
      PROVE  f[k] = IF k = 0 THEN AtHead ELSE Past(f[k - 1], sel[k])
  <2>1. CASE k = 0
    BY <1>6, <2>1 DEF Iterates
  <2>2. CASE k # 0
    <3>1. k \in 1 .. n /\ k - 1 \in 0 .. n
      BY <1>2, <2>2
    <3>2. f[k] = step[<<k, f[k - 1]>>] /\ f[k - 1] \in Reader
      BY <1>6, <3>1 DEF Iterates
    <3>3. QED
      BY <1>5, <2>2, <3>1, <3>2
  <2>3. QED
    BY <2>1, <2>2
<1>8. Reads(f)
  <2>1. f = [k \in 0 .. n |-> IF k = 0 THEN AtHead ELSE Past(f[k - 1], sel[k])]
    <3>1. DOMAIN f = 0 .. n /\ f = [k \in DOMAIN f |-> f[k]]
      OBVIOUS
    <3>2. QED
      BY <1>7, <3>1, Zenon
  <2>2. QED
    BY <2>1, Zenon DEF AtHead, Past
<1>9. Reads(at)
  BY <1>8, Zenon
<1>10. ASSUME NEW k \in 0 .. n
       PROVE  at[k] = IF k = 0 THEN AtHead ELSE Past(at[k - 1], sel[k])
  BY <1>9, Zenon DEF AtHead, Past
<1> HIDE DEF at
<1>11. DOMAIN at = 0 .. n /\ at = [k \in 0 .. n |-> at[k]]
  BY <1>9, Zenon
<1>12. at[0] = AtHead /\ \A k \in 1 .. n : at[k] = Past(at[k - 1], sel[k])
  BY <1>2, <1>10
<1>13. at \in [0 .. n -> Reader]
  <2> DEFINE T == {k \in Nat : k <= n => at[k] \in Reader}
  <2>1. 0 \in T
    BY <1>3, <1>12
  <2>2. ASSUME NEW k \in T \cap Nat PROVE k + 1 \in T
    <3>1. CASE k + 1 <= n
      <4>1. k <= n /\ k + 1 \in 1 .. n /\ (k + 1) - 1 = k
        BY <1>2, <3>1
      <4>2. at[k] \in Reader
        BY <4>1
      <4>3. at[k + 1] \in Reader
        BY <1>2, <1>12, <4>1, <4>2, PastType
      <4>4. QED
        BY <4>3
    <3>2. QED
      BY <3>1
  <2>3. Nat \subseteq T
    <3> HIDE DEF T
    <3>1. QED
      BY <2>1, <2>2, Induction
  <2>4. \A k \in 0 .. n : at[k] \in Reader
    BY <1>2, <2>3
  <2> HIDE DEF T, n
  <2>5. QED
    BY <1>11, <2>4
<1>14. QED
  BY <1>1, <1>12, <1>13

LEMMA StepsAdd ==
  ASSUME NEW n \in Nat, NEW row, \A i \in 0 .. n : row[i] \in Int,
         \A i \in 1 .. n : row[i] = row[i - 1] + 1
  PROVE  \A i \in 0 .. n : row[i] = row[0] + i
<1> DEFINE T == {i \in Nat : i <= n => row[i] = row[0] + i}
<1>1. 0 \in T
  OBVIOUS
<1>2. ASSUME NEW i \in T \cap Nat PROVE i + 1 \in T
  <2>1. CASE i + 1 <= n
    <3>1. i <= n /\ i + 1 \in 1 .. n /\ (i + 1) - 1 = i /\ 0 \in 0 .. n
      BY <2>1
    <3>2. row[i] = row[0] + i /\ row[i + 1] = row[i] + 1
      BY <3>1
    <3>3. QED
      BY <3>1, <3>2
  <2>2. QED
    BY <2>1
<1>3. Nat \subseteq T
  <2> HIDE DEF T
  <2>1. QED
    BY <1>1, <1>2, Induction
<1>4. QED
  BY <1>3

(* Row numbers in order, none of them twice.                                *)
Climbs(rows) == rows \in Seq(Nat) /\ \A i, j \in 1 .. Len(rows) : i < j <=> rows[i] < rows[j]

Breaks(rows) == {i \in DOMAIN rows : i = 1 \/ rows[i] # rows[i - 1] + 1}
Starts(rows) == Ascending(Breaks(rows))
LastOf(rows, k) ==
  IF k = Len(Starts(rows)) THEN Len(rows) ELSE Starts(rows)[k + 1] - 1
(* The number of rows in the first k runs.                                  *)
Upto(rows, k) == IF k = 0 THEN 0 ELSE LastOf(rows, k)

LEMMA StartsLead ==
  ASSUME NEW rows, Climbs(rows)
  PROVE  LET st == Starts(rows)
             n == Len(rows)
             K == Len(st)
         IN  /\ K \in Nat /\ DOMAIN st = 1 .. K
             /\ Upto(rows, K) = n
             /\ \A k \in 1 .. K :
                  /\ st[k] \in 1 .. n /\ st[k] = Upto(rows, k - 1) + 1
                  /\ Upto(rows, k) \in st[k] .. n /\ Upto(rows, k) = LastOf(rows, k)
                  /\ \A i \in st[k] .. Upto(rows, k) : rows[i] = rows[st[k]] + (i - st[k])
<1> DEFINE B == Breaks(rows)
           st == Starts(rows)
           n == Len(rows)
           K == Len(st)
<1>1. /\ n \in Nat /\ DOMAIN rows = 1 .. n /\ \A i \in 1 .. n : rows[i] \in Nat
  BY DEF Climbs
<1>2. B \subseteq 1 .. n /\ B \subseteq Int /\ IsFiniteSet(B)
  <2>1. B \in SUBSET (1 .. n) /\ B \subseteq Int
    BY <1>1 DEF Breaks
  <2>2. IsFiniteSet(1 .. n)
    BY <1>1, FS_Interval
  <2> HIDE DEF B, n
  <2>3. QED
    BY <2>1, <2>2, FS_Subset
<1>3. /\ st \in Seq(B) /\ K \in Nat /\ DOMAIN st = 1 .. K
      /\ \A i, j \in 1 .. K : i < j <=> st[i] < st[j]
      /\ \A x \in B : \E i \in 1 .. K : st[i] = x
  <2> HIDE DEF B
  <2>1. QED
    BY <1>2, AscendingLists DEF Starts, B
<1>4. \A k \in 1 .. K : st[k] \in B
  BY <1>3
<1>5. \A i \in 2 .. n : i \notin B => rows[i] = rows[i - 1] + 1
  BY <1>1 DEF Breaks
<1>6. n > 0 => 1 \in B
  BY <1>1 DEF Breaks
<1>7. \A k : Upto(rows, k) = IF k = 0 THEN 0 ELSE IF k = K THEN n ELSE st[k + 1] - 1
  BY DEF Upto, LastOf
<1>8. \A k \in 1 .. K : Upto(rows, k) = LastOf(rows, k)
  BY <1>3 DEF Upto
<1> HIDE DEF B, st, n, K
<1>9. n > 0 => K > 0 /\ st[1] = 1
  <2> SUFFICES ASSUME n > 0 PROVE K > 0 /\ st[1] = 1
    OBVIOUS
  <2>1. PICK i \in 1 .. K : st[i] = 1
    BY <1>3, <1>6
  <2>2. K > 0 /\ 1 \in 1 .. K
    BY <1>3, <2>1
  <2>3. st[1] \in 1 .. n
    BY <1>2, <1>4, <2>2
  <2>4. ~(st[1] < st[i])
    BY <2>1, <2>3
  <2>5. i = 1 \/ 1 < i
    BY <2>1
  <2>6. i = 1
    BY <1>3, <2>1, <2>2, <2>3, <2>5
  <2>7. QED
    BY <2>1, <2>2, <2>6
<1>10. K > 0 => n > 0
  <2> SUFFICES ASSUME K > 0 PROVE n > 0
    OBVIOUS
  <2>1. 1 \in 1 .. K
    BY <1>3
  <2>2. st[1] \in 1 .. n
    BY <1>2, <1>4, <2>1
  <2>3. QED
    BY <1>1, <2>2
<1>11. Upto(rows, K) = n
  BY <1>1, <1>3, <1>7, <1>9
<1>12. ASSUME NEW k \in 1 .. K
       PROVE  /\ st[k] \in 1 .. n /\ st[k] = Upto(rows, k - 1) + 1
              /\ Upto(rows, k) \in st[k] .. n
              /\ \A i \in st[k] .. Upto(rows, k) : rows[i] = rows[st[k]] + (i - st[k])
  <2> DEFINE a == st[k]
             b == Upto(rows, k)
  <2>1. a \in 1 .. n
    BY <1>2, <1>4
  <2>2. a = Upto(rows, k - 1) + 1
    <3>1. CASE k = 1
      BY <1>1, <1>3, <1>7, <1>9, <1>10, <3>1
    <3>2. CASE k # 1
      <4>1. k - 1 # 0 /\ k - 1 # K /\ (k - 1) + 1 = k
        BY <1>3, <3>2
      <4>2. Upto(rows, k - 1) = a - 1
        BY <1>7, <4>1
      <4>3. QED
        BY <2>1, <4>2
    <3>3. QED
      BY <3>1, <3>2
  <2>3. b \in a .. n /\ (k # K => b = st[k + 1] - 1)
    <3>1. CASE k = K
      <4>1. b = n
        BY <1>11, <3>1
      <4>2. QED
        BY <1>1, <2>1, <3>1, <4>1
    <3>2. CASE k # K
      <4>1. k + 1 \in 1 .. K /\ k < k + 1 /\ k # 0
        BY <1>3, <3>2
      <4>2. st[k + 1] \in 1 .. n /\ a < st[k + 1]
        BY <1>2, <1>3, <1>4, <4>1
      <4>3. b = st[k + 1] - 1
        BY <1>7, <3>2, <4>1
      <4>4. QED
        BY <1>1, <2>1, <4>2, <4>3
    <3>3. QED
      BY <3>1, <3>2
  <2>4. ASSUME NEW i \in a + 1 .. b PROVE rows[i] = rows[i - 1] + 1
    <3>1. i \in 2 .. n
      BY <1>1, <2>1, <2>3
    <3>2. i \notin B
      <4> SUFFICES ASSUME i \in B PROVE FALSE
        OBVIOUS
      <4>1. PICK j \in 1 .. K : st[j] = i
        BY <1>3
      <4>2. a < i
        BY <2>1, <2>3
      <4>3. k < j
        BY <1>3, <4>1, <4>2
      <4>4. k # K /\ k + 1 \in 1 .. K /\ k + 1 <= j
        BY <1>3, <4>1, <4>3
      <4>5. i < st[k + 1]
        <5>1. st[k + 1] \in 1 .. n
          BY <1>2, <1>4, <4>4
        <5>2. QED
          BY <2>1, <2>3, <4>4, <5>1
      <4>6. j < k + 1
        BY <1>3, <4>1, <4>4, <4>5
      <4>7. QED
        BY <1>3, <4>4, <4>6
    <3>3. QED
      BY <1>5, <3>1, <3>2
  <2>5. a \in Int /\ b \in Int /\ b - a \in Nat
    BY <1>1, <2>1, <2>3
  <2> DEFINE row == [i \in 0 .. b - a |-> rows[a + i]]
  <2>6. \A i \in 0 .. b - a : row[i] = rows[a + i]
    OBVIOUS
  <2> HIDE DEF row, a, b
  <2>7. \A i \in 0 .. b - a : a + i \in 1 .. n
    BY <1>1, <2>1, <2>3, <2>5
  <2>8. \A i \in 0 .. b - a : row[i] \in Int
    <3> TAKE i \in 0 .. b - a
    <3>1. rows[a + i] \in Nat
      BY <1>1, <2>7
    <3>2. QED
      BY <2>6, <3>1
  <2>9. \A i \in 1 .. b - a : row[i] = row[i - 1] + 1
    <3> TAKE i \in 1 .. b - a
    <3>1. i \in 0 .. b - a /\ i - 1 \in 0 .. b - a /\ a + i \in a + 1 .. b /\ (a + i) - 1 = a + (i - 1)
      BY <2>5
    <3>2. rows[a + i] = rows[(a + i) - 1] + 1
      BY <2>4, <3>1
    <3>3. QED
      BY <2>6, <3>1, <3>2
  <2>10. \A i \in 0 .. b - a : row[i] = row[0] + i
    BY <2>5, <2>8, <2>9, StepsAdd
  <2>11. ASSUME NEW i \in a .. b PROVE rows[i] = rows[a] + (i - a)
    <3>1. i - a \in 0 .. b - a /\ 0 \in 0 .. b - a /\ a + (i - a) = i /\ a + 0 = a
      BY <2>5
    <3>2. row[i - a] = rows[i] /\ row[0] = rows[a]
      BY <2>6, <3>1
    <3>3. QED
      BY <2>10, <3>1, <3>2
  <2>12. QED
    BY <2>1, <2>2, <2>3, <2>11 DEF a, b
<1>13. QED
  BY <1>3, <1>8, <1>11, <1>12 DEF st, n, K

LEMMA SelectionType ==
  ASSUME NEW rows, Climbs(rows)
  PROVE  LET st == Starts(rows)
             sel == RowSelection(rows)
         IN  /\ sel \in Seq(Run) /\ Len(sel) = Len(st)
             /\ \A k \in 1 .. Len(st) :
                  /\ sel[k].skip = rows[st[k]] - (IF k = 1 THEN 0 ELSE rows[st[k] - 1] + 1)
                  /\ sel[k].select = LastOf(rows, k) - st[k] + 1
<1> DEFINE st == Starts(rows)
           K == Len(st)
           n == Len(rows)
           skip(k) == rows[st[k]] - (IF k = 1 THEN 0 ELSE rows[st[k] - 1] + 1)
           select(k) == LastOf(rows, k) - st[k] + 1
           e(k) == [skip |-> skip(k), select |-> select(k)]
<1>1. /\ K \in Nat /\ DOMAIN st = 1 .. K
      /\ \A k \in 1 .. K :
           /\ st[k] \in 1 .. n /\ st[k] = Upto(rows, k - 1) + 1
           /\ Upto(rows, k) \in st[k] .. n /\ Upto(rows, k) = LastOf(rows, k)
  BY StartsLead
<1>2. RowSelection(rows) = [k \in 1 .. K |-> e(k)]
  BY <1>1 DEF RowSelection, Starts, Breaks, LastOf
<1>3. /\ n \in Nat /\ \A i \in 1 .. n : rows[i] \in Nat
      /\ \A i, j \in 1 .. n : i < j <=> rows[i] < rows[j]
  BY DEF Climbs
<1> HIDE DEF st, n
<1>4. ASSUME NEW k \in 1 .. K PROVE e(k) \in Run
  <2>1. st[k] \in 1 .. n /\ LastOf(rows, k) \in st[k] .. n
    BY <1>1
  <2>2. select(k) \in Nat
    BY <1>3, <2>1
  <2>3. rows[st[k]] \in Nat
    BY <1>3, <2>1
  <2>4. CASE k = 1
    <3>1. skip(k) \in Nat
      BY <2>3, <2>4
    <3>2. QED
      BY <2>2, <3>1 DEF Run
  <2>5. CASE k # 1
    <3>1. 1 \in 1 .. K /\ k - 1 \in 1 .. K
      BY <1>1, <2>5
    <3>2. Upto(rows, k - 1) \in 1 .. n
      BY <1>1, <1>3, <3>1
    <3>3. st[k] - 1 \in 1 .. n /\ st[k] - 1 < st[k]
      BY <1>1, <1>3, <3>2
    <3>4. rows[st[k] - 1] \in Nat /\ rows[st[k] - 1] < rows[st[k]]
      BY <1>3, <2>1, <3>3
    <3>5. skip(k) \in Nat
      BY <2>3, <2>5, <3>4
    <3>6. QED
      BY <2>2, <3>5 DEF Run
  <2>6. QED
    BY <2>4, <2>5
<1>5. \A k \in 1 .. K : e(k).skip = skip(k) /\ e(k).select = select(k)
  OBVIOUS
<1> HIDE DEF e, K
<1>6. [k \in 1 .. K |-> e(k)] \in Seq(Run)
  BY <1>1, <1>4
<1>7. RowSelection(rows) \in Seq(Run) /\ Len(RowSelection(rows)) = K
  BY <1>1, <1>2, <1>6
<1>8. \A k \in 1 .. K : RowSelection(rows)[k] = e(k)
  BY <1>2
<1>9. QED
  BY <1>5, <1>7, <1>8 DEF st, K

(* The run-length selection of any rows in order lets exactly these through *)
(* (row_selection and the reader of the parquet crate).                     *)
THEOREM SelectionYields ==
  ASSUME NEW rows, Climbs(rows)
  PROVE  Yielded(RowSelection(rows)) = rows
<1> DEFINE sel == RowSelection(rows)
           st == Starts(rows)
           n == Len(rows)
           K == Len(st)
<1>1. /\ K \in Nat /\ Upto(rows, K) = n
      /\ \A k \in 1 .. K :
           /\ st[k] \in 1 .. n /\ st[k] = Upto(rows, k - 1) + 1
           /\ Upto(rows, k) \in st[k] .. n /\ Upto(rows, k) = LastOf(rows, k)
           /\ \A i \in st[k] .. Upto(rows, k) : rows[i] = rows[st[k]] + (i - st[k])
  BY StartsLead
<1>2. /\ sel \in Seq(Run) /\ Len(sel) = K
      /\ \A k \in 1 .. K :
           /\ sel[k].skip = rows[st[k]] - (IF k = 1 THEN 0 ELSE rows[st[k] - 1] + 1)
           /\ sel[k].select = LastOf(rows, k) - st[k] + 1
  BY SelectionType
<1> HIDE DEF sel
<1>3. PICK f \in [0 .. K -> Reader] :
        /\ Yielded(sel) = f[K].rows
        /\ f[0] = AtHead /\ \A k \in 1 .. K : f[k] = Past(f[k - 1], sel[k])
  <2>1. \E f \in [0 .. Len(sel) -> Reader] :
          /\ Yielded(sel) = f[Len(sel)].rows
          /\ f[0] = AtHead /\ \A k \in 1 .. Len(sel) : f[k] = Past(f[k - 1], sel[k])
    BY <1>2, YieldedSteps
  <2>2. QED
    BY <1>2, <2>1
<1>4. /\ n \in Nat /\ rows \in Seq(Nat) /\ \A i \in 1 .. n : rows[i] \in Nat
  BY DEF Climbs
<1> HIDE DEF st, n, K
<1>5. \A k \in 0 .. K : Upto(rows, k) \in 0 .. n
  <2> TAKE k \in 0 .. K
  <2>1. CASE k = 0
    BY <1>4, <2>1 DEF Upto
  <2>2. CASE k # 0
    <3>1. k \in 1 .. K
      BY <2>2
    <3>2. st[k] \in 1 .. n
      BY <1>1, <3>1
    <3>3. Upto(rows, k) \in st[k] .. n
      BY <1>1, <3>1
    <3>4. QED
      BY <1>4, <3>2, <3>3
  <2>3. QED
    BY <2>1, <2>2
<1> DEFINE Good(k) == /\ f[k].rows = SubSeq(rows, 1, Upto(rows, k))
                      /\ f[k].cursor = IF k = 0 THEN 0 ELSE rows[Upto(rows, k)] + 1
           T == {k \in Nat : k <= K => Good(k)}
<1>6. Good(0)
  <2>1. Upto(rows, 0) = 0
    BY DEF Upto
  <2>2. SubSeq(rows, 1, 0) = <<>>
    BY SubSeqEmpty
  <2>3. QED
    BY <1>3, <2>1, <2>2 DEF AtHead
<1>7. ASSUME NEW k \in 1 .. K, Good(k - 1) PROVE Good(k)
  <2> DEFINE a == st[k]
             b == Upto(rows, k)
             select == sel[k].select
             from == f[k - 1].cursor + sel[k].skip
             more == [i \in 1 .. select |-> from + i - 1]
  <2>1. /\ a \in 1 .. n /\ a = Upto(rows, k - 1) + 1 /\ b \in a .. n
        /\ \A i \in a .. b : rows[i] = rows[a] + (i - a)
    BY <1>1
  <2>2. rows[a] \in Nat /\ rows[b] \in Nat /\ rows[b] = rows[a] + (b - a)
    <3>1. b \in 1 .. n /\ b \in a .. b
      BY <1>4, <2>1
    <3>2. QED
      BY <1>4, <2>1, <3>1
  <2>3. select = b - a + 1
    BY <1>1, <1>2
  <2>4. from = rows[a]
    <3>1. CASE k = 1
      <4>1. f[k - 1].cursor = 0 /\ sel[k].skip = rows[a] - 0
        BY <1>2, <1>7, <3>1
      <4>2. QED
        BY <2>2, <4>1
    <3>2. CASE k # 1
      <4>1. k - 1 \in 1 .. K /\ k - 1 \in 0 .. K
        BY <1>1, <3>2
      <4>2. st[k - 1] \in 1 .. n /\ Upto(rows, k - 1) \in st[k - 1] .. n
        BY <1>1, <4>1
      <4>3. k - 1 \in 1 .. K /\ Upto(rows, k - 1) = a - 1
        BY <1>4, <2>1, <4>1, <4>2
      <4>4. a - 1 \in 1 .. n
        <5>1. Upto(rows, k - 1) \in 1 .. n
          BY <1>4, <4>2
        <5>2. QED
          BY <4>3, <5>1
      <4>5. rows[a - 1] \in Nat
        BY <1>4, <4>4
      <4>6. f[k - 1].cursor = rows[a - 1] + 1 /\ sel[k].skip = rows[a] - (rows[a - 1] + 1)
        BY <1>2, <1>7, <3>2, <4>3
      <4>7. QED
        BY <2>2, <4>5, <4>6
    <3>3. QED
      BY <3>1, <3>2
  <2>5. f[k].rows = f[k - 1].rows \o more /\ f[k].cursor = from + select
    <3>1. f[k] = Past(f[k - 1], sel[k])
      BY <1>3
    <3>2. Past(f[k - 1], sel[k]) = [cursor |-> from + select, rows |-> f[k - 1].rows \o more]
      BY DEF Past
    <3> HIDE DEF from, select, more
    <3>3. QED
      BY <3>1, <3>2
  <2> HIDE DEF a, b, select, from
  <2>6. more = SubSeq(rows, a, b)
    <3>1. \A i \in a .. b : rows[i] \in Nat
      BY <1>4, <2>1
    <3>2. a \in Int /\ b \in Int /\ a <= b /\ select \in Nat
      BY <2>1, <2>3
    <3>3. /\ SubSeq(rows, a, b) \in Seq(Nat) /\ Len(SubSeq(rows, a, b)) = select
          /\ \A i \in 1 .. select : SubSeq(rows, a, b)[i] = rows[a + i - 1]
      BY <2>3, <3>1, <3>2, SubSeqProperties
    <3>4. \A i \in 1 .. select : rows[a + i - 1] = from + i - 1
      <4> TAKE i \in 1 .. select
      <4>1. a + i - 1 \in a .. b /\ (a + i - 1) - a = i - 1
        BY <2>3, <3>2
      <4>2. rows[a + i - 1] = rows[a] + (i - 1)
        BY <2>1, <4>1
      <4>3. QED
        BY <2>2, <2>4, <4>2
    <3>5. DOMAIN SubSeq(rows, a, b) = 1 .. select
      BY <3>3
    <3>6. SubSeq(rows, a, b) = [i \in 1 .. select |-> SubSeq(rows, a, b)[i]]
      BY <3>3, <3>5
    <3>7. QED
      BY <3>3, <3>4, <3>6
  <2>7. f[k].rows = SubSeq(rows, 1, b)
    <3>1. /\ 1 \in 1 .. Len(rows) + 1 /\ a - 1 \in 1 - 1 .. Len(rows) /\ b \in a - 1 .. Len(rows)
          /\ (a - 1) + 1 = a
      BY <1>4, <2>1 DEF n
    <3>2. SubSeq(rows, 1, a - 1) \o SubSeq(rows, (a - 1) + 1, b) = SubSeq(rows, 1, b)
      BY <1>4, <3>1, ConcatAdjacentSubSeq
    <3>3. f[k - 1].rows = SubSeq(rows, 1, a - 1)
      <4>1. k - 1 \in 0 .. K
        BY <1>1
      <4>2. Upto(rows, k - 1) = a - 1
        <5>1. Upto(rows, k - 1) \in 0 .. n
          BY <1>5, <4>1
        <5>2. QED
          BY <1>4, <2>1, <5>1
      <4>3. QED
        BY <1>7, <4>2
    <3>4. QED
      BY <2>5, <2>6, <3>1, <3>2, <3>3
  <2>8. f[k].cursor = rows[b] + 1
    BY <2>1, <2>2, <2>3, <2>4, <2>5
  <2>9. QED
    BY <2>7, <2>8 DEF b
<1>8. ASSUME NEW k \in T \cap Nat PROVE k + 1 \in T
  <2>1. CASE k + 1 <= K
    <3>1. k <= K /\ k + 1 \in 1 .. K /\ (k + 1) - 1 = k
      BY <1>1, <2>1
    <3>2. Good(k)
      BY <3>1
    <3> HIDE DEF Good
    <3>3. Good(k + 1)
      BY <1>7, <3>1, <3>2
    <3>4. QED
      BY <3>3
  <2>2. CASE ~(k + 1 <= K)
    BY <2>2
  <2>3. QED
    BY <2>1, <2>2
<1> HIDE DEF Good
<1>9. 0 \in T
  BY <1>6
<1>10. Nat \subseteq T
  <2> HIDE DEF T
  <2>1. QED
    BY <1>8, <1>9, Induction
<1>11. Good(K)
  BY <1>1, <1>10
<1>12. f[K].rows = SubSeq(rows, 1, n)
  BY <1>1, <1>11 DEF Good
<1>13. SubSeq(rows, 1, n) = rows
  BY <1>4, SubSeqFull DEF n
<1>14. QED
  BY <1>3, <1>12, <1>13 DEF sel


------------------------------------------------------------------------------
(* Rows decoded. *)

LEMMA PlaceOf ==
  ASSUME NEW s, NEW i \in DOMAIN s, \A j \in DOMAIN s : s[j] = s[i] => j = i
  PROVE  Place(s, s[i]) = i
BY DEF Place

LEMMA AscendingPlace ==
  ASSUME NEW S, IsFiniteSet(S), S \subseteq Int, NEW x \in S
  PROVE  Place(Ascending(S), x) \in DOMAIN Ascending(S) /\ Ascending(S)[Place(Ascending(S), x)] = x
BY AscendingLists DEF Place

(* The rows come back in the order of the request with the cells of the     *)
(* columns asked for, although they are read in file and schema order.      *)
THEOREM DecodedRight ==
  ASSUME NEW rows \in Seq(Nat), NEW columns \in Seq(Col)
  PROVE  Decoded(rows, columns) = CellsOf(rows, columns)
<1> DEFINE R == Range(rows) \cap Row
           C == Range(columns)
           sorted == Ascending(R)
           roots == Ascending(C)
           yielded == Yielded(RowSelection(sorted))
           rendered(k) == [p \in DOMAIN roots |-> <<yielded[k], roots[p]>>]
           cell(i, j) == IF rows[i] \in Row
                           THEN rendered(Place(sorted, rows[i]))[Place(roots, columns[j])]
                           ELSE ""
           want(i, j) == IF rows[i] \in Row THEN <<rows[i], columns[j]>> ELSE ""
<1>1. IsFiniteSet(R) /\ R \subseteq Nat /\ R \subseteq Int
  <2>1. IsFiniteSet(Row)
    BY FS_Interval, SizeAssumption DEF Row
  <2>2. R \subseteq Row /\ Row \subseteq Nat /\ Row \subseteq Int
    BY SizeAssumption DEF Row
  <2> HIDE DEF R
  <2>3. QED
    BY <2>1, <2>2, FS_Subset
<1>2. IsFiniteSet(C) /\ C \subseteq Int
  <2>1. IsFiniteSet(Col)
    BY FS_Interval, SizeAssumption DEF Col
  <2>2. C \subseteq Col /\ Col \subseteq Int
    BY SizeAssumption DEF Col, Range
  <2> HIDE DEF C
  <2>3. QED
    BY <2>1, <2>2, FS_Subset
<1>3. yielded = sorted
  <2>1. /\ sorted \in Seq(R) /\ DOMAIN sorted = 1 .. Len(sorted)
        /\ \A i, j \in DOMAIN sorted : i < j <=> sorted[i] < sorted[j]
    <3> HIDE DEF R
    <3>1. QED
      BY <1>1, AscendingLists
  <2> HIDE DEF sorted, R
  <2>2. sorted \in Seq(Nat)
    BY <1>1, <2>1, SeqMonotonic
  <2>3. Climbs(sorted)
    BY <2>1, <2>2 DEF Climbs
  <2>4. QED
    BY <2>3, SelectionYields
<1>4. \A x \in R : Place(sorted, x) \in DOMAIN sorted /\ sorted[Place(sorted, x)] = x
  <2> HIDE DEF R
  <2>1. QED
    BY <1>1, AscendingPlace
<1>5. \A c \in C : Place(roots, c) \in DOMAIN roots /\ roots[Place(roots, c)] = c
  <2> HIDE DEF C
  <2>1. QED
    BY <1>2, AscendingPlace
<1>6. \A i \in DOMAIN rows : rows[i] \in Row => rows[i] \in R
  BY DEF Range
<1>7. \A j \in DOMAIN columns : columns[j] \in C
  BY DEF Range
<1>8. Decoded(rows, columns) = [i \in DOMAIN rows |-> [j \in DOMAIN columns |-> cell(i, j)]]
  BY DEF Decoded
<1>9. CellsOf(rows, columns) = [i \in DOMAIN rows |-> [j \in DOMAIN columns |-> want(i, j)]]
  BY DEF CellsOf
<1> HIDE DEF R, C, sorted, roots, yielded
<1>10. ASSUME NEW i \in DOMAIN rows, NEW j \in DOMAIN columns PROVE cell(i, j) = want(i, j)
  <2>1. CASE rows[i] \in Row
    <3> DEFINE a == Place(sorted, rows[i])
               b == Place(roots, columns[j])
    <3>1. sorted[a] = rows[i]
      BY <1>4, <1>6, <2>1
    <3>2. b \in DOMAIN roots /\ roots[b] = columns[j]
      BY <1>5, <1>7
    <3> HIDE DEF a, b
    <3>3. rendered(a)[b] = <<rows[i], columns[j]>>
      BY <1>3, <3>1, <3>2
    <3>4. QED
      BY <2>1, <3>3 DEF a, b
  <2>2. CASE rows[i] \notin Row
    BY <2>2
  <2>3. QED
    BY <2>1, <2>2
<1> HIDE DEF cell, want
<1>11. QED
  BY <1>8, <1>9, <1>10

------------------------------------------------------------------------------
(* The elements of a sequence in a set. *)

(* Two lists of one set in one order are the same.                          *)
LEMMA ListsAgree ==
  ASSUME NEW p, NEW q, NEW S, NEW R, NEW Q, Lists(p, S, R), Lists(q, S, Q),
         \A x, y \in S : <<x, y>> \in R <=> <<x, y>> \in Q
  PROVE  p = q
<1>1. /\ p \in Seq(S) /\ q \in Seq(S) /\ Len(p) = Len(q)
      /\ DOMAIN p = 1 .. Len(p) /\ DOMAIN q = 1 .. Len(q)
  BY DEF Lists
<1>2. ASSUME NEW i \in DOMAIN p PROVE p[i] = q[i]
  <2> DEFINE x == p[i]
  <2>1. x \in S /\ Cardinality(Under(R, S, x)) = i - 1 /\ i \in Int
    BY <1>1 DEF Lists
  <2>2. Under(R, S, x) = Under(Q, S, x)
    BY <2>1 DEF Under
  <2>3. q[Cardinality(Under(Q, S, x)) + 1] = x
    BY <2>1 DEF Lists
  <2> HIDE DEF x
  <2>4. Cardinality(Under(Q, S, x)) + 1 = i
    BY <2>1, <2>2
  <2>5. QED
    BY <2>3, <2>4 DEF x
<1>3. QED
  BY <1>1, <1>2, SeqEqual

(* None of them is listed twice, and where one is says how it is ordered.   *)
LEMMA ListsPlace ==
  ASSUME NEW s, NEW S, NEW R, Lists(s, S, R)
  PROVE  /\ IsInjective(s) /\ Range(s) = S
         /\ \A x \in S : /\ Place(s, x) \in DOMAIN s /\ s[Place(s, x)] = x
                         /\ Place(s, x) = Cardinality(Under(R, S, x)) + 1
         /\ \A i \in DOMAIN s : Place(s, s[i]) = i
         /\ \A x, y \in S : Place(s, x) < Place(s, y) <=> <<x, y>> \in R
<1>1. /\ DOMAIN s \subseteq Int
      /\ \A i \in DOMAIN s : s[i] \in S /\ Cardinality(Under(R, S, s[i])) = i - 1
      /\ \A x \in S : Cardinality(Under(R, S, x)) + 1 \in DOMAIN s
                        /\ s[Cardinality(Under(R, S, x)) + 1] = x
      /\ \A i, j \in DOMAIN s : i < j <=> <<s[i], s[j]>> \in R
  BY DEF Lists
<1>2. ASSUME NEW i \in DOMAIN s, NEW j \in DOMAIN s, s[i] = s[j] PROVE i = j
  <2>1. i - 1 = j - 1 /\ i \in Int /\ j \in Int
    BY <1>1, <1>2
  <2>2. QED
    BY <2>1
<1>3. IsInjective(s)
  BY <1>2 DEF IsInjective
<1>4. Range(s) = S
  BY <1>1 DEF Range
<1>5. \A i \in DOMAIN s : Place(s, s[i]) = i
  BY <1>2, PlaceOf
<1>6. \A x \in S : /\ Place(s, x) \in DOMAIN s /\ s[Place(s, x)] = x
                   /\ Place(s, x) = Cardinality(Under(R, S, x)) + 1
  BY <1>1, <1>5
<1>7. \A x, y \in S : Place(s, x) < Place(s, y) <=> <<x, y>> \in R
  BY <1>1, <1>6
<1>8. QED
  BY <1>3, <1>4, <1>5, <1>6, <1>7

LEMMA Places ==
  ASSUME NEW s, IsInjective(s)
  PROVE  /\ \A i \in DOMAIN s : Place(s, s[i]) = i
         /\ \A x \in Range(s) : Place(s, x) \in DOMAIN s /\ s[Place(s, x)] = x
<1>1. \A i \in DOMAIN s : Place(s, s[i]) = i
  BY PlaceOf DEF IsInjective
<1>2. ASSUME NEW x \in Range(s) PROVE Place(s, x) \in DOMAIN s /\ s[Place(s, x)] = x
  <2>1. PICK i \in DOMAIN s : x = s[i]
    BY DEF Range
  <2>2. QED
    BY <1>1, <2>1
<1>3. QED
  BY <1>1, <1>2

LEMMA Images ==
  ASSUME NEW s, IsInjective(s), NEW J, IsFiniteSet(J), J \subseteq DOMAIN s
  PROVE  LET X == {s[j] : j \in J} IN IsFiniteSet(X) /\ Cardinality(X) = Cardinality(J)
<1> DEFINE X == {s[j] : j \in J}
           f == [j \in J |-> s[j]]
<1>1. f \in Bijection(J, X)
  <2>1. f \in [J -> X] /\ \A x \in X : \E j \in J : f[j] = x
    OBVIOUS
  <2>2. \A a, b \in J : f[a] = f[b] => a = b
    BY DEF IsInjective
  <2> HIDE DEF f, X
  <2>3. QED
    BY <2>1, <2>2, Fun_IsBij
<1> HIDE DEF f, X
<1>2. ExistsBijection(J, X)
  BY <1>1 DEF ExistsBijection
<1>3. IsFiniteSet(X) /\ Cardinality(X) = Cardinality(J)
  BY <1>2, FS_Bijection
<1>4. QED
  BY <1>3 DEF X

Along(s) == {p \in Range(s) \X Range(s) : Place(s, p[1]) < Place(s, p[2])}

(* What is picked out of a sequence keeps its order.                        *)
LEMMA PickedLists ==
  ASSUME NEW T, NEW s \in Seq(T), IsInjective(s), NEW S
  PROVE  Lists(Picked(s, S), Range(s) \cap S, Along(s))
<1> DEFINE X == Range(s) \cap S
           I == {i \in DOMAIN s : s[i] \in S}
           at == Ascending(I)
           p == Picked(s, S)
           n == Cardinality(I)
<1>1. IsFiniteSet(I) /\ I \subseteq Int /\ I \subseteq DOMAIN s
  <2>1. DOMAIN s = 1 .. Len(s) /\ Len(s) \in Nat
    OBVIOUS
  <2>2. IsFiniteSet(DOMAIN s)
    BY <2>1, FS_Interval
  <2>3. I \subseteq DOMAIN s /\ I \subseteq Int
    BY <2>1
  <2> HIDE DEF I
  <2>4. QED
    BY <2>2, <2>3, FS_Subset
<1>2. /\ Lists(at, I, Lower(I)) /\ DOMAIN at = 1 .. n /\ n \in Nat
      /\ \A k \in 1 .. n : at[k] \in I /\ Cardinality(Under(Lower(I), I, at[k])) = k - 1
      /\ \A i \in I : \E k \in 1 .. n : at[k] = i
      /\ \A k, l \in 1 .. n : k < l <=> at[k] < at[l]
  <2> HIDE DEF I
  <2>1. QED
    BY <1>1, AscendingLists DEF Lists
<1>3. p = [k \in 1 .. n |-> s[at[k]]]
  BY <1>2 DEF Picked
<1>4. X = {s[i] : i \in I}
  BY DEF Range
<1>5. IsFiniteSet(X) /\ Cardinality(X) = n
  <2> HIDE DEF I
  <2>1. QED
    BY <1>1, <1>4, Images
<1>6. \A i \in DOMAIN s : Place(s, s[i]) = i
  BY Places
<1>7. ASSUME NEW i \in I PROVE Cardinality(Under(Along(s), X, s[i])) = Cardinality(Under(Lower(I), I, i))
  <2> DEFINE J == Under(Lower(I), I, i)
  <2>1. J = {j \in I : j < i}
    BY DEF Under, Lower
  <2>2. Under(Along(s), X, s[i]) = {s[j] : j \in J}
    <3>1. s[i] \in Range(s) /\ Place(s, s[i]) = i
      BY <1>6 DEF Range
    <3>2. Under(Along(s), X, s[i]) = {y \in X : Place(s, y) < i}
      <4> HIDE DEF I
      <4>1. QED
        BY <3>1 DEF Under, Along
    <3>3. \A j \in I : j \in DOMAIN s /\ Place(s, s[j]) = j
      BY <1>6
    <3> HIDE DEF I, X
    <3>4. {y \in X : Place(s, y) < i} = {s[j] : j \in {j \in I : j < i}}
      BY <1>4, <3>3
    <3>5. QED
      BY <2>1, <3>2, <3>4
  <2>3. IsFiniteSet(J) /\ J \subseteq DOMAIN s
    <3>1. J \subseteq I
      BY <2>1
    <3> HIDE DEF J, I
    <3>2. QED
      BY <1>1, <3>1, FS_Subset
  <2> HIDE DEF J, I
  <2>4. QED
    BY <2>2, <2>3, Images DEF J
<1>8. \A k \in 1 .. n : p[k] = s[at[k]] /\ at[k] \in I /\ at[k] \in DOMAIN s /\ at[k] \in Int
  BY <1>1, <1>2, <1>3
<1>9. \A k \in 1 .. n : p[k] \in X
  BY <1>4, <1>8
<1> HIDE DEF I, X, p, at
<1>10. \A k \in 1 .. n : Cardinality(Under(Along(s), X, p[k])) = k - 1
  BY <1>2, <1>7, <1>8
<1>11. p \in Seq(X) /\ Len(p) = n /\ DOMAIN p = 1 .. n
  <2> HIDE DEF n
  <2>1. DOMAIN p = 1 .. n /\ p \in [1 .. n -> X]
    BY <1>3, <1>9
  <2>2. QED
    BY <1>2, <2>1, SeqDef
<1>12. ASSUME NEW x \in X
       PROVE  /\ Cardinality(Under(Along(s), X, x)) + 1 \in DOMAIN p
              /\ p[Cardinality(Under(Along(s), X, x)) + 1] = x
  <2>1. PICK i \in I : x = s[i]
    BY <1>4
  <2>2. PICK k \in 1 .. n : at[k] = i
    BY <1>2
  <2>3. p[k] = x
    BY <1>8, <2>1, <2>2
  <2>4. Cardinality(Under(Along(s), X, x)) + 1 = k
    BY <1>10, <2>3
  <2>5. QED
    BY <1>11, <2>3, <2>4
<1>13. ASSUME NEW k \in DOMAIN p, NEW l \in DOMAIN p PROVE k < l <=> <<p[k], p[l]>> \in Along(s)
  <2>1. /\ k \in 1 .. n /\ l \in 1 .. n /\ p[k] = s[at[k]] /\ p[l] = s[at[l]]
        /\ at[k] \in DOMAIN s /\ at[l] \in DOMAIN s
    BY <1>8, <1>11
  <2>2. p[k] \in Range(s) /\ p[l] \in Range(s)
    BY <2>1 DEF Range
  <2>3. Place(s, p[k]) = at[k] /\ Place(s, p[l]) = at[l]
    BY <1>6, <2>1
  <2>4. <<p[k], p[l]>> \in Along(s) <=> at[k] < at[l]
    BY <2>2, <2>3 DEF Along
  <2>5. QED
    BY <1>2, <2>1, <2>4
<1>14. Lists(p, X, Along(s))
  BY <1>2, <1>5, <1>9, <1>10, <1>11, <1>12, <1>13 DEF Lists
<1>15. QED
  BY <1>14 DEF p, X

(* A sequence picked from: its elements, each once, and where they are.     *)
LEMMA PickedPlaces ==
  ASSUME NEW T, NEW s \in Seq(T), IsInjective(s), NEW S
  PROVE  LET p == Picked(s, S)
         IN  /\ p \in Seq(T) /\ IsInjective(p) /\ Range(p) = Range(s) \cap S
             /\ Len(p) = Cardinality(Range(s) \cap S)
             /\ \A x, y \in Range(s) \cap S :
                  Place(p, x) < Place(p, y) <=> Place(s, x) < Place(s, y)
<1> DEFINE p == Picked(s, S)
           X == Range(s) \cap S
<1>1. Lists(p, X, Along(s))
  BY PickedLists
<1>2. IsInjective(p) /\ Range(p) = X
      /\ \A x, y \in X : Place(p, x) < Place(p, y) <=> <<x, y>> \in Along(s)
  <2> HIDE DEF p, X
  <2>1. QED
    BY <1>1, ListsPlace
<1>3. \A x, y \in X : <<x, y>> \in Along(s) <=> Place(s, x) < Place(s, y)
  BY DEF Along
<1>4. p \in Seq(X) /\ Len(p) = Cardinality(X)
  BY <1>1 DEF Lists
<1>5. X \subseteq T
  BY DEF Range
<1> HIDE DEF p, X
<1>6. p \in Seq(T)
  BY <1>4, <1>5, SeqMonotonic
<1>7. QED
  BY <1>2, <1>3, <1>4, <1>6 DEF p, X

------------------------------------------------------------------------------
(* A column moved. *)

LEMMA Inserted ==
  ASSUME NEW T, NEW s \in Seq(T), NEW at \in 1 .. Len(s) + 1, NEW d \in T
  PROVE  LET r == InsertAt(s, at, d)
         IN  /\ r \in Seq(T) /\ Len(r) = Len(s) + 1
             /\ \A i \in 1 .. Len(s) + 1 :
                  r[i] = IF i < at THEN s[i] ELSE IF i = at THEN d ELSE s[i - 1]
<1> DEFINE n == Len(s)
           a == SubSeq(s, 1, at - 1)
           c == SubSeq(s, at, n)
           b == a \o <<d>>
           r == InsertAt(s, at, d)
<1>1. n \in Nat /\ at \in Nat /\ at \in 1 .. n + 1 /\ \A i \in 1 .. n : s[i] \in T
  OBVIOUS
<1>2. r = b \o c
  BY DEF InsertAt
<1>3. a \in Seq(T) /\ Len(a) = at - 1 /\ \A i \in 1 .. at - 1 : a[i] = s[i]
  <2>1. \A i \in 1 .. at - 1 : s[i] \in T
    BY <1>1
  <2>2. CASE at = 1
    <3>1. a = <<>>
      BY <2>2, SubSeqEmpty
    <3>2. QED
      BY <2>2, <3>1
  <2>3. CASE at # 1
    BY <1>1, <2>1, <2>3, SubSeqProperties
  <2>4. QED
    BY <2>2, <2>3
<1>4. c \in Seq(T) /\ Len(c) = n - at + 1 /\ \A i \in 1 .. n - at + 1 : c[i] = s[at + i - 1]
  <2>1. CASE at = n + 1
    <3>1. c = <<>>
      BY <1>1, <2>1, SubSeqEmpty
    <3>2. QED
      BY <1>1, <2>1, <3>1
  <2>2. CASE at # n + 1
    <3>1. \A i \in at .. n : s[i] \in T
      BY <1>1
    <3>2. QED
      BY <1>1, <2>2, <3>1, SubSeqProperties
  <2>3. QED
    BY <2>1, <2>2
<1> HIDE DEF a, c, n
<1>5. b \in Seq(T) /\ Len(b) = at /\ \A i \in 1 .. at : b[i] = IF i = at THEN d ELSE s[i]
  BY <1>1, <1>3, ConcatProperties
<1> HIDE DEF b
<1>6. r \in Seq(T) /\ Len(r) = n + 1
  <2>1. b \o c \in Seq(T) /\ Len(b \o c) = Len(b) + Len(c)
    BY <1>4, <1>5, ConcatProperties
  <2> HIDE DEF r
  <2>2. at + (n - at + 1) = n + 1
    BY <1>1
  <2>3. QED
    BY <1>2, <1>4, <1>5, <2>1, <2>2
<1>7. ASSUME NEW i \in 1 .. n + 1
      PROVE  r[i] = IF i < at THEN s[i] ELSE IF i = at THEN d ELSE s[i - 1]
  <2>1. CASE i <= at
    <3>1. r[i] = b[i]
      BY <1>1, <1>2, <1>4, <1>5, <2>1
    <3>2. QED
      BY <1>1, <1>5, <2>1, <3>1
  <2>2. CASE i > at
    <3>1. r[i] = c[i - at]
      BY <1>1, <1>2, <1>4, <1>5, <2>2
    <3>2. i - at \in 1 .. n - at + 1 /\ at + (i - at) - 1 = i - 1
      BY <1>1, <2>2
    <3>3. c[i - at] = s[i - 1]
      BY <1>4, <3>2
    <3>4. QED
      BY <1>1, <2>2, <3>1, <3>3
  <2>3. QED
    BY <1>1, <2>1, <2>2
<1>8. QED
  BY <1>6, <1>7 DEF n

LEMMA InsertedPlaces ==
  ASSUME NEW T, NEW s \in Seq(T), IsInjective(s), NEW at \in 1 .. Len(s) + 1,
         NEW d \in T, d \notin Range(s)
  PROVE  LET r == InsertAt(s, at, d)
         IN  /\ r \in Seq(T) /\ Len(r) = Len(s) + 1 /\ IsInjective(r)
             /\ Range(r) = Range(s) \cup {d} /\ Place(r, d) = at
             /\ \A x \in Range(s) :
                  Place(r, x) = IF Place(s, x) < at THEN Place(s, x) ELSE Place(s, x) + 1
<1> DEFINE r == InsertAt(s, at, d)
           n == Len(s)
<1>1. /\ r \in Seq(T) /\ Len(r) = n + 1 /\ n \in Nat /\ at \in 1 .. n + 1
      /\ \A i \in 1 .. n + 1 :
           r[i] = IF i < at THEN s[i] ELSE IF i = at THEN d ELSE s[i - 1]
  BY Inserted
<1>2. DOMAIN s = 1 .. n /\ DOMAIN r = 1 .. n + 1
  BY <1>1
<1> HIDE DEF r, n
<1>3. /\ \A i \in 1 .. n : s[i] \in Range(s) /\ s[i] # d
      /\ \A i, j \in 1 .. n : s[i] = s[j] => i = j
  BY <1>2 DEF Range, IsInjective
<1>4. r[at] = d
  BY <1>1
<1>5. \A i \in 1 .. n : i < at => i \in 1 .. n + 1 /\ r[i] = s[i]
  BY <1>1
<1>6. \A i \in 1 .. n : ~(i < at) => i + 1 \in 1 .. n + 1 /\ r[i + 1] = s[i]
  <2> TAKE i \in 1 .. n
  <2> HAVE ~(i < at)
  <2>1. i + 1 \in 1 .. n + 1 /\ ~(i + 1 < at) /\ i + 1 # at /\ (i + 1) - 1 = i
    BY <1>1
  <2>2. QED
    BY <1>1, <2>1
<1>7. ASSUME NEW i \in 1 .. n + 1
      PROVE  \/ i < at /\ i \in 1 .. n /\ r[i] = s[i]
             \/ i = at /\ r[i] = d
             \/ i > at /\ i - 1 \in 1 .. n /\ r[i] = s[i - 1]
  BY <1>1
<1>8. ASSUME NEW i \in 1 .. n + 1, NEW j \in 1 .. n + 1, r[i] = r[j] PROVE i = j
  <2>1. CASE i = at
    <3>1. ~(j < at) /\ ~(j > at)
      BY <1>3, <1>7, <1>8, <2>1
    <3>2. QED
      BY <1>1, <2>1, <3>1
  <2>2. CASE j = at
    <3>1. ~(i < at) /\ ~(i > at)
      BY <1>3, <1>7, <1>8, <2>2
    <3>2. QED
      BY <1>1, <2>2, <3>1
  <2>3. CASE i # at /\ j # at
    <3> DEFINE k == IF i < at THEN i ELSE i - 1
               l == IF j < at THEN j ELSE j - 1
    <3>1. k \in 1 .. n /\ r[i] = s[k]
      BY <1>7, <2>3
    <3>2. l \in 1 .. n /\ r[j] = s[l]
      BY <1>7, <2>3
    <3>3. k = l
      BY <1>3, <1>8, <3>1, <3>2
    <3>4. QED
      BY <1>1, <2>3, <3>3
  <2>4. QED
    BY <2>1, <2>2, <2>3
<1>9. IsInjective(r)
  BY <1>2, <1>8 DEF IsInjective
<1>10. Range(r) = Range(s) \cup {d}
  <2>1. \A i \in 1 .. n + 1 : r[i] \in Range(s) \cup {d}
    BY <1>3, <1>7
  <2>2. \A x \in Range(s) \cup {d} : \E i \in 1 .. n + 1 : r[i] = x
    <3> TAKE x \in Range(s) \cup {d}
    <3>1. CASE x = d
      BY <1>1, <1>4, <3>1
    <3>2. CASE x \in Range(s)
      <4>1. PICK i \in 1 .. n : s[i] = x
        BY <1>2, <3>2 DEF Range
      <4>2. QED
        BY <1>5, <1>6, <4>1
    <3>3. QED
      BY <3>1, <3>2
  <2>3. QED
    BY <1>2, <2>1, <2>2 DEF Range
<1>11. \A i \in 1 .. n + 1 : Place(r, r[i]) = i
  BY <1>2, <1>9, Places
<1>12. Place(r, d) = at
  BY <1>1, <1>4, <1>11
<1>13. ASSUME NEW x \in Range(s)
       PROVE  Place(r, x) = IF Place(s, x) < at THEN Place(s, x) ELSE Place(s, x) + 1
  <2>1. Place(s, x) \in 1 .. n /\ s[Place(s, x)] = x
    BY <1>2, Places
  <2>2. CASE Place(s, x) < at
    BY <1>5, <1>11, <2>1, <2>2
  <2>3. CASE ~(Place(s, x) < at)
    BY <1>6, <1>11, <2>1, <2>3
  <2>4. QED
    BY <2>2, <2>3
<1>14. QED
  BY <1>1, <1>9, <1>10, <1>12, <1>13 DEF r, n

LEMMA OrderIsList ==
  ASSUME NEW order \in Orders
  PROVE  /\ order \in Seq(Col) /\ Len(order) = Cols /\ IsInjective(order)
         /\ IsFiniteSet(Range(order)) /\ Cardinality(Range(order)) = Cols
         /\ Range(order) \subseteq Col
<1>1. Cols \in Nat /\ order \in [1 .. Cols -> Col] /\ IsInjective(order)
  BY SizeAssumption DEF Orders
<1>2. order \in Seq(Col) /\ Len(order) = Cols /\ DOMAIN order = 1 .. Cols
  BY <1>1, SeqDef
<1>3. IsFiniteSet(1 .. Cols) /\ Cardinality(1 .. Cols) = Cols
  BY <1>1, FS_Interval
<1>4. Range(order) = {order[i] : i \in 1 .. Cols}
  BY <1>2 DEF Range
<1>5. IsFiniteSet(Range(order)) /\ Cardinality(Range(order)) = Cols
  <2> DEFINE J == 1 .. Cols
  <2>1. J \subseteq DOMAIN order /\ IsFiniteSet(J)
    BY <1>2, <1>3
  <2> HIDE DEF J
  <2>2. /\ IsFiniteSet({order[i] : i \in J})
        /\ Cardinality({order[i] : i \in J}) = Cardinality(J)
    BY <1>1, <2>1, Images
  <2>3. QED
    BY <1>3, <1>4, <2>2 DEF J
<1>6. Range(order) \subseteq Col
  BY <1>1, <1>4
<1>7. QED
  BY <1>1, <1>2, <1>5, <1>6

(* reorder: the others keep their order, and the column dragged comes       *)
(* directly before or behind the target.                                    *)
LEMMA Reorders ==
  ASSUME NEW order \in Orders, NEW d \in Range(order), NEW t \in Range(order), d # t,
         NEW after \in BOOLEAN
  PROVE  LET o == Reordered(order, d, t, after)
             others == Range(order) \ {d}
         IN  /\ o \in Orders /\ Range(o) = Range(order)
             /\ \A x, y \in others : Place(o, x) < Place(o, y) <=> Place(order, x) < Place(order, y)
             /\ \A x \in others :
                  Place(o, x) < Place(o, d) <=>
                    Place(order, x) < Place(order, t) \/ (after /\ x = t)
<1> DEFINE others == Range(order) \ {d}
           s == Picked(order, Col \ {d})
           at == IF after THEN Place(s, t) + 1 ELSE Place(s, t)
           o == Reordered(order, d, t, after)
<1>1. /\ order \in Seq(Col) /\ IsInjective(order) /\ Len(order) = Cols
      /\ IsFiniteSet(Range(order)) /\ Cardinality(Range(order)) = Cols
      /\ Range(order) \subseteq Col
  BY OrderIsList
<1>2. Range(order) \cap (Col \ {d}) = others /\ t \in others /\ d \in Col
  BY <1>1
<1>3. /\ s \in Seq(Col) /\ IsInjective(s) /\ Range(s) = others /\ Len(s) = Cardinality(others)
      /\ \A x, y \in others : Place(s, x) < Place(s, y) <=> Place(order, x) < Place(order, y)
  <2> HIDE DEF s, others
  <2>1. QED
    BY <1>1, <1>2, PickedPlaces DEF s
<1>4. Len(s) + 1 = Cols
  <2>1. Cardinality(others) = Cols - 1
    BY <1>1, FS_RemoveElement
  <2>2. QED
    BY <1>3, <2>1, SizeAssumption
<1>5. o = InsertAt(s, at, d)
  BY DEF Reordered
<1> HIDE DEF s, o
<1>6. \A x \in others : Place(s, x) \in 1 .. Len(s) /\ s[Place(s, x)] = x
  BY <1>3, Places
<1>7. at \in 1 .. Len(s) + 1
  <2>1. Place(s, t) \in 1 .. Len(s) /\ Len(s) \in Nat
    <3>1. Len(s) \in Nat
      BY <1>3
    <3> HIDE DEF others
    <3>2. QED
      BY <1>2, <1>6, <3>1
  <2>2. QED
    BY <2>1
<1>8. d \notin Range(s)
  BY <1>3
<1> HIDE DEF at, others
<1>9. /\ o \in Seq(Col) /\ Len(o) = Cols /\ IsInjective(o)
      /\ Range(o) = others \cup {d} /\ Place(o, d) = at
      /\ \A x \in others :
           Place(o, x) = IF Place(s, x) < at THEN Place(s, x) ELSE Place(s, x) + 1
  BY <1>2, <1>3, <1>4, <1>5, <1>7, <1>8, InsertedPlaces
<1>10. o \in Orders /\ Range(o) = Range(order)
  <2>1. o \in [1 .. Cols -> Col]
    BY <1>9
  <2>2. Range(o) = Range(order)
    BY <1>9 DEF others
  <2>3. QED
    BY <1>9, <2>1, <2>2 DEF Orders
<1>11. ASSUME NEW x \in others, NEW y \in others
       PROVE  Place(o, x) < Place(o, y) <=> Place(order, x) < Place(order, y)
  <2>1. Place(s, x) \in Int /\ Place(s, y) \in Int /\ at \in Int
    BY <1>6, <1>7
  <2>2. Place(o, x) < Place(o, y) <=> Place(s, x) < Place(s, y)
    BY <1>9, <2>1
  <2>3. QED
    BY <1>3, <2>2
<1>12. ASSUME NEW x \in others
       PROVE  Place(o, x) < Place(o, d) <=> Place(order, x) < Place(order, t) \/ (after /\ x = t)
  <2>1. Place(s, x) \in Int /\ Place(s, t) \in Int /\ at \in Int
    BY <1>2, <1>6, <1>7
  <2>2. Place(o, x) < Place(o, d) <=> Place(s, x) < at
    BY <1>9, <2>1
  <2>3. Place(s, x) = Place(s, t) <=> x = t
    BY <1>2, <1>6
  <2>4. Place(s, x) < at <=> Place(s, x) < Place(s, t) \/ (after /\ x = t)
    BY <2>1, <2>3 DEF at
  <2>5. Place(s, x) < Place(s, t) <=> Place(order, x) < Place(order, t)
    BY <1>2, <1>3
  <2>6. QED
    BY <2>2, <2>4, <2>5
<1>13. QED
  BY <1>10, <1>11, <1>12 DEF o, others

(* header_cell_ui: among the columns displayed, the one dropped takes the   *)
(* place of the target, and the others stay in order.                       *)
LEMMA SlotTaken ==
  ASSUME NEW order \in Orders, NEW V, NEW d, NEW t, d # t,
         {d, t} \subseteq Range(Picked(order, V))
  PROVE  LET before == Picked(order, V)
             o == Reordered(order, d, t, Place(before, d) < Place(before, t))
             now == Picked(o, V)
         IN  /\ o \in Orders
             /\ Picked(now, Col \ {d}) = Picked(before, Col \ {d})
             /\ \A i \in DOMAIN before : before[i] = t => now[i] = d
<1> DEFINE before == Picked(order, V)
           after == Place(before, d) < Place(before, t)
           o == Reordered(order, d, t, after)
           now == Picked(o, V)
           X == Range(order) \cap V
           others == X \cap (Col \ {d})
<1>1. /\ order \in Seq(Col) /\ IsInjective(order) /\ Range(order) \subseteq Col
      /\ IsFiniteSet(Range(order))
  BY OrderIsList
<1>2. /\ before \in Seq(Col) /\ IsInjective(before) /\ Range(before) = X
      /\ \A x, y \in X : Place(before, x) < Place(before, y) <=> Place(order, x) < Place(order, y)
  BY <1>1, PickedPlaces
<1>3. /\ d \in X /\ t \in X /\ d \in Range(order) /\ t \in Range(order)
      /\ after <=> Place(order, d) < Place(order, t)
  BY <1>2
<1>4. after \in BOOLEAN
  OBVIOUS
<1> HIDE DEF after
<1>5. /\ o \in Orders /\ Range(o) = Range(order)
      /\ \A x, y \in Range(order) \ {d} :
           Place(o, x) < Place(o, y) <=> Place(order, x) < Place(order, y)
      /\ \A x \in Range(order) \ {d} :
           Place(o, x) < Place(o, d) <=> Place(order, x) < Place(order, t) \/ (after /\ x = t)
  BY <1>3, <1>4, Reorders
<1> HIDE DEF o
<1>6. o \in Seq(Col) /\ IsInjective(o)
  BY <1>5, OrderIsList
<1>7. /\ now \in Seq(Col) /\ IsInjective(now) /\ Range(now) = X
      /\ \A x, y \in X : Place(now, x) < Place(now, y) <=> Place(o, x) < Place(o, y)
  <2>1. /\ now \in Seq(Col) /\ IsInjective(now) /\ Range(now) = Range(o) \cap V
        /\ \A x, y \in Range(o) \cap V :
             Place(now, x) < Place(now, y) <=> Place(o, x) < Place(o, y)
    BY <1>6, PickedPlaces
  <2>2. Range(o) \cap V = X
    BY <1>5
  <2> HIDE DEF now, X
  <2>3. QED
    BY <2>1, <2>2
<1>8. others \subseteq X /\ others \subseteq Range(order) \ {d} /\ X \subseteq Range(order)
  OBVIOUS
<1>9. Picked(now, Col \ {d}) = Picked(before, Col \ {d})
  <2>1. Lists(Picked(now, Col \ {d}), others, Along(now))
    BY <1>7, PickedLists
  <2>2. Lists(Picked(before, Col \ {d}), others, Along(before))
    BY <1>2, PickedLists
  <2> HIDE DEF now, before, X, others
  <2>3. ASSUME NEW x \in others, NEW y \in others
        PROVE  <<x, y>> \in Along(now) <=> <<x, y>> \in Along(before)
    <3>1. /\ x \in X /\ y \in X /\ x \in Range(order) \ {d} /\ y \in Range(order) \ {d}
      BY <1>8
    <3>2. Place(now, x) < Place(now, y) <=> Place(before, x) < Place(before, y)
      BY <1>2, <1>5, <1>7, <3>1
    <3>3. QED
      BY <1>2, <1>7, <3>1, <3>2 DEF Along
  <2>4. QED
    BY <2>1, <2>2, <2>3, ListsAgree
<1>10. ASSUME NEW i \in DOMAIN before, before[i] = t PROVE now[i] = d
  <2> DEFINE L == Under(Along(order), X, t)
             M == Under(Along(o), X, d)
  <2>1. /\ Lists(before, X, Along(order)) /\ Lists(now, X, Along(o))
    BY <1>1, <1>5, <1>6, PickedLists
  <2>2. L = {x \in X : Place(order, x) < Place(order, t)}
    BY <1>3 DEF Under, Along
  <2>3. M = {x \in X : Place(o, x) < Place(o, d)}
    BY <1>3, <1>5 DEF Under, Along
  <2> HIDE DEF before, now
  <2>4. /\ Place(before, t) = i /\ Place(before, t) = Cardinality(L) + 1
    <3> HIDE DEF X
    <3>1. QED
      BY <1>3, <1>10, <2>1, ListsPlace
  <2>5. now[Cardinality(M) + 1] = d
    BY <1>3, <2>1 DEF Lists
  <2>6. Place(order, t) \in Int /\ Place(order, d) \in Int
    <3>1. DOMAIN order \subseteq Int
      BY <1>1
    <3>2. QED
      BY <1>1, <1>3, <3>1, Places
  <2>7. d \notin M /\ t \notin L
    <3>1. \A x \in Range(o) : Place(o, x) \in Int
      BY <1>6, Places
    <3>2. QED
      BY <1>3, <1>5, <2>2, <2>3, <2>6, <3>1
  <2>8. \A x \in X : x # d => (x \in M <=> x \in L \/ (after /\ x = t))
    BY <1>5, <1>8, <2>2, <2>3
  <2>9. L \subseteq X /\ M \subseteq X /\ IsFiniteSet(L)
    <3>1. L \subseteq X /\ M \subseteq X /\ L \subseteq Range(order)
      BY <2>2, <2>3
    <3> HIDE DEF L, M
    <3>2. QED
      BY <1>1, <3>1, FS_Subset
  <2> HIDE DEF L, M, X
  <2>10. Cardinality(L) \in Nat
    BY <2>9, FS_CardinalityType
  <2>11. Cardinality(M) = Cardinality(L)
    <3>1. CASE ~after
      <4>1. d \notin L
        BY <1>3, <2>2, <3>1
      <4>2. M = L
        BY <2>7, <2>8, <2>9, <3>1, <4>1
      <4>3. QED
        BY <4>2
    <3>2. CASE after
      <4>1. d \in L
        BY <1>3, <2>2, <3>2
      <4>2. M = (L \ {d}) \cup {t}
        BY <1>3, <2>7, <2>8, <2>9, <3>2
      <4>3. /\ IsFiniteSet(L \ {d}) /\ Cardinality(L \ {d}) = Cardinality(L) - 1
            /\ t \notin L \ {d}
        BY <2>7, <2>9, <4>1, FS_RemoveElement
      <4>4. Cardinality(M) = Cardinality(L) - 1 + 1
        BY <4>2, <4>3, FS_AddElement
      <4>5. QED
        BY <2>10, <4>4
    <3>3. QED
      BY <3>1, <3>2
  <2>12. QED
    BY <2>4, <2>5, <2>11
<1>11. QED
  BY <1>5, <1>9, <1>10 DEF o, after

------------------------------------------------------------------------------
(* The rows of a view. *)

LEMMA MatchedRows ==
  ASSUME NEW view
  PROVE  /\ IsFiniteSet(Matched(view)) /\ Matched(view) \subseteq Row
         /\ Cardinality(Matched(view)) \in 0 .. Rows /\ Total(view) \in 0 .. Rows
<1>1. Rows \in Nat /\ IsFiniteSet(Row) /\ Cardinality(Row) = Rows
  <2>1. Rows \in Nat
    BY SizeAssumption
  <2>2. Cardinality(0 .. Rows - 1) = IF 0 > Rows - 1 THEN 0 ELSE Rows - 1 - 0 + 1
    BY <2>1, FS_Interval
  <2>3. QED
    BY <2>1, <2>2, FS_Interval DEF Row
<1>2. Matched(view) \subseteq Row
  BY DEF Matched
<1>3. /\ IsFiniteSet(Matched(view)) /\ Cardinality(Matched(view)) \in Nat
      /\ Cardinality(Matched(view)) <= Rows
  BY <1>1, <1>2, FS_Subset, FS_CardinalityType
<1>4. QED
  BY <1>1, <1>2, <1>3 DEF Total

(* build_view: a view holds every row that matches once, in file order, or  *)
(* in the order of its keys, if they do not contradict each other.          *)
THEOREM BuildViewLists ==
  ASSUME NEW view \in View
  PROVE  LET rows == BuildView(view)
             key == SortedBy(view)
             up == view.sort.ascending
         IN  /\ Once(rows, Matched(view)) /\ rows \in Seq(Row)
             /\ view.sort = None =>
                  \A i, j \in DOMAIN rows : i < j <=> rows[i] < rows[j]
             /\ view.sort # None /\ Orderly(key, Matched(view)) =>
                  \A i, j \in DOMAIN rows : i < j <=> Precedes(key, up, rows[i], rows[j])
<1> DEFINE M == Matched(view)
           rows == BuildView(view)
           key == SortedBy(view)
           up == view.sort.ascending
<1>1. IsFiniteSet(M) /\ M \subseteq Row /\ M \subseteq Int
  BY MatchedRows, SizeAssumption DEF Row
<1>2. CASE view.sort = None
  <2>1. rows = Ascending(M)
    BY <1>2 DEF BuildView
  <2>2. Once(Ascending(M), M)
    BY <1>1, AscendingLists, ListsOnce
  <2>3. \A i, j \in DOMAIN Ascending(M) : i < j <=> Ascending(M)[i] < Ascending(M)[j]
    BY <1>1, AscendingLists
  <2> HIDE DEF rows, M
  <2>4. rows \in Seq(Row)
    BY <1>1, <2>1, <2>2, SeqMonotonic DEF Once
  <2>5. QED
    BY <1>2, <2>1, <2>2, <2>3, <2>4 DEF rows, M
<1>3. CASE view.sort # None
  <2>1. up \in BOOLEAN /\ view.sort.column \in Col
    BY <1>3 DEF View, Sort
  <2>2. key = Key[view.sort.column]
    <3> DEFINE c == view.sort.column
    <3>1. c \in Nat /\ c + 1 \in 1 .. Cols
      BY <2>1, SizeAssumption DEF Col
    <3>2. [i \in 1 .. Cols |-> i - 1][c + 1] = c /\ <<c>>[1] = c
      BY <3>1
    <3>3. key = Key[IF view.filter THEN [i \in 1 .. Cols |-> i - 1][c + 1] ELSE <<c>>[1]]
      BY DEF SortedBy
    <3> HIDE DEF key
    <3>4. QED
      BY <3>2, <3>3
  <2>3. \A r \in M : key[r] \in Parsed
    BY <1>1, <2>1, <2>2, KeyAssumption
  <2>4. rows = SortBy(M, key, up)
    BY <1>3 DEF BuildView
  <2> HIDE DEF rows, M, key, up
  <2>5. /\ Once(SortBy(M, key, up), M)
        /\ Orderly(key, M) => \A i, j \in DOMAIN SortBy(M, key, up) :
             i < j <=> Precedes(key, up, SortBy(M, key, up)[i], SortBy(M, key, up)[j])
    BY <1>1, <2>1, <2>3, SortByLists
  <2>6. rows \in Seq(Row)
    BY <1>1, <2>4, <2>5, SeqMonotonic DEF Once
  <2>7. QED
    BY <1>3, <2>4, <2>5, <2>6 DEF rows, M, key, up
<1>4. QED
  BY <1>2, <1>3

(* The data row at a place of a view, counted from 0.                       *)
RowAt(view, k) == IF view = Identity THEN k ELSE BuildView(view)[k + 1]

(* The data rows of a range of a view are those at its places, up to the    *)
(* end of the view.                                                         *)
LEMMA ResolvedRows ==
  ASSUME NEW view \in View, NEW first \in Nat, NEW length \in Nat
  PROVE  LET r == Resolved(view, first, length)
         IN  /\ r \in Seq(Nat)
             /\ \A i \in Nat : i \in DOMAIN r <=>
                  i >= 1 /\ i <= length
                    /\ (view = Identity \/ first + i <= Len(BuildView(view)))
             /\ \A i \in DOMAIN r : r[i] = RowAt(view, first + i - 1)
<1> DEFINE r == Resolved(view, first, length)
<1>1. CASE view = Identity
  <2> DEFINE e(i) == first + i - 1
  <2>1. r = [i \in 1 .. length |-> e(i)]
    BY <1>1 DEF Resolved
  <2>2. \A i \in 1 .. length : e(i) \in Nat
    OBVIOUS
  <2>3. \A i : e(i) = RowAt(view, e(i))
    BY <1>1 DEF RowAt
  <2> HIDE DEF e, r
  <2>4. r \in Seq(Nat) /\ DOMAIN r = 1 .. length
    BY <2>1, <2>2
  <2>5. \A i \in DOMAIN r : r[i] = RowAt(view, first + i - 1)
    BY <2>1, <2>3, <2>4 DEF e
  <2>6. QED
    BY <1>1, <2>4, <2>5 DEF r
<1>2. CASE view # Identity
  <2> DEFINE rows == BuildView(view)
             n == Len(rows)
             end == IF first + length > n THEN n ELSE first + length
  <2>1. rows \in Seq(Row) /\ Row \subseteq Nat
    BY BuildViewLists, SizeAssumption DEF Row
  <2>2. r = SubSeq(rows, first + 1, end)
    BY <1>2 DEF Resolved
  <2> HIDE DEF rows
  <2>3. n \in Nat /\ end \in Int /\ end <= n /\ \A i \in 1 .. n : rows[i] \in Nat
    <3>1. n \in Nat /\ \A i \in 1 .. n : rows[i] \in Row
      BY <2>1
    <3>2. \A i \in 1 .. n : rows[i] \in Nat
      BY <2>1, <3>1
    <3> HIDE DEF n
    <3>3. QED
      BY <3>1, <3>2
  <2>4. \A i \in Nat : i >= 1 /\ i <= end - first <=> i >= 1 /\ i <= length /\ first + i <= n
    BY <2>3
  <2> HIDE DEF end, n
  <2>5. \A i \in first + 1 .. end : rows[i] \in Nat
    BY <2>3
  <2>6. /\ r \in Seq(Nat)
        /\ Len(r) = IF first + 1 <= end THEN end - (first + 1) + 1 ELSE 0
        /\ \A i \in 1 .. end - (first + 1) + 1 : r[i] = rows[first + 1 + i - 1]
    BY <2>2, <2>3, <2>5, SubSeqProperties
  <2> HIDE DEF r
  <2>7. DOMAIN r = 1 .. end - first
    BY <2>3, <2>6
  <2>8. \A i \in DOMAIN r : r[i] = RowAt(view, first + i - 1)
    <3> TAKE i \in DOMAIN r
    <3>1. i \in 1 .. end - (first + 1) + 1 /\ first + 1 + i - 1 = first + i - 1 + 1
      BY <2>3, <2>7
    <3>2. r[i] = rows[first + i - 1 + 1]
      BY <2>6, <3>1
    <3>3. QED
      BY <1>2, <3>2 DEF RowAt, rows
  <2>9. \A i \in Nat : i \in DOMAIN r <=> i >= 1 /\ i <= end - first
    BY <2>3, <2>7
  <2>10. QED
    BY <1>2, <2>4, <2>6, <2>8, <2>9 DEF r, n, rows
<1>3. QED
  BY <1>1, <1>2

------------------------------------------------------------------------------
(* The inductive invariant of the grid. *)

(* A fetch keeps what it was asked for; its rows are those of the view it   *)
(* saw, and what it got are their cells.                                    *)
FetchRight(f) ==
  /\ f = [phase |-> f.phase, first |-> f.first, length |-> f.length, columns |-> f.columns,
          source |-> f.source, view |-> f.view, rows |-> f.rows, got |-> f.got]
  /\ f.phase \in {"resolve", "lookup", "decode", "done"}
  /\ f.first \in Nat /\ f.length \in Nat /\ f.columns \in Seq(Col)
  /\ f.phase # "resolve" => f.view \in View /\ f.rows = Resolved(f.view, f.first, f.length)
  /\ f.phase = "done" => f.got = CellsOf(f.rows, f.columns)

FetchesRight ==
  /\ DOMAIN fetches = {"grid", "reader"}
  /\ \A p \in {"grid", "reader"} : fetches[p] # None => FetchRight(fetches[p])

(* The cache holds the cells of the rows and columns it is filed under.     *)
LastRight ==
  last # None => last.columns \in Seq(Col) /\ last.got = CellsOf(last.rows, last.columns)

(* What a frame has drawn, and copied, are rows of the view it noted.       *)
DrawnRight ==
  /\ drawn.view \in View /\ drawn.first \in Nat /\ drawn.columns \in Seq(Col)
  /\ \E length \in 0 .. Window :
       drawn.got = CellsOf(Resolved(drawn.view, drawn.first, length), drawn.columns)

Copies(span) == Clamped(Length(span), MaxCopy + 1)

CopiedRight ==
  /\ copied.view \in View /\ copied.span \in Span
  /\ copied.got =
       CellsOf(Resolved(copied.view, Lo(copied.span), Copies(copied.span)), drawn.columns)

(* Where the frame is: its fetch is under way for the columns displayed,    *)
(* and what it has drawn is there before anything is copied.                *)
FrameRight ==
  /\ phase = "fetch" =>
       /\ FetchRight(fetches["grid"]) /\ fetches["grid"].columns = Displayed(grid)
       /\ fetches["grid"].length <= Window /\ copied = None
  /\ phase \in {"drawn", "copy"} => DrawnRight /\ drawn.columns = Displayed(grid)
  /\ phase = "copy" =>
       /\ FetchRight(fetches["grid"]) /\ fetches["grid"].columns = drawn.columns
       /\ copying \in Span /\ fetches["grid"].first = Lo(copying)
       /\ fetches["grid"].length = Copies(copying)
  /\ copied # None => DrawnRight /\ CopiedRight

GridState == [order : Orders, visible : SUBSET Col, filter : BOOLEAN,
              sort : Sort \cup {None}, selected : Span \cup {None}, selecting : BOOLEAN]

StateTyped ==
  /\ grid \in GridState /\ table \in [asked : View, shown : View]
  /\ phase \in {"idle", "fetch", "drawn", "copy"} /\ copying \in Span \cup {None}
  /\ acts \in 0 .. MaxActs /\ reads \in 0 .. MaxReads

GridInv == StateTyped /\ FetchesRight /\ LastRight /\ FrameRight

------------------------------------------------------------------------------
(* Every step keeps it. *)

LEMMA ShownColumns ==
  ASSUME NEW u, u.order \in Orders
  PROVE  Displayed(u) \in Seq(Col)
<1>1. u.order \in Seq(Col) /\ IsInjective(u.order)
  BY OrderIsList
<1>2. QED
  BY <1>1, PickedPlaces DEF Displayed

LEMMA CellsTyped ==
  ASSUME NEW rows, NEW columns \in Seq(Col), NEW i \in DOMAIN CellsOf(rows, columns)
  PROVE  LET cells == CellsOf(rows, columns)
         IN  cells[i] \in Seq(Cell) /\ Len(cells[i]) = Len(columns)
<1> DEFINE cell(j) == IF rows[i] \in Row THEN <<rows[i], columns[j]>> ELSE ""
           n == Len(columns)
<1>1. DOMAIN columns = 1 .. n /\ n \in Nat /\ i \in DOMAIN rows
  BY DEF CellsOf
<1>2. CellsOf(rows, columns)[i] = [j \in 1 .. n |-> cell(j)]
  BY <1>1 DEF CellsOf
<1>3. \A j \in 1 .. n : cell(j) \in Cell
  <2> TAKE j \in 1 .. n
  <2>1. columns[j] \in Col
    OBVIOUS
  <2>2. QED
    BY <2>1 DEF Cell
<1> HIDE DEF cell, n
<1>4. [j \in 1 .. n |-> cell(j)] \in Seq(Cell) /\ Len([j \in 1 .. n |-> cell(j)]) = n
  BY <1>1, <1>3
<1>5. QED
  BY <1>2, <1>4 DEF n

LEMMA RequestRight ==
  ASSUME NEW first \in Nat, NEW length \in Nat, NEW columns \in Seq(Col), NEW source
  PROVE  FetchRight(Request(first, length, columns, source))
BY DEF FetchRight, Request

LEMMA IdentityIsView == Identity \in View
BY DEF Identity, View

LEMMA SyncedType ==
  ASSUME NEW u \in GridState, table \in [asked : View, shown : View]
  PROVE  Synced(u) \in [asked : View, shown : View]
BY IdentityIsView DEF Synced, GridState, View

LEMMA PanelEditsType ==
  ASSUME NEW u \in GridState, NEW v \in PanelEdits(u)
  PROVE  v \in GridState
<1> DEFINE plain == [i \in 1 .. Cols |-> i - 1]
<1>1. plain \in Orders
  <2>1. plain \in [1 .. Cols -> Col]
    BY SizeAssumption DEF Col
  <2>2. \A a, b \in 1 .. Cols : plain[a] = plain[b] => a = b
    BY SizeAssumption
  <2>3. QED
    BY <2>1, <2>2 DEF Orders, IsInjective
<1> HIDE DEF plain
<1>2. CASE \E c \in Col : v = [u EXCEPT !.visible = (@ \ {c}) \cup ({c} \ @)]
  BY <1>2 DEF GridState
<1>3. CASE v \in {[u EXCEPT !.visible = Col], [u EXCEPT !.visible = {}], [u EXCEPT !.filter = ~@]}
  BY <1>3 DEF GridState
<1>4. CASE v = [u EXCEPT !.order = plain, !.visible = Col,
                         !.sort = None, !.filter = FALSE, !.selected = None]
  BY <1>1, <1>4 DEF GridState
<1>5. QED
  BY <1>2, <1>3, <1>4 DEF PanelEdits, plain

(* Whatever key is pressed, the selection stays on rows of the view.        *)
LEMMA MovedType ==
  ASSUME NEW u \in GridState, NEW key \in Keys, NEW shift \in BOOLEAN,
         NEW total \in 1 .. Rows
  PROVE  Moved(u, key, shift, total) \in GridState
<1> DEFINE lead == IF u.selected = None THEN None ELSE u.selected.lead
           next == LeadAfter(lead, key, total)
<1>1. Rows \in Nat /\ Page \in Nat
  BY SizeAssumption
<1>2. u.selected # None => u.selected \in Span
  BY DEF GridState
<1>3. u.selected # None => lead \in Row
  BY <1>2 DEF Span
<1>4. next \in Row
  <2>1. CASE key \in {"Home", "End"}
    BY <1>1, <2>1 DEF LeadAfter, Row
  <2>2. CASE lead = None /\ key \notin {"Home", "End"}
    BY <1>1, <2>2 DEF LeadAfter, Row
  <2>3. CASE lead # None /\ key \notin {"Home", "End"}
    <3>1. lead \in Row
      BY <1>3, <2>3
    <3> HIDE DEF lead
    <3>2. CASE key = "Down"
      BY <1>1, <2>3, <3>1, <3>2 DEF LeadAfter, Clamped, Row
    <3>3. CASE key = "PageDown"
      BY <1>1, <2>3, <3>1, <3>3 DEF LeadAfter, Clamped, Row
    <3>4. CASE key = "Up"
      BY <1>1, <2>3, <3>1, <3>4 DEF LeadAfter, Floored, Row
    <3>5. CASE key = "PageUp"
      BY <1>1, <2>3, <3>1, <3>5 DEF LeadAfter, Floored, Row
    <3>6. QED
      BY <2>3, <3>2, <3>3, <3>4, <3>5 DEF Keys
  <2>4. QED
    BY <2>1, <2>2, <2>3
<1> HIDE DEF lead, next
<1>5. (IF shift /\ u.selected # None THEN [anchor |-> u.selected.anchor, lead |-> next]
       ELSE Single(next)) \in Span
  BY <1>2, <1>4 DEF Span, Single
<1>6. QED
  BY <1>5 DEF Moved, GridState, lead, next

LEMMA InvTyped ==
  ASSUME GridInv
  PROVE  GridTypeOK
<1>1. last # None =>
        \A i \in DOMAIN last.got : last.got[i] \in Seq(Cell) /\ Len(last.got[i]) = Len(last.columns)
  BY CellsTyped DEF GridInv, LastRight
<1>2. QED
  BY <1>1 DEF GridInv, StateTyped, GridState, FetchesRight, FetchRight, GridTypeOK

LEMMA InitHolds ==
  ASSUME GridInit
  PROVE  GridInv
<1>1. grid \in GridState
  <2>1. PICK l \in Layouts :
          grid = [order |-> l.order, visible |-> l.visible, filter |-> FALSE, sort |-> None,
                  selected |-> None, selecting |-> FALSE]
    BY DEF GridInit
  <2>2. l.order \in Orders /\ l.visible \subseteq Col
    BY LayoutsAssumption
  <2>3. QED
    BY <2>1, <2>2 DEF GridState
<1>2. table \in [asked : View, shown : View]
  BY IdentityIsView DEF GridInit
<1>3. StateTyped
  BY <1>1, <1>2, SizeAssumption DEF GridInit, StateTyped
<1>4. FetchesRight /\ LastRight /\ FrameRight
  BY DEF GridInit, FetchesRight, LastRight, FrameRight
<1>5. QED
  BY <1>3, <1>4 DEF GridInv

(* A fetch goes on, and still is for what it was asked for.                 *)
LEMMA FetchAdvances ==
  ASSUME GridInv, NEW p \in {"grid", "reader"}, NEW g, FetchRight(g),
         g.first = fetches[p].first, g.length = fetches[p].length,
         g.columns = fetches[p].columns, fetches' = [fetches EXCEPT ![p] = g],
         UNCHANGED <<grid, table, phase, copying, drawn, copied, acts, reads>>
  PROVE  StateTyped' /\ FetchesRight' /\ FrameRight'
<1>1. StateTyped'
  BY DEF GridInv, StateTyped
<1>2. /\ DOMAIN fetches' = {"grid", "reader"} /\ fetches'[p] = g
      /\ \A q \in {"grid", "reader"} : q # p => fetches'[q] = fetches[q]
  BY DEF GridInv, FetchesRight
<1>3. FetchesRight'
  BY <1>2 DEF GridInv, FetchesRight
<1>4. /\ fetches'["grid"].first = fetches["grid"].first
      /\ fetches'["grid"].length = fetches["grid"].length
      /\ fetches'["grid"].columns = fetches["grid"].columns
      /\ FetchRight(fetches["grid"]) => FetchRight(fetches'["grid"])
  BY <1>2
<1>5. (DrawnRight => DrawnRight') /\ (CopiedRight => CopiedRight')
  BY DEF DrawnRight, CopiedRight
<1>6. FrameRight'
  BY <1>4, <1>5 DEF GridInv, FrameRight
<1>7. QED
  BY <1>1, <1>3, <1>6

LEMMA ResolveKeeps ==
  ASSUME GridInv, NEW p \in {"grid", "reader"}, Resolve(p)
  PROVE  GridInv'
<1> DEFINE f == fetches[p]
           view == IF f.source THEN Identity ELSE table.shown
           rows == Resolved(view, f.first, f.length)
           g == [f EXCEPT !.phase = "lookup", !.view = view, !.rows = rows]
<1>1. FetchRight(f) /\ fetches' = [fetches EXCEPT ![p] = g]
  BY DEF GridInv, FetchesRight, Resolve
<1>2. view \in View
  BY IdentityIsView DEF GridInv, StateTyped
<1> HIDE DEF f, view
<1>3. FetchRight(g) /\ g.first = f.first /\ g.length = f.length /\ g.columns = f.columns
  <2> HIDE DEF rows
  <2>1. PICK a, b, c, d, e, v, r, o :
          f = [phase |-> a, first |-> b, length |-> c, columns |-> d, source |-> e, view |-> v,
               rows |-> r, got |-> o]
    BY <1>1 DEF FetchRight
  <2>2. /\ g = [phase |-> "lookup", first |-> b, length |-> c, columns |-> d, source |-> e,
                view |-> view, rows |-> rows, got |-> o]
        /\ f.first = b /\ f.length = c /\ f.columns = d
    <3> DEFINE k == [f EXCEPT !.phase = "lookup"]
               l == [k EXCEPT !.view = view]
    <3>1. k = [phase |-> "lookup", first |-> b, length |-> c, columns |-> d, source |-> e,
               view |-> v, rows |-> r, got |-> o]
      BY <2>1
    <3>2. g = [l EXCEPT !.rows = rows]
      BY Zenon
    <3> HIDE DEF k
    <3>3. l = [phase |-> "lookup", first |-> b, length |-> c, columns |-> d, source |-> e,
               view |-> view, rows |-> r, got |-> o]
      BY <3>1
    <3> HIDE DEF l, g
    <3>4. g = [phase |-> "lookup", first |-> b, length |-> c, columns |-> d, source |-> e,
               view |-> view, rows |-> rows, got |-> o]
      BY <3>2, <3>3
    <3>5. QED
      BY <2>1, <3>4
  <2>3. f.first \in Nat /\ f.length \in Nat /\ f.columns \in Seq(Col)
    BY <1>1 DEF FetchRight
  <2> HIDE DEF g
  <2>4. /\ g.phase = "lookup" /\ g.first = f.first /\ g.length = f.length
        /\ g.columns = f.columns /\ g.view = view /\ g.rows = rows
        /\ g = [phase |-> g.phase, first |-> g.first, length |-> g.length, columns |-> g.columns,
                source |-> g.source, view |-> g.view, rows |-> g.rows, got |-> g.got]
    BY <2>2
  <2>5. QED
    BY <1>2, <2>3, <2>4 DEF FetchRight, rows
<1> HIDE DEF g
<1>4. StateTyped' /\ FetchesRight' /\ FrameRight'
  BY <1>1, <1>3, FetchAdvances DEF Resolve, f
<1>5. LastRight'
  BY DEF GridInv, LastRight, Resolve
<1>6. QED
  BY <1>4, <1>5 DEF GridInv

LEMMA NoCells == ASSUME NEW columns PROVE CellsOf(<<>>, columns) = <<>>
BY DEF CellsOf

LEMMA LookupKeeps ==
  ASSUME GridInv, NEW p \in {"grid", "reader"}, Lookup(p)
  PROVE  GridInv'
<1> DEFINE f == fetches[p]
           g == IF f.rows = <<>> THEN [f EXCEPT !.phase = "done", !.got = <<>>]
                ELSE IF Hit(f) THEN [f EXCEPT !.phase = "done", !.got = last.got]
                ELSE [f EXCEPT !.phase = "decode"]
<1>1. FetchRight(f) /\ f.phase = "lookup" /\ fetches' = [fetches EXCEPT ![p] = g]
  BY DEF GridInv, FetchesRight, Lookup
<1>2. f.rows = <<>> => CellsOf(f.rows, f.columns) = <<>>
  BY NoCells
<1>3. Hit(f) => last.got = CellsOf(f.rows, f.columns)
  BY DEF GridInv, LastRight, Hit
<1> HIDE DEF f
<1>4. FetchRight(g) /\ g.first = f.first /\ g.length = f.length /\ g.columns = f.columns
  <2>1. CASE f.rows = <<>>
    BY <1>1, <1>2, <2>1 DEF FetchRight
  <2>2. CASE f.rows # <<>> /\ Hit(f)
    BY <1>1, <1>3, <2>2 DEF FetchRight
  <2>3. CASE f.rows # <<>> /\ ~Hit(f)
    BY <1>1, <2>3 DEF FetchRight
  <2>4. QED
    BY <2>1, <2>2, <2>3
<1> HIDE DEF g
<1>5. StateTyped' /\ FetchesRight' /\ FrameRight'
  BY <1>1, <1>4, FetchAdvances DEF Lookup, f
<1>6. LastRight'
  BY DEF GridInv, LastRight, Lookup
<1>7. QED
  BY <1>5, <1>6 DEF GridInv

LEMMA StoreKeeps ==
  ASSUME GridInv, NEW p \in {"grid", "reader"}, Store(p)
  PROVE  GridInv'
<1> DEFINE f == fetches[p]
           got == Decoded(f.rows, f.columns)
           g == [f EXCEPT !.phase = "done", !.got = got]
<1>1. /\ FetchRight(f) /\ f.phase = "decode" /\ fetches' = [fetches EXCEPT ![p] = g]
      /\ last' = IF Range(f.rows) \cap Row = {} THEN last
                 ELSE [rows |-> f.rows, columns |-> f.columns, got |-> got]
  BY DEF GridInv, FetchesRight, Store
<1>2. f.rows \in Seq(Nat) /\ f.columns \in Seq(Col)
  <2>1. /\ f.view \in View /\ f.first \in Nat /\ f.length \in Nat
        /\ f.rows = Resolved(f.view, f.first, f.length) /\ f.columns \in Seq(Col)
    BY <1>1 DEF FetchRight
  <2>2. QED
    BY <2>1, ResolvedRows
<1>3. got = CellsOf(f.rows, f.columns)
  BY <1>2, DecodedRight
<1> HIDE DEF f, got
<1>4. FetchRight(g) /\ g.first = f.first /\ g.length = f.length /\ g.columns = f.columns
  <2>1. PICK a, b, c, d, e, v, r, o :
          f = [phase |-> a, first |-> b, length |-> c, columns |-> d, source |-> e, view |-> v,
               rows |-> r, got |-> o]
    BY <1>1 DEF FetchRight
  <2>2. /\ g = [phase |-> "done", first |-> b, length |-> c, columns |-> d, source |-> e,
                view |-> v, rows |-> r, got |-> got]
        /\ f.first = b /\ f.length = c /\ f.columns = d /\ f.view = v /\ f.rows = r
    <3> DEFINE k == [f EXCEPT !.phase = "done"]
    <3>1. k = [phase |-> "done", first |-> b, length |-> c, columns |-> d, source |-> e,
               view |-> v, rows |-> r, got |-> o]
      BY <2>1
    <3>2. g = [k EXCEPT !.got = got]
      BY Zenon
    <3> HIDE DEF k, g
    <3>3. g = [phase |-> "done", first |-> b, length |-> c, columns |-> d, source |-> e,
               view |-> v, rows |-> r, got |-> got]
      BY <3>1, <3>2
    <3>4. QED
      BY <2>1, <3>3
  <2>3. /\ f.first \in Nat /\ f.length \in Nat /\ f.columns \in Seq(Col)
        /\ f.view \in View /\ f.rows = Resolved(f.view, f.first, f.length)
    BY <1>1 DEF FetchRight
  <2> HIDE DEF g
  <2>4. /\ g.phase = "done" /\ g.first = f.first /\ g.length = f.length
        /\ g.columns = f.columns /\ g.view = f.view /\ g.rows = f.rows /\ g.got = got
        /\ g = [phase |-> g.phase, first |-> g.first, length |-> g.length, columns |-> g.columns,
                source |-> g.source, view |-> g.view, rows |-> g.rows, got |-> g.got]
    BY <2>2
  <2>5. QED
    BY <1>3, <2>3, <2>4 DEF FetchRight
<1> HIDE DEF g
<1>5. StateTyped' /\ FetchesRight' /\ FrameRight'
  BY <1>1, <1>4, FetchAdvances DEF Store, f
<1>6. LastRight'
  BY <1>1, <1>2, <1>3 DEF GridInv, LastRight
<1>7. QED
  BY <1>5, <1>6 DEF GridInv

LEMMA ViewLandsKeeps ==
  ASSUME GridInv, ViewLands
  PROVE  GridInv'
<1>1. table' \in [asked : View, shown : View]
  BY DEF GridInv, StateTyped, ViewLands
<1>2. StateTyped'
  BY <1>1 DEF GridInv, StateTyped, ViewLands
<1>3. FetchesRight' /\ LastRight'
  BY DEF GridInv, FetchesRight, LastRight, ViewLands
<1>4. (DrawnRight => DrawnRight') /\ (CopiedRight => CopiedRight')
  BY DEF DrawnRight, CopiedRight, ViewLands
<1>5. FrameRight'
  BY <1>4 DEF GridInv, FrameRight, ViewLands
<1>6. QED
  BY <1>2, <1>3, <1>5 DEF GridInv

(* The other thread begins or ends a read: the fetch of the frame stays.    *)
LEMMA ReaderKeeps ==
  ASSUME GridInv, NEW g, g # None => FetchRight(g),
         fetches' = [fetches EXCEPT !["reader"] = g], reads' \in 0 .. MaxReads,
         UNCHANGED <<grid, table, last, phase, copying, drawn, copied, acts>>
  PROVE  GridInv'
<1>1. StateTyped'
  BY DEF GridInv, StateTyped
<1>2. /\ DOMAIN fetches' = {"grid", "reader"} /\ fetches'["reader"] = g
      /\ fetches'["grid"] = fetches["grid"]
  BY DEF GridInv, FetchesRight
<1>3. FetchesRight'
  BY <1>2 DEF GridInv, FetchesRight
<1>4. LastRight'
  BY DEF GridInv, LastRight
<1>5. (DrawnRight => DrawnRight') /\ (CopiedRight => CopiedRight')
  BY DEF DrawnRight, CopiedRight
<1>6. FrameRight'
  BY <1>2, <1>5 DEF GridInv, FrameRight
<1>7. QED
  BY <1>1, <1>3, <1>4, <1>6 DEF GridInv

LEMMA ReadKeeps ==
  ASSUME GridInv, NEW columns \in {<< 0 >>, [i \in 1 .. Cols |-> i - 1]}, NEW source \in BOOLEAN,
         Read(0, Window, columns, source)
  PROVE  GridInv'
<1>1. columns \in Seq(Col)
  <2>1. CASE columns = <<0>>
    <3>1. 0 \in Col
      BY SizeAssumption DEF Col
    <3>2. QED
      BY <2>1, <3>1
  <2>2. CASE columns = [i \in 1 .. Cols |-> i - 1]
    <3> DEFINE e(i) == i - 1
    <3>1. Cols \in Nat /\ \A i \in 1 .. Cols : e(i) \in Col
      BY SizeAssumption DEF Col
    <3>2. columns = [i \in 1 .. Cols |-> e(i)]
      BY <2>2
    <3> HIDE DEF e
    <3>3. QED
      BY <3>1, <3>2
  <2>3. QED
    BY <2>1, <2>2
<1>2. FetchRight(Request(0, Window, columns, source))
  BY <1>1, RequestRight, SizeAssumption
<1>3. reads' \in 0 .. MaxReads
  BY SizeAssumption DEF GridInv, StateTyped, Read
<1>4. QED
  BY <1>2, <1>3, ReaderKeeps DEF Read

LEMMA ReadEndKeeps ==
  ASSUME GridInv, ReadEnd
  PROVE  GridInv'
<1>1. reads' \in 0 .. MaxReads
  BY DEF GridInv, StateTyped, ReadEnd
<1>2. fetches' = [fetches EXCEPT !["reader"] = None]
  BY DEF ReadEnd
<1>3. QED
  BY <1>1, <1>2, ReaderKeeps DEF ReadEnd

(* A frame begins: what it asks for is in sight of the view.                *)
LEMMA FrameKeeps ==
  ASSUME GridInv, phase = "idle", NEW u \in GridState, NEW t \in [asked : View, shown : View],
         Frame(u, t), acts' \in 0 .. MaxActs
  PROVE  GridInv'
<1>1. LastRight'
  BY DEF GridInv, LastRight, Frame
<1>2. CASE Displayed(u) = <<>>
  <2>1. grid' = u /\ phase' = phase /\ fetches' = fetches
    BY <1>2 DEF Frame
  <2>2. StateTyped'
    BY <2>1 DEF GridInv, StateTyped, Frame
  <2>3. FetchesRight'
    BY <2>1 DEF GridInv, FetchesRight
  <2>4. FrameRight'
    BY <2>1 DEF FrameRight, Frame
  <2>5. QED
    BY <1>1, <2>2, <2>3, <2>4 DEF GridInv
<1>3. CASE Displayed(u) # <<>>
  <2> DEFINE total == Total(t.shown)
             length(first) == Clamped(Window, total - first + 1)
             g(first) == Request(first, length(first), Displayed(u), FALSE)
  <2>1. PICK first \in {0} \cup 0 .. total - 1 :
          /\ grid' = u /\ phase' = "fetch"
          /\ fetches' = [fetches EXCEPT !["grid"] = g(first)]
    BY <1>3 DEF Frame
  <2>2. total \in 0 .. Rows /\ Window \in Nat /\ Rows \in Nat
    BY MatchedRows, SizeAssumption
  <2> HIDE DEF total
  <2>3. first \in Nat /\ length(first) \in Nat /\ length(first) <= Window
    BY <2>2 DEF Clamped
  <2>4. Displayed(u) \in Seq(Col)
    BY ShownColumns DEF GridState
  <2> HIDE DEF length
  <2>5. FetchRight(g(first))
    BY <2>3, <2>4, RequestRight
  <2>6. g(first).length = length(first) /\ g(first).columns = Displayed(u)
    BY DEF Request
  <2> HIDE DEF g
  <2>7. /\ DOMAIN fetches' = {"grid", "reader"} /\ fetches'["grid"] = g(first)
        /\ fetches'["reader"] = fetches["reader"]
    BY <2>1 DEF GridInv, FetchesRight
  <2>8. StateTyped'
    BY <2>1 DEF GridInv, StateTyped, Frame
  <2>9. FetchesRight'
    BY <2>5, <2>7 DEF GridInv, FetchesRight
  <2>10. FrameRight'
    BY <2>1, <2>3, <2>5, <2>6, <2>7 DEF FrameRight, Frame
  <2>11. QED
    BY <1>1, <2>8, <2>9, <2>10 DEF GridInv
<1>4. QED
  BY <1>2, <1>3

LEMMA BeginFrameKeeps ==
  ASSUME GridInv, BeginFrame
  PROVE  GridInv'
<1>1. /\ phase = "idle" /\ grid \in GridState /\ acts \in 0 .. MaxActs
      /\ table \in [asked : View, shown : View]
  BY DEF GridInv, StateTyped, BeginFrame
<1>2. \A u \in GridState : Synced(u) \in [asked : View, shown : View]
  BY <1>1, SyncedType
<1>3. CASE Frame(grid, Synced(grid)) /\ UNCHANGED acts
  BY <1>1, <1>2, <1>3, FrameKeeps
<1>4. CASE /\ acts < MaxActs /\ acts' = acts + 1
           /\ \E u \in PanelEdits(grid) : Frame(u, Synced(u))
  <2>1. PICK u \in PanelEdits(grid) : Frame(u, Synced(u))
    BY <1>4
  <2>2. u \in GridState
    BY <1>1, PanelEditsType
  <2>3. acts' \in 0 .. MaxActs
    BY <1>1, <1>4, SizeAssumption
  <2>4. QED
    BY <1>1, <1>2, <2>1, <2>2, <2>3, FrameKeeps
<1>5. CASE /\ acts < MaxActs /\ acts' = acts + 1
           /\ LET total == Total(Synced(grid).shown)
              IN  /\ total > 0 /\ Displayed(grid) # <<>>
                  /\ \E key \in Keys, shift \in BOOLEAN :
                       Frame(Moved(grid, key, shift, total), Synced(grid))
  <2> DEFINE total == Total(Synced(grid).shown)
  <2>1. PICK key \in Keys, shift \in BOOLEAN :
          Frame(Moved(grid, key, shift, total), Synced(grid))
    BY <1>5
  <2>2. total \in 1 .. Rows
    <3>1. total \in 0 .. Rows /\ total > 0
      BY <1>5, MatchedRows
    <3>2. QED
      BY <3>1, SizeAssumption
  <2>3. Moved(grid, key, shift, total) \in GridState
    <3> HIDE DEF total
    <3>1. QED
      BY <1>1, <2>2, MovedType
  <2>4. acts' \in 0 .. MaxActs
    BY <1>1, <1>5, SizeAssumption
  <2>5. QED
    BY <1>1, <1>2, <2>1, <2>3, <2>4, FrameKeeps
<1>6. QED
  BY <1>3, <1>4, <1>5 DEF BeginFrame

LEMMA DrawKeeps ==
  ASSUME GridInv, Draw
  PROVE  GridInv'
<1> DEFINE f == fetches["grid"]
<1>1. /\ phase = "fetch" /\ phase' = "drawn" /\ FetchRight(f) /\ f.phase = "done"
      /\ f.columns = Displayed(grid) /\ f.length <= Window /\ copied = None
      /\ drawn' = [first |-> f.first, got |-> f.got, columns |-> f.columns, view |-> f.view]
      /\ fetches' = [fetches EXCEPT !["grid"] = None]
  BY DEF GridInv, FrameRight, Draw
<1>2. DOMAIN fetches' = {"grid", "reader"} /\ fetches'["grid"] = None
      /\ fetches'["reader"] = fetches["reader"]
  BY <1>1 DEF GridInv, FetchesRight
<1>3. /\ f.view \in View /\ f.first \in Nat /\ f.columns \in Seq(Col)
      /\ f.length \in Nat /\ f.got = CellsOf(Resolved(f.view, f.first, f.length), f.columns)
  BY <1>1 DEF FetchRight
<1> HIDE DEF f
<1>4. f.length \in 0 .. Window
  BY <1>1, <1>3, SizeAssumption
<1>5. /\ drawn'.view = f.view /\ drawn'.first = f.first /\ drawn'.columns = f.columns
      /\ drawn'.got = f.got
  BY <1>1
<1>6. DrawnRight'
  BY <1>3, <1>4, <1>5 DEF DrawnRight
<1>7. drawn'.columns = Displayed(grid')
  BY <1>1, <1>5 DEF Draw
<1>8. StateTyped'
  BY <1>1 DEF GridInv, StateTyped, Draw
<1>9. FetchesRight' /\ LastRight'
  BY <1>2 DEF GridInv, FetchesRight, LastRight, Draw
<1>10. FrameRight'
  BY <1>1, <1>6, <1>7 DEF FrameRight, Draw
<1>11. QED
  BY <1>8, <1>9, <1>10 DEF GridInv

(* What the pointer does ends the frame with another state of the grid.     *)
LEMMA PointerKeeps ==
  ASSUME GridInv, phase = "drawn", phase' = "idle", grid' \in GridState,
         acts' \in 0 .. MaxActs,
         UNCHANGED <<table, last, fetches, copying, drawn, copied, reads>>
  PROVE  GridInv'
<1>1. StateTyped'
  BY DEF GridInv, StateTyped
<1>2. FetchesRight' /\ LastRight'
  BY DEF GridInv, FetchesRight, LastRight
<1>3. (DrawnRight => DrawnRight') /\ (CopiedRight => CopiedRight')
  BY DEF DrawnRight, CopiedRight
<1>4. FrameRight'
  BY <1>3 DEF GridInv, FrameRight
<1>5. QED
  BY <1>1, <1>2, <1>4 DEF GridInv

LEMMA PointKeeps ==
  ASSUME GridInv, NEW u \in GridState, Point(u)
  PROVE  GridInv'
<1>1. acts' \in 0 .. MaxActs /\ grid' \in GridState
  BY SizeAssumption DEF GridInv, StateTyped, Point
<1>2. QED
  BY <1>1, PointerKeeps DEF Point

LEMMA DragKeeps ==
  ASSUME GridInv, NEW u \in GridState, Drag(u)
  PROVE  GridInv'
<1>1. acts' \in 0 .. MaxActs /\ grid' \in GridState
  BY DEF GridInv, StateTyped, Drag
<1>2. QED
  BY <1>1, PointerKeeps DEF Drag

LEMMA EndFrameKeeps ==
  ASSUME GridInv, EndFrame
  PROVE  GridInv'
<1>1. acts' \in 0 .. MaxActs /\ grid' \in GridState
  BY DEF GridInv, StateTyped, EndFrame
<1>2. QED
  BY <1>1, PointerKeeps DEF EndFrame

(* The columns dropped are displayed, and they are displayed in the order   *)
(* of the grid.                                                             *)
LEMMA DropMoves ==
  ASSUME GridInv, NEW dragged, NEW target, DropColumn(dragged, target)
  PROVE  LET before == Displayed(grid)
             o == Reordered(grid.order, dragged, target,
                            Place(before, dragged) < Place(before, target))
         IN  /\ grid.order \in Orders /\ dragged # target
             /\ {dragged, target} \subseteq Range(Picked(grid.order, grid.visible))
             /\ grid' = [grid EXCEPT !.order = o] /\ grid \in GridState
<1>1. /\ phase = "drawn" /\ dragged # target /\ {dragged, target} \subseteq Range(drawn.columns)
      /\ grid' = AfterDrop(dragged, target)
  BY DEF DropColumn, Point
<1>2. drawn.columns = Displayed(grid)
  BY <1>1 DEF GridInv, FrameRight
<1>3. grid \in GridState /\ grid.order \in Orders
  BY DEF GridInv, StateTyped, GridState
<1>4. QED
  BY <1>1, <1>2, <1>3 DEF AfterDrop, Displayed

LEMMA DropColumnKeeps ==
  ASSUME GridInv, NEW dragged, NEW target, DropColumn(dragged, target)
  PROVE  GridInv'
<1> DEFINE before == Displayed(grid)
           o == Reordered(grid.order, dragged, target,
                          Place(before, dragged) < Place(before, target))
<1>1. /\ grid.order \in Orders /\ dragged # target /\ grid \in GridState
      /\ {dragged, target} \subseteq Range(Picked(grid.order, grid.visible))
      /\ grid' = [grid EXCEPT !.order = o]
  BY DropMoves
<1>2. o \in Orders
  BY <1>1, SlotTaken DEF Displayed
<1> HIDE DEF o
<1>3. grid' \in GridState
  BY <1>1, <1>2 DEF GridState
<1>4. acts' \in 0 .. MaxActs /\ phase = "drawn" /\ phase' = "idle"
  BY SizeAssumption DEF GridInv, StateTyped, DropColumn, Point
<1>5. QED
  BY <1>3, <1>4, PointerKeeps DEF DropColumn, Point

LEMMA HeaderClickKeeps ==
  ASSUME GridInv, NEW column \in Col, HeaderClick(column)
  PROVE  GridInv'
<1>1. grid \in GridState
  BY DEF GridInv, StateTyped
<1>2. /\ [column |-> column, ascending |-> TRUE] \in Sort
      /\ [column |-> column, ascending |-> FALSE] \in Sort
  BY DEF Sort
<1>3. SortCycled(column) \in GridState
  BY <1>1, <1>2 DEF SortCycled, GridState
<1>4. QED
  BY <1>3, PointKeeps DEF HeaderClick

LEMMA SingleType == ASSUME NEW row \in Row PROVE Single(row) \in Span
BY DEF Single, Span

LEMMA RowEventKeeps ==
  ASSUME GridInv, NEW row \in Row, RowEvent(row)
  PROVE  GridInv'
<1>1. grid \in GridState /\ Single(row) \in Span
  BY SingleType DEF GridInv, StateTyped
<1>2. Pressed(row) \in GridState /\ Clicked(row) \in GridState
  BY <1>1 DEF Pressed, Clicked, GridState
<1>3. QED
  BY <1>2, PointKeeps DEF RowEvent

LEMMA DragOverKeeps ==
  ASSUME GridInv, NEW row \in Row, DragOver(row)
  PROVE  GridInv'
<1>1. grid \in GridState
  BY DEF GridInv, StateTyped
<1>2. grid.selected # None => [grid.selected EXCEPT !.lead = row] \in Span
  BY <1>1 DEF GridState, Span
<1>3. DraggedTo(row) \in GridState
  BY <1>1, <1>2 DEF DraggedTo, GridState
<1>4. QED
  BY <1>3, DragKeeps DEF DragOver

LEMMA ReleaseKeeps ==
  ASSUME GridInv, Release
  PROVE  GridInv'
<1>1. Released \in GridState
  BY DEF GridInv, StateTyped, Released, GridState
<1>2. QED
  BY <1>1, DragKeeps DEF Release

LEMMA SpanType ==
  ASSUME NEW span \in Span
  PROVE  /\ Lo(span) \in Row /\ Hi(span) \in Row /\ Lo(span) \in Nat
         /\ Lo(span) <= Hi(span) /\ Copies(span) \in Nat
         /\ \A k \in 1 .. Length(span) : k <= MaxCopy => k <= Copies(span)
<1>1. span.anchor \in Row /\ span.lead \in Row /\ Rows \in Nat /\ MaxCopy \in Nat
  BY SizeAssumption DEF Span
<1>2. Lo(span) \in Row /\ Hi(span) \in Row /\ Lo(span) <= Hi(span)
  BY <1>1 DEF Lo, Hi, Row
<1>3. Length(span) \in Nat
  BY <1>1, <1>2 DEF Length, Row
<1>4. QED
  BY <1>1, <1>2, <1>3 DEF Copies, Clamped, Row

LEMMA CopyKeeps ==
  ASSUME GridInv, NEW span \in Span, Copy(span)
  PROVE  GridInv'
<1> DEFINE g == Request(Lo(span), Copies(span), drawn.columns, FALSE)
<1>1. /\ phase = "drawn" /\ phase' = "copy" /\ copying' = span
      /\ fetches' = [fetches EXCEPT !["grid"] = g]
      /\ UNCHANGED <<grid, table, last, drawn, copied, reads>>
  BY DEF Copy, Copies
<1>2. DrawnRight /\ drawn.columns = Displayed(grid) /\ drawn.columns \in Seq(Col)
  BY <1>1 DEF GridInv, FrameRight, DrawnRight
<1>3. FetchRight(g)
  BY <1>2, SpanType, RequestRight
<1>4. g.first = Lo(span) /\ g.length = Copies(span) /\ g.columns = drawn.columns
  BY DEF Request
<1> HIDE DEF g
<1>5. /\ DOMAIN fetches' = {"grid", "reader"} /\ fetches'["grid"] = g
      /\ fetches'["reader"] = fetches["reader"]
  BY <1>1 DEF GridInv, FetchesRight
<1>6. acts' \in 0 .. MaxActs
  BY SizeAssumption DEF GridInv, StateTyped, Copy
<1>7. StateTyped'
  BY <1>1, <1>6 DEF GridInv, StateTyped
<1>8. FetchesRight' /\ LastRight'
  BY <1>1, <1>3, <1>5 DEF GridInv, FetchesRight, LastRight
<1>9. DrawnRight' /\ (CopiedRight => CopiedRight')
  BY <1>1, <1>2 DEF DrawnRight, CopiedRight
<1>10. FrameRight'
  <2>1. copied' # None => CopiedRight'
    BY <1>1, <1>9 DEF GridInv, FrameRight
  <2>2. drawn'.columns = Displayed(grid')
    BY <1>1, <1>2
  <2>3. /\ FetchRight(fetches'["grid"]) /\ fetches'["grid"].columns = drawn'.columns
        /\ copying' \in Span /\ fetches'["grid"].first = Lo(copying')
        /\ fetches'["grid"].length = Copies(copying')
    BY <1>1, <1>3, <1>4, <1>5
  <2>4. QED
    BY <1>1, <1>9, <2>1, <2>2, <2>3 DEF FrameRight
<1>11. QED
  BY <1>7, <1>8, <1>10 DEF GridInv

LEMMA CopyEndKeeps ==
  ASSUME GridInv, CopyEnd
  PROVE  GridInv'
<1> DEFINE f == fetches["grid"]
<1>1. /\ phase = "copy" /\ phase' = "idle" /\ FetchRight(f) /\ f.phase = "done"
      /\ f.columns = drawn.columns /\ copying \in Span /\ f.first = Lo(copying)
      /\ f.length = Copies(copying) /\ DrawnRight
      /\ copied' = IF f.got = <<>> THEN None
                   ELSE [span |-> copying, got |-> f.got, view |-> f.view]
      /\ fetches' = [fetches EXCEPT !["grid"] = None]
      /\ UNCHANGED <<grid, table, last, copying, drawn, acts, reads>>
  BY DEF GridInv, FrameRight, CopyEnd
<1>2. DOMAIN fetches' = {"grid", "reader"} /\ fetches'["grid"] = None
      /\ fetches'["reader"] = fetches["reader"]
  BY <1>1 DEF GridInv, FetchesRight
<1>3. /\ f.view \in View
      /\ f.got = CellsOf(Resolved(f.view, Lo(copying), Copies(copying)), drawn.columns)
  BY <1>1 DEF FetchRight
<1> HIDE DEF f
<1>4. copied' # None => CopiedRight'
  <2> SUFFICES ASSUME copied' # None PROVE CopiedRight'
    OBVIOUS
  <2>1. /\ copied'.span = copying /\ copied'.got = f.got /\ copied'.view = f.view
    BY <1>1
  <2>2. QED
    BY <1>1, <1>3, <2>1 DEF CopiedRight
<1>5. DrawnRight'
  BY <1>1 DEF DrawnRight
<1>6. StateTyped'
  BY <1>1 DEF GridInv, StateTyped
<1>7. FetchesRight' /\ LastRight'
  BY <1>1, <1>2 DEF GridInv, FetchesRight, LastRight
<1>8. FrameRight'
  BY <1>1, <1>4, <1>5 DEF FrameRight
<1>9. QED
  BY <1>6, <1>7, <1>8 DEF GridInv

LEMMA NextKeeps ==
  ASSUME GridInv, [GridNext]_gridVars
  PROVE  GridInv'
<1>1. CASE GridNext
  <2>1. CASE BeginFrame \/ Draw \/ EndFrame \/ Release \/ CopyEnd
    BY <2>1, BeginFrameKeeps, DrawKeeps, EndFrameKeeps, ReleaseKeeps, CopyEndKeeps
  <2>2. CASE CopySelected
    <3>1. grid.selected \in Span
      BY <2>2 DEF CopySelected, GridInv, StateTyped, GridState
    <3>2. QED
      BY <2>2, <3>1, CopyKeeps DEF CopySelected
  <2>3. CASE \E dragged, target \in Col : DropColumn(dragged, target)
    BY <2>3, DropColumnKeeps
  <2>4. CASE \E column \in Col : HeaderClick(column)
    BY <2>4, HeaderClickKeeps
  <2>5. CASE \E row \in Row : RowEvent(row) \/ DragOver(row) \/ CopyRow(row)
    <3>1. PICK row \in Row : RowEvent(row) \/ DragOver(row) \/ CopyRow(row)
      BY <2>5
    <3>2. CASE CopyRow(row)
      BY <3>2, SingleType, CopyKeeps DEF CopyRow
    <3>3. QED
      BY <3>1, <3>2, RowEventKeeps, DragOverKeeps
  <2>6. CASE ViewLands \/ ReadEnd
    BY <2>6, ViewLandsKeeps, ReadEndKeeps
  <2>7. CASE \E columns \in {<<0>>, [i \in 1 .. Cols |-> i - 1]}, source \in BOOLEAN :
               Read(0, Window, columns, source)
    BY <2>7, ReadKeeps
  <2>8. CASE \E p \in {"grid", "reader"} : Resolve(p) \/ Lookup(p) \/ Store(p)
    BY <2>8, ResolveKeeps, LookupKeeps, StoreKeeps
  <2>9. QED
    BY <1>1, <2>1, <2>2, <2>3, <2>4, <2>5, <2>6, <2>7, <2>8 DEF GridNext
<1>2. CASE UNCHANGED gridVars
  <2>1. StateTyped' /\ FetchesRight' /\ LastRight'
    BY <1>2 DEF gridVars, GridInv, StateTyped, FetchesRight, LastRight
  <2>2. (DrawnRight => DrawnRight') /\ (CopiedRight => CopiedRight')
    BY <1>2 DEF gridVars, DrawnRight, CopiedRight
  <2>3. FrameRight'
    BY <1>2, <2>2 DEF gridVars, GridInv, FrameRight
  <2>4. QED
    BY <2>1, <2>3 DEF GridInv
<1>3. QED
  BY <1>1, <1>2

LEMMA InvHolds == GridSpec => []GridInv
<1>1. GridInit => GridInv
  BY InitHolds
<1>2. GridInv /\ [GridNext]_gridVars => GridInv'
  BY NextKeeps
<1>3. QED
  BY <1>1, <1>2, PTL DEF GridSpec

(* In every state the grid, its table, the fetches of both threads and the  *)
(* cache are what they are declared to be: no key or drag takes the         *)
(* selection off the rows, no drop makes two of a column.                   *)
THEOREM GridTypeCorrect == GridSpec => []GridTypeOK
<1>1. GridInv => GridTypeOK
  BY InvTyped
<1>2. QED
  BY <1>1, InvHolds, PTL

LEMMA Ends ==
  ASSUME NEW span \in Span
  PROVE  LET ends == {span.anchor, span.lead} IN Min(ends) = Lo(span) /\ Max(ends) = Hi(span)
<1> DEFINE a == span.anchor
           b == span.lead
           ends == {a, b}
<1>1. a \in Int /\ b \in Int
  BY SizeAssumption DEF Span, Row
<1> HIDE DEF a, b
<1>2. CASE a < b
  <2>1. a \in ends /\ b \in ends /\ \A y \in ends : a =< y /\ b >= y
    BY <1>1, <1>2
  <2>2. \A x \in ends : (\A y \in ends : x =< y) => x = a
    BY <1>1, <1>2
  <2>3. \A x \in ends : (\A y \in ends : x >= y) => x = b
    BY <1>1, <1>2
  <2> HIDE DEF ends
  <2>4. Min(ends) = a /\ Max(ends) = b
    BY <2>1, <2>2, <2>3 DEF Min, Max
  <2>5. QED
    BY <1>2, <2>4 DEF Lo, Hi, a, b, ends
<1>3. CASE ~(a < b)
  <2>1. a \in ends /\ b \in ends /\ \A y \in ends : b =< y /\ a >= y
    BY <1>1, <1>3
  <2>2. \A x \in ends : (\A y \in ends : x =< y) => x = b
    BY <1>1, <1>3
  <2>3. \A x \in ends : (\A y \in ends : x >= y) => x = a
    BY <1>1, <1>3
  <2> HIDE DEF ends
  <2>4. Min(ends) = b /\ Max(ends) = a
    BY <2>1, <2>2, <2>3 DEF Min, Max
  <2>5. QED
    BY <1>3, <2>4 DEF Lo, Hi, a, b, ends
<1>4. QED
  BY <1>2, <1>3

(* Two fetches of one view have the same cells where their ranges overlap.  *)
LEMMA SameCells ==
  ASSUME NEW view \in View, NEW columns, NEW first \in Nat, NEW length \in Nat,
         NEW from \in Nat, NEW count \in Nat,
         NEW i \in DOMAIN CellsOf(Resolved(view, first, length), columns),
         NEW k \in 1 .. count, first + i = from + k
  PROVE  LET got == CellsOf(Resolved(view, from, count), columns)
         IN  /\ k \in DOMAIN got
             /\ got[k] = CellsOf(Resolved(view, first, length), columns)[i]
<1> DEFINE r == Resolved(view, first, length)
           q == Resolved(view, from, count)
           cells(row) == [j \in DOMAIN columns |-> IF row \in Row THEN <<row, columns[j]>> ELSE ""]
<1>1. i \in DOMAIN r
  BY DEF CellsOf
<1>2. /\ r \in Seq(Nat)
      /\ \A n \in Nat : n \in DOMAIN r <=>
           n >= 1 /\ n <= length /\ (view = Identity \/ first + n <= Len(BuildView(view)))
      /\ \A n \in DOMAIN r : r[n] = RowAt(view, first + n - 1)
  BY ResolvedRows
<1>3. /\ \A n \in Nat : n \in DOMAIN q <=>
           n >= 1 /\ n <= count /\ (view = Identity \/ from + n <= Len(BuildView(view)))
      /\ \A n \in DOMAIN q : q[n] = RowAt(view, from + n - 1)
  BY ResolvedRows
<1>4. CellsOf(r, columns) = [n \in DOMAIN r |-> cells(r[n])]
  BY DEF CellsOf
<1>5. CellsOf(q, columns) = [n \in DOMAIN q |-> cells(q[n])]
  BY DEF CellsOf
<1> HIDE DEF r, q, cells
<1>6. i \in Nat /\ k \in Nat
  BY <1>1, <1>2
<1>7. view = Identity \/ first + i <= Len(BuildView(view))
  BY <1>1, <1>2, <1>6
<1>8. k \in DOMAIN q
  BY <1>3, <1>6, <1>7
<1>9. r[i] = RowAt(view, first + i - 1) /\ q[k] = RowAt(view, from + k - 1)
  BY <1>1, <1>2, <1>3, <1>8
<1>10. q[k] = r[i]
  <2>1. first + i - 1 = from + k - 1
    BY <1>6
  <2>2. QED
    BY <1>9, <2>1
<1>11. CellsOf(q, columns)[k] = CellsOf(r, columns)[i] /\ k \in DOMAIN CellsOf(q, columns)
  BY <1>1, <1>4, <1>5, <1>8, <1>10
<1>12. QED
  BY <1>11 DEF r, q

LEMMA RowsFollow ==
  ASSUME GridInv
  PROVE  RowsRight
<1>1. ASSUME NEW p \in {"grid", "reader"}, fetches[p] # None, fetches[p].phase = "done"
      PROVE  LET f == fetches[p]
             IN  f.got = CellsOf(Resolved(f.view, f.first, f.length), f.columns)
  BY <1>1 DEF GridInv, FetchesRight, FetchRight
<1>2. ASSUME copied # None, copied.view = drawn.view
      PROVE  LET ends == {copied.span.anchor, copied.span.lead}
                 place(row) == row - Min(ends) + 1
             IN  \A row \in InSight \cap (Min(ends) .. Max(ends)) : place(row) <= MaxCopy =>
                   /\ place(row) \in DOMAIN copied.got
                   /\ copied.got[place(row)] = drawn.got[row - drawn.first + 1]
  <2> DEFINE span == copied.span
             view == drawn.view
             columns == drawn.columns
             first == drawn.first
             lo == Lo(span)
             count == Copies(span)
  <2>1. DrawnRight /\ CopiedRight
    BY <1>2 DEF GridInv, FrameRight
  <2>2. PICK length \in 0 .. Window : drawn.got = CellsOf(Resolved(view, first, length), columns)
    BY <2>1 DEF DrawnRight
  <2>3. /\ view \in View /\ first \in Nat /\ columns \in Seq(Col) /\ length \in Nat
        /\ span \in Span /\ copied.got = CellsOf(Resolved(view, lo, count), columns)
    BY <1>2, <2>1, SizeAssumption DEF DrawnRight, CopiedRight
  <2>4. /\ lo \in Nat /\ Hi(span) \in Nat /\ count \in Nat /\ lo <= Hi(span)
        /\ Length(span) = Hi(span) - lo + 1
        /\ \A k \in 1 .. Length(span) : k <= MaxCopy => k <= count
    BY <2>3, SpanType, SizeAssumption DEF Row, Length
  <2>5. Min({span.anchor, span.lead}) = lo /\ Max({span.anchor, span.lead}) = Hi(span)
    BY <2>3, Ends
  <2>6. Len(drawn.got) \in Nat /\ DOMAIN drawn.got = 1 .. Len(drawn.got)
    <3> DEFINE r == Resolved(view, first, length)
               cells(i) == [j \in DOMAIN columns |->
                             IF r[i] \in Row THEN <<r[i], columns[j]>> ELSE ""]
    <3>1. r \in Seq(Nat)
      BY <2>3, ResolvedRows
    <3>2. drawn.got = [i \in DOMAIN r |-> cells(i)]
      BY <2>2 DEF CellsOf
    <3> HIDE DEF cells, r
    <3>3. DOMAIN r = 1 .. Len(r) /\ Len(r) \in Nat
      BY <3>1
    <3>4. QED
      BY <3>2, <3>3
  <2> HIDE DEF span, view, columns, first, lo, count
  <2>7. ASSUME NEW row \in InSight \cap (lo .. Hi(span)), row - lo + 1 <= MaxCopy
        PROVE  /\ row - lo + 1 \in DOMAIN copied.got
               /\ copied.got[row - lo + 1] = drawn.got[row - first + 1]
    <3> DEFINE i == row - first + 1
               k == row - lo + 1
    <3>1. row \in first .. first + Len(drawn.got) - 1 /\ row \in lo .. Hi(span)
      BY DEF InSight, first
    <3>2. i \in DOMAIN drawn.got
      BY <2>3, <2>6, <3>1
    <3>3. k \in 1 .. Length(span)
      BY <2>4, <3>1
    <3>4. k \in 1 .. count /\ first + i = lo + k
      BY <2>3, <2>4, <2>7, <3>1, <3>3
    <3> HIDE DEF i, k
    <3>5. k \in DOMAIN copied.got /\ copied.got[k] = drawn.got[i]
      BY <2>2, <2>3, <2>4, <3>2, <3>4, SameCells
    <3>6. QED
      BY <3>5 DEF i, k
  <2>8. QED
    BY <2>5, <2>7 DEF span, first
<1>3. QED
  BY <1>1, <1>2 DEF RowsRight

(* Fetches by two threads through the one-entry cache, with the view and    *)
(* the columns changing between them, return the cells asked for; and what  *)
(* is copied is what was drawn as selected.                                 *)
THEOREM RowsServedRight == GridSpec => []RowsRight
<1>1. GridInv => RowsRight
  BY RowsFollow
<1>2. QED
  BY <1>1, InvHolds, PTL

(* A column dropped takes the slot of its target, whatever is hidden.       *)
THEOREM DropTakesSlot == GridSpec => TakesSlot
<1> DEFINE Taken == \A dragged, target \in Col : DropColumn(dragged, target) =>
              LET before == Displayed(grid)
                  after == Displayed(grid')
              IN  /\ Picked(after, Col \ {dragged}) = Picked(before, Col \ {dragged})
                  /\ \A i \in DOMAIN before : before[i] = target => after[i] = dragged
<1>1. GridInv /\ [GridNext]_gridVars => [Taken]_gridVars
  <2> SUFFICES ASSUME GridInv, NEW dragged \in Col, NEW target \in Col,
                      DropColumn(dragged, target)
               PROVE  LET before == Displayed(grid)
                          after == Displayed(grid')
                      IN  /\ Picked(after, Col \ {dragged}) = Picked(before, Col \ {dragged})
                          /\ \A i \in DOMAIN before : before[i] = target => after[i] = dragged
    OBVIOUS
  <2> DEFINE V == grid.visible
             before == Picked(grid.order, V)
             o == Reordered(grid.order, dragged, target,
                            Place(before, dragged) < Place(before, target))
  <2>1. /\ grid.order \in Orders /\ dragged # target /\ grid \in GridState
        /\ {dragged, target} \subseteq Range(before)
        /\ grid' = [grid EXCEPT !.order = o]
    BY DropMoves DEF Displayed
  <2>2. /\ Picked(Picked(o, V), Col \ {dragged}) = Picked(before, Col \ {dragged})
        /\ \A i \in DOMAIN before : before[i] = target => Picked(o, V)[i] = dragged
    BY <2>1, SlotTaken
  <2> HIDE DEF o
  <2>3. grid'.order = o /\ grid'.visible = V
    BY <2>1 DEF GridState
  <2>4. Displayed(grid') = Picked(o, V) /\ Displayed(grid) = before
    BY <2>3 DEF Displayed
  <2>5. QED
    BY <2>2, <2>4
<1>2. QED
  BY <1>1, InvHolds, PTL DEF TakesSlot, GridSpec
==============================================================================
