------------------------------ MODULE ViewBuild ------------------------------
(***************************************************************************)
(* The view machinery every table shares (table.rs, and line for line in   *)
(* json.rs and parquet.rs): set_view and clear_view run on the UI thread,  *)
(* each non-identity set_view spawns a worker that scans the source and    *)
(* stores the filtered and sorted row list under the view lock, and a      *)
(* worker that was superseded, cleared or dropped must not be seen again.  *)
(*                                                                         *)
(* One action per section of code between two accesses to shared state.    *)
(* Requests are numbered 1, 2, ...; request 0 is the table as opened. The  *)
(* rows a view holds are represented by the number of the request they     *)
(* answer, so `shown` is the content of the view mutex. Operators named    *)
(* ...Unsound and RetiredTooLate are slips the code could have made.       *)
(***************************************************************************)
EXTENDS Naturals

CONSTANT
  MaxRequests   \* bound: how many accepted set_view / clear_view calls

ASSUME MaxRequestsAssumption == MaxRequests \in Nat \ {0}

Requests == 1 .. MaxRequests

VARIABLES
  asked,      \* number of the latest accepted request
  kind,       \* what each request asked for
  token,      \* the request whose cancellation token view_cancel holds
  cancelled,  \* the tokens that were cancelled
  dropped,    \* has the table been dropped?
  shown,      \* the view mutex: the request its rows (or its None) answer
  viewLock,   \* the worker holding the view lock, or 0
  building,   \* the view_building flag
  ui,         \* where the UI thread stands inside set_view / clear_view
  worker,     \* where each request's worker stands
  failed      \* the requests whose scan could not read the source

requestVars == <<asked, kind, token, cancelled, dropped>>
viewVars    == <<shown, viewLock>>
workerVars  == <<worker, failed>>

vars == <<requestVars, viewVars, building, ui, workerVars>>

Kind == {"identity", "clear", "build"}

UiState == {"idle", "none", "settle", "raise", "spawn"}

WorkerState == {"absent", "scan", "built", "store", "lower", "done", "dead"}

TypeOK ==
  /\ asked \in 0 .. MaxRequests
  /\ kind \in [0 .. MaxRequests -> Kind]
  /\ token \in 0 .. asked
  /\ cancelled \subseteq 0 .. asked
  /\ dropped \in BOOLEAN
  /\ shown \in 0 .. asked
  /\ viewLock \in 0 .. MaxRequests
  /\ building \in BOOLEAN
  /\ ui \in UiState
  /\ worker \in [Requests -> WorkerState]
  /\ failed \subseteq Requests

Init ==
  /\ asked = 0
  /\ kind = [r \in 0 .. MaxRequests |-> "identity"]
  /\ token = 0
  /\ cancelled = {}
  /\ dropped = FALSE
  /\ shown = 0
  /\ viewLock = 0
  /\ building = FALSE
  /\ ui = "idle"
  /\ worker = [r \in Requests |-> "absent"]
  /\ failed = {}

------------------------------------------------------------------------------
(* The UI thread. *)

MayAsk == ui = "idle" /\ ~dropped /\ asked < MaxRequests

RetiredUnsound == cancelled

RetiredTooLate == cancelled \cup {asked + 1}

(* The tokens cancelled once the one in view_cancel is. *)
Retired == cancelled \cup {token}

(* set_view up to the release of the view_cancel lock: the old token is     *)
(* cancelled and a fresh one installed. A filter that does not compile      *)
(* returns before this point and changes nothing, so it is no step at all.  *)
SetView(k) ==
  /\ MayAsk
  /\ asked' = asked + 1
  /\ kind' = [kind EXCEPT ![asked + 1] = k]
  /\ cancelled' = Retired
  /\ token' = asked + 1
  /\ ui' = IF k = "identity" THEN "none" ELSE "raise"
  /\ UNCHANGED <<dropped, viewVars, building, workerVars>>

(* clear_view up to the view lock: the token is cancelled and stays. *)
ClearView ==
  /\ MayAsk
  /\ asked' = asked + 1
  /\ kind' = [kind EXCEPT ![asked + 1] = "clear"]
  /\ cancelled' = Retired
  /\ ui' = "none"
  /\ UNCHANGED <<token, dropped, viewVars, building, workerVars>>

InstallNoneUnsound ==
  /\ ui = "none"
  /\ shown' = asked
  /\ ui' = "settle"
  /\ UNCHANGED <<requestVars, viewLock, building, workerVars>>

(* Identity set_view and clear_view: put None in the view, under its lock. *)
InstallNone ==
  /\ ui = "none"
  /\ viewLock = 0
  /\ shown' = asked
  /\ ui' = "settle"
  /\ UNCHANGED <<requestVars, viewLock, building, workerVars>>

(* ... and then lower the building flag. *)
Settle ==
  /\ ui = "settle"
  /\ building' = FALSE
  /\ ui' = "idle"
  /\ UNCHANGED <<requestVars, viewVars, workerVars>>

(* A set_view with a filter or a sort raises the building flag ... *)
RaiseBuilding ==
  /\ ui = "raise"
  /\ building' = TRUE
  /\ ui' = "spawn"
  /\ UNCHANGED <<requestVars, viewVars, workerVars>>

(* ... and spawns the worker. *)
SpawnBuild ==
  /\ ui = "spawn"
  /\ worker' = [worker EXCEPT ![asked] = "scan"]
  /\ ui' = "idle"
  /\ UNCHANGED <<requestVars, viewVars, building, failed>>

(* The last handle to the table goes: its build is told to stop. *)
Drop ==
  /\ ui = "idle"
  /\ ~dropped
  /\ dropped' = TRUE
  /\ cancelled' = Retired
  /\ UNCHANGED <<asked, kind, token, viewVars, building, ui, workerVars>>

------------------------------------------------------------------------------
(* The worker of request r. *)

Advance(r, from, to) ==
  /\ worker[r] = from
  /\ worker' = [worker EXCEPT ![r] = to]

(* build_view returns the rows. It looks at its token only every 4096       *)
(* records (and per batch in parquet.rs), so it may finish although         *)
(* cancelled.                                                               *)
ScanDone(r) ==
  /\ Advance(r, "scan", "built")
  /\ UNCHANGED <<requestVars, viewVars, building, ui, failed>>

(* build_view sees its token cancelled. *)
ScanCancelled(r) ==
  /\ r \in cancelled
  /\ Advance(r, "scan", "lower")
  /\ UNCHANGED <<requestVars, viewVars, building, ui, failed>>

(* build_view returns an error of reading the source (a damaged parquet     *)
(* row group): the error is swallowed, nothing is stored.                   *)
ScanFailed(r) ==
  /\ Advance(r, "scan", "lower")
  /\ failed' = failed \cup {r}
  /\ UNCHANGED <<requestVars, viewVars, building, ui>>

(* build_view does not return: compare_keys is no total order of a column   *)
(* that mixes numbers and text, and sort_by may panic on such an order. The *)
(* thread ends there, with nothing stored and the flag as it stands; it     *)
(* holds no lock, so that none is poisoned.                                 *)
BuildPanics(r) ==
  /\ Advance(r, "scan", "dead")
  /\ UNCHANGED <<requestVars, viewVars, building, ui, failed>>

StillWantedUnsound(r) == TRUE

StillWanted(r) == r \notin cancelled

(* With the rows in hand: take the view lock, look at the token under it,   *)
(* and go on to store only if it is still good.                             *)
LockView(r) ==
  /\ viewLock = 0
  /\ StillWanted(r)
  /\ Advance(r, "built", "store")
  /\ viewLock' = r
  /\ UNCHANGED <<requestVars, shown, building, ui, failed>>

DiscardRowsUnsound(r) ==
  /\ viewLock # 0 \/ ~StillWanted(r)
  /\ Advance(r, "built", "lower")
  /\ UNCHANGED <<requestVars, viewVars, building, ui, failed>>

(* The token is cancelled: the rows are thrown away. *)
DiscardRows(r) ==
  /\ viewLock = 0
  /\ ~StillWanted(r)
  /\ Advance(r, "built", "lower")
  /\ UNCHANGED <<requestVars, viewVars, building, ui, failed>>

(* Store the rows and release the lock. A token cancelled since LockView    *)
(* no longer matters.                                                       *)
StoreRows(r) ==
  /\ Advance(r, "store", "lower")
  /\ shown' = r
  /\ viewLock' = 0
  /\ UNCHANGED <<requestVars, building, ui, failed>>

LowerBuildingUnsound(r) ==
  /\ Advance(r, "lower", "done")
  /\ building' = (building /\ r \in failed)
  /\ UNCHANGED <<requestVars, viewVars, ui, failed>>

(* The last statement of the worker, reached by every build that returns.   *)
LowerBuilding(r) ==
  /\ Advance(r, "lower", "done")
  /\ building' = FALSE
  /\ UNCHANGED <<requestVars, viewVars, ui, failed>>

------------------------------------------------------------------------------
UiStep == InstallNone \/ Settle \/ RaiseBuilding \/ SpawnBuild

WorkerStep(r) ==
  \/ ScanDone(r)
  \/ ScanCancelled(r)
  \/ ScanFailed(r)
  \/ BuildPanics(r)
  \/ LockView(r)
  \/ DiscardRows(r)
  \/ StoreRows(r)
  \/ LowerBuilding(r)

Next ==
  \/ \E k \in {"identity", "build"} : SetView(k)
  \/ ClearView
  \/ UiStep
  \/ Drop
  \/ \E r \in Requests : WorkerStep(r)

(* The scheduler runs the UI thread through a call it has entered, and      *)
(* every spawned worker. Nobody is obliged to ask for another view.         *)
Fairness ==
  /\ WF_vars(UiStep)
  /\ \A r \in Requests : WF_vars(WorkerStep(r))

Spec == Init /\ [][Next]_vars /\ Fairness

------------------------------------------------------------------------------
(* Properties. *)

(* A build whose worker may still store its rows. *)
Live(r) == worker[r] \in {"scan", "built", "store"}

Working(r) == Live(r) \/ worker[r] = "lower"

Quiet == ui = "idle" /\ \A r \in Requests : ~Working(r)

(* The comment in set_view: a cancelled build cannot resurrect a view the   *)
(* user just cleared. Once an identity set_view or a clear_view has         *)
(* returned, the view is None until the next request, whatever the workers  *)
(* of older requests still do.                                              *)
ClearedStaysCleared ==
  ui = "idle" /\ kind[asked] # "build" => shown = asked

(* What a caller may conclude from view_status. The flag is up only while   *)
(* the build asked for last is under way, or if it panicked: no other       *)
(* worker, and no request answered since, leaves it up. It may be down      *)
(* although that build is under way, but only if the worker of an older     *)
(* request has ended. And once every thread rests, the view asked for last  *)
(* is the one on display, unless the table was dropped, the source could    *)
(* not be read, or the build panicked.                                      *)
StatusTells ==
  /\ ui = "idle" /\ building =>
       asked \in Requests /\ (Working(asked) \/ worker[asked] = "dead")
  /\ ui = "idle" /\ ~building /\ asked \in Requests /\ Working(asked) =>
       \E r \in 1 .. asked - 1 : worker[r] = "done"
  /\ Quiet =>
       \/ shown = asked
       \/ dropped
       \/ asked \in failed
       \/ asked \in Requests /\ worker[asked] = "dead"

(* The table keeps the promise of ViewPromise: every step of its threads    *)
(* is one of the promise's steps or invisible to a reader of the view, so   *)
(* a slow superseded build never overwrites a faster newer one.             *)
Promise == INSTANCE ViewPromise WITH asked <- asked, shown <- shown
KeepsPromise == Promise!Spec

(* A request that nothing supersedes is answered in the end, unless its     *)
(* scan fails or its sort panics.                                           *)
LatestRequestLands ==
  \A r \in Requests :
    asked = r ~> \/ shown = r \/ asked > r
                 \/ r \in failed \/ worker[r] = "dead" \/ dropped

(* ViewStatus::building, as documented: "a view (filter/sort) is currently  *)
(* being built in the background". A caller that sees the flag down while   *)
(* the build it asked for is still running is told the opposite.            *)
BuildingWhileBuilt ==
  ui = "idle" /\ token \in Requests /\ token \notin cancelled /\ Live(token)
    => building
==============================================================================
