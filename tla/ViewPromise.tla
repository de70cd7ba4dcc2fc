----------------------------- MODULE ViewPromise -----------------------------
(***************************************************************************)
(* What a table promises about its view (filter and sort), as the grid,    *)
(* the export thread and the find thread rely on it: requests are numbered *)
(* in the order they are made, and the rows on display are at every moment *)
(* the answer to one of the requests made so far, never to an older one    *)
(* than before. Request 0 is the table as it opens, in source order.       *)
(***************************************************************************)
EXTENDS Naturals

VARIABLES
  asked,    \* number of the latest request
  shown     \* the request whose answer the table displays

promiseVars == <<asked, shown>>

Init ==
  /\ asked = 0
  /\ shown = 0

(* A caller asks for another view; what is displayed does not change yet. *)
Ask ==
  /\ asked' = asked + 1
  /\ UNCHANGED shown

(* The answer to a newer request replaces the rows on display. *)
Show ==
  /\ \E r \in shown + 1 .. asked : shown' = r
  /\ UNCHANGED asked

Next == Ask \/ Show

Spec == Init /\ [][Next]_promiseVars
==============================================================================
