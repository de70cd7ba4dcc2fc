----------------------------- MODULE MCGridTable -----------------------------
(* TLC instance of GridTable: three rows of three columns, the keys of which *)
(* are in neither order, have a tie, or contradict each other, and saved    *)
(* layouts with the columns in order and the middle one hidden or moved.    *)
EXTENDS GridTable

Number(n, place) == [kind |-> "integer", integer |-> n, number |-> n, bytes |-> place]
Text(place) == [kind |-> "text", integer |-> 0, number |-> 0, bytes |-> place]

(* The columns 2, 1, 2; 1, 2, 0; and 2, 10, 1a.                             *)
MCKey ==
  [c \in Col |-> [r \in Row |->
    CASE c = 0 -> Number(<<2, 1, 2>>[r + 1], <<2, 1, 2>>[r + 1])
      [] c = 1 -> Number((r + 1) % 3, (r + 1) % 3)
      [] c = 2 -> <<Number(2, 3), Number(10, 1), Text(2)>>[r + 1]]]

MCKept == {1, 2}
MCLayouts ==
  {[order |-> <<0, 1, 2>>, visible |-> {0, 1, 2}],
   [order |-> <<0, 1, 2>>, visible |-> {0, 2}],
   [order |-> <<2, 0, 1>>, visible |-> {0, 1, 2}]}
==============================================================================
