---------------------------- MODULE MCLoadedTable ----------------------------
(* TLC instance of LoadedTable: five records of two columns, or of one when *)
(* parsed with a semicolon. Column 0 sorts in neither order and has ties;   *)
(* the keys of column 1 contradict each other.                              *)
EXTENDS LoadedTable

CONSTANTS comma, semicolon

MCDelimiters == {comma, semicolon}
MCWidth == [d \in MCDelimiters |-> IF d = comma THEN 2 ELSE 1]

(* Hiding column 1 hides the first two matches.                             *)
MCHits ==
  [d \in MCDelimiters |->
    IF d = comma THEN {<<1, 1>>, <<2, 1>>, <<3, 0>>} ELSE {<<1, 0>>, <<3, 0>>}]

Number(n, place) == [kind |-> "integer", integer |-> n, number |-> n, bytes |-> place]
Text(place) == [kind |-> "text", integer |-> 0, number |-> 0, bytes |-> place]

(* Column 0: name, 2, 3, 1, 3. Column 1: name, 2, 10, 1a, 2.                *)
MCKey ==
  [d \in MCDelimiters |-> [c \in 0 .. 1 |->
    [r \in 0 .. 4 |->
      IF r = 0 THEN Text(9)
      ELSE IF c = 0 THEN Number(<<2, 3, 1, 3>>[r], <<2, 3, 1, 3>>[r])
      ELSE <<Number(2, 3), Number(10, 1), Text(2), Number(2, 3)>>[r]]]]

(* Nothing saved yet, a filter and the other delimiter, or a filter and the *)
(* column hidden that has the first matches.                                *)
MCSavedViews ==
  {None,
   [view |-> [query |-> Query, sort |-> None], width |-> 1, visible |-> {0},
    delimiter |-> semicolon],
   [view |-> [query |-> Query, sort |-> None], width |-> 2, visible |-> {0},
    delimiter |-> None]}
==============================================================================
