------------------------------- MODULE KeySort -------------------------------
(***************************************************************************)
(* How the rows of a view are put in order: compare_keys (sort.rs) and the *)
(* sort_by of build_view (table.rs, json.rs, parquet.rs).                  *)
(*                                                                         *)
(* compare_keys is no total order. "2" is before "10" as a number, "10"    *)
(* before "1a" and "1a" before "2" as text; and two integers that round to *)
(* one f64 are apart while a decimal number of that value equals both. Of  *)
(* such keys sort_by promises no order, only that every row is kept, and   *)
(* it may panic instead of returning.                                      *)
(***************************************************************************)
EXTENDS Integers, FiniteSets

(* A field as compare_keys reads it: what parse_int and parse_number make   *)
(* of it, in `number` the place its f64 has among those of the file, in     *)
(* `bytes` the place of its text. What it does not parse to is not read.    *)
Parsed ==
  [kind : {"integer", "float", "nan", "text"}, integer : Int, number : Int, bytes : Int]

(* compare_keys: is a less than b? Neither is less than the other if they   *)
(* are equal, or one of two numbers is NaN.                                 *)
Less(a, b) ==
  IF a.kind = "integer" /\ b.kind = "integer" THEN a.integer < b.integer
  ELSE IF a.kind # "text" /\ b.kind # "text"
    THEN a.kind # "nan" /\ b.kind # "nan" /\ a.number < b.number
  ELSE a.bytes < b.bytes

(* Do the keys of the rows in S contradict each other nowhere?              *)
Orderly(key, S) ==
  \A a, b, c \in S :
    Less(key[a], key[b]) => Less(key[a], key[c]) \/ Less(key[c], key[b])

(* Row a is displayed before row b; ties are left in the order of the file. *)
Precedes(key, ascending, a, b) ==
  \/ ascending /\ Less(key[a], key[b])
  \/ ~ascending /\ Less(key[b], key[a])
  \/ ~Less(key[a], key[b]) /\ ~Less(key[b], key[a]) /\ a < b

(* The elements of a finite set, one after the other: before has the pairs  *)
(* of them that are in order.                                               *)
InOrder(S, before) ==
  [i \in 1 .. Cardinality(S) |->
    CHOOSE x \in S : Cardinality({y \in S : <<y, x>> \in before}) = i - 1]

Ascending(S) ==
  [i \in 1 .. Cardinality(S) |-> CHOOSE x \in S : Cardinality({y \in S : y < x}) = i - 1]

(* sort_by, when it returns: the rows in S in the order of their keys, or,  *)
(* if these contradict each other, in an order that nothing may rely on.    *)
SortBy(S, key, ascending) ==
  IF Orderly(key, S)
    THEN InOrder(S, {p \in S \X S : Precedes(key, ascending, p[1], p[2])})
    ELSE CHOOSE s \in [1 .. Cardinality(S) -> S] : \A row \in S : \E i \in DOMAIN s : s[i] = row
==============================================================================
