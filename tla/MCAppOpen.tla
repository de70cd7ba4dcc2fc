------------------------------ MODULE MCAppOpen ------------------------------
(* A packed object in a store, a packed local file, a plain one with a      *)
(* saved search, and one that is named as what it is not.                   *)
EXTENDS AppOpen

CONSTANTS url, packed, plain, misnamed

MCContent ==
  [t \in {url, packed, plain, misnamed} |->
     [magic |-> FALSE, json |-> IF t = packed THEN "array" ELSE None,
      extension |-> IF t = misnamed THEN "parquet" ELSE "other", readable |-> TRUE]]
==============================================================================
