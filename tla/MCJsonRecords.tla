---------------------------- MODULE MCJsonRecords ----------------------------
(* TLC instance of JsonRecords: the files a writer makes of a few values    *)
(* with brackets, commas and quotes inside, tightly or with blanks wherever *)
(* they may be, whole, or cut short at any token; and the same array with a *)
(* closing brace too many.                                                  *)
EXTENDS JsonRecords

Object(text, keys, cell, kind, whole) ==
  [text |-> text, object |-> TRUE, keys |-> keys, cell |-> cell, kind |-> kind,
   whole |-> whole]
Scalar(text, whole) ==
  [text |-> text, object |-> FALSE, keys |-> <<>>, cell |-> <<>>, kind |-> <<>>,
   whole |-> whole]

Plain == Object(<<"{", "a:", "1", "}">>, <<"a">>, [a |-> "1"], [a |-> "integer"], "{a:1}")
Quoted ==
  Object(<<"{", "b:", "quote", "}", "esc", "quote", "quote", ",", "a:", "2.5", "}">>,
         <<"b", "a">>, [b |-> "}'", a |-> "2.5"], [b |-> "other", a |-> "float"], "{b:}'}")
Nested ==
  Object(<<"{", "a:", "[", "1", ",", "{", "}", "]", "}">>, <<"a">>,
         [a |-> "[1,{}]"], [a |-> "other"], "{a:[1,{}]}")
Number == Scalar(<<"2.5">>, "2.5")
Text == Scalar(<<"quote", "]", ",", "quote">>, "],")

Usual == {Plain, Quoted, Nested, Number, Text}

(* 2.5 and 10 are numbers, and 10, 1a, 2.5 their order as text.             *)
Ten == Scalar(<<"10">>, "10")
Word == Scalar(<<"quote", "1a", "quote">>, "1a")
MCValues == Usual \cup {Ten, Word}

(* The cells in byte order; three of them are numbers.                      *)
Bytes ==
  <<"", "1", "10", "1a", "2.5", "[1,{}]", "],", "{a:1}", "{a:[1,{}]}", "{b:}'}", "}'">>
Tenths == [cell \in {"1", "10", "2.5"} |-> CASE cell = "1" -> 10 [] cell = "10" -> 100 [] OTHER -> 25]
MCKey ==
  [cell \in Range(Bytes) |->
    [kind |-> CASE cell \in {"1", "10"} -> "integer" [] cell = "2.5" -> "float" [] OTHER -> "text",
     integer |-> IF cell \in {"1", "10"} THEN Tenths[cell] ELSE 0,
     number |-> IF cell \in DOMAIN Tenths THEN Tenths[cell] ELSE 0,
     bytes |-> CHOOSE i \in DOMAIN Bytes : Bytes[i] = cell]]

Lead(mode, loose) ==
  (IF loose THEN <<"bom", "sp">> ELSE <<>>) \o (IF mode = "array" THEN <<"[">> ELSE <<>>)
Gap(mode, loose) ==
  IF mode = "lines" THEN (IF loose THEN <<"cr", "nl", "sp", "nl">> ELSE <<"nl">>)
  ELSE IF loose THEN <<"nl", ",", "sp">> ELSE <<",">>
Tail1(mode, loose) ==
  IF mode = "array" THEN <<"]">> ELSE IF loose THEN <<"nl">> ELSE <<>>

Body(values, mode, loose) ==
  LET text[n \in 0 .. Len(values)] ==
        IF n = 0 THEN <<>>
        ELSE text[n - 1] \o (IF n = 1 THEN <<>> ELSE Gap(mode, loose)) \o values[n].text
  IN  text[Len(values)]

(* The value that was cut off is not a row of its own but an unreadable one. *)
Cut(values, mode, loose, extension, length) ==
  LET upTo(n) == Len(Lead(mode, loose) \o Body(SubSeq(values, 1, n), mode, loose))
      from(n) == upTo(n) - Len(values[n].text)
      begun == {n \in DOMAIN values : from(n) < length}
  IN  [text |-> SubSeq(Lead(mode, loose) \o Body(values, mode, loose) \o Tail1(mode, loose),
                       1, length),
       extension |-> extension,
       rows |-> [n \in 1 .. Cardinality(begun) |->
                  IF upTo(n) <= length THEN values[n] ELSE None]]

Whole(values, mode, loose, extension) ==
  Cut(values, mode, loose, extension,
      Len(Lead(mode, loose) \o Body(values, mode, loose) \o Tail1(mode, loose)))

Modes == {"lines", "array"}
WholeFiles ==
  {Whole(values, mode, loose, "json") :
     values \in BoundedSeq(Usual, 2), mode \in Modes, loose \in BOOLEAN}
LongFiles ==
  {Whole(values, mode, FALSE, "jsonl") :
     values \in [1 .. 3 -> {Plain, Number}], mode \in Modes}
MixedFiles == {Whole(<<Number, Ten, Word>>, mode, FALSE, "jsonl") : mode \in Modes}
CutFiles ==
  UNION {{Cut(values, mode, values[1] = Quoted, "jsonl", length) :
            length \in 0 .. Len(Whole(values, mode, values[1] = Quoted, "jsonl").text)} :
           values \in {<<Quoted, Plain>>, <<Plain, Text>>}, mode \in Modes}

(* One set of them, which TLC makes once.                                   *)
MCFiles == {f : f \in WholeFiles \cup LongFiles \cup MixedFiles \cup CutFiles}

MCStray ==
  {[text |-> <<"[">> \o Plain.text \o <<"}", "]">>, extension |-> "json", rows |-> <<Plain>>]}

(* The stray brace makes a record the scan never gets past. *)
ASSUME WritersAreRead == Files = MCFiles => ReadsAsWritten

MCSpecs ==
  {[filter |-> "1", sort |-> None],
   [filter |-> None, sort |-> [column |-> 1, ascending |-> FALSE]]}
==============================================================================
