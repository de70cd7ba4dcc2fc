-------------------------- MODULE JsonRecordsProofs --------------------------
(***************************************************************************)
(* Proofs about JsonRecords, in three parts. The record found from a       *)
(* position starts at or after it, ends within the text and is found again *)
(* at its start (RecordFound), so that the records of a text are a walk    *)
(* along it that can be taken up anywhere (AfterAdds, SameAhead). With     *)
(* that the anchors lead to every record counted (IndexInv), and what the  *)
(* index serves is what streaming does (IndexAgrees), for every text. And  *)
(* for files that read as they were written the rows served are the rows   *)
(* written, in the order of the file or of a view (RowsServed).            *)
(***************************************************************************)
EXTENDS JsonRecords, FiniteSetTheorems, SequenceTheorems, WellFoundedInduction, TLAPS

------------------------------------------------------------------------------
(* Numbers. *)

(* The library has the well-founded order of the naturals, and so a least   *)
(* element of every set of them and, with sets for predicates, induction.   *)
LEMMA LeastNatural ==
  ASSUME NEW T, T \subseteq Nat, T # {}
  PROVE  \E x \in T : \A y \in T : x <= y
<1> DEFINE R == OpToRel(<, Nat)
<1>1. IsWellFoundedOn(R, Nat)
  BY NatLessThanWellFounded
<1>2. \A x, y \in Nat : x < y => <<x, y>> \in R
  BY DEF OpToRel
<1> HIDE DEF R
<1>3. \E x \in T : \A y \in T : ~(<<y, x>> \in R)
  BY <1>1, WFMin
<1>4. PICK x \in T : \A y \in T : ~(<<y, x>> \in R)
  BY <1>3
<1>5. ASSUME NEW y \in T PROVE x <= y
  <2>1. x \in Nat /\ y \in Nat
    OBVIOUS
  <2>2. ~(y < x)
    BY <1>2, <1>4, <2>1
  <2>3. QED
    BY <2>1, <2>2
<1>6. QED
  BY <1>5

LEMMA Induction ==
  ASSUME NEW T, 0 \in T, \A n \in T \cap Nat : n + 1 \in T
  PROVE  Nat \subseteq T
<1> SUFFICES ASSUME Nat \ T # {} PROVE FALSE
  OBVIOUS
<1>1. PICK x \in Nat \ T : \A y \in Nat \ T : x <= y
  BY LeastNatural
<1>2. x # 0 /\ x - 1 \in Nat
  BY <1>1
<1>3. x - 1 \in T
  BY <1>1, <1>2
<1>4. (x - 1) + 1 \in T
  BY <1>2, <1>3
<1>5. (x - 1) + 1 = x
  BY <1>2
<1>6. QED
  BY <1>4, <1>5

LEMMA MinIsLeast ==
  ASSUME NEW T, T \subseteq Nat, T # {}
  PROVE  Min(T) \in T /\ \A y \in T : Min(T) <= y
<1>1. \E x \in T : \A y \in T : x <= y
  BY LeastNatural
<1>2. QED
  BY <1>1 DEF Min

(* A function given by its first value and a step from each value to the    *)
(* next is there, and its values are of the step's type.                    *)
Iterates(f, n, a, step) ==
  f[0] = a /\ \A k \in 1 .. n : f[k] = step[<<k, f[k - 1]>>]

LEMMA Iteration ==
  ASSUME NEW S, NEW a \in S, NEW step \in [Nat \X S -> S], NEW n \in Nat
  PROVE  \E f \in [0 .. n -> S] : Iterates(f, n, a, step)
<1> DEFINE T == {m \in Nat : \E f \in [0 .. m -> S] : Iterates(f, m, a, step)}
<1>1. 0 \in T
  <2> DEFINE f == [k \in 0 .. 0 |-> a]
  <2>1. f \in [0 .. 0 -> S] /\ Iterates(f, 0, a, step)
    BY DEF Iterates
  <2>2. QED
    BY <2>1
<1>2. ASSUME NEW m \in T \cap Nat PROVE m + 1 \in T
  <2>1. PICK f \in [0 .. m -> S] : Iterates(f, m, a, step)
    OBVIOUS
  <2> DEFINE g == [k \in 0 .. m + 1 |-> IF k \in 0 .. m THEN f[k] ELSE step[<<m + 1, f[m]>>]]
  <2>2. g \in [0 .. m + 1 -> S]
    <3>1. f[m] \in S /\ m + 1 \in Nat
      OBVIOUS
    <3>2. step[<<m + 1, f[m]>>] \in S
      BY <3>1
    <3>3. QED
      BY <3>2
  <2>3. (\A k \in 0 .. m : g[k] = f[k]) /\ g[m + 1] = step[<<m + 1, f[m]>>]
    OBVIOUS
  <2> HIDE DEF g
  <2>4. Iterates(g, m + 1, a, step)
    <3>1. g[0] = a
      BY <2>1, <2>3 DEF Iterates
    <3>2. ASSUME NEW k \in 1 .. m + 1 PROVE g[k] = step[<<k, g[k - 1]>>]
      <4>1. k - 1 \in 0 .. m
        OBVIOUS
      <4>2. CASE k \in 1 .. m
        BY <2>1, <2>3, <4>1, <4>2 DEF Iterates
      <4>3. CASE k = m + 1
        BY <2>3, <4>3
      <4>4. QED
        BY <4>2, <4>3
    <3>3. QED
      BY <3>1, <3>2 DEF Iterates
  <2>5. QED
    BY <2>2, <2>4
<1>3. Nat \subseteq T
  <2> HIDE DEF T
  <2>1. QED
    BY <1>1, <1>2, Induction
<1>4. QED
  BY <1>3

------------------------------------------------------------------------------
(* Finding the records. *)

LEMMA PastFinds ==
  ASSUME NEW text, Len(text) \in Nat, NEW pos \in 1 .. Len(text) + 1, NEW tokens
  PROVE  /\ Past(text, pos, tokens) \in pos .. Len(text) + 1
         /\ Past(text, pos, tokens) <= Len(text) => text[Past(text, pos, tokens)] \notin tokens
         /\ pos <= Len(text) /\ text[pos] \notin tokens => Past(text, pos, tokens) = pos
<1> DEFINE T == {i \in pos .. Len(text) : text[i] \notin tokens} \cup {Len(text) + 1}
<1>1. /\ T \subseteq Nat /\ T # {} /\ T \subseteq pos .. Len(text) + 1
      /\ \A i \in T : i <= Len(text) => text[i] \notin tokens
      /\ pos <= Len(text) /\ text[pos] \notin tokens => pos \in T
  OBVIOUS
<1>2. Past(text, pos, tokens) = Min(T)
  BY DEF Past
<1> HIDE DEF T
<1>3. Min(T) \in T /\ \A y \in T : Min(T) <= y
  BY <1>1, MinIsLeast
<1>4. Min(T) \in pos .. Len(text) + 1 /\ (Min(T) <= Len(text) => text[Min(T)] \notin tokens)
  BY <1>1, <1>3
<1>5. pos \in T => Min(T) = pos
  <2>1. Min(T) \in Nat /\ Min(T) >= pos /\ (pos \in T => Min(T) <= pos)
    BY <1>3, <1>4
  <2>2. QED
    BY <2>1
<1>6. QED
  BY <1>1, <1>2, <1>4, <1>5

LEMMA ToFinds ==
  ASSUME NEW text, Len(text) \in Nat, NEW pos \in 1 .. Len(text) + 1, NEW tokens
  PROVE  To(text, pos, tokens) \in pos .. Len(text) + 1
<1> DEFINE T == {i \in pos .. Len(text) : text[i] \in tokens} \cup {Len(text) + 1}
<1>1. T \subseteq Nat /\ T # {} /\ T \subseteq pos .. Len(text) + 1
  OBVIOUS
<1>2. To(text, pos, tokens) = Min(T)
  BY DEF To
<1> HIDE DEF T
<1>3. Min(T) \in T
  BY <1>1, MinIsLeast
<1>4. QED
  BY <1>1, <1>2, <1>3

(* The scan of a value, token by token from the one before it. *)
Scans(text, start, at) ==
  at = [i \in start - 1 .. Len(text) |->
         IF i < start THEN Unscanned(start) ELSE Scanned(text[i])[at[i - 1]]]

LEMMA ScanTokenType ==
  ASSUME NEW s \in ScanState, NEW token \in STRING
  PROVE  /\ Scanned(token)[s] \in ScanState
         /\ Scanned(token)[s].end \in {s.end, s.end + 1}
<1>1. ScanToken(s, token) \in ScanState
  <2> DEFINE depth == IF s.quoted THEN s.depth
                      ELSE IF token \in Open THEN s.depth + 1
                      ELSE IF token \in Close /\ s.depth > 0 THEN s.depth - 1 ELSE s.depth
             quoted == IF Toggles(s, token) THEN ~s.quoted ELSE s.quoted
             escaped == s.quoted /\ token = "esc" /\ ~s.escaped
             closed == depth = 0 /\ ~quoted
  <2>1. depth \in Nat
    BY DEF ScanState
  <2>2. quoted \in BOOLEAN /\ escaped \in BOOLEAN /\ closed \in BOOLEAN /\ s.end + 1 \in Nat
    <3>1. s.quoted \in BOOLEAN /\ s.escaped \in BOOLEAN /\ s.end \in Nat
      BY DEF ScanState
    <3>2. quoted \in BOOLEAN
      BY <3>1, Zenon
    <3> HIDE DEF depth, quoted
    <3>3. QED
      BY <3>1, <3>2
  <2>3. ScanToken(s, token) =
          IF s.closed THEN s
          ELSE [depth |-> depth, quoted |-> quoted, escaped |-> escaped, closed |-> closed,
                end |-> s.end + 1]
    BY DEF ScanToken
  <2> HIDE DEF depth, quoted, escaped, closed
  <2>4. QED
    BY <2>1, <2>2, <2>3 DEF ScanState
<1>2. ScanToken(s, token).end \in {s.end, s.end + 1}
  BY DEF ScanToken
<1>3. Scanned(token)[s] = ScanToken(s, token)
  BY DEF Scanned
<1>4. QED
  BY <1>1, <1>2, <1>3

LEMMA UnscannedType == \A start \in Nat : Unscanned(start) \in ScanState
BY DEF Unscanned, ScanState

LEMMA ScanExists ==
  ASSUME NEW text \in Seq(STRING), NEW start \in 1 .. Len(text)
  PROVE  \E at : Scans(text, start, at)
<1> DEFINE n == Len(text) - start + 1
           S == ScanState
           a == Unscanned(start)
           token(k) == text[start - 1 + k]
           step == [p \in Nat \X S |-> IF start - 1 + p[1] \in 1 .. Len(text)
                                         THEN Scanned(token(p[1]))[p[2]] ELSE p[2]]
<1>1. n \in Nat /\ a \in S
  BY UnscannedType
<1>2. step \in [Nat \X S -> S]
  <2>1. ASSUME NEW k \in Nat, NEW s \in S, start - 1 + k \in 1 .. Len(text)
        PROVE  Scanned(token(k))[s] \in S
    <3>1. token(k) \in STRING
      BY <2>1
    <3>2. QED
      BY <3>1, ScanTokenType
  <2>2. QED
    BY <2>1
<1>3. \A k \in Nat, s \in S : start - 1 + k \in 1 .. Len(text) =>
        step[<<k, s>>] = Scanned(token(k))[s]
  OBVIOUS
<1> HIDE DEF S, a, step
<1>4. PICK f \in [0 .. n -> S] : Iterates(f, n, a, step)
  <2> HIDE DEF n
  <2>1. QED
    BY <1>1, <1>2, Iteration
<1>5. \A k \in 1 .. n : f[k] = Scanned(token(k))[f[k - 1]]
  <2> TAKE k \in 1 .. n
  <2>1. k \in Nat /\ k - 1 \in 0 .. n /\ start - 1 + k \in 1 .. Len(text)
    OBVIOUS
  <2>2. f[k - 1] \in S
    BY <1>4, <2>1
  <2>3. QED
    BY <1>3, <1>4, <2>1, <2>2 DEF Iterates
<1> DEFINE at == [i \in start - 1 .. Len(text) |-> f[i - (start - 1)]]
<1>6. \A i \in start - 1 .. Len(text) :
        at[i] = IF i < start THEN Unscanned(start) ELSE Scanned(text[i])[at[i - 1]]
  <2> TAKE i \in start - 1 .. Len(text)
  <2>1. CASE i < start
    <3>1. i - (start - 1) = 0
      BY <2>1
    <3>2. QED
      BY <1>4, <2>1, <3>1 DEF a, Iterates
  <2>2. CASE i >= start
    <3>1. /\ i - (start - 1) \in 1 .. n /\ (i - (start - 1)) - 1 = (i - 1) - (start - 1)
          /\ i - 1 \in start - 1 .. Len(text) /\ start - 1 + (i - (start - 1)) = i
      BY <2>2
    <3>2. f[i - (start - 1)] = Scanned(text[i])[f[(i - 1) - (start - 1)]]
      BY <1>5, <3>1
    <3>3. at[i] = f[i - (start - 1)] /\ at[i - 1] = f[(i - 1) - (start - 1)]
      BY <3>1
    <3> HIDE DEF at
    <3>4. ~(i < start) /\ at[i] = Scanned(text[i])[at[i - 1]]
      BY <2>2, <3>2, <3>3
    <3>5. QED
      BY <3>4
  <2>3. i < start \/ i >= start
    OBVIOUS
  <2> HIDE DEF at
  <2>4. QED
    BY <2>1, <2>2, <2>3
<1>7. DOMAIN at = start - 1 .. Len(text) /\ at = [i \in DOMAIN at |-> at[i]]
  OBVIOUS
<1> HIDE DEF at
<1>8. Scans(text, start, at)
  BY <1>6, <1>7, Zenon DEF Scans
<1>9. QED
  BY <1>8

LEMMA ScanStaysWithin ==
  ASSUME NEW text \in Seq(STRING), NEW start \in 1 .. Len(text), NEW at,
         Scans(text, start, at)
  PROVE  at[Len(text)] \in ScanState /\ at[Len(text)].end \in start .. Len(text) + 1
<1> DEFINE n == Len(text) - start + 1
           i(k) == start - 1 + k
           T == {k \in Nat : k <= n => /\ at[i(k)] \in ScanState
                                       /\ at[i(k)].end \in start .. i(k) + 1}
<1>1. \A j \in start - 1 .. Len(text) :
        at[j] = IF j < start THEN Unscanned(start) ELSE Scanned(text[j])[at[j - 1]]
  BY Zenon DEF Scans
<1>2. 0 \in T
  <2>1. i(0) = start - 1 /\ i(0) \in start - 1 .. Len(text) /\ i(0) < start
    OBVIOUS
  <2>2. at[i(0)] = Unscanned(start)
    BY <1>1, <2>1
  <2>3. QED
    BY <2>1, <2>2, UnscannedType DEF Unscanned
<1>3. ASSUME NEW k \in T \cap Nat PROVE k + 1 \in T
  <2> SUFFICES ASSUME k + 1 <= n
               PROVE  at[i(k + 1)] \in ScanState /\ at[i(k + 1)].end \in start .. i(k + 1) + 1
    OBVIOUS
  <2>1. /\ i(k + 1) \in start - 1 .. Len(text) /\ i(k + 1) >= start /\ i(k + 1) - 1 = i(k)
        /\ i(k + 1) \in 1 .. Len(text) /\ i(k) \in Int
    OBVIOUS
  <2>2. at[i(k)] \in ScanState /\ at[i(k)].end \in start .. i(k) + 1
    OBVIOUS
  <2>3. at[i(k + 1)] = Scanned(text[i(k + 1)])[at[i(k)]]
    <3>1. ~(i(k + 1) < start)
      BY <2>1
    <3>2. at[i(k + 1)] = Scanned(text[i(k + 1)])[at[i(k + 1) - 1]]
      <4> HIDE DEF i
      <4>1. QED
        BY <1>1, <2>1, <3>1
    <3>3. QED
      BY <2>1, <3>2
  <2>4. text[i(k + 1)] \in STRING
    BY <2>1
  <2> DEFINE s == at[i(k)]
             t == text[i(k + 1)]
             u == at[i(k + 1)]
  <2> HIDE DEF s, t, u
  <2>5. u \in ScanState /\ u.end \in {s.end, s.end + 1}
    BY <2>2, <2>3, <2>4, ScanTokenType DEF s, t, u
  <2>6. s.end \in start .. i(k) + 1
    BY <2>2 DEF s
  <2>7. u.end \in start .. i(k + 1) + 1
    BY <2>1, <2>5, <2>6
  <2>8. QED
    BY <2>5, <2>7 DEF u
<1>4. n \in T
  <2>1. n \in Nat
    OBVIOUS
  <2> HIDE DEF T, n
  <2>2. QED
    BY <1>2, <1>3, <2>1, Induction
<1>5. i(n) = Len(text) /\ n <= n
  OBVIOUS
<1>6. QED
  BY <1>4, <1>5

LEMMA ValueEndWithin ==
  ASSUME NEW text \in Seq(STRING), NEW start \in 1 .. Len(text)
  PROVE  ValueEnd(text, start) \in start .. Len(text) + 1
<1> DEFINE at == CHOOSE f : Scans(text, start, f)
<1>1. Scans(text, start, at)
  BY ScanExists
<1>2. at = CHOOSE f : f = [i \in start - 1 .. Len(text) |->
                            IF i < start THEN Unscanned(start)
                            ELSE Scanned(text[i])[f[i - 1]]]
  BY Zenon DEF Scans
<1> HIDE DEF at
<1>3. ValueEnd(text, start) =
        IF text[start] \in Open \cup {"quote"} THEN at[Len(text)].end
        ELSE To(text, start, Blank \cup Close \cup {","})
  BY <1>2 DEF ValueEnd
<1>4. at[Len(text)].end \in start .. Len(text) + 1
  BY <1>1, ScanStaysWithin
<1>5. To(text, start, Blank \cup Close \cup {","}) \in start .. Len(text) + 1
  <2>1. Len(text) \in Nat /\ start \in 1 .. Len(text) + 1
    OBVIOUS
  <2>2. QED
    BY <2>1, ToFinds
<1>6. QED
  BY <1>3, <1>4, <1>5

(* A record is found at or after the position asked for, it ends within the *)
(* text, and is found again at its start: offset_of_row and record_value    *)
(* rest on that.                                                            *)
LEMMA LineFound ==
  ASSUME NEW text \in Seq(STRING), NEW pos \in 1 .. Len(text) + 1,
         NextLine(text, pos) # None
  PROVE  \E start \in pos .. Len(text) : \E end : \E next \in start .. Len(text) + 1 :
           /\ NextLine(text, pos) = Record(start, end, next)
           /\ NextLine(text, start) = Record(start, end, next)
<1> DEFINE nl(p) == {i + 1 : i \in {i \in p .. Len(text) : text[i] = "nl"}}
           good(s) == Past(text, s, Blank) < To(text, s, {"nl"})
           T(p) == {s \in {p} \cup nl(p) : good(s)}
           start == Min(T(pos))
           stop == To(text, start, {"nl"})
           end == IF text[stop - 1] = "cr" THEN stop - 1 ELSE stop
           next == Min({stop + 1, Len(text) + 1})
<1>1. \A p : NextLine(text, p) =
               IF T(p) = {} THEN None
               ELSE Record(Min(T(p)),
                           IF text[To(text, Min(T(p)), {"nl"}) - 1] = "cr"
                             THEN To(text, Min(T(p)), {"nl"}) - 1
                             ELSE To(text, Min(T(p)), {"nl"}),
                           Min({To(text, Min(T(p)), {"nl"}) + 1, Len(text) + 1}))
  BY DEF NextLine
<1>2. \A p \in 1 .. Len(text) + 1 : nl(p) \subseteq p + 1 .. Len(text) + 1
  OBVIOUS
<1>3. T(pos) \subseteq Nat /\ T(pos) \subseteq pos .. Len(text) + 1 /\ T(pos) # {}
  <2>1. T(pos) # {}
    BY <1>1
  <2>2. T(pos) \subseteq {pos} \cup nl(pos)
    OBVIOUS
  <2> HIDE DEF T, nl
  <2>3. QED
    BY <1>2, <2>1, <2>2
<1>4. /\ start \in T(pos) /\ start \in pos .. Len(text) + 1
  <2> HIDE DEF T
  <2>1. QED
    BY <1>3, MinIsLeast
<1>5. good(start)
  <2> HIDE DEF good, start
  <2>1. QED
    BY <1>4
<1> HIDE DEF nl, good
<1>6. start \in T(start)
  <2> HIDE DEF start
  <2>1. QED
    BY <1>5
<1>7. start \in 1 .. Len(text) + 1
  BY <1>4
<1>8. stop \in start .. Len(text) + 1
  <2> HIDE DEF start
  <2>1. Len(text) \in Nat
    OBVIOUS
  <2>2. QED
    BY <1>7, <2>1, ToFinds
<1>9. start <= Len(text)
  <2> HIDE DEF start, stop
  <2>1. Len(text) \in Nat
    OBVIOUS
  <2>2. Past(text, start, Blank) \in start .. Len(text) + 1
    BY <1>7, <2>1, PastFinds
  <2>3. Past(text, start, Blank) < stop
    BY <1>5 DEF good, stop
  <2>4. QED
    BY <1>7, <1>8, <2>1, <2>2, <2>3
<1>10. Min(T(start)) = start
  <2>1. nl(start) \subseteq start + 1 .. Len(text) + 1
    <3> HIDE DEF start
    <3>1. QED
      BY <1>2, <1>7
  <2>2. T(start) \subseteq {start} \cup nl(start)
    OBVIOUS
  <2> DEFINE S == T(start)
             a == start
  <2>3. S \subseteq Nat /\ a \in S /\ \A y \in S : a <= y
    <3> HIDE DEF start, T
    <3>1. QED
      BY <1>6, <1>7, <2>1, <2>2
  <2>4. a \in Nat
    BY <2>3
  <2> HIDE DEF S, a
  <2>5. Min(S) \in S /\ \A y \in S : Min(S) <= y
    BY <2>3, MinIsLeast
  <2>6. Min(S) \in Nat /\ Min(S) <= a /\ a <= Min(S)
    BY <2>3, <2>5
  <2>7. Min(S) = a
    BY <2>4, <2>6
  <2>8. QED
    BY <2>7 DEF S, a
<1>11. next \in start .. Len(text) + 1
  <2> DEFINE S == {stop + 1, Len(text) + 1}
  <2> HIDE DEF start, stop
  <2>1. S \subseteq Nat /\ S # {} /\ S \subseteq start .. Len(text) + 2 /\ Len(text) + 1 \in S
    BY <1>7, <1>8, <1>9
  <2> HIDE DEF S
  <2>2. Min(S) \in S /\ \A y \in S : Min(S) <= y
    BY <2>1, MinIsLeast
  <2>3. Min(S) \in start .. Len(text) + 2 /\ Min(S) <= Len(text) + 1
    BY <2>1, <2>2
  <2>4. QED
    BY <1>7, <2>3 DEF S
<1>12. NextLine(text, pos) = Record(start, end, next)
  <2> HIDE DEF T
  <2>1. QED
    BY <1>1, <1>3
<1>13. NextLine(text, start) = Record(start, end, next)
  <2>1. T(start) # {}
    BY <1>6
  <2> HIDE DEF T
  <2> DEFINE a == start
  <2>2. Min(T(a)) = a /\ T(a) # {}
    BY <1>10, <2>1
  <2>3. NextLine(text, a) =
          Record(a, IF text[To(text, a, {"nl"}) - 1] = "cr" THEN To(text, a, {"nl"}) - 1
                    ELSE To(text, a, {"nl"}),
                 Min({To(text, a, {"nl"}) + 1, Len(text) + 1}))
    <3> HIDE DEF a
    <3>1. QED
      BY <1>1, <2>2
  <2>4. QED
    BY <2>3
<1>14. start \in pos .. Len(text)
  <2> HIDE DEF start
  <2>1. QED
    BY <1>4, <1>9
<1> HIDE DEF start, end, next, stop
<1>15. QED
  BY <1>11, <1>12, <1>13, <1>14

LEMMA ElementFound ==
  ASSUME NEW text \in Seq(STRING), NEW pos \in 1 .. Len(text) + 1,
         NextElement(text, pos) # None
  PROVE  \E start \in pos .. Len(text) : \E end : \E next \in start .. Len(text) + 1 :
           /\ NextElement(text, pos) = Record(start, end, next)
           /\ NextElement(text, start) = Record(start, end, next)
<1> DEFINE skipped == Blank \cup {","}
           start == Past(text, pos, skipped)
           end == ValueEnd(text, start)
<1>1. Len(text) \in Nat
  OBVIOUS
<1>2. start \in pos .. Len(text) + 1 /\ (start <= Len(text) => text[start] \notin skipped)
  <2> HIDE DEF skipped
  <2>1. QED
    BY <1>1, PastFinds
<1>3. start <= Len(text) /\ text[start] # "]" /\ NextElement(text, pos) = Record(start, end, end)
  <2>1. \/ NextElement(text, pos) = None
        \/ ~(start > Len(text) \/ text[start] = "]") /\ NextElement(text, pos) = Record(start, end, end)
    BY DEF NextElement
  <2>2. /\ ~(start > Len(text)) /\ text[start] # "]"
        /\ NextElement(text, pos) = Record(start, end, end)
    <3> HIDE DEF start, end
    <3>1. QED
      BY <2>1
  <2>3. start \in pos .. Len(text) + 1
    BY <1>2
  <2> HIDE DEF start, end
  <2>4. start <= Len(text)
    BY <1>1, <2>2, <2>3
  <2>5. QED
    BY <2>2, <2>4
<1> DEFINE a == start
<1> HIDE DEF start
<1>4. a \in pos .. Len(text) /\ a \in 1 .. Len(text) /\ a \in 1 .. Len(text) + 1
  <2>1. start \in pos .. Len(text) + 1 /\ start <= Len(text)
    BY <1>2, <1>3
  <2>2. QED
    BY <1>1, <2>1
<1>5. Past(text, a, skipped) = a
  <2> HIDE DEF a, skipped
  <2>1. text[a] \notin skipped
    BY <1>2, <1>3 DEF a
  <2>2. QED
    BY <1>1, <1>4, <2>1, PastFinds
<1>6. NextElement(text, a) = Record(a, ValueEnd(text, a), ValueEnd(text, a))
  <2>1. ~(a > Len(text) \/ text[a] = "]")
    BY <1>1, <1>3, <1>4
  <2> HIDE DEF a
  <2>2. QED
    BY <1>5, <2>1 DEF NextElement
<1>7. ValueEnd(text, a) \in a .. Len(text) + 1
  BY <1>4, ValueEndWithin
<1>8. NextElement(text, pos) = Record(a, ValueEnd(text, a), ValueEnd(text, a))
  BY <1>3
<1> HIDE DEF a, end
<1>9. QED
  BY <1>4, <1>6, <1>7, <1>8

LEMMA RecordFound ==
  ASSUME NEW text \in Seq(STRING), NEW mode, NEW pos \in 1 .. Len(text) + 1,
         NextRecord(text, mode, pos) # None
  PROVE  \E start \in pos .. Len(text) : \E next \in start .. Len(text) + 1 :
           /\ NextRecord(text, mode, pos).start = start
           /\ NextRecord(text, mode, pos).next = next
           /\ NextRecord(text, mode, start) = NextRecord(text, mode, pos)
<1> DEFINE Found(p) == IF mode = "lines" THEN NextLine(text, p) ELSE NextElement(text, p)
<1>1. \A p : NextRecord(text, mode, p) =
               IF p > Len(text) \/ Found(p) = None THEN None
               ELSE [start |-> Found(p).start, next |-> Found(p).next,
                     value |-> Parse(SubSeq(text, Found(p).start, Found(p).end - 1))]
  BY DEF NextRecord
<1>2. Found(pos) # None
  <2> HIDE DEF Found
  <2>1. QED
    BY <1>1
<1>3. \E start \in pos .. Len(text) : \E end : \E next \in start .. Len(text) + 1 :
        Found(pos) = Record(start, end, next) /\ Found(start) = Record(start, end, next)
  <2>1. CASE mode = "lines"
    BY <1>2, <2>1, LineFound
  <2>2. CASE mode # "lines"
    BY <1>2, <2>2, ElementFound
  <2>3. QED
    BY <2>1, <2>2
<1> HIDE DEF Found
<1>4. PICK start \in pos .. Len(text) : \E end : \E next \in start .. Len(text) + 1 :
        Found(pos) = Record(start, end, next) /\ Found(start) = Record(start, end, next)
  BY <1>3
<1>5. PICK end : \E next \in start .. Len(text) + 1 :
        Found(pos) = Record(start, end, next) /\ Found(start) = Record(start, end, next)
  BY <1>4
<1>6. PICK next \in start .. Len(text) + 1 :
        Found(pos) = Record(start, end, next) /\ Found(start) = Record(start, end, next)
  BY <1>5
<1>7. Found(pos).start = start /\ Found(pos).next = next /\ Found(start) = Found(pos)
  BY <1>6 DEF Record
<1>8. ~(start > Len(text))
  OBVIOUS
<1>9. NextRecord(text, mode, pos) =
        [start |-> start, next |-> next,
         value |-> Parse(SubSeq(text, start, Found(pos).end - 1))]
  BY <1>1, <1>7
<1>10. NextRecord(text, mode, start) = NextRecord(text, mode, pos)
  BY <1>1, <1>2, <1>7, <1>8, <1>9
<1>11. QED
  BY <1>9, <1>10

(* What Records::next finds in a text of m tokens.                          *)
Reads(found, m) ==
  /\ DOMAIN found = 1 .. m + 1
  /\ \A p \in 1 .. m + 1 :
       found[p] # None =>
         /\ found[p].start \in p .. m /\ found[p].next \in found[p].start .. m + 1
         /\ found[found[p].start] = found[p]

LEMMA BoundsRead ==
  ASSUME NEW f, f.text \in Seq(STRING)
  PROVE  Len(f.text) \in Nat /\ Reads(Bounds(f), Len(f.text))
<1> DEFINE text == f.text
           mode == Detect(f.text).mode
           found == Bounds(f)
<1>1. Len(text) \in Nat
  OBVIOUS
<1>2. DOMAIN found = 1 .. Len(text) + 1 /\ \A p \in 1 .. Len(text) + 1 : found[p] = NextRecord(text, mode, p)
  BY DEF Bounds
<1>3. ASSUME NEW p \in 1 .. Len(text) + 1, found[p] # None
      PROVE  /\ found[p].start \in p .. Len(text)
             /\ found[p].next \in found[p].start .. Len(text) + 1
             /\ found[found[p].start] = found[p]
  <2> HIDE DEF text, mode, found
  <2>1. text \in Seq(STRING)
    BY DEF text
  <2>2. NextRecord(text, mode, p) # None
    BY <1>2, <1>3
  <2>3. PICK start \in p .. Len(text) : \E next \in start .. Len(text) + 1 :
           /\ NextRecord(text, mode, p).start = start
           /\ NextRecord(text, mode, p).next = next
           /\ NextRecord(text, mode, start) = NextRecord(text, mode, p)
    BY <2>1, <2>2, RecordFound
  <2>4. start \in 1 .. Len(text) + 1
    BY <1>1
  <2>5. found[p].start = start /\ found[p].next \in start .. Len(text) + 1 /\ found[start] = found[p]
    BY <1>2, <2>3, <2>4
  <2>6. QED
    BY <2>5
<1> HIDE DEF text, found, mode
<1>4. Reads(found, Len(text))
  BY <1>2, <1>3 DEF Reads
<1>5. QED
  BY <1>1, <1>4 DEF text, found

(* The walk from record to record. *)
Walks(found, pos, n, at) ==
  at = [k \in 0 .. n |-> IF k = 0 THEN pos
                         ELSE [p \in DOMAIN found |->
                                IF found[p] = None THEN p ELSE found[p].next][at[k - 1]]]

LEMMA WalkSteps ==
  ASSUME NEW m \in Nat, NEW found, Reads(found, m), NEW pos \in 1 .. m + 1, NEW n \in Nat, NEW at,
         Walks(found, pos, n, at)
  PROVE  /\ at[0] = pos
         /\ \A k \in 1 .. n : at[k - 1] \in pos .. m + 1 =>
              at[k] = IF found[at[k - 1]] = None THEN at[k - 1] ELSE found[at[k - 1]].next
<1> DEFINE next == [p \in DOMAIN found |-> IF found[p] = None THEN p ELSE found[p].next]
<1>1. \A k \in 0 .. n : at[k] = IF k = 0 THEN pos ELSE next[at[k - 1]]
  BY Zenon DEF Walks
<1>2. \A p \in 1 .. m + 1 : next[p] = IF found[p] = None THEN p ELSE found[p].next
  BY DEF Reads
<1> HIDE DEF next
<1>3. at[0] = pos
  BY <1>1
<1>4. ASSUME NEW k \in 1 .. n, at[k - 1] \in pos .. m + 1
      PROVE  at[k] = IF found[at[k - 1]] = None THEN at[k - 1] ELSE found[at[k - 1]].next
  <2>1. k \in 0 .. n /\ k # 0
    OBVIOUS
  <2>2. at[k] = next[at[k - 1]]
    BY <1>1, <2>1
  <2>3. at[k - 1] \in 1 .. m + 1
    BY <1>4
  <2>4. QED
    BY <1>2, <2>2, <2>3
<1>5. QED
  BY <1>3, <1>4

LEMMA WalkExists ==
  ASSUME NEW m \in Nat, NEW found, Reads(found, m), NEW pos \in 1 .. m + 1, NEW n \in Nat
  PROVE  \E at : Walks(found, pos, n, at)
<1> DEFINE next == [p \in DOMAIN found |-> IF found[p] = None THEN p ELSE found[p].next]
           S == 1 .. m + 1
           step == [q \in Nat \X S |-> next[q[2]]]
<1>1. \A p \in S : next[p] \in S
  BY DEF Reads
<1>2. step \in [Nat \X S -> S] /\ \A k \in Nat, p \in S : step[<<k, p>>] = next[p]
  <2> HIDE DEF next, S
  <2>1. QED
    BY <1>1
<1> HIDE DEF next, step
<1>3. PICK f \in [0 .. n -> S] : Iterates(f, n, pos, step)
  <2>1. pos \in S
    OBVIOUS
  <2> HIDE DEF S
  <2>2. QED
    BY <1>2, <2>1, Iteration
<1>4. \A k \in 0 .. n : f[k] = IF k = 0 THEN pos ELSE next[f[k - 1]]
  <2> TAKE k \in 0 .. n
  <2> HIDE DEF S
  <2>1. CASE k = 0
    BY <1>3, <2>1 DEF Iterates
  <2>2. CASE k # 0
    <3>1. k \in 1 .. n /\ k \in Nat /\ k - 1 \in 0 .. n
      BY <2>2
    <3>2. f[k] = step[<<k, f[k - 1]>>] /\ f[k - 1] \in S
      BY <1>3, <3>1 DEF Iterates
    <3>3. QED
      BY <1>2, <2>2, <3>1, <3>2
  <2>3. QED
    BY <2>1, <2>2
<1>5. DOMAIN f = 0 .. n /\ f = [k \in DOMAIN f |-> f[k]]
  OBVIOUS
<1>6. f = [k \in 0 .. n |-> IF k = 0 THEN pos ELSE next[f[k - 1]]]
  BY <1>4, <1>5, Zenon
<1>7. Walks(found, pos, n, f)
  BY <1>6, Zenon DEF Walks, next
<1>8. QED
  BY <1>7

(* A reader that has read n records is where one that has read n + 1 was    *)
(* before the last of them, and stays within the text.                      *)
LEMMA AfterSteps ==
  ASSUME NEW m \in Nat, NEW found, Reads(found, m), NEW pos \in 1 .. m + 1
  PROVE  /\ After(found, pos, 0) = pos
         /\ \A n \in Nat :
              /\ After(found, pos, n) \in pos .. m + 1
              /\ After(found, pos, n + 1) =
                   IF found[After(found, pos, n)] = None THEN After(found, pos, n)
                   ELSE found[After(found, pos, n)].next
<1> DEFINE at(n) == CHOOSE f : Walks(found, pos, n, f)
<1>1. \A n \in Nat : Walks(found, pos, n, at(n))
  BY WalkExists
<1>2. \A n : After(found, pos, n) = at(n)[n]
  BY DEF After, Walks
<1> HIDE DEF at
<1>3. \A n \in Nat : at(n)[0] = pos
  BY <1>1, WalkSteps
<1>4. ASSUME NEW n \in Nat, NEW k \in 1 .. n, at(n)[k - 1] \in pos .. m + 1
      PROVE  at(n)[k] = IF found[at(n)[k - 1]] = None THEN at(n)[k - 1]
                        ELSE found[at(n)[k - 1]].next
  BY <1>1, <1>4, WalkSteps
<1>5. \A p \in pos .. m + 1 :
        (IF found[p] = None THEN p ELSE found[p].next) \in pos .. m + 1
  <2> TAKE p \in pos .. m + 1
  <2>1. p \in 1 .. m + 1
    OBVIOUS
  <2>2. CASE found[p] = None
    BY <2>2
  <2>3. CASE found[p] # None
    <3>1. found[p].start \in p .. m /\ found[p].next \in found[p].start .. m + 1
      BY <2>1, <2>3 DEF Reads
    <3>2. found[p].next \in pos .. m + 1
      BY <3>1
    <3>3. QED
      BY <2>3, <3>2
  <2>4. QED
    BY <2>2, <2>3
<1> DEFINE T == {k \in Nat : \A n \in Nat : k <= n => at(n)[k] = at(k)[k] /\ at(k)[k] \in pos .. m + 1}
<1>6. 0 \in T
  BY <1>3
<1>7. ASSUME NEW k \in T \cap Nat PROVE k + 1 \in T
  <2> DEFINE p == at(k)[k]
  <2>1. p \in pos .. m + 1 /\ \A n \in Nat : k <= n => at(n)[k] = p
    OBVIOUS
  <2> HIDE DEF p
  <2>2. \A n \in Nat : k + 1 <= n =>
          at(n)[k + 1] = IF found[p] = None THEN p ELSE found[p].next
    <3> TAKE n \in Nat
    <3> HAVE k + 1 <= n
    <3>1. k + 1 \in 1 .. n /\ (k + 1) - 1 = k /\ k <= n
      OBVIOUS
    <3>2. at(n)[k] = p
      BY <2>1, <3>1
    <3>3. QED
      BY <1>4, <2>1, <3>1, <3>2
  <2>3. k + 1 \in Nat /\ k + 1 <= k + 1
    OBVIOUS
  <2>4. QED
    BY <1>5, <2>1, <2>2, <2>3
<1>8. Nat \subseteq T
  <2> HIDE DEF T
  <2>1. QED
    BY <1>6, <1>7, Induction
<1>9. \A k, n \in Nat : k <= n => at(n)[k] = at(k)[k] /\ at(k)[k] \in pos .. m + 1
  BY <1>8
<1>10. ASSUME NEW n \in Nat
       PROVE  /\ at(n)[n] \in pos .. m + 1
              /\ at(n + 1)[n + 1] = IF found[at(n)[n]] = None THEN at(n)[n] ELSE found[at(n)[n]].next
  <2>1. n + 1 \in Nat /\ n <= n + 1 /\ n <= n /\ n + 1 \in 1 .. n + 1 /\ (n + 1) - 1 = n
    OBVIOUS
  <2>2. at(n + 1)[n] = at(n)[n] /\ at(n)[n] \in pos .. m + 1
    BY <1>9, <2>1
  <2>3. QED
    BY <1>4, <2>1, <2>2
<1> HIDE DEF T
<1>11. QED
  BY <1>2, <1>3, <1>10

(* Reading a records and then b more is reading a + b of them.              *)
LEMMA AfterAdds ==
  ASSUME NEW m \in Nat, NEW found, Reads(found, m), NEW pos \in 1 .. m + 1, NEW a \in Nat
  PROVE  \A b \in Nat : After(found, After(found, pos, a), b) = After(found, pos, a + b)
<1> DEFINE q == After(found, pos, a)
           T == {b \in Nat : After(found, q, b) = After(found, pos, a + b)}
<1>0. \A n \in Nat : After(found, pos, n + 1) =
        IF found[After(found, pos, n)] = None THEN After(found, pos, n)
        ELSE found[After(found, pos, n)].next
  BY AfterSteps
<1>1. q \in 1 .. m + 1
  <2>1. q \in pos .. m + 1
    BY AfterSteps
  <2> HIDE DEF q
  <2>2. QED
    BY <2>1
<1> HIDE DEF q
<1>2. 0 \in T
  <2>1. After(found, q, 0) = q /\ a + 0 = a
    BY <1>1, AfterSteps
  <2>2. QED
    BY <2>1 DEF q
<1>3. ASSUME NEW b \in T \cap Nat PROVE b + 1 \in T
  <2> DEFINE c == a + b
  <2>1. After(found, q, b) = After(found, pos, c) /\ c \in Nat /\ a + (b + 1) = c + 1
    OBVIOUS
  <2> HIDE DEF c
  <2>2. After(found, q, b + 1) = IF found[After(found, q, b)] = None THEN After(found, q, b)
                                 ELSE found[After(found, q, b)].next
    BY <1>1, AfterSteps
  <2>3. After(found, pos, c + 1) =
          IF found[After(found, pos, c)] = None THEN After(found, pos, c)
          ELSE found[After(found, pos, c)].next
    BY <1>0, <2>1
  <2>4. After(found, q, b + 1) = After(found, pos, c + 1)
    BY <2>1, <2>2, <2>3
  <2>5. QED
    BY <2>1, <2>4
<1>4. Nat \subseteq T
  <2> HIDE DEF T
  <2>1. QED
    BY <1>2, <1>3, Induction
<1>5. QED
  BY <1>4 DEF q

(* Two positions from which the same record is found have the same records  *)
(* ahead of them.                                                           *)
LEMMA SameAhead ==
  ASSUME NEW m \in Nat, NEW found, Reads(found, m), NEW p \in 1 .. m + 1, NEW q \in 1 .. m + 1,
         found[p] = found[q]
  PROVE  \A b \in Nat : found[After(found, p, b)] = found[After(found, q, b)]
<1> DEFINE T == {b \in Nat : found[After(found, p, b)] = found[After(found, q, b)]}
<1>1. 0 \in T
  <2>1. After(found, p, 0) = p /\ After(found, q, 0) = q
    BY AfterSteps
  <2>2. QED
    BY <2>1
<1>2. ASSUME NEW b \in T \cap Nat PROVE b + 1 \in T
  <2> DEFINE x == After(found, p, b)
             y == After(found, q, b)
  <2>1. found[x] = found[y]
    OBVIOUS
  <2>2. /\ After(found, p, b + 1) = IF found[x] = None THEN x ELSE found[x].next
        /\ After(found, q, b + 1) = IF found[y] = None THEN y ELSE found[y].next
    BY AfterSteps
  <2> HIDE DEF x, y
  <2>3. found[After(found, p, b + 1)] = found[After(found, q, b + 1)]
    BY <2>1, <2>2
  <2>4. QED
    BY <2>3
<1>3. Nat \subseteq T
  <2> HIDE DEF T
  <2>1. QED
    BY <1>1, <1>2, Induction
<1>4. QED
  BY <1>3

(* A reader at the end stays there; before a record there is another at     *)
(* each of the steps that led to it.                                        *)
LEMMA EndStays ==
  ASSUME NEW m \in Nat, NEW found, Reads(found, m), NEW pos \in 1 .. m + 1, NEW a \in Nat,
         found[After(found, pos, a)] = None
  PROVE  \A b \in Nat : found[After(found, pos, a + b)] = None
<1> DEFINE T == {b \in Nat : found[After(found, pos, a + b)] = None}
<1>0. \A n \in Nat : After(found, pos, n + 1) =
        IF found[After(found, pos, n)] = None THEN After(found, pos, n)
        ELSE found[After(found, pos, n)].next
  BY AfterSteps
<1>1. 0 \in T
  <2>1. a + 0 = a
    OBVIOUS
  <2>2. QED
    BY <2>1
<1>2. ASSUME NEW b \in T \cap Nat PROVE b + 1 \in T
  <2> DEFINE c == a + b
  <2>1. c \in Nat /\ a + (b + 1) = c + 1 /\ found[After(found, pos, c)] = None
    OBVIOUS
  <2> HIDE DEF c
  <2>2. After(found, pos, c + 1) = After(found, pos, c)
    BY <1>0, <2>1
  <2>3. found[After(found, pos, a + (b + 1))] = None
    BY <2>1, <2>2
  <2>4. QED
    BY <2>3
<1>3. Nat \subseteq T
  <2> HIDE DEF T
  <2>1. QED
    BY <1>1, <1>2, Induction
<1>4. QED
  BY <1>3

LEMMA EndStaysAt ==
  ASSUME NEW m \in Nat, NEW found, Reads(found, m), NEW pos \in 1 .. m + 1, NEW a \in Nat,
         found[After(found, pos, a)] = None, NEW n \in Nat, a <= n
  PROVE  found[After(found, pos, n)] = None
<1>1. n - a \in Nat /\ a + (n - a) = n
  OBVIOUS
<1>2. found[After(found, pos, a + (n - a))] = None
  <2> DEFINE b == n - a
  <2>1. b \in Nat
    BY <1>1
  <2> HIDE DEF b
  <2>2. found[After(found, pos, a + b)] = None
    BY <2>1, EndStays
  <2>3. QED
    BY <2>2 DEF b
<1>3. QED
  BY <1>1, <1>2

(* The record reached by way of the anchor before it is the record reached  *)
(* from the head, and is found again at its start.                          *)
LEMMA AnchorLeads ==
  ASSUME NEW m \in Nat, NEW found, Reads(found, m), NEW pos \in 1 .. m + 1,
         NEW a \in Nat, NEW b \in Nat, found[After(found, pos, a)] # None
  PROVE  LET anchor == found[After(found, pos, a)].start
             there == found[After(found, anchor, b)]
         IN  /\ anchor \in 1 .. m
             /\ there = found[After(found, pos, a + b)]
             /\ there # None => there.start \in 1 .. m /\ found[there.start] = there
<1> DEFINE q == After(found, pos, a)
           anchor == found[q].start
           there == found[After(found, anchor, b)]
<1>1. q \in 1 .. m + 1
  <2>1. q \in pos .. m + 1
    BY AfterSteps
  <2> HIDE DEF q
  <2>2. QED
    BY <2>1
<1>2. anchor \in q .. m /\ found[anchor] = found[q]
  <2> HIDE DEF q
  <2>1. found[q] # None
    BY DEF q
  <2>2. QED
    BY <1>1, <2>1 DEF Reads
<1>3. found[After(found, q, b)] = found[After(found, pos, a + b)]
  BY AfterAdds
<1> HIDE DEF q
<1>4. anchor \in 1 .. m /\ anchor \in 1 .. m + 1
  <2> DEFINE x == anchor
  <2> HIDE DEF x
  <2>1. x \in q .. m
    BY <1>2 DEF x
  <2>2. x \in 1 .. m /\ x \in 1 .. m + 1
    BY <1>1, <2>1
  <2>3. QED
    BY <2>2 DEF x
<1> HIDE DEF anchor
<1>5. there = found[After(found, q, b)]
  <2>1. found[anchor] = found[q]
    BY <1>2 DEF anchor
  <2>2. QED
    BY <1>1, <1>4, <2>1, SameAhead
<1>6. there # None => there.start \in 1 .. m /\ found[there.start] = there
  <2> DEFINE p == After(found, anchor, b)
  <2>1. p \in anchor .. m + 1
    BY <1>4, AfterSteps
  <2> HIDE DEF p
  <2>2. p \in 1 .. m + 1
    BY <1>4, <2>1
  <2>3. ASSUME found[p] # None
        PROVE  found[p].start \in 1 .. m /\ found[found[p].start] = found[p]
    <3>1. found[p].start \in p .. m /\ found[found[p].start] = found[p]
      BY <2>2, <2>3 DEF Reads
    <3>2. QED
      BY <2>2, <3>1
  <2>4. there = found[p]
    BY DEF p
  <2>5. QED
    BY <2>3, <2>4
<1>7. QED
  BY <1>3, <1>4, <1>5, <1>6 DEF q, anchor

(* Division, for the anchors of a count of records.                         *)
LEMMA Quotient ==
  ASSUME NEW i \in Nat \ {0}, NEW k \in Nat
  PROVE  /\ k \div i \in Nat /\ k % i \in 0 .. i - 1
         /\ k = i * (k \div i) + (k % i)
OBVIOUS

LEMMA Products ==
  ASSUME NEW i \in Nat, NEW x \in Nat
  PROVE  \A y \in Nat : i * (x + y) \in Nat /\ i * (x + y) = i * x + i * y /\ i * y >= 0
OBVIOUS

LEMMA Multiplies ==
  ASSUME NEW i \in Nat \ {0}, NEW x \in Nat, NEW y \in Nat, i * x < i * y
  PROVE  x < y
<1>1. CASE x >= y
  <2> DEFINE d == x - y
  <2>1. d \in Nat /\ x = y + d
    BY <1>1
  <2> HIDE DEF d
  <2>2. i * x = i * y + i * d /\ i * d >= 0
    BY <2>1, Products
  <2>3. i * y \in Nat /\ i * d \in Nat
    BY <2>1
  <2>4. QED
    BY <2>2, <2>3
<1>2. QED
  BY <1>1

LEMMA AnchorsDue ==
  ASSUME NEW i \in Nat \ {0}, NEW c \in Nat, NEW n \in Nat,
         c <= i * n, n = 0 \/ i * (n - 1) < c
  PROVE  /\ c % i = 0 => c = i * n
         /\ c % i # 0 => c + 1 <= i * n
<1> DEFINE d == c \div i
<1>1. d \in Nat /\ c % i \in 0 .. i - 1 /\ c = i * d + (c % i) /\ i * d \in Nat /\ i * n \in Nat
  <2>1. d \in Nat /\ c % i \in 0 .. i - 1 /\ c = i * d + (c % i)
    BY Quotient
  <2> HIDE DEF d
  <2>2. i * d \in Nat /\ i * n \in Nat
    BY <2>1
  <2>3. QED
    BY <2>1, <2>2
<1> HIDE DEF d
<1>2. c % i = 0 => d = n
  <2> HAVE c % i = 0
  <2>1. c = i * d
    BY <1>1
  <2>2. CASE n = 0
    <3>1. i * n = 0
      BY <2>2
    <3>2. i * d = 0
      BY <1>1, <2>1, <3>1
    <3>3. ~(i * 0 < i * d)
      BY <3>2
    <3>4. d = 0
      BY <1>1, <3>2
    <3>5. QED
      BY <2>2, <3>4
  <2>3. CASE n # 0
    <3>1. n - 1 \in Nat /\ i * (n - 1) < i * d
      BY <2>1, <2>3
    <3>2. n - 1 < d
      BY <1>1, <3>1, Multiplies
    <3>3. i * d < i * (n + 1)
      <4>1. i * (n + 1) = i * n + i * 1
        BY Products
      <4>2. QED
        BY <1>1, <2>1, <4>1
    <3>4. d < n + 1
      BY <1>1, <3>3, Multiplies
    <3>5. QED
      BY <1>1, <3>2, <3>4
  <2>4. QED
    BY <2>2, <2>3
<1>3. c % i # 0 => c # i * n
  <2> SUFFICES ASSUME c = i * n PROVE c % i = 0
    OBVIOUS
  <2> QED
    BY <1>1
<1>4. QED
  BY <1>1, <1>2, <1>3

------------------------------------------------------------------------------
(* The index. *)

(* The k-th record of a text, counted from 0.                               *)
Nth(found, start, k) == found[After(found, start, k)]

(* What the thread of the index knows after s.count records of a text of m  *)
(* tokens: where it is, that each record counted is there, and where every  *)
(* Interval-th of them starts.                                              *)
Indexes(found, start, m, s) ==
  /\ s.count \in Nat /\ s.pos = After(found, start, s.count)
  /\ \A k \in 0 .. s.count - 1 : Nth(found, start, k) # None
  /\ s.anchors \in Seq(1 .. m)
  /\ s.count <= Interval * Len(s.anchors)
  /\ Len(s.anchors) = 0 \/ Interval * (Len(s.anchors) - 1) < s.count
  /\ \A j \in 1 .. Len(s.anchors) :
       /\ Nth(found, start, Interval * (j - 1)) # None
       /\ s.anchors[j] = Nth(found, start, Interval * (j - 1)).start

(* One record further.                                                      *)
LEMMA AfterNext ==
  ASSUME NEW m \in Nat, NEW found, Reads(found, m), NEW pos \in 1 .. m + 1, NEW k \in Nat
  PROVE  After(found, pos, k + 1) =
           IF found[After(found, pos, k)] = None THEN After(found, pos, k)
           ELSE found[After(found, pos, k)].next
  BY AfterSteps

LEMMA RecordIndexed ==
  ASSUME NEW m \in Nat, NEW found, Reads(found, m), NEW start \in 1 .. m + 1, NEW s, NEW t,
         Indexes(found, start, m, s), found[s.pos] # None,
         t.count = s.count + 1, t.pos = found[s.pos].next,
         t.anchors = IF s.count % Interval = 0 THEN Append(s.anchors, found[s.pos].start)
                     ELSE s.anchors
  PROVE  Indexes(found, start, m, t)
<1> DEFINE c == s.count
           a == s.anchors
           n == Len(a)
           here == found[s.pos]
<1>1. /\ c \in Nat /\ s.pos = After(found, start, c)
      /\ \A k \in 0 .. c - 1 : Nth(found, start, k) # None
      /\ a \in Seq(1 .. m) /\ n \in Nat
      /\ c <= Interval * n /\ (n = 0 \/ Interval * (n - 1) < c)
      /\ \A j \in 1 .. n : /\ Nth(found, start, Interval * (j - 1)) # None
                           /\ a[j] = Nth(found, start, Interval * (j - 1)).start
  BY DEF Indexes
<1>2. Interval \in Nat \ {0}
  BY StepAssumption
<1>3. s.pos \in 1 .. m + 1 /\ here.start \in 1 .. m
  <2>1. After(found, start, c) \in start .. m + 1
    BY <1>1, AfterSteps
  <2>2. s.pos \in 1 .. m + 1
    BY <1>1, <2>1
  <2>3. here.start \in s.pos .. m
    BY <2>2 DEF Reads
  <2>4. QED
    BY <2>2, <2>3
<1>4. here = Nth(found, start, c) /\ here # None
  BY <1>1 DEF Nth
<1>5. t.pos = After(found, start, c + 1)
  <2> HIDE DEF c
  <2>1. After(found, start, c + 1) =
          IF found[After(found, start, c)] = None THEN After(found, start, c)
          ELSE found[After(found, start, c)].next
    BY <1>1, AfterNext
  <2>2. After(found, start, c + 1) = found[s.pos].next
    BY <1>1, <2>1
  <2>3. QED
    BY <2>2
<1>6. \A k \in 0 .. (c + 1) - 1 : Nth(found, start, k) # None
  <2> TAKE k \in 0 .. (c + 1) - 1
  <2> HIDE DEF c, here
  <2>1. k \in 0 .. c - 1 \/ k = c
    BY <1>1
  <2>2. QED
    BY <1>1, <1>4, <2>1
<1>7. /\ c % Interval = 0 => c = Interval * n
      /\ c % Interval # 0 => c + 1 <= Interval * n
  <2> HIDE DEF c, n
  <2>1. QED
    BY <1>1, <1>2, AnchorsDue
<1>8. t.count = c + 1 /\ t.anchors = IF c % Interval = 0 THEN Append(a, here.start) ELSE a
  OBVIOUS
<1> HIDE DEF c, a, here
<1>9. CASE c % Interval = 0
  <2> DEFINE b == t.anchors
  <2>1. /\ b \in Seq(1 .. m) /\ Len(b) = n + 1 /\ b[n + 1] = here.start
        /\ \A j \in 1 .. n : b[j] = a[j]
    <3> DEFINE x == here.start
               S == 1 .. m
    <3>1. b = Append(a, x) /\ x \in S /\ a \in Seq(S)
      BY <1>1, <1>3, <1>8, <1>9
    <3> HIDE DEF b, x, S
    <3>2. b \in Seq(S) /\ Len(b) = Len(a) + 1 /\ b[Len(a) + 1] = x /\ \A j \in 1 .. Len(a) : b[j] = a[j]
      BY <3>1
    <3>3. QED
      BY <3>2 DEF S, x, n
  <2> HIDE DEF b, n
  <2>2. c + 1 <= Interval * (n + 1) /\ (n + 1) - 1 = n /\ Interval * n < c + 1
    <3>1. Interval * (n + 1) = Interval * n + Interval * 1
      BY <1>1, <1>2, Products
    <3>2. QED
      BY <1>1, <1>2, <1>7, <1>9, <3>1
  <2>3. \A j \in 1 .. n + 1 :
          /\ Nth(found, start, Interval * (j - 1)) # None
          /\ b[j] = Nth(found, start, Interval * (j - 1)).start
    <3> TAKE j \in 1 .. n + 1
    <3>1. CASE j \in 1 .. n
      BY <1>1, <2>1, <3>1
    <3>2. CASE j = n + 1
      <4>1. j - 1 = n
        BY <1>1, <3>2
      <4>2. Interval * (j - 1) = c
        BY <1>7, <1>9, <4>1
      <4>3. QED
        BY <1>4, <2>1, <3>2, <4>2
    <3>3. QED
      BY <1>1, <3>1, <3>2
  <2>4. c + 1 \in Nat
    BY <1>1
  <2>5. /\ t.count = c + 1 /\ t.anchors = b /\ Len(t.anchors) = n + 1
    BY <1>8, <2>1 DEF b
  <2>6. QED
    BY <1>5, <1>6, <2>1, <2>2, <2>3, <2>4, <2>5 DEF Indexes
<1>10. CASE c % Interval # 0
  <2>0. c + 1 <= Interval * n
    BY <1>7, <1>10
  <2>1. t.anchors = a /\ c + 1 <= Interval * n /\ c + 1 \in Nat
    <3> HIDE DEF n
    <3>1. t.anchors = a
      BY <1>8, <1>10, Zenon
    <3>2. c \in Nat
      BY <1>1, Zenon
    <3>3. c + 1 \in Nat
      BY <3>2
    <3>4. QED
      BY <2>0, <3>1, <3>3
  <2>2. n = 0 \/ Interval * (n - 1) < c + 1
    <3> HIDE DEF n
    <3>1. CASE n # 0
      <4>1. Interval * (n - 1) \in Int /\ Interval * (n - 1) < c
        BY <1>1, <1>2, <3>1
      <4>2. QED
        BY <1>1, <4>1
    <3>2. QED
      BY <3>1
  <2>3. QED
    BY <1>1, <1>5, <1>6, <1>8, <2>1, <2>2 DEF Indexes, n
<1>11. QED
  BY <1>9, <1>10

(* Every record counted is found, and none after the last when the text     *)
(* ended there, by way of the anchor before it.                             *)
LEMMA AnchorFinds ==
  ASSUME NEW m \in Nat, NEW found, Reads(found, m), NEW start \in 1 .. m + 1, NEW s,
         Indexes(found, start, m, s), NEW row \in 0 .. s.count - 1
  PROVE  LET there == found[After(found, s.anchors[row \div Interval + 1], row % Interval)]
         IN  /\ there = Nth(found, start, row) /\ there # None
             /\ there.start \in 1 .. m /\ found[there.start] = there
<1> DEFINE n == Len(s.anchors)
           d == row \div Interval
           r == row % Interval
           anchor == s.anchors[d + 1]
           there == found[After(found, anchor, r)]
<1>1. /\ s.count \in Nat /\ n \in Nat
      /\ s.count <= Interval * n
      /\ Nth(found, start, row) # None
      /\ \A j \in 1 .. n : /\ Nth(found, start, Interval * (j - 1)) # None
                           /\ s.anchors[j] = Nth(found, start, Interval * (j - 1)).start
  BY DEF Indexes
<1>2. Interval \in Nat \ {0} /\ row \in Nat
  BY <1>1, StepAssumption
<1>3. d \in Nat /\ r \in Nat /\ row = Interval * d + r
  <2>1. d \in Nat /\ r \in 0 .. Interval - 1 /\ row = Interval * d + r
    BY <1>2, Quotient
  <2>2. QED
    BY <1>2, <2>1
<1> HIDE DEF d, r, n
<1>4. Interval * d \in Nat /\ Interval * n \in Nat
  BY <1>1, <1>2, <1>3
<1>5. d < n
  <2>1. Interval * d < Interval * n
    BY <1>1, <1>2, <1>3, <1>4
  <2>2. QED
    BY <1>1, <1>2, <1>3, <2>1, Multiplies
<1>6. d + 1 \in 1 .. n /\ (d + 1) - 1 = d
  BY <1>1, <1>3, <1>5
<1>7. /\ Nth(found, start, Interval * d) # None
      /\ anchor = Nth(found, start, Interval * d).start
  BY <1>1, <1>6
<1> DEFINE k == Interval * d
<1>8. found[After(found, start, k)] # None /\ anchor = found[After(found, start, k)].start
  BY <1>7 DEF Nth
<1> HIDE DEF anchor
<1>9. /\ there = found[After(found, start, k + r)]
      /\ there # None => there.start \in 1 .. m /\ found[there.start] = there
  <2> DEFINE e == found[After(found, start, k)].start
             w == found[After(found, e, r)]
  <2>0. k \in Nat
    BY <1>4
  <2> HIDE DEF k
  <2>1. /\ w = found[After(found, start, k + r)]
        /\ w # None => w.start \in 1 .. m /\ found[w.start] = w
    BY <1>3, <1>8, <2>0, AnchorLeads
  <2>2. w = there
    BY <1>8
  <2> HIDE DEF w, there
  <2>3. QED
    BY <2>1, <2>2
<1>10. there = Nth(found, start, row)
  BY <1>3, <1>9 DEF Nth
<1> HIDE DEF there
<1>11. QED
  BY <1>1, <1>9, <1>10 DEF there, anchor, d, r

(* What is at the path is one of Files, routed here, and what the reader    *)
(* reads of it is what Records::next finds in it.                           *)
Opened ==
  /\ file \in Files /\ Route(file) # None
  /\ records = Detect(file.text) /\ bounds = Bounds(file)

IndexInv ==
  /\ Opened
  /\ scan.phase \in {"running", "built", "done", "stopped"}
  /\ Indexes(bounds, records.start, Len(file.text), scan)
  /\ (scan.phase \in {"built", "done"}) => (Nth(bounds, records.start, scan.count) = None)
  /\ (index # None) =>
       (scan.phase = "done" /\ index = [anchors |-> scan.anchors, count |-> scan.count])
  /\ frontier \in 0 .. scan.count

LEMMA DetectStart ==
  ASSUME NEW text \in Seq(STRING)
  PROVE  Detect(text).start \in 1 .. Len(text) + 1 /\ Detect(text).mode \in {"lines", "array"}
<1> DEFINE from == BomLen(text) + 1
           bracket == To(text, from, {"["})
           mode == IF Sniff(text) = None THEN "lines" ELSE Sniff(text)
<1>1. Len(text) \in Nat /\ (text # <<>> => Len(text) > 0)
  OBVIOUS
<1>2. from \in 1 .. Len(text) + 1
  BY <1>1 DEF BomLen
<1> HIDE DEF from
<1>3. bracket \in from .. Len(text) + 1
  BY <1>1, <1>2, ToFinds
<1> HIDE DEF bracket
<1>4. (IF mode = "lines" \/ bracket > Len(text) THEN from ELSE bracket + 1) \in 1 .. Len(text) + 1
  BY <1>1, <1>2, <1>3
<1>5. mode \in {"lines", "array"}
  <2>1. Sniff(text) \in {None, "lines", "array"}
    BY DEF Sniff
  <2>2. QED
    BY <2>1
<1>6. Detect(text) = [mode |-> mode, start |-> IF mode = "lines" \/ bracket > Len(text)
                                                THEN from ELSE bracket + 1]
  BY DEF Detect, from, bracket
<1> HIDE DEF mode
<1>7. QED
  BY <1>4, <1>5, <1>6

LEMMA OpenedReads ==
  ASSUME Opened
  PROVE  /\ file.text \in Seq(STRING) /\ Len(file.text) \in Nat
         /\ Reads(bounds, Len(file.text))
         /\ records.start \in 1 .. Len(file.text) + 1
<1>1. file.text \in Seq(STRING)
  BY FilesAssumption DEF Opened
<1>2. Len(file.text) \in Nat /\ Reads(Bounds(file), Len(file.text))
  BY <1>1, BoundsRead
<1>3. Detect(file.text).start \in 1 .. Len(file.text) + 1
  BY <1>1, DetectStart
<1>4. QED
  BY <1>1, <1>2, <1>3 DEF Opened

LEMMA OpeningIndexes == Init => IndexInv
<1> SUFFICES ASSUME Init PROVE IndexInv
  OBVIOUS
<1>1. Opened
  BY DEF Init, Opened
<1> DEFINE m == Len(file.text)
<1>2. m \in Nat /\ Reads(bounds, m) /\ records.start \in 1 .. m + 1
  BY <1>1, OpenedReads
<1>3. /\ scan.phase = "running" /\ scan.pos = records.start /\ scan.count = 0
      /\ scan.anchors = <<>> /\ frontier = 0 /\ index = None
  BY DEF Init
<1>4. scan.pos = After(bounds, records.start, 0)
  <2> HIDE DEF m
  <2>1. After(bounds, records.start, 0) = records.start
    BY <1>2, AfterSteps
  <2>2. QED
    BY <1>3, <2>1
<1> HIDE DEF m
<1>5. Indexes(bounds, records.start, m, scan)
  <2>1. /\ <<>> \in Seq(1 .. m) /\ Len(<<>>) = 0 /\ 0 .. 0 - 1 = {} /\ 1 .. 0 = {}
        /\ Interval * 0 = 0
    BY StepAssumption
  <2>2. QED
    BY <1>3, <1>4, <2>1 DEF Indexes
<1>6. QED
  BY <1>1, <1>3, <1>5 DEF IndexInv, m

LEMMA StepIndexes ==
  ASSUME IndexInv, [Next]_vars
  PROVE  IndexInv'
<1> DEFINE m == Len(file.text)
<1>1. Opened /\ m \in Nat /\ Reads(bounds, m) /\ records.start \in 1 .. m + 1
  BY OpenedReads DEF IndexInv
<1>2. ASSUME UNCHANGED <<file, records, bounds>> PROVE Opened' /\ m' = m
  BY <1>1, <1>2 DEF Opened
<1>3. CASE ScanRecord
  <2>1. /\ UNCHANGED <<file, records, bounds, index>> /\ scan.phase = "running"
        /\ bounds[scan.pos] # None
        /\ scan'.count = scan.count + 1 /\ scan'.pos = bounds[scan.pos].next
        /\ scan'.anchors = Anchored(bounds[scan.pos])
        /\ scan'.phase \in {"running", "stopped"}
        /\ frontier' \in {scan.count + 1, frontier}
    BY <1>3 DEF ScanRecord
  <2>2. index = None
    BY <2>1 DEF IndexInv
  <2>3. Indexes(bounds, records.start, m, scan')
    <3>1. Indexes(bounds, records.start, m, scan)
      BY DEF IndexInv
    <3>2. scan'.anchors = IF scan.count % Interval = 0
                            THEN Append(scan.anchors, bounds[scan.pos].start) ELSE scan.anchors
      BY <2>1 DEF Anchored
    <3> DEFINE t == scan'
    <3>3. /\ t.count = scan.count + 1 /\ t.pos = bounds[scan.pos].next
          /\ t.anchors = IF scan.count % Interval = 0
                           THEN Append(scan.anchors, bounds[scan.pos].start) ELSE scan.anchors
      BY <2>1, <3>2
    <3> HIDE DEF t, m
    <3>4. Indexes(bounds, records.start, m, t)
      BY <1>1, <2>1, <3>1, <3>3, RecordIndexed
    <3>5. QED
      BY <3>4 DEF t
  <2>4. frontier' \in 0 .. scan'.count
    <3>1. frontier \in 0 .. scan.count /\ scan.count \in Nat
      BY DEF IndexInv, Indexes
    <3>2. QED
      BY <2>1, <3>1
  <2>5. QED
    BY <1>2, <2>1, <2>2, <2>3, <2>4 DEF IndexInv
<1>4. CASE ScanEnd
  <2>1. /\ UNCHANGED <<file, records, bounds, index>> /\ scan.phase = "running"
        /\ bounds[scan.pos] = None
        /\ scan' = [scan EXCEPT !.phase = IF dropped THEN "stopped" ELSE "built"]
        /\ frontier' \in {scan.count, frontier}
    BY <1>4 DEF ScanEnd
  <2>2. index = None
    BY <2>1 DEF IndexInv
  <2>3. /\ scan'.count = scan.count /\ scan'.pos = scan.pos /\ scan'.anchors = scan.anchors
    BY <2>1
  <2>4. scan'.phase \in {"running", "built", "done", "stopped"}
    <3>1. CASE dropped
      <4>1. scan' = [scan EXCEPT !.phase = "stopped"]
        BY <2>1, <3>1
      <4>2. QED
        BY <4>1 DEF IndexInv
    <3>2. CASE ~dropped
      <4>1. scan' = [scan EXCEPT !.phase = "built"]
        BY <2>1, <3>2
      <4>2. QED
        BY <4>1 DEF IndexInv
    <3>3. QED
      BY <3>1, <3>2
  <2>5. Indexes(bounds, records.start, m, scan')
    BY <2>3 DEF IndexInv, Indexes
  <2>6. Nth(bounds, records.start, scan'.count) = None
    BY <2>1, <2>3 DEF IndexInv, Indexes, Nth
  <2>7. frontier' \in 0 .. scan'.count
    <3>1. frontier \in 0 .. scan.count /\ scan.count \in Nat
      BY DEF IndexInv, Indexes
    <3>2. QED
      BY <2>1, <2>3, <3>1
  <2>8. QED
    BY <1>2, <2>1, <2>2, <2>4, <2>5, <2>6, <2>7 DEF IndexInv
<1>5. CASE Land
  <2>1. /\ UNCHANGED <<file, records, bounds, frontier>> /\ scan.phase = "built"
        /\ scan' = [scan EXCEPT !.phase = "done"]
        /\ index' = [anchors |-> scan.anchors, count |-> scan.count]
    BY <1>5 DEF Land
  <2>2. /\ scan'.count = scan.count /\ scan'.pos = scan.pos /\ scan'.anchors = scan.anchors
    BY <2>1
  <2>3. Indexes(bounds, records.start, m, scan')
    BY <2>2 DEF IndexInv, Indexes
  <2>4. Nth(bounds, records.start, scan'.count) = None
    BY <2>1, <2>2 DEF IndexInv
  <2>5. frontier' \in 0 .. scan'.count
    BY <2>1, <2>2 DEF IndexInv
  <2>6. scan'.phase = "done"
    BY <2>1 DEF IndexInv
  <2>7. QED
    BY <1>2, <2>1, <2>2, <2>3, <2>4, <2>5, <2>6 DEF IndexInv
<1>6. CASE UNCHANGED <<file, records, bounds, scan, frontier, index>>
  BY <1>6 DEF IndexInv, Opened
<1>7. CASE ViewStep \/ Drop \/ \E spec \in Specs \cup {Identity} : SetView(spec)
  <2>1. UNCHANGED <<file, records, bounds, scan, frontier, index>>
    BY <1>7 DEF ViewStep, ViewBuilt, ViewPanics, ViewThreadEnd, Drop, SetView
  <2>2. QED
    BY <1>6, <2>1
<1>8. CASE UNCHANGED vars
  BY <1>6, <1>8 DEF vars
<1>9. QED
  BY <1>3, <1>4, <1>5, <1>7, <1>8 DEF Next, ScanStep

LEMMA IndexHolds == Spec => []IndexInv
<1>1. Init => IndexInv
  BY OpeningIndexes
<1>2. IndexInv /\ [Next]_vars => IndexInv'
  BY StepIndexes
<1>3. QED
  BY <1>1, <1>2, PTL DEF Spec

(* Through the index a row is the one streaming from the head finds.        *)
SameRows == (index # None) => \A row \in Nat : Indexed(row) = Streamed(row)

LEMMA IndexFinds == IndexInv => SameRows
<1> SUFFICES ASSUME IndexInv, index # None, NEW row \in Nat
             PROVE  Indexed(row) = Streamed(row)
  BY DEF SameRows
<1> DEFINE m == Len(file.text)
           start == records.start
           anchor == scan.anchors[row \div Interval + 1]
           there == bounds[After(bounds, anchor, row % Interval)]
<1>1. m \in Nat /\ Reads(bounds, m) /\ start \in 1 .. m + 1
  BY OpenedReads DEF IndexInv
<1>2. /\ Indexes(bounds, start, m, scan) /\ scan.count \in Nat
      /\ Nth(bounds, start, scan.count) = None
      /\ index.anchors = scan.anchors /\ index.count = scan.count
  BY DEF IndexInv, Indexes
<1>3. OffsetOfRow(row) = IF row >= scan.count \/ there = None THEN None ELSE there.start
  BY <1>2 DEF OffsetOfRow, Skip
<1>4. Streamed(row) = CellsOf(Nth(bounds, start, row))
  BY DEF Streamed, Skip, Nth
<1>5. Indexed(row) = CellsOf(IF OffsetOfRow(row) = None THEN None ELSE bounds[OffsetOfRow(row)])
  BY DEF Indexed
<1>6. CASE row >= scan.count
  <2>1. OffsetOfRow(row) = None
    BY <1>3, <1>6
  <2>2. Nth(bounds, start, row) = None
    <3> DEFINE c == scan.count
    <3> HIDE DEF m, start, c
    <3>1. c \in Nat /\ c <= row /\ bounds[After(bounds, start, c)] = None
      BY <1>2, <1>6 DEF Nth, c
    <3>2. QED
      BY <1>1, <3>1, EndStaysAt DEF Nth
  <2>3. QED
    BY <1>4, <1>5, <2>1, <2>2
<1>7. CASE row < scan.count
  <2>1. row \in 0 .. scan.count - 1
    BY <1>2, <1>7
  <2>2. /\ there = Nth(bounds, start, row) /\ there # None
        /\ there.start \in 1 .. m /\ bounds[there.start] = there
    <3> HIDE DEF m, start
    <3>1. QED
      BY <1>1, <1>2, <2>1, AnchorFinds
  <2>3. OffsetOfRow(row) = there.start
    <3>1. ~(row >= scan.count)
      BY <1>2, <1>7
    <3>2. QED
      BY <1>3, <2>2, <3>1
  <2>4. OffsetOfRow(row) # None
    <3> HIDE DEF there, m
    <3>1. there.start \in Nat
      BY <1>1, <2>2
    <3>2. QED
      BY <2>3, <3>1, NoneAssumption
  <2>5. QED
    BY <1>4, <1>5, <2>2, <2>3, <2>4
<1>8. QED
  BY <1>2, <1>6, <1>7

(* Once the index has landed a row is the record it was before: whatever    *)
(* the text, whole or cut off anywhere, and whatever the interval of the    *)
(* anchors, offset_of_row and record_value find what fetch_streaming finds, *)
(* and nothing where it finds nothing.                                      *)
THEOREM IndexAgrees == Spec => []SameRows
<1>1. Spec => []IndexInv
  BY IndexHolds
<1>2. IndexInv => SameRows
  BY IndexFinds
<1>3. QED
  BY <1>1, <1>2, PTL

------------------------------------------------------------------------------
(* The order of a view. *)

(* A strict total order on S, as a set of pairs.                            *)
Orders(R, S) ==
  /\ \A x \in S : <<x, x>> \notin R
  /\ \A x, y, z \in S : <<x, y>> \in R /\ <<y, z>> \in R => <<x, z>> \in R
  /\ \A x, y \in S : x = y \/ <<x, y>> \in R \/ <<y, x>> \in R

Under(R, S, x) == {y \in S : <<y, x>> \in R}

(* Counting what is under an element of a finite set numbers the elements   *)
(* in order, from 0 on without a gap.                                       *)
LEMMA Ranked ==
  ASSUME NEW S, IsFiniteSet(S), NEW R, Orders(R, S)
  PROVE  /\ Cardinality(S) \in Nat
         /\ \A x \in S : Cardinality(Under(R, S, x)) \in 0 .. Cardinality(S) - 1
         /\ \A x, y \in S : <<x, y>> \in R <=>
              Cardinality(Under(R, S, x)) < Cardinality(Under(R, S, y))
         /\ \A k \in 0 .. Cardinality(S) - 1 :
              \E x \in S : Cardinality(Under(R, S, x)) = k
<1> DEFINE n == Cardinality(S)
           f == [x \in S |-> Cardinality(Under(R, S, x))]
<1>1. n \in Nat
  BY FS_CardinalityType
<1>2. ASSUME NEW x \in S
      PROVE  IsFiniteSet(Under(R, S, x)) /\ f[x] \in 0 .. n - 1
  <2>1. Under(R, S, x) \in SUBSET (S \ {x})
    BY DEF Under, Orders
  <2>2. IsFiniteSet(S \ {x}) /\ Cardinality(S \ {x}) = n - 1
    BY FS_RemoveElement
  <2>3. /\ IsFiniteSet(Under(R, S, x))
        /\ Cardinality(Under(R, S, x)) <= Cardinality(S \ {x})
    BY <2>1, <2>2, FS_Subset
  <2>4. Cardinality(Under(R, S, x)) \in Nat
    BY <2>3, FS_CardinalityType
  <2>5. QED
    BY <1>1, <2>2, <2>3, <2>4
<1>3. ASSUME NEW x \in S, NEW y \in S, <<x, y>> \in R PROVE f[x] < f[y]
  <2>1. Under(R, S, x) \in SUBSET Under(R, S, y)
    BY <1>3 DEF Under, Orders
  <2>2. x \in Under(R, S, y) /\ x \notin Under(R, S, x)
    BY <1>3 DEF Under, Orders
  <2>3. /\ Cardinality(Under(R, S, x)) <= Cardinality(Under(R, S, y))
        /\ Cardinality(Under(R, S, y)) # Cardinality(Under(R, S, x))
    BY <1>2, <2>1, <2>2, FS_Subset
  <2>4. f[x] \in Nat /\ f[y] \in Nat
    BY <1>2, <1>1
  <2>5. QED
    BY <2>3, <2>4
<1>4. \A x, y \in S : <<x, y>> \in R <=> f[x] < f[y]
  <2>1. ASSUME NEW x \in S, NEW y \in S, f[x] < f[y] PROVE <<x, y>> \in R
    <3>1. f[x] \in Int /\ f[y] \in Int
      BY <1>1, <1>2
    <3>2. ~(<<y, x>> \in R) /\ x # y
      BY <1>3, <2>1, <3>1
    <3>3. QED
      BY <3>2 DEF Orders
  <2>2. QED
    BY <1>3, <2>1
<1>5. ASSUME NEW k \in 0 .. n - 1 PROVE \E x \in S : f[x] = k
  <2>1. f \in [S -> 0 .. n - 1]
    BY <1>2
  <2>2. \A x, y \in S : f[x] = f[y] => x = y
    <3>1. ASSUME NEW x \in S, NEW y \in S, f[x] = f[y] PROVE x = y
      <4>1. f[x] \in Int /\ f[y] \in Int
        BY <1>1, <1>2
      <4>2. ~(f[x] < f[y]) /\ ~(f[y] < f[x])
        BY <3>1, <4>1
      <4>3. QED
        BY <1>3, <4>2 DEF Orders
    <3>2. QED
      BY <3>1
  <2> HIDE DEF f
  <2>3. f \in Injection(S, 0 .. n - 1)
    BY <2>1, <2>2 DEF Injection, IsInjective
  <2>4. IsFiniteSet(0 .. n - 1) /\ Cardinality(0 .. n - 1) = n
    BY <1>1, FS_Interval
  <2> DEFINE T == 0 .. n - 1
  <2>5. IsFiniteSet(T) /\ Cardinality(S) = Cardinality(T)
    BY <2>4
  <2>6. f \in Injection(S, T) /\ k \in T
    BY <2>3
  <2> HIDE DEF T, n
  <2>7. f \in Surjection(S, T)
    BY <2>5, <2>6, FS_Injection, Zenon
  <2>8. QED
    BY <2>6, <2>7 DEF Surjection
<1>6. QED
  BY <1>1, <1>2, <1>4, <1>5

(* A finite set put in order: every element once, each after those before it. *)
Lists(s, S, R) ==
  /\ s \in Seq(S) /\ Len(s) = Cardinality(S) /\ DOMAIN s = 1 .. Cardinality(S)
  /\ Cardinality(S) \in Nat
  /\ \A i \in DOMAIN s : s[i] \in S /\ Cardinality(Under(R, S, s[i])) = i - 1
  /\ \A x \in S : Cardinality(Under(R, S, x)) + 1 \in DOMAIN s
                    /\ s[Cardinality(Under(R, S, x)) + 1] = x
  /\ \A i, j \in DOMAIN s : i < j <=> <<s[i], s[j]>> \in R

LEMMA InOrderLists ==
  ASSUME NEW S, IsFiniteSet(S), NEW R, Orders(R, S)
  PROVE  Lists(InOrder(S, R), S, R)
<1> DEFINE N == Cardinality(S)
           place(x) == Cardinality(Under(R, S, x))
           s == InOrder(S, R)
<1>1. s = [i \in 1 .. N |-> CHOOSE x \in S : place(x) = i - 1]
  BY DEF InOrder, Under
<1> HIDE DEF s
<1>2. /\ N \in Nat /\ \A x \in S : place(x) \in 0 .. N - 1
      /\ \A x, y \in S : <<x, y>> \in R <=> place(x) < place(y)
      /\ \A k \in 0 .. N - 1 : \E x \in S : place(x) = k
  BY Ranked
<1>3. \A x, y \in S : place(x) = place(y) => x = y
  <2> TAKE x, y \in S
  <2> HAVE place(x) = place(y)
  <2>1. place(x) \in Int /\ place(y) \in Int
    BY <1>2
  <2>2. ~(place(x) < place(y)) /\ ~(place(y) < place(x))
    BY <2>1
  <2>3. <<x, y>> \notin R /\ <<y, x>> \notin R
    BY <1>2, <2>2
  <2>4. QED
    BY <2>3 DEF Orders
<1> HIDE DEF place, N
<1>4. ASSUME NEW i \in 1 .. N PROVE s[i] \in S /\ place(s[i]) = i - 1
  <2>1. i - 1 \in 0 .. N - 1
    BY <1>2
  <2>2. \E x \in S : place(x) = i - 1
    BY <1>2, <2>1
  <2>3. s[i] = CHOOSE x \in S : place(x) = i - 1
    BY <1>1
  <2>4. QED
    BY <2>2, <2>3
<1>5. s \in Seq(S) /\ Len(s) = N /\ DOMAIN s = 1 .. N
  <2> DEFINE e(i) == CHOOSE x \in S : place(x) = i - 1
  <2>1. \A i \in 1 .. N : e(i) \in S
    BY <1>1, <1>4
  <2>2. s = [i \in 1 .. N |-> e(i)]
    BY <1>1
  <2> HIDE DEF e
  <2>3. QED
    BY <1>2, <2>1, <2>2
<1>6. ASSUME NEW x \in S PROVE place(x) + 1 \in 1 .. N /\ s[place(x) + 1] = x
  <2>1. place(x) + 1 \in 1 .. N /\ (place(x) + 1) - 1 = place(x)
    BY <1>2
  <2>2. s[place(x) + 1] \in S /\ place(s[place(x) + 1]) = place(x)
    BY <1>4, <2>1
  <2>3. QED
    BY <1>3, <2>1, <2>2
<1>7. ASSUME NEW i \in 1 .. N, NEW j \in 1 .. N PROVE i < j <=> <<s[i], s[j]>> \in R
  <2>1. /\ s[i] \in S /\ s[j] \in S /\ place(s[i]) = i - 1 /\ place(s[j]) = j - 1
    BY <1>4
  <2>2. <<s[i], s[j]>> \in R <=> i - 1 < j - 1
    BY <1>2, <2>1
  <2>3. QED
    BY <2>2
<1>8. QED
  BY <1>2, <1>4, <1>5, <1>6, <1>7 DEF Lists, place, N, s

(* The numbers of a finite set, the lowest first. *)
Lower(S) == {p \in S \X S : p[1] < p[2]}

LEMMA AscendingLists ==
  ASSUME NEW S, IsFiniteSet(S), S \subseteq Int
  PROVE  /\ Lists(Ascending(S), S, Lower(S))
         /\ Ascending(S) \in Seq(S) /\ DOMAIN Ascending(S) = 1 .. Cardinality(S)
         /\ Len(Ascending(S)) = Cardinality(S) /\ Cardinality(S) \in Nat
         /\ \A i, j \in DOMAIN Ascending(S) : i < j <=> Ascending(S)[i] < Ascending(S)[j]
         /\ \A x \in S : \E i \in DOMAIN Ascending(S) : Ascending(S)[i] = x
<1>1. \A x, y \in S : <<x, y>> \in Lower(S) <=> x < y
  BY DEF Lower
<1>2. Orders(Lower(S), S)
  <2>1. \A x \in S : x \in Int
    OBVIOUS
  <2>2. QED
    BY <1>1, <2>1 DEF Orders
<1>3. \A x \in S : {y \in S : <<y, x>> \in Lower(S)} = {y \in S : y < x}
  BY <1>1
<1> DEFINE p(x) == {y \in S : <<y, x>> \in Lower(S)}
           q(x) == {y \in S : y < x}
           e(i) == CHOOSE x \in S : Cardinality(p(x)) = i - 1
           g(i) == CHOOSE x \in S : Cardinality(q(x)) = i - 1
<1>4. \A i : e(i) = g(i)
  <2> TAKE i
  <2> DEFINE P == {x \in S : Cardinality(p(x)) = i - 1}
             Q == {x \in S : Cardinality(q(x)) = i - 1}
  <2>1. P = Q
    BY <1>3
  <2>2. e(i) = CHOOSE x : x \in P
    OBVIOUS
  <2>3. g(i) = CHOOSE x : x \in Q
    OBVIOUS
  <2> HIDE DEF P, Q
  <2>4. QED
    BY <2>1, <2>2, <2>3, Zenon
<1>5. Ascending(S) = [i \in 1 .. Cardinality(S) |-> g(i)]
  BY DEF Ascending
<1>6. InOrder(S, Lower(S)) = [i \in 1 .. Cardinality(S) |-> e(i)]
  BY DEF InOrder
<1> HIDE DEF e, g
<1>7. Ascending(S) = InOrder(S, Lower(S))
  BY <1>4, <1>5, <1>6
<1>8. Lists(Ascending(S), S, Lower(S))
  BY <1>2, <1>7, InOrderLists
<1>9. \A i, j \in DOMAIN Ascending(S) : i < j <=> Ascending(S)[i] < Ascending(S)[j]
  BY <1>1, <1>8 DEF Lists
<1>10. \A x \in S : \E i \in DOMAIN Ascending(S) : Ascending(S)[i] = x
  BY <1>8 DEF Lists
<1>11. QED
  BY <1>8, <1>9, <1>10 DEF Lists

(* Every element of a finite set, once.                                     *)
Once(s, S) ==
  /\ s \in Seq(S) /\ Len(s) = Cardinality(S) /\ DOMAIN s = 1 .. Cardinality(S)
  /\ Cardinality(S) \in Nat
  /\ \A x \in S : \E i \in DOMAIN s : s[i] = x
  /\ \A i, j \in DOMAIN s : s[i] = s[j] => i = j

LEMMA ListsOnce ==
  ASSUME NEW S, NEW R, NEW s, Lists(s, S, R)
  PROVE  Once(s, S)
<1>1. \A x \in S : \E i \in DOMAIN s : s[i] = x
  BY DEF Lists
<1>2. ASSUME NEW i \in DOMAIN s, NEW j \in DOMAIN s, s[i] = s[j] PROVE i = j
  <2>1. Cardinality(Under(R, S, s[i])) = i - 1 /\ Cardinality(Under(R, S, s[j])) = j - 1
    BY DEF Lists
  <2>2. i \in Int /\ j \in Int
    BY DEF Lists
  <2>3. i - 1 = j - 1
    BY <1>2, <2>1
  <2>4. QED
    BY <2>2, <2>3
<1>3. QED
  BY <1>1, <1>2 DEF Lists, Once

(* compare_keys never has each of two keys before the other.                *)
LEMMA LessOneWay ==
  ASSUME NEW a \in Parsed, NEW b \in Parsed
  PROVE  ~(Less(a, b) /\ Less(b, a)) /\ ~Less(a, a)
BY DEF Parsed, Less

(* Keys that contradict each other nowhere put the rows in one order, with  *)
(* the ties among them in file order.                                       *)
LEMMA OrderlyOrders ==
  ASSUME NEW S, S \subseteq Int, NEW key, \A r \in S : key[r] \in Parsed,
         Orderly(key, S), NEW up
  PROVE  Orders({p \in S \X S : Precedes(key, up, p[1], p[2])}, S)
<1> DEFINE R == {p \in S \X S : Precedes(key, up, p[1], p[2])}
           L == {p \in S \X S : Less(key[p[1]], key[p[2]])}
<1>1. \A a, b \in S : <<a, b>> \in L <=> Less(key[a], key[b])
  OBVIOUS
<1>2. \A a, b \in S : <<a, b>> \in R <=>
        \/ up /\ <<a, b>> \in L
        \/ ~up /\ <<b, a>> \in L
        \/ <<a, b>> \notin L /\ <<b, a>> \notin L /\ a < b
  BY <1>1 DEF Precedes
<1>3. \A a, b \in S : <<a, b>> \in L => <<b, a>> \notin L
  BY <1>1, LessOneWay
<1>4. \A a, b, c \in S : <<a, b>> \in L => <<a, c>> \in L \/ <<c, b>> \in L
  BY <1>1 DEF Orderly
<1>5. \A a \in S : a \in Int
  OBVIOUS
<1> HIDE DEF R, L
<1>6. \A x \in S : <<x, x>> \notin R
  BY <1>2, <1>3, <1>5
<1>7. ASSUME NEW x \in S, NEW y \in S, NEW z \in S, <<x, y>> \in R, <<y, z>> \in R
      PROVE  <<x, z>> \in R
  <2>1. x \in Int /\ y \in Int /\ z \in Int
    BY <1>5
  <2>2. /\ <<x, y>> \in L => <<x, z>> \in L \/ <<z, y>> \in L
        /\ <<y, z>> \in L => <<y, x>> \in L \/ <<x, z>> \in L
        /\ <<y, x>> \in L => <<y, z>> \in L \/ <<z, x>> \in L
        /\ <<z, y>> \in L => <<z, x>> \in L \/ <<x, y>> \in L
        /\ <<x, z>> \in L => <<x, y>> \in L \/ <<y, z>> \in L
        /\ <<z, x>> \in L => <<z, y>> \in L \/ <<y, x>> \in L
    BY <1>4
  <2>3. /\ <<x, y>> \in L => <<y, x>> \notin L
        /\ <<y, z>> \in L => <<z, y>> \notin L
        /\ <<x, z>> \in L => <<z, x>> \notin L
    BY <1>3
  <2>4. QED
    BY <1>2, <1>7, <2>1, <2>2, <2>3
<1>8. ASSUME NEW x \in S, NEW y \in S, x # y PROVE <<x, y>> \in R \/ <<y, x>> \in R
  <2>1. x < y \/ y < x
    BY <1>5, <1>8
  <2>2. CASE <<x, y>> \in L \/ <<y, x>> \in L
    BY <1>2, <2>2
  <2>3. CASE <<x, y>> \notin L /\ <<y, x>> \notin L
    BY <1>2, <2>1, <2>3
  <2>4. QED
    BY <2>2, <2>3
<1>9. QED
  BY <1>6, <1>7, <1>8 DEF Orders, R

(* sort_by keeps every row once; in the order of the keys, if these have    *)
(* one.                                                                     *)
LEMMA SortByLists ==
  ASSUME NEW S, IsFiniteSet(S), S \subseteq Int, NEW key, \A r \in S : key[r] \in Parsed,
         NEW up
  PROVE  LET s == SortBy(S, key, up)
         IN  /\ Once(s, S)
             /\ Orderly(key, S) =>
                  \A i, j \in DOMAIN s : i < j <=> Precedes(key, up, s[i], s[j])
<1> DEFINE R == {p \in S \X S : Precedes(key, up, p[1], p[2])}
           N == Cardinality(S)
           Whole(s) == \A row \in S : \E i \in DOMAIN s : s[i] = row
<1>1. CASE Orderly(key, S)
  <2>1. SortBy(S, key, up) = InOrder(S, R)
    BY <1>1 DEF SortBy
  <2>2. Orders(R, S)
    BY <1>1, OrderlyOrders
  <2>3. \A x, y \in S : <<x, y>> \in R <=> Precedes(key, up, x, y)
    OBVIOUS
  <2> HIDE DEF R
  <2>4. Lists(InOrder(S, R), S, R)
    BY <2>2, InOrderLists
  <2>5. Once(InOrder(S, R), S)
    BY <2>4, ListsOnce
  <2> DEFINE s == InOrder(S, R)
  <2>6. \A i, j \in DOMAIN s : s[i] \in S /\ s[j] \in S /\ (i < j <=> <<s[i], s[j]>> \in R)
    BY <2>4 DEF Lists
  <2> HIDE DEF s
  <2>7. \A i, j \in DOMAIN s : i < j <=> Precedes(key, up, s[i], s[j])
    BY <2>3, <2>6
  <2>8. QED
    BY <2>1, <2>5, <2>7 DEF s
<1>2. CASE ~Orderly(key, S)
  <2> DEFINE s == CHOOSE s \in [1 .. N -> S] : Whole(s)
  <2>1. SortBy(S, key, up) = s
    BY <1>2 DEF SortBy
  <2>2. N \in Nat /\ Once(Ascending(S), S)
    BY AscendingLists, ListsOnce
  <2>3. Ascending(S) \in [1 .. N -> S] /\ Whole(Ascending(S))
    BY <2>2 DEF Once
  <2> HIDE DEF Whole, N
  <2>4. s \in [1 .. N -> S] /\ Whole(s)
    BY <2>3
  <2> HIDE DEF s
  <2>5. s \in Seq(S) /\ Len(s) = N /\ DOMAIN s = 1 .. N
    BY <2>2, <2>4
  <2>6. \A i, j \in DOMAIN s : s[i] = s[j] => i = j
    <3> DEFINE D == 1 .. N
    <3>1. IsFiniteSet(D) /\ Cardinality(D) = N
      BY <2>2, FS_Interval
    <3>2. s \in Surjection(D, S)
      BY <2>4, <2>5 DEF Surjection, Whole
    <3> HIDE DEF D
    <3>3. s \in Injection(D, S)
      BY <3>1, <3>2, FS_SurjSameCardinalityImpliesInj DEF N
    <3>4. \A i, j \in D : s[i] = s[j] => i = j
      BY <3>3 DEF Injection, IsInjective
    <3>5. QED
      BY <2>5, <3>4 DEF D
  <2>7. Once(s, S)
    BY <2>2, <2>4, <2>5, <2>6 DEF Once, Whole, N
  <2>8. QED
    BY <1>2, <2>1, <2>7
<1>3. QED
  BY <1>1, <1>2

(* A table of n rows of cells.                                              *)
Table(row, n) ==
  /\ DOMAIN row = 0 .. n - 1
  /\ \A r \in 0 .. n - 1 : \A c \in DOMAIN row[r] : row[r][c] \in Cells

(* Every row a view keeps is displayed once, and no other (build_view):     *)
(* nothing is lost or doubled, whatever the cells. Unsorted, the rows are   *)
(* in the order of the file; and sorted they are in the order of their      *)
(* cells, equal cells in the order of the file, if the cells do not         *)
(* contradict each other (compare_keys).                                    *)
THEOREM ViewInOrder ==
  ASSUME NEW n \in Nat, NEW row, Table(row, n), NEW spec
  PROVE  LET shown == Displayed(row, spec)
             key == SortedBy(row, spec.sort)
             up == spec.sort.ascending
         IN  /\ Once(shown, Kept(row, spec))
             /\ spec.sort = None => \A i, j \in DOMAIN shown : i < j <=> shown[i] < shown[j]
             /\ spec.sort # None /\ Orderly(key, Kept(row, spec)) =>
                  \A i, j \in DOMAIN shown : i < j <=> Precedes(key, up, shown[i], shown[j])
<1> DEFINE K == Kept(row, spec)
           shown == Displayed(row, spec)
           key == SortedBy(row, spec.sort)
           up == spec.sort.ascending
<1>1. K \subseteq 0 .. n - 1
  BY DEF Kept, Table
<1>2. IsFiniteSet(K) /\ K \subseteq Int
  <2>1. IsFiniteSet(0 .. n - 1)
    BY FS_Interval
  <2>2. K \in SUBSET (0 .. n - 1)
    BY <1>1
  <2> HIDE DEF K
  <2>3. IsFiniteSet(K)
    BY <2>1, <2>2, FS_Subset
  <2>4. K \subseteq Int
    BY <2>2
  <2>5. QED
    BY <2>3, <2>4
<1>3. CASE spec.sort = None
  <2>1. shown = Ascending(K)
    BY <1>3 DEF Displayed
  <2>2. Once(Ascending(K), K)
    BY <1>2, AscendingLists, ListsOnce
  <2>3. \A i, j \in DOMAIN Ascending(K) : i < j <=> Ascending(K)[i] < Ascending(K)[j]
    BY <1>2, AscendingLists
  <2>4. QED
    BY <1>3, <2>1, <2>2, <2>3
<1>4. CASE spec.sort # None
  <2>1. ASSUME NEW r \in K PROVE key[r] \in Parsed
    <3> DEFINE cell == IF spec.sort.column \in DOMAIN row[r] THEN row[r][spec.sort.column]
                       ELSE ""
    <3>1. r \in DOMAIN row /\ r \in 0 .. n - 1
      BY <1>1 DEF Table
    <3>2. cell \in Cells
      BY <3>1, CellsAssumption DEF Table
    <3>3. key[r] = Key[cell]
      BY <3>1 DEF SortedBy
    <3> HIDE DEF cell, key
    <3>4. QED
      BY <3>2, <3>3, CellsAssumption
  <2>2. shown = SortBy(K, key, up)
    BY <1>4 DEF Displayed
  <2> HIDE DEF shown, K, key, up
  <2>3. /\ Once(SortBy(K, key, up), K)
        /\ Orderly(key, K) => \A i, j \in DOMAIN SortBy(K, key, up) :
             i < j <=> Precedes(key, up, SortBy(K, key, up)[i], SortBy(K, key, up)[j])
    BY <1>2, <2>1, SortByLists
  <2>4. QED
    BY <1>4, <2>2, <2>3 DEF shown, K, key, up
<1>5. QED
  BY <1>3, <1>4

------------------------------------------------------------------------------
(* What was written is what is served. *)

LEMMA ReadsFile ==
  ASSUME ReadsAsWritten, Opened
  PROVE  /\ file.rows \in Seq(Values \cup {None}) /\ Len(file.rows) \in 0 .. Len(file.text)
         /\ \A k \in 0 .. Len(file.rows) - 1 :
              /\ Nth(bounds, records.start, k) # None
              /\ Nth(bounds, records.start, k).value = file.rows[k + 1]
         /\ Nth(bounds, records.start, Len(file.rows)) = None
<1>1. /\ file \in Files /\ Route(file) # None
      /\ bounds = Bounds(file) /\ records.start = Detect(file.text).start
  BY DEF Opened
<1>2. /\ file.rows \in Seq(Values \cup {None}) /\ Len(file.rows) <= Len(file.text)
      /\ file.text \in Seq(STRING)
  BY <1>1, FilesAssumption
<1>3. Len(file.rows) \in Nat /\ Len(file.text) \in Nat
  BY <1>2, LenProperties
<1>4. DOMAIN file.rows = 1 .. Len(file.rows)
  BY <1>2, LenProperties
<1>5. /\ \A n \in DOMAIN file.rows : /\ Nth(bounds, records.start, n - 1) # None
                                     /\ Nth(bounds, records.start, n - 1).value = file.rows[n]
      /\ Nth(bounds, records.start, Len(file.rows)) = None
  BY <1>1 DEF ReadsAsWritten, Nth
<1>6. ASSUME NEW k \in 0 .. Len(file.rows) - 1
      PROVE  /\ Nth(bounds, records.start, k) # None
             /\ Nth(bounds, records.start, k).value = file.rows[k + 1]
  <2>1. k + 1 \in DOMAIN file.rows /\ (k + 1) - 1 = k
    BY <1>3, <1>4
  <2>2. QED
    BY <1>5, <2>1
<1>7. QED
  BY <1>2, <1>3, <1>5, <1>6

(* The thread of the index has counted no row that was not written, and at  *)
(* the end every one that was.                                              *)
LEMMA CountsRows ==
  ASSUME ReadsAsWritten, IndexInv
  PROVE  /\ scan.count \in 0 .. Len(file.rows)
         /\ (scan.phase \in {"built", "done"}) => (scan.count = Len(file.rows))
<1> DEFINE L == Len(file.rows)
           c == scan.count
           nth(k) == Nth(bounds, records.start, k)
<1>1. L \in Nat /\ (\A k \in 0 .. L - 1 : nth(k) # None) /\ nth(L) = None
  BY ReadsFile DEF IndexInv
<1>2. c \in Nat /\ \A k \in 0 .. c - 1 : nth(k) # None
  BY DEF IndexInv, Indexes
<1>3. (scan.phase \in {"built", "done"}) => (nth(c) = None)
  BY DEF IndexInv
<1> HIDE DEF L, c, nth
<1>4. c <= L
  <2>1. c > L => L \in 0 .. c - 1
    BY <1>1, <1>2
  <2>2. ~(c > L)
    BY <1>1, <1>2, <2>1
  <2>3. QED
    BY <1>1, <1>2, <2>2
<1>5. (scan.phase \in {"built", "done"}) => c = L
  <2>1. c < L => c \in 0 .. L - 1
    BY <1>1, <1>2
  <2>2. (scan.phase \in {"built", "done"}) => ~(c < L)
    BY <1>1, <1>3, <2>1
  <2>3. QED
    BY <1>1, <1>2, <1>4, <2>2
<1>6. QED
  BY <1>1, <1>2, <1>4, <1>5 DEF L, c

LEMMA WrittenTable ==
  ASSUME ReadsAsWritten, Opened
  PROVE  DOMAIN Written = 0 .. Len(file.rows) - 1 /\ Table(Written, Len(file.rows))
<1> DEFINE L == Len(file.rows)
<1>1. /\ file.rows \in Seq(Values \cup {None}) /\ L \in Nat
  BY ReadsFile
<1>2. DOMAIN Written = 0 .. L - 1
  BY DEF Written
<1>3. ASSUME NEW r \in 0 .. L - 1, NEW i \in DOMAIN Written[r]
      PROVE  Written[r][i] \in Cells
  <2> DEFINE v == file.rows[r + 1]
  <2>1. Written[r] = Project(v, columns)
    BY DEF Written
  <2>2. v \in Values \cup {None}
    <3>1. r + 1 \in 1 .. L
      BY <1>1
    <3>2. QED
      BY <1>1, <3>1
  <2> HIDE DEF v
  <2>3. Written[r][i] = Render(v, columns[i].key)
    BY <1>3, <2>1 DEF Project
  <2>4. v # None => IsValue(v)
    BY <2>2, ValuesAssumption
  <2>5. Render(v, columns[i].key) \in Cells
    BY <2>4, CellsAssumption DEF Render, IsValue
  <2>6. QED
    BY <2>3, <2>5
<1>4. QED
  BY <1>2, <1>3 DEF Table

(* Either way a row is found, it is the one written, and empty after the    *)
(* last.                                                                    *)
LEMMA RowServed ==
  ASSUME ReadsAsWritten, IndexInv, NEW row \in Nat
  PROVE  RowCells(row) = IF row \in DOMAIN Written THEN Written[row] ELSE NoRow
<1> DEFINE L == Len(file.rows)
           m == Len(file.text)
           start == records.start
<1>1. L \in Nat /\ DOMAIN Written = 0 .. L - 1
  BY ReadsFile, WrittenTable DEF IndexInv
<1>2. RowCells(row) = Streamed(row)
  BY IndexFinds DEF RowCells, SameRows
<1>3. Streamed(row) = CellsOf(Nth(bounds, start, row))
  BY DEF Streamed, Skip, Nth
<1>4. CASE row \in 0 .. L - 1
  <2>1. Nth(bounds, start, row) # None /\ Nth(bounds, start, row).value = file.rows[row + 1]
    BY <1>4, ReadsFile DEF IndexInv
  <2>2. Written[row] = Project(file.rows[row + 1], columns)
    BY <1>4 DEF Written
  <2>3. QED
    BY <1>1, <1>2, <1>3, <1>4, <2>1, <2>2 DEF CellsOf
<1>5. CASE row \notin 0 .. L - 1
  <2>1. L <= row
    BY <1>1, <1>5
  <2>2. Nth(bounds, start, L) = None
    BY ReadsFile DEF IndexInv
  <2>3. m \in Nat /\ Reads(bounds, m) /\ start \in 1 .. m + 1
    BY OpenedReads DEF IndexInv
  <2>4. Nth(bounds, start, row) = None
    <3> HIDE DEF L, m, start
    <3>1. bounds[After(bounds, start, L)] = None
      BY <2>2 DEF Nth
    <3>2. QED
      BY <1>1, <2>1, <2>3, <3>1, EndStaysAt DEF Nth
  <2>5. QED
    BY <1>1, <1>2, <1>3, <1>5, <2>4 DEF CellsOf
<1>6. QED
  BY <1>4, <1>5

(* A view is built of the rows written.                                     *)
LEMMA RowsWritten ==
  ASSUME ReadsAsWritten, IndexInv
  PROVE  Rows = Written
<1> DEFINE L == Len(file.rows)
           m == Len(file.text)
           none == {k \in 0 .. m - 1 : Skip(records.start, k) = None}
           count == Min(none \cup {m})
<1>1. /\ L \in Nat /\ m \in Nat /\ L <= m
      /\ \A k \in 0 .. L - 1 : Skip(records.start, k) # None
      /\ Skip(records.start, L) = None
  <2>1. /\ L \in 0 .. m
        /\ \A k \in 0 .. L - 1 : Nth(bounds, records.start, k) # None
        /\ Nth(bounds, records.start, L) = None
    BY ReadsFile DEF IndexInv
  <2>2. m \in Nat
    BY OpenedReads DEF IndexInv
  <2>3. QED
    BY <2>1, <2>2 DEF Skip, Nth
<1>2. count = L
  <2> DEFINE T == none \cup {m}
  <2>0. \A k \in none : k \in 0 .. m - 1 /\ Skip(records.start, k) = None
    OBVIOUS
  <2>1. L < m => L \in none
    BY <1>1
  <2> HIDE DEF none, L, m
  <2>2. T \subseteq Nat /\ T # {} /\ L \in T
    BY <1>1, <2>0, <2>1
  <2>3. \A y \in T : L <= y
    <3> TAKE y \in T
    <3>1. CASE y = m
      BY <1>1, <3>1
    <3>2. CASE y \in none
      <4>1. y \in Nat /\ ~(y \in 0 .. L - 1)
        BY <1>1, <2>0, <3>2
      <4>2. QED
        BY <1>1, <4>1
    <3>3. QED
      BY <3>1, <3>2
  <2> DEFINE x == Min(T)
  <2> HIDE DEF T
  <2>4. x \in T /\ \A y \in T : x <= y
    BY <2>2, MinIsLeast
  <2>5. x \in Nat /\ x <= L /\ L <= x
    BY <2>2, <2>3, <2>4
  <2>6. x = L
    BY <1>1, <2>5
  <2>7. QED
    BY <2>6 DEF T
<1>3. First(m) = [k \in 1 .. L |-> Skip(records.start, k - 1)]
  <2> HIDE DEF L
  <2>1. QED
    BY <1>2 DEF First
<1>4. Len(First(m)) = L
  <2> DEFINE e(k) == Skip(records.start, k - 1)
             S == {e(k) : k \in 1 .. L}
  <2>1. \A k \in 1 .. L : e(k) \in S
    OBVIOUS
  <2>2. First(m) = [k \in 1 .. L |-> e(k)]
    BY <1>3
  <2> HIDE DEF e, S, L, m
  <2>3. First(m) \in Seq(S) /\ Len(First(m)) = L
    BY <1>1, <2>1, <2>2
  <2>4. QED
    BY <2>3
<1>5. \A r \in 0 .. L - 1 : Skip(records.start, r).value = file.rows[r + 1]
  BY ReadsFile DEF IndexInv, Skip, Nth
<1>6. Rows = [r \in 0 .. L - 1 |-> Project(Skip(records.start, r).value, columns)]
  BY <1>4 DEF Rows
<1>7. Written = [r \in 0 .. L - 1 |-> Project(file.rows[r + 1], columns)]
  BY DEF Written
<1> HIDE DEF L
<1>8. QED
  BY <1>5, <1>6, <1>7

(* A view displayed is the one of the rows written that it was asked to be. *)
ServedInv ==
  /\ IndexInv
  /\ \A i \in DOMAIN columns :
       columns[i].type \in {"text", "integer", "float", "boolean"}
  /\ asked \in 0 .. MaxViews
  /\ jobs \subseteq [id : 1 .. MaxViews, spec : Specs, phase : {"build", "store"}]
  /\ building \in BOOLEAN /\ dropped \in BOOLEAN
  /\ (view # None) => (view.rows = Displayed(Written, view.spec))

LEMMA OpeningServes == Init => ServedInv
<1> SUFFICES ASSUME Init PROVE ServedInv
  OBVIOUS
<1>1. IndexInv
  BY OpeningIndexes
<1>2. \A i \in DOMAIN columns : columns[i].type \in {"text", "integer", "float", "boolean"}
  <2>1. columns = DeriveColumns
    BY DEF Init
  <2>2. \A kinds : Inferred(kinds) \in {"text", "integer", "float", "boolean"}
    <3> TAKE kinds
    <3>1. \/ kinds \ {"null"} = {}
          \/ kinds \ {"null"} = {"integer"}
          \/ /\ kinds \ {"null"} # {} /\ kinds \ {"null"} # {"integer"}
             /\ kinds \ {"null"} \subseteq {"integer", "float"}
          \/ kinds \ {"null"} = {"boolean"}
          \/ ~ \/ kinds \ {"null"} = {}
               \/ kinds \ {"null"} = {"integer"}
               \/ /\ kinds \ {"null"} # {} /\ kinds \ {"null"} # {"integer"}
                  /\ kinds \ {"null"} \subseteq {"integer", "float"}
               \/ kinds \ {"null"} = {"boolean"}
      OBVIOUS
    <3>2. QED
      BY <3>1 DEF Inferred
  <2> DEFINE sampled == First(Sample)
             value == [n \in DOMAIN sampled |-> sampled[n].value]
             objects == {n \in DOMAIN value : value[n] # None /\ value[n].object}
             having(key) == {n \in objects : key \in KeysOf(value[n])}
             place(key) == CHOOSE i \in DOMAIN value[Min(having(key))].keys :
                             value[Min(having(key))].keys[i] = key
             before(k1, k2) == \/ Min(having(k1)) < Min(having(k2))
                               \/ Min(having(k1)) = Min(having(k2)) /\ place(k1) < place(k2)
             all == UNION {KeysOf(value[n]) : n \in objects}
             keys == InOrder(all, {p \in all \X all : before(p[1], p[2])})
             kinds(i) == {value[n].kind[keys[i]] : n \in having(keys[i])}
  <2>3. DeriveColumns =
          IF objects = {} THEN <<[key |-> None, type |-> "text"]>>
          ELSE [i \in DOMAIN keys |-> [key |-> keys[i], type |-> Inferred(kinds(i))]]
    BY Zenon DEF DeriveColumns
  <2> HIDE DEF objects, keys, kinds
  <2>4. QED
    BY <2>1, <2>2, <2>3
<1>3. asked \in 0 .. MaxViews
  BY ViewsAssumption DEF Init
<1>4. QED
  BY <1>1, <1>2, <1>3 DEF Init, ServedInv

LEMMA StepServes ==
  ASSUME ReadsAsWritten, ServedInv, [Next]_vars
  PROVE  ServedInv'
<1>1. IndexInv'
  BY StepIndexes DEF ServedInv
<1>2. IndexInv /\ Opened
  BY DEF ServedInv, IndexInv
<1>3. ASSUME UNCHANGED <<file, columns>>
      PROVE  /\ Written' = Written
             /\ \A i \in DOMAIN columns' :
                  columns'[i].type \in {"text", "integer", "float", "boolean"}
  BY <1>3 DEF ServedInv, Written
<1>4. CASE ScanStep
  <2>1. UNCHANGED <<file, columns, asked, view, jobs, building, dropped>>
    BY <1>4 DEF ScanStep, ScanRecord, ScanEnd, Land
  <2>2. QED
    BY <1>1, <1>3, <2>1 DEF ServedInv
<1>5. ASSUME NEW job \in jobs, ViewBuilt(job) PROVE ServedInv'
  <2>1. /\ UNCHANGED <<file, columns, asked, building, dropped>>
        /\ jobs' = (jobs \ {job}) \cup {[job EXCEPT !.phase = "store"]}
    BY <1>5 DEF ViewBuilt
  <2>2. view' \in {view, [spec |-> job.spec, rows |-> Displayed(Written, job.spec)]}
    <3>1. Rows = Written
      BY <1>2, RowsWritten
    <3>2. \E row \in {Rows} :
            view' = IF Cancelled(job) THEN view
                    ELSE [spec |-> job.spec, rows |-> Displayed(row, job.spec)]
      BY <1>5 DEF ViewBuilt
    <3>3. QED
      BY <3>1, <3>2
  <2>3. (view' # None) => (view'.rows = Displayed(Written, view'.spec))
    BY <2>2 DEF ServedInv
  <2>4. jobs' \subseteq [id : 1 .. MaxViews, spec : Specs, phase : {"build", "store"}]
    <3>1. job \in [id : 1 .. MaxViews, spec : Specs, phase : {"build", "store"}]
      BY DEF ServedInv
    <3>2. [job EXCEPT !.phase = "store"] \in
            [id : 1 .. MaxViews, spec : Specs, phase : {"build", "store"}]
      BY <3>1
    <3>3. QED
      BY <2>1, <3>2 DEF ServedInv
  <2>5. QED
    BY <1>1, <1>3, <2>1, <2>3, <2>4 DEF ServedInv
<1>6. ASSUME NEW job \in jobs, ViewPanics(job) PROVE ServedInv'
  <2>1. UNCHANGED <<file, columns, asked, view, building, dropped>> /\ jobs' = jobs \ {job}
    BY <1>6 DEF ViewPanics
  <2>2. QED
    BY <1>1, <1>3, <2>1 DEF ServedInv
<1>7. ASSUME NEW job \in jobs, ViewThreadEnd(job) PROVE ServedInv'
  <2>1. /\ UNCHANGED <<file, columns, asked, view, dropped>>
        /\ jobs' = jobs \ {job} /\ building' = FALSE
    BY <1>7 DEF ViewThreadEnd
  <2>2. QED
    BY <1>1, <1>3, <2>1 DEF ServedInv
<1>8. CASE Drop
  <2>1. UNCHANGED <<file, columns, asked, view, jobs, building>> /\ dropped' = TRUE
    BY <1>8 DEF Drop
  <2>2. QED
    BY <1>1, <1>3, <2>1 DEF ServedInv
<1>9. ASSUME NEW spec \in Specs \cup {Identity}, SetView(spec) PROVE ServedInv'
  <2>1. /\ UNCHANGED <<file, columns, dropped>> /\ asked < MaxViews /\ asked' = asked + 1
        /\ view' \in {view, None}
        /\ jobs' = IF spec = Identity THEN jobs
                   ELSE jobs \cup {[id |-> asked + 1, spec |-> spec, phase |-> "build"]}
    BY <1>9 DEF SetView
  <2>2. building' \in BOOLEAN
    <3>1. building' = (spec # Identity)
      BY <1>9 DEF SetView
    <3>2. QED
      BY <3>1
  <2>3. asked' \in 0 .. MaxViews /\ asked + 1 \in 1 .. MaxViews
    BY <2>1, ViewsAssumption DEF ServedInv
  <2>4. jobs' \subseteq [id : 1 .. MaxViews, spec : Specs, phase : {"build", "store"}]
    <3>1. CASE spec = Identity
      BY <2>1, <3>1 DEF ServedInv
    <3>2. CASE spec # Identity
      <4>1. [id |-> asked + 1, spec |-> spec, phase |-> "build"] \in
              [id : 1 .. MaxViews, spec : Specs, phase : {"build", "store"}]
        BY <2>3, <3>2
      <4>2. QED
        BY <2>1, <3>2, <4>1 DEF ServedInv
    <3>3. QED
      BY <3>1, <3>2
  <2>5. (view' # None) => (view'.rows = Displayed(Written, view'.spec))
    BY <2>1 DEF ServedInv
  <2>6. dropped' \in BOOLEAN
    BY <2>1 DEF ServedInv
  <2>7. QED
    BY <1>1, <1>3, <2>1, <2>2, <2>3, <2>4, <2>5, <2>6 DEF ServedInv
<1>10. CASE UNCHANGED vars
  <2>1. UNCHANGED <<file, columns, asked, view, jobs, building, dropped>>
    BY <1>10 DEF vars
  <2>2. QED
    BY <1>1, <1>3, <2>1 DEF ServedInv
<1>11. QED
  BY <1>4, <1>5, <1>6, <1>7, <1>8, <1>9, <1>10 DEF Next, ViewStep

LEMMA ServedHolds == ASSUME ReadsAsWritten PROVE Spec => []ServedInv
<1>1. Init => ServedInv
  BY OpeningServes
<1>2. ServedInv /\ [Next]_vars => ServedInv'
  BY StepServes
<1>3. QED
  BY <1>1, <1>2, PTL DEF Spec

(* The rows displayed are rows of the file.                                 *)
LEMMA DisplayedRows ==
  ASSUME ReadsAsWritten, ServedInv, view # None
  PROVE  view.rows \in Seq(DOMAIN Written)
<1>1. Opened
  BY DEF ServedInv, IndexInv
<1>2. Len(file.rows) \in Nat /\ Table(Written, Len(file.rows))
  BY <1>1, ReadsFile, WrittenTable
<1> DEFINE S == Kept(Written, view.spec)
<1>3. Displayed(Written, view.spec) \in Seq(S)
  BY <1>2, ViewInOrder DEF Once
<1>4. S \subseteq DOMAIN Written
  BY DEF Kept
<1> HIDE DEF S
<1>5. Displayed(Written, view.spec) \in Seq(DOMAIN Written)
  BY <1>3, <1>4
<1>6. QED
  BY <1>5 DEF ServedInv

(* Whatever values there are and files of them, whatever the interval of    *)
(* the anchors and the views asked for: if a file streamed from its head    *)
(* gives what was written to it, then the variables keep their types, the   *)
(* scan its bounds, and a view the rows of the file (JsonTable).            *)
THEOREM TypeCorrect == ASSUME ReadsAsWritten PROVE Spec => []TypeOK
<1>1. ServedInv => TypeOK
  <2> SUFFICES ASSUME ServedInv PROVE TypeOK
    OBVIOUS
  <2> DEFINE m == Len(file.text)
             L == Len(file.rows)
  <2>1. IndexInv /\ Opened
    BY DEF ServedInv, IndexInv
  <2>2. /\ m \in Nat /\ Reads(bounds, m) /\ records.start \in 1 .. m + 1
        /\ file.text \in Seq(STRING)
    BY <2>1, OpenedReads
  <2>3. file \in Files /\ records.mode \in {"lines", "array"}
    BY <2>1, <2>2, DetectStart DEF Opened
  <2>4. L \in 0 .. m
    BY <2>1, ReadsFile
  <2>5. scan.count \in 0 .. L /\ frontier \in 0 .. scan.count
    BY <2>1, CountsRows DEF IndexInv
  <2>6. scan.pos \in records.start .. m + 1
    <3>1. scan.count \in Nat /\ scan.pos = After(bounds, records.start, scan.count)
      BY <2>1 DEF IndexInv, Indexes
    <3> HIDE DEF m
    <3>2. \A n \in Nat : After(bounds, records.start, n) \in records.start .. m + 1
      BY <2>2, AfterSteps
    <3>3. QED
      BY <3>1, <3>2
  <2>7. scan.anchors \in Seq(1 .. m)
    BY <2>1 DEF IndexInv, Indexes
  <2>8. {scan.count, frontier} \subseteq 0 .. m
    <3> HIDE DEF m, L
    <3>1. QED
      BY <2>2, <2>4, <2>5
  <2>9. view = None \/ view.rows \in Seq(0 .. m)
    <3> SUFFICES ASSUME view # None PROVE view.rows \in Seq(0 .. m)
      OBVIOUS
    <3>1. view.rows \in Seq(DOMAIN Written) /\ DOMAIN Written = 0 .. L - 1
      BY <2>1, DisplayedRows, WrittenTable
    <3> HIDE DEF m, L
    <3>2. 0 .. L - 1 \subseteq 0 .. m
      BY <2>2, <2>4
    <3> DEFINE S == DOMAIN Written
               U == 0 .. m
    <3>3. view.rows \in Seq(S) /\ S \subseteq U
      BY <3>1, <3>2
    <3> HIDE DEF S, U
    <3>4. view.rows \in Seq(U)
      BY <3>3
    <3>5. QED
      BY <3>4 DEF U
  <2>10. index \in {None, [anchors |-> scan.anchors, count |-> scan.count]}
    BY <2>1 DEF IndexInv
  <2>11. scan.phase \in {"running", "built", "done", "stopped"}
    BY <2>1 DEF IndexInv
  <2>12. \A j \in jobs : j.id \in 1 .. MaxViews /\ j.spec \in Specs /\ j.phase \in {"build", "store"}
    BY DEF ServedInv
  <2>13. QED
    BY <2>2, <2>3, <2>6, <2>7, <2>8, <2>9, <2>10, <2>11, <2>12 DEF TypeOK, ServedInv
<1>2. QED
  BY <1>1, ServedHolds, PTL

LEMMA ServedRows == ASSUME ReadsAsWritten, ServedInv PROVE ServesRecords
<1> DEFINE L == Len(file.rows)
<1>1. IndexInv /\ Opened
  BY DEF ServedInv, IndexInv
<1>2. frontier <= L /\ (index # None => index.count = L)
  <2>1. /\ scan.count \in 0 .. L /\ (scan.phase \in {"built", "done"} => scan.count = L)
        /\ L \in Nat
    BY <1>1, CountsRows, ReadsFile
  <2>2. /\ frontier \in 0 .. scan.count
        /\ index # None => scan.phase = "done" /\ index.count = scan.count
    BY <1>1 DEF IndexInv
  <2>3. QED
    BY <2>1, <2>2
<1>3. \A row \in Nat :
        RowCells(row) = IF row \in DOMAIN Written THEN Written[row] ELSE NoRow
  BY <1>1, RowServed
<1>4. ASSUME NEW first \in 0 .. MaxLength, NEW length \in 1 .. MaxLength
      PROVE  FetchSource(first, length) = Source(first, length)
  <2>1. \A i \in 1 .. length : first + i - 1 \in Nat
    OBVIOUS
  <2>2. \A i \in 1 .. length : RowCells(first + i - 1) =
          IF first + i - 1 \in DOMAIN Written THEN Written[first + i - 1] ELSE NoRow
    BY <1>3, <2>1
  <2>3. QED
    BY <2>2 DEF FetchSource, Source
<1>5. ASSUME NEW first \in 0 .. MaxLength, NEW length \in 1 .. MaxLength, view = None
      PROVE  Fetch(first, length) = Source(first, length)
  <2> DEFINE rows == [i \in 1 .. length |-> first + i - 1]
  <2>1. Fetch(first, length) = [i \in DOMAIN rows |-> RowCells(rows[i])]
    BY <1>5 DEF Fetch
  <2>2. DOMAIN rows = 1 .. length /\ \A i \in 1 .. length : rows[i] = first + i - 1
    OBVIOUS
  <2> HIDE DEF rows
  <2>3. Fetch(first, length) = FetchSource(first, length)
    BY <2>1, <2>2 DEF FetchSource
  <2>4. QED
    BY <1>4, <2>3
<1>6. ASSUME NEW first \in 0 .. MaxLength, NEW length \in 1 .. MaxLength, view # None
      PROVE  LET order == Slice(Displayed(Written, view.spec), first + 1, first + length)
             IN  Fetch(first, length) = [i \in DOMAIN order |-> Written[order[i]]]
  <2> DEFINE s == view.rows
             order == Slice(s, first + 1, first + length)
             last == Min({first + length, Len(s)})
  <2>1. s = Displayed(Written, view.spec) /\ s \in Seq(DOMAIN Written)
    BY <1>6, DisplayedRows DEF ServedInv
  <2>2. DOMAIN Written \subseteq Nat
    BY <1>1, WrittenTable
  <2>3. Len(s) \in Nat /\ last \in Nat /\ last <= Len(s)
    <3> DEFINE T == {first + length, Len(s)}
    <3>1. Len(s) \in Nat
      BY <2>1, LenProperties
    <3>2. T \subseteq Nat /\ T # {} /\ Len(s) \in T
      BY <3>1
    <3> HIDE DEF T, s
    <3>3. Min(T) \in T /\ \A y \in T : Min(T) <= y
      BY <3>2, MinIsLeast
    <3>4. QED
      BY <3>1, <3>2, <3>3 DEF T
  <2> HIDE DEF s, last
  <2>4. order = SubSeq(s, first + 1, last)
    BY DEF Slice, last
  <2>5. \A i \in first + 1 .. last : s[i] \in DOMAIN Written
    <3> TAKE i \in first + 1 .. last
    <3>1. i \in 1 .. Len(s)
      BY <2>3
    <3>2. QED
      BY <2>1, <3>1, ElementOfSeq
  <2>6. order \in Seq(DOMAIN Written)
    <3>1. first + 1 \in Int /\ last \in Int
      BY <2>3
    <3> DEFINE a == first + 1
               S == DOMAIN Written
    <3>2. a \in Int /\ last \in Int /\ \A i \in a .. last : s[i] \in S
      BY <2>5, <3>1
    <3> HIDE DEF a, S
    <3>3. SubSeq(s, a, last) \in Seq(S)
      BY <3>2, SubSeqProperties
    <3>4. QED
      BY <2>4, <3>3 DEF a, S
  <2>7. Fetch(first, length) = [i \in DOMAIN order |-> RowCells(order[i])]
    BY <1>6 DEF Fetch, s
  <2> HIDE DEF order
  <2>8. \A i \in DOMAIN order : order[i] \in DOMAIN Written
    <3>1. DOMAIN order = 1 .. Len(order)
      BY <2>6, LenProperties
    <3>2. QED
      BY <2>6, <3>1, ElementOfSeq
  <2>9. \A i \in DOMAIN order : RowCells(order[i]) = Written[order[i]]
    BY <1>3, <2>2, <2>8
  <2>10. Fetch(first, length) = [i \in DOMAIN order |-> Written[order[i]]]
    BY <2>7, <2>9
  <2>11. order = Slice(Displayed(Written, view.spec), first + 1, first + length)
    BY <2>1 DEF order
  <2>12. QED
    BY <2>10, <2>11
<1>7. QED
  BY <1>2, <1>4, <1>5, <1>6 DEF ServesRecords

(* Whatever values there are and files of them: if a file streamed from its *)
(* head gives what was written to it, then every row served is the row      *)
(* written, streamed or found through the index, in the order of the file   *)
(* or of the view displayed, and the row count never names a row the file   *)
(* has not got and is exact at the end (fetch, fetch_source, row_count).    *)
THEOREM RowsServed == ASSUME ReadsAsWritten PROVE Spec => []ServesRecords
<1>1. ServedInv => ServesRecords
  BY ServedRows
<1>2. QED
  BY <1>1, ServedHolds, PTL
==============================================================================
