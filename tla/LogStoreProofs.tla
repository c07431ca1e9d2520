---------------------------- MODULE LogStoreProofs ----------------------------
(***************************************************************************)
(* Proofs about LogStore, for any filters, page lengths and times and a log *)
(* of any length: that pages fit together, and that comparing times as text *)
(* compares them as numbers while they have as many digits.                 *)
(***************************************************************************)
EXTENDS LogStore, FiniteSetTheorems, SequenceTheorems, WellFoundedInduction, TLAPS

(* The reader, and why its pages fit together: what it has seen are the     *)
(* first of the rows that are selected now, as many as it has asked for or  *)
(* as there were, and rows are only added behind them.                      *)
Reader ==
  [on : {TRUE}, filter : Filter, start : Nat, length : 1..PageMax, total : Nat,
   shown : Int, rows : Nat, seen : Seq(Row), whole : BOOLEAN]

ReadSoFar ==
  /\ IsPrefix(reader.seen, logSelect(log, reader.filter))
  /\ reader.start <= reader.total
  /\ reader.total <= Len(logSelect(log, reader.filter))
  /\ Len(reader.seen) = IF reader.start + reader.length <= reader.total
                        THEN reader.start + reader.length ELSE reader.total
  /\ reader.shown = reader.rows

LogOK == now \in Nat /\ log \in Seq(Row)
ReaderOK ==
  reader = NoReader \/ (reader \in Reader /\ reader.shown <= reader.rows /\ (reader.whole => ReadSoFar))

-------------------------------------------------------------------------------
(* A set of numbers that has zero and the successor of each of its members  *)
(* has all numbers: there is no least one outside.                          *)
LEMMA AllNumbers ==
  ASSUME NEW S, 0 \in S, \A n \in Nat : n \in S => n + 1 \in S
  PROVE  Nat \subseteq S
<1>0. 0 \in S
  OBVIOUS
<1> SUFFICES ASSUME Nat \ S # {} PROVE FALSE
  OBVIOUS
<1>1. PICK x \in Nat \ S : \A y \in Nat \ S : ~(<<y, x>> \in OpToRel(<, Nat))
  BY WFMin, NatLessThanWellFounded
<1>2. x \in Nat /\ x # 0 /\ x - 1 \in Nat
  <2>1. x \in Nat /\ x \notin S
    BY <1>1
  <2>2. x # 0
    BY <1>0, <2>1
  <2> QED BY <2>1, <2>2
<1>3. x - 1 \in S
  <2>1. <<x - 1, x>> \in OpToRel(<, Nat)
    BY <1>2 DEF OpToRel
  <2> QED BY <1>1, <1>2, <2>1
<1>4. (x - 1) + 1 = x
  BY <1>2
<1> QED BY <1>1, <1>2, <1>3, <1>4

-------------------------------------------------------------------------------
(* The tables that logSelect makes from the first n rows of l.              *)
Picks(l, f, g, n) ==
  g = [i \in 0 .. n |->
         IF i = 0 THEN <<>>
         ELSE IF Wanted(l[i], f) THEN Append(g[i - 1], l[i]) ELSE g[i - 1]]

(* One row after the other can be looked at.                                *)
LEMMA PicksExist ==
  ASSUME NEW l, NEW f, NEW n \in Nat PROVE \E g : Picks(l, f, g, n)
<1> DEFINE S == {k \in Nat : \E g : Picks(l, f, g, k)}
<1>1. 0 \in S
  <2>1. Picks(l, f, [i \in 0 .. 0 |-> <<>>], 0)
    BY DEF Picks
  <2> QED BY <2>1
<1>2. ASSUME NEW k \in Nat, k \in S PROVE k + 1 \in S
  <2>1. PICK g : Picks(l, f, g, k)
    BY <1>2
  <2> DEFINE next == IF Wanted(l[k + 1], f) THEN Append(g[k], l[k + 1]) ELSE g[k]
             h == [i \in 0 .. k + 1 |-> IF i = k + 1 THEN next ELSE g[i]]
  <2>2. \A i \in 0 .. k : h[i] = g[i]
    OBVIOUS
  <2>3. ASSUME NEW i \in 0 .. k + 1
        PROVE  h[i] = IF i = 0 THEN <<>>
                      ELSE IF Wanted(l[i], f) THEN Append(h[i - 1], l[i]) ELSE h[i - 1]
    <3>1. CASE i = k + 1
      <4>1. h[i] = next /\ i # 0 /\ i - 1 = k /\ h[i - 1] = g[k]
        BY <3>1, <2>2
      <4> QED BY <4>1, <3>1
    <3>2. CASE i # k + 1
      <4>1. i \in 0 .. k /\ (i # 0 => i - 1 \in 0 .. k)
        BY <3>2
      <4>2. g[i] = IF i = 0 THEN <<>>
                   ELSE IF Wanted(l[i], f) THEN Append(g[i - 1], l[i]) ELSE g[i - 1]
        BY <2>1, <4>1 DEF Picks
      <4> HIDE DEF h
      <4> QED BY <2>2, <4>1, <4>2
    <3> QED BY <3>1, <3>2
  <2>4. Picks(l, f, h, k + 1)
    <3>1. h = [i \in 0 .. k + 1 |-> h[i]]
      OBVIOUS
    <3> HIDE DEF h
    <3> QED BY <2>3, <3>1 DEF Picks
  <2> QED BY <2>4
<1>3. Nat \subseteq S
  <2> HIDE DEF S
  <2> QED BY <1>1, <1>2, AllNumbers
<1> QED BY <1>3

SameRows(l, k, n) == \A i \in 1 .. n : l[i] = k[i]

(* Of the same rows the same are picked, however many follow.               *)
LEMMA PicksAgree ==
  ASSUME NEW l, NEW k, NEW f, NEW n \in Nat, NEW m \in Nat, n <= m,
         SameRows(l, k, n), NEW g, Picks(l, f, g, n), NEW h, Picks(k, f, h, m)
  PROVE  g[n] = h[n]
<1> DEFINE S == {i \in Nat : i <= n => g[i] = h[i]}
<1>1. 0 \in S
  BY DEF Picks
<1>2. ASSUME NEW i \in Nat, i \in S PROVE i + 1 \in S
  <2>1. CASE i + 1 <= n
    <3>1. /\ i + 1 \in 0 .. n /\ i + 1 \in 0 .. m /\ i + 1 # 0 /\ (i + 1) - 1 = i
          /\ i + 1 \in 1 .. n
      BY <2>1
    <3>2. g[i] = h[i]
      BY <1>2, <2>1
    <3>3. g[i + 1] = IF Wanted(l[i + 1], f) THEN Append(g[i], l[i + 1]) ELSE g[i]
      BY <3>1 DEF Picks
    <3>4. h[i + 1] = IF Wanted(k[i + 1], f) THEN Append(h[i], k[i + 1]) ELSE h[i]
      BY <3>1 DEF Picks
    <3> QED BY <3>1, <3>2, <3>3, <3>4 DEF SameRows
  <2>2. CASE ~(i + 1 <= n)
    BY <2>2
  <2> QED BY <2>1, <2>2
<1>3. Nat \subseteq S
  <2> HIDE DEF S
  <2> QED BY <1>1, <1>2, AllNumbers
<1> QED BY <1>3

(* Rows are picked.                                                         *)
LEMMA PicksRows ==
  ASSUME NEW R, NEW l, NEW f, NEW g, NEW n \in Nat, \A i \in 1 .. n : l[i] \in R,
         Picks(l, f, g, n)
  PROVE  g[n] \in Seq(R)
<1> DEFINE S == {i \in Nat : i <= n => g[i] \in Seq(R)}
<1>1. 0 \in S
  BY DEF Picks
<1>2. ASSUME NEW i \in Nat, i \in S PROVE i + 1 \in S
  <2>1. CASE i + 1 <= n
    <3>1. i + 1 \in 0 .. n /\ i + 1 # 0 /\ (i + 1) - 1 = i /\ i + 1 \in 1 .. n
      BY <2>1
    <3>2. g[i] \in Seq(R) /\ l[i + 1] \in R
      BY <1>2, <2>1, <3>1
    <3>3. g[i + 1] = IF Wanted(l[i + 1], f) THEN Append(g[i], l[i + 1]) ELSE g[i]
      BY <3>1 DEF Picks
    <3>4. Append(g[i], l[i + 1]) \in Seq(R)
      BY <3>2
    <3>5. g[i + 1] \in Seq(R)
      BY <3>2, <3>3, <3>4
    <3> QED BY <3>5
  <2>2. CASE ~(i + 1 <= n)
    BY <2>2
  <2> QED BY <2>1, <2>2
<1>3. Nat \subseteq S
  <2> HIDE DEF S
  <2> QED BY <1>1, <1>2, AllNumbers
<1> QED BY <1>3

(* logSelect is the last of these tables.                                   *)
LEMMA Selects ==
  ASSUME NEW l, NEW f, Len(l) \in Nat
  PROVE  \E g : Picks(l, f, g, Len(l)) /\ logSelect(l, f) = g[Len(l)]
<1> DEFINE t == CHOOSE g : Picks(l, f, g, Len(l))
<1>1. Picks(l, f, t, Len(l))
  BY PicksExist
<1>2. logSelect(l, f) = t[Len(l)]
  BY DEF logSelect, Picks
<1> HIDE DEF t
<1> QED BY <1>1, <1>2

(* What is selected are rows of the log.                                    *)
LEMMA SelectsRows ==
  ASSUME NEW R, NEW l \in Seq(R), NEW f PROVE logSelect(l, f) \in Seq(R)
<1>1. Len(l) \in Nat /\ \A i \in 1 .. Len(l) : l[i] \in R
  OBVIOUS
<1>2. PICK g : Picks(l, f, g, Len(l)) /\ logSelect(l, f) = g[Len(l)]
  BY <1>1, Selects
<1> QED BY <1>1, <1>2, PicksRows

(* A new row comes behind those that were selected already, if it is wanted. *)
LEMMA SelectsNewRow ==
  ASSUME NEW R, NEW l \in Seq(R), NEW r \in R, NEW f
  PROVE  logSelect(Append(l, r), f) = IF Wanted(r, f) THEN Append(logSelect(l, f), r)
                                      ELSE logSelect(l, f)
<1> DEFINE n == Len(l)
           k == Append(l, r)
<1>1. /\ n \in Nat /\ Len(k) = n + 1 /\ k[n + 1] = r
      /\ \A i \in 1 .. n : l[i] = k[i]
  OBVIOUS
<1>2. PICK g : Picks(l, f, g, n) /\ logSelect(l, f) = g[n]
  BY <1>1, Selects
<1> HIDE DEF n, k
<1>3. PICK h : Picks(k, f, h, n + 1) /\ logSelect(k, f) = h[n + 1]
  BY <1>1, Selects
<1>4. g[n] = h[n]
  <2>1. n + 1 \in Nat /\ n <= n + 1
    BY <1>1
  <2>2. SameRows(l, k, n)
    BY <1>1 DEF SameRows
  <2> DEFINE m == n + 1
  <2>3. n \in Nat /\ m \in Nat /\ n <= m /\ Picks(l, f, g, n) /\ Picks(k, f, h, m)
    BY <1>1, <1>2, <1>3, <2>1
  <2> HIDE DEF m
  <2> QED BY <2>2, <2>3, PicksAgree
<1>5. h[n + 1] = IF Wanted(k[n + 1], f) THEN Append(h[n], k[n + 1]) ELSE h[n]
  <2>1. n + 1 \in 0 .. n + 1 /\ n + 1 # 0 /\ (n + 1) - 1 = n
    BY <1>1
  <2> QED BY <1>3, <2>1 DEF Picks
<1> QED BY <1>1, <1>2, <1>3, <1>4, <1>5 DEF k

-------------------------------------------------------------------------------
(* Prefixes, place by place.                                                *)
LEMMA PrefixPlaces ==
  ASSUME NEW R, NEW s \in Seq(R), NEW t \in Seq(R)
  PROVE  IsPrefix(s, t) <=> Len(s) <= Len(t) /\ \A i \in 1 .. Len(s) : s[i] = t[i]
<1>1. Len(s) \in Nat /\ Len(t) \in Nat
  OBVIOUS
<1>2. ASSUME Len(s) <= Len(t)
      PROVE  SubSeq(s, 1, Len(s)) = SubSeq(t, 1, Len(s)) <=> \A i \in 1 .. Len(s) : s[i] = t[i]
  <2> DEFINE a == SubSeq(s, 1, Len(s))
             b == SubSeq(t, 1, Len(s))
  <2>1. /\ a \in Seq(R) /\ b \in Seq(R) /\ Len(a) = Len(s) /\ Len(b) = Len(s)
        /\ \A i \in 1 .. Len(s) : a[i] = s[i] /\ b[i] = t[i]
    BY <1>1, <1>2
  <2>2. DOMAIN a = 1 .. Len(s) /\ DOMAIN b = 1 .. Len(s)
    BY <2>1
  <2> HIDE DEF a, b
  <2>3. (\A i \in 1 .. Len(s) : a[i] = b[i]) => a = b
    BY <2>1
  <2>4. a = b <=> \A i \in 1 .. Len(s) : s[i] = t[i]
    BY <2>1, <2>3
  <2> QED BY <2>4 DEF a, b
<1> QED BY <1>2 DEF IsPrefix

(* A prefix of a prefix.                                                    *)
LEMMA PrefixOfPrefix ==
  ASSUME NEW R, NEW a \in Seq(R), NEW b \in Seq(R), NEW c \in Seq(R),
         IsPrefix(a, b), IsPrefix(b, c)
  PROVE  IsPrefix(a, c) /\ Len(a) <= Len(c)
<1>1. Len(a) \in Nat /\ Len(b) \in Nat /\ Len(c) \in Nat
  OBVIOUS
<1>2. Len(a) <= Len(b) /\ \A i \in 1 .. Len(a) : a[i] = b[i]
  BY PrefixPlaces
<1>3. Len(b) <= Len(c) /\ \A i \in 1 .. Len(b) : b[i] = c[i]
  BY PrefixPlaces
<1>4. Len(a) <= Len(c) /\ \A i \in 1 .. Len(a) : a[i] = c[i]
  BY <1>1, <1>2, <1>3
<1> QED BY <1>4, PrefixPlaces

(* A log grows if the rows selected from it before come first afterwards.   *)
Grown(l, m) ==
  m \in Seq(Row) /\ \A f : IsPrefix(logSelect(l, f), logSelect(m, f))

(* Nothing was written: no row is lost.                                     *)
LEMMA GrownItself == ASSUME NEW l \in Seq(Row) PROVE Grown(l, l)
<1>1. ASSUME NEW f PROVE IsPrefix(logSelect(l, f), logSelect(l, f))
  <2>1. logSelect(l, f) \in Seq(Row)
    BY SelectsRows
  <2>2. Len(logSelect(l, f)) <= Len(logSelect(l, f))
    BY <2>1
  <2> QED BY <2>1, <2>2, PrefixPlaces
<1> QED BY <1>1 DEF Grown

(* It grows by a row at its end ...                                         *)
LEMMA GrownByRow ==
  ASSUME NEW l \in Seq(Row), NEW m, Grown(l, m), NEW r \in Row
  PROVE  Grown(l, Append(m, r))
<1>1. m \in Seq(Row) /\ Append(m, r) \in Seq(Row)
  BY DEF Grown
<1>2. ASSUME NEW f PROVE IsPrefix(logSelect(l, f), logSelect(Append(m, r), f))
  <2> DEFINE a == logSelect(l, f)
             b == logSelect(m, f)
             c == logSelect(Append(m, r), f)
  <2>1. a \in Seq(Row) /\ b \in Seq(Row) /\ c \in Seq(Row)
    BY <1>1, SelectsRows
  <2>2. c = Append(b, r) \/ c = b
    BY <1>1, SelectsNewRow
  <2>3. IsPrefix(a, b)
    BY DEF Grown
  <2> HIDE DEF a, b, c
  <2>4. Len(b) \in Nat /\ Len(b) <= Len(c) /\ \A i \in 1 .. Len(b) : b[i] = c[i]
    BY <2>1, <2>2
  <2>5. IsPrefix(b, c)
    BY <2>1, <2>4, PrefixPlaces
  <2>6. IsPrefix(a, c)
    BY <2>1, <2>3, <2>5, PrefixOfPrefix
  <2> QED BY <2>6 DEF a, c
<1> QED BY <1>1, <1>2 DEF Grown

(* ... and so by what trace writes, or fails to write.                      *)
LEMMA TraceGrows ==
  ASSUME NEW l \in Seq(Row), NEW logs, \A m \in logs : Grown(l, m),
         NEW t \in Nat, NEW typ \in LogTypes, NEW sgnfcc \in Significances
  PROVE  \A m \in trace(logs, t, typ, sgnfcc) : Grown(l, m)
<1>1. [time |-> t, typ |-> typ, sgnfcc |-> sgnfcc] \in Row
  BY DEF Row
<1> QED BY <1>1, GrownByRow DEF trace, logWrite

-------------------------------------------------------------------------------
(* The least of two numbers ...                                             *)
LEMMA LeastOfTwo ==
  ASSUME NEW a \in Int, NEW b \in Int PROVE Min({a, b}) = IF a <= b THEN a ELSE b
<1> DEFINE x == IF a <= b THEN a ELSE b
<1>1. x \in {a, b} /\ \A y \in {a, b} : x <= y
  OBVIOUS
<1>2. ASSUME NEW z \in {a, b}, \A y \in {a, b} : z <= y PROVE z = x
  BY <1>2
<1> HIDE DEF x
<1>3. Min({a, b}) = x
  BY <1>1, <1>2 DEF Min
<1> QED BY <1>3 DEF x

(* ... of three.                                                            *)
LEMMA LeastOfThree ==
  ASSUME NEW a \in Int, NEW b \in Int, NEW c \in Int
  PROVE  /\ Min({a, b, c}) \in {a, b, c}
         /\ Min({a, b, c}) <= a /\ Min({a, b, c}) <= b /\ Min({a, b, c}) <= c
<1> DEFINE x == IF a <= b /\ a <= c THEN a ELSE IF b <= c THEN b ELSE c
<1>1. x \in {a, b, c} /\ \A y \in {a, b, c} : x <= y
  OBVIOUS
<1> HIDE DEF x
<1>2. Min({a, b, c}) \in {a, b, c} /\ \A y \in {a, b, c} : Min({a, b, c}) <= y
  BY <1>1 DEF Min
<1> QED BY <1>2

-------------------------------------------------------------------------------
(* The rows of a page: those of the table from start on, no more than asked *)
(* for.                                                                     *)
LEMMA PageRows ==
  ASSUME NEW T \in Seq(Row), NEW start \in Nat, NEW n \in Nat
  PROVE  LET rows == logRequest(T, start, n)
             end == IF Len(T) <= start + n THEN Len(T) ELSE start + n
         IN /\ rows \in Seq(Row)
            /\ start <= Len(T) => Len(rows) = end - start
            /\ \A i \in 1 .. end - start : rows[i] = T[start + i]
<1> DEFINE end == IF Len(T) <= start + n THEN Len(T) ELSE start + n
           rows == SubSeq(T, start + 1, end)
<1>1. Len(T) \in Nat /\ \A i \in 1 .. Len(T) : T[i] \in Row
  OBVIOUS
<1>2. logRequest(T, start, n) = rows
  <2>1. Min({Len(T), start + n}) = end
    BY <1>1, LeastOfTwo
  <2> QED BY <2>1 DEF logRequest
<1>3. end \in Nat /\ end <= Len(T) /\ (start <= Len(T) => start <= end)
  BY <1>1
<1> HIDE DEF end
<1>4. \A i \in start + 1 .. end : T[i] \in Row
  BY <1>1, <1>3
<1>5. /\ rows \in Seq(Row)
      /\ Len(rows) = IF start + 1 <= end THEN end - (start + 1) + 1 ELSE 0
      /\ \A i \in 1 .. end - (start + 1) + 1 : rows[i] = T[(start + 1) + i - 1]
  <2>1. start + 1 \in Int /\ end \in Int
    BY <1>3
  <2> QED BY <1>4, <2>1, SubSeqProperties
<1>6. start <= Len(T) => Len(rows) = end - start
  BY <1>3, <1>5
<1>7. ASSUME NEW i \in 1 .. end - start PROVE rows[i] = T[start + i]
  <2>1. i \in 1 .. end - (start + 1) + 1 /\ (start + 1) + i - 1 = start + i
    BY <1>3
  <2> QED BY <1>5, <2>1
<1> HIDE DEF rows
<1> QED BY <1>2, <1>5, <1>6, <1>7 DEF end

(* A reader that is told more, and what it then knows.                      *)
Told(r, total, shown, rows, seen) ==
  [r EXCEPT !.total = total, !.shown = shown, !.seen = seen, !.rows = rows]

Knows(n, r, total, shown, rows, seen) ==
  /\ n \in Reader
  /\ n.filter = r.filter /\ n.start = r.start
  /\ n.length = r.length /\ n.whole = r.whole
  /\ n.total = total /\ n.shown = shown /\ n.rows = rows
  /\ n.seen = seen

(* It remains a reader and knows what it was told.                          *)
LEMMA ReaderTold ==
  ASSUME NEW r \in Reader, NEW total \in Nat, NEW shown \in Int, NEW rows \in Nat,
         NEW seen \in Seq(Row)
  PROVE  Knows(Told(r, total, shown, rows, seen), r, total, shown, rows, seen)
<1> DEFINE n == Told(r, total, shown, rows, seen)
<1>1. n = [r EXCEPT !.total = total, !.shown = shown, !.seen = seen, !.rows = rows]
  BY DEF Told
<1> HIDE DEF n
<1>2. n \in Reader
  BY <1>1 DEF Reader
<1>3. /\ n.filter = r.filter /\ n.start = r.start
      /\ n.length = r.length /\ n.whole = r.whole
  BY <1>1 DEF Reader
<1>4. n.total = total /\ n.shown = shown /\ n.rows = rows /\ n.seen = seen
  BY <1>1 DEF Reader
<1>5. Knows(n, r, total, shown, rows, seen)
  BY <1>2, <1>3, <1>4 DEF Knows
<1> QED BY <1>5 DEF n

(* A look-up keeps the reader's types.  A reader that has seen the first    *)
(* rows of the table, up to where it asks from, then has seen as many more  *)
(* as it asked for, or all, and is told so.                                 *)
LEMMA LooksUp ==
  ASSUME NEW r \in Reader, NEW T \in Seq(Row)
  PROVE  LET n == LookUp(r, T)
         IN /\ n \in Reader
            /\ n.filter = r.filter /\ n.start = r.start
            /\ n.length = r.length /\ n.whole = r.whole
            /\ n.total = Len(T) /\ n.shown <= n.rows
            /\ r.start <= Len(T) /\ IsPrefix(r.seen, T) /\ Len(r.seen) = r.start =>
                 /\ IsPrefix(n.seen, T)
                 /\ Len(n.seen) = IF r.start + r.length <= Len(T)
                                  THEN r.start + r.length ELSE Len(T)
                 /\ n.shown = n.rows
<1> DEFINE start == r.start
           want == Min({PageMax, r.length})
           rows == logRequest(T, start, want)
           length == Min({r.length, Len(T) - start, PageMax})
           cut == Min({length, Len(rows)})
           more == SubSeq(rows, 1, cut)
           n == LookUp(r, T)
<1>1. /\ start \in Nat /\ r.length \in 1 .. PageMax /\ PageMax \in Nat /\ Len(T) \in Nat
      /\ r.seen \in Seq(Row) /\ r.length \in Nat
  BY LogAssumption DEF Reader
<1>2. want = r.length
  <2>1. want = IF PageMax <= r.length THEN PageMax ELSE r.length
    BY <1>1, LeastOfTwo
  <2> QED BY <1>1, <2>1
<1> DEFINE end == IF Len(T) <= start + r.length THEN Len(T) ELSE start + r.length
<1> HIDE DEF want
<1>3. /\ rows \in Seq(Row)
      /\ start <= Len(T) => Len(rows) = end - start
      /\ \A i \in 1 .. end - start : rows[i] = T[start + i]
  <2> DEFINE first == r.start
             asked == r.length
  <2>1. first \in Nat /\ asked \in Nat /\ rows = logRequest(T, first, asked)
    BY <1>1, <1>2
  <2> HIDE DEF first, asked, rows
  <2>2. LET last == IF Len(T) <= first + asked THEN Len(T) ELSE first + asked
        IN /\ rows \in Seq(Row)
           /\ first <= Len(T) => Len(rows) = last - first
           /\ \A i \in 1 .. last - first : rows[i] = T[first + i]
    BY <2>1, PageRows
  <2> QED BY <2>2 DEF first, asked
<1> HIDE DEF rows
<1>4. Len(rows) \in Nat /\ \A i \in 1 .. Len(rows) : rows[i] \in Row
  BY <1>3
<1>5. /\ length \in Int
      /\ length \in {r.length, Len(T) - start, PageMax}
      /\ length <= r.length /\ length <= Len(T) - start /\ length <= PageMax
  <2>1. r.length \in Int /\ Len(T) - start \in Int /\ PageMax \in Int
    BY <1>1
  <2>2. /\ length \in {r.length, Len(T) - start, PageMax}
        /\ length <= r.length /\ length <= Len(T) - start /\ length <= PageMax
    BY <2>1, LeastOfThree
  <2> QED BY <2>1, <2>2
<1> HIDE DEF length
<1>6. cut = IF length <= Len(rows) THEN length ELSE Len(rows)
  <2>1. Len(rows) \in Int
    BY <1>4
  <2> QED BY <1>5, <2>1, LeastOfTwo
<1> HIDE DEF cut
<1>7. cut \in Int /\ cut <= Len(rows)
  BY <1>4, <1>5, <1>6
<1>8. /\ more \in Seq(Row)
      /\ Len(more) = IF 1 <= cut THEN cut - 1 + 1 ELSE 0
      /\ \A i \in 1 .. cut - 1 + 1 : more[i] = rows[1 + i - 1]
  <2>1. 1 \in Int /\ \A i \in 1 .. cut : rows[i] \in Row
    BY <1>4, <1>7
  <2> QED BY <1>7, <2>1, SubSeqProperties
<1> HIDE DEF more
<1>9. n = Told(r, Len(T), length, Len(rows), r.seen \o more)
  BY DEF Told, LookUp, want, rows, length, cut, more
<1> HIDE DEF n
<1>10. /\ n \in Reader
       /\ n.filter = r.filter /\ n.start = r.start
       /\ n.length = r.length /\ n.whole = r.whole
       /\ n.total = Len(T) /\ n.shown = length /\ n.rows = Len(rows)
       /\ n.seen = r.seen \o more
  <2> DEFINE seen == r.seen \o more
  <2>1. seen \in Seq(Row)
    BY <1>1, <1>8
  <2>2. n = Told(r, Len(T), length, Len(rows), seen)
    BY <1>9
  <2> HIDE DEF seen
  <2>3. r \in Reader /\ Len(T) \in Nat /\ length \in Int /\ Len(rows) \in Nat
    BY <1>1, <1>4, <1>5
  <2>4. Knows(n, r, Len(T), length, Len(rows), seen)
    BY <2>1, <2>2, <2>3, ReaderTold, Zenon
  <2> QED BY <2>4 DEF Knows, seen
<1>a. length <= Len(rows)
  <2>1. CASE start <= Len(T)
    BY <1>1, <1>3, <1>5, <2>1
  <2>2. CASE ~(start <= Len(T))
    BY <1>1, <1>4, <1>5, <2>2
  <2> QED BY <2>1, <2>2
<1>11. ASSUME start <= Len(T), IsPrefix(r.seen, T), Len(r.seen) = start
       PROVE  /\ IsPrefix(n.seen, T)
              /\ Len(n.seen) = IF start + r.length <= Len(T) THEN start + r.length ELSE Len(T)
              /\ n.shown = n.rows
  <2>1. /\ end \in Nat /\ start <= end /\ end <= Len(T)
        /\ Len(rows) = end - start
    BY <1>1, <1>3, <1>11
  <2>2. length = end - start
    BY <1>1, <1>5, <1>11
  <2>3. cut = end - start
    BY <1>6, <2>1, <2>2
  <2>4. Len(more) = end - start /\ \A i \in 1 .. end - start : more[i] = T[start + i]
    <3>1. Len(more) = end - start
      BY <1>1, <1>8, <2>1, <2>3
    <3>2. ASSUME NEW i \in 1 .. end - start PROVE more[i] = T[start + i]
      <4>1. i \in 1 .. cut - 1 + 1 /\ 1 + i - 1 = i
        BY <1>1, <2>1, <2>3
      <4> QED BY <1>3, <1>8, <4>1
    <3> QED BY <3>1, <3>2
  <2>5. \A i \in 1 .. start : r.seen[i] = T[i]
    BY <1>1, <1>11, PrefixPlaces
  <2> DEFINE seen == r.seen \o more
  <2> HIDE DEF end
  <2>a. /\ r.seen \in Seq(Row) /\ more \in Seq(Row)
        /\ Len(r.seen) = start /\ start \in Nat /\ Len(more) = end - start
    BY <1>1, <1>8, <1>11, <2>4
  <2>6. seen \in Seq(Row) /\ Len(seen) = end
    <3>1. seen \in Seq(Row) /\ Len(seen) = Len(r.seen) + Len(more)
      BY <2>a
    <3> QED BY <2>1, <2>a, <3>1
  <2>7. ASSUME NEW i \in 1 .. end PROVE seen[i] = T[i]
    <3>1. CASE i <= start
      BY <1>1, <1>8, <1>11, <2>1, <2>5, <3>1
    <3>2. CASE ~(i <= start)
      <4>1. i - start \in 1 .. end - start /\ start + (i - start) = i
        BY <1>1, <2>1, <3>2
      <4>2. seen[i] = more[i - start]
        <5>1. i \in 1 .. Len(r.seen) + Len(more) /\ ~(i <= Len(r.seen))
          BY <2>1, <2>a, <3>2
        <5>2. seen[i] = more[i - Len(r.seen)]
          <6> DEFINE s == r.seen
          <6>1. s \in Seq(Row) /\ i \in 1 .. Len(s) + Len(more) /\ ~(i <= Len(s))
            BY <2>a, <5>1
          <6> HIDE DEF s
          <6>2. (s \o more)[i] = more[i - Len(s)]
            BY <2>a, <6>1
          <6> QED BY <6>2 DEF s
        <5> QED BY <2>a, <5>2
      <4> QED BY <2>4, <4>1, <4>2
    <3> QED BY <3>1, <3>2
  <2>8. IsPrefix(seen, T)
    BY <2>1, <2>6, <2>7, PrefixPlaces
  <2>9. end = IF start + r.length <= Len(T) THEN start + r.length ELSE Len(T)
    BY <1>1 DEF end
  <2> QED BY <1>10, <2>1, <2>2, <2>6, <2>8, <2>9
<1> QED BY <1>10, <1>a, <1>11 DEF n

-------------------------------------------------------------------------------
(* A look-up in a log that has grown, by a reader of that log that asks for *)
(* what follows what it has seen, or begins anew.                           *)
LEMMA AskKeeps ==
  ASSUME LogOK, NEW r \in Reader, Ask(r),
         r.whole => /\ IsPrefix(r.seen, logSelect(log, r.filter))
                    /\ Len(r.seen) = r.start
  PROVE  LogOK' /\ ReaderOK'
<1>1. log' \in Received /\ now' = now
      /\ reader' \in {LookUp(r, logSelect(log', r.filter)), LookUpFails(r)}
  BY DEF Ask
<1>2. Grown(log, log')
  <2>1. \A m \in {log} : Grown(log, m)
    BY GrownItself DEF LogOK
  <2> QED BY <1>1, <2>1, TraceGrows DEF Received, LogOK, LogTypes, Significances
<1>3. log' \in Seq(Row) /\ log \in Seq(Row)
  BY <1>2 DEF Grown, LogOK
<1>4. CASE reader' = LookUp(r, logSelect(log', r.filter))
  <2> DEFINE T == logSelect(log', r.filter)
             S == logSelect(log, r.filter)
  <2>1. T \in Seq(Row) /\ S \in Seq(Row) /\ IsPrefix(S, T)
    BY <1>2, <1>3, SelectsRows DEF Grown
  <2>2. reader' = LookUp(r, T)
    BY <1>4
  <2>3. r.start \in Nat /\ r.length \in Nat /\ r.seen \in Seq(Row)
    BY DEF Reader
  <2>4. r.whole => r.start <= Len(T) /\ IsPrefix(r.seen, T) /\ Len(r.seen) = r.start
    <3> SUFFICES ASSUME r.whole
                 PROVE  r.start <= Len(T) /\ IsPrefix(r.seen, T) /\ Len(r.seen) = r.start
      OBVIOUS
    <3>1. IsPrefix(r.seen, S) /\ Len(r.seen) = r.start
      OBVIOUS
    <3> HIDE DEF S, T
    <3>2. IsPrefix(r.seen, T) /\ Len(r.seen) <= Len(T)
      BY <2>1, <2>3, <3>1, PrefixOfPrefix
    <3> QED BY <3>1, <3>2
  <2>5. /\ reader' \in Reader /\ reader'.filter = r.filter /\ reader'.start = r.start
        /\ reader'.length = r.length /\ reader'.whole = r.whole /\ reader'.total = Len(T)
        /\ reader'.shown <= reader'.rows
        /\ r.whole => /\ IsPrefix(reader'.seen, T)
                      /\ Len(reader'.seen) = IF r.start + r.length <= Len(T)
                                             THEN r.start + r.length ELSE Len(T)
                      /\ reader'.shown = reader'.rows
    <3> HIDE DEF T
    <3> QED BY <2>1, <2>2, <2>4, LooksUp
  <2>6. T = logSelect(log, reader.filter)'
    BY <2>5
  <2>7. r.whole => ReadSoFar'
    <3>1. Len(T) <= Len(T)
      BY <2>1
    <3> HIDE DEF T
    <3> QED BY <2>4, <2>5, <2>6, <3>1 DEF ReadSoFar
  <2> QED BY <1>1, <1>3, <2>5, <2>7 DEF LogOK, ReaderOK
<1>5. CASE reader' = LookUpFails(r)
  <2>1. <<>> \in Seq(Row)
    OBVIOUS
  <2>2. LookUp(r, <<>>) \in Reader /\ LookUp(r, <<>>).shown <= LookUp(r, <<>>).rows
    BY <2>1, LooksUp
  <2>3. reader' \in Reader /\ ~reader'.whole /\ reader'.shown <= reader'.rows
    BY <1>5, <2>2 DEF LookUpFails, Reader
  <2> QED BY <1>1, <1>3, <2>3 DEF LogOK, ReaderOK
<1> QED BY <1>1, <1>4, <1>5

(* A log that has grown leaves the reader what it has seen.                 *)
LEMMA GrownKeeps ==
  ASSUME LogOK, ReaderOK, Grown(log, log'), now' \in Nat, reader' = reader
  PROVE  LogOK' /\ ReaderOK'
<1>1. log' \in Seq(Row) /\ log \in Seq(Row)
  BY DEF Grown, LogOK
<1>2. ASSUME reader \in Reader, ReadSoFar PROVE ReadSoFar'
  <2> DEFINE T == logSelect(log', reader.filter)
             S == logSelect(log, reader.filter)
  <2>1. T \in Seq(Row) /\ S \in Seq(Row) /\ IsPrefix(S, T) /\ reader.seen \in Seq(Row)
    BY <1>1, <1>2, SelectsRows DEF Grown, Reader
  <2>2. IsPrefix(reader.seen, S) /\ reader.total <= Len(S)
    BY <1>2 DEF ReadSoFar
  <2>3. IsPrefix(reader.seen, T) /\ Len(S) <= Len(T)
    <3> HIDE DEF S, T
    <3> QED BY <2>1, <2>2, PrefixOfPrefix, PrefixPlaces
  <2>4. reader.total \in Nat /\ Len(S) \in Nat /\ Len(T) \in Nat
    BY <1>2, <2>1 DEF Reader
  <2>5. reader.total <= Len(T)
    BY <2>2, <2>3, <2>4
  <2> QED BY <1>2, <2>3, <2>5 DEF ReadSoFar
<1> QED BY <1>1, <1>2 DEF LogOK, ReaderOK

(* The log grows by the message that is traced before a request is handled, *)
LEMMA ReceivedGrows == ASSUME LogOK PROVE \A m \in Received : Grown(log, m)
<1>1. \A m \in {log} : Grown(log, m)
  BY GrownItself DEF LogOK
<1> QED BY <1>1, TraceGrows DEF Received, LogOK, LogTypes, Significances

(* ... by a handler that traces once ...                                    *)
LEMMA HandledGrows ==
  ASSUME LogOK, NEW t \in Nat, NEW typ \in LogTypes, NEW sgnfcc \in Significances
  PROVE  \A m \in trace(Received, t, typ, sgnfcc) : Grown(log, m)
BY ReceivedGrows, TraceGrows DEF LogOK

(* ... and by one that traces what it did as well.                          *)
LEMMA TracedTwice ==
  ASSUME LogOK, NEW t \in Nat, NEW u \in Nat, NEW typ \in LogTypes,
         NEW sgnfcc \in Significances
  PROVE  \A m \in trace(trace(Received, t, "USER", "GENERAL"), u, typ, sgnfcc) :
           Grown(log, m)
<1>1. \A m \in trace(Received, t, "USER", "GENERAL") : Grown(log, m)
  BY HandledGrows DEF LogTypes, Significances
<1> QED BY <1>1, TraceGrows DEF LogOK

(* A reader is where it is because of what it has seen, whatever else       *)
(* happens.                                                                 *)
LEMMA ReaderStep == LogOK /\ ReaderOK /\ [Next]_vars => LogOK' /\ ReaderOK'
<1> SUFFICES ASSUME LogOK, ReaderOK, [Next]_vars PROVE LogOK' /\ ReaderOK'
  OBVIOUS
<1>1. now \in Nat /\ log \in Seq(Row)
  BY DEF LogOK
<1>2. CASE FirstPage
  <2>1. PICK f \in Filters, n \in Lengths :
          Ask([on |-> TRUE, filter |-> f, start |-> 0, length |-> n, total |-> 0,
               shown |-> 0, rows |-> 0, seen |-> <<>>, whole |-> TRUE])
    BY <1>2 DEF FirstPage
  <2> DEFINE r == [on |-> TRUE, filter |-> f, start |-> 0, length |-> n, total |-> 0,
                   shown |-> 0, rows |-> 0, seen |-> <<>>, whole |-> TRUE]
  <2>2. f \in Filter /\ n \in 1 .. PageMax
    BY LogAssumption
  <2>3. r \in Reader /\ r.seen = <<>> /\ r.start = 0
    BY <2>2 DEF Reader
  <2>4. IsPrefix(<<>>, logSelect(log, r.filter)) /\ Len(<<>>) = 0
    <3>1. logSelect(log, r.filter) \in Seq(Row) /\ <<>> \in Seq(Row) /\ Len(<<>>) = 0
      BY <1>1, SelectsRows
    <3>2. Len(<<>>) <= Len(logSelect(log, r.filter))
      BY <3>1
    <3>3. \A i \in 1 .. Len(<<>>) : <<>>[i] = logSelect(log, r.filter)[i]
      BY <3>1
    <3> QED BY <3>1, <3>2, <3>3, PrefixPlaces
  <2>5. Ask(r)
    BY <2>1
  <2> HIDE DEF r
  <2> QED BY <2>3, <2>4, <2>5, AskKeeps
<1>3. CASE NextPage
  <2> DEFINE r == [reader EXCEPT !.start = @ + reader.length]
  <2>1. reader.on /\ reader.start + reader.length < reader.total /\ Ask(r)
    BY <1>3 DEF NextPage
  <2>2. reader \in Reader /\ (reader.whole => ReadSoFar)
    BY <2>1 DEF ReaderOK, NoReader
  <2>3. reader.start \in Nat /\ reader.length \in Nat /\ reader.total \in Nat
    BY <2>2, LogAssumption DEF Reader
  <2>4. /\ r \in Reader /\ r.seen = reader.seen /\ r.start = reader.start + reader.length
        /\ r.filter = reader.filter /\ r.whole = reader.whole
    <3> DEFINE s == reader.start + reader.length
    <3>1. s \in Nat /\ r = [reader EXCEPT !.start = s]
      BY <2>3
    <3> HIDE DEF s, r
    <3>2. r \in Reader
      BY <2>2, <3>1 DEF Reader
    <3>3. r.seen = reader.seen /\ r.start = s /\ r.filter = reader.filter
          /\ r.whole = reader.whole
      BY <2>2, <3>1 DEF Reader
    <3> QED BY <3>2, <3>3 DEF s
  <2>5. reader.start + reader.length <= reader.total
    BY <2>1, <2>3
  <2> HIDE DEF r
  <2>6. r.whole => IsPrefix(r.seen, logSelect(log, r.filter)) /\ Len(r.seen) = r.start
    BY <2>2, <2>4, <2>5 DEF ReadSoFar
  <2> QED BY <2>1, <2>4, <2>6, AskKeeps
<1>4. CASE doLogExport
  <2>1. PICK l \in trace(Received, now, "USER", "GENERAL") :
          /\ log' \in IF up' THEN trace({l}, now, "USER", "GENERAL") ELSE {l}
          /\ UNCHANGED <<now, reader>>
    BY <1>4 DEF doLogExport
  <2>2. Grown(log, l)
    BY <1>1, HandledGrows DEF LogTypes, Significances
  <2>3. Grown(log, log')
    <3>1. \A m \in {l} : Grown(log, m)
      BY <2>2
    <3>2. \A m \in trace({l}, now, "USER", "GENERAL") : Grown(log, m)
      BY <1>1, <3>1, TraceGrows DEF LogTypes, Significances
    <3> QED BY <2>1, <2>2, <3>2
  <2> QED BY <1>1, <2>1, <2>3, GrownKeeps
<1>5. CASE doLogClearAll
  <2>1. /\ log' = <<>> /\ now' = now
        /\ reader' = IF reader.on THEN [reader EXCEPT !.whole = FALSE] ELSE reader
    BY <1>5 DEF doLogClearAll
  <2>2. <<>> \in Seq(Row)
    OBVIOUS
  <2>3. CASE reader = NoReader
    BY <1>1, <2>1, <2>2, <2>3 DEF LogOK, ReaderOK, NoReader
  <2>4. CASE reader \in Reader /\ reader.shown <= reader.rows
    <3>1. reader.on = TRUE
      BY <2>4 DEF Reader
    <3>2. reader' \in Reader /\ ~reader'.whole /\ reader'.shown <= reader'.rows
      BY <2>1, <2>4, <3>1 DEF Reader
    <3> QED BY <1>1, <2>1, <2>2, <3>2 DEF LogOK, ReaderOK
  <2> QED BY <2>3, <2>4 DEF ReaderOK
<1>6. CASE doSysTimeSet
  <2>1. PICK t \in SetTimes :
          /\ log' \in trace(trace(Received, now, "USER", "GENERAL"), t, "USER", "GENERAL")
          /\ now' = t /\ reader' = reader
    BY <1>6 DEF doSysTimeSet
  <2>2. t \in Nat
    BY LogAssumption
  <2>3. Grown(log, log')
    BY <1>1, <2>1, <2>2, TracedTwice DEF LogTypes, Significances
  <2> QED BY <2>1, <2>2, <2>3, GrownKeeps
<1>7. CASE doReported
  <2>1. Grown(log, log')
    BY <1>1, <1>7, TracedTwice DEF doReported, LogTypes, Significances
  <2> QED BY <1>1, <1>7, <2>1, GrownKeeps DEF doReported
<1>8. CASE doNotSupported
  <2>1. PICK typ \in LogTypes :
          log' \in trace(trace(Received, now, "USER", "GENERAL"), now, typ, "KEY")
    BY <1>8 DEF doNotSupported
  <2>2. Grown(log, log')
    BY <1>1, <2>1, TracedTwice DEF Significances
  <2> QED BY <1>1, <1>8, <2>2, GrownKeeps DEF doNotSupported
<1>9. CASE OtherRequest
  <2>1. PICK typ \in LogTypes, sgnfcc \in Significances :
          log' \in trace(Received, now, typ, sgnfcc)
    BY <1>9 DEF OtherRequest
  <2>2. Grown(log, log')
    BY <1>1, <2>1, HandledGrows
  <2> QED BY <1>1, <1>9, <2>2, GrownKeeps DEF OtherRequest
<1>10. CASE Restart
  <2>1. Grown(log, log')
    BY <1>10, ReceivedGrows DEF Restart
  <2> QED BY <1>1, <1>10, <2>1, GrownKeeps DEF Restart
<1>11. CASE Tick
  <2>1. Grown(log, log')
    BY <1>1, <1>11, GrownItself DEF Tick
  <2> QED BY <1>1, <1>11, <2>1, GrownKeeps DEF Tick
<1>12. CASE UNCHANGED vars
  <2>1. Grown(log, log')
    BY <1>1, <1>12, GrownItself DEF vars
  <2> QED BY <1>1, <1>12, <2>1, GrownKeeps DEF vars
<1>13. CASE logWriteAborts
  <2>1. log' \in trace(Received, now, "USER", "GENERAL") /\ reader' = reader
        /\ now' \in {now} \cup SetTimes
    BY <1>13 DEF logWriteAborts
  <2>2. now' \in Nat
    BY <1>1, <2>1, LogAssumption
  <2>3. Grown(log, log')
    BY <1>1, <2>1, HandledGrows DEF LogTypes, Significances
  <2> QED BY <2>1, <2>2, <2>3, GrownKeeps
<1> QED BY <1>2, <1>3, <1>4, <1>5, <1>6, <1>7, <1>8, <1>9, <1>10, <1>11, <1>12, <1>13 DEF Next

(* The log and its reader are so always.                                    *)
LEMMA ReaderHolds == Spec => [](LogOK /\ ReaderOK)
<1>1. Init => LogOK /\ ReaderOK
  BY LogAssumption DEF Init, LogOK, ReaderOK
<1> QED BY <1>1, ReaderStep, PTL DEF Spec

(* Whatever is logged, set as the time, or fails, while a reader goes from  *)
(* page to page, and wherever the daemon ends and starts again: it misses   *)
(* no row and sees none twice unless the log is cleared or cannot be opened *)
(* between two pages, and even then no page says that it has more rows than *)
(* it has.                                                                  *)
THEOREM PagesFit == Spec => []PagesAreSelection
<1>1. ReaderOK => PagesAreSelection
  <2>1. ASSUME ReaderOK, reader.on PROVE reader \in Reader /\ reader.shown <= reader.rows
    BY <2>1 DEF ReaderOK, NoReader
  <2>2. ASSUME ReaderOK, reader.on, reader.whole
        PROVE  /\ IsPrefix(reader.seen, logSelect(log, reader.filter))
               /\ reader.start + reader.length >= reader.total =>
                    Len(reader.seen) = reader.total
               /\ reader.shown = reader.rows
    <3>1. reader \in Reader /\ ReadSoFar
      BY <2>2 DEF ReaderOK, NoReader
    <3>2. reader.start \in Nat /\ reader.length \in Nat /\ reader.total \in Nat
      BY <3>1, LogAssumption DEF Reader
    <3> QED BY <3>1, <3>2 DEF ReadSoFar
  <2> QED BY <2>1, <2>2 DEF PagesAreSelection, PagesArePrefix, LastPageCompletes, LengthIsRows
<1> QED BY <1>1, ReaderHolds, PTL

-------------------------------------------------------------------------------
(* The texts of the numbers up to n.                                        *)
Writes(g, n) ==
  g = [i \in 0 .. n |-> IF i < 10 THEN <<i>> ELSE Append(g[i \div 10], i % 10)]

(* A number of more than one digit and its last digit.                      *)
LEMMA Division ==
  ASSUME NEW n \in Nat
  PROVE  /\ n \div 10 \in Nat /\ n % 10 \in 0 .. 9 /\ n = 10 * (n \div 10) + (n % 10)
         /\ n >= 10 => n \div 10 < n
OBVIOUS

(* Numbers can be written one after the other.                              *)
LEMMA WritesExist ==
  ASSUME NEW n \in Nat PROVE \E g : Writes(g, n)
<1> DEFINE S == {k \in Nat : \E g : Writes(g, k)}
<1>1. 0 \in S
  <2> DEFINE g == [i \in 0 .. 0 |-> <<i>>]
  <2>1. \A i \in 0 .. 0 : i < 10
    OBVIOUS
  <2>2. Writes(g, 0)
    BY <2>1 DEF Writes
  <2> QED BY <2>2
<1>2. ASSUME NEW k \in Nat, k \in S PROVE k + 1 \in S
  <2>1. PICK g : Writes(g, k)
    BY <1>2
  <2> DEFINE last == k + 1
             next == IF last < 10 THEN <<last>> ELSE Append(g[last \div 10], last % 10)
             h == [i \in 0 .. last |-> IF i = last THEN next ELSE g[i]]
  <2>2. last \in Nat /\ \A i \in 0 .. k : i # last /\ i \in 0 .. last
    OBVIOUS
  <2>3. \A i \in 0 .. k : h[i] = g[i]
    BY <2>2
  <2>4. ASSUME NEW i \in 0 .. last
        PROVE  h[i] = IF i < 10 THEN <<i>> ELSE Append(h[i \div 10], i % 10)
    <3>1. i \in Nat /\ (i >= 10 => i \div 10 \in 0 .. k)
      <4>1. i \in Nat /\ i <= k + 1
        OBVIOUS
      <4> QED BY <4>1, Division
    <3>2. CASE i = last
      <4>1. h[i] = next
        BY <3>2
      <4>2. i >= 10 => h[i \div 10] = g[i \div 10]
        BY <2>3, <3>1
      <4>3. i < 10 \/ i >= 10
        BY <3>1
      <4> HIDE DEF h
      <4> QED BY <3>2, <4>1, <4>2, <4>3
    <3>3. CASE i # last
      <4>1. i \in 0 .. k
        BY <3>3
      <4>2. g[i] = IF i < 10 THEN <<i>> ELSE Append(g[i \div 10], i % 10)
        BY <2>1, <4>1 DEF Writes
      <4>3. i < 10 \/ i >= 10
        BY <3>1
      <4> HIDE DEF h
      <4> QED BY <2>3, <3>1, <4>1, <4>2, <4>3
    <3> QED BY <3>2, <3>3
  <2>5. Writes(h, last)
    <3>1. h = [i \in 0 .. last |-> h[i]]
      OBVIOUS
    <3> HIDE DEF h
    <3> QED BY <2>4, <3>1 DEF Writes
  <2> QED BY <2>5
<1>3. Nat \subseteq S
  <2> HIDE DEF S
  <2> QED BY <1>1, <1>2, AllNumbers
<1> QED BY <1>3

(* A number has one text, however many numbers are written.                 *)
LEMMA WritesAgree ==
  ASSUME NEW n \in Nat, NEW m \in Nat, NEW g, Writes(g, n), NEW h, Writes(h, m),
         NEW k \in Nat, k <= n, k <= m
  PROVE  g[k] = h[k]
<1> DEFINE S == {i \in Nat : \A j \in 0 .. i : j <= n /\ j <= m => g[j] = h[j]}
<1>a. ASSUME NEW j \in Nat, j <= n, j <= m,
             j >= 10 => g[j \div 10] = h[j \div 10]
      PROVE  g[j] = h[j]
  <2>1. j \in 0 .. n /\ j \in 0 .. m
    BY <1>a
  <2>2. g[j] = IF j < 10 THEN <<j>> ELSE Append(g[j \div 10], j % 10)
    BY <2>1 DEF Writes
  <2>3. h[j] = IF j < 10 THEN <<j>> ELSE Append(h[j \div 10], j % 10)
    BY <2>1 DEF Writes
  <2>4. j < 10 \/ j >= 10
    OBVIOUS
  <2> QED BY <1>a, <2>2, <2>3, <2>4
<1>1. 0 \in S
  <2>1. \A j \in 0 .. 0 : j \in Nat /\ ~(j >= 10)
    OBVIOUS
  <2>2. \A j \in 0 .. 0 : j <= n /\ j <= m => g[j] = h[j]
    BY <1>a, <2>1
  <2> QED BY <2>2
<1>2. ASSUME NEW i \in Nat, i \in S PROVE i + 1 \in S
  <2>1. ASSUME NEW j \in 0 .. i + 1, j <= n, j <= m PROVE g[j] = h[j]
    <3>1. j \in Nat /\ j <= i + 1
      OBVIOUS
    <3>2. j >= 10 => j \div 10 \in 0 .. i /\ j \div 10 <= n /\ j \div 10 <= m
      <4>1. j >= 10 => j \div 10 \in Nat /\ j \div 10 < j
        BY <3>1, Division
      <4> QED BY <2>1, <3>1, <4>1
    <3>3. j >= 10 => g[j \div 10] = h[j \div 10]
      BY <1>2, <3>2
    <3> QED BY <1>a, <2>1, <3>1, <3>3
  <2> QED BY <2>1
<1>3. Nat \subseteq S
  <2> HIDE DEF S
  <2> QED BY <1>1, <1>2, AllNumbers
<1>4. k \in S /\ k \in 0 .. k
  BY <1>3
<1> QED BY <1>4

(* So Digits is defined as it says.                                         *)
LEMMA DigitsOf ==
  ASSUME NEW n \in Nat
  PROVE  Digits[n] = IF n < 10 THEN <<n>> ELSE Append(Digits[n \div 10], n % 10)
<1> DEFINE Table(k) == CHOOSE g : Writes(g, k)
           D == [k \in Nat |-> Table(k)[k]]
<1>1. ASSUME NEW k \in Nat PROVE Writes(Table(k), k)
  BY WritesExist
<1> HIDE DEF Table
<1>2. ASSUME NEW k \in Nat
      PROVE  D[k] = IF k < 10 THEN <<k>> ELSE Append(D[k \div 10], k % 10)
  <2>1. D[k] = Table(k)[k]
    OBVIOUS
  <2>2. k \in 0 .. k
    OBVIOUS
  <2>3. Table(k)[k] = IF k < 10 THEN <<k>> ELSE Append(Table(k)[k \div 10], k % 10)
    BY <1>1, <2>2 DEF Writes
  <2>4. CASE k < 10
    BY <2>1, <2>3, <2>4
  <2>5. CASE k >= 10
    <3> DEFINE j == k \div 10
    <3>1. j \in Nat /\ j <= k
      BY <2>5, Division
    <3> HIDE DEF j
    <3>2. Table(k)[j] = Table(j)[j]
      <4>1. Writes(Table(k), k) /\ Writes(Table(j), j) /\ j <= j
        BY <1>1, <3>1
      <4> QED BY <3>1, <4>1, WritesAgree
    <3>3. D[j] = Table(j)[j]
      BY <3>1
    <3> QED BY <2>1, <2>3, <2>5, <3>2, <3>3 DEF j
  <2> QED BY <2>4, <2>5
<1>3. D = [k \in Nat |-> IF k < 10 THEN <<k>> ELSE Append(D[k \div 10], k % 10)]
  <2>1. D = [k \in Nat |-> D[k]]
    OBVIOUS
  <2> HIDE DEF D
  <2> QED BY <1>2, <2>1
<1> HIDE DEF D
<1>4. Digits = [k \in Nat |-> IF k < 10 THEN <<k>> ELSE Append(Digits[k \div 10], k % 10)]
  BY <1>3 DEF Digits
<1> QED BY <1>4

-------------------------------------------------------------------------------
(* Texts are made of digits, and only numbers below ten have one.           *)
LEMMA DigitsType ==
  ASSUME NEW n \in Nat
  PROVE  /\ Digits[n] \in Seq(0 .. 9) /\ Len(Digits[n]) \in Nat \ {0}
         /\ n < 10 <=> Len(Digits[n]) = 1
<1> DEFINE Good(k) == Digits[k] \in Seq(0 .. 9) /\ Len(Digits[k]) \in Nat \ {0}
           S == {i \in Nat : \A j \in 0 .. i : Good(j)}
<1>a. ASSUME NEW j \in Nat, j >= 10 => Good(j \div 10)
      PROVE  Good(j) /\ (j < 10 <=> Len(Digits[j]) = 1)
  <2>1. Digits[j] = IF j < 10 THEN <<j>> ELSE Append(Digits[j \div 10], j % 10)
    BY DigitsOf
  <2>2. CASE j < 10
    <3>1. Digits[j] = <<j>> /\ j \in 0 .. 9
      BY <2>1, <2>2
    <3> QED BY <2>2, <3>1
  <2>3. CASE j >= 10
    <3> DEFINE d == Digits[j \div 10]
               r == j % 10
    <3>1. Digits[j] = Append(d, r) /\ r \in 0 .. 9
      BY <2>1, <2>3, Division
    <3>2. d \in Seq(0 .. 9) /\ Len(d) \in Nat \ {0}
      BY <1>a, <2>3
    <3> HIDE DEF d, r
    <3>3. Append(d, r) \in Seq(0 .. 9) /\ Len(Append(d, r)) = Len(d) + 1
      BY <3>1, <3>2
    <3> QED BY <2>3, <3>1, <3>2, <3>3
  <2> QED BY <2>2, <2>3
<1>1. 0 \in S
  <2>1. \A j \in 0 .. 0 : j \in Nat /\ ~(j >= 10)
    OBVIOUS
  <2> HIDE DEF Good
  <2>2. \A j \in 0 .. 0 : Good(j)
    BY <1>a, <2>1
  <2> QED BY <2>2
<1>2. ASSUME NEW i \in Nat, i \in S PROVE i + 1 \in S
  <2>1. ASSUME NEW j \in 0 .. i + 1 PROVE Good(j)
    <3>1. j \in Nat /\ j <= i + 1
      OBVIOUS
    <3>2. j >= 10 => j \div 10 \in 0 .. i
      BY <3>1, Division
    <3> HIDE DEF Good
    <3>3. j >= 10 => Good(j \div 10)
      BY <1>2, <3>2
    <3> QED BY <1>a, <3>1, <3>3
  <2> HIDE DEF Good
  <2> QED BY <2>1
<1>3. Nat \subseteq S
  <2> HIDE DEF S
  <2> QED BY <1>1, <1>2, AllNumbers
<1>4. \A i \in Nat : Good(i)
  <2>1. ASSUME NEW i \in Nat PROVE Good(i)
    <3>1. i \in S /\ i \in 0 .. i
      BY <1>3
    <3> HIDE DEF Good
    <3> QED BY <3>1
  <2> HIDE DEF Good
  <2> QED BY <2>1
<1>5. n >= 10 => Good(n \div 10)
  <2> HIDE DEF Good
  <2> QED BY <1>4, Division
<1> QED BY <1>a, <1>5

(* Of two texts of one length one comes first if it is less at the first    *)
(* place where they differ.                                                 *)
TextLess(a, b) ==
  \E i \in 1 .. Len(a) : a[i] < b[i] /\ \A j \in 1 .. i - 1 : a[j] = b[j]

(* This is the order of TextLeq.                                            *)
LEMMA TextOrder ==
  ASSUME NEW a \in Seq(0 .. 9), NEW b \in Seq(0 .. 9), Len(a) = Len(b)
  PROVE  TextLeq(a, b) <=> a = b \/ TextLess(a, b)
<1>1. Len(a) \in Nat /\ Len(b) \in Nat /\ DOMAIN a = 1 .. Len(a) /\ DOMAIN b = 1 .. Len(a)
  OBVIOUS
<1>2. Min({Len(a), Len(b)}) = Len(a)
  BY <1>1, LeastOfTwo
<1>3. IsPrefix(a, b) <=> a = b
  <2>1. IsPrefix(a, b) <=> \A i \in 1 .. Len(a) : a[i] = b[i]
    BY <1>1, PrefixPlaces
  <2>2. (\A i \in 1 .. Len(a) : a[i] = b[i]) <=> a = b
    BY <1>1
  <2> QED BY <2>1, <2>2
<1>4. ASSUME NEW i \in 1 .. Len(a)
      PROVE  SubSeq(a, 1, i - 1) = SubSeq(b, 1, i - 1) <=> \A j \in 1 .. i - 1 : a[j] = b[j]
  <2> DEFINE k == i - 1
             s == SubSeq(a, 1, k)
             u == SubSeq(b, 1, k)
  <2>1. k \in Nat /\ k <= Len(a) /\ k <= Len(b)
    BY <1>1
  <2> HIDE DEF k
  <2>2. /\ s \in Seq(0 .. 9) /\ u \in Seq(0 .. 9) /\ Len(s) = k /\ Len(u) = k
        /\ \A j \in 1 .. k : s[j] = a[j] /\ u[j] = b[j]
    BY <1>1, <2>1
  <2> HIDE DEF s, u
  <2>3. s = u <=> \A j \in 1 .. k : s[j] = u[j]
    BY <2>1, <2>2
  <2>4. s = u <=> \A j \in 1 .. k : a[j] = b[j]
    BY <2>2, <2>3
  <2> QED BY <2>4 DEF s, u, k
<1> QED BY <1>2, <1>3, <1>4 DEF TextLeq, TextLess

(* No two texts come before each other.                                     *)
LEMMA TextLessStrict ==
  ASSUME NEW a \in Seq(0 .. 9), NEW b \in Seq(0 .. 9), Len(a) = Len(b), TextLess(a, b)
  PROVE  a # b /\ ~TextLess(b, a)
<1>1. Len(a) \in Nat /\ \A i \in 1 .. Len(a) : a[i] \in Nat /\ b[i] \in Nat
  OBVIOUS
<1>2. PICK i \in 1 .. Len(a) : a[i] < b[i] /\ \A j \in 1 .. i - 1 : a[j] = b[j]
  BY DEF TextLess
<1>3. a # b
  BY <1>1, <1>2
<1>4. ASSUME TextLess(b, a) PROVE FALSE
  <2>1. PICK k \in 1 .. Len(a) : b[k] < a[k] /\ \A j \in 1 .. k - 1 : b[j] = a[j]
    BY <1>4 DEF TextLess
  <2>2. i \in Nat /\ k \in Nat /\ 1 <= i /\ 1 <= k
    BY <1>1
  <2>3. a[i] \in Nat /\ b[i] \in Nat /\ a[k] \in Nat /\ b[k] \in Nat
    BY <1>1
  <2>4. CASE i = k
    BY <1>2, <2>1, <2>3, <2>4
  <2>5. CASE i < k
    <3>1. i \in 1 .. k - 1
      BY <2>2, <2>5
    <3> QED BY <1>2, <2>1, <2>3, <3>1
  <2>6. CASE k < i
    <3>1. k \in 1 .. i - 1
      BY <2>2, <2>6
    <3> QED BY <1>2, <2>1, <2>3, <3>1
  <2> QED BY <2>2, <2>4, <2>5, <2>6
<1> QED BY <1>3, <1>4

(* A digit more at the end of each.                                         *)
LEMMA TextLessAppend ==
  ASSUME NEW a \in Seq(0 .. 9), NEW b \in Seq(0 .. 9), Len(a) = Len(b),
         NEW x \in 0 .. 9, NEW y \in 0 .. 9, TextLess(a, b) \/ (a = b /\ x < y)
  PROVE  TextLess(Append(a, x), Append(b, y))
<1> DEFINE n == Len(a)
           c == Append(a, x)
           d == Append(b, y)
<1>1. /\ n \in Nat /\ Len(c) = n + 1 /\ c[n + 1] = x /\ d[n + 1] = y
      /\ \A i \in 1 .. n : c[i] = a[i] /\ d[i] = b[i]
  OBVIOUS
<1> HIDE DEF c, d
<1>2. CASE TextLess(a, b)
  <2>1. PICK i \in 1 .. n : a[i] < b[i] /\ \A j \in 1 .. i - 1 : a[j] = b[j]
    BY <1>2 DEF TextLess
  <2> HIDE DEF n
  <2>2. i \in 1 .. n + 1 /\ c[i] < d[i]
    BY <1>1, <2>1
  <2>3. \A j \in 1 .. i - 1 : c[j] = d[j]
    <3>1. \A j \in 1 .. i - 1 : j \in 1 .. n
      BY <1>1
    <3> QED BY <1>1, <2>1, <3>1
  <2>4. TextLess(c, d)
    BY <1>1, <2>2, <2>3 DEF TextLess
  <2> QED BY <2>4 DEF c, d
<1>3. CASE a = b /\ x < y
  <2> HIDE DEF n
  <2>1. n + 1 \in 1 .. n + 1 /\ (n + 1) - 1 = n /\ c[n + 1] < d[n + 1]
    BY <1>1, <1>3
  <2>2. \A j \in 1 .. n : c[j] = d[j]
    BY <1>1, <1>3
  <2>3. TextLess(c, d)
    BY <1>1, <2>1, <2>2 DEF TextLess
  <2> QED BY <2>3 DEF c, d
<1> QED BY <1>2, <1>3

(* Of numbers with as many digits the lesser comes first as text.           *)
LEMMA DigitsInOrder ==
  ASSUME NEW a \in Nat, NEW b \in Nat, a < b, Len(Digits[a]) = Len(Digits[b])
  PROVE  TextLess(Digits[a], Digits[b])
<1> DEFINE Before(x, y) == Len(Digits[x]) = Len(Digits[y]) => TextLess(Digits[x], Digits[y])
           S == {n \in Nat : \A y \in 0 .. n : \A x \in 0 .. y - 1 : Before(x, y)}
<1>a. ASSUME NEW y \in Nat, NEW x \in 0 .. y - 1,
             \A v \in 0 .. y - 1 : \A u \in 0 .. v - 1 : Before(u, v)
      PROVE  Before(x, y)
  <2> SUFFICES ASSUME Len(Digits[x]) = Len(Digits[y])
               PROVE  TextLess(Digits[x], Digits[y])
    OBVIOUS
  <2>1. x \in Nat /\ x < y
    OBVIOUS
  <2>2. x < 10 <=> y < 10
    BY <2>1, DigitsType
  <2>3. CASE y < 10
    <3>1. Digits[x] = <<x>> /\ Digits[y] = <<y>>
      BY <2>1, <2>2, <2>3, DigitsOf
    <3> DEFINE c == Digits[x]
               d == Digits[y]
    <3>2. Len(c) = 1 /\ c[1] < d[1]
      BY <2>1, <3>1
    <3> HIDE DEF c, d
    <3>3. 1 \in 1 .. Len(c) /\ \A j \in 1 .. 1 - 1 : c[j] = d[j]
      BY <3>2
    <3>4. TextLess(c, d)
      BY <3>2, <3>3 DEF TextLess
    <3> QED BY <3>4 DEF c, d
  <2>4. CASE ~(y < 10)
    <3> DEFINE u == x \div 10
               v == y \div 10
               p == x % 10
               q == y % 10
    <3>1. /\ u \in Nat /\ v \in Nat /\ p \in 0 .. 9 /\ q \in 0 .. 9
          /\ x = 10 * u + p /\ y = 10 * v + q /\ v < y
      BY <2>1, <2>4, Division
    <3>2. Digits[x] = Append(Digits[u], p) /\ Digits[y] = Append(Digits[v], q)
      BY <2>1, <2>2, <2>4, DigitsOf
    <3> HIDE DEF u, v, p, q
    <3>3. /\ Digits[u] \in Seq(0 .. 9) /\ Digits[v] \in Seq(0 .. 9)
      BY <3>1, DigitsType
    <3>4. Len(Digits[u]) = Len(Digits[v])
      <4>1. /\ Len(Append(Digits[u], p)) = Len(Digits[u]) + 1
            /\ Len(Append(Digits[v], q)) = Len(Digits[v]) + 1
            /\ Len(Digits[u]) \in Nat /\ Len(Digits[v]) \in Nat
        BY <3>1, <3>3
      <4> QED BY <3>2, <4>1
    <3>5. (u = v /\ p < q) \/ u < v
      BY <2>1, <3>1
    <3>6. u < v => TextLess(Digits[u], Digits[v])
      <4>1. u < v => v \in 0 .. y - 1 /\ u \in 0 .. v - 1
        BY <3>1
      <4> QED BY <1>a, <3>4, <4>1
    <3> QED BY <3>1, <3>2, <3>3, <3>4, <3>5, <3>6, TextLessAppend
  <2> QED BY <2>3, <2>4
<1> HIDE DEF Before
<1>1. 0 \in S
  <2>1. \A y \in 0 .. 0 : \A x \in 0 .. y - 1 : FALSE
    OBVIOUS
  <2> QED BY <2>1
<1>2. ASSUME NEW n \in Nat, n \in S PROVE n + 1 \in S
  <2>1. ASSUME NEW y \in 0 .. n + 1, NEW x \in 0 .. y - 1 PROVE Before(x, y)
    <3>1. y \in Nat /\ \A v \in 0 .. y - 1 : v \in 0 .. n
      OBVIOUS
    <3>2. \A v \in 0 .. y - 1 : \A u \in 0 .. v - 1 : Before(u, v)
      BY <1>2, <3>1
    <3> QED BY <1>a, <3>1, <3>2
  <2> QED BY <2>1
<1>3. Nat \subseteq S
  <2> HIDE DEF S
  <2> QED BY <1>1, <1>2, AllNumbers
<1>4. Before(a, b)
  <2>1. b \in S /\ b \in 0 .. b /\ a \in 0 .. b - 1
    BY <1>3
  <2> QED BY <2>1
<1> QED BY <1>4 DEF Before

(* So of such numbers the texts are in order exactly if the numbers are.    *)
LEMMA TextIsOrder ==
  ASSUME NEW a \in Nat, NEW b \in Nat, Len(Digits[a]) = Len(Digits[b])
  PROVE  TextLeq(Digits[a], Digits[b]) <=> a <= b
<1>1. /\ Digits[a] \in Seq(0 .. 9) /\ Digits[b] \in Seq(0 .. 9)
  BY DigitsType
<1>2. CASE a = b
  BY <1>1, <1>2, TextOrder
<1>3. CASE a < b
  BY <1>1, <1>3, DigitsInOrder, TextOrder
<1>4. CASE b < a
  <2>1. TextLess(Digits[b], Digits[a])
    BY <1>4, DigitsInOrder
  <2>2. Digits[b] # Digits[a] /\ ~TextLess(Digits[a], Digits[b])
    BY <1>1, <2>1, TextLessStrict
  <2> QED BY <1>1, <1>4, <2>2, TextOrder
<1> QED BY <1>2, <1>3, <1>4

(* Whatever is in the log, a window selects the rows whose time is in it,   *)
(* if all these times have as many digits.                                  *)
THEOREM WindowIsTime == Spec => []SelectsByTime
<1>1. LogOK => SelectsByTime
  <2> SUFFICES ASSUME LogOK, NEW i \in DOMAIN log, NEW f \in Filters,
                      Cardinality({Len(Digits[t]) : t \in {log[i].time, f.s, f.e}}) = 1
               PROVE  OccurTimeBetween(log[i].time, f.s, f.e) <=> log[i].time \in f.s .. f.e
    BY DEF SelectsByTime
  <2>1. log[i].time \in Nat /\ f.s \in Nat /\ f.e \in Nat
    <3>1. log[i] \in Row
      BY DEF LogOK
    <3> QED BY <3>1, LogAssumption DEF Row, Filter
  <2> DEFINE t == log[i].time
             W == {Len(Digits[u]) : u \in {t, f.s, f.e}}
  <2>2. W = ({Len(Digits[t])} \cup {Len(Digits[f.s])}) \cup {Len(Digits[f.e])}
    OBVIOUS
  <2>3. IsFiniteSet(W)
    <3> HIDE DEF W
    <3>1. IsFiniteSet({Len(Digits[t])})
      BY FS_Singleton
    <3>2. IsFiniteSet({Len(Digits[t])} \cup {Len(Digits[f.s])})
      BY <3>1, FS_AddElement
    <3> QED BY <2>2, <3>2, FS_AddElement
  <2>4. PICK n : W = {n}
    BY <2>3, FS_Singleton
  <2>5. Len(Digits[t]) = n /\ Len(Digits[f.s]) = n /\ Len(Digits[f.e]) = n
    BY <2>2, <2>4
  <2>6. /\ TextLeq(Digits[f.s], Digits[t]) <=> f.s <= t
        /\ TextLeq(Digits[t], Digits[f.e]) <=> t <= f.e
    BY <2>1, <2>5, TextIsOrder
  <2> QED BY <2>1, <2>6 DEF OccurTimeBetween
<1> QED BY <1>1, ReaderHolds, PTL
===============================================================================
