-------------------------- MODULE CgicMultipartProofs --------------------------
(***************************************************************************)
(* Proofs about CgicMultipart, for every body, every boundary that fits and *)
(* every declared length: the parser's offset is its place in the body, the *)
(* put back buffer is never overrun and keeps the bytes in their order, and *)
(* the boundaries that are found are those that were sent.                  *)
(***************************************************************************)
EXTENDS CgicMultipart, SequenceTheorems, TLAPS

(* The stream: its types, and the place it is at.                           *)
StreamOK ==
  /\ input \in Seq(Bytes) /\ boundary \in Seq(Bytes)
  /\ Len(boundary) + 4 <= PutbackSize
  /\ contentLength \in Nat
  /\ putback \in Seq(Bytes)
  /\ inpos \in Nat /\ offset \in Int
  /\ OffsetIsPlace

(* How full the buffer is, by where the parser is.  While it looks for a    *)
(* boundary, what is put back and what is matched are shorter than the      *)
(* boundary together; nothing is put back when it has found one; and the    *)
(* loop over the parts puts back two bytes at most.                         *)
BufferOK ==
  /\ first \in BOOLEAN
  /\ boffset \in Nat
  /\ pc \in {"scan", "trail", "part", "line", "cr", "blanks", "end"}
  /\ pc = "scan" => Len(putback) + boffset < Len(workingBoundary)
  /\ pc = "trail" => Len(putback) = 0
  /\ pc \in {"part", "line", "cr", "blanks"} => Len(putback) <= 2
  /\ pc = "end" => Len(putback) < PutbackSize

-------------------------------------------------------------------------------
(* The least of two numbers.                                                *)
LEMMA MinOfTwo ==
  ASSUME NEW a \in Int, NEW b \in Int
  PROVE  Min({a, b}) = IF a <= b THEN a ELSE b
<1>1. PICK x \in {a, b} : \A y \in {a, b} : x <= y
  BY a <= b \/ b <= a
<1>2. Min({a, b}) \in {a, b} /\ \A y \in {a, b} : Min({a, b}) <= y
  BY <1>1 DEF Min
<1> QED BY <1>2

(* The least of three.                                                      *)
LEMMA MinOfThree ==
  ASSUME NEW a \in Int, NEW b \in Int, NEW c \in Int
  PROVE  /\ Min({a, b, c}) \in {a, b, c}
         /\ Min({a, b, c}) <= a /\ Min({a, b, c}) <= b /\ Min({a, b, c}) <= c
<1>1. \E x \in {a, b, c} : \A y \in {a, b, c} : x <= y
  OBVIOUS
<1>2. Min({a, b, c}) \in {a, b, c} /\ \A y \in {a, b, c} : Min({a, b, c}) <= y
  BY <1>1 DEF Min
<1> QED BY <1>2

(* The rest of a sequence from place k + 1 on.                              *)
LEMMA Rest ==
  ASSUME NEW S, NEW s \in Seq(S), NEW k \in Nat, k <= Len(s)
  PROVE  /\ SubSeq(s, k + 1, Len(s)) \in Seq(S)
         /\ Len(SubSeq(s, k + 1, Len(s))) = Len(s) - k
<1>1. Len(s) \in Nat /\ k + 1 \in Int /\ \A i \in k + 1 .. Len(s) : s[i] \in S
  OBVIOUS
<1>2. /\ SubSeq(s, k + 1, Len(s)) \in Seq(S)
      /\ Len(SubSeq(s, k + 1, Len(s))) =
           IF k + 1 <= Len(s) THEN Len(s) - (k + 1) + 1 ELSE 0
  BY <1>1, SubSeqProperties
<1>3. (IF k + 1 <= Len(s) THEN Len(s) - (k + 1) + 1 ELSE 0) = Len(s) - k
  BY <1>1
<1> QED BY <1>2, <1>3

(* The first k members of a sequence.                                       *)
LEMMA FirstOf ==
  ASSUME NEW S, NEW s \in Seq(S), NEW k \in Nat, k <= Len(s)
  PROVE  SubSeq(s, 1, k) \in Seq(S) /\ Len(SubSeq(s, 1, k)) = k
OBVIOUS

-------------------------------------------------------------------------------
(* mpRead gets no more bytes than were asked for, than the declared length  *)
(* allows, and than there are.                                              *)
LEMMA Read ==
  ASSUME StreamOK, NEW n \in Nat
  PROVE  /\ Got(n) \in Nat /\ Got(n) <= n
         /\ Got(n) <= contentLength - offset
         /\ mpRead(n) \in Seq(Bytes) /\ Len(mpRead(n)) = Got(n)
<1> DEFINE left == SubSeq(input, inpos + 1, Len(input))
<1>1. left \in Seq(Bytes)
  BY DEF StreamOK
<1>2. Pending \in Seq(Bytes) /\ Len(Pending) \in Nat
  BY <1>1 DEF Pending, StreamOK
<1>3. contentLength - offset \in Nat
  BY DEF StreamOK, OffsetIsPlace
<1>4. /\ Got(n) \in {n, contentLength - offset, Len(Pending)}
      /\ Got(n) <= n /\ Got(n) <= contentLength - offset /\ Got(n) <= Len(Pending)
  <2> DEFINE a == contentLength - offset
             b == Len(Pending)
  <2>1. n \in Int /\ a \in Int /\ b \in Int /\ Got(n) = Min({n, a, b})
    BY <1>2, <1>3 DEF Got
  <2> HIDE DEF a, b
  <2>2. /\ Min({n, a, b}) \in {n, a, b}
        /\ Min({n, a, b}) <= n /\ Min({n, a, b}) <= a /\ Min({n, a, b}) <= b
    BY <2>1, MinOfThree, Zenon
  <2> QED BY <2>1, <2>2 DEF a, b
<1>5. Got(n) \in Nat
  BY <1>2, <1>3, <1>4
<1>6. mpRead(n) \in Seq(Bytes) /\ Len(mpRead(n)) = Got(n)
  BY <1>2, <1>4, <1>5, FirstOf DEF mpRead
<1> QED BY <1>4, <1>5, <1>6

(* Reading and putting back keep the offset the place in the body.          *)
LEMMA Takes ==
  ASSUME StreamOK, UNCHANGED request, NEW n \in Nat, n <= contentLength - offset,
         NEW back \in Seq(Bytes), Take(n, back)
  PROVE  /\ StreamOK'
         /\ Len(putback') = (IF n <= Len(putback) THEN Len(putback) - n ELSE 0) + Len(back)
<1> DEFINE old == Min({n, Len(putback)})
           rest == SubSeq(putback, old + 1, Len(putback))
<1>1. Len(putback) \in Nat /\ putback \in Seq(Bytes)
  BY DEF StreamOK
<1>2. /\ old = IF n <= Len(putback) THEN n ELSE Len(putback)
      /\ old \in Nat /\ old <= Len(putback)
  BY <1>1, MinOfTwo
<1>3. /\ putback' = rest \o back
      /\ inpos' = inpos + n - old
      /\ offset' = offset + n - Len(back)
  BY DEF Take
<1>4. rest \in Seq(Bytes) /\ Len(rest) = Len(putback) - old
  BY <1>1, <1>2, Rest
<1> HIDE DEF rest, old
<1>5. putback' \in Seq(Bytes) /\ Len(putback') = Len(rest) + Len(back)
  BY <1>3, <1>4
<1>6. Len(back) \in Nat
  OBVIOUS
<1>7. inpos' \in Nat /\ offset' \in Int /\ OffsetIsPlace'
  <2>1. /\ offset \in Int /\ inpos \in Nat /\ contentLength \in Nat
        /\ offset = inpos - Len(putback) /\ contentLength' = contentLength
    BY DEF StreamOK, OffsetIsPlace, request
  <2>2. offset' = inpos' - Len(putback') /\ offset' <= contentLength'
    BY <1>1, <1>2, <1>3, <1>4, <1>5, <1>6, <2>1
  <2>3. inpos' \in Nat /\ offset' \in Int
    BY <1>1, <1>2, <1>3, <1>6, <2>1
  <2> QED BY <2>2, <2>3 DEF OffsetIsPlace
<1>8. StreamOK'
  BY <1>5, <1>7 DEF StreamOK, request
<1> QED BY <1>1, <1>2, <1>4, <1>5, <1>6, <1>8

(* Some bytes are read, of which some are put back.                         *)
LEMMA ReadAndTake ==
  ASSUME StreamOK, UNCHANGED request, NEW n \in Nat, NEW k \in Nat, k <= Got(n),
         NEW back \in Seq(Bytes), Take(k, back)
  PROVE  /\ StreamOK'
         /\ Len(putback') = (IF k <= Len(putback) THEN Len(putback) - k ELSE 0) + Len(back)
<1>1. k <= contentLength - offset
  BY Read DEF StreamOK
<1> QED BY <1>1, Takes

(* Some bytes are read, and none is put back.                               *)
LEMMA ReadOnly ==
  ASSUME StreamOK, UNCHANGED request, NEW n \in Nat, NEW k \in Nat, k <= Got(n),
         Take(k, <<>>)
  PROVE  /\ StreamOK'
         /\ Len(putback') = IF k <= Len(putback) THEN Len(putback) - k ELSE 0
<1> DEFINE none == <<>>
<1>1. none \in Seq(Bytes) /\ Len(none) = 0 /\ Take(k, none)
  BY EmptySeq
<1> HIDE DEF none
<1>2. /\ StreamOK'
      /\ Len(putback') = (IF k <= Len(putback) THEN Len(putback) - k ELSE 0) + Len(none)
  BY <1>1, ReadAndTake
<1>3. Len(putback) \in Nat
  BY DEF StreamOK
<1> QED BY <1>1, <1>2, <1>3

(* What is looked for, f for the first boundary, has two or four bytes more *)
(* than the boundary b.                                                     *)
LEMMA MarkLength ==
  ASSUME NEW f \in BOOLEAN, NEW b \in Seq(Bytes), NEW mark,
         mark = (IF f THEN <<>> ELSE <<CR, LF>>) \o <<"-", "-">> \o b
  PROVE  /\ mark \in Seq(Bytes)
         /\ Len(mark) = (IF f THEN 2 ELSE 4) + Len(b)
<1>1. "-" \in Bytes /\ CR \in Bytes /\ LF \in Bytes
  BY MultipartAssumption DEF Blanks
<1>2. \A x, y \in Bytes : <<x, y>> \in Seq(Bytes) /\ Len(<<x, y>>) = 2
  OBVIOUS
<1> DEFINE lead == IF f THEN <<>> ELSE <<CR, LF>>
           dashes == <<"-", "-">>
<1>3. dashes \in Seq(Bytes) /\ Len(dashes) = 2
  BY <1>1, <1>2
<1>4. lead \in Seq(Bytes) /\ Len(lead) = IF f THEN 0 ELSE 2
  BY <1>1, <1>2, EmptySeq
<1>5. mark = (lead \o dashes) \o b
  OBVIOUS
<1> HIDE DEF lead, dashes
<1> DEFINE head == lead \o dashes
<1>6. head \in Seq(Bytes) /\ Len(head) = Len(lead) + Len(dashes)
  BY <1>3, <1>4, ConcatProperties, Zenon
<1> HIDE DEF head
<1>7. head \o b \in Seq(Bytes) /\ Len(head \o b) = Len(head) + Len(b)
  BY <1>1, <1>6, ConcatProperties, Zenon
<1>8. mark = head \o b
  BY <1>5, Zenon DEF head
<1> QED BY <1>1, <1>3, <1>4, <1>6, <1>7, <1>8

(* That is so of the working boundary, now and after a step.                *)
LEMMA BoundaryLength ==
  /\ StreamOK /\ first \in BOOLEAN =>
       /\ workingBoundary \in Seq(Bytes) /\ Len(boundary) \in Nat
       /\ Len(workingBoundary) = (IF first THEN 2 ELSE 4) + Len(boundary)
  /\ StreamOK' /\ first' \in BOOLEAN =>
       /\ workingBoundary' \in Seq(Bytes) /\ Len(boundary') \in Nat
       /\ Len(workingBoundary') = (IF first' THEN 2 ELSE 4) + Len(boundary')
<1>1. StreamOK => boundary \in Seq(Bytes) /\ Len(boundary) \in Nat
  BY DEF StreamOK
<1>2. StreamOK' => boundary' \in Seq(Bytes) /\ Len(boundary') \in Nat
  BY DEF StreamOK
<1>3. workingBoundary = (IF first THEN <<>> ELSE <<CR, LF>>) \o <<"-", "-">> \o boundary
  BY DEF workingBoundary
<1>4. workingBoundary' = (IF first' THEN <<>> ELSE <<CR, LF>>) \o <<"-", "-">> \o boundary'
  BY DEF workingBoundary, CR, LF
<1>5. StreamOK /\ first \in BOOLEAN =>
        /\ workingBoundary \in Seq(Bytes)
        /\ Len(workingBoundary) = (IF first THEN 2 ELSE 4) + Len(boundary)
  BY <1>1, <1>3, MarkLength, Zenon
<1>6. StreamOK' /\ first' \in BOOLEAN =>
        /\ workingBoundary' \in Seq(Bytes)
        /\ Len(workingBoundary') = (IF first' THEN 2 ELSE 4) + Len(boundary')
  BY <1>2, <1>4, MarkLength, Zenon
<1> QED BY <1>1, <1>2, <1>5, <1>6

-------------------------------------------------------------------------------
(* The scan for a boundary behind a header begins.                          *)
LEMMA BeginsScan ==
  ASSUME StreamOK', pc' = "scan", first' = FALSE, boffset' = 0, Len(putback') <= 2
  PROVE  BufferOK'
<1>1. Len(workingBoundary') = 4 + Len(boundary') /\ Len(boundary') \in Nat
  BY BoundaryLength
<1>2. Len(putback') \in Nat
  BY DEF StreamOK
<1>3. Len(putback') + boffset' < Len(workingBoundary')
  BY <1>1, <1>2
<1> QED BY <1>3 DEF BufferOK

(* Between boundaries the parser puts back no more than it has just read.   *)
LEMMA BetweenBoundaries ==
  ASSUME StreamOK, UNCHANGED request, Len(putback) <= 2,
         NEW n \in {1, 2}, NEW k \in Nat, k <= Got(n),
         NEW back \in Seq(Bytes), Len(back) <= k, Take(k, back)
  PROVE  StreamOK' /\ Len(putback') <= 2
<1>0. n \in Nat
  OBVIOUS
<1>1. n \in Nat /\ Got(n) \in Nat /\ Got(n) <= n
  BY <1>0, Read
<1>2. /\ StreamOK'
      /\ Len(putback') = (IF k <= Len(putback) THEN Len(putback) - k ELSE 0) + Len(back)
  BY <1>1, ReadAndTake
<1>3. Len(putback) \in Nat /\ Len(back) \in Nat
  BY DEF StreamOK
<1>4. k <= 2
  BY <1>1
<1> QED BY <1>2, <1>3, <1>4

(* The same when nothing is put back.                                       *)
LEMMA BetweenReads ==
  ASSUME StreamOK, UNCHANGED request, Len(putback) <= 2,
         NEW n \in {1, 2}, NEW k \in Nat, k <= Got(n), Take(k, <<>>)
  PROVE  StreamOK' /\ Len(putback') <= 2
<1> DEFINE none == <<>>
<1>1. none \in Seq(Bytes) /\ Len(none) <= k /\ Take(k, none)
  BY EmptySeq
<1> HIDE DEF none
<1> QED BY <1>1, BetweenBoundaries

(* The parser stays between boundaries, or ends there.                      *)
LEMMA StaysBetween ==
  ASSUME StreamOK', BufferOK, Len(putback') <= 2, UNCHANGED <<first, boffset>>,
         pc' \in {"part", "line", "cr", "blanks", "end"}
  PROVE  BufferOK'
<1>1. Len(putback') < PutbackSize
  BY MultipartAssumption DEF StreamOK
<1> QED BY <1>1 DEF BufferOK

(* A header line ends, and with it perhaps the header.                      *)
LEMMA LineEndsOK ==
  ASSUME StreamOK', BufferOK, Len(putback') <= 2, NEW from, LineEnds(from)
  PROVE  BufferOK'
<1>1. CASE pc' = "line" /\ UNCHANGED <<first, boffset>>
  BY <1>1 DEF BufferOK
<1>2. CASE Scan(FALSE, from)
  BY <1>2, BeginsScan DEF Scan
<1> QED BY <1>1, <1>2 DEF LineEnds

(* afterNextBoundary keeps the stream and the buffer in order.              *)
LEMMA ScanStep ==
  ASSUME StreamOK, BufferOK, ScanEnds \/ ScanMatches \/ ScanFalseMatch \/ ScanEmits
  PROVE  StreamOK' /\ BufferOK'
<1>0. /\ pc = "scan" /\ first \in BOOLEAN /\ boffset \in Nat
      /\ Len(putback) + boffset < Len(workingBoundary)
  BY DEF BufferOK, ScanEnds, ScanMatches, ScanFalseMatch, FalseMatch, ScanEmits
<1>1. /\ workingBoundary \in Seq(Bytes) /\ Len(workingBoundary) \in Nat
      /\ Len(workingBoundary) <= PutbackSize
      /\ Len(putback) \in Nat /\ PutbackSize \in Nat
  <2>1. /\ workingBoundary \in Seq(Bytes) /\ Len(boundary) \in Nat
        /\ Len(workingBoundary) = (IF first THEN 2 ELSE 4) + Len(boundary)
    BY <1>0, BoundaryLength
  <2>2. Len(boundary) + 4 <= PutbackSize /\ Len(putback) \in Nat /\ PutbackSize \in Nat
    BY MultipartAssumption DEF StreamOK
  <2> QED BY <2>1, <2>2
<1>2. /\ Got(1) \in Nat /\ mpRead(1) \in Seq(Bytes) /\ Len(mpRead(1)) = Got(1)
      /\ Got(1) <= 1
  BY Read
<1>4. CASE ScanEnds
  <2>1. StreamOK'
    BY <1>4 DEF ScanEnds, StreamOK, OffsetIsPlace, request, stream
  <2>2. pc' = "end" /\ UNCHANGED <<first, boffset, putback>>
    BY <1>4 DEF ScanEnds, Return, stream
  <2>3. Len(putback) < PutbackSize
    BY <1>0, <1>1
  <2> QED BY <1>0, <2>1, <2>2, <2>3 DEF BufferOK
<1>5. CASE ScanMatches
  <2>1. Got(1) = 1
    <3>1. mpRead(1) = <<workingBoundary[boffset + 1]>>
      BY <1>5 DEF ScanMatches
    <3>2. Len(<<workingBoundary[boffset + 1]>>) = 1
      OBVIOUS
    <3> QED BY <1>2, <3>1, <3>2
  <2>2. UNCHANGED request /\ Take(1, <<>>)
    BY <1>5 DEF ScanMatches
  <2>3. /\ StreamOK'
        /\ Len(putback') = IF 1 <= Len(putback) THEN Len(putback) - 1 ELSE 0
    <3>1. 1 \in Nat /\ 1 <= Got(1)
      BY <2>1
    <3> QED BY <3>1, <2>2, ReadOnly, Zenon
  <2>4. /\ boffset' = boffset + 1 /\ first' = first
        /\ pc' = IF boffset + 1 = Len(workingBoundary) THEN "trail" ELSE "scan"
    BY <1>5 DEF ScanMatches
  <2>5. workingBoundary' = workingBoundary
    BY <2>2, <2>4 DEF workingBoundary, request
  <2>6. CASE boffset + 1 = Len(workingBoundary)
    <3>1. Len(putback') = 0
      BY <1>0, <1>1, <2>3, <2>6
    <3> QED BY <1>0, <2>3, <2>4, <2>6, <3>1 DEF BufferOK
  <2>7. CASE boffset + 1 # Len(workingBoundary)
    <3>1. Len(putback') + (boffset + 1) < Len(workingBoundary)
      <4> DEFINE w == Len(workingBoundary)
                 l == Len(putback)
      <4>1. w \in Nat /\ l \in Nat /\ l + boffset < w /\ boffset + 1 # w /\ boffset \in Nat
        BY <1>0, <1>1, <2>7
      <4>2. Len(putback') = IF 1 <= l THEN l - 1 ELSE 0
        BY <2>3
      <4> HIDE DEF w, l
      <4>3. Len(putback') + (boffset + 1) < w
        BY <4>1, <4>2
      <4> QED BY <4>3 DEF w
    <3>2. /\ pc' = "scan" /\ first' \in BOOLEAN /\ boffset' \in Nat
          /\ Len(putback') + boffset' < Len(workingBoundary')
      BY <1>0, <2>4, <2>5, <2>7, <3>1
    <3> QED BY <2>3, <3>2 DEF BufferOK
  <2> QED BY <2>6, <2>7
<1>6. CASE ScanFalseMatch
  <2> DEFINE tried == SubSeq(workingBoundary, 2, boffset)
             back == tried \o mpRead(1)
  <2>1. /\ Got(1) = 1 /\ boffset > 0 /\ UNCHANGED request /\ Take(1, back)
        /\ boffset' = 0 /\ first' = first /\ pc' = pc
    BY <1>6 DEF ScanFalseMatch, FalseMatch
  <2>2. tried \in Seq(Bytes) /\ Len(tried) = boffset - 1
    <3>1. boffset <= Len(workingBoundary)
      BY <1>0, <1>1
    <3> QED BY <1>0, <1>1, <2>1, <3>1
  <2>3. back \in Seq(Bytes) /\ Len(back) = boffset
    <3> HIDE DEF tried
    <3>1. back \in Seq(Bytes) /\ Len(back) = Len(tried) + Len(mpRead(1))
      BY <1>2, <2>2, ConcatProperties, Zenon
    <3> QED BY <1>0, <1>2, <2>1, <2>2, <3>1
  <2> HIDE DEF back
  <2>4. /\ StreamOK'
        /\ Len(putback') = (IF 1 <= Len(putback) THEN Len(putback) - 1 ELSE 0) + boffset
    BY <2>1, <2>3, ReadAndTake
  <2>5. workingBoundary' = workingBoundary
    BY <2>1 DEF workingBoundary, request
  <2>6. Len(putback') + 0 < Len(workingBoundary)
    BY <1>0, <1>1, <2>1, <2>4
  <2> QED BY <1>0, <2>1, <2>4, <2>5, <2>6 DEF BufferOK
<1>7. CASE ScanEmits
  <2>1. /\ Got(1) = 1 /\ UNCHANGED request /\ Take(1, <<>>)
        /\ UNCHANGED <<boffset, first, pc>>
    BY <1>7 DEF ScanEmits
  <2>2. /\ StreamOK'
        /\ Len(putback') = IF 1 <= Len(putback) THEN Len(putback) - 1 ELSE 0
    <3>1. 1 \in Nat /\ 1 <= Got(1)
      BY <2>1
    <3> QED BY <3>1, <2>1, ReadOnly, Zenon
  <2>3. workingBoundary' = workingBoundary
    BY <2>1 DEF workingBoundary, request
  <2>4. Len(putback') + boffset < Len(workingBoundary)
    BY <1>0, <1>1, <2>2
  <2> QED BY <1>0, <2>1, <2>2, <2>3, <2>4 DEF BufferOK
<1> QED BY <1>4, <1>5, <1>6, <1>7

(* What follows a boundary: the two bytes behind it and the header lines.   *)
LEMMA BetweenStep ==
  ASSUME StreamOK, BufferOK,
         Trail \/ Part \/ LineByte \/ LineBreaksOff \/ LineFeed \/ LineBlanks
  PROVE  StreamOK' /\ BufferOK'
<1>0. pc \in {"trail", "part", "line", "cr", "blanks"} /\ Len(putback) <= 2
  <2>1. pc \in {"trail", "part", "line", "cr", "blanks"}
    BY DEF Trail, Part, LineByte, LineBreaksOff, LineFeed, LineBlanks
  <2>2. Len(putback) = 0 \/ Len(putback) <= 2
    BY <2>1 DEF BufferOK
  <2> QED BY <2>1, <2>2
<1>1. 1 \in {1, 2} /\ 2 \in {1, 2} /\ 1 \in Nat /\ 2 \in Nat
  OBVIOUS
<1>2. /\ Got(1) \in Nat /\ Got(1) <= 1 /\ mpRead(1) \in Seq(Bytes) /\ Len(mpRead(1)) = Got(1)
      /\ Got(2) \in Nat /\ Got(2) <= 2 /\ mpRead(2) \in Seq(Bytes) /\ Len(mpRead(2)) = Got(2)
  BY Read
<1>3. <<>> \in Seq(Bytes) /\ \A k \in Nat : Len(<<>>) <= k
  BY EmptySeq
<1>4. CASE Trail
  <2>0. Got(2) <= Got(2)
    BY <1>2
  <2>1. UNCHANGED <<request, first, boffset>>
    BY <1>4 DEF Trail
  <2>2. CASE Got(2) # 2
    <3>1. pc' = "end" /\ Take(Got(2), <<>>)
      BY <1>4, <2>2 DEF Trail, Return
    <3>2. StreamOK' /\ Len(putback') <= 2
      BY <1>0, <1>1, <1>2, <2>0, <2>1, <3>1, BetweenReads, Zenon
    <3> QED BY <2>1, <3>1, <3>2, StaysBetween
  <2>3. CASE Got(2) = 2
    <3> DEFINE back == IF mpRead(2)[1] = "-" THEN mpRead(2) ELSE <<>>
    <3>1. pc' = "part" /\ Take(2, back)
      BY <1>4, <2>3 DEF Trail
    <3>2. back \in Seq(Bytes) /\ Len(back) <= 2
      BY <1>1, <1>2, <1>3
    <3> HIDE DEF back
    <3>3. StreamOK' /\ Len(putback') <= 2
      BY <1>0, <1>1, <2>1, <2>3, <3>1, <3>2, BetweenBoundaries
    <3> QED BY <2>1, <3>1, <3>3, StaysBetween
  <2> QED BY <2>2, <2>3
<1>5. CASE Part
  <2>0. Got(2) <= Got(2)
    BY <1>2
  <2>1. UNCHANGED <<request, first, boffset>>
    BY <1>5 DEF Part
  <2>2. CASE pc' = "end" /\ Take(Got(2), <<>>)
    <3>1. StreamOK' /\ Len(putback') <= 2
      BY <1>0, <1>1, <1>2, <2>0, <2>1, <2>2, BetweenReads, Zenon
    <3> QED BY <2>1, <2>2, <3>1, StaysBetween
  <2>3. CASE ~(Got(2) < 2) /\ pc' = "line" /\ Take(2, mpRead(2))
    <3>1. StreamOK' /\ Len(putback') <= 2
      BY <1>0, <1>1, <1>2, <2>1, <2>3, BetweenBoundaries
    <3> QED BY <2>1, <2>3, <3>1, StaysBetween
  <2> QED BY <1>5, <2>2, <2>3 DEF Part, Return
<1>6. CASE LineByte
  <2>0. 1 <= Got(1)
    BY <1>6 DEF LineByte
  <2>1. Got(1) = 1 /\ Take(1, <<>>) /\ UNCHANGED request /\ pc = "line"
    BY <1>6 DEF LineByte
  <2>2. StreamOK' /\ Len(putback') <= 2
    BY <1>0, <1>1, <2>0, <2>1, BetweenReads, Zenon
  <2>3. CASE LineEnds(offset + 1)
    BY <2>2, <2>3, LineEndsOK
  <2>4. CASE UNCHANGED <<first, boffset>> /\ pc' \in {"cr", "blanks", "line"}
    BY <2>2, <2>4, StaysBetween
  <2>5. LineEnds(offset + 1) \/ (UNCHANGED <<first, boffset>> /\ pc' \in {"cr", "blanks", "line"})
    BY <1>6, <2>1 DEF LineByte
  <2> QED BY <2>3, <2>4, <2>5
<1>7. CASE LineBreaksOff
  <2>1. StreamOK' /\ putback' = putback
    BY <1>7 DEF LineBreaksOff, StreamOK, OffsetIsPlace, request, stream
  <2>2. pc' = "scan" /\ first' = FALSE /\ boffset' = 0
    BY <1>7 DEF LineBreaksOff, Scan
  <2> QED BY <1>0, <2>1, <2>2, BeginsScan
<1>8. CASE LineFeed
  <2> DEFINE back == IF mpRead(1) = <<LF>> THEN <<>> ELSE mpRead(1)
  <2>1. Take(Got(1), back) /\ LineEnds(offset + Got(1) - Len(back)) /\ UNCHANGED request
    BY <1>8 DEF LineFeed
  <2>2. back \in Seq(Bytes) /\ Len(back) <= Got(1)
    BY <1>2, <1>3
  <2> HIDE DEF back
  <2>3. StreamOK' /\ Len(putback') <= 2
    BY <1>0, <1>1, <1>2, <2>1, <2>2, BetweenBoundaries
  <2> QED BY <2>1, <2>3, LineEndsOK
<1>9. CASE LineBlanks
  <2>0. Got(1) = 1 => 1 <= Got(1)
    OBVIOUS
  <2>1. UNCHANGED <<request, first, boffset>> /\ pc = "blanks"
    BY <1>9 DEF LineBlanks
  <2>2. CASE Got(1) = 1 /\ Take(1, <<>>) /\ pc' = pc
    <3>1. StreamOK' /\ Len(putback') <= 2
      BY <1>0, <1>1, <2>0, <2>1, <2>2, BetweenReads, Zenon
    <3> QED BY <2>1, <2>2, <3>1, StaysBetween
  <2>3. CASE Take(Got(1), mpRead(1)) /\ pc' = "line"
    <3>1. StreamOK' /\ Len(putback') <= 2
      BY <1>0, <1>1, <1>2, <2>1, <2>3, BetweenBoundaries
    <3> QED BY <2>1, <2>3, <3>1, StaysBetween
  <2> QED BY <1>9, <2>2, <2>3 DEF LineBlanks
<1> QED BY <1>4, <1>5, <1>6, <1>7, <1>8, <1>9

-------------------------------------------------------------------------------
(* At the start nothing was read and nothing put back.                      *)
LEMMA Starts == Init => StreamOK /\ BufferOK
<1> SUFFICES ASSUME Init PROVE StreamOK /\ BufferOK
  OBVIOUS
<1>1. PICK b \in Bodies : boundary = b.boundary /\ input = b.body
  BY DEF Init
<1>2. /\ boundary \in Seq(Bytes) /\ input \in Seq(Bytes)
      /\ Len(boundary) + 4 <= PutbackSize /\ PutbackSize \in Nat
  BY <1>1, MultipartAssumption
<1>3. Len(input) \in Nat /\ (input # <<>> => Len(input) - 1 \in Nat)
  BY <1>2
<1>4. contentLength \in Nat
  BY <1>3 DEF Init
<1>5. putback \in Seq(Bytes) /\ Len(putback) = 0 /\ inpos = 0 /\ offset = 0
  BY EmptySeq DEF Init
<1>6. StreamOK
  BY <1>2, <1>4, <1>5 DEF StreamOK, OffsetIsPlace
<1>7. first = TRUE /\ boffset = 0 /\ pc \in {"end", "scan"}
  BY DEF Init
<1>8. Len(workingBoundary) = 2 + Len(boundary) /\ Len(boundary) \in Nat
  BY <1>6, <1>7, BoundaryLength
<1>9. Len(putback) + boffset < Len(workingBoundary) /\ Len(putback) < PutbackSize
  BY <1>2, <1>5, <1>7, <1>8
<1> QED BY <1>6, <1>7, <1>9 DEF BufferOK

(* What holds while the buffer is in order.                                 *)
LEMMA Fits == StreamOK /\ BufferOK => OffsetIsPlace /\ PutBackFits
<1> SUFFICES ASSUME StreamOK, BufferOK PROVE OffsetIsPlace /\ PutBackFits
  OBVIOUS
<1>1. Len(putback) \in Nat /\ PutbackSize \in Nat /\ Len(boundary) + 4 <= PutbackSize
  BY MultipartAssumption DEF StreamOK
<1>2. /\ Len(boundary) \in Nat /\ first \in BOOLEAN
      /\ Len(workingBoundary) = (IF first THEN 2 ELSE 4) + Len(boundary)
  BY BoundaryLength DEF BufferOK
<1>3. Len(workingBoundary) <= PutbackSize
  BY <1>1, <1>2
<1>4. CASE pc = "scan"
  <2>1. Len(putback) + boffset < Len(workingBoundary) /\ boffset \in Nat
    BY <1>4 DEF BufferOK
  <2>2. Len(putback) < PutbackSize
    BY <1>1, <1>2, <1>3, <2>1
  <2> QED BY <2>2 DEF PutBackFits, StreamOK
<1>5. CASE pc # "scan"
  <2>1. Len(putback) <= 2 \/ Len(putback) < PutbackSize
    BY <1>5 DEF BufferOK
  <2>2. Len(putback) < PutbackSize
    BY <1>1, <1>2, <2>1
  <2> QED BY <2>2 DEF PutBackFits, StreamOK
<1> QED BY <1>4, <1>5

(* Every step of the parser keeps the stream and the buffer in order.       *)
LEMMA Steps == StreamOK /\ BufferOK /\ [Next]_vars => StreamOK' /\ BufferOK'
<1> SUFFICES ASSUME StreamOK, BufferOK, [Next]_vars PROVE StreamOK' /\ BufferOK'
  OBVIOUS
<1>1. CASE Next
  BY <1>1, ScanStep, BetweenStep DEF Next
<1>2. CASE UNCHANGED vars
  BY <1>2 DEF vars, StreamOK, BufferOK, OffsetIsPlace, workingBoundary
<1> QED BY <1>1, <1>2

(* Whatever is sent, and whatever length is declared, mp.offset is the      *)
(* place in the body, at most the declared length, and mpPutBack never      *)
(* wraps onto bytes that mpRead has yet to deliver.                         *)
THEOREM StreamSafe == Spec => []StreamInBounds
<1>1. StreamOK /\ BufferOK => StreamInBounds
  BY Fits DEF StreamInBounds
<1> QED BY <1>1, Starts, Steps, PTL DEF Spec
-------------------------------------------------------------------------------
(* Where the parser is, whatever is sent: within the input and within the   *)
(* boundary, with as many bytes matched as were read.                       *)
HeaderLine == [attr : Seq(Bytes), value : Seq(Bytes), found : BOOLEAN]

StreamPlace == inpos <= Len(input) /\ inpos <= contentLength /\ offset \in Nat
HeaderPlace ==
  /\ line \in HeaderLine /\ Len(line.attr) < HeaderSpace /\ Len(line.value) < HeaderSpace
  /\ formData \in BOOLEAN
  /\ start \in Nat /\ start <= Len(input)
BoundaryPlace ==
  /\ boffset <= Len(workingBoundary)
  /\ pc = "scan" => boffset <= offset
  /\ pc \in {"trail", "part", "line", "cr", "blanks"} => boffset = Len(workingBoundary)

PlaceOK ==
  /\ StreamPlace /\ HeaderPlace /\ BoundaryPlace
  /\ result \in {"none", "cgiParseSuccess", "cgiParseIO"}

(* The bytes put back are those in front of cgiIn's.                        *)
Ordered == \A i \in 1 .. Len(putback) : putback[i] = input[offset + i]

(* The last bytes read are those of the boundary that were matched.         *)
Matched ==
  pc \in {"scan", "trail"} =>
    /\ boffset <= offset
    /\ \A i \in 1 .. boffset : input[offset - boffset + i] = workingBoundary[i]

(* Why nothing is put back behind bytes that are still in the buffer: what  *)
(* was put back, but for its last byte, is no beginning of a boundary, or   *)
(* it is dashes, which match.                                               *)
BoundaryLeads == IsPrefix(<<"-", "-">> \o boundary, input)
DashesOnly == \A i \in 1 .. Len(boundary) - 1 : boundary[i] = "-"

FirstTame ==
  \/ BoundaryLeads /\ Len(putback) = 0 /\ offset = boffset
  \/ DashesOnly /\ \A i \in 1 .. Len(putback) - 1 : putback[i] = "-"

NextTame ==
  /\ boffset > 0 => Len(putback) = 0
  /\ \A i \in 1 .. Len(putback) - 1 : putback[i] # CR

Tame ==
  /\ pc = "scan" => IF first THEN FirstTame ELSE NextTame
  /\ pc = "line" => Len(putback) <= (IF line.attr = <<>> THEN 2 ELSE 1)
  /\ pc = "cr" => Len(putback) <= 1
  /\ pc = "blanks" => Len(putback) = 0

(* main cuts the boundary off at the first blank, so it has no CR.          *)
BoundaryPlain == \A i \in 1 .. Len(boundary) : boundary[i] # CR

OrderOK == FirstIsPlain => Ordered /\ Matched /\ Tame

(* The scan has looked at every place before the one where the bytes that   *)
(* match now begin, and what it read in front of that place is the body.    *)
Differs(n) ==
  \E i \in 1 .. Len(workingBoundary) : n + i <= Len(input) /\ input[n + i] # workingBoundary[i]
Searched(from) == \A n \in from .. offset - boffset - 1 : Differs(n)
NothingLeft == offset = contentLength \/ offset = Len(input)
HeaderEnded == start \in 1 .. Len(input) /\ input[start] \in {CR, LF}

Collected ==
  /\ start + Len(out) = offset - boffset
  /\ \A i \in 1 .. Len(out) : out[i] = input[start + i]

Found ==
  /\ pc \in {"scan", "trail"} =>
       IF first THEN Searched(0)
       ELSE Searched(start) /\ Collected /\ (HeaderEnded \/ (pc = "scan" /\ NothingLeft))
  /\ pc = "cr" => offset \in 1 .. Len(input) /\ input[offset] = CR

Body == [start : Nat, body : Seq(Bytes), stored : BOOLEAN]

SearchOK ==
  FirstIsPlain => /\ out \in Seq(Bytes) /\ parts \in Seq(Body)
                  /\ Found /\ BodyUpToBoundary /\ EmptyHasNoBoundary

-------------------------------------------------------------------------------
(* How much is left to be read, and what a read that gets less says.        *)
LEMMA ReadPlace ==
  ASSUME StreamOK, inpos <= Len(input), NEW n \in Nat
  PROVE  /\ Pending \in Seq(Bytes) /\ Len(Pending) = Len(input) - offset
         /\ Got(n) <= Len(input) - offset
         /\ Got(n) \in {n, contentLength - offset, Len(input) - offset}
<1> DEFINE left == SubSeq(input, inpos + 1, Len(input))
<1>1. /\ input \in Seq(Bytes) /\ putback \in Seq(Bytes) /\ inpos \in Nat /\ offset \in Int
      /\ contentLength \in Nat /\ offset = inpos - Len(putback)
  BY DEF StreamOK, OffsetIsPlace
<1>2. left \in Seq(Bytes) /\ Len(left) = Len(input) - inpos
  BY <1>1, Rest
<1>3. Pending = putback \o left
  BY DEF Pending
<1> HIDE DEF left
<1>4. Pending \in Seq(Bytes) /\ Len(Pending) = Len(putback) + Len(left)
  <2>1. putback \o left \in Seq(Bytes) /\ Len(putback \o left) = Len(putback) + Len(left)
    BY <1>1, <1>2, ConcatProperties, Zenon
  <2> QED BY <1>3, <2>1
<1>5. Len(Pending) = Len(input) - offset /\ Len(Pending) \in Int
  <2>1. Len(input) \in Nat /\ Len(putback) \in Nat
    BY <1>1
  <2> QED BY <1>1, <1>2, <1>4, <2>1
<1> DEFINE a == contentLength - offset
           b == Len(Pending)
<1>6. n \in Int /\ a \in Int /\ b \in Int /\ Got(n) = Min({n, a, b})
  BY <1>1, <1>5 DEF Got
<1> HIDE DEF a, b
<1>7. Min({n, a, b}) \in {n, a, b} /\ Min({n, a, b}) <= b
  BY <1>6, MinOfThree, Zenon
<1> QED BY <1>4, <1>5, <1>6, <1>7 DEF a, b

(* Reading and putting back stay within the input.                          *)
LEMMA TakePlace ==
  ASSUME StreamOK, UNCHANGED request, inpos <= Len(input), inpos <= contentLength,
         NEW m \in Nat, NEW n \in Nat, n <= Got(m), NEW back \in Seq(Bytes), Take(n, back)
  PROVE  /\ inpos' <= Len(input') /\ inpos' <= contentLength'
         /\ offset' = offset + n - Len(back)
<1>1. n <= contentLength - offset /\ n <= Len(input) - offset
  <2>1. Got(m) \in Nat /\ Got(m) <= contentLength - offset /\ Got(m) <= Len(input) - offset
    BY Read, ReadPlace
  <2> QED BY <2>1 DEF StreamOK
<1>2. /\ inpos \in Nat /\ offset \in Int /\ contentLength \in Nat
      /\ offset = inpos - Len(putback) /\ Len(putback) \in Nat /\ Len(input) \in Nat
      /\ input' = input /\ contentLength' = contentLength
  BY DEF StreamOK, OffsetIsPlace, request
<1>3. Min({n, Len(putback)}) = IF n <= Len(putback) THEN n ELSE Len(putback)
  BY <1>2, MinOfTwo
<1>4. /\ inpos' = inpos + n - (IF n <= Len(putback) THEN n ELSE Len(putback))
      /\ offset' = offset + n - Len(back)
  BY <1>3 DEF Take
<1> QED BY <1>1, <1>2, <1>4

(* A byte of a header line that is kept leaves room for the end mark.       *)
LEMMA KeptFits ==
  ASSUME NEW s \in Seq(Bytes), Len(s) < HeaderSpace, NEW c \in Bytes
  PROVE  Kept(s, c) \in Seq(Bytes) /\ Len(Kept(s, c)) < HeaderSpace
BY MultipartAssumption DEF Kept

(* Some bytes are read, no more are put back, and the place moves on.       *)
LEMMA MovesOn ==
  ASSUME StreamOK, StreamPlace, UNCHANGED request,
         NEW m \in Nat, NEW n \in Nat, n <= Got(m),
         NEW back \in Seq(Bytes), Len(back) <= offset + n, Take(n, back)
  PROVE  StreamPlace' /\ offset' = offset + n - Len(back)
<1>1. /\ inpos' <= Len(input') /\ inpos' <= contentLength'
      /\ offset' = offset + n - Len(back)
  BY TakePlace DEF StreamPlace
<1>2. Len(back) \in Nat
  OBVIOUS
<1> QED BY <1>1, <1>2 DEF StreamPlace

(* Nothing is put back.                                                     *)
LEMMA MovesBy ==
  ASSUME StreamOK, StreamPlace, UNCHANGED request,
         NEW m \in Nat, NEW n \in Nat, n <= Got(m), Take(n, <<>>)
  PROVE  StreamPlace' /\ offset' = offset + n
<1> DEFINE none == <<>>
<1>1. none \in Seq(Bytes) /\ Len(none) = 0 /\ Take(n, none)
  BY EmptySeq
<1>2. Len(none) <= offset + n
  BY <1>1 DEF StreamPlace
<1> HIDE DEF none
<1>3. StreamPlace' /\ offset' = offset + n - Len(none)
  BY <1>1, <1>2, MovesOn
<1> QED BY <1>1, <1>3 DEF StreamPlace

(* The place is never beyond what was taken from the input.                 *)
LEMMA OffsetInInput == ASSUME StreamOK, StreamPlace PROVE offset <= Len(input)
<1>1. Len(putback) \in Nat /\ Len(input) \in Nat /\ inpos \in Nat
  BY DEF StreamOK
<1> QED BY <1>1 DEF StreamOK, OffsetIsPlace, StreamPlace

(* ... also after a step.                                                   *)
LEMMA NextOffsetInInput ==
  ASSUME StreamOK', StreamPlace' PROVE offset' \in Nat /\ offset' <= Len(input')
<1>1. /\ Len(putback') \in Nat /\ Len(input') \in Nat /\ inpos' \in Nat
      /\ offset' \in Nat /\ inpos' <= Len(input')
  BY DEF StreamOK, StreamPlace
<1>2. offset' = inpos' - Len(putback')
  BY DEF StreamOK, OffsetIsPlace
<1> QED BY <1>1, <1>2

(* A header line ends at a place in the input.                              *)
LEMMA LineEndsPlace ==
  ASSUME StreamOK', HeaderPlace, UNCHANGED request, NEW from \in Nat, from <= Len(input),
         LineEnds(from)
  PROVE  HeaderPlace'
<1>1. CASE /\ formData' = IF line.attr = <<"D">> THEN line.value = <<"f">> ELSE formData
           /\ line' = NoLine /\ start' = start
  <2>1. NoLine \in HeaderLine /\ Len(NoLine.attr) = 0 /\ Len(NoLine.value) = 0
    BY EmptySeq DEF NoLine, HeaderLine
  <2>2. 0 < HeaderSpace /\ line' = NoLine /\ start' = start /\ input' = input
    BY <1>1, MultipartAssumption DEF request
  <2>3. formData' \in BOOLEAN
    <3>1. formData \in BOOLEAN
      BY DEF HeaderPlace
    <3> QED BY <1>1, <3>1, Zenon
  <2> HIDE DEF NoLine
  <2> QED BY <2>1, <2>2, <2>3 DEF HeaderPlace
<1>2. CASE Scan(FALSE, from) /\ UNCHANGED <<line, formData>>
  BY <1>2 DEF HeaderPlace, Scan, request
<1> QED BY <1>1, <1>2 DEF LineEnds

(* afterNextBoundary stays within the input and the boundary.               *)
LEMMA ScanPlace ==
  ASSUME StreamOK, BufferOK, PlaceOK,
         ScanEnds \/ ScanMatches \/ ScanFalseMatch \/ ScanEmits
  PROVE  PlaceOK'
<1>0. /\ pc = "scan" /\ first \in BOOLEAN /\ boffset \in Nat /\ boffset <= offset
      /\ Len(putback) + boffset < Len(workingBoundary)
      /\ offset \in Nat /\ Len(putback) \in Nat
  BY DEF BufferOK, StreamOK, PlaceOK, StreamPlace, BoundaryPlace, ScanEnds, ScanMatches,
     ScanFalseMatch, FalseMatch, ScanEmits
<1>1. workingBoundary \in Seq(Bytes) /\ Len(workingBoundary) \in Nat
  BY <1>0, BoundaryLength
<1>2. /\ Got(1) \in Nat /\ mpRead(1) \in Seq(Bytes) /\ Len(mpRead(1)) = Got(1)
  BY Read
<1>3. UNCHANGED <<request, first, line, formData, start>> /\ workingBoundary' = workingBoundary
  BY DEF ScanEnds, ScanMatches, ScanFalseMatch, FalseMatch, ScanEmits, workingBoundary,
     request
<1>4. HeaderPlace'
  BY <1>3 DEF PlaceOK, HeaderPlace, request
<1>5. CASE ScanEnds
  <2>1. /\ pc' = "end" /\ UNCHANGED <<inpos, offset, boffset>>
        /\ result' \in {"cgiParseSuccess", "cgiParseIO"}
    BY <1>5 DEF ScanEnds, Return, stream
  <2>2. StreamPlace'
    BY <1>3, <2>1 DEF PlaceOK, StreamPlace, request
  <2>3. BoundaryPlace'
    BY <1>3, <2>1 DEF PlaceOK, BoundaryPlace
  <2> QED BY <1>4, <2>1, <2>2, <2>3 DEF PlaceOK
<1>6. CASE ScanMatches
  <2>1. Got(1) = 1
    <3>1. mpRead(1) = <<workingBoundary[boffset + 1]>>
      BY <1>6 DEF ScanMatches
    <3>2. Len(<<workingBoundary[boffset + 1]>>) = 1
      OBVIOUS
    <3> QED BY <1>2, <3>1, <3>2
  <2>2. /\ Take(1, <<>>) /\ boffset' = boffset + 1 /\ result' = result
        /\ pc' = IF boffset + 1 = Len(workingBoundary) THEN "trail" ELSE "scan"
    BY <1>6 DEF ScanMatches
  <2>3. StreamPlace' /\ offset' = offset + 1
    <3>1. 1 \in Nat /\ 1 <= Got(1)
      BY <2>1
    <3> QED BY <1>3, <2>2, <3>1, MovesBy, Zenon DEF PlaceOK
  <2>4. BoundaryPlace'
    BY <1>0, <1>1, <1>3, <2>2, <2>3 DEF BoundaryPlace
  <2> QED BY <1>4, <2>2, <2>3, <2>4 DEF PlaceOK
<1>7. CASE ScanFalseMatch
  <2> DEFINE tried == SubSeq(workingBoundary, 2, boffset)
             back == tried \o mpRead(1)
  <2>1. /\ Got(1) = 1 /\ boffset > 0 /\ Take(1, back)
        /\ boffset' = 0 /\ pc' = pc /\ result' = result
    BY <1>7 DEF ScanFalseMatch, FalseMatch
  <2>2. tried \in Seq(Bytes) /\ Len(tried) = boffset - 1
    <3>1. boffset <= Len(workingBoundary)
      BY <1>0, <1>1
    <3> QED BY <1>0, <1>1, <2>1, <3>1
  <2>3. back \in Seq(Bytes) /\ Len(back) = boffset
    <3> HIDE DEF tried
    <3>1. back \in Seq(Bytes) /\ Len(back) = Len(tried) + Len(mpRead(1))
      BY <1>2, <2>2, ConcatProperties, Zenon
    <3> QED BY <1>0, <1>2, <2>1, <2>2, <3>1
  <2> HIDE DEF back
  <2>4. StreamPlace' /\ offset' = offset + 1 - boffset
    <3>1. 1 \in Nat /\ 1 <= Got(1) /\ Len(back) <= offset + 1
      BY <1>0, <2>1, <2>3
    <3>2. StreamPlace' /\ offset' = offset + 1 - Len(back)
      BY <1>3, <2>1, <2>3, <3>1, MovesOn, Zenon DEF PlaceOK
    <3> QED BY <2>3, <3>2
  <2>5. BoundaryPlace'
    BY <1>0, <1>1, <1>3, <2>1, <2>4 DEF BoundaryPlace
  <2> QED BY <1>4, <2>1, <2>4, <2>5 DEF PlaceOK
<1>8. CASE ScanEmits
  <2>1. Got(1) = 1 /\ Take(1, <<>>) /\ UNCHANGED <<pc, boffset, result>>
    BY <1>8 DEF ScanEmits
  <2>2. StreamPlace' /\ offset' = offset + 1
    <3>1. 1 \in Nat /\ 1 <= Got(1)
      BY <2>1
    <3> QED BY <1>3, <2>1, <3>1, MovesBy, Zenon DEF PlaceOK
  <2>3. BoundaryPlace'
    BY <1>0, <1>1, <1>3, <2>1, <2>2 DEF BoundaryPlace
  <2> QED BY <1>4, <2>1, <2>2, <2>3 DEF PlaceOK
<1> QED BY <1>5, <1>6, <1>7, <1>8

(* Behind a boundary, up to the body that follows.                          *)
LEMMA StaysPlace ==
  ASSUME BoundaryPlace, pc \in {"trail", "part", "line", "cr", "blanks"},
         UNCHANGED <<request, first, boffset>>, pc' \in {"part", "line", "cr", "blanks", "end"}
  PROVE  BoundaryPlace'
<1>1. workingBoundary' = workingBoundary
  BY DEF workingBoundary, request
<1> QED BY <1>1 DEF BoundaryPlace

(* ... where the next scan begins.                                          *)
LEMMA ScanBeginsPlace ==
  ASSUME StreamOK', StreamPlace', NEW from, Scan(FALSE, from)
  PROVE  BoundaryPlace'
<1>1. pc' = "scan" /\ first' = FALSE /\ boffset' = 0
  BY DEF Scan
<1>2. Len(workingBoundary') \in Nat
  BY <1>1, BoundaryLength
<1> QED BY <1>1, <1>2 DEF BoundaryPlace, StreamPlace

(* ... or the next header line.                                             *)
LEMMA LineEndsBoundary ==
  ASSUME StreamOK', StreamPlace', BoundaryPlace, pc \in {"line", "cr"}, UNCHANGED request,
         NEW from, LineEnds(from)
  PROVE  BoundaryPlace'
<1>1. CASE pc' = "line" /\ UNCHANGED <<first, boffset>>
  BY <1>1, StaysPlace
<1>2. CASE Scan(FALSE, from)
  BY <1>2, ScanBeginsPlace
<1> QED BY <1>1, <1>2 DEF LineEnds

(* A byte that was read is one.                                             *)
LEMMA ByteRead == ASSUME StreamOK, Got(1) = 1 PROVE mpRead(1)[1] \in Bytes
<1>1. mpRead(1) \in Seq(Bytes) /\ Len(mpRead(1)) = 1
  BY Read
<1> QED BY <1>1

(* A byte of a header line keeps the line in its bounds.                    *)
LEMMA LineByteHeader ==
  ASSUME StreamOK, StreamPlace, HeaderPlace, LineByte, StreamOK', StreamPlace',
         offset' = offset + 1
  PROVE  HeaderPlace'
<1> DEFINE c == mpRead(1)[1]
<1>1. c \in Bytes
  BY ByteRead DEF LineByte
<1>2. UNCHANGED request
  BY DEF LineByte
<1> HIDE DEF c
<1>3. CASE LineEnds(offset + 1)
  <2>1. offset + 1 \in Nat /\ offset + 1 <= Len(input)
    <3>1. offset' <= Len(input')
      BY NextOffsetInInput
    <3> QED BY <1>2, <3>1 DEF StreamPlace, request
  <2> QED BY <1>2, <1>3, <2>1, LineEndsPlace
<1>4. CASE UNCHANGED <<line, formData, start>>
  BY <1>2, <1>4 DEF HeaderPlace, request
<1>5. CASE line' = [line EXCEPT !.found = TRUE] /\ UNCHANGED <<formData, start>>
  BY <1>2, <1>5 DEF HeaderPlace, HeaderLine, request
<1>6. CASE line' = [line EXCEPT !.value = Kept(@, c)] /\ UNCHANGED <<formData, start>>
  <2>1. Kept(line.value, c) \in Seq(Bytes) /\ Len(Kept(line.value, c)) < HeaderSpace
    BY <1>1, KeptFits DEF HeaderPlace, HeaderLine
  <2> QED BY <1>2, <1>6, <2>1 DEF HeaderPlace, HeaderLine, request
<1>7. CASE line' = [line EXCEPT !.attr = Kept(@, c)] /\ UNCHANGED <<formData, start>>
  <2>1. Kept(line.attr, c) \in Seq(Bytes) /\ Len(Kept(line.attr, c)) < HeaderSpace
    BY <1>1, KeptFits DEF HeaderPlace, HeaderLine
  <2> QED BY <1>2, <1>7, <2>1 DEF HeaderPlace, HeaderLine, request
<1> QED BY <1>3, <1>4, <1>5, <1>6, <1>7 DEF LineByte, c

(* What follows a boundary stays within the input and the boundary.         *)
LEMMA BetweenPlace ==
  ASSUME StreamOK, BufferOK, PlaceOK, StreamOK',
         Trail \/ Part \/ LineByte \/ LineBreaksOff \/ LineFeed \/ LineBlanks
  PROVE  PlaceOK'
<1>0. /\ pc \in {"trail", "part", "line", "cr", "blanks"} /\ UNCHANGED request
      /\ StreamPlace /\ HeaderPlace /\ BoundaryPlace
      /\ result \in {"none", "cgiParseSuccess", "cgiParseIO"}
  BY DEF PlaceOK, Trail, Part, LineByte, LineBreaksOff, LineFeed, LineBlanks
<1>1. 1 \in Nat /\ 2 \in Nat /\ offset \in Nat
  BY <1>0 DEF StreamPlace
<1>2. /\ Got(1) \in Nat /\ Got(1) <= 1 /\ mpRead(1) \in Seq(Bytes) /\ Len(mpRead(1)) = Got(1)
      /\ Got(2) \in Nat /\ Got(2) <= 2 /\ mpRead(2) \in Seq(Bytes) /\ Len(mpRead(2)) = Got(2)
      /\ Got(1) <= Got(1) /\ Got(2) <= Got(2)
  BY Read
<1>3. <<>> \in Seq(Bytes) /\ Len(<<>>) = 0
  BY EmptySeq
<1>4. CASE Trail
  <2>1. UNCHANGED <<first, boffset, line, formData, start>>
    BY <1>4 DEF Trail
  <2>2. HeaderPlace'
    BY <1>0, <2>1 DEF HeaderPlace, request
  <2>3. CASE Got(2) # 2
    <3>1. pc' = "end" /\ Take(Got(2), <<>>) /\ result' \in {"cgiParseSuccess", "cgiParseIO"}
      BY <1>4, <2>3 DEF Trail, Return
    <3>2. StreamPlace'
      BY <1>0, <1>1, <1>2, <3>1, MovesBy, Zenon
    <3>3. BoundaryPlace'
      BY <1>0, <2>1, <3>1, StaysPlace
    <3> QED BY <2>2, <3>1, <3>2, <3>3 DEF PlaceOK
  <2>4. CASE Got(2) = 2
    <3> DEFINE back == IF mpRead(2)[1] = "-" THEN mpRead(2) ELSE <<>>
    <3>1. pc' = "part" /\ Take(2, back) /\ result' = result
      BY <1>4, <2>4 DEF Trail
    <3>2. back \in Seq(Bytes) /\ Len(back) <= offset + 2 /\ 2 <= Got(2)
      BY <1>1, <1>2, <1>3, <2>4
    <3> HIDE DEF back
    <3>3. StreamPlace'
      BY <1>0, <1>1, <3>1, <3>2, MovesOn, Zenon
    <3>4. BoundaryPlace'
      BY <1>0, <2>1, <3>1, StaysPlace
    <3> QED BY <1>0, <2>2, <3>1, <3>3, <3>4 DEF PlaceOK
  <2> QED BY <2>3, <2>4
<1>5. CASE Part
  <2>1. UNCHANGED <<first, boffset, start>> /\ line' = NoLine /\ formData' = FALSE
    BY <1>5 DEF Part
  <2>2. HeaderPlace'
    <3>1. NoLine \in HeaderLine /\ Len(NoLine.attr) = 0 /\ Len(NoLine.value) = 0
      BY EmptySeq DEF NoLine, HeaderLine
    <3>2. 0 < HeaderSpace
      BY MultipartAssumption
    <3> HIDE DEF NoLine
    <3> QED BY <1>0, <2>1, <3>1, <3>2 DEF HeaderPlace, request
  <2>3. CASE Return("cgiParseSuccess") /\ Take(Got(2), <<>>)
    <3>1. pc' = "end" /\ result' = "cgiParseSuccess"
      BY <2>3 DEF Return
    <3>2. StreamPlace'
      BY <1>0, <1>1, <1>2, <2>3, MovesBy, Zenon
    <3>3. BoundaryPlace'
      BY <1>0, <2>1, <3>1, StaysPlace
    <3> QED BY <2>2, <3>1, <3>2, <3>3 DEF PlaceOK
  <2>4. CASE ~(Got(2) < 2) /\ pc' = "line" /\ Take(2, mpRead(2)) /\ result' = result
    <3>1. 2 <= Got(2) /\ Len(mpRead(2)) <= offset + 2
      BY <1>1, <1>2, <2>4
    <3>2. StreamPlace'
      BY <1>0, <1>1, <1>2, <2>4, <3>1, MovesOn, Zenon
    <3>3. BoundaryPlace'
      BY <1>0, <2>1, <2>4, StaysPlace
    <3> QED BY <1>0, <2>2, <2>4, <3>2, <3>3 DEF PlaceOK
  <2> QED BY <1>5, <2>3, <2>4 DEF Part
<1>6. CASE LineByte
  <2>1. Got(1) = 1 /\ 1 <= Got(1) /\ Take(1, <<>>) /\ pc = "line" /\ result' = result
    BY <1>6 DEF LineByte
  <2>2. StreamPlace' /\ offset' = offset + 1
    BY <1>0, <1>1, <2>1, MovesBy, Zenon
  <2>3. HeaderPlace'
    BY <1>0, <1>6, <2>2, LineByteHeader
  <2>4. LineEnds(offset + 1) \/ (UNCHANGED <<first, boffset>> /\ pc' \in {"cr", "blanks", "line"})
    BY <1>6, <2>1 DEF LineByte
  <2>5. BoundaryPlace'
    BY <1>0, <2>1, <2>2, <2>4, LineEndsBoundary, StaysPlace
  <2> QED BY <1>0, <2>1, <2>2, <2>3, <2>5 DEF PlaceOK
<1>7. CASE LineBreaksOff
  <2>1. /\ UNCHANGED <<stream, line, formData, result>> /\ Scan(FALSE, offset) /\ start' = offset
    BY <1>7 DEF LineBreaksOff, Scan
  <2>2. StreamPlace'
    BY <1>0, <2>1 DEF StreamPlace, request, stream
  <2>3. BoundaryPlace'
    BY <2>1, <2>2, ScanBeginsPlace
  <2>4. offset <= Len(input)
    BY <1>0, OffsetInInput
  <2>5. HeaderPlace'
    BY <1>0, <1>1, <2>1, <2>4 DEF HeaderPlace, request
  <2> QED BY <1>0, <2>1, <2>2, <2>3, <2>5 DEF PlaceOK
<1>8. CASE LineFeed
  <2> DEFINE back == IF mpRead(1) = <<LF>> THEN <<>> ELSE mpRead(1)
  <2>1. /\ Take(Got(1), back) /\ LineEnds(offset + Got(1) - Len(back)) /\ pc = "cr"
        /\ result' = result
    BY <1>8 DEF LineFeed
  <2>2. back \in Seq(Bytes) /\ Len(back) <= offset + Got(1) /\ Len(back) \in Nat
    BY <1>1, <1>2, <1>3
  <2> HIDE DEF back
  <2>3. StreamPlace' /\ offset' = offset + Got(1) - Len(back)
    BY <1>0, <1>1, <1>2, <2>1, <2>2, MovesOn, Zenon
  <2>4. BoundaryPlace'
    BY <1>0, <2>1, <2>3, LineEndsBoundary
  <2>5. offset' <= Len(input) /\ offset' \in Nat
    <3>1. offset' <= Len(input')
      BY <1>0, <2>3, NextOffsetInInput
    <3> QED BY <1>0, <2>3, <3>1 DEF request, StreamPlace
  <2>6. LineEnds(offset')
    BY <2>1, <2>3
  <2>7. HeaderPlace'
    BY <1>0, <2>3, <2>5, <2>1, LineEndsPlace
  <2> QED BY <1>0, <2>1, <2>3, <2>4, <2>7 DEF PlaceOK
<1>9. CASE LineBlanks
  <2>1. UNCHANGED <<first, boffset, line, formData, start, result>> /\ pc = "blanks"
    BY <1>9 DEF LineBlanks
  <2>2. HeaderPlace'
    BY <1>0, <2>1 DEF HeaderPlace, request
  <2>3. pc' \in {"blanks", "line"}
    BY <1>9, <2>1 DEF LineBlanks
  <2>4. BoundaryPlace'
    BY <1>0, <2>1, <2>3, StaysPlace
  <2>5. CASE Got(1) = 1 /\ Take(1, <<>>)
    <3>1. 1 <= Got(1)
      BY <2>5
    <3>2. StreamPlace'
      BY <1>0, <1>1, <2>5, <3>1, MovesBy, Zenon
    <3> QED BY <1>0, <2>1, <2>2, <2>4, <3>2 DEF PlaceOK
  <2>6. CASE Take(Got(1), mpRead(1))
    <3>1. Len(mpRead(1)) <= offset + Got(1)
      BY <1>1, <1>2
    <3>2. StreamPlace'
      BY <1>0, <1>1, <1>2, <2>6, <3>1, MovesOn, Zenon
    <3> QED BY <1>0, <2>1, <2>2, <2>4, <3>2 DEF PlaceOK
  <2> QED BY <1>9, <2>5, <2>6 DEF LineBlanks
<1> QED BY <1>4, <1>5, <1>6, <1>7, <1>8, <1>9

(* The parser starts in place and stays there.                              *)
LEMMA PlaceHolds == Spec => [](StreamOK /\ BufferOK /\ PlaceOK)
<1>1. Init => PlaceOK
  <2> SUFFICES ASSUME Init PROVE PlaceOK
    OBVIOUS
  <2>1. StreamOK /\ first = TRUE /\ Len(input) \in Nat
    BY Starts DEF Init, StreamOK
  <2>2. Len(workingBoundary) \in Nat
    BY <2>1, BoundaryLength
  <2>3. inpos = 0 /\ offset = 0 /\ boffset = 0 /\ start = 0 /\ pc \in {"scan", "end"}
    BY DEF Init
  <2>4. StreamPlace
    BY <2>1, <2>3 DEF StreamOK, StreamPlace
  <2>5. HeaderPlace
    <3>1. NoLine \in HeaderLine /\ Len(NoLine.attr) = 0 /\ Len(NoLine.value) = 0
      BY EmptySeq DEF NoLine, HeaderLine
    <3>2. 0 < HeaderSpace /\ line = NoLine
      BY MultipartAssumption DEF Init
    <3>3. formData \in BOOLEAN
      BY Zenon DEF Init
    <3> HIDE DEF NoLine
    <3> QED BY <2>1, <2>3, <3>1, <3>2, <3>3 DEF HeaderPlace
  <2>6. BoundaryPlace
    BY <2>2, <2>3 DEF BoundaryPlace
  <2>7. result \in {"none", "cgiParseSuccess", "cgiParseIO"}
    BY DEF Init
  <2> QED BY <2>4, <2>5, <2>6, <2>7 DEF PlaceOK
<1>2. StreamOK /\ BufferOK /\ PlaceOK /\ [Next]_vars => PlaceOK'
  <2> SUFFICES ASSUME StreamOK, BufferOK, PlaceOK, [Next]_vars PROVE PlaceOK'
    OBVIOUS
  <2>1. StreamOK'
    BY Steps
  <2>2. CASE Next
    BY <2>1, <2>2, ScanPlace, BetweenPlace DEF Next
  <2>3. CASE UNCHANGED vars
    BY <2>3 DEF vars, PlaceOK, StreamPlace, HeaderPlace, BoundaryPlace, workingBoundary
  <2> QED BY <2>2, <2>3
<1> QED BY <1>1, <1>2, Starts, Steps, PTL DEF Spec

(* The parser stays within the input, the boundary it looks for, and the    *)
(* space for a header's name and value, each with its end mark.             *)
THEOREM ParserTypes == Spec => []TypeOK
<1>1. StreamOK /\ BufferOK /\ PlaceOK => TypeOK
  <2> SUFFICES ASSUME StreamOK, BufferOK, PlaceOK PROVE TypeOK
    OBVIOUS
  <2>1. Len(workingBoundary) \in Nat
    BY BoundaryLength DEF BufferOK
  <2>2. inpos \in 0 .. Len(input) /\ offset \in 0 .. contentLength /\ start \in 0 .. Len(input)
    BY DEF StreamOK, OffsetIsPlace, PlaceOK, StreamPlace, HeaderPlace
  <2>3. boffset \in 0 .. Len(workingBoundary)
    BY <2>1 DEF BufferOK, PlaceOK, BoundaryPlace
  <2> QED BY <2>2, <2>3 DEF TypeOK, BufferOK, PlaceOK, HeaderPlace
<1> QED BY <1>1, PlaceHolds, PTL

-------------------------------------------------------------------------------
(* The bytes of two sequences put together.                                 *)
LEMMA Joined ==
  ASSUME NEW s \in Seq(Bytes), NEW u \in Seq(Bytes)
  PROVE  /\ s \o u \in Seq(Bytes) /\ Len(s \o u) = Len(s) + Len(u)
         /\ \A i \in 1 .. Len(s) : (s \o u)[i] = s[i]
         /\ \A i \in 1 .. Len(u) : (s \o u)[Len(s) + i] = u[i]
<1>1. /\ s \o u \in Seq(Bytes) /\ Len(s \o u) = Len(s) + Len(u)
      /\ \A i \in 1 .. Len(s) + Len(u) : (s \o u)[i] = IF i <= Len(s) THEN s[i] ELSE u[i - Len(s)]
  BY ConcatProperties, Zenon
<1>2. Len(s) \in Nat /\ Len(u) \in Nat
  OBVIOUS
<1> QED BY <1>1, <1>2

(* The bytes of what is looked for.                                         *)
LEMMA MarkBytes ==
  ASSUME NEW f \in BOOLEAN, NEW b \in Seq(Bytes), NEW mark,
         mark = (IF f THEN <<>> ELSE <<CR, LF>>) \o <<"-", "-">> \o b
  PROVE  /\ f => /\ mark[1] = "-" /\ mark[2] = "-"
                 /\ \A i \in 1 .. Len(b) : mark[2 + i] = b[i]
         /\ ~f => /\ mark[1] = CR /\ mark[2] = LF /\ mark[3] = "-" /\ mark[4] = "-"
                  /\ \A i \in 1 .. Len(b) : mark[4 + i] = b[i]
<1>1. "-" \in Bytes /\ CR \in Bytes /\ LF \in Bytes
  BY MultipartAssumption DEF Blanks
<1>2. \A x, y \in Bytes : /\ <<x, y>> \in Seq(Bytes) /\ Len(<<x, y>>) = 2
                         /\ <<x, y>>[1] = x /\ <<x, y>>[2] = y
  OBVIOUS
<1> DEFINE dashes == <<"-", "-">>
           newline == <<CR, LF>>
<1>3. /\ dashes \in Seq(Bytes) /\ Len(dashes) = 2 /\ dashes[1] = "-" /\ dashes[2] = "-"
      /\ newline \in Seq(Bytes) /\ Len(newline) = 2 /\ newline[1] = CR /\ newline[2] = LF
  BY <1>1, <1>2
<1>4. Len(b) \in Nat /\ 1 \in 1 .. 2 /\ 2 \in 1 .. 2
  OBVIOUS
<1>5. ASSUME f PROVE mark = dashes \o b
  <2>1. mark = (<<>> \o dashes) \o b
    BY <1>5
  <2>2. <<>> \o dashes = dashes
    BY <1>3, ConcatEmptySeq, Zenon
  <2> QED BY <2>1, <2>2
<1>6. ASSUME ~f PROVE mark = (newline \o dashes) \o b
  BY <1>6
<1> HIDE DEF dashes, newline
<1>7. /\ Len(dashes \o b) = Len(dashes) + Len(b)
      /\ \A i \in 1 .. Len(dashes) : (dashes \o b)[i] = dashes[i]
      /\ \A i \in 1 .. Len(b) : (dashes \o b)[Len(dashes) + i] = b[i]
  BY <1>3, Joined, Zenon
<1> DEFINE head == newline \o dashes
<1>8. /\ head \in Seq(Bytes) /\ Len(head) = Len(newline) + Len(dashes)
      /\ \A i \in 1 .. Len(newline) : head[i] = newline[i]
      /\ \A i \in 1 .. Len(dashes) : head[Len(newline) + i] = dashes[i]
  BY <1>3, Joined, Zenon
<1> HIDE DEF head
<1>9. /\ \A i \in 1 .. Len(head) : (head \o b)[i] = head[i]
      /\ \A i \in 1 .. Len(b) : (head \o b)[Len(head) + i] = b[i]
  BY <1>8, Joined, Zenon
<1>10. ASSUME f
       PROVE mark[1] = "-" /\ mark[2] = "-" /\ \A i \in 1 .. Len(b) : mark[2 + i] = b[i]
  BY <1>3, <1>4, <1>5, <1>7, <1>10
<1>11. ASSUME ~f
       PROVE  /\ mark[1] = CR /\ mark[2] = LF /\ mark[3] = "-" /\ mark[4] = "-"
              /\ \A i \in 1 .. Len(b) : mark[4 + i] = b[i]
  <2>1. mark = head \o b
    BY <1>6, <1>11 DEF head
  <2>2. head[1] = CR /\ head[2] = LF /\ head[3] = "-" /\ head[4] = "-" /\ Len(head) = 4
    <3>1. Len(head) = 4 /\ head[1] = CR /\ head[2] = LF
      BY <1>3, <1>4, <1>8
    <3>2. head[2 + 1] = "-" /\ head[2 + 2] = "-"
      BY <1>3, <1>4, <1>8
    <3> QED BY <3>1, <3>2
  <2> HIDE DEF head
  <2>3. \A i \in 1 .. Len(b) : mark[4 + i] = b[i]
    BY <1>9, <2>1, <2>2
  <2>4. \A i \in 1 .. 4 : mark[i] = head[i]
    BY <1>9, <2>1, <2>2
  <2>5. 1 \in 1 .. 4 /\ 2 \in 1 .. 4 /\ 3 \in 1 .. 4 /\ 4 \in 1 .. 4
    OBVIOUS
  <2>6. mark[1] = head[1] /\ mark[2] = head[2] /\ mark[3] = head[3] /\ mark[4] = head[4]
    BY <2>4, <2>5, Zenon
  <2> QED BY <2>2, <2>3, <2>6, Zenon
<1> QED BY <1>10, <1>11

(* What is read is what comes next in the input.                            *)
LEMMA ReadOrdered ==
  ASSUME StreamOK, StreamPlace, Ordered, NEW n \in Nat
  PROVE  \A i \in 1 .. Got(n) : mpRead(n)[i] = input[offset + i]
<1> DEFINE left == SubSeq(input, inpos + 1, Len(input))
<1>1. /\ input \in Seq(Bytes) /\ putback \in Seq(Bytes) /\ inpos \in Nat /\ offset \in Nat
      /\ offset = inpos - Len(putback) /\ Len(putback) \in Nat /\ Len(input) \in Nat
      /\ inpos <= Len(input)
  BY DEF StreamOK, OffsetIsPlace, StreamPlace
<1>2. left \in Seq(Bytes) /\ Len(left) = Len(input) - inpos
  BY <1>1, Rest
<1>3. \A i \in 1 .. Len(input) - inpos : left[i] = input[inpos + i]
  <2>1. \A i \in inpos + 1 .. Len(input) : input[i] \in Bytes
    BY <1>1
  <2>2. inpos + 1 \in Int /\ Len(input) \in Int
    BY <1>1
  <2>3. \A i \in 1 .. Len(input) - (inpos + 1) + 1 : left[i] = input[(inpos + 1) + i - 1]
    BY <2>1, <2>2, SubSeqProperties
  <2> QED BY <1>1, <2>3
<1>4. Pending = putback \o left
  BY DEF Pending
<1> HIDE DEF left
<1>5. /\ \A i \in 1 .. Len(putback) : Pending[i] = putback[i]
      /\ \A i \in 1 .. Len(left) : Pending[Len(putback) + i] = left[i]
  BY <1>1, <1>2, <1>4, Joined, Zenon
<1>6. ASSUME NEW i \in 1 .. Len(input) - offset PROVE Pending[i] = input[offset + i]
  <2>1. CASE i <= Len(putback)
    BY <1>1, <1>5, <2>1 DEF Ordered
  <2>2. CASE i > Len(putback)
    <3> DEFINE j == i - Len(putback)
    <3>1. j \in 1 .. Len(left) /\ i = Len(putback) + j /\ inpos + j = offset + i
      BY <1>1, <1>2, <2>2
    <3> HIDE DEF j
    <3>2. Pending[i] = left[j] /\ left[j] = input[inpos + j]
      BY <1>2, <1>3, <1>5, <3>1
    <3> QED BY <3>1, <3>2
  <2> QED BY <1>1, <2>1, <2>2
<1>7. /\ Pending \in Seq(Bytes) /\ Len(Pending) = Len(input) - offset
      /\ Got(n) \in Nat /\ Got(n) <= Len(input) - offset
  BY <1>1, Read, ReadPlace
<1>8. \A i \in 1 .. Got(n) : mpRead(n)[i] = Pending[i]
  BY <1>7 DEF mpRead
<1> QED BY <1>1, <1>6, <1>7, <1>8

(* The last bytes read are put back, when no others are in the buffer, or   *)
(* nothing is put back: the buffer stays in order.                          *)
LEMMA TakeOrdered ==
  ASSUME StreamOK, StreamPlace, Ordered, UNCHANGED request,
         NEW m \in Nat, NEW n \in Nat, n <= Got(m),
         NEW back \in Seq(Bytes), Take(n, back), Len(back) = 0 \/ Len(putback) <= n,
         \A i \in 1 .. Len(back) : back[i] = input[offset + n - Len(back) + i]
  PROVE  /\ Ordered'
         /\ Len(putback) <= n => putback' = back
         /\ Len(back) = 0 => \A i \in 1 .. Len(putback') : putback'[i] = putback[n + i]
<1> DEFINE old == Min({n, Len(putback)})
           rest == SubSeq(putback, old + 1, Len(putback))
<1>1. Len(putback) \in Nat /\ putback \in Seq(Bytes) /\ offset \in Nat /\ Len(back) \in Nat
  BY DEF StreamOK, StreamPlace
<1>2. /\ old = IF n <= Len(putback) THEN n ELSE Len(putback)
      /\ old \in Nat /\ old <= Len(putback)
  BY <1>1, MinOfTwo
<1>3. putback' = rest \o back /\ offset' = offset + n - Len(back) /\ input' = input
  BY DEF Take, request
<1>4. rest \in Seq(Bytes) /\ Len(rest) = Len(putback) - old
  BY <1>1, <1>2, Rest
<1>5. \A i \in 1 .. Len(putback) - old : rest[i] = putback[old + i]
  <2>1. \A i \in old + 1 .. Len(putback) : putback[i] \in Bytes
    BY <1>1, <1>2
  <2>2. old + 1 \in Int /\ Len(putback) \in Int
    BY <1>1, <1>2
  <2> HIDE DEF old
  <2>3. \A i \in 1 .. Len(putback) - (old + 1) + 1 : rest[i] = putback[(old + 1) + i - 1]
    BY <2>1, <2>2, SubSeqProperties
  <2> QED BY <1>1, <1>2, <2>3
<1> HIDE DEF old, rest
<1>6. CASE Len(putback) <= n
  <2>1. Len(rest) = 0
    BY <1>1, <1>2, <1>4, <1>6
  <2>2. rest = <<>>
    BY <1>4, <2>1
  <2>3. <<>> \o back = back
    BY ConcatEmptySeq, Zenon
  <2>4. putback' = back
    BY <1>3, <2>2, <2>3
  <2>5. Ordered'
    BY <1>3, <2>4 DEF Ordered
  <2>6. Len(back) = 0 => \A i \in 1 .. Len(putback') : putback'[i] = putback[n + i]
    BY <2>4
  <2> QED BY <2>4, <2>5, <2>6
<1>7. CASE Len(back) = 0 /\ n < Len(putback)
  <2>1. back = <<>> /\ old = n
    BY <1>1, <1>2, <1>7
  <2>2. rest \o <<>> = rest
    BY <1>4, ConcatEmptySeq, Zenon
  <2>3. putback' = rest
    BY <1>3, <2>1, <2>2
  <2>4. \A i \in 1 .. Len(putback') : putback'[i] = putback[n + i] /\ n + i \in 1 .. Len(putback)
    BY <1>1, <1>4, <1>5, <2>1, <2>3
  <2>5. Ordered'
    <3> SUFFICES ASSUME NEW i \in 1 .. Len(putback') PROVE putback'[i] = input'[offset' + i]
      BY DEF Ordered
    <3>1. putback'[i] = putback[n + i] /\ putback[n + i] = input[offset + (n + i)]
      BY <2>4 DEF Ordered
    <3>2. offset' + i = offset + (n + i)
      BY <1>1, <1>3, <1>7, <2>3, <1>4
    <3> QED BY <1>3, <3>1, <3>2
  <2> QED BY <1>1, <1>7, <2>4, <2>5
<1> QED BY <1>1, <1>6, <1>7

-------------------------------------------------------------------------------
(* The first boundary looked for: the input begins with it, or it is dashes *)
(* but for its last byte.                                                   *)
LEMMA FirstMark ==
  ASSUME StreamOK, first = TRUE
  PROVE  /\ BoundaryLeads => /\ Len(workingBoundary) <= Len(input)
                             /\ \A i \in 1 .. Len(workingBoundary) : input[i] = workingBoundary[i]
         /\ DashesOnly => \A i \in 1 .. Len(workingBoundary) - 1 : workingBoundary[i] = "-"
<1>1. /\ workingBoundary \in Seq(Bytes) /\ Len(boundary) \in Nat /\ boundary \in Seq(Bytes)
      /\ Len(workingBoundary) = 2 + Len(boundary) /\ input \in Seq(Bytes) /\ Len(input) \in Nat
  BY BoundaryLength DEF StreamOK
<1>2. workingBoundary = (IF first THEN <<>> ELSE <<CR, LF>>) \o <<"-", "-">> \o boundary
  BY DEF workingBoundary
<1>3. /\ workingBoundary[1] = "-" /\ workingBoundary[2] = "-"
      /\ \A i \in 1 .. Len(boundary) : workingBoundary[2 + i] = boundary[i]
  BY <1>1, <1>2, MarkBytes
<1>4. workingBoundary = <<"-", "-">> \o boundary
  <2>1. "-" \in Bytes
    BY MultipartAssumption
  <2>2. <<"-", "-">> \in Seq(Bytes)
    BY <2>1
  <2>3. <<>> \o <<"-", "-">> = <<"-", "-">>
    BY <2>2, ConcatEmptySeq, Zenon
  <2> QED BY <1>2, <2>3
<1>5. ASSUME BoundaryLeads
      PROVE  /\ Len(workingBoundary) <= Len(input)
             /\ \A i \in 1 .. Len(workingBoundary) : input[i] = workingBoundary[i]
  <2>1. IsPrefix(workingBoundary, input)
    BY <1>4, <1>5 DEF BoundaryLeads
  <2> DEFINE n == Len(workingBoundary)
  <2>2. n <= Len(input) /\ SubSeq(workingBoundary, 1, n) = SubSeq(input, 1, n) /\ n \in Nat
    BY <1>1, <2>1 DEF IsPrefix
  <2>3. /\ \A i \in 1 .. n : SubSeq(workingBoundary, 1, n)[i] = workingBoundary[i]
        /\ \A i \in 1 .. n : SubSeq(input, 1, n)[i] = input[i]
    <3> HIDE DEF n
    <3>1. n <= Len(workingBoundary)
      BY <2>2 DEF n
    <3> QED BY <1>1, <2>2, <3>1
  <2> QED BY <2>2, <2>3
<1>6. ASSUME DashesOnly, NEW i \in 1 .. Len(workingBoundary) - 1
      PROVE  workingBoundary[i] = "-"
  <2>1. CASE i <= 2
    <3>1. i = 1 \/ i = 2
      BY <1>1, <2>1
    <3> QED BY <1>3, <3>1
  <2>2. CASE i > 2
    <3> DEFINE j == i - 2
    <3>1. j \in 1 .. Len(boundary) - 1 /\ j \in 1 .. Len(boundary) /\ i = 2 + j
      BY <1>1, <2>2
    <3> HIDE DEF j
    <3>2. workingBoundary[2 + j] = boundary[j]
      BY <1>3, <3>1
    <3>3. boundary[j] = "-"
      BY <1>6, <3>1 DEF DashesOnly
    <3> QED BY <3>1, <3>2, <3>3
  <2> QED BY <1>1, <2>1, <2>2
<1> QED BY <1>5, <1>6

(* A later boundary begins with the only CR in it.                          *)
LEMMA NextMark ==
  ASSUME StreamOK, BoundaryPlain, first = FALSE
  PROVE  workingBoundary[1] = CR /\ \A i \in 2 .. Len(workingBoundary) : workingBoundary[i] # CR
<1>1. /\ workingBoundary \in Seq(Bytes) /\ Len(boundary) \in Nat /\ boundary \in Seq(Bytes)
      /\ Len(workingBoundary) = 4 + Len(boundary)
  BY BoundaryLength DEF StreamOK
<1>2. workingBoundary = (IF first THEN <<>> ELSE <<CR, LF>>) \o <<"-", "-">> \o boundary
  BY DEF workingBoundary
<1>3. /\ workingBoundary[1] = CR /\ workingBoundary[2] = LF
      /\ workingBoundary[3] = "-" /\ workingBoundary[4] = "-"
      /\ \A i \in 1 .. Len(boundary) : workingBoundary[4 + i] = boundary[i]
  BY <1>1, <1>2, MarkBytes
<1>4. LF # CR /\ "-" # CR
  BY DEF CR, LF
<1>5. ASSUME NEW i \in 2 .. Len(workingBoundary) PROVE workingBoundary[i] # CR
  <2>1. CASE i <= 4
    <3>1. i = 2 \/ i = 3 \/ i = 4
      BY <1>1, <2>1
    <3> QED BY <1>3, <1>4, <3>1
  <2>2. CASE i > 4
    <3> DEFINE j == i - 4
    <3>1. j \in 1 .. Len(boundary) /\ i = 4 + j
      BY <1>1, <2>2
    <3> HIDE DEF j
    <3>2. workingBoundary[4 + j] = boundary[j] /\ boundary[j] # CR
      BY <1>3, <3>1 DEF BoundaryPlain
    <3> QED BY <3>1, <3>2
  <2> QED BY <1>1, <2>1, <2>2
<1> QED BY <1>3, <1>5

(* One byte is read: it is the next one of the input, and it comes from the *)
(* buffer as long as there is one.                                          *)
LEMMA NextByte ==
  ASSUME StreamOK, StreamPlace, Ordered, Got(1) = 1
  PROVE  /\ mpRead(1) = <<input[offset + 1]>> /\ input[offset + 1] \in Bytes
         /\ offset + 1 <= Len(input) /\ offset + 1 <= contentLength
         /\ Len(putback) > 0 => input[offset + 1] = putback[1]
<1>1. /\ mpRead(1) \in Seq(Bytes) /\ Len(mpRead(1)) = 1
      /\ 1 <= contentLength - offset /\ 1 <= Len(input) - offset
  BY Read, ReadPlace DEF StreamPlace
<1>2. mpRead(1)[1] = input[offset + 1]
  <2>1. 1 \in 1 .. Got(1) /\ 1 \in Nat
    OBVIOUS
  <2> QED BY <2>1, ReadOrdered, Zenon
<1>3. mpRead(1) = <<mpRead(1)[1]>> /\ mpRead(1)[1] \in Bytes
  BY <1>1
<1>4. /\ offset \in Nat /\ Len(input) \in Nat /\ contentLength \in Nat
      /\ Len(putback) \in Nat
  BY DEF StreamOK, StreamPlace
<1>5. Len(putback) > 0 => input[offset + 1] = putback[1]
  BY <1>4 DEF Ordered
<1> QED BY <1>1, <1>2, <1>3, <1>4, <1>5

(* ... and nothing is put back.                                             *)
LEMMA ReadsOne ==
  ASSUME StreamOK, StreamPlace, Ordered, UNCHANGED request, Got(1) = 1, Take(1, <<>>)
  PROVE  /\ Ordered' /\ offset' = offset + 1
         /\ Len(putback') = IF 1 <= Len(putback) THEN Len(putback) - 1 ELSE 0
         /\ \A i \in 1 .. Len(putback') : putback'[i] = putback[1 + i]
<1> DEFINE none == <<>>
<1>1. /\ none \in Seq(Bytes) /\ Len(none) = 0 /\ Take(1, none)
      /\ \A i \in 1 .. Len(none) : none[i] = input[offset + 1 - Len(none) + i]
  BY EmptySeq
<1>2. 1 \in Nat /\ 1 <= Got(1)
  OBVIOUS
<1>3. offset' = offset + 1
  BY <1>2, MovesBy, Zenon
<1>4. Len(putback') = IF 1 <= Len(putback) THEN Len(putback) - 1 ELSE 0
  BY <1>2, ReadOnly, Zenon
<1> HIDE DEF none
<1>5. Ordered' /\ \A i \in 1 .. Len(putback') : putback'[i] = putback[1 + i]
  BY <1>1, <1>2, TakeOrdered, Zenon
<1> QED BY <1>3, <1>4, <1>5

(* The bytes that match grow by the one that was read.                      *)
LEMMA MatchOrder ==
  ASSUME StreamOK, BufferOK, PlaceOK, BoundaryPlain, Ordered, Matched, Tame, ScanMatches
  PROVE  Ordered' /\ Matched' /\ Tame'
<1>0. /\ pc = "scan" /\ first \in BOOLEAN /\ boffset \in Nat /\ boffset <= offset
      /\ Len(putback) + boffset < Len(workingBoundary)
      /\ StreamPlace /\ offset \in Nat /\ Len(putback) \in Nat
  BY DEF BufferOK, StreamOK, PlaceOK, StreamPlace, BoundaryPlace, ScanMatches
<1>1. workingBoundary \in Seq(Bytes) /\ Len(workingBoundary) \in Nat
  BY <1>0, BoundaryLength
<1>2. /\ mpRead(1) = <<workingBoundary[boffset + 1]>> /\ Take(1, <<>>)
      /\ boffset' = boffset + 1 /\ pc' \in {"scan", "trail"}
      /\ UNCHANGED <<request, first>> /\ workingBoundary' = workingBoundary
  BY DEF ScanMatches, workingBoundary, request
<1>3. Got(1) = 1
  <2>1. Len(<<workingBoundary[boffset + 1]>>) = 1
    OBVIOUS
  <2>2. Len(mpRead(1)) = Got(1)
    BY Read
  <2> QED BY <1>2, <2>1, <2>2
<1>4. /\ Ordered' /\ offset' = offset + 1
      /\ Len(putback') = IF 1 <= Len(putback) THEN Len(putback) - 1 ELSE 0
      /\ \A i \in 1 .. Len(putback') : putback'[i] = putback[1 + i]
  BY <1>0, <1>2, <1>3, ReadsOne
<1>5. /\ input[offset + 1] = workingBoundary[boffset + 1]
      /\ Len(putback) > 0 => input[offset + 1] = putback[1]
  <2>1. mpRead(1) = <<input[offset + 1]>> /\ (Len(putback) > 0 => input[offset + 1] = putback[1])
    BY <1>0, <1>3, NextByte
  <2> QED BY <1>2, <2>1
<1>6. Matched'
  <2>1. \A i \in 1 .. boffset : input[offset - boffset + i] = workingBoundary[i]
    BY <1>0 DEF Matched
  <2>2. ASSUME NEW i \in 1 .. boffset + 1
        PROVE  input[(offset + 1) - (boffset + 1) + i] = workingBoundary[i]
    <3>1. (offset + 1) - (boffset + 1) + i = offset - boffset + i
      BY <1>0
    <3>2. CASE i = boffset + 1
      <4>1. offset - boffset + i = offset + 1
        BY <1>0, <3>2
      <4> QED BY <1>5, <3>1, <3>2, <4>1
    <3>3. CASE i # boffset + 1
      <4>1. i \in 1 .. boffset
        BY <1>0, <3>3
      <4> QED BY <2>1, <3>1, <4>1
    <3> QED BY <3>2, <3>3
  <2>3. input' = input /\ boffset' <= offset'
    BY <1>0, <1>2, <1>4 DEF request
  <2> QED BY <1>2, <1>4, <2>2, <2>3 DEF Matched
<1>7. Tame'
  <2>1. CASE first
    <3>1. FirstTame
      BY <1>0, <2>1 DEF Tame
    <3>2. CASE BoundaryLeads /\ Len(putback) = 0 /\ offset = boffset
      <4>1. BoundaryLeads' /\ Len(putback') = 0 /\ offset' = boffset'
        BY <1>2, <1>4, <3>2 DEF BoundaryLeads, request
      <4> QED BY <1>2, <2>1, <4>1 DEF Tame, FirstTame
    <3>3. CASE DashesOnly /\ \A i \in 1 .. Len(putback) - 1 : putback[i] = "-"
      <4>1. DashesOnly' /\ \A i \in 1 .. Len(putback') - 1 : putback'[i] = "-"
        BY <1>0, <1>2, <1>4, <3>3 DEF DashesOnly, request
      <4> QED BY <1>2, <2>1, <4>1 DEF Tame, FirstTame
    <3> QED BY <3>1, <3>2, <3>3 DEF FirstTame
  <2>2. CASE ~first
    <3>1. NextTame /\ first = FALSE
      BY <1>0, <2>2 DEF Tame
    <3>2. workingBoundary[1] = CR
      BY <3>1, NextMark
    <3>3. Len(putback) <= 1
      <4>1. CASE boffset > 0
        BY <3>1, <4>1 DEF NextTame
      <4>2. CASE boffset = 0
        <5>1. Len(putback) > 0 => putback[1] = CR
          BY <1>5, <3>2, <4>2
        <5> QED BY <1>0, <3>1, <5>1 DEF NextTame
      <4> QED BY <1>0, <4>1, <4>2
    <3>4. Len(putback') = 0
      <4>1. Len(putback') = IF 1 <= Len(putback) THEN Len(putback) - 1 ELSE 0
        BY <1>4
      <4>2. Len(putback) = 0 \/ Len(putback) = 1
        <5> DEFINE l == Len(putback)
        <5>1. l \in Nat /\ l <= 1
          BY <1>0, <3>3
        <5> HIDE DEF l
        <5>2. l = 0 \/ l = 1
          BY <5>1
        <5> QED BY <5>2 DEF l
      <4> QED BY <4>1, <4>2
    <3> QED BY <1>2, <2>2, <3>4 DEF Tame, NextTame
  <2> QED BY <2>1, <2>2
<1> QED BY <1>4, <1>6, <1>7

(* A byte that begins no boundary is read, and it stays read.               *)
LEMMA EmitOrder ==
  ASSUME StreamOK, BufferOK, PlaceOK, BoundaryPlain, Ordered, Matched, Tame, ScanEmits
  PROVE  Ordered' /\ Matched' /\ Tame'
<1>0. /\ pc = "scan" /\ first \in BOOLEAN /\ boffset = 0
      /\ Len(putback) < Len(workingBoundary)
      /\ StreamPlace /\ offset \in Nat /\ Len(putback) \in Nat
  BY DEF BufferOK, StreamOK, PlaceOK, StreamPlace, ScanEmits
<1>1. workingBoundary \in Seq(Bytes) /\ Len(workingBoundary) \in Nat
  BY <1>0, BoundaryLength
<1>2. /\ mpRead(1) # <<workingBoundary[1]>> /\ Take(1, <<>>) /\ Got(1) = 1
      /\ UNCHANGED <<request, first, pc, boffset>> /\ workingBoundary' = workingBoundary
  BY DEF ScanEmits, workingBoundary, request
<1>3. /\ Ordered' /\ offset' = offset + 1
      /\ Len(putback') = IF 1 <= Len(putback) THEN Len(putback) - 1 ELSE 0
      /\ \A i \in 1 .. Len(putback') : putback'[i] = putback[1 + i]
  BY <1>0, <1>2, ReadsOne
<1>4. input[offset + 1] # workingBoundary[1]
  <2>1. mpRead(1) = <<input[offset + 1]>>
    BY <1>0, <1>2, NextByte
  <2> QED BY <1>2, <2>1
<1>5. Matched'
  BY <1>0, <1>2, <1>3 DEF Matched
<1>6. Tame'
  <2>1. CASE first
    <3>1. FirstTame /\ first = TRUE
      BY <1>0, <2>1 DEF Tame
    <3>2. CASE BoundaryLeads /\ Len(putback) = 0 /\ offset = boffset
      <4>1. input[1] = workingBoundary[1]
        <5>1. \A i \in 1 .. Len(workingBoundary) : input[i] = workingBoundary[i]
          BY <3>1, <3>2, FirstMark
        <5> QED BY <1>0, <1>1, <5>1
      <4> QED BY <1>0, <1>4, <3>2, <4>1
    <3>3. CASE DashesOnly /\ \A i \in 1 .. Len(putback) - 1 : putback[i] = "-"
      <4>1. DashesOnly' /\ \A i \in 1 .. Len(putback') - 1 : putback'[i] = "-"
        BY <1>0, <1>2, <1>3, <3>3 DEF DashesOnly, request
      <4> QED BY <1>0, <1>2, <2>1, <4>1 DEF Tame, FirstTame
    <3> QED BY <3>1, <3>2, <3>3 DEF FirstTame
  <2>2. CASE ~first
    <3>1. NextTame
      BY <1>0, <2>2 DEF Tame
    <3>2. NextTame'
      BY <1>0, <1>2, <1>3, <3>1 DEF NextTame
    <3> QED BY <1>0, <1>2, <2>2, <3>2 DEF Tame
  <2> QED BY <2>1, <2>2
<1> QED BY <1>3, <1>5, <1>6

(* A false match is only put back when the buffer is empty, and so in order.*)
LEMMA FalseOrder ==
  ASSUME StreamOK, BufferOK, PlaceOK, BoundaryPlain, Ordered, Matched, Tame, ScanFalseMatch
  PROVE  Ordered' /\ Matched' /\ Tame'
<1> DEFINE tried == SubSeq(workingBoundary, 2, boffset)
           back == tried \o mpRead(1)
<1>0. /\ pc = "scan" /\ first \in BOOLEAN /\ boffset \in Nat /\ boffset <= offset
      /\ Len(putback) + boffset < Len(workingBoundary)
      /\ StreamPlace /\ offset \in Nat /\ Len(putback) \in Nat
  BY DEF BufferOK, StreamOK, PlaceOK, StreamPlace, BoundaryPlace, ScanFalseMatch, FalseMatch
<1>1. workingBoundary \in Seq(Bytes) /\ Len(workingBoundary) \in Nat
  BY <1>0, BoundaryLength
<1>2. /\ mpRead(1) # <<workingBoundary[boffset + 1]>> /\ Take(1, back) /\ Got(1) = 1
      /\ boffset > 0 /\ boffset' = 0
      /\ UNCHANGED <<request, first, pc>> /\ workingBoundary' = workingBoundary
  BY DEF ScanFalseMatch, FalseMatch, workingBoundary, request
<1>3. /\ mpRead(1) = <<input[offset + 1]>> /\ input[offset + 1] \in Bytes
      /\ Len(putback) > 0 => input[offset + 1] = putback[1]
  BY <1>0, <1>2, NextByte
<1>4. input[offset + 1] # workingBoundary[boffset + 1]
  BY <1>2, <1>3
<1>5. /\ tried \in Seq(Bytes) /\ Len(tried) = boffset - 1
      /\ \A i \in 1 .. boffset - 1 : tried[i] = workingBoundary[i + 1]
  <2>1. boffset <= Len(workingBoundary)
    BY <1>0, <1>1
  <2> QED BY <1>0, <1>1, <1>2, <2>1
<1>6. /\ back \in Seq(Bytes) /\ Len(back) = boffset
      /\ \A i \in 1 .. boffset - 1 : back[i] = workingBoundary[i + 1]
      /\ back[boffset] = input[offset + 1]
  <2> HIDE DEF tried
  <2>1. mpRead(1) \in Seq(Bytes) /\ Len(mpRead(1)) = 1 /\ mpRead(1)[1] = input[offset + 1]
    <3>1. \A x \in Bytes : <<x>> \in Seq(Bytes) /\ Len(<<x>>) = 1 /\ <<x>>[1] = x
      OBVIOUS
    <3> QED BY <1>3, <3>1, Zenon
  <2>2. /\ back \in Seq(Bytes) /\ Len(back) = Len(tried) + Len(mpRead(1))
        /\ \A i \in 1 .. Len(tried) : back[i] = tried[i]
        /\ \A i \in 1 .. Len(mpRead(1)) : back[Len(tried) + i] = mpRead(1)[i]
    BY <1>5, <2>1, Joined, Zenon
  <2> HIDE DEF back
  <2>3. Len(back) = boffset /\ \A i \in 1 .. boffset - 1 : back[i] = workingBoundary[i + 1]
    <3>1. Len(back) = (boffset - 1) + 1
      BY <1>5, <2>1, <2>2, Zenon
    <3>2. \A i \in 1 .. boffset - 1 : back[i] = workingBoundary[i + 1]
      BY <1>5, <2>2, Zenon
    <3> QED BY <1>0, <3>1, <3>2
  <2>4. back[(boffset - 1) + 1] = mpRead(1)[1]
    BY <1>5, <2>1, <2>2
  <2>5. (boffset - 1) + 1 = boffset
    BY <1>0
  <2> QED BY <2>1, <2>2, <2>3, <2>4, <2>5
<1> HIDE DEF back, tried
<1>7. \A i \in 1 .. Len(back) : back[i] = input[offset + 1 - Len(back) + i]
  <2> SUFFICES ASSUME NEW i \in 1 .. boffset PROVE back[i] = input[offset + 1 - boffset + i]
    BY <1>6
  <2>1. CASE i = boffset
    <3>1. offset + 1 - boffset + i = offset + 1
      BY <1>0, <2>1
    <3> QED BY <1>6, <2>1, <3>1
  <2>2. CASE i # boffset
    <3>1. i \in 1 .. boffset - 1 /\ i + 1 \in 1 .. boffset
      BY <1>0, <2>2
    <3>2. back[i] = workingBoundary[i + 1]
      BY <1>6, <3>1
    <3>3. input[offset - boffset + (i + 1)] = workingBoundary[i + 1]
      BY <1>0, <3>1 DEF Matched
    <3>4. offset - boffset + (i + 1) = offset + 1 - boffset + i
      BY <1>0
    <3> QED BY <3>2, <3>3, <3>4
  <2> QED BY <2>1, <2>2
<1>8. /\ Len(putback) <= 1
      /\ first => DashesOnly
  <2>1. CASE first
    <3>1. FirstTame /\ first = TRUE
      BY <1>0, <2>1 DEF Tame
    <3>2. CASE BoundaryLeads /\ Len(putback) = 0 /\ offset = boffset
      <4>1. \A i \in 1 .. Len(workingBoundary) : input[i] = workingBoundary[i]
        BY <3>1, <3>2, FirstMark
      <4>2. boffset + 1 \in 1 .. Len(workingBoundary)
        BY <1>0, <1>1
      <4> QED BY <1>4, <3>2, <4>1, <4>2
    <3>3. CASE DashesOnly /\ \A i \in 1 .. Len(putback) - 1 : putback[i] = "-"
      <4>1. SUFFICES ASSUME Len(putback) > 1 PROVE FALSE
        BY <1>0, <3>3
      <4>2. input[offset + 1] = "-"
        BY <1>0, <1>3, <3>3, <4>1
      <4>3. boffset + 1 \in 1 .. Len(workingBoundary) - 1
        BY <1>0, <1>1, <4>1
      <4>4. workingBoundary[boffset + 1] = "-"
        BY <3>1, <3>3, <4>3, FirstMark
      <4> QED BY <1>4, <4>2, <4>4
    <3> QED BY <3>1, <3>2, <3>3 DEF FirstTame
  <2>2. CASE ~first
    BY <1>0, <1>2, <2>2 DEF Tame, NextTame
  <2> QED BY <2>1, <2>2
<1>9. 1 \in Nat /\ 1 <= Got(1) /\ Len(back) <= offset + 1
  BY <1>0, <1>2, <1>6
<1>10. Ordered' /\ putback' = back
  BY <1>0, <1>2, <1>6, <1>7, <1>8, <1>9, TakeOrdered, Zenon
<1>11. offset' \in Nat
  BY <1>0, <1>2, <1>6, <1>9, MovesOn, Zenon DEF StreamPlace
<1>12. Matched'
  BY <1>2, <1>11 DEF Matched
<1>13. Tame'
  <2>1. CASE first
    <3>1. \A i \in 1 .. boffset - 1 : back[i] = "-"
      <4>1. \A i \in 1 .. Len(workingBoundary) - 1 : workingBoundary[i] = "-"
        <5>1. first = TRUE
          BY <1>0, <2>1
        <5> QED BY <1>8, <5>1, FirstMark
      <4> QED BY <1>0, <1>1, <1>6, <4>1
    <3>2. DashesOnly'
      BY <1>2, <1>8, <2>1 DEF DashesOnly, request
    <3> QED BY <1>0, <1>2, <1>6, <1>10, <2>1, <3>1, <3>2 DEF Tame, FirstTame
  <2>2. CASE ~first
    <3>1. \A i \in 1 .. boffset - 1 : back[i] # CR
      <4>1. \A i \in 2 .. Len(workingBoundary) : workingBoundary[i] # CR
        <5>1. first = FALSE
          BY <1>0, <2>2
        <5> QED BY <5>1, NextMark
      <4> QED BY <1>0, <1>1, <1>6, <4>1
    <3> QED BY <1>0, <1>2, <1>6, <1>10, <2>2, <3>1 DEF Tame, NextTame
  <2> QED BY <2>1, <2>2
<1> QED BY <1>10, <1>12, <1>13

-------------------------------------------------------------------------------
(* A read that gets less than it asks for is at the end, whether that is    *)
(* the declared one or cgiIn's, and has emptied the buffer.                 *)
LEMMA NoMore ==
  ASSUME StreamOK, StreamPlace, NEW n \in Nat, Got(n) # n
  PROVE  NothingLeft \/ Got(n) > 0
<1>1. Got(n) \in Nat /\ Got(n) \in {n, contentLength - offset, Len(input) - offset}
  BY Read, ReadPlace DEF StreamPlace
<1>2. Len(input) \in Nat /\ offset \in Nat /\ contentLength \in Nat
  BY DEF StreamOK, StreamPlace
<1>3. CASE Got(n) = contentLength - offset
  BY <1>1, <1>2, <1>3 DEF NothingLeft
<1>4. CASE Got(n) = Len(input) - offset
  BY <1>1, <1>2, <1>4 DEF NothingLeft
<1> QED BY <1>1, <1>3, <1>4

(* At the end nothing is left in the buffer.                                *)
LEMMA NoneLeft ==
  ASSUME StreamOK, StreamPlace, NothingLeft PROVE Len(putback) = 0
<1>1. Len(putback) \in Nat /\ Len(input) \in Nat /\ inpos \in Nat /\ contentLength \in Nat
  BY DEF StreamOK
<1> QED BY <1>1 DEF StreamOK, OffsetIsPlace, StreamPlace, NothingLeft

(* Bytes are read, and nothing is put back.                                 *)
LEMMA ReadsSome ==
  ASSUME StreamOK, StreamPlace, Ordered, UNCHANGED request, NEW m \in Nat,
         NEW n \in Nat, n <= Got(m), Take(n, <<>>)
  PROVE  Ordered'
<1> DEFINE none == <<>>
<1>1. /\ none \in Seq(Bytes) /\ Len(none) = 0 /\ Take(n, none)
      /\ \A i \in 1 .. Len(none) : none[i] = input[offset + n - Len(none) + i]
  BY EmptySeq
<1> HIDE DEF none
<1> QED BY <1>1, TakeOrdered, Zenon

(* All that was read is put back, and was all there was in the buffer.      *)
LEMMA PutsAllBack ==
  ASSUME StreamOK, StreamPlace, Ordered, UNCHANGED request, NEW m \in Nat,
         Len(putback) <= Got(m), Take(Got(m), mpRead(m))
  PROVE  Ordered' /\ putback' = mpRead(m)
<1>1. /\ Got(m) \in Nat /\ Got(m) <= Got(m)
      /\ mpRead(m) \in Seq(Bytes) /\ Len(mpRead(m)) = Got(m)
  BY Read
<1>2. offset \in Nat
  BY DEF StreamPlace
<1>3. \A i \in 1 .. Len(mpRead(m)) : mpRead(m)[i] = input[offset + Got(m) - Len(mpRead(m)) + i]
  <2>1. \A i \in 1 .. Got(m) : mpRead(m)[i] = input[offset + i]
    BY ReadOrdered
  <2>2. offset + Got(m) - Len(mpRead(m)) = offset
    BY <1>1, <1>2
  <2> QED BY <1>1, <2>1, <2>2
<1> QED BY <1>1, <1>3, TakeOrdered, Zenon

(* The scan behind a header begins with one byte in the buffer at most.     *)
LEMMA LineEndsOrder ==
  ASSUME StreamOK', StreamPlace', Len(putback') <= 1, NEW from,
         LineEnds(from) \/ Scan(FALSE, from)
  PROVE  Matched' /\ Tame'
<1>0. Len(putback') \in Nat /\ offset' \in Nat
  BY DEF StreamOK, StreamPlace
<1>1. CASE pc' = "line"
  BY <1>0, <1>1 DEF Matched, Tame
<1>2. CASE Scan(FALSE, from)
  <2>1. pc' = "scan" /\ first' = FALSE /\ boffset' = 0
    BY <1>2 DEF Scan
  <2> QED BY <1>0, <2>1 DEF Matched, Tame, NextTame
<1> QED BY <1>1, <1>2 DEF LineEnds

(* What follows a boundary keeps the buffer in order.                       *)
LEMMA BetweenOrder ==
  ASSUME StreamOK, BufferOK, PlaceOK, Ordered, Matched, Tame, StreamOK', PlaceOK',
         Trail \/ Part \/ LineByte \/ LineBreaksOff \/ LineFeed \/ LineBlanks
  PROVE  Ordered' /\ Matched' /\ Tame'
<1>0. /\ UNCHANGED request /\ StreamPlace /\ StreamPlace' /\ offset \in Nat
      /\ Len(putback) \in Nat /\ Len(putback') \in Nat
  <2>1. UNCHANGED request
    BY DEF Trail, Part, LineByte, LineBreaksOff, LineFeed, LineBlanks
  <2>2. StreamPlace /\ StreamPlace'
    BY DEF PlaceOK
  <2>3. offset \in Nat /\ Len(putback) \in Nat /\ Len(putback') \in Nat
    BY <2>2 DEF StreamPlace, StreamOK
  <2> QED BY <2>1, <2>2, <2>3
<1>1. 1 \in Nat /\ 2 \in Nat
  OBVIOUS
<1>2. /\ Got(1) \in Nat /\ Got(1) <= 1 /\ mpRead(1) \in Seq(Bytes) /\ Len(mpRead(1)) = Got(1)
      /\ Got(2) \in Nat /\ Got(2) <= 2 /\ mpRead(2) \in Seq(Bytes) /\ Len(mpRead(2)) = Got(2)
      /\ Got(1) <= Got(1) /\ Got(2) <= Got(2)
  BY Read
<1>4. CASE Trail
  <2>0. pc = "trail" /\ Len(putback) = 0 /\ pc' \in {"end", "part"}
    BY <1>4 DEF BufferOK, Trail, Return
  <2>1. CASE Take(Got(2), <<>>)
    BY <1>0, <1>1, <1>2, <2>0, <2>1, ReadsSome, Zenon DEF Matched, Tame
  <2>2. CASE Got(2) = 2 /\ Take(2, <<>>)
    <3>1. 2 <= Got(2)
      BY <2>2
    <3>2. Ordered'
      BY <1>0, <1>1, <2>2, <3>1, ReadsSome, Zenon
    <3> QED BY <2>0, <3>2 DEF Matched, Tame
  <2>3. CASE Got(2) = 2 /\ Take(2, mpRead(2))
    <3>1. Take(Got(2), mpRead(2)) /\ Len(putback) <= Got(2)
      BY <1>2, <2>0, <2>3
    <3>2. Ordered'
      BY <1>0, <1>1, <3>1, PutsAllBack, Zenon
    <3> QED BY <2>0, <3>2 DEF Matched, Tame
  <2> QED BY <1>4, <2>1, <2>2, <2>3 DEF Trail
<1>5. CASE Part
  <2>0. pc = "part" /\ Len(putback) <= 2 /\ line' = NoLine
    BY <1>5 DEF BufferOK, Part
  <2>1. CASE Return("cgiParseSuccess") /\ Take(Got(2), <<>>)
    <3>1. Ordered'
      BY <1>0, <1>1, <1>2, <2>1, ReadsSome, Zenon
    <3> QED BY <2>1, <3>1 DEF Matched, Tame, Return
  <2>2. CASE ~(Got(2) < 2) /\ pc' = "line" /\ Take(2, mpRead(2))
    <3>1. Got(2) = 2
      BY <1>2, <2>2
    <3>2. Take(Got(2), mpRead(2)) /\ Len(putback) <= Got(2)
      BY <2>0, <2>2, <3>1
    <3>3. Ordered' /\ putback' = mpRead(2)
      BY <1>0, <1>1, <3>2, PutsAllBack, Zenon
    <3>4. line'.attr = <<>> /\ Len(putback') <= 2
      BY <1>2, <2>0, <3>1, <3>3 DEF NoLine
    <3> QED BY <2>2, <3>3, <3>4 DEF Matched, Tame
  <2> QED BY <1>5, <2>1, <2>2 DEF Part
<1>6. CASE LineByte
  <2>0. Got(1) = 1 /\ Take(1, <<>>) /\ pc = "line" /\ Len(putback) <= 2
    BY <1>6 DEF LineByte, BufferOK
  <2>1. /\ Ordered' /\ Len(putback') = IF 1 <= Len(putback) THEN Len(putback) - 1 ELSE 0
    BY <1>0, <2>0, ReadsOne
  <2>2. Len(putback') <= 1
    BY <1>0, <2>0, <2>1
  <2>3. CASE LineEnds(offset + 1)
    BY <1>0, <2>1, <2>2, <2>3, LineEndsOrder
  <2>4. CASE pc' \in {"cr", "line"}
    BY <2>1, <2>2, <2>4 DEF Matched, Tame
  <2>5. CASE pc' = "blanks" /\ line.attr # <<>>
    <3>1. Len(putback) <= 1
      BY <2>0, <2>5 DEF Tame
    <3> DEFINE l == Len(putback)
    <3>2. l \in Nat /\ l <= 1 /\ Len(putback') = IF 1 <= l THEN l - 1 ELSE 0
      BY <1>0, <2>1, <3>1
    <3> HIDE DEF l
    <3>3. Len(putback') = 0
      BY <3>2
    <3> QED BY <2>1, <2>5, <3>3 DEF Matched, Tame
  <2> QED BY <1>6, <2>0, <2>3, <2>4, <2>5 DEF LineByte
<1>7. CASE LineBreaksOff
  <2>1. UNCHANGED stream /\ Scan(FALSE, offset) /\ Got(1) # 1
    BY <1>7 DEF LineBreaksOff
  <2>2. Got(1) = 0
    BY <1>2, <2>1
  <2>3. Len(putback) = 0
    BY <1>0, <1>1, <2>1, <2>2, NoMore, NoneLeft
  <2>4. Len(putback') <= 1
    BY <2>1, <2>3 DEF stream
  <2>5. Ordered'
    BY <1>0, <2>1 DEF Ordered, request, stream
  <2> QED BY <1>0, <2>1, <2>4, <2>5, LineEndsOrder
<1>8. CASE LineFeed
  <2>0. pc = "cr" /\ Len(putback) <= 1
    BY <1>8 DEF LineFeed, Tame
  <2>1. Len(putback) <= Got(1)
    <3>1. CASE Got(1) = 1
      BY <2>0, <3>1
    <3>2. CASE Got(1) # 1
      <4>1. Got(1) = 0
        BY <1>2, <3>2
      <4>2. Len(putback) = 0
        BY <1>0, <1>1, <3>2, <4>1, NoMore, NoneLeft
      <4> QED BY <4>1, <4>2
    <3> QED BY <3>1, <3>2
  <2>2. CASE mpRead(1) = <<LF>>
    <3>1. Got(1) = 1
      <4>1. Len(<<LF>>) = 1
        OBVIOUS
      <4> QED BY <1>2, <2>2, <4>1
    <3>2. Take(1, <<>>) /\ \E from \in {offset + Got(1) - Len(<<>>)} : LineEnds(from)
      BY <1>8, <2>2, <3>1 DEF LineFeed
    <3>3. Ordered' /\ Len(putback') = IF 1 <= Len(putback) THEN Len(putback) - 1 ELSE 0
      BY <1>0, <3>1, <3>2, ReadsOne
    <3>4. Len(putback') <= 1
      BY <1>0, <2>0, <3>3
    <3> QED BY <1>0, <3>2, <3>3, <3>4, LineEndsOrder
  <2>3. CASE mpRead(1) # <<LF>>
    <3>1. /\ Take(Got(1), mpRead(1))
          /\ \E from \in {offset + Got(1) - Len(mpRead(1))} : LineEnds(from)
      BY <1>8, <2>3 DEF LineFeed
    <3>2. Ordered' /\ putback' = mpRead(1)
      BY <1>0, <1>1, <2>1, <3>1, PutsAllBack, Zenon
    <3>3. Len(putback') <= 1
      BY <1>2, <3>2
    <3> QED BY <1>0, <3>1, <3>2, <3>3, LineEndsOrder
  <2> QED BY <2>2, <2>3
<1>9. CASE LineBlanks
  <2>0. pc = "blanks" /\ Len(putback) = 0
    BY <1>9 DEF LineBlanks, Tame
  <2>1. CASE Got(1) = 1 /\ Take(1, <<>>) /\ pc' = pc
    <3>1. Ordered' /\ Len(putback') = IF 1 <= Len(putback) THEN Len(putback) - 1 ELSE 0
      BY <1>0, <2>1, ReadsOne
    <3>2. Len(putback') = 0
      BY <2>0, <3>1
    <3> QED BY <2>0, <2>1, <3>1, <3>2 DEF Matched, Tame
  <2>2. CASE Take(Got(1), mpRead(1)) /\ pc' = "line"
    <3>1. Len(putback) <= Got(1)
      BY <1>2, <2>0
    <3>2. Ordered' /\ putback' = mpRead(1)
      BY <1>0, <1>1, <2>2, <3>1, PutsAllBack, Zenon
    <3>3. Len(putback') <= 1
      BY <1>2, <3>2
    <3> QED BY <2>2, <3>2, <3>3 DEF Matched, Tame
  <2> QED BY <1>9, <2>1, <2>2 DEF LineBlanks
<1> QED BY <1>4, <1>5, <1>6, <1>7, <1>8, <1>9

(* Whether the first boundary is plain does not change.                     *)
LEMMA SamePlain ==
  ASSUME UNCHANGED request
  PROVE  /\ FirstIsPlain' = FirstIsPlain
         /\ BoundaryPlain => BoundaryPlain'
BY DEF request, FirstIsPlain, BoundaryPlain, IsPrefix

(* The buffer is in order from the start to the end.                        *)
LEMMA OrderHolds == Spec => [](StreamOK /\ BufferOK /\ PlaceOK /\ BoundaryPlain /\ OrderOK)
<1>1. Init => BoundaryPlain /\ OrderOK
  <2> SUFFICES ASSUME Init PROVE BoundaryPlain /\ OrderOK
    OBVIOUS
  <2>1. PICK b \in Bodies : boundary = b.boundary /\ input = b.body
    BY DEF Init
  <2>2. boundary \in Seq(Bytes) /\ ToSet(boundary) \cap Blanks = {}
    BY <2>1, MultipartAssumption
  <2>3. BoundaryPlain
    <3> SUFFICES ASSUME NEW i \in 1 .. Len(boundary) PROVE boundary[i] # CR
      BY DEF BoundaryPlain
    <3>1. boundary[i] \in ToSet(boundary)
      BY <2>2 DEF ToSet
    <3> QED BY <2>2, <3>1 DEF Blanks
  <2>4. /\ putback = <<>> /\ Len(putback) = 0 /\ offset = 0 /\ boffset = 0 /\ first
        /\ pc \in {"scan", "end"}
    BY DEF Init
  <2>5. Ordered /\ Matched
    BY <2>4 DEF Ordered, Matched
  <2>6. FirstIsPlain => Tame
    BY <2>4 DEF FirstIsPlain, Tame, FirstTame, BoundaryLeads, DashesOnly
  <2> QED BY <2>3, <2>5, <2>6 DEF OrderOK
<1>2. ASSUME StreamOK, BufferOK, PlaceOK, StreamOK', PlaceOK', BoundaryPlain, OrderOK, [Next]_vars
      PROVE  BoundaryPlain' /\ OrderOK'
  <2>1. UNCHANGED request
    BY <1>2 DEF Next, ScanEnds, ScanMatches, ScanFalseMatch, FalseMatch, ScanEmits, Trail, Part,
       LineByte, LineBreaksOff, LineFeed, LineBlanks, vars, request
  <2>2. BoundaryPlain' /\ FirstIsPlain' = FirstIsPlain
    BY <1>2, <2>1, SamePlain
  <2>3. SUFFICES ASSUME FirstIsPlain PROVE Ordered' /\ Matched' /\ Tame'
    BY <2>2 DEF OrderOK
  <2>4. Ordered /\ Matched /\ Tame
    BY <1>2, <2>3 DEF OrderOK
  <2>5. CASE ScanEnds
    <3>1. pc' = "end" /\ UNCHANGED <<input, putback, offset>>
      BY <2>5 DEF ScanEnds, Return, request, stream
    <3> QED BY <2>4, <3>1 DEF Ordered, Matched, Tame
  <2>6. CASE ScanMatches
    BY <1>2, <2>4, <2>6, MatchOrder
  <2>7. CASE ScanFalseMatch
    BY <1>2, <2>4, <2>7, FalseOrder
  <2>8. CASE ScanEmits
    BY <1>2, <2>4, <2>8, EmitOrder
  <2>9. CASE Trail \/ Part \/ LineByte \/ LineBreaksOff \/ LineFeed \/ LineBlanks
    BY <1>2, <2>4, <2>9, BetweenOrder
  <2>10. CASE UNCHANGED vars
    BY <2>4, <2>10 DEF vars, Ordered, Matched, Tame, FirstTame, NextTame, BoundaryLeads,
       DashesOnly, workingBoundary
  <2> QED BY <1>2, <2>5, <2>6, <2>7, <2>8, <2>9, <2>10 DEF Next
<1> QED BY <1>1, <1>2, PlaceHolds, PTL DEF Spec

(* Whatever false matches are put back, mpRead delivers the body as it was  *)
(* sent: for every boundary, if the body begins with it, and for every body *)
(* if the boundary has no byte other than a dash before its last.           *)
THEOREM BytesStayInOrder == Spec => []PutBackInOrder
<1>1. StreamOK /\ BufferOK /\ PlaceOK /\ OrderOK => PutBackInOrder
  <2> SUFFICES ASSUME StreamOK, PlaceOK, Ordered
               PROVE  putback = SubSeq(input, inpos - Len(putback) + 1, inpos)
    BY DEF OrderOK, PutBackInOrder
  <2>1. /\ putback \in Seq(Bytes) /\ input \in Seq(Bytes) /\ Len(putback) \in Nat
        /\ Len(input) \in Nat /\ inpos \in Nat /\ offset \in Nat
        /\ offset = inpos - Len(putback) /\ inpos <= Len(input)
    BY DEF StreamOK, OffsetIsPlace, PlaceOK, StreamPlace
  <2> DEFINE from == inpos - Len(putback) + 1
             taken == SubSeq(input, from, inpos)
  <2>2. \A i \in from .. inpos : input[i] \in Bytes
    BY <2>1
  <2>3. from \in Int /\ inpos \in Int /\ inpos - from + 1 = Len(putback) /\ from = offset + 1
    BY <2>1
  <2> HIDE DEF from
  <2>4. /\ taken \in Seq(Bytes) /\ Len(taken) = IF from <= inpos THEN inpos - from + 1 ELSE 0
        /\ \A i \in 1 .. inpos - from + 1 : taken[i] = input[from + i - 1]
    BY <2>2, <2>3, SubSeqProperties
  <2> HIDE DEF taken
  <2>5. Len(taken) = Len(putback)
    BY <2>1, <2>3, <2>4
  <2>6. ASSUME NEW i \in 1 .. Len(putback) PROVE taken[i] = putback[i]
    <3>1. from + i - 1 = offset + i /\ i \in 1 .. inpos - from + 1
      BY <2>1, <2>3
    <3>2. taken[i] = input[from + i - 1] /\ putback[i] = input[offset + i]
      BY <2>4, <3>1 DEF Ordered
    <3> QED BY <3>1, <3>2
  <2>7. taken = putback
    BY <2>1, <2>4, <2>5, <2>6, SeqEqual
  <2> QED BY <2>7 DEF taken, from
<1> QED BY <1>1, OrderHolds, PTL

-------------------------------------------------------------------------------
(* What occurs in the input, byte by byte.                                  *)
LEMMA Occurs ==
  ASSUME StreamOK, NEW s \in Seq(Bytes), NEW n \in Nat, n + Len(s) <= Len(input)
  PROVE  OccursAt(s, n) <=> \A i \in 1 .. Len(s) : input[n + i] = s[i]
<1> DEFINE here == SubSeq(input, n + 1, n + Len(s))
<1>1. input \in Seq(Bytes) /\ Len(input) \in Nat /\ Len(s) \in Nat
  BY DEF StreamOK
<1>2. \A i \in n + 1 .. n + Len(s) : input[i] \in Bytes
  BY <1>1
<1>3. n + 1 \in Int /\ n + Len(s) \in Int
  BY <1>1
<1>4. /\ here \in Seq(Bytes)
      /\ Len(here) = IF n + 1 <= n + Len(s) THEN (n + Len(s)) - (n + 1) + 1 ELSE 0
      /\ \A i \in 1 .. (n + Len(s)) - (n + 1) + 1 : here[i] = input[(n + 1) + i - 1]
  BY <1>2, <1>3, SubSeqProperties
<1> HIDE DEF here
<1>5. Len(here) = Len(s)
  BY <1>1, <1>4
<1>6. ASSUME NEW i \in 1 .. Len(s) PROVE here[i] = input[n + i]
  <2>1. (n + 1) + i - 1 = n + i /\ i \in 1 .. (n + Len(s)) - (n + 1) + 1
    BY <1>1
  <2> QED BY <1>4, <2>1
<1>7. here = s <=> \A i \in 1 .. Len(s) : here[i] = s[i]
  BY <1>4, <1>5, SeqEqual
<1>8. here = s <=> \A i \in 1 .. Len(s) : input[n + i] = s[i]
  BY <1>6, <1>7
<1> QED BY <1>8 DEF OccursAt, here

(* Where a byte differs the boundary does not occur.                        *)
LEMMA NotThere ==
  ASSUME StreamOK, first \in BOOLEAN, NEW n \in Nat, n + Len(workingBoundary) <= Len(input),
         Differs(n)
  PROVE  ~OccursAt(workingBoundary, n)
<1>1. workingBoundary \in Seq(Bytes)
  BY BoundaryLength
<1>2. OccursAt(workingBoundary, n) <=>
        \A i \in 1 .. Len(workingBoundary) : input[n + i] = workingBoundary[i]
  BY <1>1, Occurs
<1> QED BY <1>2 DEF Differs

(* The places that were looked at.                                          *)
LEMMA SearchedOn ==
  ASSUME UNCHANGED <<request, first>>, NEW from \in Nat,
         offset \in Nat, boffset \in Nat, offset' \in Nat, boffset' \in Nat,
         \A n \in from .. offset - boffset - 1 : Differs(n),
         \/ offset' - boffset' = offset - boffset
         \/ offset' - boffset' = offset - boffset + 1 /\ Differs(offset - boffset)
  PROVE  \A n \in from .. offset' - boffset' - 1 : Differs(n)'
<1>1. ASSUME NEW n, Differs(n) PROVE Differs(n)'
  BY <1>1 DEF Differs, workingBoundary, request
<1>2. ASSUME NEW n \in from .. offset' - boffset' - 1 PROVE Differs(n)
  <2> DEFINE d == offset - boffset
             e == offset' - boffset'
  <2>0. n \in from .. e - 1
    BY <1>2, Zenon
  <2>1. d \in Int /\ e \in Int /\ n \in from .. e - 1
    <3>1. d \in Int /\ e \in Int
      OBVIOUS
    <3> HIDE DEF d, e
    <3> QED BY <2>0, <3>1, Zenon
  <2>2. \A k \in from .. d - 1 : Differs(k)
    OBVIOUS
  <2>3. e = d \/ (e = d + 1 /\ Differs(d))
    OBVIOUS
  <2> HIDE DEF d, e
  <2>4. n \in from .. d - 1 \/ (n = d /\ Differs(d))
    BY <2>1, <2>3
  <2> QED BY <2>2, <2>4
<1> QED BY <1>1, <1>2

(* The next byte is not the boundary's.                                     *)
LEMMA DiffersHere ==
  ASSUME offset \in Nat, boffset \in Nat, boffset < Len(workingBoundary),
         Len(workingBoundary) \in Nat,
         offset + 1 <= Len(input), input[offset + 1] # workingBoundary[boffset + 1]
  PROVE  Differs(offset - boffset)
<1>1. boffset + 1 \in 1 .. Len(workingBoundary) /\ (offset - boffset) + (boffset + 1) = offset + 1
  OBVIOUS
<1> DEFINE i == boffset + 1
<1>2. i \in 1 .. Len(workingBoundary) /\ (offset - boffset) + i = offset + 1
  BY <1>1
<1>3. input[(offset - boffset) + i] # workingBoundary[i] /\ (offset - boffset) + i <= Len(input)
  BY <1>2
<1> HIDE DEF i
<1> QED BY <1>2, <1>3 DEF Differs

(* One more byte of the body.                                               *)
LEMMA CollectsOne ==
  ASSUME out \in Seq(Bytes), Collected, NEW c \in Bytes, out' = out \o <<c>>,
         offset \in Nat, boffset \in Nat, start \in Nat,
         c = input[offset - boffset + 1], start' = start, input' = input,
         offset' - boffset' = offset - boffset + 1
  PROVE  Collected' /\ out' \in Seq(Bytes)
<1>1. /\ <<c>> \in Seq(Bytes) /\ Len(<<c>>) = 1 /\ <<c>>[1] = c /\ Len(out) \in Nat
  OBVIOUS
<1> DEFINE one == <<c>>
<1>2. one \in Seq(Bytes) /\ Len(one) = 1 /\ one[1] = c /\ out' = out \o one
  BY <1>1
<1> HIDE DEF one
<1>3. /\ out' \in Seq(Bytes) /\ Len(out') = Len(out) + Len(one)
      /\ \A i \in 1 .. Len(out) : out'[i] = out[i]
      /\ \A i \in 1 .. Len(one) : out'[Len(out) + i] = one[i]
  <2> DEFINE both == out \o one
  <2>1. /\ both \in Seq(Bytes) /\ Len(both) = Len(out) + Len(one)
        /\ \A i \in 1 .. Len(out) : both[i] = out[i]
        /\ \A i \in 1 .. Len(one) : both[Len(out) + i] = one[i]
    BY <1>2, Joined, Zenon
  <2>2. out' = both
    BY <1>2
  <2> HIDE DEF both
  <2> QED BY <2>1, <2>2
<1>4. Len(out') = Len(out) + 1 /\ out'[Len(out) + 1] = c
  BY <1>2, <1>3
<1>5. start + Len(out) = offset - boffset
  BY DEF Collected
<1>6. ASSUME NEW i \in 1 .. Len(out) + 1 PROVE out'[i] = input[start + i]
  <2>1. CASE i = Len(out) + 1
    <3>1. start + i = offset - boffset + 1
      <4> DEFINE l == Len(out)
      <4>1. l \in Nat /\ start + l = offset - boffset /\ i = l + 1
        BY <1>1, <1>5, <2>1
      <4> HIDE DEF l
      <4> QED BY <4>1
    <3> QED BY <1>4, <2>1, <3>1
  <2>2. CASE i # Len(out) + 1
    <3>1. i \in 1 .. Len(out)
      BY <1>1, <2>2
    <3> QED BY <1>3, <3>1 DEF Collected
  <2> QED BY <2>1, <2>2
<1>7. start' + Len(out') = offset' - boffset'
  <2> DEFINE l == Len(out)
             n == offset - boffset
  <2>1. /\ l \in Nat /\ n \in Int /\ start \in Nat
        /\ start + l = n /\ Len(out') = l + 1 /\ offset' - boffset' = n + 1
    BY <1>1, <1>4, <1>5
  <2> HIDE DEF l, n
  <2>2. start + (l + 1) = n + 1
    BY <2>1
  <2> QED BY <2>1, <2>2
<1> QED BY <1>3, <1>4, <1>6, <1>7 DEF Collected

(* A byte is read while a boundary is looked for: what matches begins where *)
(* it did, or one byte later, and then that byte belongs to the body.       *)
LEMMA ScanGoesOn ==
  ASSUME pc = "scan", pc' \in {"scan", "trail"}, UNCHANGED <<request, first, start>>,
         offset \in Nat, boffset \in Nat, offset' \in Nat, boffset' \in Nat, start \in Nat,
         offset + 1 <= Len(input), offset + 1 <= contentLength, Len(input) \in Nat,
         contentLength \in Nat, out \in Seq(Bytes), Found,
         \/ offset' - boffset' = offset - boffset /\ out' = out
         \/ /\ offset' - boffset' = offset - boffset + 1 /\ Differs(offset - boffset)
            /\ \E c \in Bytes : out' = out \o <<c>> /\ c = input[offset - boffset + 1]
  PROVE  Found' /\ out' \in Seq(Bytes)
<1>1. input' = input /\ first' = first /\ start' = start
  BY DEF request
<1>2. ~NothingLeft
  BY DEF NothingLeft
<1>3. ASSUME NEW from \in Nat, \A n \in from .. offset - boffset - 1 : Differs(n)
      PROVE  \A n \in from .. offset' - boffset' - 1 : Differs(n)'
  BY <1>3, SearchedOn
<1>4. first => Searched(0)'
  <2>1. first => \A n \in 0 .. offset - boffset - 1 : Differs(n)
    BY DEF Found, Searched
  <2>2. 0 \in Nat
    OBVIOUS
  <2> QED BY <1>3, <2>1, <2>2 DEF Searched
<1>5. ~first => Searched(start)'
  <2>1. ~first => \A n \in start .. offset - boffset - 1 : Differs(n)
    BY DEF Found, Searched
  <2>2. ~first => \A n \in start .. offset' - boffset' - 1 : Differs(n)'
    BY <1>3, <2>1
  <2> QED BY <1>1, <2>2 DEF Searched
<1>6. ~first => HeaderEnded'
  BY <1>1, <1>2 DEF Found, HeaderEnded
<1>7. out' \in Seq(Bytes) /\ (~first => Collected')
  <2>1. CASE offset' - boffset' = offset - boffset /\ out' = out
    <3>1. ~first => Collected
      BY DEF Found
    <3> QED BY <1>1, <2>1, <3>1 DEF Collected
  <2>2. CASE /\ offset' - boffset' = offset - boffset + 1
             /\ \E c \in Bytes : out' = out \o <<c>> /\ c = input[offset - boffset + 1]
    <3>1. PICK c \in Bytes : out' = out \o <<c>> /\ c = input[offset - boffset + 1]
      BY <2>2
    <3>2. CASE first
      BY <3>1, <3>2
    <3>3. CASE ~first
      <4>1. Collected
        BY <3>3 DEF Found
      <4> QED BY <1>1, <2>2, <3>1, <4>1, CollectsOne
    <3> QED BY <3>2, <3>3
  <2> QED BY <2>1, <2>2
<1> QED BY <1>1, <1>4, <1>5, <1>6, <1>7 DEF Found

(* afterNextBoundary looks at every place.                                  *)
LEMMA ScanSearches ==
  ASSUME StreamOK, BufferOK, PlaceOK, Ordered, Matched, Found, out \in Seq(Bytes), PlaceOK',
         BufferOK', ScanMatches \/ ScanFalseMatch \/ ScanEmits
  PROVE  Found' /\ out' \in Seq(Bytes)
<1>0. /\ pc = "scan" /\ first \in BOOLEAN /\ boffset \in Nat /\ boffset <= offset
      /\ Len(putback) + boffset < Len(workingBoundary)
      /\ offset \in Nat /\ Len(putback) \in Nat /\ start \in Nat
      /\ Len(input) \in Nat /\ contentLength \in Nat
  <2>1. pc = "scan"
    BY DEF ScanMatches, ScanFalseMatch, FalseMatch, ScanEmits
  <2>2. /\ first \in BOOLEAN /\ boffset \in Nat
        /\ Len(putback) + boffset < Len(workingBoundary)
    BY <2>1 DEF BufferOK
  <2>3. Len(putback) \in Nat /\ Len(input) \in Nat /\ contentLength \in Nat
    BY DEF StreamOK
  <2>4. boffset <= offset /\ offset \in Nat /\ start \in Nat
    BY <2>1 DEF PlaceOK, StreamPlace, HeaderPlace, BoundaryPlace
  <2> QED BY <2>1, <2>2, <2>3, <2>4
<1>1. workingBoundary \in Seq(Bytes) /\ Len(workingBoundary) \in Nat
  BY <1>0, BoundaryLength
<1>2. boffset < Len(workingBoundary)
  BY <1>0, <1>1
<1>3. StreamPlace /\ offset' \in Nat /\ boffset' \in Nat
  BY DEF PlaceOK, BufferOK, StreamPlace
<1>4. Got(1) = 1
  <2>1. CASE ScanMatches
    <3>1. mpRead(1) = <<workingBoundary[boffset + 1]>>
      BY <2>1 DEF ScanMatches
    <3>2. Len(<<workingBoundary[boffset + 1]>>) = 1 /\ Len(mpRead(1)) = Got(1)
      BY Read
    <3> QED BY <3>1, <3>2
  <2> QED BY <2>1 DEF ScanFalseMatch, FalseMatch, ScanEmits
<1>5. /\ mpRead(1) = <<input[offset + 1]>> /\ input[offset + 1] \in Bytes
      /\ offset + 1 <= Len(input) /\ offset + 1 <= contentLength
  BY <1>3, <1>4, NextByte
<1>6. UNCHANGED <<request, first, start>> /\ 1 \in Nat /\ 1 <= Got(1)
  BY <1>4 DEF ScanMatches, ScanFalseMatch, FalseMatch, ScanEmits
<1>7. CASE ScanMatches
  <2>1. Take(1, <<>>) /\ boffset' = boffset + 1 /\ out' = out /\ pc' \in {"scan", "trail"}
    BY <1>7 DEF ScanMatches
  <2>2. offset' = offset + 1
    BY <1>3, <1>6, <2>1, MovesBy, Zenon
  <2>3. offset' - boffset' = offset - boffset
    BY <1>0, <2>1, <2>2
  <2> QED BY <1>0, <1>3, <1>5, <1>6, <2>1, <2>3, ScanGoesOn
<1>8. CASE ScanFalseMatch
  <2> DEFINE tried == SubSeq(workingBoundary, 2, boffset)
             back == tried \o mpRead(1)
             c == workingBoundary[1]
  <2>1. /\ mpRead(1) # <<workingBoundary[boffset + 1]>> /\ Take(1, back) /\ boffset > 0
        /\ boffset' = 0 /\ pc' = "scan" /\ out' = out \o <<c>>
    BY <1>0, <1>8 DEF ScanFalseMatch, FalseMatch
  <2>2. Differs(offset - boffset)
    <3>1. input[offset + 1] # workingBoundary[boffset + 1]
      BY <1>5, <2>1
    <3> QED BY <1>0, <1>1, <1>2, <1>5, <3>1, DiffersHere
  <2>3. c \in Bytes /\ c = input[offset - boffset + 1]
    BY <1>0, <1>1, <1>2, <2>1 DEF Matched
  <2>4. offset' = offset + 1 - Len(back) /\ Len(back) = boffset
    <3>1. tried \in Seq(Bytes) /\ Len(tried) = boffset - 1
      BY <1>0, <1>1, <1>2, <2>1
    <3>2. mpRead(1) \in Seq(Bytes) /\ Len(mpRead(1)) = 1
      BY <1>4, Read
    <3> HIDE DEF tried
    <3>3. back \in Seq(Bytes) /\ Len(back) = Len(tried) + Len(mpRead(1))
      BY <3>1, <3>2, ConcatProperties, Zenon
    <3> HIDE DEF back
    <3>4. Len(back) = boffset /\ Len(back) <= offset + 1
      <4>1. Len(back) = (boffset - 1) + 1
        BY <3>1, <3>2, <3>3, Zenon
      <4> QED BY <1>0, <4>1
    <3> QED BY <1>3, <1>6, <2>1, <3>3, <3>4, MovesOn, Zenon
  <2> HIDE DEF back
  <2>5. offset' - boffset' = offset - boffset + 1
    BY <1>0, <2>1, <2>4
  <2> HIDE DEF c
  <2>6. \E x \in Bytes : out' = out \o <<x>> /\ x = input[offset - boffset + 1]
    BY <2>1, <2>3, Zenon
  <2> QED BY <1>0, <1>3, <1>5, <1>6, <2>1, <2>2, <2>5, <2>6, ScanGoesOn
<1>9. CASE ScanEmits
  <2>1. /\ mpRead(1) # <<workingBoundary[1]>> /\ Take(1, <<>>)
        /\ boffset = 0 /\ boffset' = 0 /\ pc' = "scan" /\ out' = out \o mpRead(1)
    BY <1>9 DEF ScanEmits
  <2>2. offset' = offset + 1
    BY <1>3, <1>6, <2>1, MovesBy, Zenon
  <2>3. Differs(offset - boffset)
    <3>1. input[offset + 1] # workingBoundary[boffset + 1]
      BY <1>5, <2>1
    <3> QED BY <1>0, <1>1, <1>2, <1>5, <3>1, DiffersHere
  <2>4. offset' - boffset' = offset - boffset + 1 /\ offset - boffset + 1 = offset + 1
    BY <1>0, <2>1, <2>2
  <2>5. \E x \in Bytes : out' = out \o <<x>> /\ x = input[offset - boffset + 1]
    BY <1>5, <2>1, <2>4
  <2> QED BY <1>0, <1>3, <1>5, <1>6, <2>1, <2>3, <2>4, <2>5, ScanGoesOn
<1> QED BY <1>7, <1>8, <1>9

-------------------------------------------------------------------------------
(* The body begins where the reader is: nothing of it was looked at yet.    *)
LEMMA BodyBegins ==
  ASSUME offset' \in Nat, Scan(FALSE, offset'),
         \/ offset' \in 1 .. Len(input') /\ input'[offset'] \in {CR, LF}
         \/ NothingLeft'
  PROVE  Found' /\ out' \in Seq(Bytes)
<1>1. pc' = "scan" /\ first' = FALSE /\ boffset' = 0 /\ start' = offset' /\ out' = <<>>
  BY DEF Scan
<1>2. out' \in Seq(Bytes) /\ Len(out') = 0
  BY <1>1, EmptySeq
<1>3. Collected'
  BY <1>1, <1>2 DEF Collected
<1>5. Searched(start)'
  <2>0. \A o \in Nat : o .. o - 0 - 1 = {}
    OBVIOUS
  <2>1. start' .. offset' - boffset' - 1 = {}
    BY <1>1, <2>0, Zenon
  <2> QED BY <2>1, Zenon DEF Searched
<1>4. HeaderEnded' \/ NothingLeft'
  BY <1>1 DEF HeaderEnded
<1> QED BY <1>1, <1>2, <1>3, <1>4, <1>5 DEF Found

(* A header line ends behind its CR or LF.                                  *)
LEMMA LineEndsSearch ==
  ASSUME offset' \in Nat, NEW from, from = offset', LineEnds(from),
         offset' \in 1 .. Len(input'), input'[offset'] \in {CR, LF}, out \in Seq(Bytes)
  PROVE  Found' /\ out' \in Seq(Bytes)
<1>1. CASE pc' = "line" /\ out' = out
  BY <1>1 DEF Found
<1>2. CASE Scan(FALSE, from)
  BY <1>2, BodyBegins
<1> QED BY <1>1, <1>2 DEF LineEnds

(* Between boundaries: where a body begins.                                 *)
LEMMA BetweenSearch ==
  ASSUME StreamOK, BufferOK, PlaceOK, Ordered, Found, out \in Seq(Bytes), StreamOK', PlaceOK',
         Trail \/ Part \/ LineByte \/ LineBreaksOff \/ LineFeed \/ LineBlanks
  PROVE  Found' /\ out' \in Seq(Bytes)
<1>0. StreamPlace /\ StreamPlace' /\ offset \in Nat /\ offset' \in Nat /\ Len(input) \in Nat
  <2>1. StreamPlace /\ StreamPlace'
    BY DEF PlaceOK
  <2> QED BY <2>1 DEF StreamPlace, StreamOK
<1>1. UNCHANGED request /\ input' = input /\ 1 \in Nat
  BY DEF Trail, Part, LineByte, LineBreaksOff, LineFeed, LineBlanks, request
<1>2. /\ Got(1) \in Nat /\ Got(1) <= 1 /\ mpRead(1) \in Seq(Bytes) /\ Len(mpRead(1)) = Got(1)
      /\ Got(1) <= Got(1)
  BY Read
<1>3. CASE Trail \/ Part \/ LineBlanks
  <2>1. pc' \in {"end", "part", "line", "blanks"} /\ out' = out
    BY <1>3 DEF Trail, Part, LineBlanks, Return
  <2> QED BY <2>1 DEF Found
<1>4. CASE LineByte
  <2>1. Got(1) = 1 /\ 1 <= Got(1) /\ Take(1, <<>>) /\ pc = "line"
    BY <1>4 DEF LineByte
  <2>2. offset' = offset + 1
    BY <1>0, <1>1, <2>1, MovesBy, Zenon
  <2>3. mpRead(1) = <<input[offset + 1]>> /\ offset + 1 <= Len(input)
    BY <1>0, <2>1, NextByte
  <2>4. mpRead(1)[1] = input[offset + 1] /\ offset' \in 1 .. Len(input')
    BY <1>0, <1>1, <2>2, <2>3
  <2>5. CASE mpRead(1)[1] = CR /\ pc' = "cr" /\ out' = out
    BY <1>1, <2>2, <2>4, <2>5 DEF Found
  <2>6. CASE mpRead(1)[1] = LF /\ LineEnds(offset + 1)
    <3>1. input'[offset'] \in {CR, LF}
      BY <1>1, <2>2, <2>4, <2>6
    <3> QED BY <1>0, <2>2, <2>4, <2>6, <3>1, LineEndsSearch
  <2>7. CASE pc' \in {"blanks", "line"} /\ out' = out
    BY <2>7 DEF Found
  <2> QED BY <1>4, <2>1, <2>5, <2>6, <2>7 DEF LineByte
<1>5. CASE LineBreaksOff
  <2>1. UNCHANGED stream /\ Scan(FALSE, offset) /\ Got(1) # 1
    BY <1>5 DEF LineBreaksOff
  <2>2. offset' = offset /\ contentLength' = contentLength
    BY <1>1, <2>1 DEF stream, request
  <2>3. Got(1) = 0
    BY <1>2, <2>1
  <2>4. NothingLeft
    BY <1>0, <1>1, <2>1, <2>3, NoMore
  <2>5. NothingLeft' /\ Scan(FALSE, offset')
    BY <1>1, <2>1, <2>2, <2>4 DEF NothingLeft
  <2> QED BY <1>0, <2>5, BodyBegins
<1>6. CASE LineFeed
  <2> DEFINE back == IF mpRead(1) = <<LF>> THEN <<>> ELSE mpRead(1)
             from == offset + Got(1) - Len(back)
  <2>0. pc = "cr" /\ Take(Got(1), back) /\ LineEnds(from)
    BY <1>6 DEF LineFeed
  <2>1. offset \in 1 .. Len(input) /\ input[offset] = CR
    BY <2>0 DEF Found
  <2>2. /\ from = offset'
        /\ offset' \in 1 .. Len(input') /\ input'[offset'] \in {CR, LF}
    <3>1. offset' = from
      BY <2>0 DEF Take
    <3>2. CASE mpRead(1) = <<LF>>
      <4>1. Len(<<LF>>) = 1 /\ Len(<<>>) = 0
        OBVIOUS
      <4>2. Got(1) = 1
        BY <1>2, <3>2, <4>1
      <4>3. mpRead(1) = <<input[offset + 1]>> /\ offset + 1 <= Len(input)
        BY <1>0, <4>2, NextByte
      <4>4. input[offset + 1] = LF
        BY <3>2, <4>3
      <4>5. back = <<>>
        BY <3>2
      <4> HIDE DEF back
      <4>6. from = offset + 1
        BY <1>0, <4>1, <4>2, <4>5
      <4> HIDE DEF from
      <4> QED BY <1>0, <1>1, <3>1, <4>3, <4>4, <4>6
    <3>3. CASE mpRead(1) # <<LF>>
      <4>1. back = mpRead(1)
        BY <3>3
      <4> HIDE DEF back
      <4>2. from = offset
        BY <1>0, <1>2, <4>1
      <4> HIDE DEF from
      <4> QED BY <1>1, <2>1, <3>1, <4>2
    <3> QED BY <3>2, <3>3
  <2> HIDE DEF from
  <2> QED BY <1>0, <2>0, <2>2, LineEndsSearch
<1> QED BY <1>3, <1>4, <1>5, <1>6

(* Bodies that were delimited remain so.                                    *)
LEMMA StaysDelimited ==
  ASSUME UNCHANGED request, NEW p, Delimited(p) PROVE Delimited(p)'
BY DEF Delimited, OccursAt, request, CR, LF

(* A body ends: the boundary behind it is the first one in the input.       *)
LEMMA TrailDelimits ==
  ASSUME StreamOK, BufferOK, PlaceOK, Matched, Found, pc = "trail", ~first, out \in Seq(Bytes),
         NEW p \in Body, p.start = start, p.body = out
  PROVE  Delimited(p)
<1> DEFINE mark == <<CR, LF, "-", "-">> \o boundary
           end == p.start + Len(p.body)
<1>0. /\ first = FALSE /\ boffset = Len(workingBoundary) /\ boffset \in Nat
      /\ offset \in Nat /\ start \in Nat /\ Len(out) \in Nat /\ input \in Seq(Bytes)
      /\ Len(input) \in Nat
  BY DEF BufferOK, StreamOK, PlaceOK, StreamPlace, HeaderPlace, BoundaryPlace
<1>1. offset <= Len(input)
  BY OffsetInInput DEF PlaceOK
<1>2. Searched(start) /\ Collected /\ HeaderEnded
  BY DEF Found
<1>3. end = offset - boffset /\ end \in Nat /\ end + Len(workingBoundary) <= Len(input)
  BY <1>0, <1>1, <1>2 DEF Collected
<1>4. mark = workingBoundary
  <2>1. "-" \in Bytes /\ CR \in Bytes /\ LF \in Bytes
    BY MultipartAssumption DEF Blanks
  <2>2. <<CR, LF>> \o <<"-", "-">> = <<CR, LF, "-", "-">>
    <3> DEFINE s == <<CR, LF>>
               u == <<"-", "-">>
               v == <<CR, LF, "-", "-">>
    <3>1. /\ s \in Seq(Bytes) /\ Len(s) = 2 /\ s[1] = CR /\ s[2] = LF
          /\ u \in Seq(Bytes) /\ Len(u) = 2 /\ u[1] = "-" /\ u[2] = "-"
      BY <2>1
    <3>2. /\ v \in Seq(Bytes) /\ Len(v) = 4
          /\ v[1] = CR /\ v[2] = LF /\ v[3] = "-" /\ v[4] = "-"
      BY <2>1
    <3> HIDE DEF s, u, v
    <3>3. /\ s \o u \in Seq(Bytes) /\ Len(s \o u) = Len(s) + Len(u)
          /\ \A i \in 1 .. Len(s) : (s \o u)[i] = s[i]
          /\ \A i \in 1 .. Len(u) : (s \o u)[Len(s) + i] = u[i]
      BY <3>1, Joined, Zenon
    <3> DEFINE w == s \o u
    <3>4. /\ w \in Seq(Bytes) /\ Len(w) = 4 /\ w[1] = CR /\ w[2] = LF
          /\ w[2 + 1] = "-" /\ w[2 + 2] = "-"
      BY <3>1, <3>3
    <3> HIDE DEF w
    <3>5. \A i \in 1 .. Len(w) : w[i] = v[i]
      BY <3>2, <3>4
    <3>6. w = v
      BY <3>2, <3>4, <3>5, SeqEqual
    <3> QED BY <3>6 DEF s, u, v, w
  <2>3. workingBoundary = <<CR, LF>> \o <<"-", "-">> \o boundary
    BY <1>0 DEF workingBoundary
  <2> QED BY <2>2, <2>3
<1>5. workingBoundary \in Seq(Bytes)
  BY <1>0, BoundaryLength
<1>6. input[p.start] \in {CR, LF}
  BY <1>2 DEF HeaderEnded
<1>7. OccursAt(workingBoundary, end)
  <2>1. OccursAt(workingBoundary, end) <=>
          \A i \in 1 .. Len(workingBoundary) : input[end + i] = workingBoundary[i]
    <3> HIDE DEF end
    <3> QED BY <1>3, <1>5, Occurs
  <2>2. \A i \in 1 .. boffset : input[offset - boffset + i] = workingBoundary[i]
    BY DEF Matched
  <2> HIDE DEF end
  <2> QED BY <1>0, <1>3, <2>1, <2>2
<1>8. ASSUME NEW n \in p.start .. end - 1 PROVE ~OccursAt(workingBoundary, n)
  <2>1. n \in Nat /\ n \in start .. offset - boffset - 1 /\ n + Len(workingBoundary) <= Len(input)
    <3> HIDE DEF end
    <3> QED BY <1>0, <1>3
  <2>2. Differs(n)
    BY <1>2, <2>1 DEF Searched
  <2> QED BY <1>0, <2>1, <2>2, NotThere
<1>9. p.body = SubSeq(input, p.start + 1, end)
  <2>1. OccursAt(out, start) <=> \A i \in 1 .. Len(out) : input[start + i] = out[i]
    <3>1. start + Len(out) <= Len(input)
      BY <1>0, <1>1, <1>2 DEF Collected
    <3> QED BY <1>0, <3>1, Occurs
  <2>2. \A i \in 1 .. Len(out) : input[start + i] = out[i]
    BY <1>2 DEF Collected
  <2>3. SubSeq(input, start + 1, start + Len(out)) = out
    BY <2>1, <2>2 DEF OccursAt
  <2> QED BY <2>3
<1> HIDE DEF mark, end
<1>10. OccursAt(mark, end) /\ \A n \in p.start .. end - 1 : ~OccursAt(mark, n)
  BY <1>4, <1>7, <1>8
<1> QED BY <1>6, <1>9, <1>10 DEF Delimited, mark, end

(* What was sent is only taken for empty when every place was looked at.    *)
LEMMA EndsEmpty ==
  ASSUME StreamOK, BufferOK, PlaceOK, Found, ScanEnds
  PROVE  EmptyHasNoBoundary'
<1> SUFFICES ASSUME first', NEW n \in 0 .. Min({contentLength', Len(input')}) - Len(workingBoundary')
             PROVE  ~OccursAt(workingBoundary, n)'
  BY DEF EmptyHasNoBoundary
<1>0. /\ pc = "scan" /\ UNCHANGED <<request, first, input, contentLength>> /\ Got(1) # 1
      /\ workingBoundary' = workingBoundary
  BY DEF ScanEnds, request, workingBoundary
<1>1. /\ first /\ first \in BOOLEAN /\ boffset \in Nat /\ Len(putback) \in Nat
      /\ Len(putback) + boffset < Len(workingBoundary) /\ StreamPlace
      /\ offset \in Nat /\ Len(input) \in Nat /\ contentLength \in Nat
  BY <1>0 DEF BufferOK, StreamOK, PlaceOK, StreamPlace
<1>2. Len(workingBoundary) \in Nat
  BY <1>1, BoundaryLength
<1>3. offset = contentLength \/ offset = Len(input)
  <2>1. Got(1) \in Nat /\ Got(1) <= 1 /\ 1 \in Nat
    BY Read
  <2>2. Got(1) = 0
    BY <1>0, <2>1
  <2> QED BY <1>0, <1>1, <2>1, <2>2, NoMore DEF NothingLeft
<1>4. /\ Min({contentLength, Len(input)}) \in Int
      /\ Min({contentLength, Len(input)}) <= offset
      /\ Min({contentLength, Len(input)}) <= Len(input)
  <2>1. Min({contentLength, Len(input)}) =
          IF contentLength <= Len(input) THEN contentLength ELSE Len(input)
    BY <1>1, MinOfTwo
  <2> QED BY <1>1, <1>3, <2>1
<1>5. n \in Nat /\ n \in 0 .. offset - boffset - 1 /\ n + Len(workingBoundary) <= Len(input)
  <2> DEFINE m == Min({contentLength, Len(input)})
             w == Len(workingBoundary)
             l == Len(putback)
             k == Len(input)
  <2>1. n \in 0 .. m - w
    BY <1>0
  <2>2. /\ m \in Int /\ m <= offset /\ m <= k /\ w \in Nat /\ l \in Nat /\ l + boffset < w
        /\ boffset \in Nat /\ offset \in Nat /\ k \in Nat
    BY <1>1, <1>2, <1>4
  <2> HIDE DEF m, w, l, k
  <2>3. n \in Nat /\ n \in 0 .. offset - boffset - 1 /\ n + w <= k
    BY <2>1, <2>2
  <2> QED BY <2>3 DEF w, k
<1>6. Differs(n)
  BY <1>0, <1>1, <1>5 DEF Found, Searched
<1>7. ~OccursAt(workingBoundary, n)
  BY <1>1, <1>5, <1>6, NotThere
<1> QED BY <1>0, <1>7 DEF OccursAt

(* A boundary was found: what follows it may be empty.                      *)
LEMMA FoundOne ==
  ASSUME StreamOK', first' \in BOOLEAN, boffset' = Len(workingBoundary')
  PROVE  EmptyHasNoBoundary'
<1>1. Len(workingBoundary') \in Nat
  BY BoundaryLength
<1>2. ~(boffset' < Len(workingBoundary'))
  BY <1>1
<1> QED BY <1>2 DEF EmptyHasNoBoundary

(* Every step keeps the bodies that were found.                             *)
LEMMA PartsStep ==
  ASSUME StreamOK, BufferOK, PlaceOK, FirstIsPlain, Matched, Found, BodyUpToBoundary,
         out \in Seq(Bytes), parts \in Seq(Body), UNCHANGED request, [Next]_vars
  PROVE  parts' \in Seq(Body) /\ BodyUpToBoundary'
<1>1. FirstIsPlain' /\ \A i \in DOMAIN parts : Delimited(parts[i])
  BY SamePlain DEF BodyUpToBoundary
<1>0. ASSUME NEW i \in DOMAIN parts', Delimited(parts'[i]) PROVE Delimited(parts[i])'
  <2>1. PICK q : q = parts'[i]
    OBVIOUS
  <2>2. Delimited(q)'
    BY <1>0, <2>1, StaysDelimited
  <2> QED BY <2>1, <2>2 DEF Delimited, OccursAt
<1>2. CASE parts' = parts
  <2>1. \A i \in DOMAIN parts' : Delimited(parts'[i])
    BY <1>1, <1>2
  <2>2. \A i \in DOMAIN parts' : Delimited(parts[i])'
    BY <1>0, <2>1
  <2> QED BY <1>2, <2>2 DEF BodyUpToBoundary
<1>3. CASE /\ pc = "trail" /\ ~first
           /\ parts' = Append(parts, [start |-> start, body |-> out, stored |-> formData])
  <2> DEFINE p == [start |-> start, body |-> out, stored |-> formData]
  <2>1. p \in Body /\ p.start = start /\ p.body = out
    BY DEF Body, PlaceOK, HeaderPlace
  <2> HIDE DEF p
  <2>2. Delimited(p)
    BY <1>3, <2>1, TrailDelimits
  <2>3. parts' = Append(parts, p)
    BY <1>3 DEF p
  <2>4. /\ parts' \in Seq(Body) /\ DOMAIN parts' = 1 .. Len(parts) + 1
        /\ parts'[Len(parts) + 1] = p
        /\ \A i \in 1 .. Len(parts) : parts'[i] = parts[i]
    BY <2>1, <2>3
  <2>5. ASSUME NEW i \in DOMAIN parts' PROVE Delimited(parts'[i])
    <3>1. i \in 1 .. Len(parts) \/ i = Len(parts) + 1
      BY <2>4
    <3> QED BY <1>1, <2>2, <2>4, <3>1
  <2>6. \A i \in DOMAIN parts' : Delimited(parts[i])'
    BY <1>0, <2>5
  <2> QED BY <2>4, <2>6 DEF BodyUpToBoundary
<1>4. \/ parts' = parts
      \/ /\ pc = "trail" /\ ~first
         /\ parts' = Append(parts, [start |-> start, body |-> out, stored |-> formData])
  BY DEF Next, ScanEnds, ScanMatches, ScanFalseMatch, FalseMatch, ScanEmits, Trail, Part,
     LineByte, LineBreaksOff, LineFeed, LineBlanks, vars
<1> QED BY <1>2, <1>3, <1>4

(* The boundaries that were found are the ones in the input, always.        *)
LEMMA SearchHolds == Spec => []SearchOK
<1>1. Init => SearchOK
  <2> SUFFICES ASSUME Init PROVE SearchOK
    OBVIOUS
  <2>1. /\ StreamOK /\ BufferOK /\ Len(input) \in Nat /\ contentLength \in Nat
    BY Starts DEF StreamOK
  <2>2. /\ first = TRUE /\ offset = 0 /\ boffset = 0 /\ out = <<>> /\ parts = <<>>
        /\ pc = IF contentLength = 0 THEN "end" ELSE "scan"
    BY DEF Init
  <2>3. out \in Seq(Bytes) /\ parts \in Seq(Body) /\ DOMAIN parts = {}
    BY <2>2, EmptySeq
  <2>4. Found
    <3>1. Searched(0)
      <4>1. 0 .. 0 - 0 - 1 = {}
        OBVIOUS
      <4> QED BY <2>2, <4>1, Zenon DEF Searched
    <3>2. pc \in {"end", "scan"}
      BY <2>2
    <3> QED BY <2>2, <3>1, <3>2 DEF Found
  <2>5. BodyUpToBoundary
    BY <2>3, Zenon DEF BodyUpToBoundary
  <2>6. EmptyHasNoBoundary
    <3> SUFFICES ASSUME pc = "end", NEW n \in 0 .. Min({contentLength, Len(input)}) - Len(workingBoundary)
                 PROVE  FALSE
      BY DEF EmptyHasNoBoundary
    <3>1. contentLength = 0
      BY <2>2
    <3>2. Min({contentLength, Len(input)}) = 0
      <4>1. Min({contentLength, Len(input)}) =
              IF contentLength <= Len(input) THEN contentLength ELSE Len(input)
        BY <2>1, MinOfTwo
      <4> QED BY <2>1, <3>1, <4>1
    <3>3. Len(workingBoundary) \in Nat /\ Len(workingBoundary) > 0
      BY <2>1, <2>2, BoundaryLength
    <3> DEFINE w == Len(workingBoundary)
    <3>4. n \in 0 .. 0 - w /\ w \in Nat /\ w > 0
      BY <3>2, <3>3
    <3> HIDE DEF w
    <3> QED BY <3>4
  <2> QED BY <2>3, <2>4, <2>5, <2>6 DEF SearchOK
<1>2. ASSUME StreamOK, BufferOK, PlaceOK, OrderOK, SearchOK, [Next]_vars,
             StreamOK', BufferOK', PlaceOK'
      PROVE  SearchOK'
  <2>1. UNCHANGED request
    BY <1>2 DEF Next, ScanEnds, ScanMatches, ScanFalseMatch, FalseMatch, ScanEmits, Trail, Part,
       LineByte, LineBreaksOff, LineFeed, LineBlanks, vars, request
  <2>2. FirstIsPlain' = FirstIsPlain
    BY <2>1, SamePlain
  <2>3. SUFFICES ASSUME FirstIsPlain
                 PROVE  /\ out' \in Seq(Bytes) /\ parts' \in Seq(Body)
                        /\ Found' /\ BodyUpToBoundary' /\ EmptyHasNoBoundary'
    BY <2>2 DEF SearchOK
  <2>4. /\ Ordered /\ Matched /\ Found /\ BodyUpToBoundary /\ EmptyHasNoBoundary
        /\ out \in Seq(Bytes) /\ parts \in Seq(Body)
    BY <1>2, <2>3 DEF OrderOK, SearchOK
  <2>5. parts' \in Seq(Body) /\ BodyUpToBoundary'
    BY <1>2, <2>1, <2>3, <2>4, PartsStep
  <2>6. CASE ScanEnds
    <3>1. pc' = "end" /\ out' = out
      BY <2>6 DEF ScanEnds, Return
    <3>2. EmptyHasNoBoundary'
      BY <1>2, <2>4, <2>6, EndsEmpty
    <3> QED BY <2>4, <2>5, <3>1, <3>2 DEF Found
  <2>7. CASE ScanMatches \/ ScanFalseMatch \/ ScanEmits
    <3>1. Found' /\ out' \in Seq(Bytes)
      BY <1>2, <2>4, <2>7, ScanSearches
    <3>2. pc' # "end"
      BY <2>7 DEF ScanMatches, ScanFalseMatch, FalseMatch, ScanEmits
    <3> QED BY <2>5, <3>1, <3>2 DEF EmptyHasNoBoundary
  <2>8. CASE Trail \/ Part \/ LineByte \/ LineBreaksOff \/ LineFeed \/ LineBlanks
    <3>1. Found' /\ out' \in Seq(Bytes)
      BY <1>2, <2>4, <2>8, BetweenSearch
    <3>2. CASE Trail \/ Part
      <4>1. pc \in {"trail", "part"} /\ UNCHANGED <<first, boffset>>
        BY <3>2 DEF Trail, Part
      <4>2. workingBoundary' = workingBoundary /\ boffset = Len(workingBoundary)
        BY <1>2, <2>1, <4>1 DEF workingBoundary, request, PlaceOK, BoundaryPlace
      <4>3. EmptyHasNoBoundary'
        BY <1>2, <4>1, <4>2, FoundOne DEF BufferOK
      <4> QED BY <2>5, <3>1, <4>3
    <3>3. CASE LineByte \/ LineBreaksOff \/ LineFeed \/ LineBlanks
      <4>1. pc' # "end"
        BY <3>3 DEF LineByte, LineBreaksOff, LineFeed, LineBlanks, LineEnds, Scan
      <4> QED BY <2>5, <3>1, <4>1 DEF EmptyHasNoBoundary
    <3> QED BY <2>8, <3>2, <3>3
  <2>9. CASE UNCHANGED vars
    <3>1. out' = out /\ Found'
      <4>1. /\ UNCHANGED <<out, pc, first, start, offset, boffset, input, boundary>>
            /\ UNCHANGED contentLength
        BY <2>9 DEF vars
      <4>2. Searched(0)' = Searched(0) /\ Searched(start)' = Searched(start)
        BY <4>1 DEF Searched, Differs, workingBoundary
      <4>3. Collected' = Collected /\ HeaderEnded' = HeaderEnded /\ NothingLeft' = NothingLeft
        BY <4>1 DEF Collected, HeaderEnded, NothingLeft
      <4> QED BY <2>4, <4>1, <4>2, <4>3 DEF Found
    <3>2. EmptyHasNoBoundary'
      BY <2>2, <2>4, <2>9 DEF vars, EmptyHasNoBoundary, OccursAt, workingBoundary
    <3> QED BY <2>4, <2>5, <3>1, <3>2
  <2> QED BY <1>2, <2>6, <2>7, <2>8, <2>9 DEF Next
<1> QED BY <1>1, <1>2, OrderHolds, PTL DEF Spec

(* afterNextBoundary finds the boundaries that were sent: each body ends at *)
(* the first one behind its header, whatever looked like one before, and a  *)
(* submission is only taken for an empty one if there is none.              *)
THEOREM BoundariesFound == Spec => []BoundariesAreFound
<1>1. SearchOK => BoundariesAreFound
  BY DEF SearchOK, BoundariesAreFound, BodyUpToBoundary, EmptyHasNoBoundary
<1> QED BY <1>1, SearchHolds, PTL
===============================================================================
