---------------------------- MODULE CgicMultipart ----------------------------
(***************************************************************************)
(* How cgic reads a multipart/form-data body: the virtual stream with put   *)
(* back (mpRead, mpPutBack), the scan for the next boundary                 *)
(* (afterNextBoundary), the header lines of a part (readHeaderLine) and the *)
(* loop over the parts (cgiParsePostMultipartInput).                        *)
(*                                                                          *)
(* A byte is a short string: CR, LF, a blank, the dash, the colon, letters. *)
(* The header Content-Disposition is the one letter D, and form-data is the *)
(* one letter f; what else a header can say is the subject of CgicText.     *)
(* What becomes of a body in memory and on disk is that of CgicRequest.     *)
(***************************************************************************)
EXTENDS Integers, Sequences, FiniteSets, SequencesExt

CONSTANTS
  Bytes,        \* the values of a byte
  Bodies,       \* what a client may send: pairs of a boundary and a body
  PutbackSize,  \* sizeof(putback): 1024
  HeaderSpace   \* sizeof(attr) and sizeof(value): 1024

CR == "CR"
LF == "LF"
Blanks == {CR, LF, "SP"}

ASSUME MultipartAssumption ==
  /\ PutbackSize \in Nat \ {0}
  /\ HeaderSpace \in Nat \ {0}
  /\ Blanks \cup {"-"} \subseteq Bytes
  /\ \A b \in Bodies : /\ b.boundary \in Seq(Bytes) /\ b.body \in Seq(Bytes)
                       /\ ToSet(b.boundary) \cap Blanks = {}
                       /\ Len(b.boundary) + 4 <= PutbackSize

VARIABLES
  input,          \* the bytes on cgiIn
  boundary,       \* cgiMultipartBoundary, which main cut off at the first blank
  contentLength,  \* cgiContentLength, which need not be the length of input
  inpos,          \* bytes taken from cgiIn so far
  putback,        \* bytes put back and not read again, oldest first
  offset,         \* mp.offset
  pc,             \* where the parser is
  first,          \* afterNextBoundary's argument: no new line is expected
  boffset,        \* bytes of the boundary matched so far
  out,            \* the body collected so far
  line,           \* the header line read so far
  formData,       \* the part's Content-Disposition said form-data
  start,          \* history: the offset at which the body begins
  parts,          \* history: the bodies that were delimited
  result          \* what cgiParsePostMultipartInput returns

vars == <<input, boundary, contentLength, inpos, putback, offset, pc, first,
          boffset, out, line, formData, start, parts, result>>

stream == <<inpos, putback, offset>>
request == <<input, boundary, contentLength>>

NoLine == [attr |-> <<>>, value |-> <<>>, found |-> FALSE]

(* workingBoundary: the first boundary needs no new line before it.         *)
workingBoundary == (IF first THEN <<>> ELSE <<CR, LF>>) \o <<"-", "-">> \o boundary

-------------------------------------------------------------------------------
(* mpRead: how many of n bytes it gets, since it refuses to read past the   *)
(* declared length and cgiIn can end before it; and which bytes those are.  *)
Pending == putback \o SubSeq(input, inpos + 1, Len(input))

Got(n) == Min({n, contentLength - offset, Len(Pending)})

mpRead(n) == SubSeq(Pending, 1, Got(n))

(* Slip: what is put back does not lower the offset.                        *)
TakeUncounted(n, back) ==
  LET old == Min({n, Len(putback)})
  IN  /\ putback' = SubSeq(putback, old + 1, Len(putback)) \o back
      /\ inpos' = inpos + n - old
      /\ offset' = offset + n

(* n bytes are read, from the put back buffer as long as it has any, and    *)
(* mpPutBack then puts the bytes back behind those still in the buffer.     *)
Take(n, back) ==
  LET old == Min({n, Len(putback)})
  IN  /\ putback' = SubSeq(putback, old + 1, Len(putback)) \o back
      /\ inpos' = inpos + n - old
      /\ offset' = offset + n - Len(back)

-------------------------------------------------------------------------------
(* The body begins: afterNextBoundary is called.                            *)
Scan(isFirst, from) ==
  /\ pc' = "scan"
  /\ first' = isFirst
  /\ boffset' = 0
  /\ out' = <<>>
  /\ start' = from

Return(r) ==
  /\ pc' = "end"
  /\ result' = r

Init ==
  /\ \E b \in Bodies : boundary = b.boundary /\ input = b.body
  /\ contentLength \in {Len(input), Len(input) + 1} \cup (IF input = <<>> THEN {} ELSE {Len(input) - 1})
  /\ inpos = 0
  /\ putback = <<>>
  /\ offset = 0
  /\ pc = IF contentLength = 0 THEN "end" ELSE "scan"
  /\ first = TRUE
  /\ boffset = 0
  /\ out = <<>>
  /\ line = NoLine
  /\ formData = FALSE
  /\ start = 0
  /\ parts = <<>>
  /\ result = IF contentLength = 0 THEN "cgiParseSuccess" ELSE "none"

(* No more bytes while a boundary is looked for.  An empty submission is    *)
(* not necessarily an error, the lack of a later boundary is.               *)
ScanEnds ==
  /\ pc = "scan"
  /\ Got(1) # 1
  /\ Return(IF first THEN "cgiParseSuccess" ELSE "cgiParseIO")
  /\ UNCHANGED <<request, stream, first, boffset, out, line, formData, start, parts>>

(* The next byte of the boundary was matched.                               *)
ScanMatches ==
  /\ pc = "scan"
  /\ mpRead(1) = <<workingBoundary[boffset + 1]>>
  /\ Take(1, <<>>)
  /\ boffset' = boffset + 1
  /\ pc' = IF boffset + 1 = Len(workingBoundary) THEN "trail" ELSE "scan"
  /\ UNCHANGED <<request, first, out, line, formData, start, parts, result>>

(* What a false match has in common with its slips: the bytes emitted and   *)
(* the bytes put back.                                                      *)
FalseMatch(emitted, back) ==
  /\ pc = "scan"
  /\ boffset > 0
  /\ Got(1) = 1
  /\ mpRead(1) # <<workingBoundary[boffset + 1]>>
  /\ out' = out \o emitted
  /\ Take(1, back)
  /\ boffset' = 0
  /\ UNCHANGED <<request, pc, first, line, formData, start, parts, result>>

(* Slips: the whole match is put back; nothing is; the last byte read is    *)
(* put back first.                                                          *)
ScanFalseMatchAgain ==
  FalseMatch(<<>>, SubSeq(workingBoundary, 1, boffset) \o mpRead(1))
ScanFalseMatchSkips ==
  FalseMatch(SubSeq(workingBoundary, 1, boffset) \o mpRead(1), <<>>)
ScanFalseMatchSwaps ==
  FalseMatch(<<workingBoundary[1]>>, mpRead(1) \o SubSeq(workingBoundary, 2, boffset))

(* A false match: its first byte belongs to the body, the others are put    *)
(* back and tried again.                                                    *)
ScanFalseMatch ==
  FalseMatch(<<workingBoundary[1]>>, SubSeq(workingBoundary, 2, boffset) \o mpRead(1))

ScanEmits ==
  /\ pc = "scan"
  /\ boffset = 0
  /\ Got(1) = 1
  /\ mpRead(1) # <<workingBoundary[1]>>
  /\ out' = out \o mpRead(1)
  /\ Take(1, <<>>)
  /\ UNCHANGED <<request, pc, first, boffset, line, formData, start, parts, result>>

(* The two bytes behind a boundary.  A new line is skipped, a dash is left  *)
(* for the loop to see, and anything else is dropped.                       *)
Trail ==
  /\ pc = "trail"
  /\ IF Got(2) # 2
       THEN /\ Return(IF first THEN "cgiParseSuccess" ELSE "cgiParseIO")
            /\ Take(Got(2), <<>>)
            /\ UNCHANGED parts
       ELSE /\ Take(2, IF mpRead(2)[1] = "-" THEN mpRead(2) ELSE <<>>)
            /\ parts' = IF first THEN parts
                        ELSE Append(parts, [start |-> start, body |-> out, stored |-> formData])
            /\ pc' = "part"
            /\ UNCHANGED result
  /\ UNCHANGED <<request, first, boffset, out, line, formData, start>>

(* The top of the loop over the parts.                                      *)
Part ==
  /\ pc = "part"
  /\ line' = NoLine
  /\ formData' = FALSE
  /\ IF Got(2) < 2 \/ mpRead(2) = <<"-", "-">>
       THEN Return("cgiParseSuccess") /\ Take(Got(2), <<>>)
       ELSE pc' = "line" /\ Take(2, mpRead(2)) /\ UNCHANGED result
  /\ UNCHANGED <<request, first, boffset, out, start, parts>>

-------------------------------------------------------------------------------
(* A header line is complete.  One without a name or without a value ends   *)
(* the header, and the body begins.                                         *)
LineEnds(from) ==
  IF line.attr # <<>> /\ line.value # <<>>
    THEN /\ formData' = IF line.attr = <<"D">> THEN line.value = <<"f">> ELSE formData
         /\ line' = NoLine
         /\ pc' = "line"
         /\ UNCHANGED <<first, boffset, out, start>>
    ELSE /\ Scan(FALSE, from)
         /\ UNCHANGED <<line, formData>>

(* Slip: no place is left for the end mark.                                 *)
KeptFull(s, c) == IF Len(s) <= HeaderSpace - 1 THEN Append(s, c) ELSE s

(* A byte of a name or a value is kept as long as there is room for it.     *)
Kept(s, c) == IF Len(s) < HeaderSpace - 1 THEN Append(s, c) ELSE s

LineByte ==
  /\ pc = "line"
  /\ Got(1) = 1
  /\ Take(1, <<>>)
  /\ LET c == mpRead(1)[1]
     IN  CASE c = CR -> pc' = "cr" /\ UNCHANGED <<first, boffset, out, line, formData, start>>
           [] c = LF -> LineEnds(offset + 1)
           [] c = ":" /\ line.attr # <<>> ->
                /\ line' = [line EXCEPT !.found = TRUE]
                /\ pc' = "blanks"
                /\ UNCHANGED <<first, boffset, out, formData, start>>
           [] OTHER ->
                /\ line' = IF line.found THEN [line EXCEPT !.value = Kept(@, c)]
                           ELSE IF c \in Blanks THEN line
                           ELSE [line EXCEPT !.attr = Kept(@, c)]
                /\ UNCHANGED <<pc, first, boffset, out, formData, start>>
  /\ UNCHANGED <<request, parts, result>>

(* readHeaderLine returns 0 at the end of the input, whatever it has read.  *)
LineBreaksOff ==
  /\ pc = "line"
  /\ Got(1) # 1
  /\ Scan(FALSE, offset)
  /\ UNCHANGED <<request, stream, line, formData, parts, result>>

(* Slip: the byte behind a CR that is no LF is not put back.                *)
LineFeedSwallows ==
  /\ pc = "cr"
  /\ Take(Got(1), <<>>)
  /\ LineEnds(offset + Got(1))
  /\ UNCHANGED <<request, parts, result>>

(* Behind a CR: a LF belongs to the line, another byte is put back.         *)
LineFeed ==
  /\ pc = "cr"
  /\ LET back == IF mpRead(1) = <<LF>> THEN <<>> ELSE mpRead(1)
     IN  Take(Got(1), back) /\ LineEnds(offset + Got(1) - Len(back))
  /\ UNCHANGED <<request, parts, result>>

(* Behind a colon: blanks are skipped, new lines among them.                *)
LineBlanks ==
  /\ pc = "blanks"
  /\ IF Got(1) = 1 /\ mpRead(1)[1] \in Blanks
       THEN Take(1, <<>>) /\ UNCHANGED pc
       ELSE Take(Got(1), mpRead(1)) /\ pc' = "line"
  /\ UNCHANGED <<request, first, boffset, out, line, formData, start, parts, result>>

Next ==
  \/ ScanEnds \/ ScanMatches \/ ScanFalseMatch \/ ScanEmits \/ Trail \/ Part
  \/ LineByte \/ LineBreaksOff \/ LineFeed \/ LineBlanks

Spec == Init /\ [][Next]_vars

(* The parser is one sequential loop: it goes on as long as it can.         *)
FairSpec == Spec /\ WF_vars(Next)

-------------------------------------------------------------------------------
(* Types.                                                                   *)
TypeOK ==
  /\ inpos \in 0 .. Len(input)
  /\ offset \in 0 .. contentLength
  /\ pc \in {"scan", "trail", "part", "line", "cr", "blanks", "end"}
  /\ boffset \in 0 .. Len(workingBoundary)
  /\ first \in BOOLEAN /\ formData \in BOOLEAN
  /\ start \in 0 .. Len(input)
  /\ Len(line.attr) < HeaderSpace /\ Len(line.value) < HeaderSpace
  /\ result \in {"none", "cgiParseSuccess", "cgiParseIO"}

(* What was sent begins with the boundary, as the bodies of browsers do, or *)
(* no byte of the boundary but the last is other than a dash.  Otherwise a  *)
(* false match for the FIRST boundary that goes beyond its dashes puts      *)
(* bytes back behind others that are yet to be read, and the boundary that  *)
(* begins inside of it can be missed.                                       *)
FirstIsPlain ==
  \/ IsPrefix(<<"-", "-">> \o boundary, input)
  \/ \A i \in 1 .. Len(boundary) - 1 : boundary[i] = "-"

(* The bytes put back are the last ones taken from cgiIn, in their order,   *)
(* so that the body is read as it was sent, however often a false match was *)
(* put back and read again.                                                 *)
PutBackInOrder ==
  FirstIsPlain => putback = SubSeq(input, inpos - Len(putback) + 1, inpos)

(* mp.offset is the place in the body, and so the guard against waiting for *)
(* bytes that never come neither lets a read pass the declared length nor   *)
(* stops one short of it.                                                   *)
OffsetIsPlace == offset = inpos - Len(putback) /\ offset <= contentLength

(* The buffer holds what is put back: it never wraps onto unread bytes.     *)
PutBackFits == Len(putback) < PutbackSize

(* The stream stays within the declared length, and the buffer within its   *)
(* bounds.                                                                  *)
StreamInBounds == OffsetIsPlace /\ PutBackFits

(* s occurs in the input behind the first n bytes.                          *)
OccursAt(s, n) == SubSeq(input, n + 1, n + Len(s)) = s

(* A body ends where the next boundary begins: it is everything from the    *)
(* end of the header's last line to the FIRST place at which the boundary   *)
(* occurs.                                                                  *)
Delimited(p) ==
  LET mark == <<CR, LF, "-", "-">> \o boundary
      end == p.start + Len(p.body)
  IN  /\ input[p.start] \in {CR, LF}
      /\ p.body = SubSeq(input, p.start + 1, end)
      /\ OccursAt(mark, end)
      /\ \A n \in p.start .. end - 1 : ~OccursAt(mark, n)

(* So does each body that was collected.                                    *)
BodyUpToBoundary == FirstIsPlain => \A i \in DOMAIN parts : Delimited(parts[i])

(* A submission is only taken for an empty one if no boundary lies within   *)
(* the declared length, wherever a false match may have begun.              *)
EmptyHasNoBoundary ==
  FirstIsPlain /\ pc = "end" /\ first /\ boffset < Len(workingBoundary) =>
    \A n \in 0 .. Min({contentLength, Len(input)}) - Len(workingBoundary) :
      ~OccursAt(workingBoundary, n)

(* The boundaries that are found are the ones that were sent, whatever      *)
(* looked like one before.                                                  *)
BoundariesAreFound == BodyUpToBoundary /\ EmptyHasNoBoundary

(* Whatever was sent, the parser comes to an end.                           *)
ParserEnds == <>(pc = "end")
===============================================================================
