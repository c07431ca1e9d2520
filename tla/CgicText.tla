------------------------------- MODULE CgicText -------------------------------
(***************************************************************************)
(* The texts that cgic takes apart and puts together, as functions: form    *)
(* input, content type, header values, field values, numbers, cookies and   *)
(* HTML.  A text is a sequence of byte codes.  The reference definitions of *)
(* what a browser does with its end of these texts come last.               *)
(*                                                                          *)
(* The names of header parameters are one letter: n is name and f filename; *)
(* b stands for "boundary" in a content type.                               *)
(***************************************************************************)
EXTENDS Integers, Sequences, FiniteSets, SequencesExt

CONSTANT
  HexBelow   \* what the build places before the table cgiHexValue, where a
             \* byte from 128 on, a negative char, indexes it

ASSUME TextAssumption == HexBelow \in [128 .. 255 -> Int]

NUL == 0
TAB == 9
LF == 10
VT == 11
FF == 12
CR == 13
SP == 32
QUOTE == 34
HASH == 35
PERCENT == 37
AMP == 38
PLUS == 43
MINUS == 45
DOT == 46
SEMI == 59
LT == 60
EQ == 61
GT == 62

Digits == 48 .. 57
Upper == 65 .. 90
Lower == 97 .. 122
Alnum == Digits \cup Upper \cup Lower
Blank == {TAB, LF, VT, FF, CR, SP}   \* isspace

Byte == 1 .. 255
Text == Seq(Byte)

(* What a C pointer reads at place i: the end mark behind the last byte.    *)
At(s, i) == IF i \in DOMAIN s THEN s[i] ELSE NUL

(* The first place from i on that holds, or does not hold, one of C; the    *)
(* place behind the text if there is none.                                  *)
Find(s, i, C) == Min({j \in i .. Len(s) : s[j] \in C} \cup {Len(s) + 1})
Skip(s, i, C) == Min({j \in i .. Len(s) : s[j] \notin C} \cup {Len(s) + 1})

(* A text ends at its first end mark.                                       *)
CString(s) == SubSeq(s, 1, Find(s, 1, {NUL}) - 1)

(* A walk through a text from place i on: what is put out at each place     *)
(* that is come to, up to the first that is none of the text's.             *)
Walk(next, out, i) ==
  LET From[p \in DOMAIN next] ==
        out[p] \o IF next[p] \in DOMAIN next THEN From[next[p]] ELSE <<>>
  IN  IF i \in DOMAIN next THEN From[i] ELSE <<>>

(* APPEND: what fits into an array of the given size, with its end mark.    *)
Clip(s, space) == SubSeq(s, 1, Min({Len(s), space - 1}))

tolower(c) == IF c \in Upper THEN c + 32 ELSE c

cgiStrEqNc(s, t) == Len(s) = Len(t) /\ \A i \in DOMAIN s : tolower(s[i]) = tolower(t[i])

-------------------------------------------------------------------------------
(* Form input: pairs of names and values, unescaped.                        *)

cgiHexValue(c) ==
  CASE c \in Digits -> c - 48
    [] c \in 65 .. 70 -> c - 55
    [] c \in 97 .. 102 -> c - 87
    [] c \in 128 .. 255 -> HexBelow[c]
    [] OTHER -> 0

(* Slip: the first digit of an escape is not shifted.                       *)
UnescapeUnshifted(e, c) ==
  CASE e.state = "rest" /\ c = PERCENT -> [e EXCEPT !.state = "first"]
    [] e.state = "rest" /\ c = PLUS -> [e EXCEPT !.s = Append(@, SP)]
    [] e.state = "rest" /\ c \notin {PERCENT, PLUS} -> [e EXCEPT !.s = Append(@, c)]
    [] e.state = "first" -> [e EXCEPT !.state = "second", !.value = cgiHexValue(c)]
    [] e.state = "second" ->
         [e EXCEPT !.state = "rest", !.s = Append(@, (e.value + cgiHexValue(c)) % 256)]

(* One turn of the loop of cgiUnescapeChars, by its escape state: an int is *)
(* put out as a byte.                                                       *)
UnescapeChar(e, c) ==
  CASE e.state = "rest" /\ c = PERCENT -> [e EXCEPT !.state = "first"]
    [] e.state = "rest" /\ c = PLUS -> [e EXCEPT !.s = Append(@, SP)]
    [] e.state = "rest" /\ c \notin {PERCENT, PLUS} -> [e EXCEPT !.s = Append(@, c)]
    [] e.state = "first" -> [e EXCEPT !.state = "second", !.value = 16 * cgiHexValue(c)]
    [] e.state = "second" ->
         [e EXCEPT !.state = "rest", !.s = Append(@, (e.value + cgiHexValue(c)) % 256)]

cgiUnescapeChars(s) ==
  LET After[i \in 0 .. Len(s)] ==
        IF i = 0 THEN [state |-> "rest", value |-> 0, s |-> <<>>]
        ELSE UnescapeChar(After[i - 1], s[i])
  IN  CString(After[Len(s)].s)

(* The pairs are found before they are unescaped.  What lies behind the     *)
(* last = sign's pair is dropped; an & before the = belongs to the name.    *)
cgiParseFormInput(data) ==
  LET eq == [pos \in DOMAIN data |-> Find(data, pos, {EQ})]
      amp == [pos \in DOMAIN data |-> Find(data, eq[pos] + 1, {AMP})]
      pair(pos) == [attr |-> cgiUnescapeChars(SubSeq(data, pos, eq[pos] - 1)),
                    value |-> cgiUnescapeChars(SubSeq(data, eq[pos] + 1, amp[pos] - 1))]
  IN  Walk([pos \in DOMAIN data |-> amp[pos] + 1],
           [pos \in DOMAIN data |-> IF eq[pos] > Len(data) THEN <<>> ELSE <<pair(pos)>>], 1)

-------------------------------------------------------------------------------
(* cgiStrBeginsNc: the parameter at place p is the boundary.                *)
BoundaryNamed(type, p) == tolower(At(type, p)) = 98 /\ At(type, p + 1) = EQ

(* main: the content type, cut off at the first semicolon, and the boundary *)
(* among its parameters.  The boundary ends at a blank, not at a semicolon. *)
BoundaryOf(env, space) ==
  LET type == Clip(env, space)
      first == Find(type, 1, {SEMI})
      param == [at \in DOMAIN type |-> Skip(type, at + 1, Blank)]   \* at: of a semicolon
      named(at) == BoundaryNamed(type, param[at])
      text(p) == SubSeq(type, p + 2, Find(type, p + 2, Blank) - 1)
  IN  [type |-> SubSeq(type, 1, first - 1),
       boundary |->
         Walk([at \in DOMAIN type |->
                 IF named(at) THEN Len(type) + 1 ELSE Find(type, param[at], {SEMI})],
              [at \in DOMAIN type |-> IF named(at) THEN text(param[at]) ELSE <<>>], first)]

(* Slip: a semicolon ends a quoted value.                                   *)
HeaderTextUnquoted(s, i) ==
  LET b == IF At(s, i) = QUOTE THEN i + 1 ELSE i
  IN  [text |-> SubSeq(s, b, Find(s, b, {SEMI, QUOTE}) - 1), next |-> Find(s, b, {SEMI})]

(* A header's value in quotes or bare, from place i: the text, and the      *)
(* place of the semicolon behind it.                                        *)
HeaderText(s, i) ==
  IF At(s, i) = QUOTE
    THEN LET close == Find(s, i + 1, {QUOTE})
         IN  [text |-> SubSeq(s, i + 1, close - 1), next |-> Find(s, close, {SEMI})]
    ELSE [text |-> SubSeq(s, i, Find(s, i, {SEMI}) - 1), next |-> Find(s, i, {SEMI})]

(* The parameters of a header's value from the semicolon at place i on, as  *)
(* far as they are well formed.                                             *)
Parameters(s, i) ==
  LET name == [p \in DOMAIN s |-> Skip(s, p + 1, Blank)]
      stop == [p \in DOMAIN s |-> Skip(s, name[p], Alnum)]
      eq == [p \in DOMAIN s |-> Skip(s, stop[p], Blank)]
      value == [p \in DOMAIN s |-> HeaderText(s, Skip(s, eq[p] + 1, Blank))]
      good(p) == s[p] = SEMI /\ At(s, eq[p]) = EQ
  IN  Walk([p \in DOMAIN s |-> IF good(p) THEN value[p].next ELSE Len(s) + 1],
           [p \in DOMAIN s |->
              IF good(p) THEN <<[name |-> SubSeq(s, name[p], stop[p] - 1), value |-> value[p].text]>>
              ELSE <<>>], i)

(* The last parameter of that name, which overwrites the ones before it.    *)
LastNamed(ps, name) == SelectLastInSeq(ps, LAMBDA p : cgiStrEqNc(p.name, name))

(* decomposeValue: the value and the parameters asked for.  A parameter     *)
(* that was not asked for is stored through a null pointer, unless there is *)
(* no space for any.                                                        *)
decomposeValue(s, argNames, space) ==
  LET m == HeaderText(s, Skip(s, 1, Blank))
      ps == Parameters(s, m.next)
      known(p) == \E i \in DOMAIN argNames : cgiStrEqNc(p.name, argNames[i])
  IN  [mvalue |-> m.text,
       args |-> [i \in DOMAIN argNames |->
                   LET k == LastNamed(ps, argNames[i])
                   IN  IF k = 0 THEN <<>> ELSE Clip(ps[k].value, space)],
       null |-> space > 0 /\ \E k \in DOMAIN ps : ~known(ps[k])]

-------------------------------------------------------------------------------
(* Fields.                                                                  *)

(* The new lines that a burst of CRs and LFs stands for.                    *)
Burst(cr, lf) == Max({cr, lf})

(* One turn of the loop of cgiFormEntryString, the end mark being a byte:   *)
(* a burst is counted, and put out as the larger count of LFs as far as     *)
(* there is room before the byte behind it.                                 *)
EntryChar(d, c, avail, newlines) ==
  IF d.end THEN d
  ELSE IF c = CR THEN [d EXCEPT !.cr = @ + 1]
  ELSE IF c = LF THEN [d EXCEPT !.lf = @ + 1]
  ELSE LET lfs == IF newlines THEN Burst(d.cr, d.lf) ELSE 0
           room == Max({0, avail - Len(d.s)})
           s == d.s \o [i \in 1 .. Min({lfs, room}) |-> LF]
           full == lfs > room
       IN  IF c = NUL THEN [d EXCEPT !.s = s, !.truncated = full, !.end = TRUE]
           ELSE IF Len(s) >= avail THEN [d EXCEPT !.s = s, !.truncated = TRUE, !.end = TRUE]
           ELSE [s |-> Append(s, c), cr |-> 0, lf |-> 0, truncated |-> d.truncated, end |-> FALSE]

(* Slip: no room is kept for the end mark.                                  *)
AvailAll(max) == max

(* The room for the value beside its end mark.                              *)
Avail(max) == max - 1

cgiFormEntryString(value, max, newlines) ==
  LET text == Append(value, NUL)
      After[i \in 0 .. Len(text)] ==
        IF i = 0 THEN [s |-> <<>>, cr |-> 0, lf |-> 0, truncated |-> FALSE, end |-> FALSE]
        ELSE EntryChar(After[i - 1], text[i], Avail(max), newlines)
      d == After[Len(text)]
  IN  [text |-> d.s,
       code |-> IF d.truncated THEN "cgiFormTruncated"
                ELSE IF d.s = <<>> THEN "cgiFormEmpty" ELSE "cgiFormSuccess"]

(* cgiFormStringSpaceNeeded, and the size cgiFormStringMultiple allocates.  *)
SpaceNeeded(value) == Len(value) + 1

cgiFirstNonspaceChar(s) == At(s, Skip(s, 1, Blank))

(* The C library's atoi and atof, the latter in tenths, for short texts.    *)
Natural(s) ==
  LET Of[i \in 0 .. Len(s)] == IF i = 0 THEN 0 ELSE 10 * Of[i - 1] + (s[i] - 48)
  IN  Of[Len(s)]
Signed(s, n) == IF cgiFirstNonspaceChar(s) = MINUS THEN -n ELSE n
Unsigned(s) ==
  LET i == Skip(s, 1, Blank)
  IN  SubSeq(s, IF At(s, i) \in {MINUS, PLUS} THEN i + 1 ELSE i, Len(s))
Whole(s) == SubSeq(s, 1, Skip(s, 1, Digits) - 1)
atoi(s) == Signed(s, Natural(Whole(Unsigned(s))))
atof(s) ==
  LET u == Unsigned(s)
      w == Whole(u)
      d == At(u, Len(w) + 2)
  IN  Signed(s, 10 * Natural(w) + IF At(u, Len(w) + 1) = DOT /\ d \in Digits THEN d - 48 ELSE 0)

(* cgiFormInteger and cgiFormDouble of a field that was found.              *)
FormNumber(value, starts, number, defaultV) ==
  IF value = <<>> THEN [n |-> defaultV, code |-> "cgiFormEmpty"]
  ELSE IF cgiFirstNonspaceChar(value) \notin Digits \cup starts
    THEN [n |-> defaultV, code |-> "cgiFormBadType"]
    ELSE [n |-> number, code |-> "cgiFormSuccess"]

cgiFormInteger(value, defaultV) == FormNumber(value, {MINUS, PLUS}, atoi(value), defaultV)
cgiFormDouble(value, defaultV) == FormNumber(value, {DOT, MINUS, PLUS}, atof(value), defaultV)

(* cgiFormIntegerBounded and cgiFormDoubleBounded of what was read.         *)
Bounded(r, min, max) ==
  IF r.code # "cgiFormSuccess" THEN r
  ELSE IF r.n < min THEN [n |-> min, code |-> "cgiFormConstrained"]
  ELSE IF r.n > max THEN [n |-> max, code |-> "cgiFormConstrained"] ELSE r

-------------------------------------------------------------------------------
(* The list of entries.                                                     *)

(* cgiFormEntryFindNext: the entry of that name from cgiFindPos on; behind  *)
(* the list if there is none.                                               *)
FindNext(list, name, pos) ==
  Min({i \in pos .. Len(list) : list[i].attr = name} \cup {Len(list) + 1})

cgiFormEntryFindFirst(list, name) == FindNext(list, name, 1)

(* The entries that a loop of FindFirst and FindNext visits.                *)
Visited(list, name) ==
  LET found == [pos \in DOMAIN list |-> FindNext(list, name, pos)]
  IN  Walk([pos \in DOMAIN list |-> found[pos] + 1],
           [pos \in DOMAIN list |-> IF found[pos] > Len(list) THEN <<>> ELSE <<list[found[pos]]>>], 1)

(* cgiFormStringMultiple.                                                   *)
StringMultiple(list, name) ==
  [i \in DOMAIN Visited(list, name) |->
     LET v == Visited(list, name)[i].value IN cgiFormEntryString(v, SpaceNeeded(v), TRUE).text]

(* The first choice that is the value; behind the choices if there is none. *)
Choice(choices, value) == Min({i \in DOMAIN choices : choices[i] = value} \cup {Len(choices) + 1})

(* cgiFormSelectSingle and cgiFormRadio; choices count from 0.              *)
SelectSingle(list, name, choices, defaultV) ==
  LET e == cgiFormEntryFindFirst(list, name)
      i == Choice(choices, list[e].value)
  IN  IF e > Len(list) THEN [n |-> defaultV, code |-> "cgiFormNotFound"]
      ELSE IF i > Len(choices) THEN [n |-> defaultV, code |-> "cgiFormNoSuchChoice"]
      ELSE [n |-> i - 1, code |-> "cgiFormSuccess"]

(* cgiFormSelectMultiple and cgiFormCheckboxMultiple.                       *)
SelectMultiple(list, name, choices) ==
  LET picked == [i \in DOMAIN Visited(list, name) |-> Choice(choices, Visited(list, name)[i].value)]
      hits == {i \in DOMAIN picked : picked[i] <= Len(choices)}
  IN  [result |-> [c \in DOMAIN choices |-> \E i \in hits : picked[i] = c],
       invalid |-> Len(picked) - Cardinality(hits),
       code |-> IF hits = {} THEN "cgiFormNotFound" ELSE "cgiFormSuccess"]

(* cgiFormEntries: every name once, in the order of their first entries.    *)
FormEntries(list) ==
  LET fresh(i) == \A j \in 1 .. i - 1 : list[j].attr # list[i].attr
  IN  FlattenSeq([i \in DOMAIN list |-> IF fresh(i) THEN <<list[i].attr>> ELSE <<>>])

-------------------------------------------------------------------------------
(* Cookies.                                                                 *)

(* How many bytes of the name, and then of its end mark, the cookie header  *)
(* repeats at place p.                                                      *)
Common(cookie, p, name) ==
  Min({j \in 0 .. Len(name) : At(cookie, p + j) # At(name, j + 1)} \cup {Len(name) + 1})

(* Slip: a cookie whose name begins with the name is taken for it.          *)
NamedByPrefix(cookie, p, name) == Common(cookie, p, name) >= Len(name)

(* The cookie at place p has that name.                                     *)
Named(cookie, p, name) ==
  Common(cookie, p, name) = Len(name) /\ At(cookie, p + Len(name)) = EQ

(* Where the cookie behind a semicolon begins.                              *)
NextCookie(cookie, semi) == Skip(cookie, semi + 1, Blank)

(* cgiCookieString: what the first place decides that decides anything.     *)
(* The value is left as it was when the header ends with the bare name.     *)
cgiCookieString(cookie, name, space) ==
  LET none == [text |-> <<>>, set |-> space > 0, code |-> "cgiFormNotFound"]
      k == [p \in DOMAIN cookie |-> Common(cookie, p, name)]
      semi == [p \in DOMAIN cookie |-> Find(cookie, p + k[p], {SEMI})]
      value(v) == SubSeq(cookie, v, Find(cookie, v, {SEMI}) - 1)
      found(t) == [text |-> Clip(t, space), set |-> space > 0,
                   code |-> IF Len(t) < space \/ t = <<>> THEN "cgiFormSuccess" ELSE "cgiFormTruncated"]
      results ==
        Walk([p \in DOMAIN cookie |-> NextCookie(cookie, semi[p])],
             [p \in DOMAIN cookie |->
                IF k[p] > Len(name) THEN <<[none EXCEPT !.set = FALSE]>>
                ELSE IF Named(cookie, p, name) THEN <<found(value(p + Len(name) + 1))>> ELSE <<>>], 1)
  IN  IF results = <<>> THEN none ELSE results[1]

cgiCookieInteger(cookie, name, space, defaultV) ==
  LET r == cgiCookieString(cookie, name, space)
  IN  [n |-> IF r.code = "cgiFormSuccess" THEN atoi(r.text) ELSE defaultV, code |-> r.code]

(* The places of the array: the = signs are counted.                        *)
Total(cookie) == Cardinality({i \in DOMAIN cookie : cookie[i] = EQ})

(* cgiCookies: the names, and the places the array has for them beside the  *)
(* null pointer at its end.                                                 *)
cgiCookies(cookie) ==
  LET n == [i \in DOMAIN cookie |-> Skip(cookie, i, Blank)]
      eq == [i \in DOMAIN cookie |-> Find(cookie, n[i], {EQ})]
  IN  [names |-> Walk([i \in DOMAIN cookie |-> Find(cookie, eq[i], {SEMI}) + 1],
                      [i \in DOMAIN cookie |->
                         IF eq[i] = n[i] THEN <<>> ELSE <<SubSeq(cookie, n[i], eq[i] - 1)>>], 1),
       total |-> Total(cookie)]

(* cgiHeaderCookieSetString: the pair at the head of the line.  Domain,     *)
(* expiry and path tell the browser when to send it back, and stay there.   *)
SetCookie(name, value) == name \o <<EQ>> \o value

-------------------------------------------------------------------------------
(* HTML: the entities lt, amp, gt and #34 are written with one letter each. *)
Entity == [c \in {LT, AMP, GT, QUOTE} |->
  <<AMP, CASE c = LT -> 108 [] c = AMP -> 97 [] c = GT -> 103 [] c = QUOTE -> HASH, SEMI>>]

(* Slip: an & is left as it is.                                             *)
EscapedHalf(s, C) == FlattenSeq([i \in DOMAIN s |-> IF s[i] \in C \ {AMP} THEN Entity[s[i]] ELSE <<s[i]>>])

(* The bytes of C are replaced by their entities.                           *)
Escaped(s, C) == FlattenSeq([i \in DOMAIN s |-> IF s[i] \in C THEN Entity[s[i]] ELSE <<s[i]>>])

(* TRYPUTC: the output takes only so many bytes.                            *)
Put(s, room) ==
  [text |-> SubSeq(s, 1, Min({Len(s), room})),
   code |-> IF Len(s) <= room THEN "cgiFormSuccess" ELSE "cgiFormIO"]

cgiHtmlEscape(s, room) == Put(Escaped(s, {LT, AMP, GT}), room)
cgiValueEscape(s, room) == Put(Escaped(s, {QUOTE}), room)

-------------------------------------------------------------------------------
(* Reference definitions: the browser's side.                               *)

(* A form field as a browser encodes it, and a list of fields.              *)
HexDigit(n) == IF n < 10 THEN 48 + n ELSE 55 + n
Encoded(s) ==
  FlattenSeq([i \in DOMAIN s |->
    IF s[i] \in Alnum THEN <<s[i]>>
    ELSE IF s[i] = SP THEN <<PLUS>>
    ELSE <<PERCENT, HexDigit(s[i] \div 16), HexDigit(s[i] % 16)>>])

Joined(texts, separator) ==
  FlattenSeq([i \in DOMAIN texts |-> (IF i = 1 THEN <<>> ELSE separator) \o texts[i]])

EncodedForm(pairs) ==
  Joined([i \in DOMAIN pairs |-> Encoded(pairs[i].attr) \o <<EQ>> \o Encoded(pairs[i].value)], <<AMP>>)

(* The content type of a multipart form.                                    *)
ContentType(params, boundary) ==
  <<120, SEMI>> \o Joined(params \o <<<<98, EQ>> \o boundary>>, <<SEMI, SP>>)

(* A header's value with its parameters, in quotes or not, and with blanks  *)
(* or without.                                                              *)
Disposition(value, ps) ==
  value \o FlattenSeq([i \in DOMAIN ps |->
    <<SEMI>> \o ps[i].gap \o ps[i].name \o ps[i].gap \o <<EQ>> \o ps[i].gap
      \o IF ps[i].quoted THEN <<QUOTE>> \o ps[i].text \o <<QUOTE>> ELSE ps[i].text])

(* What of a sequence is in C.                                              *)
Only(s, C) == FlattenSeq([i \in DOMAIN s |-> IF s[i] \in C THEN <<s[i]>> ELSE <<>>])

(* The pieces of a text between separators.                                 *)
Pieces(s, C) ==
  LET D == 1 .. Len(s) + 1
  IN  Walk([i \in D |-> Find(s, i, C) + 1], [i \in D |-> <<SubSeq(s, i, Find(s, i, C) - 1)>>], 1)

(* A text's lines, joined by single LFs: bursts of CRs and LFs are replaced *)
(* as a whole, by as many as there are of the one or of the other.          *)
Breaks == {CR, LF}
BurstsAt(s, i) == s[i] \in Breaks /\ At(s, i - 1) \notin Breaks
LinesAt(s, i) ==
  LET count(c) == Cardinality({k \in i .. Skip(s, i, Breaks) - 1 : s[k] = c})
  IN  [n \in 1 .. Max({count(CR), count(LF)}) |-> LF]
Normal(s) ==
  FlattenSeq([i \in DOMAIN s |->
    IF s[i] \notin Breaks THEN <<s[i]>> ELSE IF BurstsAt(s, i) THEN LinesAt(s, i) ELSE <<>>])

(* What a browser shows of HTML text.                                       *)
Shown(s) ==
  LET entities(i) == {x \in DOMAIN Entity : SubSeq(s, i, Min({i + 2, Len(s)})) = Entity[x]}
  IN  Walk([i \in DOMAIN s |-> IF entities(i) = {} THEN i + 1 ELSE i + 3],
           [i \in DOMAIN s |->
              IF entities(i) = {} THEN <<s[i]>> ELSE <<CHOOSE x \in entities(i) : TRUE>>], 1)
===============================================================================
