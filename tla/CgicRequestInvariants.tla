------------------------- MODULE CgicRequestInvariants -------------------------
(***************************************************************************)
(* What the proofs about CgicRequest are told in: first the inductive       *)
(* invariant of the process, RequestOK, and that of its answers, TextsRight;*)
(* then, for the texts, where one text stands in another, what the loops of *)
(* CgicText do turn by turn, and which walks they are.                      *)
(***************************************************************************)
EXTENDS CgicRequest

(* What the form is made of, and what is kept of it.                        *)
FormEntry == [attr : Nat, value : Seq(Nat), size : Nat, file : BOOLEAN, temp : Nat]
SavedEntry ==
  [attr : Nat, value : Seq(Nat), size : Nat, file : BOOLEAN, flag : BOOLEAN, data : Seq(Nat)]
HeldEntry == [attr : Nat, value : Seq(Nat), file : BOOLEAN, data : Seq(Nat)]
SavedFile == [entries : Seq(SavedEntry), whole : BOOLEAN, step : BOOLEAN]

Parsing == {"parse", "open", "body", "entry"}
Storing == {"open", "body", "entry"}

RequestTypes ==
  /\ sent \in Seq(Part) /\ todo \in Seq(Part) /\ multipart \in BOOLEAN
  /\ pc \in Parsing \cup {"main", "failed", "ended", "undefined", "killed"}
  /\ cur \in [temp : Nat, open : BOOLEAN]
  /\ list \in Seq(FormEntry)
  /\ serial \in Nat
  /\ temps \in [DOMAIN temps -> Seq(Nat)]
  /\ restored \in BOOLEAN
  /\ saved # None => saved \in SavedFile
  /\ shot \in Seq(HeldEntry)

(* Temporary files are numbered in the order they are made.                 *)
Numbered ==
  /\ DOMAIN temps \subseteq 1 .. serial
  /\ \A i \in DOMAIN list : list[i].temp <= serial
  /\ pc \in Storing => cur.temp <= serial

(* The parts that were read are the entries, the others are still to come.  *)
InTurn ==
  pc \in Parsing => /\ Len(list) + Len(todo) = Len(sent)
                    /\ \A i \in 1 .. Len(todo) : todo[i] = sent[Len(list) + i]
                    /\ pc \in Storing => todo # <<>>

Multipart ==
  /\ (\E i \in DOMAIN sent : sent[i].file \/ sent[i].odd) => multipart
  /\ pc \in {"open", "body"} => multipart

(* The file of the part being stored.                                       *)
Stored ==
  pc \in Storing =>
    /\ cur.temp # 0 => Head(todo).file
    /\ pc = "open" => cur.temp # 0
    /\ cur.open => cur.temp # 0 /\ pc # "open"
    /\ cur.temp # 0 /\ ~cur.open => pc = "open" \/ "open" \in bad
    /\ pc = "entry" /\ cur.open /\ "write" \notin bad => temps[cur.temp] = Head(todo).body

(* Which temporary files there are.                                         *)
Owned ==
  /\ \A i, j \in DOMAIN list : list[i].temp = list[j].temp /\ i # j => list[i].temp = 0
  /\ pc \in {"parse", "main"} => DOMAIN temps = Listed
  /\ pc \in Storing => /\ DOMAIN temps = Listed \cup ({cur.temp} \ {0})
                       /\ cur.temp \notin Listed
  /\ pc = "failed" /\ "open" \notin bad => DOMAIN temps \subseteq Listed
  /\ NoTempLeft

(* The parts whose entries keep their own files whatever is restored.       *)
Genuine ==
  {i \in DOMAIN sent : NamesakesAreFields \/ \A j \in DOMAIN sent : j < i => sent[j].attr # sent[i].attr}

(* The entries are those that were sent, and so are their files, but for    *)
(* failures and, once they were restored, namesakes.                        *)
Listing ==
  /\ Len(list) <= Len(sent)
  /\ \A i \in DOMAIN list : /\ list[i].attr = sent[i].attr /\ list[i].file = sent[i].file
                            /\ list[i].size = Len(sent[i].body)

FilesKept ==
  pc \in Parsing \cup {"main"} =>
    \A i \in DOMAIN list :
      list[i].temp # 0 /\ i \in Genuine =>
        /\ list[i].file
        /\ bad \cap {"open", "write", "flush"} = {} => temps[list[i].temp] = sent[i].body

SavedRight ==
  saved # None =>
    /\ Len(saved.entries) <= Len(sent)
    /\ saved.step \/ "length" \in bad
    /\ \A i \in DOMAIN saved.entries :
         LET r == saved.entries[i]
         IN  /\ r.attr = sent[i].attr /\ r.file = sent[i].file /\ r.size = Len(sent[i].body)
             /\ i \in Genuine /\ r.flag =>
                  r.file /\ (bad \cap {"open", "write", "flush"} = {} => r.data = sent[i].body)

(* A saved entry and an entry hold the same.                                *)
Holds(r) ==
  [attr |-> r.attr, value |-> r.value, file |-> r.file, data |-> IF r.flag THEN r.data ELSE <<>>]

ShotSaved ==
  saved # None /\ NamesakesAreFields /\ "lost" \notin bad =>
    /\ Len(saved.entries) <= Len(shot)
    /\ \A i \in DOMAIN saved.entries : Holds(saved.entries[i]) = shot[i]
    /\ "close" \notin bad => Len(saved.entries) = Len(shot)

RestoredRight ==
  restored =>
    /\ pc \notin Parsing \cup {"failed", "ended"}
    /\ NamesakesAreFields /\ bad \cap {"lost", "flush"} = {} =>
         /\ Len(list) <= Len(shot)
         /\ \A i \in DOMAIN list : Contents[i] = shot[i]
         /\ bad \cap {"close", "attr"} = {} => Len(list) = Len(shot)

Environment ==
  /\ EnvironmentIsValid
  /\ pc \in Parsing => env \in {"environment", "heap"}

FreedOnce ==
  freed # {} => multipart /\ bad \cap {"fileName", "contentType", "tfileName"} # {}

RequestOK ==
  /\ RequestTypes /\ Numbered /\ InTurn /\ Multipart /\ Stored /\ Owned
  /\ Listing /\ FilesKept /\ SavedRight /\ ShotSaved /\ RestoredRight
  /\ Environment /\ FreedOnce /\ StaysDefined /\ UpdateIsWhole

(* The library is asked once, with a text of cgiMain's.                     *)
TextsRight ==
  /\ call # None => call \in Calls
  /\ answer # <<>> => call \in Calls /\ answer = <<Answer(call)>>

(* The numbers of the files that are made for the first n saved entries.    *)
Made(n) == {serial + i : i \in {j \in 1 .. n : saved.entries[j].flag}}

(* The temporary files then, of which those numbered in short end too soon. *)
Refilled(n, short) ==
  [t \in (DOMAIN temps \ Listed) \cup Made(n) |->
     IF t <= serial THEN temps[t]
     ELSE IF t - serial \in short THEN Front(saved.entries[t - serial].data)
     ELSE saved.entries[t - serial].data]
-------------------------------------------------------------------------------
(* Walks: from each place the rest is put out behind what is put out there. *)
Walks(next, out, n, k, g) ==
  g = [p \in k .. n |-> out[p] \o IF next[p] \in 1 .. n THEN g[next[p]] ELSE <<>>]

Forward(next, n) == DOMAIN next = 1 .. n /\ \A p \in 1 .. n : next[p] \in Nat /\ next[p] > p

(* Texts put behind one another.                                            *)
Flats(ss, n, g) == g = [i \in 1 .. n |-> IF i = 1 THEN ss[i] ELSE g[i - 1] \o ss[i]]

(* Where the texts are.                                                     *)
Upto(ss, k) == Len(FlattenSeq(SubSeq(ss, 1, k)))

PlacedIn(ss) ==
  LET t == FlattenSeq(ss)
  IN  /\ Upto(ss, 0) = 0 /\ Upto(ss, Len(ss)) = Len(t)
      /\ \A k \in 0 .. Len(ss) : Upto(ss, k) \in 0 .. Len(t)
      /\ \A k \in 1 .. Len(ss) : Upto(ss, k) = Upto(ss, k - 1) + Len(ss[k])
      /\ \A k \in 1 .. Len(ss) : \A j \in 1 .. Len(ss[k]) : t[Upto(ss, k - 1) + j] = ss[k][j]

(* A state that is computed turn by turn.                                   *)
Turns(base, turn, n, g) == g = [i \in 0 .. n |-> IF i = 0 THEN base ELSE turn[i][g[i - 1]]]
-------------------------------------------------------------------------------
(* What macString2Hex reads.                                                *)
MacReads(str, r) ==
  /\ r = [ret |-> 0, mac |-> r.mac]
  /\ r.mac \in [1 .. 6 -> 0 .. 255]
  /\ \A i \in 1 .. 6 :
       {str[3 * i - 2], str[3 * i - 1]} \subseteq HexChars =>
         r.mac[i] = 16 * cgiHexValue(str[3 * i - 2]) + cgiHexValue(str[3 * i - 1])

(* The rest of the texts, and those with one before them.                   *)
Rests(ss, w) ==
  w[Len(ss) + 1] = <<>> /\ \A k \in 1 .. Len(ss) : w[k] = ss[k] \o w[k + 1]

(* A walk along known places puts out what is put out at each.              *)
Along(next, out, n, at, ws) ==
  /\ \A k \in 1 .. Len(ws) : /\ at[k] \in 1 .. n /\ next[at[k]] = at[k + 1]
                             /\ out[at[k]] = ws[k]
  /\ at[1] \in Nat /\ at[Len(ws) + 1] \in Nat /\ at[Len(ws) + 1] \notin 1 .. n

(* The entities.                                                            *)
Special == {LT, AMP, GT, QUOTE}

(* What a text is escaped to, piece by piece.                               *)
Escapes(s, C) == [i \in DOMAIN s |-> IF s[i] \in C THEN Entity[s[i]] ELSE <<s[i]>>]

(* A bounded number lies within its bounds.                                 *)
BoundedRight(c, r) ==
  LET i == r.int
      d == r.double
  IN  /\ i.code = "cgiFormSuccess" => i.n \in c.min .. c.max
      /\ i.code = "cgiFormConstrained" => i.n \in {c.min, c.max}
      /\ cgiFirstNonspaceChar(c.text) \notin Digits \cup {MINUS, PLUS} => i.n = c.def
      /\ i.code = "cgiFormSuccess" /\ d.code = "cgiFormSuccess" =>
           i.n = IF d.n < 0 THEN -((-d.n) \div 10) ELSE d.n \div 10
-------------------------------------------------------------------------------
(* How often c is among the places from a to b.                             *)
Count(v, c, a, b) == Cardinality({k \in a .. b : v[k] = c})

(* New lines.                                                               *)
LFs(k) == [i \in 1 .. k |-> LF]

(* What a text stands for, piece by piece: its lines, or none.              *)
Kept(v, newlines) ==
  [i \in DOMAIN v |-> IF v[i] \notin Breaks THEN <<v[i]>>
                      ELSE IF newlines /\ BurstsAt(v, i) THEN LinesAt(v, i) ELSE <<>>]

WholeField(v, newlines) == IF newlines THEN Normal(v) ELSE Only(v, Byte \ Breaks)

(* The first of some texts are the beginning of all of them.                *)
First(ss, k) == FlattenSeq(SubSeq(ss, 1, k))

(* One turn of the loop of cgiFormEntryString.                              *)
EntryState == [s : Seq(Byte), cr : Nat, lf : Nat, truncated : BOOLEAN, end : BOOLEAN]

(* What there would be with room for all the new lines of the burst.        *)
AllLines(d, newlines) == d.s \o LFs(IF newlines THEN Burst(d.cr, d.lf) ELSE 0)

EntryTurns(d, c, avail, newlines, r) ==
  LET all == AllLines(d, newlines)
  IN  /\ all \in Seq(Byte)
      /\ c = NUL => /\ r.end /\ r.truncated = (Len(all) > avail)
                    /\ r.s = SubSeq(all, 1, IF Len(all) <= avail THEN Len(all) ELSE avail)
      /\ c # NUL /\ Len(all) >= avail => r.end /\ r.truncated = TRUE /\ r.s = SubSeq(all, 1, avail)
      /\ c # NUL /\ Len(all) < avail =>
           r = [s |-> Append(all, c), cr |-> 0, lf |-> 0, truncated |-> d.truncated, end |-> FALSE]

(* After i bytes of a field's value, the last that is no new line at j.     *)
BurstSince(v, i, j) == j \in 0 .. i /\ (j # 0 => v[j] \notin Breaks) /\ \A k \in j + 1 .. i : v[k] \in Breaks

KeptSince(v, newlines, i, j) ==
  LET ns == Kept(v, newlines)
  IN  /\ i > j => First(ns, i) = First(ns, j) \o ns[j + 1]
      /\ Len(First(ns, j)) <= j

EntryIs(v, newlines, avail, i, j, d) ==
  LET ns == Kept(v, newlines)
  IN  /\ ~d.end => /\ d.s = First(ns, j) /\ Len(First(ns, j)) <= avail /\ d.truncated = FALSE
                   /\ d.cr = Count(v, CR, j + 1, i) /\ d.lf = Count(v, LF, j + 1, i)
      /\ d.end => d.truncated = TRUE /\ \E k \in 0 .. Len(v) :
                    Len(First(ns, k)) > avail /\ d.s = SubSeq(First(ns, k), 1, avail)

(* The loop of cgiFormEntryString, byte by byte.                            *)
EntryRuns(text, avail, newlines, g) ==
  g = [i \in 0 .. Len(text) |->
         IF i = 0 THEN [s |-> <<>>, cr |-> 0, lf |-> 0, truncated |-> FALSE, end |-> FALSE]
         ELSE EntryChar(g[i - 1], text[i], avail, newlines)]

(* The entries of a name.                                                   *)
FindAt(items, name, pos, k) ==
  /\ k \in pos .. Len(items) + 1
  /\ k <= Len(items) => items[k].attr = name
  /\ \A j \in pos .. Len(items) : items[j].attr = name => k <= j

Mine(items, name) == Only(items, {e \in ToSet(items) : e.attr = name})

MinePieces(items, name) == [i \in 1 .. Len(items) |-> IF items[i].attr = name THEN <<items[i]>> ELSE <<>>]
-------------------------------------------------------------------------------
(* Forms.  One turn of the loop of cgiUnescapeChars.                        *)
EscapeState == [state : {"rest", "first", "second"}, value : Int, s : Seq(Int)]

(* The loop, byte by byte.                                                  *)
UnescapeRuns(s, g) ==
  g = [i \in 0 .. Len(s) |-> IF i = 0 THEN [state |-> "rest", value |-> 0, s |-> <<>>]
                             ELSE UnescapeChar(g[i - 1], s[i])]

UnescapeRun(s, g) ==
  /\ g \in [0 .. Len(s) -> EscapeState]
  /\ g[0] = [state |-> "rest", value |-> 0, s |-> <<>>]
  /\ \A i \in 1 .. Len(s) : g[i] = UnescapeChar(g[i - 1], s[i])
  /\ cgiUnescapeChars(s) = CString(g[Len(s)].s)

(* A byte as a browser encodes it.                                          *)
EncodedByte(c) ==
  IF c \in Alnum THEN <<c>>
  ELSE IF c = SP THEN <<PLUS>>
  ELSE <<PERCENT, HexDigit(c \div 16), HexDigit(c % 16)>>

EncodedPieces(s) == [i \in 1 .. Len(s) |-> EncodedByte(s[i])]

Harmless == Byte \ {EQ, AMP}

(* A text that stands in another one at place i.                            *)
StandsAt(s, i, t) ==
  /\ i \in Nat \ {0} /\ i + Len(t) <= Len(s) + 1
  /\ \A j \in 1 .. Len(t) : s[i + j - 1] = t[j]

(* Texts joined by a separator: where each of them is.                      *)
JoinedAt(words, sep, d, at) ==
  /\ at[1] = 1
  /\ \A k \in 1 .. Len(words) :
       /\ StandsAt(d, at[k], words[k]) /\ at[k + 1] = at[k] + Len(words[k]) + Len(sep)
       /\ k < Len(words) => StandsAt(d, at[k] + Len(words[k]), sep)
  /\ words # <<>> => Len(d) + 1 = at[Len(words)] + Len(words[Len(words)])

(* cgiParseFormInput's walk: where a pair's = sign is and the & behind it.  *)
EqAt(data, pos) == Find(data, pos, {EQ})
AmpAt(data, pos) == Find(data, EqAt(data, pos) + 1, {AMP})
PairAt(data, pos) ==
  [attr |-> cgiUnescapeChars(SubSeq(data, pos, EqAt(data, pos) - 1)),
   value |-> cgiUnescapeChars(SubSeq(data, EqAt(data, pos) + 1, AmpAt(data, pos) - 1))]
FormNext(data) == [pos \in 1 .. Len(data) |-> AmpAt(data, pos) + 1]
FormOut(data) == [pos \in 1 .. Len(data) |-> IF EqAt(data, pos) > Len(data) THEN <<>> ELSE <<PairAt(data, pos)>>]

(* A pair as a browser writes it, and what is read of it.                   *)
PairStands(data, i, attr, value, e) ==
  /\ StandsAt(data, i, (Encoded(attr) \o <<EQ>>) \o Encoded(value))
  /\ e = i + Len((Encoded(attr) \o <<EQ>>) \o Encoded(value))
  /\ e <= Len(data) => data[e] = AMP

(* The text of a pair; and what the walk comes to at each of them.          *)
PairText(p) == (Encoded(p.attr) \o <<EQ>>) \o Encoded(p.value)

FormStands(pairs, n, d, at) ==
  /\ Len(pairs) = n
  /\ \E words \in Seq(Text) :
       /\ Len(words) = n /\ \A k \in 1 .. n : words[k] = PairText(pairs[k])
       /\ JoinedAt(words, <<AMP>>, d, at)
-------------------------------------------------------------------------------
(* The piece of a text from a place up to the next separator.               *)
PieceAt(s, C, p) == SubSeq(s, p, Find(s, p, C) - 1)

(* The pieces of a text from a place on.                                    *)
PieceNext(s, C) == [i \in 1 .. Len(s) + 1 |-> Find(s, i, C) + 1]
PieceOut(s, C) == [i \in 1 .. Len(s) + 1 |-> <<PieceAt(s, C, i)>>]
PiecesFrom(s, C, i) == Walk(PieceNext(s, C), PieceOut(s, C), i)

(* The field that a piece with an = sign stands for.                        *)
FieldFrom(x) ==
  [attr |-> cgiUnescapeChars(SubSeq(x, 1, Find(x, 1, {EQ}) - 1)),
   value |-> cgiUnescapeChars(SubSeq(x, Find(x, 1, {EQ}) + 1, Len(x)))]

(* The fields of pieces that all have an = sign.                            *)
Split(ps) == \A i \in DOMAIN ps : EQ \in ToSet(ps[i])
FieldsFrom(ps) == [i \in DOMAIN ps |-> FieldFrom(ps[i])]
FieldsFit(s, p) ==
  LET ps == PiecesFrom(s, {AMP}, p)
  IN  Split(ps) => Walk(FormNext(s), FormOut(s), p) = FieldsFrom(ps)
-------------------------------------------------------------------------------
(* A piece that stands between semicolons.                                  *)
CookieAt(s, c, t) ==
  /\ c \in Nat \ {0} /\ StandsAt(s, c, t)
  /\ \A j \in 1 .. Len(t) : t[j] # SEMI
  /\ c + Len(t) <= Len(s) => s[c + Len(t)] = SEMI

(* The piece begins with the name and a = sign.                             *)
Marked(name, t) ==
  Len(name) + 1 <= Len(t) /\ t[Len(name) + 1] = EQ /\ \A j \in 1 .. Len(name) : t[j] = name[j]

(* What cgiCookieString can answer; and its walk through the header.        *)
CookieNone(space) == [text |-> <<>>, set |-> space > 0, code |-> "cgiFormNotFound"]
CookieBare(space) == [CookieNone(space) EXCEPT !.set = FALSE]
CookieFound(t, space) ==
  [text |-> Clip(t, space), set |-> space > 0,
   code |-> IF Len(t) < space \/ t = <<>> THEN "cgiFormSuccess" ELSE "cgiFormTruncated"]
CookieEnd(s, name, p) == Find(s, p + Common(s, p, name), {SEMI})
CookieNext(s, name) == [p \in 1 .. Len(s) |-> NextCookie(s, CookieEnd(s, name, p))]
CookieOut(s, name, space) ==
  [p \in 1 .. Len(s) |->
     IF Common(s, p, name) > Len(name) THEN <<CookieBare(space)>>
     ELSE IF Named(s, p, name) THEN <<CookieFound(PieceAt(s, {SEMI}, p + Len(name) + 1), space)>> ELSE <<>>]
CookieWalk(s, name, space, c) == Walk(CookieNext(s, name), CookieOut(s, name, space), c)

(* One turn: what a piece decides, and where the next one begins.           *)
Bare(s, c, t, name) == t = name /\ c + Len(t) = Len(s) + 1
ValueIn(t, name) == SubSeq(t, Len(name) + 2, Len(t))

(* A piece without the blanks before it.                                    *)
Trim(x) == SubSeq(x, Skip(x, 1, Blank), Len(x))

(* What the first marked piece decides, or that the last is the bare name.  *)
FirstDecides(ts, name, space, w) ==
  /\ \A i \in DOMAIN ts :
       Marked(name, ts[i]) /\ (\A j \in 1 .. i - 1 : ~Marked(name, ts[j])) =>
         w # <<>> /\ w[1] = CookieFound(ValueIn(ts[i], name), space)
  /\ (\A i \in DOMAIN ts : ~Marked(name, ts[i])) =>
       w = <<>> \/ (w[1] = CookieBare(space) /\ ts # <<>> /\ ts[Len(ts)] = name)

(* The pieces of the header, those from the k-th on without the blanks      *)
(* before them.                                                             *)
Trims(ps, k) == [i \in DOMAIN ps |-> IF i <= k THEN ps[i] ELSE Trim(ps[i])]

CookiesFit(s, name, space, b) ==
  FirstDecides(Trims(PiecesFrom(s, {SEMI}, b), 0), name, space, CookieWalk(s, name, space, Skip(s, b, Blank)))

(* The piece of a cookie that was set.                                      *)
CookieText(c) == SetCookie(c.name, c.value)

(* The cookies that a browser sends behind one another.                     *)
JarStands(cs, n, d, at) ==
  /\ Len(cs) = n
  /\ \E ts \in Seq(Text) :
       /\ Len(ts) = n /\ \A k \in 1 .. n : ts[k] = CookieText(cs[k])
       /\ JoinedAt(ts, <<SEMI, SP>>, d, at)
-------------------------------------------------------------------------------
(* The walk of cgiCookies through the header.                               *)
NameAt(s, i) == Skip(s, i, Blank)
NameEnd(s, i) == Find(s, NameAt(s, i), {EQ})
NamesNext(s) == [i \in 1 .. Len(s) |-> Find(s, NameEnd(s, i), {SEMI}) + 1]
NamesOut(s) ==
  [i \in 1 .. Len(s) |->
     IF NameEnd(s, i) = NameAt(s, i) THEN <<>> ELSE <<SubSeq(s, NameAt(s, i), NameEnd(s, i) - 1)>>]
NamesFrom(s, i) == Walk(NamesNext(s), NamesOut(s), i)

(* The = signs from a place on; and that every piece has one.               *)
Signs(s, b) == {k \in b .. Len(s) : s[k] = EQ}
HaveSigns(ps) == \A p \in ToSet(ps) : EQ \in ToSet(p)

NamesFit(s, b) == HaveSigns(PiecesFrom(s, {SEMI}, b)) => Len(NamesFrom(s, b)) <= Cardinality(Signs(s, b))
-------------------------------------------------------------------------------
(* The walk of main through the parameters of the content type.             *)
TypeParam(s, a) == Skip(s, a + 1, Blank)
BoundaryText(s, p) == SubSeq(s, p + 2, Find(s, p + 2, Blank) - 1)
TypeNext(s) ==
  [a \in 1 .. Len(s) |->
     IF BoundaryNamed(s, TypeParam(s, a)) THEN Len(s) + 1 ELSE Find(s, TypeParam(s, a), {SEMI})]
TypeOut(s) ==
  [a \in 1 .. Len(s) |-> IF BoundaryNamed(s, TypeParam(s, a)) THEN BoundaryText(s, TypeParam(s, a)) ELSE <<>>]
TypeFrom(s, a) == Walk(TypeNext(s), TypeOut(s), a)

(* A parameter that stands at p, behind the semicolon at a and blanks.      *)
ParamAt(s, a, p, t) ==
  /\ a \in 1 .. Len(s) /\ p \in Nat /\ a < p /\ StandsAt(s, p, t)
  /\ \A j \in Nat : a < j /\ j < p => s[j] \in Blank

(* No parameter that is the boundary, up to the next semicolon.             *)
Plain(t) == SEMI \notin ToSet(t) /\ ~BoundaryNamed(t, Skip(t, 1, Blank))

(* The parameters of a content type behind its two first bytes.             *)
TypeStands(s, d, ts, n, at) ==
  /\ Len(ts) = n /\ JoinedAt(ts, <<SEMI, SP>>, d, at)
  /\ Len(s) = Len(d) + 2 /\ \A j \in 1 .. Len(d) : s[j + 2] = d[j]
TypeSemi(at, k) == IF k = 1 THEN 2 ELSE at[k]

AllButLast(ts, n) == \A k \in 1 .. n : k < n => Plain(ts[k])
-------------------------------------------------------------------------------
(* The text of a header's parameter, and the end of it with the value.      *)
ParamTail(p) == IF p.quoted THEN (<<QUOTE>> \o p.text) \o <<QUOTE>> ELSE p.text
ParamText(p) == (((((<<SEMI>> \o p.gap) \o p.name) \o p.gap) \o <<EQ>>) \o p.gap) \o ParamTail(p)

(* Where the parts of a parameter are: its semicolon at i, its name from b  *)
(* to c, its = sign at d, the value from v on.                              *)
ParamPlaced(s, p, i, b, c, d, v, e) ==
  /\ i \in 1 .. Len(s) /\ s[i] = SEMI
  /\ b \in Nat /\ c \in Nat /\ d \in Nat /\ v \in Nat /\ e \in Nat
  /\ i < b /\ b <= c /\ c <= d /\ d < v /\ d <= Len(s) /\ s[d] = EQ
  /\ \A j \in Nat : i < j /\ j < b => s[j] \in Blank
  /\ \A j \in Nat : b <= j /\ j < c => s[j] \in Alnum
  /\ \A j \in Nat : c <= j /\ j < d => s[j] \in Blank
  /\ \A j \in Nat : d < j /\ j < v => s[j] \in Blank
  /\ SubSeq(s, b, c - 1) = p.name /\ (b = c => p.name = <<>>)
  /\ StandsAt(s, v, ParamTail(p)) /\ e = v + Len(ParamTail(p))

(* The walk of decomposeValue through the parameters.                       *)
ParamName(s, p) == Skip(s, p + 1, Blank)
ParamStop(s, p) == Skip(s, ParamName(s, p), Alnum)
ParamEq(s, p) == Skip(s, ParamStop(s, p), Blank)
ParamValue(s, p) == HeaderText(s, Skip(s, ParamEq(s, p) + 1, Blank))
ParamGood(s, p) == s[p] = SEMI /\ At(s, ParamEq(s, p)) = EQ
ParamNext(s) == [p \in 1 .. Len(s) |-> IF ParamGood(s, p) THEN ParamValue(s, p).next ELSE Len(s) + 1]
ParamOut(s) ==
  [p \in 1 .. Len(s) |->
     IF ParamGood(s, p)
       THEN <<[name |-> SubSeq(s, ParamName(s, p), ParamStop(s, p) - 1), value |-> ParamValue(s, p).text]>>
       ELSE <<>>]

(* Where a header's parameters are: one behind the other, up to its end.    *)
ParamsStand(s, ps, n, at) ==
  /\ Len(ps) = n /\ at[n + 1] = Len(s) + 1
  /\ \A k \in 1 .. n : StandsAt(s, at[k], ParamText(ps[k])) /\ at[k + 1] = at[k] + Len(ParamText(ps[k]))

Pairs(ps) == [k \in 1 .. Len(ps) |-> [name |-> ps[k].name, value |-> ps[k].text]]

ParamsNamed(ps, name) == {k \in 1 .. Len(ps) : cgiStrEqNc(ps[k].name, name)}
===============================================================================
