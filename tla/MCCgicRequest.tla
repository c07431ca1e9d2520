---------------------------- MODULE MCCgicRequest ----------------------------
(***************************************************************************)
(* Small instances of CgicRequest: forms of up to three parts, with files,  *)
(* fields and namesakes; and, for every function that takes a text, the     *)
(* short texts over the few bytes that it treats differently.               *)
(***************************************************************************)
EXTENDS CgicRequest

FieldPart(a, b) == [attr |-> a, file |-> FALSE, odd |-> FALSE, body |-> b]
FilePart(a, b) == [attr |-> a, file |-> TRUE, odd |-> FALSE, body |-> b]
Odd(p) == [p EXCEPT !.odd = TRUE]

SomeUploads ==
  {<<>>,
   <<FieldPart(1, <<7>>), FieldPart(1, <<>>), FieldPart(2, <<8, 8>>)>>,
   <<FilePart(1, <<7, 7>>), FieldPart(2, <<8>>), FilePart(3, <<>>)>>,
   <<FilePart(1, <<7>>), FilePart(1, <<8>>)>>,
   <<FilePart(1, <<7>>), Odd(FieldPart(2, <<8>>))>>,
   <<FieldPart(1, <<7>>), FilePart(1, <<8>>), FilePart(2, <<9>>)>>}

SomeHexBelow == [c \in 128 .. 255 |-> 7 * c - 1000]

a == 97
n == 110
Up(c) == c - 32

Words == BoundedSeq({a, SP, AMP, EQ, PERCENT, 255}, 2)
FormCalls ==
  {[fn |-> "form", pairs |-> ps] :
     ps \in {<<>>} \cup [1 .. 1 -> [attr : Words, value : Words]]
             \cup [1 .. 2 -> [attr : {<<>>, <<AMP>>}, value : {<<>>, <<EQ, a>>, <<SP>>}]]}

QueryCalls == {[fn |-> "query", text |-> t] : t \in BoundedSeq({a, EQ, AMP, PERCENT, 50, 54, 200}, 5)}

TypeCalls ==
  {[fn |-> "type", space |-> s, params |-> ps, boundary |-> b] :
     s \in {6, 20}, ps \in BoundedSeq({<<a>>, <<98>>, <<a, EQ, 98>>, <<VT, 98, EQ>>}, 2),
     b \in {<<>>, <<MINUS, MINUS, a>>, <<98, EQ>>}}

SomeParams ==
  {p \in [gap : {<<>>, <<FF>>}, name : {<<n>>, <<Up(n)>>, <<102>>, <<a>>}, quoted : BOOLEAN,
           text : {<<>>, <<SEMI, n, EQ>>, <<a, EQ, 102>>}] : ~p.quoted => p.text \in Unquoted}
HeaderCalls ==
  {[fn |-> "header", space |-> s, value |-> <<120>>, sent |-> ps] :
     s \in {0, 2, 9}, ps \in BoundedSeq(SomeParams, 2)}

FieldCalls ==
  {[fn |-> "field", text |-> t, max |-> m, newlines |-> w] :
     t \in BoundedSeq({a, CR, LF}, 5), m \in 1 .. 5, w \in BOOLEAN}

NumberCalls ==
  {[fn |-> "number", text |-> t, min |-> -2, max |-> 12, def |-> d] :
     t \in BoundedSeq({49, 51, MINUS, DOT, SP, a}, 4), d \in {0, 99}}

SomeFields == [attr : {<<a>>, <<n>>}, value : {<<>>, <<a>>, <<n, CR, LF>>}]
EntryCalls ==
  {[fn |-> "entries", list |-> l, name |-> <<a>>, choices |-> cs] :
     l \in BoundedSeq(SomeFields, 3), cs \in {<<<<a>>>>, <<<<>>, <<n>>, <<a>>>>}}

CookieCalls ==
  {[fn |-> "cookie", text |-> t, name |-> nm, space |-> s] :
     t \in BoundedSeq({n, EQ, SEMI, SP, 49}, 5), nm \in {<<n>>, <<n, n>>}, s \in {2, 9}}

JarCalls ==
  {[fn |-> "jar", cookies |-> cs, space |-> s] :
     cs \in BoundedSeq([name : {<<n>>, <<n, n>>, <<a>>}, value : {<<>>, <<n, EQ>>, <<49, SP>>}], 3), s \in {2, 9}}

Pair == {<<48, 70>>, <<97, 103>>, <<103, 57>>}     \* 0F, ag, g9
MacCalls ==
  {[fn |-> "mac", temp |-> t, text |-> Joined(ps, <<sep>>) \o rest] :
     t \in {0, 300}, ps \in [1 .. 5 -> {<<48, 70>>}] \cup [1 .. 6 -> Pair],
     sep \in {MINUS, 58}, rest \in {<<>>, <<a, a, a>>}}

PageCalls ==
  {[fn |-> "page", text |-> t, room |-> r] :
     t \in BoundedSeq({LT, AMP, GT, QUOTE, a, SEMI}, 4), r \in {3, 20}}

SomeCalls ==
  FormCalls \cup QueryCalls \cup TypeCalls \cup HeaderCalls \cup FieldCalls
    \cup NumberCalls \cup EntryCalls \cup CookieCalls \cup JarCalls \cup MacCalls \cup PageCalls
===============================================================================
