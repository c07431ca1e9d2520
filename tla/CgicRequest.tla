----------------------------- MODULE CgicRequest -----------------------------
(***************************************************************************)
(* The life of one CGI process in cgic's main: the form is parsed and its   *)
(* entries stored, in memory or in temporary files; cgiMain runs, which may *)
(* ask for fields and cookies, take over an uploaded file (updateFile) and  *)
(* save and restore the whole environment; and everything is given back     *)
(* (cgiFreeResources).  Every allocation, every temporary file and every    *)
(* write can fail, and the web server can kill the process at any step.     *)
(*                                                                          *)
(* An uploaded file is a short sequence of bytes.  How the parts are told   *)
(* apart is the subject of CgicMultipart; what a text is taken to mean is   *)
(* that of CgicText and Share, and cgiMain's calls with texts are made here. *)
(***************************************************************************)
EXTENDS Share

CONSTANTS
  Uploads,   \* the parts of a multipart form that a client may send
  MaxTemps,  \* bound: no environment is restored once this many temporary files were made
  MaxFailures,\* bound: no environment is saved or restored once so many kinds of failure were met
  Calls      \* the texts that cgiMain may have taken apart or put together

(* A part: the field's name, whether it is a file, whether its headers have *)
(* a parameter that cgic does not ask for, and its bytes.                   *)
Part == [attr : Nat, file : BOOLEAN, odd : BOOLEAN, body : Seq(Nat)]

ASSUME RequestAssumption ==
  /\ MaxTemps \in Nat
  /\ MaxFailures \in Nat
  /\ \A u \in Uploads : u \in Seq(Part)

(* What cgiMain hands over.  A number has no more digits than an int; a     *)
(* field's array has room for the end mark; a form's choices differ.        *)
Field == [attr : Text, value : Text]
Token == {t \in Text : t # <<>> /\ ToSet(t) \cap ({SEMI, EQ} \cup Blank) = {}}
Unquoted == {t \in Text : SEMI \notin ToSet(t) /\ At(t, 1) \notin {QUOTE} \cup Blank}
Param ==
  {p \in [gap : Seq(Blank), name : Seq(Alnum), quoted : BOOLEAN, text : Text] :
     IF p.quoted THEN QUOTE \notin ToSet(p.text) ELSE p.text \in Unquoted}
Cookie == {c \in [name : Token, value : Text] : SEMI \notin ToSet(c.value)}

FormCall == [fn : {"form"}, pairs : Seq(Field)]
QueryCall == [fn : {"query"}, text : Text]
TypeCall == [fn : {"type"}, space : Nat, params : Seq(Text), boundary : Text]
HeaderCall == [fn : {"header"}, space : Nat, value : Unquoted, sent : Seq(Param)]
FieldCall == [fn : {"field"}, text : Text, max : Nat \ {0}, newlines : BOOLEAN]
NumberCall ==
  {c \in [fn : {"number"}, text : Text, def : Int, min : Int, max : Int] :
     Len(c.text) <= 9 /\ c.min <= c.max}
EntriesCall ==
  {c \in [fn : {"entries"}, list : Seq(Field), name : Text, choices : Seq(Text)] : IsInjective(c.choices)}
CookieCall == [fn : {"cookie"}, text : Text, name : Token, space : Nat \ {0}]
JarCall == [fn : {"jar"}, cookies : Seq(Cookie), space : Nat \ {0}]
MacCall == [fn : {"mac"}, temp : Int, text : Text]
PageCall == [fn : {"page"}, text : Text, room : Nat]

ASSUME CallsAssumption ==
  \A c \in Calls :
    c \in FormCall \cup QueryCall \cup TypeCall \cup HeaderCall \cup FieldCall \cup NumberCall
            \cup EntriesCall \cup CookieCall \cup JarCall \cup MacCall \cup PageCall

VARIABLES
  sent,     \* the parts of the form
  multipart,\* the content type is multipart/form-data, not the urlencoded one
  pc,       \* where main is
  todo,     \* the parts that are still to be read
  cur,      \* the part being stored: its temporary file, 0 for none, and whether it is open
  list,     \* the entries from cgiFormEntryFirst on
  freed,    \* the listed entries whose memory was given back
  temps,    \* the temporary files: their contents by number
  serial,   \* the number of the latest temporary file
  env,      \* where cgiServerSoftware and the others point: environment, heap, freed, null
  restored, \* cgiRestored
  saved,    \* the file of cgiWriteEnvironment
  target,   \* the file of updateFile, and what updateFile returned
  call,     \* a text cgiMain hands to the library
  answer,   \* what it gets for it, if it has been asked
  bad,      \* history: what has failed
  shot      \* history: the entries when the environment was saved

vars == <<sent, multipart, pc, todo, cur, list, freed, temps, serial, env, restored, saved, target,
          call, answer, bad, shot>>

None == [none |-> TRUE]
NoPart == [temp |-> 0, open |-> FALSE]

store == <<list, freed, temps, serial>>
texts == <<call, answer>>
environment == <<env, restored, saved, shot>>
form == <<sent, multipart>>

Init ==
  /\ \/ /\ sent \in Uploads /\ call = None
        /\ multipart \in BOOLEAN
        /\ (\E i \in DOMAIN sent : sent[i].file \/ sent[i].odd) => multipart
     \/ sent = <<>> /\ call \in Calls /\ multipart = FALSE
  /\ todo = sent
  /\ pc = "parse"
  /\ cur = NoPart
  /\ list = <<>>
  /\ freed = {}
  /\ temps = <<>>
  /\ serial = 0
  /\ env = "environment"
  /\ restored = FALSE
  /\ saved = None
  /\ target = None
  /\ answer = <<>>
  /\ bad = {}
  /\ shot = <<>>

(* What of the temporary files is left when those numbered in S are gone.   *)
Unlinked(S) == [t \in DOMAIN temps \ S |-> temps[t]]

-------------------------------------------------------------------------------
(* The loop of cgiParsePostMultipartInput, one part at a time.              *)

Fails(why) ==
  /\ bad' = bad \cup {why}
  /\ pc' = "failed"

(* No more parts: cgiMain is called.                                        *)
ParseEnds ==
  /\ pc = "parse"
  /\ todo = <<>>
  /\ pc' = "main"
  /\ UNCHANGED <<form, todo, cur, store, environment, target, texts, bad>>

(* cgiParsePostFormInput: there is no memory for the input, or less of it   *)
(* than was declared.                                                       *)
InputBreaksOff ==
  /\ pc = "parse"
  /\ ~multipart
  /\ todo = sent /\ todo # <<>>
  /\ Fails("input")
  /\ UNCHANGED <<form, todo, cur, store, environment, target, texts>>

(* decomposeValue reads a part's headers before its body.  The value of a   *)
(* parameter of the Content-Disposition that nobody asked for is ended by a *)
(* store through a null pointer.                                            *)
PartHeaders ==
  /\ pc = "parse"
  /\ todo # <<>>
  /\ Head(todo).odd
  /\ pc' = "undefined"
  /\ UNCHANGED <<form, todo, cur, store, environment, target, texts, bad>>

(* A regular field is collected in memory; that of an urlencoded form has   *)
(* been read with the whole input.                                          *)
PartInMemory ==
  /\ pc = "parse"
  /\ todo # <<>>
  /\ ~Head(todo).odd /\ ~Head(todo).file
  /\ cur' = NoPart
  /\ pc' = IF multipart THEN "body" ELSE "entry"
  /\ UNCHANGED <<form, todo, store, environment, target, texts, bad>>

(* getTempFileName makes a file, or leaves none behind.                     *)
PartTemp ==
  /\ pc = "parse"
  /\ todo # <<>>
  /\ ~Head(todo).odd /\ Head(todo).file
  /\ \/ /\ serial' = serial + 1
        /\ temps' = [t \in DOMAIN temps \cup {serial + 1} |-> IF t = serial + 1 THEN <<>> ELSE temps[t]]
        /\ cur' = [temp |-> serial + 1, open |-> FALSE]
        /\ pc' = "open"
        /\ UNCHANGED bad
     \/ /\ Fails("temp")
        /\ UNCHANGED <<serial, temps, cur>>
  /\ UNCHANGED <<form, todo, list, freed, environment, target, texts>>

(* The file is opened; if that fails, the body is collected in memory       *)
(* although the entry will name the file.                                   *)
PartOpen ==
  /\ pc = "open"
  /\ pc' = "body"
  /\ \/ cur' = [cur EXCEPT !.open = TRUE] /\ UNCHANGED bad
     \/ bad' = bad \cup {"open"} /\ UNCHANGED cur
  /\ UNCHANGED <<form, todo, store, environment, target, texts>>

(* afterNextBoundary copies the body to the file.  Nobody looks whether     *)
(* putc succeeds.                                                           *)
PartBody ==
  /\ pc = "body"
  /\ pc' = "entry"
  /\ \/ /\ temps' = IF cur.open THEN [temps EXCEPT ![cur.temp] = Head(todo).body] ELSE temps
        /\ UNCHANGED bad
     \/ /\ cur.open /\ Head(todo).body # <<>>
        /\ temps' = [temps EXCEPT ![cur.temp] = Front(Head(todo).body)]
        /\ bad' = bad \cup {"write"}
  /\ UNCHANGED <<form, todo, cur, list, freed, serial, environment, target, texts>>

(* Slip: a part that breaks off leaves its temporary file.                  *)
PartBreaksOffLeaving ==
  /\ pc = "body"
  /\ Fails("body")
  /\ UNCHANGED <<form, todo, cur, store, environment, target, texts>>

(* There is no boundary behind the body, or no memory to begin it in.  The  *)
(* file is removed if it was opened.                                        *)
PartBreaksOff ==
  /\ pc = "body"
  /\ Fails("body")
  /\ temps' = IF cur.open THEN Unlinked({cur.temp}) ELSE temps
  /\ UNCHANGED <<form, todo, cur, list, freed, serial, environment, target, texts>>

(* There is no memory for a body in memory to grow: afterNextBoundary frees *)
(* what it has, and frees it again on its way out.                          *)
PartOutgrows ==
  /\ pc = "body"
  /\ ~cur.open
  /\ pc' = "undefined"
  /\ bad' = bad \cup {"grow"}
  /\ UNCHANGED <<form, todo, cur, store, environment, target, texts>>

(* The new entry.  A field's value is its body, a file's is empty; the      *)
(* length is that of the body either way.                                   *)
NewEntry ==
  [attr |-> Head(todo).attr,
   value |-> IF cur.open THEN <<>> ELSE Head(todo).body,
   size |-> Len(Head(todo).body),
   file |-> Head(todo).file,
   temp |-> cur.temp]

PartEntry ==
  /\ pc = "entry"
  /\ list' = Append(list, NewEntry)
  /\ todo' = Tail(todo)
  /\ cur' = NoPart
  /\ pc' = "parse"
  /\ UNCHANGED <<form, freed, temps, serial, environment, target, texts, bad>>

(* Slip: the entry is linked before its value is allocated.                 *)
LinkedAtOnce == {"attr", "value", "fileName", "contentType", "tfileName"}

(* The allocations for an entry, and those that cgiParsePostMultipartInput  *)
(* makes when the entry already is in the list.                             *)
Allocations == {"entry", "attr", "value", "fileName", "contentType", "tfileName"}
LinkedAt == {"fileName", "contentType", "tfileName"}

(* An allocation for the entry fails: it is freed, and its file removed.    *)
(* cgiParseFormInput links an entry only once it is complete.  The file of  *)
(* an entry that is in the list has been closed, and is closed once more.   *)
PartOutOfMemory ==
  /\ pc = "entry"
  /\ \E a \in Allocations :
       /\ a = "value" => cur.open \/ ~multipart
       /\ bad' = bad \cup {a}
       /\ pc' = IF cur.open /\ a \in LinkedAt THEN "undefined" ELSE "failed"
       /\ IF multipart /\ a \in LinkedAt
            THEN list' = Append(list, NewEntry) /\ freed' = freed \cup {Len(list) + 1}
            ELSE UNCHANGED <<list, freed>>
  /\ temps' = IF cur.open THEN Unlinked({cur.temp}) ELSE temps
  /\ UNCHANGED <<form, todo, cur, serial, environment, target, texts>>

-------------------------------------------------------------------------------
(* The temporary files that the entries name.                               *)
Listed == {list[i].temp : i \in DOMAIN list} \ {0}

(* Slip: cgiRestored stays as it is.                                        *)
FreeResourcesTwice ==
  /\ list' = <<>>
  /\ temps' = Unlinked(Listed)
  /\ env' = IF restored THEN "freed" ELSE env
  /\ UNCHANGED restored

(* cgiFreeResources: the entries go with their files, and the environment's *)
(* strings if they were restored.                                           *)
cgiFreeResources ==
  /\ list' = <<>>
  /\ temps' = Unlinked(Listed)
  /\ env' = IF restored THEN "freed" ELSE env
  /\ restored' = FALSE

(* main gives everything back, after cgiMain or after a failed parse.  What *)
(* happens when an entry is freed twice is not defined.                     *)
Free ==
  /\ pc \in {"main", "failed"}
  /\ IF freed = {}
       THEN pc' = "ended" /\ cgiFreeResources
       ELSE pc' = "undefined" /\ UNCHANGED <<list, temps, env, restored>>
  /\ UNCHANGED <<form, todo, cur, freed, serial, saved, shot, target, texts, bad>>

(* The web server kills the process.                                        *)
Kill ==
  /\ pc \notin {"ended", "undefined", "killed"}
  /\ pc' = "killed"
  /\ bad' = bad \cup {"killed"}
  /\ UNCHANGED <<form, todo, cur, store, environment, target, texts>>

-------------------------------------------------------------------------------
(* The bytes cgiFormFileOpen and cgiFormFileRead find under a name: those   *)
(* of the FIRST entry of that name, if it is a file.                        *)
IsFile(l, attr) == \E i \in DOMAIN l : i = cgiFormEntryFindFirst(l, attr) /\ l[i].temp # 0
FileOf(l, attr) == temps[l[cgiFormEntryFindFirst(l, attr)].temp]

(* Slip: the bytes of the last entry of that name are copied.               *)
FirstFileLast(attr) ==
  {i \in DOMAIN list : list[i].attr = attr /\ list[i].file /\ \A j \in i + 1 .. Len(list) : list[j].attr # attr}

(* The entry that cgiFormFileName finds under the name, if it is a file's.  *)
FirstFile(attr) == {i \in DOMAIN list : i = cgiFormEntryFindFirst(list, attr) /\ list[i].file}

(* updateFile copies the upload.  Nobody looks whether fwrite succeeds, and *)
(* cgiFormFileRead takes a read that fails for the end of the file.         *)
updateFile(attr) ==
  /\ pc = "main"
  /\ target = None
  /\ \E i \in FirstFile(attr) :
       \/ /\ list[i].temp # 0
          /\ target' = [attr |-> attr, ret |-> 0, data |-> temps[list[i].temp]]
          /\ UNCHANGED bad
       \/ /\ list[i].temp # 0
          /\ temps[list[i].temp] # <<>>
          /\ target' = [attr |-> attr, ret |-> 0, data |-> Front(temps[list[i].temp])]
          /\ bad' = bad \cup {"write"}
       \/ /\ target' = [attr |-> attr, ret |-> -1, data |-> <<>>]
          /\ bad' = bad \cup {"target"}
  /\ UNCHANGED <<form, pc, todo, cur, store, environment, texts>>

(* Slip: the bytes of an entry's own value are written, not those of its    *)
(* file.                                                                    *)
RecordValue(e) ==
  [attr |-> e.attr, value |-> e.value, size |-> e.size, file |-> e.file,
   flag |-> IsFile(list, e.attr), data |-> e.value]

(* An entry as cgiWriteEnvironment writes it.                               *)
Record(e) ==
  [attr |-> e.attr, value |-> e.value, size |-> e.size, file |-> e.file,
   flag |-> IsFile(list, e.attr),
   data |-> IF IsFile(list, e.attr) THEN FileOf(list, e.attr) ELSE <<>>]

(* History: what the entries hold, wherever they keep it.                   *)
Contents ==
  [i \in DOMAIN list |->
     [attr |-> list[i].attr, value |-> list[i].value, file |-> list[i].file,
      data |-> IF list[i].temp = 0 THEN <<>> ELSE temps[list[i].temp]]]

(* An entry whose file could not be opened: it is taken for a field.        *)
Unopened(e) == [Record(e) EXCEPT !.flag = FALSE, !.data = <<>>]

(* History: the failures among whys that did happen.                        *)
Happened(whys) == {w \in DOMAIN whys : whys[w]}

(* The file cannot be made, or a write fails and the file is removed.       *)
SaveFails ==
  /\ saved' \in {saved, None}
  /\ bad' = bad \cup {"save"}
  /\ UNCHANGED <<pc, shot>>

(* cgiWriteEnvironment reports success.  The files of the entries in unread *)
(* could not be opened; the bytes from entry n + 1 on, or out of the middle *)
(* of it, were lost when the file was closed, which nobody looks at; and a  *)
(* length is missing, since nobody looks whether a text's was written, or   *)
(* an upload is shorter than its length, since a read that failed was taken *)
(* for its end.                                                             *)
SaveSucceeds ==
  /\ env \in {"environment", "heap"}
  /\ \E unread \in SUBSET {i \in DOMAIN list : IsFile(list, list[i].attr)},
        n \in 0 .. Len(list), whole, step \in BOOLEAN :
       /\ n = Len(list) => whole
       /\ saved' = [entries |-> [i \in 1 .. n |-> IF i \in unread THEN Unopened(list[i]) ELSE Record(list[i])],
                    whole |-> whole, step |-> step]
       /\ bad' = bad \cup Happened([lost |-> unread # {}, close |-> n < Len(list), length |-> ~step])
  /\ shot' = Contents
  /\ UNCHANGED pc

(* The strings of the environment are taken by their lengths.               *)
SaveStrays ==
  /\ env \notin {"environment", "heap"}
  /\ pc' = "undefined"
  /\ UNCHANGED <<saved, shot, bad>>

cgiWriteEnvironment ==
  /\ pc = "main" /\ call = None
  /\ Cardinality(bad) < MaxFailures
  /\ SaveFails \/ SaveSucceeds \/ SaveStrays
  /\ UNCHANGED <<form, todo, cur, store, env, restored, target, texts>>

(* The entry that a record is read back as, its file numbered t.            *)
Reread(r, t) ==
  [attr |-> r.attr, value |-> r.value, size |-> r.size, file |-> r.file,
   temp |-> IF r.flag THEN t ELSE 0]

(* What was saved agrees with the lengths by which it is read.              *)
InStep ==
  saved.step /\ \A i \in DOMAIN saved.entries :
                  saved.entries[i].flag => Len(saved.entries[i].data) = saved.entries[i].size

(* There is no such file, or another version, or it ends before a string:   *)
(* everything was freed first.                                              *)
RestoreFails ==
  /\ cgiFreeResources
  /\ bad' = bad \cup {"restore"} \cup Happened([again |-> restored])
  /\ UNCHANGED <<pc, serial>>

(* There is no memory for a string, or the file ends in it: cgiReadString   *)
(* leaves a null pointer, or a text without its end mark.                   *)
RestoreLosesString ==
  /\ saved # None /\ InStep
  /\ list' = <<>>
  /\ temps' = Unlinked(Listed)
  /\ env' = "null"
  /\ restored' = FALSE
  /\ bad' = bad \cup {"restore", "string"}
  /\ UNCHANGED <<pc, serial>>

(* The file ends in an entry, or there is no memory or no file for one: all *)
(* entries are freed again, but not the strings.                            *)
RestoreLosesEntry ==
  /\ saved # None /\ InStep
  /\ list' = <<>>
  /\ temps' = Unlinked(Listed)
  /\ env' = "heap"
  /\ restored' = FALSE
  /\ bad' = bad \cup {"restore"}
  /\ UNCHANGED <<pc, serial>>

(* The first n entries are read.  The end of the file is told by an attr    *)
(* that cannot be read, and so are the want of memory for one, and a file   *)
(* that was cut off there.  Of the files numbered in short the last bytes   *)
(* are lost when they are closed, which nobody looks at.                    *)
RestoreSucceeds ==
  /\ saved # None /\ InStep
  /\ LET rs == saved.entries
     IN  /\ serial + Len(rs) <= MaxTemps
         /\ \E n \in 0 .. Len(rs) :
              \E short \in SUBSET {i \in 1 .. n : rs[i].flag /\ rs[i].data # <<>>} :
                /\ list' = [i \in 1 .. n |-> Reread(rs[i], serial + i)]
                /\ temps' = [t \in (DOMAIN temps \ Listed) \cup {serial + i : i \in {j \in 1 .. n : rs[j].flag}} |->
                               IF t <= serial THEN temps[t]
                               ELSE IF t - serial \in short THEN Front(rs[t - serial].data)
                               ELSE rs[t - serial].data]
                /\ serial' = serial + n
                /\ bad' = bad \cup Happened([attr |-> n < Len(rs) \/ ~saved.whole, flush |-> short # {}])
  /\ env' = "heap"
  /\ restored' = TRUE
  /\ UNCHANGED pc

(* Where the lengths disagree with the bytes, the rest of the file is read  *)
(* out of step, and what comes of that is anything.                         *)
RestoreStrays ==
  /\ saved # None /\ ~InStep
  /\ pc' = "undefined"
  /\ UNCHANGED <<list, temps, serial, env, restored, bad>>

cgiReadEnvironment ==
  /\ pc = "main" /\ call = None
  /\ Cardinality(bad) < MaxFailures
  /\ RestoreFails \/ RestoreLosesString \/ RestoreLosesEntry \/ RestoreSucceeds \/ RestoreStrays
  /\ UNCHANGED <<form, todo, cur, freed, saved, shot, target, texts>>

-------------------------------------------------------------------------------
(* The parameters that cgic asks of a Content-Disposition.                  *)
ArgNames == <<<<110>>, <<102>>>>

(* What the library makes of a text.                                        *)
Answer(c) ==
  CASE c.fn = "form" -> cgiParseFormInput(EncodedForm(c.pairs))
    [] c.fn = "query" -> cgiParseFormInput(c.text)
    [] c.fn = "type" -> BoundaryOf(ContentType(c.params, c.boundary), c.space)
    [] c.fn = "header" -> decomposeValue(Disposition(c.value, c.sent), ArgNames, c.space)
    [] c.fn = "field" -> cgiFormEntryString(c.text, c.max, c.newlines)
    [] c.fn = "number" -> [int |-> Bounded(cgiFormInteger(c.text, c.def), c.min, c.max),
                           double |-> Bounded(cgiFormDouble(c.text, 10 * c.def), 10 * c.min, 10 * c.max)]
    [] c.fn = "entries" -> [all |-> StringMultiple(c.list, c.name),
                            names |-> FormEntries(c.list),
                            single |-> SelectSingle(c.list, c.name, c.choices, -1),
                            multiple |-> SelectMultiple(c.list, c.name, c.choices)]
    [] c.fn = "cookie" -> [string |-> cgiCookieString(c.text, c.name, c.space),
                           int |-> cgiCookieInteger(c.text, c.name, c.space, -1),
                           names |-> cgiCookies(c.text)]
    [] c.fn = "jar" -> [i \in DOMAIN c.cookies |->
                          cgiCookieString(Joined([j \in DOMAIN c.cookies |->
                                                    SetCookie(c.cookies[j].name, c.cookies[j].value)],
                                                 <<SEMI, SP>>),
                                          c.cookies[i].name, c.space).text]
    [] c.fn = "mac" -> [read |-> macString2Hex(c.text, c.temp),
                        again |-> macString2Hex(macHex2String(macString2Hex(c.text, c.temp).mac), c.temp)]
    [] c.fn = "page" -> [html |-> cgiHtmlEscape(c.text, c.room), value |-> cgiValueEscape(c.text, c.room)]

Call ==
  /\ pc = "main"
  /\ call # None
  /\ answer = <<>>
  /\ answer' = <<Answer(call)>>
  /\ UNCHANGED <<form, pc, todo, cur, store, environment, target, call, bad>>

Next ==
  \/ ParseEnds \/ InputBreaksOff \/ PartHeaders \/ PartInMemory \/ PartTemp \/ PartOpen \/ PartBody
  \/ PartBreaksOff \/ PartOutgrows \/ PartEntry \/ PartOutOfMemory \/ Free \/ Kill
  \/ \E p \in ToSet(sent) : updateFile(p.attr)
  \/ cgiWriteEnvironment \/ cgiReadEnvironment \/ Call

Spec == Init /\ [][Next]_vars

-------------------------------------------------------------------------------
(* Every temporary file belongs to exactly one entry while cgiMain runs, so *)
(* that each upload can be read and none outlives the request.              *)
TempsAreEntries ==
  pc = "main" =>
    /\ DOMAIN temps = Listed
    /\ \A i, j \in DOMAIN list : list[i].temp = list[j].temp /\ i # j => list[i].temp = 0

(* However a request ends, with whatever allocation, file or boundary       *)
(* failing, it leaves no temporary file; unless its file was made and then  *)
(* could not be opened, or it was killed.                                   *)
NoTempLeft == pc = "ended" /\ "open" \notin bad => DOMAIN temps = {}

(* A temporary file is there exactly as long as it is needed.               *)
TempsAreKept == TempsAreEntries /\ NoTempLeft

(* Two fields of one name are never files: what cgiWriteEnvironment, which  *)
(* looks for an entry's file under the entry's name, relies on.             *)
NamesakesAreFields ==
  \A i, j \in DOMAIN sent : sent[i].attr = sent[j].attr /\ i # j => ~sent[i].file

(* The library is not led into undefined behaviour but by a parameter in a  *)
(* part's headers that nobody asked for, a body in memory that cannot grow, *)
(* an allocation that fails once the entry is in the list; and, when an     *)
(* environment is saved and restored, by an upload that was not stored      *)
(* whole, a length that was not written, namesakes that are files, or the   *)
(* strings that a restore which failed has left.  A form that is urlencoded *)
(* and never saved is led there by nothing.                                 *)
StaysDefined ==
  pc = "undefined" =>
    \/ multipart /\ todo # <<>> /\ Head(todo).odd
    \/ multipart /\ bad \cap {"grow", "fileName", "contentType", "tfileName"} # {}
    \/ bad \cap {"open", "write", "flush", "length", "again", "string"} # {}
    \/ ~NamesakesAreFields

(* A restored environment has the entries and the files that were there     *)
(* when it was saved, if each file could be opened then and closed now; if  *)
(* the end was lost when the saved file was closed, or there was no memory  *)
(* for an entry's name, it has the first of them.                           *)
RestoredIsSaved ==
  restored /\ NamesakesAreFields /\ bad \cap {"lost", "flush"} = {} =>
    /\ IsPrefix(Contents, shot)
    /\ bad \cap {"close", "attr"} = {} => Contents = shot

(* The environment's strings, which cgic.h calls always valid, are valid    *)
(* however often it was saved and restored; unless a restore failed in one  *)
(* of them, or came after another one, whose strings it had freed, and      *)
(* failed.  And cgiFreeResources frees them only while they are the         *)
(* library's own.                                                           *)
EnvironmentIsValid ==
  /\ pc = "main" /\ bad \cap {"again", "string"} = {} => env \in {"environment", "heap"}
  /\ restored => env = "heap"

(* What updateFile reports as copied is the first upload of that name, to   *)
(* the last byte, unless a write or a read failed unnoticed, here or when   *)
(* the upload was stored, or the temporary file could not be opened; and so *)
(* it is after any number of saves and restores, whatever failed in them    *)
(* but the closing of a restored file.                                      *)
UpdateIsWhole ==
  target # None /\ target.ret = 0 /\ bad \cap {"open", "write", "flush"} = {} =>
    \E i \in DOMAIN sent :
      /\ i = cgiFormEntryFindFirst(sent, target.attr)
      /\ sent[i].file /\ sent[i].body = target.data

-------------------------------------------------------------------------------
Answered(fn) == answer # <<>> /\ call.fn = fn
result == answer[1]

(* The pairs a browser encodes are the pairs that are read, whatever bytes  *)
(* they hold: an escaped & or = separates nothing.                          *)
FormReadsAsSent == Answered("form") => result = call.pairs

(* The fields of any text are its pieces between the &s, cut at the first = *)
(* sign, as long as every piece has one.                                    *)
PiecesAreFields ==
  Answered("query") =>
    LET ps == Pieces(call.text, {AMP})
        cut(p) == Find(p, 1, {EQ})
    IN  (\A i \in DOMAIN ps : EQ \in ToSet(ps[i])) =>
          result = [i \in DOMAIN ps |->
                      [attr |-> cgiUnescapeChars(SubSeq(ps[i], 1, cut(ps[i]) - 1)),
                       value |-> cgiUnescapeChars(SubSeq(ps[i], cut(ps[i]) + 1, Len(ps[i])))]]

(* A form is read as it was sent, and any other text as its pieces.         *)
FormIsRead == FormReadsAsSent /\ PiecesAreFields

(* A boundary that is the last parameter and not in quotes, as browsers     *)
(* send it, is found wherever it begins and whatever comes before it, as    *)
(* long as this is no boundary itself and all fits.                         *)
BoundaryIsRead ==
  Answered("type") =>
    LET plain(p) == SEMI \notin ToSet(p) /\ ~BoundaryNamed(p, Skip(p, 1, Blank))
    IN  /\ Len(ContentType(call.params, call.boundary)) < call.space
        /\ \A p \in ToSet(call.params) : plain(p)
        /\ ToSet(call.boundary) \cap Blank = {}
        => result = [type |-> <<120>>, boundary |-> call.boundary]

(* A browser's Content-Disposition is read as it was sent: of each name the *)
(* last value, in any order and letter case, quoted or not; and a name that *)
(* nobody asked for is what leads to the null pointer.                      *)
DispositionIsRead ==
  Answered("header") =>
    LET is(k, i) == cgiStrEqNc(call.sent[k].name, ArgNames[i])
        mine(i) == {k \in DOMAIN call.sent : is(k, i)}
    IN  /\ result.mvalue = call.value
        /\ result.args = [i \in DOMAIN ArgNames |->
                            IF mine(i) = {} THEN <<>> ELSE Clip(call.sent[Max(mine(i))].text, call.space)]
        /\ result.null <=> call.space > 0 /\ \E k \in DOMAIN call.sent : \A i \in DOMAIN ArgNames : ~is(k, i)

(* What the headers of a browser say about a form is what is read of them.  *)
HeadersAreRead == BoundaryIsRead /\ DispositionIsRead

(* A field is read with its lines as they were meant, whichever of CR, LF   *)
(* and CR LF ends them, cut off at the room there is and never silently.    *)
FieldIsNormal ==
  Answered("field") =>
    LET whole == IF call.newlines THEN Normal(call.text)
                 ELSE Only(call.text, Byte \ Breaks)
    IN  /\ result.text = Clip(whole, call.max)
        /\ result.code = "cgiFormTruncated" <=> Len(whole) > call.max - 1
        /\ result.code = "cgiFormEmpty" <=> whole = <<>>

(* A bounded number lies within its bounds, or is the default that was      *)
(* given; and an integer is the double without its tenths.                  *)
NumberIsBounded ==
  Answered("number") =>
    LET i == result.int
        d == result.double
    IN  /\ i.code = "cgiFormSuccess" => i.n \in call.min .. call.max
        /\ i.code = "cgiFormConstrained" => i.n \in {call.min, call.max}
        /\ cgiFirstNonspaceChar(call.text) \notin Digits \cup {MINUS, PLUS} => i.n = call.def
        /\ i.code = "cgiFormSuccess" /\ d.code = "cgiFormSuccess" =>
             i.n = IF d.n < 0 THEN -((-d.n) \div 10) ELSE d.n \div 10

(* Of several fields of one name every value is read, in order, normalised  *)
(* and in the room that was measured for it; every choice that was made is  *)
(* marked, all others are counted as invalid; every name is listed once.    *)
EveryValueIsRead ==
  Answered("entries") =>
    LET mine == Only(call.list, {e \in ToSet(call.list) : e.attr = call.name})
        made == {e.value : e \in ToSet(mine)} \cap ToSet(call.choices)
    IN  /\ result.all = [i \in DOMAIN mine |-> Normal(mine[i].value)]
        /\ \A c \in DOMAIN call.choices : result.multiple.result[c] <=> call.choices[c] \in made
        /\ result.multiple.invalid = Cardinality({i \in DOMAIN mine : mine[i].value \notin made})
        /\ (result.single.code = "cgiFormSuccess") <=> (mine # <<>> /\ mine[1].value \in made)
        /\ ToSet(result.names) = {e.attr : e \in ToSet(call.list)}
        /\ IsInjective(result.names)

(* What cgiMain is given for a field is what was typed into it.             *)
FieldsAreRead == FieldIsNormal /\ NumberIsBounded /\ EveryValueIsRead

(* A cookie's value is that of the first piece between semicolons that      *)
(* begins with its name and a = sign, and a cookie that is not found reads  *)
(* as empty; unless the header ends with the bare name.                     *)
CookieIsFirstNamed ==
  Answered("cookie") =>
    LET ps == Pieces(call.text, {SEMI})
        trimmed(i) == IF i = 1 THEN ps[1] ELSE SubSeq(ps[i], Skip(ps[i], 1, Blank), Len(ps[i]))
        mark == call.name \o <<EQ>>
        hits == {i \in DOMAIN ps : IsPrefix(mark, trimmed(i))}
        value == LET t == trimmed(Min(hits)) IN SubSeq(t, Len(mark) + 1, Len(t))
        r == result.string
    IN  /\ hits # {} => /\ r.text = Clip(value, call.space)
                        /\ r.code = "cgiFormTruncated" <=> Len(value) >= call.space
        /\ hits = {} => r.code = "cgiFormNotFound" /\ r.text = <<>>
        /\ ~r.set => trimmed(Len(ps)) = call.name

(* Cookies that were set come back with the values they were set to, where  *)
(* no two have one name: the browser sends the pairs behind one another.    *)
CookiesComeBack ==
  Answered("jar") /\ IsInjective([i \in DOMAIN call.cookies |-> call.cookies[i].name]) =>
    \A i \in DOMAIN call.cookies : result[i] = Clip(call.cookies[i].value, call.space)

(* The array of the cookies' names keeps the null pointer at its end, as    *)
(* long as no cookie comes without a = sign.                                *)
CookieNamesEnd ==
  Answered("cookie") /\ (\A p \in ToSet(Pieces(call.text, {SEMI})) : EQ \in ToSet(p)) =>
    Len(result.names.names) <= result.names.total

(* Cookies are told apart by their whole names, and all of them are listed. *)
CookiesAreRead == CookieIsFirstNamed /\ CookiesComeBack /\ CookieNamesEnd

(* A MAC address that a form accepts is what was typed, wherever two digits *)
(* were typed and whatever stands between them, and it is the same after it *)
(* was saved as text and loaded again.                                      *)
MacIsKept ==
  Answered("mac") /\ result.read.ret = 0 =>
    /\ \A i \in 1 .. 6 :
         {call.text[3 * i - 2], call.text[3 * i - 1]} \subseteq HexChars =>
           result.read.mac[i] = 16 * cgiHexValue(call.text[3 * i - 2]) + cgiHexValue(call.text[3 * i - 1])
    /\ result.again = result.read

(* A browser shows an escaped text as it is, and finds no tag in it; a      *)
(* quoted value keeps its quotes, if no & was in it.  What the output did   *)
(* not take was reported.                                                   *)
PageShowsText ==
  Answered("page") =>
    /\ ToSet(result.html.text) \cap {LT, GT} = {}
    /\ QUOTE \notin ToSet(result.value.text)
    /\ result.html.code = "cgiFormSuccess" => Shown(result.html.text) = call.text
    /\ result.value.code = "cgiFormSuccess" /\ AMP \notin ToSet(call.text) =>
         Shown(result.value.text) = call.text
===============================================================================
