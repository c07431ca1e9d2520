-------------------------- MODULE CgicRequestProofs --------------------------
(***************************************************************************)
(* Proofs about CgicRequest, for every form that is sent and whatever fails *)
(* while it is stored, saved and restored: the temporary files, the         *)
(* environment, the entries and the upload that is taken over.  The second  *)
(* half is about the texts that cgiMain hands over: what CgicText and Share *)
(* make of every text, and that this is what the browser meant by it.       *)
(***************************************************************************)
EXTENDS CgicRequestInvariants, FiniteSetTheorems, SequenceTheorems, WellFoundedInduction, TLAPS
-------------------------------------------------------------------------------
(* A step that leaves the entries and the saved file alone, and after which *)
(* as much has failed as before.                                            *)
LEMMA StoreStays ==
  ASSUME RequestOK, UNCHANGED <<sent, multipart, list, freed, saved, shot>>, bad \subseteq bad'
  PROVE  /\ Listing' /\ SavedRight' /\ ShotSaved' /\ FreedOnce'
         /\ NamesakesAreFields' = NamesakesAreFields /\ Genuine' = Genuine
         /\ Listed' = Listed /\ (temps' = temps => Contents' = Contents)
<1>1. Listing'
  BY DEF RequestOK, Listing
<1>2. /\ NamesakesAreFields' = NamesakesAreFields /\ Listed' = Listed /\ Genuine' = Genuine
      /\ temps' = temps => Contents' = Contents
  BY DEF NamesakesAreFields, Genuine, Listed, Contents
<1>3. SavedRight'
  BY <1>2 DEF RequestOK, SavedRight
<1>4. ShotSaved'
  BY <1>2 DEF RequestOK, ShotSaved, Holds
<1>5. FreedOnce'
  BY DEF RequestOK, FreedOnce
<1> QED BY <1>1, <1>2, <1>3, <1>4, <1>5

(* The same for the saved file alone.                                       *)
LEMMA SavedStays ==
  ASSUME RequestOK, UNCHANGED <<sent, saved, shot>>, bad \subseteq bad'
  PROVE  SavedRight' /\ ShotSaved' /\ NamesakesAreFields' = NamesakesAreFields /\ Genuine' = Genuine
<1>1. NamesakesAreFields' = NamesakesAreFields /\ Genuine' = Genuine
  BY DEF NamesakesAreFields, Genuine
<1>2. SavedRight'
  BY <1>1 DEF RequestOK, SavedRight
<1>3. ShotSaved'
  BY <1>1 DEF RequestOK, ShotSaved, Holds
<1> QED BY <1>1, <1>2, <1>3

(* An entry of a list of entries.                                           *)
LEMMA EntryOf ==
  ASSUME NEW l \in Seq(FormEntry), NEW i \in DOMAIN l
  PROVE  /\ l[i] \in FormEntry /\ i \in Nat /\ i >= 1 /\ i <= Len(l)
         /\ l[i].attr \in Nat /\ l[i].value \in Seq(Nat) /\ l[i].size \in Nat
         /\ l[i].file \in BOOLEAN /\ l[i].temp \in Nat
<1>1. l[i] \in FormEntry /\ i \in Nat /\ i >= 1 /\ i <= Len(l)
  OBVIOUS
<1> QED BY <1>1 DEF FormEntry

(* What was copied stays copied.                                            *)
LEMMA UpdateStays ==
  ASSUME UpdateIsWhole, UNCHANGED <<sent, target>>, bad \subseteq bad'
  PROVE  UpdateIsWhole'
BY DEF UpdateIsWhole, cgiFormEntryFindFirst, FindNext, Min

(* The part that is next was sent.                                          *)
LEMMA HeadWasSent ==
  ASSUME RequestOK, pc \in Parsing, todo # <<>>
  PROVE  Len(list) + 1 \in DOMAIN sent /\ Head(todo) = sent[Len(list) + 1]
<1>1. Len(todo) > 0 /\ Head(todo) = todo[1] /\ Len(list) + 1 \in DOMAIN sent
  BY DEF RequestOK, RequestTypes, InTurn
<1> QED BY <1>1 DEF RequestOK, RequestTypes, InTurn

(* The form was read, or it breaks off, a header is stored through a null   *)
(* pointer, a body in memory cannot grow, the process is killed, or cgiMain has a text taken apart.                    *)
LEMMA QuietStep ==
  ASSUME RequestOK, ParseEnds \/ InputBreaksOff \/ PartHeaders \/ PartOutgrows \/ Kill \/ Call
  PROVE  RequestOK'
<1>1. /\ UNCHANGED <<sent, multipart, todo, cur, list, freed, temps, serial, env, restored, saved,
                     shot, target>>
      /\ bad \subseteq bad'
      /\ \/ pc = "parse" /\ pc' = "main" /\ todo = <<>> /\ bad' = bad
         \/ pc = "parse" /\ pc' = "failed"
         \/ pc = "parse" /\ pc' = "undefined" /\ todo # <<>> /\ Head(todo).odd
         \/ pc = "body" /\ pc' = "undefined" /\ "grow" \in bad'
         \/ pc' = "killed"
         \/ pc = "main" /\ pc' = pc /\ bad' = bad
  BY DEF ParseEnds, InputBreaksOff, PartHeaders, PartOutgrows, Kill, Call, Fails, form, store, environment
<1>2. /\ Listing' /\ SavedRight' /\ ShotSaved' /\ FreedOnce'
      /\ NamesakesAreFields' = NamesakesAreFields /\ Genuine' = Genuine /\ Listed' = Listed /\ Contents' = Contents
  BY <1>1, StoreStays
<1>3. RequestTypes'
  BY <1>1 DEF RequestOK, RequestTypes, Parsing
<1>4. Numbered' /\ InTurn' /\ Multipart' /\ Stored'
  BY <1>1 DEF RequestOK, Numbered, InTurn, Multipart, Stored, Parsing, Storing
<1>5. Owned'
  BY <1>1, <1>2 DEF RequestOK, Owned, NoTempLeft, Storing
<1>6. FilesKept'
  BY <1>1, <1>2 DEF RequestOK, FilesKept, Parsing
<1>7. RestoredRight'
  BY <1>1, <1>2 DEF RequestOK, RestoredRight, Parsing
<1>8. Environment'
  BY <1>1 DEF RequestOK, Environment, EnvironmentIsValid, Parsing
<1>9. StaysDefined'
  <2>1. todo # <<>> /\ Head(todo).odd /\ pc = "parse" => multipart
    BY HeadWasSent DEF RequestOK, Multipart, Parsing
  <2> QED BY <1>1, <1>2, <2>1 DEF RequestOK, StaysDefined, Multipart
<1>10. UpdateIsWhole'
  BY <1>1, UpdateStays DEF RequestOK
<1> QED BY <1>2, <1>3, <1>4, <1>5, <1>6, <1>7, <1>8, <1>9, <1>10 DEF RequestOK

(* While the form is read nothing was restored yet.                         *)
LEMMA NotRestored ==
  ASSUME RequestOK, pc \in Parsing \cup {"failed"} PROVE ~restored /\ restored = FALSE
BY DEF RequestOK, RestoredRight, RequestTypes

(* A field is collected in memory, or the file of a part is opened.         *)
LEMMA BeginStep ==
  ASSUME RequestOK, PartInMemory \/ PartOpen
  PROVE  RequestOK'
<1>1. /\ UNCHANGED <<sent, multipart, todo, list, freed, temps, serial, env, restored, saved,
                     shot, target>>
      /\ bad \subseteq bad'
  BY DEF PartInMemory, PartOpen, form, store, environment
<1>2. /\ Listing' /\ SavedRight' /\ ShotSaved' /\ FreedOnce'
      /\ NamesakesAreFields' = NamesakesAreFields /\ Genuine' = Genuine /\ Listed' = Listed /\ Contents' = Contents
  BY <1>1, StoreStays
<1>3. UpdateIsWhole'
  BY <1>1, UpdateStays DEF RequestOK
<1>4. CASE PartInMemory
  <2>1. /\ pc = "parse" /\ pc' \in {"body", "entry"} /\ cur' = NoPart /\ bad' = bad /\ todo # <<>>
        /\ pc' = "body" => multipart
    BY <1>4 DEF PartInMemory
  <2>2. cur' \in [temp : Nat, open : BOOLEAN] /\ cur'.temp = 0 /\ cur'.open = FALSE
    BY <2>1 DEF NoPart
  <2>3. RequestTypes'
    BY <1>1, <2>1, <2>2 DEF RequestOK, RequestTypes, Parsing
  <2>4. Numbered' /\ InTurn' /\ Multipart' /\ Stored'
    BY <1>1, <2>1, <2>2 DEF RequestOK, RequestTypes, Numbered, InTurn, Multipart, Stored, Parsing, Storing
  <2>5. Owned'
    BY <1>1, <1>2, <2>1, <2>2 DEF RequestOK, Owned, NoTempLeft, Storing, Listed
  <2>6. FilesKept' /\ RestoredRight' /\ Environment' /\ StaysDefined'
    BY <1>1, <1>2, <2>1, NotRestored DEF RequestOK, FilesKept, RestoredRight, Environment,
       EnvironmentIsValid, StaysDefined, Parsing
  <2> QED BY <1>2, <1>3, <2>3, <2>4, <2>5, <2>6 DEF RequestOK
<1>5. CASE PartOpen
  <2>1. /\ pc = "open" /\ pc' = "body" /\ cur'.temp = cur.temp
        /\ cur' \in [temp : Nat, open : BOOLEAN]
        /\ cur'.open \/ (cur' = cur /\ "open" \in bad')
    BY <1>5 DEF PartOpen, RequestOK, RequestTypes
  <2>2. cur.temp # 0
    BY <2>1, <1>5
    DEF PartOpen, RequestOK, Stored, Storing
  <2>3. RequestTypes'
    BY <1>1, <2>1 DEF RequestOK, RequestTypes, Parsing
  <2>4. Numbered' /\ InTurn' /\ Multipart' /\ Stored'
    BY <1>1, <2>1, <2>2 DEF RequestOK, RequestTypes, Numbered, InTurn, Multipart, Stored, Parsing, Storing
  <2>5. Owned'
    BY <1>1, <1>2, <2>1 DEF RequestOK, Owned, NoTempLeft, Storing
  <2>6. FilesKept' /\ RestoredRight' /\ Environment' /\ StaysDefined'
    BY <1>1, <1>2, <2>1, NotRestored DEF RequestOK, FilesKept, RestoredRight, Environment,
       EnvironmentIsValid, StaysDefined, Parsing
  <2> QED BY <1>2, <1>3, <2>3, <2>4, <2>5, <2>6 DEF RequestOK
<1> QED BY <1>4, <1>5

(* getTempFileName makes a new file, or the parse fails.                    *)
LEMMA TempStep ==
  ASSUME RequestOK, PartTemp
  PROVE  RequestOK'
<1>1. /\ UNCHANGED <<sent, multipart, todo, list, freed, env, restored, saved, shot, target>>
      /\ bad \subseteq bad' /\ pc = "parse" /\ todo # <<>> /\ Head(todo).file
  BY DEF PartTemp, Fails, form, environment
<1>2. /\ Listing' /\ SavedRight' /\ ShotSaved' /\ FreedOnce'
      /\ NamesakesAreFields' = NamesakesAreFields /\ Genuine' = Genuine /\ Listed' = Listed
  BY <1>1, StoreStays
<1>3. UpdateIsWhole'
  BY <1>1, UpdateStays DEF RequestOK
<1>4. CASE /\ serial' = serial + 1
           /\ temps' = [t \in DOMAIN temps \cup {serial + 1} |-> IF t = serial + 1 THEN <<>> ELSE temps[t]]
           /\ cur' = [temp |-> serial + 1, open |-> FALSE]
           /\ pc' = "open" /\ bad' = bad
  <2>0. /\ serial \in Nat /\ cur' \in [temp : Nat, open : BOOLEAN]
        /\ cur'.temp = serial + 1 /\ cur'.open = FALSE
    BY <1>4 DEF RequestOK, RequestTypes
  <2>1. /\ DOMAIN temps' = DOMAIN temps \cup {serial + 1}
        /\ \A t \in DOMAIN temps : temps'[t] = temps[t]
        /\ DOMAIN temps = Listed /\ DOMAIN temps \subseteq 1 .. serial
    BY <1>1, <1>4, <2>0 DEF RequestOK, Owned, Numbered
  <2>2. RequestTypes'
    BY <1>4, <2>1, <1>1, <2>0 DEF RequestOK, RequestTypes, Parsing
  <2>3. Numbered'
    BY <1>4, <2>0, <2>1, <1>1, EntryOf DEF RequestOK, RequestTypes, Numbered
  <2>4. InTurn' /\ Stored'
    BY <1>1, <1>4, <2>0 DEF RequestOK, InTurn, Stored, Parsing, Storing
  <2>5. Multipart'
    BY <1>1, HeadWasSent DEF RequestOK, Multipart, Parsing
  <2>6. Owned'
    <3>1. serial + 1 \notin Listed
      BY <2>0, <2>1
    <3> QED BY <1>1, <1>2, <1>4, <2>0, <2>1, <3>1 DEF RequestOK, Owned, NoTempLeft, Storing
  <2>7. FilesKept'
    <3>1. \A i \in DOMAIN list : list[i].temp # 0 => list[i].temp \in DOMAIN temps
      BY <2>1 DEF Listed
    <3> QED BY <1>1, <1>2, <1>4, <2>1, <3>1 DEF RequestOK, FilesKept, Parsing
  <2>8. RestoredRight' /\ Environment' /\ StaysDefined'
    BY <1>1, <1>4, NotRestored DEF RequestOK, RestoredRight, Environment, EnvironmentIsValid,
       StaysDefined, Parsing
  <2> QED BY <1>2, <1>3, <2>2, <2>3, <2>4, <2>5, <2>6, <2>7, <2>8 DEF RequestOK
<1>5. CASE Fails("temp") /\ UNCHANGED <<serial, temps, cur>>
  <2>1. pc' = "failed"
    BY <1>5 DEF Fails
  <2>2. RequestTypes' /\ Numbered' /\ InTurn' /\ Multipart' /\ Stored'
    BY <1>1, <1>5, <2>1 DEF RequestOK, RequestTypes, Numbered, InTurn, Multipart, Stored, Parsing, Storing
  <2>3. Owned' /\ FilesKept'
    BY <1>1, <1>2, <1>5, <2>1 DEF RequestOK, Owned, NoTempLeft, FilesKept, Storing, Parsing
  <2>4. RestoredRight' /\ Environment' /\ StaysDefined'
    BY <1>1, <2>1, NotRestored DEF RequestOK, RestoredRight, Environment, EnvironmentIsValid,
       StaysDefined, Parsing
  <2> QED BY <1>2, <1>3, <2>2, <2>3, <2>4 DEF RequestOK
<1> QED BY <1>4, <1>5 DEF PartTemp

(* The body was copied, all of it or, unnoticed, not; or it breaks off.     *)
LEMMA BodyStep ==
  ASSUME RequestOK, PartBody \/ PartBreaksOff
  PROVE  RequestOK'
<1>1. /\ UNCHANGED <<sent, multipart, todo, cur, list, freed, serial, env, restored, saved, shot,
                     target>>
      /\ bad \subseteq bad' /\ pc = "body"
  BY DEF PartBody, PartBreaksOff, Fails, form, environment
<1>2. /\ Listing' /\ SavedRight' /\ ShotSaved' /\ FreedOnce'
      /\ NamesakesAreFields' = NamesakesAreFields /\ Genuine' = Genuine /\ Listed' = Listed
  BY <1>1, StoreStays
<1>3. UpdateIsWhole'
  BY <1>1, UpdateStays DEF RequestOK
<1>4. /\ DOMAIN temps = Listed \cup ({cur.temp} \ {0}) /\ cur.temp \notin Listed
      /\ todo # <<>> /\ (cur.open => cur.temp # 0) /\ todo \in Seq(Part)
      /\ temps \in [DOMAIN temps -> Seq(Nat)]
      /\ \A i \in DOMAIN list : list[i].temp # 0 => list[i].temp \in Listed
  BY <1>1 DEF RequestOK, RequestTypes, Owned, InTurn, Stored, Storing, Parsing, Listed
<1>5. Head(todo) \in Part /\ Head(todo).body \in Seq(Nat)
  <2>1. Head(todo) \in Part
    BY <1>4
  <2> QED BY <2>1 DEF Part
<1>6. CASE PartBody
  <2>1. PICK b \in Seq(Nat) :
          /\ temps' = IF cur.open THEN [temps EXCEPT ![cur.temp] = b] ELSE temps
          /\ b = Head(todo).body \/ "write" \in bad'
    <3>1. Head(todo).body # <<>> => Front(Head(todo).body) \in Seq(Nat)
      BY <1>5 DEF Front
    <3> QED BY <1>5, <1>6, <3>1 DEF PartBody
  <2>2. pc' = "entry"
    BY <1>6 DEF PartBody
  <2>3. /\ DOMAIN temps' = DOMAIN temps /\ temps' \in [DOMAIN temps' -> Seq(Nat)]
        /\ \A t \in Listed : temps'[t] = temps[t]
        /\ cur.open => temps'[cur.temp] = b
    BY <1>4, <2>1
  <2>4. RequestTypes' /\ Numbered' /\ InTurn' /\ Multipart'
    BY <1>1, <2>2, <2>3 DEF RequestOK, RequestTypes, Numbered, InTurn, Multipart, Parsing, Storing
  <2>5. Stored'
    BY <1>1, <2>1, <2>2, <2>3 DEF RequestOK, Stored, Storing
  <2>6. Owned' /\ FilesKept'
    BY <1>1, <1>2, <1>4, <2>2, <2>3 DEF RequestOK, Owned, NoTempLeft, FilesKept, Storing, Parsing
  <2>7. RestoredRight' /\ Environment' /\ StaysDefined'
    BY <1>1, <2>2, NotRestored DEF RequestOK, RestoredRight, Environment, EnvironmentIsValid,
       StaysDefined, Parsing
  <2> QED BY <1>2, <1>3, <2>4, <2>5, <2>6, <2>7 DEF RequestOK
<1>7. CASE PartBreaksOff
  <2>1. pc' = "failed" /\ temps' = IF cur.open THEN Unlinked({cur.temp}) ELSE temps
    BY <1>7 DEF PartBreaksOff, Fails
  <2>2. /\ DOMAIN temps' = IF cur.open THEN DOMAIN temps \ {cur.temp} ELSE DOMAIN temps
        /\ temps' \in [DOMAIN temps' -> Seq(Nat)]
    BY <1>4, <2>1 DEF Unlinked
  <2>3. RequestTypes' /\ Numbered' /\ InTurn' /\ Multipart' /\ Stored'
    BY <1>1, <2>1, <2>2 DEF RequestOK, RequestTypes, Numbered, InTurn, Multipart, Stored, Parsing, Storing
  <2>4. "open" \notin bad' => DOMAIN temps' \subseteq Listed
    BY <1>1, <1>4, <2>2 DEF RequestOK, Stored, Storing
  <2>5. Owned' /\ FilesKept'
    BY <1>1, <1>2, <2>1, <2>4 DEF RequestOK, Owned, NoTempLeft, FilesKept, Storing, Parsing
  <2>6. RestoredRight' /\ Environment' /\ StaysDefined'
    BY <1>1, <2>1, NotRestored DEF RequestOK, RestoredRight, Environment, EnvironmentIsValid,
       StaysDefined, Parsing
  <2> QED BY <1>2, <1>3, <2>3, <2>5, <2>6 DEF RequestOK
<1> QED BY <1>6, <1>7

(* The part being stored, and the entry that is made of it.                 *)
LEMMA NewIsNext ==
  ASSUME RequestOK, pc = "entry"
  PROVE  /\ Len(list) + 1 \in DOMAIN sent /\ Head(todo) = sent[Len(list) + 1]
         /\ Head(todo) \in Part /\ todo # <<>> /\ NewEntry \in FormEntry
         /\ NewEntry.attr = sent[Len(list) + 1].attr /\ NewEntry.file = sent[Len(list) + 1].file
         /\ NewEntry.size = Len(sent[Len(list) + 1].body) /\ NewEntry.temp = cur.temp
<1>1. /\ todo \in Seq(Part) /\ todo # <<>> /\ list \in Seq(FormEntry) /\ sent \in Seq(Part)
      /\ cur \in [temp : Nat, open : BOOLEAN] /\ Len(list) + Len(todo) = Len(sent)
      /\ \A i \in 1 .. Len(todo) : todo[i] = sent[Len(list) + i]
  BY DEF RequestOK, RequestTypes, InTurn, Parsing, Storing
<1>2. Len(todo) \in Nat /\ Len(todo) > 0 /\ Head(todo) = todo[1] /\ Head(todo) \in Part /\ Len(list) \in Nat
  BY <1>1
<1>3. Len(list) + 1 \in DOMAIN sent /\ Head(todo) = sent[Len(list) + 1]
  BY <1>1, <1>2
<1>4. /\ Head(todo).attr \in Nat /\ Head(todo).file \in BOOLEAN /\ Head(todo).body \in Seq(Nat)
      /\ cur.temp \in Nat /\ Len(Head(todo).body) \in Nat /\ <<>> \in Seq(Nat)
  <2>1. Head(todo).attr \in Nat /\ Head(todo).file \in BOOLEAN /\ Head(todo).body \in Seq(Nat)
    BY <1>2 DEF Part
  <2>2. cur.temp \in Nat
    BY <1>1
  <2> QED BY <2>1, <2>2
<1>5. NewEntry \in FormEntry
  BY <1>4 DEF NewEntry, FormEntry
<1>6. /\ NewEntry.attr = Head(todo).attr /\ NewEntry.file = Head(todo).file
      /\ NewEntry.size = Len(Head(todo).body) /\ NewEntry.temp = cur.temp
  BY DEF NewEntry
<1> QED BY <1>1, <1>2, <1>3, <1>5, <1>6

(* What is true of the entries once the new one is behind them.             *)
LEMMA Appended ==
  ASSUME RequestOK, pc = "entry", list' = Append(list, NewEntry), UNCHANGED <<sent, serial>>
  PROVE  /\ list' \in Seq(FormEntry) /\ Len(list') = Len(list) + 1 /\ Len(list) \in Nat
         /\ DOMAIN list' = DOMAIN list \cup {Len(list) + 1}
         /\ \A i \in DOMAIN list : list'[i] = list[i] /\ i # Len(list) + 1
         /\ list'[Len(list) + 1] = NewEntry
         /\ Listing' /\ Listed' = Listed \cup ({cur.temp} \ {0})
         /\ \A i, j \in DOMAIN list' : list'[i].temp = list'[j].temp /\ i # j => list'[i].temp = 0
         /\ \A i \in DOMAIN list' : list'[i].temp <= serial'
<1> DEFINE k == Len(list) + 1
<1>1. list \in Seq(FormEntry) /\ NewEntry \in FormEntry
  BY NewIsNext DEF RequestOK, RequestTypes
<1>2. /\ list' \in Seq(FormEntry) /\ Len(list') = k /\ Len(list) \in Nat
      /\ DOMAIN list' = DOMAIN list \cup {k} /\ list'[k] = NewEntry
  BY <1>1
<1>3. ASSUME NEW i \in DOMAIN list PROVE list'[i] = list[i] /\ i # k
  BY <1>1
<1> HIDE DEF k
<1>4. Listing'
  BY <1>2, <1>3, NewIsNext DEF k, RequestOK, RequestTypes, Listing
<1>5. NewEntry.temp = cur.temp
  BY NewIsNext
<1>6. Listed' = Listed \cup ({cur.temp} \ {0})
  BY <1>2, <1>3, <1>5 DEF Listed
<1>7. /\ cur.temp \notin Listed /\ cur.temp <= serial
      /\ \A i, j \in DOMAIN list : list[i].temp = list[j].temp /\ i # j => list[i].temp = 0
      /\ \A i \in DOMAIN list : list[i].temp <= serial
  BY DEF RequestOK, Owned, Numbered, Storing
<1>8. \A i \in DOMAIN list : list[i].temp = cur.temp => cur.temp = 0
  BY <1>7 DEF Listed
<1>9. ASSUME NEW i \in DOMAIN list', NEW j \in DOMAIN list', list'[i].temp = list'[j].temp, i # j
      PROVE  list'[i].temp = 0
  BY <1>3, <1>7, <1>9, <1>2, <1>5, <1>8
<1>10. \A i \in DOMAIN list' : list'[i].temp <= serial'
  BY <1>2, <1>3, <1>5, <1>7
<1> QED BY <1>2, <1>3, <1>4, <1>6, <1>9, <1>10 DEF k

(* The part is an entry, or there is no memory for it.                      *)
LEMMA EntryStep ==
  ASSUME RequestOK, PartEntry \/ PartOutOfMemory
  PROVE  RequestOK'
<1>1. /\ UNCHANGED <<sent, multipart, serial, env, restored, saved, shot, target>>
      /\ bad \subseteq bad' /\ pc = "entry"
  BY DEF PartEntry, PartOutOfMemory, form, environment
<1>2. SavedRight' /\ ShotSaved' /\ NamesakesAreFields' = NamesakesAreFields /\ Genuine' = Genuine
  BY <1>1, SavedStays
<1>3. UpdateIsWhole'
  BY <1>1, UpdateStays DEF RequestOK
<1>4. /\ DOMAIN temps = Listed \cup ({cur.temp} \ {0}) /\ (cur.open => cur.temp # 0)
      /\ temps \in [DOMAIN temps -> Seq(Nat)] /\ DOMAIN temps \subseteq 1 .. serial
      /\ cur.temp # 0 /\ ~cur.open => "open" \in bad
      /\ cur.temp # 0 => Head(todo).file
      /\ cur.open /\ "write" \notin bad => temps[cur.temp] = Head(todo).body
  BY <1>1 DEF RequestOK, RequestTypes, Numbered, Owned, Stored, Storing
<1>5. CASE PartEntry
  <2>1. /\ list' = Append(list, NewEntry) /\ todo' = Tail(todo) /\ cur' = NoPart /\ pc' = "parse"
        /\ UNCHANGED <<freed, temps, bad>>
    BY <1>5 DEF PartEntry
  <2>2. /\ list' \in Seq(FormEntry) /\ Len(list') = Len(list) + 1 /\ Len(list) \in Nat
        /\ DOMAIN list' = DOMAIN list \cup {Len(list) + 1}
        /\ \A i \in DOMAIN list : list'[i] = list[i] /\ i # Len(list) + 1
        /\ list'[Len(list) + 1] = NewEntry
        /\ Listing' /\ Listed' = Listed \cup ({cur.temp} \ {0})
        /\ \A i, j \in DOMAIN list' : list'[i].temp = list'[j].temp /\ i # j => list'[i].temp = 0
        /\ \A i \in DOMAIN list' : list'[i].temp <= serial'
    BY <1>1, <2>1, Appended
  <2>3. /\ todo' \in Seq(Part) /\ Len(todo') = Len(todo) - 1 /\ Len(todo) \in Nat
        /\ \A i \in 1 .. Len(todo') : todo'[i] = todo[i + 1]
    BY <1>1, <2>1, NewIsNext DEF RequestOK, RequestTypes
  <2>4. cur' \in [temp : Nat, open : BOOLEAN]
    BY <2>1 DEF NoPart
  <2>5. RequestTypes'
    BY <1>1, <2>1, <2>2, <2>3, <2>4 DEF RequestOK, RequestTypes, Parsing
  <2>6. Numbered' /\ Multipart' /\ Stored'
    BY <1>1, <1>4, <2>1, <2>2 DEF RequestOK, Numbered, Multipart, Stored, Storing
  <2>7. InTurn'
    <3>1. /\ Len(list) + Len(todo) = Len(sent)
          /\ \A i \in 1 .. Len(todo) : todo[i] = sent[Len(list) + i]
      BY <1>1 DEF RequestOK, InTurn, Parsing
    <3>2. Len(list') + Len(todo') = Len(sent')
      <4>1. (Len(list) + 1) + (Len(todo) - 1) = Len(list) + Len(todo)
        BY <2>2, <2>3
      <4> QED BY <1>1, <2>2, <2>3, <3>1, <4>1
    <3>3. ASSUME NEW i \in 1 .. Len(todo') PROVE todo'[i] = sent'[Len(list') + i]
      <4>1. i + 1 \in 1 .. Len(todo) /\ Len(list') + i = Len(list) + (i + 1)
        BY <2>2, <2>3
      <4> QED BY <1>1, <2>3, <3>1, <4>1
    <3> QED BY <2>1, <3>2, <3>3 DEF InTurn, Storing
  <2>8. Owned'
    BY <1>4, <2>1, <2>2 DEF Owned, NoTempLeft, Storing
  <2>9. FilesKept'
    <3>1. SUFFICES ASSUME NEW i \in DOMAIN list', list'[i].temp # 0, i \in Genuine
                   PROVE  /\ list'[i].file
                          /\ bad \cap {"open", "write", "flush"} = {} => temps[list'[i].temp] = sent[i].body
      BY <1>1, <1>2, <2>1 DEF FilesKept
    <3>2. CASE i \in DOMAIN list
      BY <1>1, <2>2, <3>1, <3>2 DEF RequestOK, FilesKept, Parsing
    <3>3. CASE i = Len(list) + 1
      BY <1>1, <2>2, <3>3, <1>4, <3>1, NewIsNext
    <3> QED BY <2>2, <3>2, <3>3
  <2>10. RestoredRight' /\ Environment' /\ StaysDefined' /\ FreedOnce'
    BY <1>1, <2>1, NotRestored DEF RequestOK, RestoredRight, Environment, EnvironmentIsValid,
       StaysDefined, FreedOnce, Parsing
  <2> QED BY <1>2, <1>3, <2>2, <2>5, <2>6, <2>7, <2>8, <2>9, <2>10 DEF RequestOK
<1>6. CASE PartOutOfMemory
  <2>1. PICK a \in Allocations :
          /\ bad' = bad \cup {a}
          /\ pc' = IF cur.open /\ a \in LinkedAt THEN "undefined" ELSE "failed"
          /\ IF multipart /\ a \in LinkedAt
               THEN list' = Append(list, NewEntry) /\ freed' = freed \cup {Len(list) + 1}
               ELSE UNCHANGED <<list, freed>>
    BY <1>6 DEF PartOutOfMemory
  <2>2. /\ pc' \in {"failed", "undefined"} /\ bad' = bad \cup {a} /\ UNCHANGED <<todo, cur>>
        /\ temps' = IF cur.open THEN Unlinked({cur.temp}) ELSE temps
    BY <1>6, <2>1 DEF PartOutOfMemory
  <2>3. /\ DOMAIN temps' = IF cur.open THEN DOMAIN temps \ {cur.temp} ELSE DOMAIN temps
        /\ temps' \in [DOMAIN temps' -> Seq(Nat)]
    BY <1>4, <2>2 DEF Unlinked
  <2>4. "open" \notin bad' => DOMAIN temps' \subseteq Listed
    BY <1>1, <1>4, <2>3
  <2>5. /\ list' \in Seq(FormEntry) /\ Listing' /\ Listed \subseteq Listed'
        /\ \A i, j \in DOMAIN list' : list'[i].temp = list'[j].temp /\ i # j => list'[i].temp = 0
        /\ \A i \in DOMAIN list' : list'[i].temp <= serial'
    <3>1. CASE multipart /\ a \in LinkedAt
      BY <1>1, <2>1, <3>1, Appended
    <3>2. CASE ~(multipart /\ a \in LinkedAt)
      BY <1>1, <2>1, <3>2 DEF RequestOK, RequestTypes, Listing, Listed, Owned, Numbered
    <3> QED BY <3>1, <3>2
  <2>6. FreedOnce'
    BY <1>1, <2>1, <2>2 DEF RequestOK, FreedOnce, LinkedAt
  <2>7. RequestTypes' /\ Numbered' /\ InTurn' /\ Multipart' /\ Stored'
    BY <1>1, <1>4, <2>2, <2>3, <2>5 DEF RequestOK, RequestTypes, Numbered, InTurn, Multipart, Stored,
       Parsing, Storing
  <2>8. Owned' /\ FilesKept'
    BY <2>2, <2>4, <2>5 DEF Owned, NoTempLeft, FilesKept, Storing, Parsing
  <2>9. RestoredRight' /\ Environment'
    BY <1>1, <2>2, NotRestored DEF RequestOK, RestoredRight, Environment, EnvironmentIsValid, Parsing
  <2>10. StaysDefined'
    <3>1. CASE pc' = "failed"
      BY <3>1 DEF StaysDefined
    <3>2. CASE cur.open /\ a \in LinkedAt
      <4>1. multipart
        BY <1>1, <1>4, <3>2, NewIsNext DEF RequestOK, Multipart
      <4> QED BY <1>1, <2>2, <3>2, <4>1 DEF StaysDefined, LinkedAt
    <3> QED BY <2>1, <3>1, <3>2
  <2> QED BY <1>2, <1>3, <2>5, <2>6, <2>7, <2>8, <2>9, <2>10 DEF RequestOK
<1> QED BY <1>5, <1>6

(* main gives everything back, or frees what is no longer its own.          *)
LEMMA FreeStep ==
  ASSUME RequestOK, Free
  PROVE  RequestOK'
<1>1. /\ UNCHANGED <<sent, multipart, todo, cur, freed, serial, saved, shot, target, bad>>
      /\ bad \subseteq bad' /\ pc \in {"main", "failed"}
  BY DEF Free, form
<1>2. SavedRight' /\ ShotSaved' /\ NamesakesAreFields' = NamesakesAreFields
  BY <1>1, SavedStays
<1>3. UpdateIsWhole'
  BY <1>1, UpdateStays DEF RequestOK
<1>4. FreedOnce'
  BY <1>1 DEF RequestOK, FreedOnce
<1>5. CASE freed = {}
  <2>1. /\ pc' = "ended" /\ list' = <<>> /\ temps' = Unlinked(Listed) /\ restored' = FALSE
    BY <1>5 DEF Free, cgiFreeResources
  <2>2. DOMAIN temps' = DOMAIN temps \ Listed /\ temps' \in [DOMAIN temps' -> Seq(Nat)]
    BY <2>1 DEF Unlinked, RequestOK, RequestTypes
  <2>3. /\ list' \in Seq(FormEntry) /\ DOMAIN list' = {} /\ Len(list') = 0
    BY <2>1
  <2>4. RequestTypes' /\ InTurn' /\ Multipart' /\ Stored'
    BY <1>1, <2>1, <2>2, <2>3 DEF RequestOK, RequestTypes, InTurn, Multipart, Stored, Parsing, Storing
  <2>5. Numbered'
    BY <1>1, <2>1, <2>2, <2>3 DEF RequestOK, Numbered, Storing
  <2>6. Listing'
    BY <1>1, <2>3 DEF RequestOK, RequestTypes, Listing
  <2>7. Owned' /\ FilesKept'
    BY <1>1, <2>1, <2>2, <2>3 DEF RequestOK, Owned, NoTempLeft, FilesKept, Storing, Parsing
  <2>8. RestoredRight' /\ Environment' /\ StaysDefined'
    BY <2>1 DEF RestoredRight, Environment, EnvironmentIsValid, StaysDefined, Parsing
  <2> QED BY <1>2, <1>3, <1>4, <2>4, <2>5, <2>6, <2>7, <2>8 DEF RequestOK
<1>6. CASE freed # {}
  <2>1. pc' = "undefined" /\ UNCHANGED <<list, temps, env, restored>>
    BY <1>6 DEF Free
  <2>2. Listing' /\ Contents' = Contents
    BY <1>1, <2>1, StoreStays
  <2>3. RequestTypes' /\ Numbered' /\ InTurn' /\ Multipart' /\ Stored'
    BY <1>1, <2>1 DEF RequestOK, RequestTypes, Numbered, InTurn, Multipart, Stored, Parsing, Storing
  <2>4. Owned' /\ FilesKept'
    BY <2>1 DEF RequestOK, Owned, NoTempLeft, FilesKept, Storing, Parsing
  <2>5. RestoredRight' /\ Environment'
    BY <1>1, <1>2, <2>1, <2>2 DEF RequestOK, RestoredRight, Environment, EnvironmentIsValid, Parsing
  <2>6. StaysDefined'
    BY <1>1, <1>6 DEF RequestOK, FreedOnce, StaysDefined
  <2> QED BY <1>2, <1>3, <1>4, <2>2, <2>3, <2>4, <2>5, <2>6 DEF RequestOK
<1> QED BY <1>5, <1>6
-------------------------------------------------------------------------------
(* A set of numbers that is not empty has a least one.                      *)
LEMMA LeastOf ==
  ASSUME NEW S, S \subseteq Nat, S # {}
  PROVE  Min(S) \in S /\ \A y \in S : Min(S) <= y
<1>1. PICK x \in S : \A y \in S : ~(<<y, x>> \in OpToRel(<, Nat))
  BY WFMin, NatLessThanWellFounded
<1>2. ASSUME NEW y \in S PROVE x <= y
  <2>1. <<y, x>> \in Nat \X Nat /\ y \in Nat /\ x \in Nat
    OBVIOUS
  <2>2. y < x => <<y, x>> \in OpToRel(<, Nat)
    BY <2>1 DEF OpToRel
  <2>3. ~(y < x)
    BY <1>1, <2>2, Zenon
  <2> QED BY <2>1, <2>3
<1> QED BY <1>2 DEF Min

(* cgiFormEntryFindFirst finds the first entry of the name.                 *)
LEMMA FirstEntry ==
  ASSUME NEW l, Len(l) \in Nat, NEW name
  PROVE  /\ cgiFormEntryFindFirst(l, name) \in 1 .. Len(l) + 1
         /\ cgiFormEntryFindFirst(l, name) <= Len(l) => l[cgiFormEntryFindFirst(l, name)].attr = name
         /\ \A j \in 1 .. Len(l) : l[j].attr = name => cgiFormEntryFindFirst(l, name) <= j
<1> DEFINE S == {i \in 1 .. Len(l) : l[i].attr = name} \cup {Len(l) + 1}
<1>1. S \subseteq Nat /\ S # {} /\ cgiFormEntryFindFirst(l, name) = Min(S)
  BY DEF cgiFormEntryFindFirst, FindNext
<1>2. Min(S) \in S /\ \A y \in S : Min(S) <= y
  BY <1>1, LeastOf
<1> QED BY <1>1, <1>2

(* The first entry of a name was the first part of that name.               *)
LEMMA FirstWasSent ==
  ASSUME RequestOK, NEW name, cgiFormEntryFindFirst(list, name) \in DOMAIN list
  PROVE  cgiFormEntryFindFirst(sent, name) = cgiFormEntryFindFirst(list, name)
<1> DEFINE i == cgiFormEntryFindFirst(list, name)
           k == cgiFormEntryFindFirst(sent, name)
<1>1. /\ Len(list) \in Nat /\ Len(sent) \in Nat /\ Len(list) <= Len(sent)
      /\ DOMAIN list = 1 .. Len(list) /\ \A j \in 1 .. Len(list) : list[j].attr = sent[j].attr
  BY DEF RequestOK, RequestTypes, Listing
<1>2. /\ i \in 1 .. Len(list) /\ list[i].attr = name
      /\ \A j \in 1 .. Len(list) : list[j].attr = name => i <= j
  BY <1>1, FirstEntry
<1>3. /\ k \in 1 .. Len(sent) + 1
      /\ k <= Len(sent) => sent[k].attr = name
      /\ \A j \in 1 .. Len(sent) : sent[j].attr = name => k <= j
  BY <1>1, FirstEntry
<1> HIDE DEF i, k
<1>4. k <= i
  BY <1>1, <1>2, <1>3
<1>5. k \in 1 .. Len(list) /\ list[k].attr = name
  BY <1>1, <1>2, <1>3, <1>4
<1>6. k = i
  BY <1>2, <1>3, <1>4, <1>5
<1> QED BY <1>6 DEF i, k

(* updateFile copies an upload, all of it or, unnoticed, not; or it fails.  *)
LEMMA UpdateStep ==
  ASSUME RequestOK, NEW attr, updateFile(attr)
  PROVE  RequestOK'
<1>1. /\ UNCHANGED <<sent, multipart, pc, todo, cur, list, freed, temps, serial, env, restored, saved, shot>>
      /\ bad \subseteq bad' /\ pc = "main"
  BY DEF updateFile, form, store, environment
<1>2. /\ Listing' /\ SavedRight' /\ ShotSaved' /\ FreedOnce'
      /\ NamesakesAreFields' = NamesakesAreFields /\ Genuine' = Genuine /\ Listed' = Listed /\ Contents' = Contents
  BY <1>1, StoreStays
<1>3. RequestTypes' /\ Numbered' /\ InTurn' /\ Multipart' /\ Stored'
  BY <1>1 DEF RequestOK, RequestTypes, Numbered, InTurn, Multipart, Stored, Parsing, Storing
<1>4. Owned'
  BY <1>1, <1>2 DEF RequestOK, Owned, NoTempLeft, Storing
<1>5. FilesKept'
  BY <1>1, <1>2 DEF RequestOK, FilesKept
<1>6. RestoredRight'
  BY <1>1, <1>2 DEF RequestOK, RestoredRight
<1>7. Environment' /\ StaysDefined'
  BY <1>1 DEF RequestOK, Environment, EnvironmentIsValid, StaysDefined, Parsing
<1>8. UpdateIsWhole'
  <2>1. SUFFICES ASSUME target'.ret = 0, bad' \cap {"open", "write", "flush"} = {}
                 PROVE  \E i \in DOMAIN sent :
                          /\ i = cgiFormEntryFindFirst(sent, target'.attr)
                          /\ sent[i].file /\ sent[i].body = target'.data
    BY <1>1, <1>2 DEF UpdateIsWhole, cgiFormEntryFindFirst, FindNext, Min
  <2>2. PICK i \in FirstFile(attr) :
          /\ list[i].temp # 0
          /\ target' = [attr |-> attr, ret |-> 0, data |-> temps[list[i].temp]]
    BY <2>1 DEF updateFile
  <2>3. i \in DOMAIN list /\ i = cgiFormEntryFindFirst(list, attr) /\ list[i].file
    BY DEF FirstFile
  <2>4. i = cgiFormEntryFindFirst(sent, attr)
    BY <2>3, FirstWasSent
  <2>5. i \in DOMAIN sent /\ sent[i].file
    BY <2>3 DEF RequestOK, RequestTypes, Listing
  <2>6. i \in Genuine
    <3>1. /\ Len(sent) \in Nat /\ DOMAIN sent = 1 .. Len(sent)
          /\ \A j \in 1 .. Len(sent) : sent[j].attr = attr => i <= j
          /\ sent[i].attr = attr
      BY <2>4, <2>5, FirstEntry DEF RequestOK, RequestTypes
    <3> QED BY <2>5, <3>1 DEF Genuine
  <2>7. temps[list[i].temp] = sent[i].body
    BY <1>1, <2>1, <2>2, <2>3, <2>6 DEF RequestOK, FilesKept
  <2> QED BY <2>2, <2>4, <2>5, <2>7
<1> QED BY <1>2, <1>3, <1>4, <1>5, <1>6, <1>7, <1>8 DEF RequestOK

(* An entry as it is written: what it holds, unless it has a file's name.   *)
LEMMA Recorded ==
  ASSUME RequestOK, pc = "main", NEW i \in DOMAIN list
  PROVE  /\ Record(list[i]) \in SavedEntry
         /\ Record(list[i]).attr = sent[i].attr /\ Record(list[i]).file = sent[i].file
         /\ Record(list[i]).size = Len(sent[i].body)
         /\ i \in Genuine =>
              /\ Holds(Record(list[i])) = Contents[i]
              /\ Record(list[i]).flag =>
                   Record(list[i]).file
                     /\ (bad \cap {"open", "write", "flush"} = {} => Record(list[i]).data = sent[i].body)
<1> DEFINE e == list[i]
           k == cgiFormEntryFindFirst(list, e.attr)
<1>1. /\ list \in Seq(FormEntry) /\ Len(list) \in Nat /\ DOMAIN list = 1 .. Len(list)
      /\ temps \in [DOMAIN temps -> Seq(Nat)] /\ DOMAIN temps = Listed
      /\ \A j \in DOMAIN list : list[j].attr = sent[j].attr /\ list[j].file = sent[j].file
      /\ e.size = Len(sent[i].body)
      /\ \A j \in DOMAIN list :
           list[j].temp # 0 /\ j \in Genuine =>
             list[j].file /\ (bad \cap {"open", "write", "flush"} = {} => temps[list[j].temp] = sent[j].body)
      /\ Len(sent) \in Nat /\ DOMAIN sent = 1 .. Len(sent) /\ Len(list) <= Len(sent)
  BY DEF RequestOK, RequestTypes, Owned, Listing, FilesKept
<1>2. /\ e.attr \in Nat /\ e.value \in Seq(Nat) /\ e.size \in Nat /\ e.file \in BOOLEAN /\ e.temp \in Nat
  BY <1>1, EntryOf
<1>3. k \in DOMAIN list /\ list[k].attr = e.attr
  <2>1. /\ k \in 1 .. Len(list) + 1
        /\ k <= Len(list) => list[k].attr = e.attr
        /\ \A j \in 1 .. Len(list) : list[j].attr = e.attr => k <= j
    BY <1>1, FirstEntry
  <2>2. k <= i
    BY <1>1, <2>1
  <2> HIDE DEF k
  <2> QED BY <1>1, <2>1, <2>2
<1>4. IsFile(list, e.attr) <=> list[k].temp # 0
  BY <1>3 DEF IsFile
<1>5. list[k].temp # 0 => FileOf(list, e.attr) = temps[list[k].temp] /\ temps[list[k].temp] \in Seq(Nat)
  BY <1>1, <1>3 DEF FileOf, Listed
<1>6. /\ Record(e).attr = e.attr /\ Record(e).value = e.value /\ Record(e).size = e.size
      /\ Record(e).file = e.file /\ Record(e).flag = (list[k].temp # 0)
      /\ Record(e).data = IF list[k].temp # 0 THEN temps[list[k].temp] ELSE <<>>
  BY <1>4, <1>5 DEF Record, IsFile
<1>7. Record(e) \in SavedEntry
  BY <1>2, <1>4, <1>5 DEF IsFile, Record, SavedEntry
<1>8. ASSUME i \in Genuine
      PROVE  list[k].temp = e.temp
  <2>1. CASE k # i
    <3>1. i \in DOMAIN sent /\ k \in DOMAIN sent /\ k < i /\ sent[k].attr = sent[i].attr
      BY <1>1, <1>3, <2>1, FirstEntry
    <3>2. NamesakesAreFields
      BY <1>8, <3>1 DEF Genuine
    <3>3. i \in Genuine /\ k \in Genuine
      BY <3>1, <3>2 DEF Genuine
    <3>4. ~e.file /\ ~list[k].file
      BY <1>1, <1>3, <2>1, <3>1, <3>2 DEF NamesakesAreFields
    <3> QED BY <1>1, <1>3, <3>3, <3>4
  <2> QED BY <2>1
<1> HIDE DEF k
<1>9. Contents[i] = [attr |-> e.attr, value |-> e.value, file |-> e.file,
                     data |-> IF e.temp = 0 THEN <<>> ELSE temps[e.temp]]
  BY DEF Contents
<1>10. ASSUME i \in Genuine
       PROVE  /\ Holds(Record(e)) = Contents[i]
              /\ Record(e).flag =>
                   Record(e).file
                     /\ (bad \cap {"open", "write", "flush"} = {} => Record(e).data = sent[i].body)
  BY <1>6, <1>8, <1>10, <1>1, <1>9 DEF Holds
<1> QED BY <1>1, <1>6, <1>7, <1>10

(* What the entries hold is a sequence as long as they are.                 *)
LEMMA ContentsTyped ==
  ASSUME RequestOK, pc = "main"
  PROVE  Contents \in Seq(HeldEntry) /\ Len(Contents) = Len(list)
<1>1. /\ list \in Seq(FormEntry) /\ Len(list) \in Nat /\ DOMAIN list = 1 .. Len(list)
      /\ temps \in [DOMAIN temps -> Seq(Nat)] /\ DOMAIN temps = Listed
  BY DEF RequestOK, RequestTypes, Owned
<1>2. ASSUME NEW i \in DOMAIN list PROVE Contents[i] \in HeldEntry
  BY <1>1, EntryOf DEF Listed, Contents, HeldEntry
<1>3. Contents \in [1 .. Len(list) -> HeldEntry]
  BY <1>1, <1>2 DEF Contents
<1> QED BY <1>1, <1>3

(* The records of a file that is reported as saved.                         *)
LEMMA RecordsSaved ==
  ASSUME RequestOK, pc = "main", NEW unread, NEW n \in 0 .. Len(list), NEW rs,
         rs = [i \in 1 .. n |-> IF i \in unread THEN Unopened(list[i]) ELSE Record(list[i])]
  PROVE  /\ rs \in Seq(SavedEntry) /\ Len(rs) = n /\ DOMAIN rs = 1 .. n /\ n \in Nat
         /\ n <= Len(list) /\ n <= Len(sent) /\ Len(list) \in Nat /\ DOMAIN list = 1 .. Len(list)
         /\ \A i \in 1 .. n :
              /\ rs[i].attr = sent[i].attr /\ rs[i].file = sent[i].file /\ rs[i].size = Len(sent[i].body)
              /\ i \in Genuine /\ rs[i].flag =>
                   rs[i].file /\ (bad \cap {"open", "write", "flush"} = {} => rs[i].data = sent[i].body)
              /\ i \in Genuine /\ i \notin unread => Holds(rs[i]) = Contents[i]
<1>1. /\ n \in Nat /\ n <= Len(list) /\ n <= Len(sent) /\ Len(list) \in Nat
      /\ DOMAIN list = 1 .. Len(list) /\ \A i \in 1 .. n : i \in DOMAIN list
  BY DEF RequestOK, RequestTypes, Listing
<1>2. ASSUME NEW i \in 1 .. n
      PROVE  /\ rs[i] \in SavedEntry
             /\ rs[i].attr = sent[i].attr /\ rs[i].file = sent[i].file /\ rs[i].size = Len(sent[i].body)
             /\ i \in Genuine /\ rs[i].flag =>
                  rs[i].file /\ (bad \cap {"open", "write", "flush"} = {} => rs[i].data = sent[i].body)
             /\ i \in Genuine /\ i \notin unread => Holds(rs[i]) = Contents[i]
  <2>1. i \in DOMAIN list
    BY <1>1
  <2>2. CASE i \notin unread
    <3>1. rs[i] = Record(list[i])
      BY <2>2
    <3> QED BY <2>1, <3>1, Recorded
  <2>3. CASE i \in unread
    <3>1. rs[i] = [Record(list[i]) EXCEPT !.flag = FALSE, !.data = <<>>]
      <4>1. rs[i] = Unopened(list[i])
        BY <2>3
      <4> QED BY <4>1, Zenon DEF Unopened
    <3>2. Record(list[i]) \in SavedEntry
      BY <2>1, Recorded
    <3>3. /\ rs[i] \in SavedEntry /\ rs[i].flag = FALSE /\ rs[i].attr = Record(list[i]).attr
          /\ rs[i].file = Record(list[i]).file /\ rs[i].size = Record(list[i]).size
      <4>1. <<>> \in Seq(Nat)
        OBVIOUS
      <4> QED BY <3>1, <3>2, <4>1 DEF SavedEntry
    <3> QED BY <2>1, <2>3, <3>3, Recorded
  <2> QED BY <2>2, <2>3
<1>3. rs \in Seq(SavedEntry) /\ Len(rs) = n /\ DOMAIN rs = 1 .. n
  <2>1. DOMAIN rs = 1 .. n /\ rs \in [1 .. n -> SavedEntry]
    BY <1>2
  <2> QED BY <1>1, <2>1
<1> QED BY <1>1, <1>2, <1>3

(* cgiWriteEnvironment, whatever it finds out of what fails.                *)
LEMMA WriteStep ==
  ASSUME RequestOK, cgiWriteEnvironment
  PROVE  RequestOK'
<1>1. /\ UNCHANGED <<sent, multipart, todo, cur, list, freed, temps, serial, env, restored, target>>
      /\ bad \subseteq bad' /\ pc = "main"
      /\ SaveFails \/ SaveSucceeds \/ SaveStrays
  BY DEF cgiWriteEnvironment, SaveFails, SaveSucceeds, SaveStrays, form, store
<1>2. /\ Listing' /\ NamesakesAreFields' = NamesakesAreFields /\ Genuine' = Genuine /\ Listed' = Listed
      /\ FreedOnce' /\ Contents' = Contents
  BY <1>1 DEF RequestOK, Listing, NamesakesAreFields, Genuine, Listed, FreedOnce, Contents
<1>3. pc' = "main" \/ (pc' = "undefined" /\ SaveStrays)
  BY <1>1 DEF SaveFails, SaveSucceeds, SaveStrays
<1>4. Numbered' /\ InTurn' /\ Multipart' /\ Stored' /\ Owned'
  BY <1>1, <1>2, <1>3 DEF RequestOK, Numbered, InTurn, Multipart, Stored, Owned, NoTempLeft, Parsing, Storing
<1>5. FilesKept'
  BY <1>1, <1>2, <1>3 DEF RequestOK, FilesKept, Parsing
<1>6. Environment'
  BY <1>1, <1>3 DEF RequestOK, Environment, EnvironmentIsValid, Parsing
<1>7. StaysDefined'
  <2>1. CASE SaveStrays
    BY <1>1, <2>1 DEF SaveStrays, RequestOK, Environment, EnvironmentIsValid, StaysDefined
  <2> QED BY <1>3, <2>1 DEF StaysDefined
<1>8. UpdateIsWhole'
  BY <1>1, UpdateStays DEF RequestOK
<1>9. CASE shot' = shot /\ saved' \in {saved, None}
  <2>1. SavedRight' /\ ShotSaved'
    BY <1>1, <1>2, <1>9 DEF RequestOK, SavedRight, ShotSaved, Holds
  <2>2. RequestTypes'
    BY <1>1, <1>3, <1>9 DEF RequestOK, RequestTypes
  <2>3. RestoredRight'
    BY <1>1, <1>2, <1>3, <1>9 DEF RequestOK, RestoredRight, Parsing
  <2> QED BY <1>2, <1>4, <1>5, <1>6, <1>7, <1>8, <2>1, <2>2, <2>3 DEF RequestOK
<1>10. CASE SaveSucceeds
  <2>1. PICK unread \in SUBSET {i \in DOMAIN list : IsFile(list, list[i].attr)},
             n \in 0 .. Len(list), whole \in BOOLEAN, step \in BOOLEAN :
          /\ n = Len(list) => whole
          /\ saved' = [entries |-> [i \in 1 .. n |-> IF i \in unread THEN Unopened(list[i]) ELSE Record(list[i])],
                       whole |-> whole, step |-> step]
          /\ bad' = bad \cup Happened([lost |-> unread # {}, close |-> n < Len(list), length |-> ~step])
    BY <1>10 DEF SaveSucceeds
  <2>2. shot' = Contents /\ pc' = pc
    BY <1>10 DEF SaveSucceeds
  <2>3. /\ unread # {} => "lost" \in bad'
        /\ n < Len(list) => "close" \in bad'
        /\ ~step => "length" \in bad'
    BY <2>1 DEF Happened
  <2> DEFINE rs == [i \in 1 .. n |-> IF i \in unread THEN Unopened(list[i]) ELSE Record(list[i])]
  <2>4. /\ rs = [i \in 1 .. n |-> IF i \in unread THEN Unopened(list[i]) ELSE Record(list[i])]
        /\ saved' = [entries |-> rs, whole |-> whole, step |-> step]
    BY <2>1
  <2> HIDE DEF rs
  <2>5. /\ rs \in Seq(SavedEntry) /\ Len(rs) = n /\ DOMAIN rs = 1 .. n /\ n \in Nat
        /\ n <= Len(list) /\ n <= Len(sent) /\ Len(list) \in Nat /\ DOMAIN list = 1 .. Len(list)
        /\ \A i \in 1 .. n :
             /\ rs[i].attr = sent[i].attr /\ rs[i].file = sent[i].file /\ rs[i].size = Len(sent[i].body)
             /\ i \in Genuine /\ rs[i].flag =>
                  rs[i].file /\ (bad \cap {"open", "write", "flush"} = {} => rs[i].data = sent[i].body)
             /\ i \in Genuine /\ i \notin unread => Holds(rs[i]) = Contents[i]
    BY <1>1, <2>4, RecordsSaved
  <2>6. saved' \in SavedFile /\ saved'.entries = rs /\ saved'.step = step
    BY <2>5, <2>4 DEF SavedFile
  <2>7. RequestTypes'
    BY <1>1, <2>2, <2>6, ContentsTyped DEF RequestOK, RequestTypes
  <2>8. SavedRight'
    BY <1>1, <1>2, <2>3, <2>5, <2>6 DEF SavedRight
  <2>9. Len(shot') = Len(list) /\ shot' = Contents
    BY <1>1, <2>2, ContentsTyped
  <2>10. ShotSaved'
    <3>1. NamesakesAreFields => \A i \in 1 .. n : i \in Genuine
      BY <2>5 DEF Genuine, RequestOK, RequestTypes
    <3>2. NamesakesAreFields /\ "lost" \notin bad' => \A i \in DOMAIN rs : Holds(rs[i]) = shot'[i]
      BY <2>3, <2>5, <2>9, <3>1
    <3> QED BY <1>2, <2>3, <2>5, <2>6, <2>9, <3>2 DEF ShotSaved, Holds
  <2>11. RestoredRight'
    BY <1>1, <1>2, <2>2, <2>5, <2>9 DEF RequestOK, RestoredRight, Parsing
  <2> QED BY <1>2, <1>4, <1>5, <1>6, <1>7, <1>8, <2>7, <2>8, <2>10, <2>11 DEF RequestOK
<1> QED BY <1>1, <1>9, <1>10 DEF SaveFails, SaveStrays
-------------------------------------------------------------------------------
(* Everything was given back, and nothing was restored.                     *)
LEMMA EmptyStep ==
  ASSUME RequestOK, pc = "main", bad \subseteq bad', list' = <<>>, temps' = Unlinked(Listed),
         restored' = FALSE, pc' = "main",
         bad' \cap {"again", "string"} = {} => env' \in {"environment", "heap"},
         UNCHANGED <<sent, multipart, todo, cur, freed, serial, saved, shot, target>>
  PROVE  RequestOK'
<1>1. SavedRight' /\ ShotSaved' /\ NamesakesAreFields' = NamesakesAreFields
  BY SavedStays
<1>2. UpdateIsWhole'
  BY UpdateStays DEF RequestOK
<1>3. FreedOnce'
  BY DEF RequestOK, FreedOnce
<1>4. DOMAIN temps' = {} /\ temps' \in [DOMAIN temps' -> Seq(Nat)]
  BY DEF RequestOK, Owned, Unlinked
<1>5. list' \in Seq(FormEntry) /\ DOMAIN list' = {} /\ Len(list') = 0
  OBVIOUS
<1>6. RequestTypes' /\ InTurn' /\ Multipart' /\ Stored'
  BY <1>4, <1>5 DEF RequestOK, RequestTypes, InTurn, Multipart, Stored, Parsing, Storing
<1>7. Numbered'
  BY <1>4, <1>5 DEF Numbered, Storing
<1>8. Listing'
  BY <1>5 DEF RequestOK, RequestTypes, Listing
<1>9. Owned'
  BY <1>5, <1>4 DEF Listed, Owned, NoTempLeft, Storing
<1>10. FilesKept'
  BY <1>5 DEF FilesKept
<1>11. RestoredRight' /\ Environment' /\ StaysDefined'
  BY DEF RestoredRight, Environment, EnvironmentIsValid, StaysDefined, Parsing
<1> QED BY <1>1, <1>2, <1>3, <1>6, <1>7, <1>8, <1>9, <1>10, <1>11 DEF RequestOK

(* The records of a saved environment.                                      *)
LEMMA SavedTyped ==
  ASSUME RequestOK, saved # None
  PROVE  /\ serial \in Nat /\ saved.entries \in Seq(SavedEntry) /\ Len(saved.entries) \in Nat
         /\ DOMAIN saved.entries = 1 .. Len(saved.entries) /\ Len(saved.entries) <= Len(sent)
         /\ \A i \in DOMAIN saved.entries :
              LET r == saved.entries[i]
              IN  /\ r.attr \in Nat /\ r.value \in Seq(Nat) /\ r.size \in Nat
                  /\ r.file \in BOOLEAN /\ r.flag \in BOOLEAN /\ r.data \in Seq(Nat)
                  /\ i \in Nat /\ i >= 1 /\ i <= Len(saved.entries)
                  /\ serial + i \in Nat /\ serial + i # 0 /\ serial + i > serial /\ (serial + i) - serial = i
<1> DEFINE rs == saved.entries
<1>1. /\ serial \in Nat /\ rs \in Seq(SavedEntry) /\ Len(rs) \in Nat /\ DOMAIN rs = 1 .. Len(rs)
      /\ Len(rs) <= Len(sent)
  BY DEF RequestOK, RequestTypes, SavedFile, SavedRight
<1> HIDE DEF rs
<1>2. ASSUME NEW i \in DOMAIN rs
      PROVE  /\ rs[i].attr \in Nat /\ rs[i].value \in Seq(Nat) /\ rs[i].size \in Nat
             /\ rs[i].file \in BOOLEAN /\ rs[i].flag \in BOOLEAN /\ rs[i].data \in Seq(Nat)
             /\ i \in Nat /\ i >= 1 /\ i <= Len(rs)
             /\ serial + i \in Nat /\ serial + i # 0 /\ serial + i > serial /\ (serial + i) - serial = i
  <2>1. rs[i] \in SavedEntry
    BY <1>1
  <2>2. i \in Nat /\ i >= 1 /\ i <= Len(rs)
    BY <1>1
  <2>3. serial + i \in Nat /\ serial + i # 0 /\ serial + i > serial /\ (serial + i) - serial = i
    BY <1>1, <2>2
  <2> QED BY <2>1, <2>2, <2>3 DEF SavedEntry
<1> QED BY <1>1, <1>2 DEF rs

(* The restored entries are those of the first records.                     *)
LEMMA EntriesReread ==
  ASSUME RequestOK, saved # None, NEW n \in 0 .. Len(saved.entries), NEW l,
         l = [i \in 1 .. n |-> Reread(saved.entries[i], serial + i)]
  PROVE  /\ l \in Seq(FormEntry) /\ DOMAIN l = 1 .. n /\ Len(l) = n
         /\ \A i \in 1 .. n :
              LET r == saved.entries[i]
              IN  /\ l[i].attr = r.attr /\ l[i].value = r.value /\ l[i].size = r.size
                  /\ l[i].file = r.file /\ l[i].temp = IF r.flag THEN serial + i ELSE 0
<1> DEFINE rs == saved.entries
<1>1. n \in Nat /\ \A i \in 1 .. n : i \in DOMAIN rs
  BY SavedTyped
<1>2. ASSUME NEW i \in 1 .. n
      PROVE  /\ l[i] \in FormEntry
             /\ l[i].attr = rs[i].attr /\ l[i].value = rs[i].value /\ l[i].size = rs[i].size
             /\ l[i].file = rs[i].file /\ l[i].temp = IF rs[i].flag THEN serial + i ELSE 0
  BY <1>1, SavedTyped DEF Reread, FormEntry
<1>3. l \in [1 .. n -> FormEntry]
  BY <1>2
<1>4. l \in Seq(FormEntry) /\ DOMAIN l = 1 .. n /\ Len(l) = n
  BY <1>1, <1>3
<1> QED BY <1>2, <1>4

(* And their contents are those that the records have, if nothing is lost.  *)
LEMMA FilesReread ==
  ASSUME RequestOK, pc = "main", saved # None, NEW n \in 0 .. Len(saved.entries), NEW short
  PROVE  /\ DOMAIN Refilled(n, short) = Made(n)
         /\ short \subseteq {i \in 1 .. n : saved.entries[i].flag /\ saved.entries[i].data # <<>>} =>
              Refilled(n, short) \in [Made(n) -> Seq(Nat)]
         /\ \A i \in 1 .. n :
              saved.entries[i].flag =>
                /\ serial + i \in Made(n)
                /\ i \notin short => Refilled(n, short)[serial + i] = saved.entries[i].data
<1> DEFINE rs == saved.entries
           f == Refilled(n, short)
<1>1. DOMAIN f = Made(n) /\ f = [t \in Made(n) |-> f[t]]
  BY DEF RequestOK, Owned, Refilled
<1>2. \A i \in 1 .. n : /\ i \in DOMAIN rs /\ serial \in Nat /\ serial + i \in Nat
                        /\ ~(serial + i <= serial) /\ (serial + i) - serial = i
  BY SavedTyped
<1>3. ASSUME NEW i \in 1 .. n, rs[i].flag
      PROVE  /\ serial + i \in Made(n)
             /\ f[serial + i] = IF i \in short THEN Front(rs[i].data) ELSE rs[i].data
  <2>1. serial + i \in Made(n)
    BY <1>3 DEF Made
  <2>2. f[serial + i] = IF serial + i <= serial THEN temps[serial + i]
                        ELSE IF (serial + i) - serial \in short THEN Front(rs[(serial + i) - serial].data)
                        ELSE rs[(serial + i) - serial].data
    BY <2>1 DEF Refilled
  <2> QED BY <1>2, <2>1, <2>2
<1>4. ASSUME short \subseteq {i \in 1 .. n : rs[i].flag /\ rs[i].data # <<>>}, NEW t \in Made(n)
      PROVE  f[t] \in Seq(Nat)
  <2>1. PICK i \in 1 .. n : rs[i].flag /\ t = serial + i
    BY DEF Made
  <2>2. rs[i].data \in Seq(Nat)
    BY <1>2, SavedTyped
  <2>3. \A d \in Seq(Nat) : d # <<>> => Front(d) \in Seq(Nat)
    BY DEF Front
  <2>4. f[t] = IF i \in short THEN Front(rs[i].data) ELSE rs[i].data
    BY <1>3, <2>1
  <2>5. i \in short => rs[i].data # <<>>
    BY <1>4
  <2> HIDE DEF f, rs
  <2> QED BY <2>2, <2>3, <2>4, <2>5
<1> HIDE DEF f
<1>5. short \subseteq {i \in 1 .. n : rs[i].flag /\ rs[i].data # <<>>} => f \in [Made(n) -> Seq(Nat)]
  BY <1>1, <1>4
<1> QED BY <1>1, <1>3, <1>5 DEF f

(* The environment is as it was saved, or the first of it is.               *)
LEMMA RestoreStep ==
  ASSUME RequestOK, pc = "main", saved # None, NEW n \in 0 .. Len(saved.entries),
         list' \in Seq(FormEntry) /\ DOMAIN list' = 1 .. n /\ Len(list') = n,
         \A i \in 1 .. n :
           LET r == saved.entries[i]
           IN  /\ list'[i].attr = r.attr /\ list'[i].value = r.value /\ list'[i].size = r.size
               /\ list'[i].file = r.file /\ list'[i].temp = IF r.flag THEN serial + i ELSE 0,
         DOMAIN temps' = Made(n) /\ temps' \in [Made(n) -> Seq(Nat)],
         \A i \in 1 .. n :
           saved.entries[i].flag =>
             serial + i \in Made(n) /\ ("flush" \in bad' \/ temps'[serial + i] = saved.entries[i].data),
         bad \subseteq bad', n < Len(saved.entries) => "attr" \in bad',
         serial' = serial + n, env' = "heap", restored' = TRUE,
         UNCHANGED <<sent, multipart, pc, todo, cur, freed, saved, shot, target>>
  PROVE  RequestOK'
<1> DEFINE rs == saved.entries
<1>1. SavedRight' /\ ShotSaved' /\ NamesakesAreFields' = NamesakesAreFields /\ Genuine' = Genuine
  BY SavedStays
<1>2. UpdateIsWhole'
  BY UpdateStays DEF RequestOK
<1>3. FreedOnce'
  BY DEF RequestOK, FreedOnce
<1>4. /\ serial \in Nat /\ Len(rs) \in Nat /\ DOMAIN rs = 1 .. Len(rs) /\ Len(rs) <= Len(sent)
      /\ n \in Nat /\ n <= Len(rs) /\ \A i \in 1 .. n : i \in DOMAIN rs
      /\ Len(sent) \in Nat /\ n <= Len(sent)
  BY SavedTyped DEF RequestOK, RequestTypes
<1>5. \A i \in 1 .. n : /\ i \in Nat /\ i >= 1 /\ i <= n /\ serial + i # 0
                        /\ rs[i].flag \in BOOLEAN
  BY <1>4, SavedTyped
<1>6. \A i \in DOMAIN list' : /\ list'[i].temp = IF rs[i].flag THEN serial + i ELSE 0
                              /\ i \in 1 .. n
  OBVIOUS
<1>7. Listed' = Made(n)
  <2>1. Listed' = {list'[i].temp : i \in DOMAIN list'} \ {0}
    BY DEF Listed
  <2>2. ASSUME NEW t \in Made(n) PROVE t \in Listed'
    <3>1. PICK i \in 1 .. n : rs[i].flag /\ t = serial + i
      BY DEF Made
    <3>2. i \in DOMAIN list' /\ list'[i].temp = t /\ t # 0
      BY <1>5, <1>6, <3>1
    <3> HIDE DEF rs
    <3> QED BY <2>1, <3>2
  <2>3. ASSUME NEW t \in Listed' PROVE t \in Made(n)
    <3>1. PICK i \in DOMAIN list' : t = list'[i].temp /\ t # 0
      BY <2>1
    <3>2. i \in 1 .. n /\ rs[i].flag /\ t = serial + i
      BY <1>6, <3>1
    <3> QED BY <3>2 DEF Made
  <2> QED BY <2>2, <2>3
<1>12. RequestTypes' /\ InTurn' /\ Multipart' /\ Stored'
  BY <1>4 DEF RequestOK, RequestTypes, InTurn, Multipart, Stored, Parsing, Storing
<1>13. Numbered'
  <2>1. ASSUME NEW t \in Made(n) PROVE t \in 1 .. serial'
    <3>1. PICK i \in 1 .. n : rs[i].flag /\ t = serial + i
      BY DEF Made
    <3>2. i \in Nat /\ i >= 1 /\ i <= n /\ serial' = serial + n
      BY <1>5
    <3> HIDE DEF rs
    <3> QED BY <1>4, <3>1, <3>2
  <2>2. ASSUME NEW i \in DOMAIN list' PROVE list'[i].temp <= serial'
    BY <1>5, <1>6, <1>4
  <2> QED BY <2>1, <2>2 DEF Numbered, Storing
<1>14. Listing'
  BY <1>6, <1>4 DEF RequestOK, SavedRight, Listing
<1>15. Owned'
  BY <1>5, <1>6, <1>4, <1>7 DEF Owned, NoTempLeft, Storing
<1>16. FilesKept'
  <2>1. SUFFICES ASSUME NEW i \in DOMAIN list', list'[i].temp # 0, i \in Genuine
                 PROVE  /\ list'[i].file
                        /\ bad' \cap {"open", "write", "flush"} = {} => temps'[list'[i].temp] = sent[i].body
    BY <1>1 DEF FilesKept
  <2>2. /\ i \in 1 .. n /\ i \in DOMAIN rs /\ rs[i].flag /\ list'[i].temp = serial + i
        /\ list'[i].file = rs[i].file
    BY <1>4, <1>6, <2>1
  <2>3. "flush" \in bad' \/ temps'[serial + i] = rs[i].data
    BY <2>2
  <2>4. rs[i].file /\ (bad \cap {"open", "write", "flush"} = {} => rs[i].data = sent[i].body)
    BY <2>1, <2>2 DEF RequestOK, SavedRight
  <2> QED BY <2>2, <2>3, <2>4
<1>17. RestoredRight'
  <2>1. SUFFICES ASSUME NamesakesAreFields, bad' \cap {"lost", "flush"} = {}
                 PROVE  /\ n <= Len(shot) /\ \A i \in 1 .. n : Contents'[i] = shot[i]
                        /\ bad' \cap {"close", "attr"} = {} => n = Len(shot)
    BY <1>1 DEF RestoredRight, Parsing
  <2>2. /\ Len(rs) <= Len(shot) /\ \A i \in DOMAIN rs : Holds(rs[i]) = shot[i]
        /\ "close" \notin bad => Len(rs) = Len(shot)
    BY <2>1 DEF RequestOK, ShotSaved
  <2>3. ASSUME NEW i \in 1 .. n PROVE Contents'[i] = Holds(rs[i])
    BY <1>5, <1>6, <2>1 DEF Contents, Holds
  <2>4. Len(shot) \in Nat
    BY DEF RequestOK, RequestTypes
  <2> HIDE DEF rs
  <2>5. \A i \in 1 .. n : Contents'[i] = shot[i]
    BY <1>4, <2>2, <2>3, Zenon
  <2>6. "close" \notin bad' /\ "attr" \notin bad' => n = Len(rs) /\ Len(rs) = Len(shot)
    <3>1. "attr" \notin bad' => ~(n < Len(rs))
      BY DEF rs
    <3> DEFINE k == Len(rs)
    <3>2. n \in Nat /\ k \in Nat /\ n <= k
      BY <1>4
    <3>3. "attr" \notin bad' => ~(n < k)
      BY <3>1
    <3>4. "close" \notin bad' => Len(rs) = Len(shot)
      BY <1>4, <2>2
    <3> HIDE DEF k
    <3>5. "attr" \notin bad' => n = k
      BY <3>2, <3>3
    <3> QED BY <3>4, <3>5 DEF k
  <2> DEFINE k == Len(rs)
             m == Len(shot)
  <2>7. n \in Nat /\ k \in Nat /\ m \in Nat /\ n <= k /\ k <= m
    BY <1>4, <2>2, <2>4
  <2> HIDE DEF k, m
  <2>8. n <= m
    BY <2>7
  <2> QED BY <2>5, <2>6, <2>8 DEF k, m
<1>18. Environment' /\ StaysDefined'
  BY DEF RequestOK, Environment, EnvironmentIsValid, StaysDefined, Parsing
<1> QED BY <1>1, <1>2, <1>3, <1>12, <1>13, <1>14, <1>15, <1>16, <1>17, <1>18 DEF RequestOK

(* cgiReadEnvironment restores the environment, or fails, or is led astray. *)
LEMMA ReadStep ==
  ASSUME RequestOK, cgiReadEnvironment
  PROVE  RequestOK'
<1> DEFINE rs == saved.entries
<1>1. /\ pc = "main"
      /\ UNCHANGED <<sent, multipart, todo, cur, freed, saved, shot, target>>
  BY DEF cgiReadEnvironment, form
<1>2. CASE RestoreSucceeds
  <2> DEFINE Reads(n, short) ==
          /\ list' = [i \in 1 .. n |-> Reread(rs[i], serial + i)]
          /\ temps' = [t \in (DOMAIN temps \ Listed) \cup {serial + i : i \in {j \in 1 .. n : rs[j].flag}} |->
                         IF t <= serial THEN temps[t]
                         ELSE IF t - serial \in short THEN Front(rs[t - serial].data)
                         ELSE rs[t - serial].data]
          /\ serial' = serial + n
          /\ bad' = bad \cup Happened([attr |-> n < Len(rs) \/ ~saved.whole, flush |-> short # {}])
  <2>0. PICK n \in 0 .. Len(rs) :
          \E short \in SUBSET {i \in 1 .. n : rs[i].flag /\ rs[i].data # <<>>} : Reads(n, short)
    BY <1>2 DEF RestoreSucceeds
  <2>1. PICK short \in SUBSET {i \in 1 .. n : rs[i].flag /\ rs[i].data # <<>>} : Reads(n, short)
    BY <2>0
  <2>2. saved # None /\ env' = "heap" /\ restored' = TRUE /\ UNCHANGED pc
    BY <1>2 DEF RestoreSucceeds
  <2>3. /\ bad \subseteq bad' /\ (n < Len(rs) => "attr" \in bad')
        /\ short # {} => "flush" \in bad'
    BY <2>1 DEF Happened
  <2>4. /\ list' \in Seq(FormEntry) /\ DOMAIN list' = 1 .. n /\ Len(list') = n
        /\ \A i \in 1 .. n :
             /\ list'[i].attr = rs[i].attr /\ list'[i].value = rs[i].value /\ list'[i].size = rs[i].size
             /\ list'[i].file = rs[i].file /\ list'[i].temp = IF rs[i].flag THEN serial + i ELSE 0
    BY <2>1, <2>2, EntriesReread
  <2>5. /\ DOMAIN temps' = Made(n) /\ temps' \in [Made(n) -> Seq(Nat)]
        /\ \A i \in 1 .. n :
             rs[i].flag => serial + i \in Made(n) /\ (i \notin short => temps'[serial + i] = rs[i].data)
    <3>1. temps' = Refilled(n, short)
      BY <2>1 DEF Made, Refilled
    <3> HIDE DEF Reads
    <3> QED BY <1>1, <2>2, <3>1, FilesReread
  <2>6. \A i \in 1 .. n :
          rs[i].flag => serial + i \in Made(n) /\ ("flush" \in bad' \/ temps'[serial + i] = rs[i].data)
    BY <2>3, <2>5
  <2> QED BY <1>1, <2>1, <2>2, <2>3, <2>4, <2>5, <2>6, RestoreStep
<1>3. CASE RestoreLosesString \/ RestoreLosesEntry
  BY <1>1, <1>3, EmptyStep DEF RestoreLosesString, RestoreLosesEntry
<1>4. CASE RestoreFails
  <2>1. /\ list' = <<>> /\ temps' = Unlinked(Listed) /\ restored' = FALSE /\ pc' = "main" /\ serial' = serial
        /\ env' = (IF restored THEN "freed" ELSE env)
        /\ bad \subseteq bad' /\ (restored => "again" \in bad')
    BY <1>1, <1>4 DEF RestoreFails, cgiFreeResources, Happened
  <2>2. bad' \cap {"again", "string"} = {} => env' \in {"environment", "heap"}
    BY <1>1, <2>1 DEF RequestOK, Environment, EnvironmentIsValid
  <2> QED BY <1>1, <2>1, <2>2, EmptyStep
<1>5. CASE RestoreStrays
  <2>0. saved # None /\ ~InStep /\ pc' = "undefined" /\ UNCHANGED <<list, temps, serial, env, restored, bad>>
    BY <1>5 DEF RestoreStrays
  <2>1. /\ Listing' /\ SavedRight' /\ ShotSaved' /\ FreedOnce'
        /\ NamesakesAreFields' = NamesakesAreFields /\ Contents' = Contents
    BY <1>1, <2>0, StoreStays
  <2>2. UpdateIsWhole'
    BY <1>1, <2>0, UpdateStays DEF RequestOK
  <2>3. RequestTypes' /\ Numbered' /\ InTurn' /\ Multipart' /\ Stored'
    BY <1>1, <2>0 DEF RequestOK, RequestTypes, Numbered, InTurn, Multipart, Stored, Parsing, Storing
  <2>4. Owned' /\ FilesKept'
    BY <2>0 DEF RequestOK, Owned, NoTempLeft, FilesKept, Storing, Parsing
  <2>5. RestoredRight' /\ Environment'
    BY <1>1, <2>0, <2>1 DEF RequestOK, RestoredRight, Environment, EnvironmentIsValid, Parsing
  <2>6. StaysDefined'
    <3>1. CASE ~saved.step
      BY <2>0, <3>1 DEF RequestOK, SavedRight, StaysDefined
    <3>2. CASE saved.step
      <4>1. PICK i \in DOMAIN rs : rs[i].flag /\ Len(rs[i].data) # rs[i].size
        BY <2>0, <3>2 DEF InStep
      <4>2. NamesakesAreFields => i \in Genuine
        BY <2>0, SavedTyped DEF Genuine, RequestOK, RequestTypes
      <4>3. bad \cap {"open", "write", "flush"} # {} \/ ~NamesakesAreFields
        BY <2>0, <4>1, <4>2 DEF RequestOK, SavedRight
      <4> QED BY <2>0, <2>1, <4>3 DEF StaysDefined
    <3> QED BY <3>1, <3>2
  <2> QED BY <2>1, <2>2, <2>3, <2>4, <2>5, <2>6 DEF RequestOK
<1> QED BY <1>2, <1>3, <1>4, <1>5 DEF cgiReadEnvironment
-------------------------------------------------------------------------------
(* RequestOK is inductive.                                                  *)
LEMMA RequestHolds == Spec => []RequestOK
<1>1. Init => RequestOK
  <2> SUFFICES ASSUME Init PROVE RequestOK
    OBVIOUS
  <2>1. /\ sent \in Seq(Part) /\ multipart \in BOOLEAN
        /\ (\E i \in DOMAIN sent : sent[i].file \/ sent[i].odd) => multipart
    <3>1. CASE /\ sent \in Uploads /\ multipart \in BOOLEAN
               /\ (\E i \in DOMAIN sent : sent[i].file \/ sent[i].odd) => multipart
      BY <3>1, RequestAssumption
    <3>2. CASE sent = <<>> /\ multipart = FALSE
      <4>1. sent \in Seq(Part) /\ DOMAIN sent = {}
        BY <3>2
      <4> QED BY <3>2, <4>1
    <3> QED BY <3>1, <3>2 DEF Init
  <2>3. /\ todo = sent /\ pc = "parse" /\ cur = NoPart /\ list = <<>> /\ freed = {} /\ temps = <<>>
        /\ serial = 0 /\ env = "environment" /\ restored = FALSE /\ saved = None /\ target = None
        /\ bad = {} /\ shot = <<>>
    BY DEF Init
  <2>4. /\ <<>> \in Seq(FormEntry) /\ <<>> \in Seq(HeldEntry) /\ DOMAIN <<>> = {} /\ Len(<<>>) = 0
        /\ <<>> \in [DOMAIN <<>> -> Seq(Nat)] /\ NoPart \in [temp : Nat, open : BOOLEAN]
        /\ Len(sent) \in Nat
    BY <2>1 DEF NoPart
  <2>5. RequestTypes
    BY <2>1, <2>3, <2>4 DEF RequestTypes, Parsing
  <2>6. Numbered /\ Multipart /\ Stored
    BY <2>1, <2>3, <2>4 DEF Numbered, Multipart, Stored, Storing
  <2>7. InTurn /\ Listing
    BY <2>1, <2>3, <2>4 DEF InTurn, Listing, Storing
  <2>8. Owned /\ FilesKept
    BY <2>3, <2>4 DEF Owned, NoTempLeft, FilesKept, Listed, Storing
  <2>9. /\ SavedRight /\ ShotSaved /\ RestoredRight /\ Environment /\ FreedOnce /\ StaysDefined
        /\ UpdateIsWhole
    BY <2>3 DEF SavedRight, ShotSaved, RestoredRight, Environment, EnvironmentIsValid, FreedOnce,
       StaysDefined, UpdateIsWhole, Parsing
  <2> QED BY <2>5, <2>6, <2>7, <2>8, <2>9 DEF RequestOK
<1>2. RequestOK /\ [Next]_vars => RequestOK'
  <2> SUFFICES ASSUME RequestOK, [Next]_vars PROVE RequestOK'
    OBVIOUS
  <2>1. CASE UNCHANGED vars
    <3>1. /\ UNCHANGED <<sent, multipart, pc, todo, cur, list, freed, temps, serial, env, restored, saved,
                         target, shot, bad>>
      BY <2>1 DEF vars
    <3>2. /\ Listing' /\ SavedRight' /\ ShotSaved' /\ FreedOnce' /\ Listed' = Listed /\ Genuine' = Genuine
          /\ NamesakesAreFields' = NamesakesAreFields /\ Contents' = Contents
      BY <3>1, StoreStays
    <3>3. RequestTypes' /\ Numbered' /\ InTurn' /\ Multipart' /\ Stored'
      BY <3>1 DEF RequestOK, RequestTypes, Numbered, InTurn, Multipart, Stored
    <3>4. Owned' /\ FilesKept'
      BY <3>1, <3>2 DEF RequestOK, Owned, NoTempLeft, FilesKept
    <3>5. RestoredRight' /\ Environment' /\ StaysDefined'
      BY <3>1, <3>2 DEF RequestOK, RestoredRight, Environment, EnvironmentIsValid, StaysDefined
    <3>6. UpdateIsWhole'
      BY <3>1, UpdateStays DEF RequestOK
    <3> QED BY <3>2, <3>3, <3>4, <3>5, <3>6 DEF RequestOK
  <2>2. CASE \E p \in ToSet(sent) : updateFile(p.attr)
    BY <2>2, UpdateStep
  <2> QED BY <2>1, <2>2, QuietStep, BeginStep, TempStep, BodyStep, EntryStep, FreeStep, WriteStep, ReadStep
     DEF Next
<1> QED BY <1>1, <1>2, PTL DEF Spec

(* Whatever fails, each temporary file belongs to exactly one entry while   *)
(* cgiMain runs, and none is left at the end, but one that could be made    *)
(* and not be opened.                                                       *)
THEOREM TempFilesAreKept == Spec => []TempsAreKept
<1>1. RequestOK => TempsAreKept
  BY DEF RequestOK, Owned, TempsAreKept, TempsAreEntries
<1> QED BY <1>1, RequestHolds, PTL

(* main, the parsers, cgiWriteEnvironment and cgiReadEnvironment stay       *)
(* within what the language defines but for the ways that StaysDefined      *)
(* names, however often an environment is saved and restored.               *)
THEOREM LibraryStaysDefined == Spec => []StaysDefined
<1>1. RequestOK => StaysDefined
  BY DEF RequestOK
<1> QED BY <1>1, RequestHolds, PTL

(* cgiReadEnvironment restores what cgiWriteEnvironment saved last, to the  *)
(* last byte of every upload, or the first entries of it when the end of    *)
(* the saved file was lost or there was no memory for an entry's name.      *)
THEOREM RestoresWhatWasSaved == Spec => []RestoredIsSaved
<1>1. ASSUME RequestOK PROVE RestoredIsSaved
  <2>1. SUFFICES ASSUME restored, NamesakesAreFields, bad \cap {"lost", "flush"} = {}
                 PROVE  IsPrefix(Contents, shot) /\ (bad \cap {"close", "attr"} = {} => Contents = shot)
    BY DEF RestoredIsSaved
  <2> DEFINE n == Len(list)
             m == Len(shot)
             c == Contents
  <2>2. /\ n \in Nat /\ m \in Nat /\ DOMAIN list = 1 .. n /\ shot \in Seq(HeldEntry)
        /\ DOMAIN shot = 1 .. m
    BY <1>1 DEF RequestOK, RequestTypes
  <2>3. /\ Len(list) <= Len(shot) /\ \A i \in DOMAIN list : Contents[i] = shot[i]
        /\ bad \cap {"close", "attr"} = {} => Len(list) = Len(shot)
    BY <1>1, <2>1 DEF RequestOK, RestoredRight
  <2>4. /\ n <= m /\ \A i \in 1 .. n : c[i] = shot[i]
        /\ bad \cap {"close", "attr"} = {} => n = m
    BY <2>2, <2>3
  <2>5. DOMAIN c = 1 .. n /\ c = [i \in 1 .. n |-> c[i]]
    BY <2>2 DEF Contents
  <2> HIDE DEF n, m, c
  <2>6. c = [i \in 1 .. n |-> shot[i]]
    BY <2>4, <2>5
  <2>7. \A i \in 1 .. n : shot[i] \in HeldEntry
    BY <2>2, <2>4
  <2>8. c \in Seq(HeldEntry) /\ Len(c) = n
    BY <2>6, <2>7, <2>2
  <2>9. IsPrefix(c, shot)
    <3>1. ASSUME NEW s \in Seq(HeldEntry), n <= Len(s)
          PROVE  /\ SubSeq(s, 1, n) \in Seq(HeldEntry) /\ Len(SubSeq(s, 1, n)) = n
                 /\ \A i \in 1 .. n : SubSeq(s, 1, n)[i] = s[i]
      BY <2>2, <3>1
    <3>2. n <= Len(c) /\ n <= Len(shot)
      <4>1. n <= n /\ n <= m
        BY <2>2, <2>4
      <4> QED BY <2>8, <4>1 DEF m
    <3>3. \A i \in 1 .. n : SubSeq(c, 1, n)[i] = SubSeq(shot, 1, n)[i]
      BY <2>2, <2>4, <2>8, <3>1, <3>2
    <3>4. SubSeq(c, 1, n) = SubSeq(shot, 1, n)
      BY <2>2, <2>8, <3>1, <3>2, <3>3, SeqEqual
    <3> QED BY <2>8, <3>2, <3>4 DEF IsPrefix
  <2>10. ASSUME bad \cap {"close", "attr"} = {} PROVE c = shot
    <3>1. n = m
      BY <2>4, <2>10
    <3> QED BY <2>2, <2>4, <2>8, <3>1, SeqEqual DEF m
  <2> QED BY <2>9, <2>10 DEF c
<1> QED BY <1>1, RequestHolds, PTL

(* The strings of the environment are valid whenever cgiMain may read them, *)
(* unless a restore failed in one of them or behind another restore, and    *)
(* are freed only while they are cgic's.                                    *)
THEOREM StringsAreValid == Spec => []EnvironmentIsValid
<1>1. RequestOK => EnvironmentIsValid
  BY DEF RequestOK, Environment
<1> QED BY <1>1, RequestHolds, PTL

(* What updateFile reports as copied is the whole of the first upload of    *)
(* that name, whatever was saved and restored before.                       *)
THEOREM UpdatesAreWhole == Spec => []UpdateIsWhole
<1>1. RequestOK => UpdateIsWhole
  BY DEF RequestOK
<1> QED BY <1>1, RequestHolds, PTL
-------------------------------------------------------------------------------
(* Texts.  The prover has no induction, but the library's theorem that a    *)
(* set of numbers has a least member: a set with zero and the successor of  *)
(* each of its members has all numbers.                                     *)
LEMMA AllNumbers ==
  ASSUME NEW S, 0 \in S, \A n \in Nat : n \in S => n + 1 \in S
  PROVE  Nat \subseteq S
<1>0. 0 \in S
  OBVIOUS
<1> SUFFICES ASSUME Nat \ S # {} PROVE FALSE
  OBVIOUS
<1>1. PICK x \in Nat \ S : \A y \in Nat \ S : ~(<<y, x>> \in OpToRel(<, Nat))
  BY WFMin, NatLessThanWellFounded
<1>2. x \in Nat /\ x # 0 /\ x - 1 \in Nat
  <2>1. x \in Nat /\ x \notin S
    BY <1>1
  <2>2. x # 0
    BY <1>0, <2>1
  <2> QED BY <2>1, <2>2
<1>3. x - 1 \in S
  <2>1. <<x - 1, x>> \in OpToRel(<, Nat)
    BY <1>2 DEF OpToRel
  <2> QED BY <1>1, <1>2, <2>1
<1>4. (x - 1) + 1 = x
  BY <1>2
<1> QED BY <1>1, <1>2, <1>3, <1>4

(* So does a set with the empty sequence and, with each of its members, all *)
(* that are longer by one at the end, have all sequences ...                *)
LEMMA AllSequences ==
  ASSUME NEW R, NEW S, <<>> \in S,
         \A u \in Seq(R) : \A x \in R : u \in S => Append(u, x) \in S
  PROVE  Seq(R) \subseteq S
<1> DEFINE N == {n \in Nat : \A s \in Seq(R) : Len(s) = n => s \in S}
<1>1. 0 \in N
  BY EmptySeq
<1>2. ASSUME NEW n \in Nat, n \in N PROVE n + 1 \in N
  <2>1. ASSUME NEW s \in Seq(R), Len(s) = n + 1 PROVE s \in S
    <3>1. s # <<>>
      BY <2>1, EmptySeq
    <3>2. PICK u \in Seq(R), x \in R : s = Append(u, x)
      BY <3>1, SequenceEmptyOrAppend
    <3>3. Len(u) = n
      BY <3>2, <2>1, AppendProperties, LenProperties
    <3>4. u \in S
      BY <1>2, <3>3
    <3> QED BY <3>2, <3>4
  <2> QED BY <2>1
<1>3. Nat \subseteq N
  BY <1>1, <1>2, AllNumbers
<1>4. ASSUME NEW s \in Seq(R) PROVE s \in S
  BY <1>3, LenProperties
<1> QED BY <1>4
-------------------------------------------------------------------------------
(* A walk that only goes forward can be computed from its end.              *)
LEMMA WalksExist ==
  ASSUME NEW n \in Nat, NEW next, NEW out, Forward(next, n)
  PROVE  \E g : Walks(next, out, n, 1, g)
<1> DEFINE S == {m \in Nat : m <= n => \E g : Walks(next, out, n, n - m + 1, g)}
<1>1. 0 \in S
  <2>1. n - 0 + 1 = n + 1 /\ (n + 1) .. n = {}
    OBVIOUS
  <2>2. Walks(next, out, n, n + 1, [p \in {} |-> <<>>])
    BY <2>1 DEF Walks
  <2> QED BY <2>1, <2>2
<1>2. ASSUME NEW m \in Nat, m \in S PROVE m + 1 \in S
  <2> SUFFICES ASSUME m + 1 <= n PROVE \E g : Walks(next, out, n, n - (m + 1) + 1, g)
    OBVIOUS
  <2> DEFINE k == n - m
  <2>1. k \in 1 .. n /\ n - m + 1 = k + 1 /\ n - (m + 1) + 1 = k
    OBVIOUS
  <2>2. PICK g : Walks(next, out, n, k + 1, g)
    BY <1>2, <2>1
  <2> HIDE DEF k
  <2> DEFINE turn == out[k] \o IF next[k] \in 1 .. n THEN g[next[k]] ELSE <<>>
             h == [p \in k .. n |-> IF p = k THEN turn ELSE g[p]]
  <2>3. \A p \in (k + 1) .. n : p \in k .. n /\ p # k /\ h[p] = g[p]
    BY <2>1
  <2>4. ASSUME NEW p \in k .. n
        PROVE  h[p] = out[p] \o IF next[p] \in 1 .. n THEN h[next[p]] ELSE <<>>
    <3>1. p \in 1 .. n /\ next[p] \in Nat /\ next[p] > p
      BY <2>1 DEF Forward
    <3>2. next[p] \in 1 .. n => next[p] \in (k + 1) .. n
      BY <2>1, <3>1
    <3>3. next[p] \in 1 .. n => h[next[p]] = g[next[p]]
      BY <2>3, <3>2
    <3>4. CASE p = k
      BY <3>4, <3>3
    <3>5. CASE p # k
      <4>1. p \in (k + 1) .. n
        BY <2>1, <3>5
      <4>2. g[p] = out[p] \o IF next[p] \in 1 .. n THEN g[next[p]] ELSE <<>>
        BY <2>2, <4>1 DEF Walks
      <4>3. h[p] = g[p]
        BY <2>3, <4>1
      <4> HIDE DEF h
      <4> QED BY <3>3, <4>2, <4>3
    <3> QED BY <3>4, <3>5
  <2>5. h = [p \in k .. n |-> h[p]]
    OBVIOUS
  <2> HIDE DEF h
  <2>6. Walks(next, out, n, k, h)
    BY <2>4, <2>5 DEF Walks
  <2> QED BY <2>1, <2>6
<1>3. Nat \subseteq S
  BY <1>1, <1>2, AllNumbers
<1>4. n \in S /\ n - n + 1 = 1
  BY <1>3
<1> QED BY <1>4

(* This is what Walk does.                                                  *)
LEMMA WalkStep ==
  ASSUME NEW n \in Nat, NEW next, NEW out, Forward(next, n), NEW i \in Nat
  PROVE  Walk(next, out, i) =
           IF i \in 1 .. n THEN out[i] \o Walk(next, out, next[i]) ELSE <<>>
<1> DEFINE W == CHOOSE g : Walks(next, out, n, 1, g)
<1>1. Walks(next, out, n, 1, W)
  BY WalksExist
<1>2. DOMAIN next = 1 .. n
  BY DEF Forward
<1>3. ASSUME NEW j PROVE Walk(next, out, j) = IF j \in 1 .. n THEN W[j] ELSE <<>>
  BY <1>2 DEF Walk, Walks
<1> HIDE DEF W
<1>4. ASSUME NEW j \in 1 .. n
      PROVE  W[j] = out[j] \o IF next[j] \in 1 .. n THEN W[next[j]] ELSE <<>>
  BY <1>1 DEF Walks
<1>5. Walk(next, out, next[i]) = IF next[i] \in 1 .. n THEN W[next[i]] ELSE <<>>
  BY <1>3
<1>6. Walk(next, out, i) = IF i \in 1 .. n THEN W[i] ELSE <<>>
  BY <1>3
<1>7. CASE i \in 1 .. n
  BY <1>4, <1>5, <1>6, <1>7
<1>8. CASE i \notin 1 .. n
  BY <1>6, <1>8
<1> QED BY <1>7, <1>8

(* What is put out is made of what is put out at each place.                *)
LEMMA WalkTyped ==
  ASSUME NEW R, NEW n \in Nat, NEW next, NEW out, Forward(next, n),
         \A p \in 1 .. n : out[p] \in Seq(R), NEW i \in Nat
  PROVE  Walk(next, out, i) \in Seq(R)
<1> DEFINE S == {m \in Nat : \A j \in Nat : j + m > n => Walk(next, out, j) \in Seq(R)}
<1>1. 0 \in S
  <2>1. ASSUME NEW j \in Nat, j > n PROVE Walk(next, out, j) \in Seq(R)
    <3>1. Walk(next, out, j) = <<>>
      <4>1. j \notin 1 .. n
        BY <2>1
      <4> QED BY <4>1, WalkStep
    <3> QED BY <3>1, EmptySeq
  <2> QED BY <2>1
<1>2. ASSUME NEW m \in Nat, m \in S PROVE m + 1 \in S
  <2>1. ASSUME NEW j \in Nat, j + (m + 1) > n PROVE Walk(next, out, j) \in Seq(R)
    <3>1. CASE j \in 1 .. n
      <4>1. next[j] \in Nat /\ next[j] + m > n
        BY <2>1, <3>1 DEF Forward
      <4>2. Walk(next, out, next[j]) \in Seq(R)
        BY <1>2, <4>1
      <4>3. Walk(next, out, j) = out[j] \o Walk(next, out, next[j])
        BY <3>1, WalkStep
      <4> QED BY <3>1, <4>2, <4>3, ConcatProperties
    <3>2. CASE j \notin 1 .. n
      BY <3>2, WalkStep, EmptySeq
    <3> QED BY <3>1, <3>2
  <2> QED BY <2>1
<1>3. Nat \subseteq S
  BY <1>1, <1>2, AllNumbers
<1>4. n + 1 \in S /\ i + (n + 1) > n
  <2>1. n + 1 \in Nat /\ i + (n + 1) > n
    OBVIOUS
  <2> HIDE DEF S
  <2> QED BY <1>3, <2>1
<1> QED BY <1>4
-------------------------------------------------------------------------------
(* The beginnings of texts put behind one another can be computed.          *)
LEMMA FlatsExist ==
  ASSUME NEW ss, NEW n \in Nat PROVE \E g : Flats(ss, n, g)
<1> DEFINE S == {k \in Nat : \E g : Flats(ss, k, g)}
<1>1. 0 \in S
  <2>1. Flats(ss, 0, [i \in 1 .. 0 |-> <<>>])
    BY DEF Flats
  <2> QED BY <2>1
<1>2. ASSUME NEW k \in Nat, k \in S PROVE k + 1 \in S
  <2>1. PICK g : Flats(ss, k, g)
    BY <1>2
  <2> DEFINE last == k + 1
             turn == IF last = 1 THEN ss[last] ELSE g[k] \o ss[last]
             h == [i \in 1 .. last |-> IF i = last THEN turn ELSE g[i]]
  <2>2. last \in Nat /\ last - 1 = k
    OBVIOUS
  <2> HIDE DEF last
  <2>3. \A i \in 1 .. k : i \in 1 .. last /\ i # last /\ h[i] = g[i]
    BY <2>2
  <2>4. ASSUME NEW i \in 1 .. last
        PROVE  h[i] = IF i = 1 THEN ss[i] ELSE h[i - 1] \o ss[i]
    <3>1. i # 1 => i - 1 \in 1 .. k /\ h[i - 1] = g[i - 1]
      BY <2>2, <2>3
    <3>2. CASE i = last
      BY <3>2, <2>2, <3>1
    <3>3. CASE i # last
      <4>1. i \in 1 .. k
        BY <2>2, <3>3
      <4>2. g[i] = IF i = 1 THEN ss[i] ELSE g[i - 1] \o ss[i]
        BY <2>1, <4>1 DEF Flats
      <4>3. h[i] = g[i]
        BY <2>3, <4>1
      <4> HIDE DEF h
      <4> QED BY <3>1, <4>2, <4>3
    <3> QED BY <3>2, <3>3
  <2>5. h = [i \in 1 .. last |-> h[i]]
    OBVIOUS
  <2> HIDE DEF h
  <2>6. Flats(ss, last, h)
    BY <2>4, <2>5 DEF Flats
  <2> QED BY <2>2, <2>6 DEF last
<1>3. Nat \subseteq S
  BY <1>1, <1>2, AllNumbers
<1> QED BY <1>3

(* Behind the same texts come the same.                                     *)
LEMMA FlatsAgree ==
  ASSUME NEW ss, NEW tt, NEW n \in Nat, NEW m \in Nat, n <= m,
         \A i \in 1 .. n : ss[i] = tt[i], NEW g, Flats(ss, n, g), NEW h, Flats(tt, m, h)
  PROVE  \A k \in 1 .. n : g[k] = h[k]
<1> DEFINE S == {i \in Nat : \A j \in 1 .. i : j <= n => g[j] = h[j]}
<1>1. 0 \in S
  OBVIOUS
<1>2. ASSUME NEW i \in Nat, i \in S PROVE i + 1 \in S
  <2>1. CASE i + 1 <= n
    <3> DEFINE k == i + 1
    <3>1. k \in 1 .. n /\ k \in 1 .. m /\ k - 1 = i /\ (k # 1 => i \in 1 .. i /\ i <= n)
      BY <2>1
    <3>2. k # 1 => g[i] = h[i]
      BY <1>2, <3>1
    <3>3. g[k] = IF k = 1 THEN ss[k] ELSE g[k - 1] \o ss[k]
      BY <3>1 DEF Flats
    <3>4. h[k] = IF k = 1 THEN tt[k] ELSE h[k - 1] \o tt[k]
      BY <3>1 DEF Flats
    <3>5. g[k] = h[k]
      BY <3>1, <3>2, <3>3, <3>4
    <3> HIDE DEF k
    <3>6. \A j \in 1 .. k : j \in 1 .. i \/ j = k
      BY <3>1
    <3>7. \A j \in 1 .. k : j <= n => g[j] = h[j]
      BY <1>2, <3>5, <3>6
    <3> QED BY <3>7 DEF k
  <2>2. CASE ~(i + 1 <= n)
    BY <2>2, <1>2
  <2> QED BY <2>1, <2>2
<1>3. Nat \subseteq S
  BY <1>1, <1>2, AllNumbers
<1>4. n \in S
  BY <1>3
<1> QED BY <1>4

(* FlattenSeq is the last of those beginnings.                              *)
LEMMA FlattenIs ==
  ASSUME NEW R, NEW ss \in Seq(R), ss # <<>>
  PROVE  \E g : Flats(ss, Len(ss), g) /\ FlattenSeq(ss) = g[Len(ss)]
<1> DEFINE t == CHOOSE g : Flats(ss, Len(ss), g)
<1>1. Len(ss) \in Nat /\ Len(ss) # 0
  BY EmptySeq
<1>2. Flats(ss, Len(ss), t)
  BY <1>1, FlatsExist
<1>3. FlattenSeq(ss) = t[Len(ss)]
  BY <1>1 DEF FlattenSeq, Flats
<1> HIDE DEF t
<1> QED BY <1>2, <1>3

(* No texts behind one another are the empty text.                          *)
LEMMA FlattenNone == FlattenSeq(<<>>) = <<>>
<1>1. Len(<<>>) = 0
  OBVIOUS
<1> QED BY <1>1 DEF FlattenSeq

(* A text more at the end.                                                  *)
LEMMA FlattenMore ==
  ASSUME NEW R, NEW ss \in Seq(Seq(R)), NEW t \in Seq(R)
  PROVE  FlattenSeq(Append(ss, t)) = FlattenSeq(ss) \o t
<1> DEFINE tt == Append(ss, t)
           n == Len(ss)
<1>1. /\ n \in Nat /\ tt \in Seq(Seq(R)) /\ tt # <<>> /\ Len(tt) = n + 1
      /\ tt[n + 1] = t /\ \A i \in 1 .. n : ss[i] = tt[i]
  BY AppendProperties, LenProperties
<1> DEFINE m == n + 1
<1>2. PICK h : Flats(tt, m, h) /\ FlattenSeq(tt) = h[m]
  BY <1>1, FlattenIs
<1> HIDE DEF tt
<1>3. m \in 1 .. m /\ m - 1 = n /\ m \in Nat /\ n <= m
  BY <1>1
<1>4. h[m] = IF m = 1 THEN tt[m] ELSE h[m - 1] \o tt[m]
  BY <1>2, <1>3 DEF Flats
<1>5. CASE ss = <<>>
  BY <1>5, <1>1, <1>2, <1>4, ConcatEmptySeq, FlattenNone DEF tt
<1>6. CASE ss # <<>>
  <2>1. PICK g : Flats(ss, n, g) /\ FlattenSeq(ss) = g[n]
    BY <1>6, FlattenIs
  <2>2. n \in 1 .. n
    BY <1>1, <1>6, EmptySeq
  <2>3. g[n] = h[n]
    <3>1. /\ n \in Nat /\ m \in Nat /\ n <= m /\ (\A i \in 1 .. n : ss[i] = tt[i])
          /\ Flats(ss, n, g) /\ Flats(tt, m, h)
      BY <1>1, <1>2, <1>3, <2>1
    <3> HIDE DEF m, n
    <3>2. \A k \in 1 .. n : g[k] = h[k]
      BY <3>1, FlatsAgree
    <3> QED BY <2>2, <3>2
  <2>4. m # 1
    BY <1>3, <2>2
  <2> HIDE DEF n
  <2> QED BY <1>1, <1>2, <1>3, <1>4, <2>1, <2>3, <2>4 DEF tt, m
<1> QED BY <1>5, <1>6

(* Texts behind one another are a text over the same elements.              *)
LEMMA FlattenTyped ==
  ASSUME NEW R, NEW ss \in Seq(Seq(R)) PROVE FlattenSeq(ss) \in Seq(R)
<1> DEFINE S == {tt \in Seq(Seq(R)) : FlattenSeq(tt) \in Seq(R)}
<1>1. <<>> \in S
  BY FlattenNone, EmptySeq
<1>2. ASSUME NEW u \in Seq(Seq(R)), NEW t \in Seq(R), u \in S PROVE Append(u, t) \in S
  BY <1>2, FlattenMore, AppendProperties, ConcatProperties
<1>3. Seq(Seq(R)) \subseteq S
  BY <1>1, <1>2, AllSequences
<1> QED BY <1>3

(* Each text stands in the whole behind those before it.                    *)
LEMMA Placed ==
  ASSUME NEW R, NEW ss \in Seq(Seq(R)) PROVE PlacedIn(ss)
<1> DEFINE S == {tt \in Seq(Seq(R)) : PlacedIn(tt)}
<1>1. <<>> \in S
  <2>1. /\ SubSeq(<<>>, 1, 0) = <<>> /\ Len(<<>>) = 0 /\ <<>> \in Seq(Seq(R))
    BY SubSeqEmpty, EmptySeq
  <2>2. Upto(<<>>, 0) = 0
    BY <2>1, FlattenNone DEF Upto
  <2>3. \A k \in 0 .. 0 : k = 0
    OBVIOUS
  <2>4. PlacedIn(<<>>)
    BY <2>1, <2>2, <2>3, FlattenNone DEF PlacedIn
  <2> QED BY <2>1, <2>4
<1>2. ASSUME NEW u \in Seq(Seq(R)), NEW t \in Seq(R), u \in S PROVE Append(u, t) \in S
  <2> DEFINE v == Append(u, t)
             n == Len(u)
             a == FlattenSeq(u)
             b == FlattenSeq(v)
  <2>1. /\ n \in Nat /\ v \in Seq(Seq(R)) /\ Len(v) = n + 1 /\ v[n + 1] = t
        /\ \A i \in 1 .. n : v[i] = u[i]
    BY AppendProperties, LenProperties
  <2>2. b = a \o t
    BY FlattenMore
  <2>3. /\ a \in Seq(R) /\ b \in Seq(R) /\ Len(a) \in Nat /\ Len(t) \in Nat /\ Len(b) = Len(a) + Len(t)
        /\ \A i \in 1 .. Len(a) : b[i] = a[i]
        /\ \A i \in 1 .. Len(t) : b[Len(a) + i] = t[i]
    <3>1. a \in Seq(R) /\ Len(a) \in Nat /\ Len(t) \in Nat
      BY FlattenTyped, LenProperties
    <3> HIDE DEF a, b
    <3>2. /\ b \in Seq(R) /\ Len(b) = Len(a) + Len(t)
          /\ \A i \in 1 .. Len(a) + Len(t) : b[i] = IF i <= Len(a) THEN a[i] ELSE t[i - Len(a)]
      BY <2>2, <3>1, ConcatProperties
    <3>3. \A i \in 1 .. Len(a) : b[i] = a[i]
      BY <3>1, <3>2
    <3>4. \A i \in 1 .. Len(t) : b[Len(a) + i] = t[i]
      <4> SUFFICES ASSUME NEW i \in 1 .. Len(t) PROVE b[Len(a) + i] = t[i]
        OBVIOUS
      <4>1. /\ Len(a) + i \in 1 .. Len(a) + Len(t) /\ ~(Len(a) + i <= Len(a))
            /\ (Len(a) + i) - Len(a) = i
        BY <3>1
      <4> QED BY <3>2, <4>1
    <3> QED BY <3>1, <3>2, <3>3, <3>4
  <2>4. \A k \in 0 .. n : SubSeq(v, 1, k) = SubSeq(u, 1, k)
    <3> SUFFICES ASSUME NEW k \in 0 .. n PROVE SubSeq(v, 1, k) = SubSeq(u, 1, k)
      OBVIOUS
    <3>1. \A i \in 1 .. k : i \in 1 .. n /\ v[i] = u[i] /\ u[i] \in Seq(R) /\ v[i] \in Seq(R)
      BY <2>1, ElementOfSeq
    <3> DEFINE x == SubSeq(v, 1, k)
               y == SubSeq(u, 1, k)
    <3>2. k \in Int /\ 1 \in Int /\ (IF 1 <= k THEN k - 1 + 1 ELSE 0) = k /\ k - 1 + 1 = k
      BY <2>1
    <3>3. /\ x \in Seq(Seq(R)) /\ Len(x) = k
          /\ \A i \in 1 .. k : x[i] = v[1 + i - 1]
      BY <3>1, <3>2, SubSeqProperties
    <3>4. /\ y \in Seq(Seq(R)) /\ Len(y) = k
          /\ \A i \in 1 .. k : y[i] = u[1 + i - 1]
      BY <3>1, <3>2, SubSeqProperties
    <3>5. \A i \in 1 .. k : 1 + i - 1 = i
      OBVIOUS
    <3> HIDE DEF x, y, v, n
    <3>6. \A i \in 1 .. k : x[i] = y[i]
      BY <3>1, <3>3, <3>4, <3>5
    <3>7. x = y
      BY <3>3, <3>4, <3>6, SeqEqual
    <3> QED BY <3>7 DEF x, y
  <2>5. SubSeq(v, 1, n + 1) = v
    BY <2>1, SubSeqFull
  <2>6. /\ \A k \in 0 .. n : Upto(v, k) = Upto(u, k)
        /\ Upto(v, n + 1) = Len(b)
    BY <2>4, <2>5 DEF Upto
  <2>7. PlacedIn(u)
    BY <1>2
  <2> HIDE DEF a, b, v, n
  <2>8. /\ Upto(u, 0) = 0 /\ Upto(u, n) = Len(a)
        /\ \A k \in 0 .. n : Upto(u, k) \in 0 .. Len(a)
        /\ \A k \in 1 .. n : Upto(u, k) = Upto(u, k - 1) + Len(u[k])
        /\ \A k \in 1 .. n : \A j \in 1 .. Len(u[k]) : a[Upto(u, k - 1) + j] = u[k][j]
    BY <2>7 DEF PlacedIn, a, n
  <2>9. /\ Upto(v, 0) = 0 /\ Upto(v, Len(v)) = Len(b)
        /\ \A k \in 0 .. Len(v) : Upto(v, k) \in 0 .. Len(b)
    <3>1. \A k \in 0 .. n + 1 : k \in 0 .. n \/ k = n + 1
      BY <2>1
    <3>2. 0 \in 0 .. n /\ 0 .. Len(a) \subseteq 0 .. Len(b) /\ Len(b) \in 0 .. Len(b)
      BY <2>1, <2>3
    <3> QED BY <2>1, <2>6, <2>8, <3>1, <3>2
  <2>10. ASSUME NEW k \in 1 .. Len(v)
         PROVE  /\ Upto(v, k) = Upto(v, k - 1) + Len(v[k])
                /\ \A j \in 1 .. Len(v[k]) : b[Upto(v, k - 1) + j] = v[k][j]
    <3>1. CASE k \in 1 .. n
      <4>1. k \in 0 .. n /\ k - 1 \in 0 .. n
        BY <2>1, <3>1
      <4>2. Upto(v, k) = Upto(u, k) /\ Upto(v, k - 1) = Upto(u, k - 1) /\ v[k] = u[k]
        BY <2>1, <2>6, <3>1, <4>1
      <4>3. \A j \in 1 .. Len(v[k]) : Upto(u, k - 1) + j \in 1 .. Len(a)
        <5>1. /\ Upto(u, k) = Upto(u, k - 1) + Len(u[k])
              /\ Upto(u, k) \in 0 .. Len(a) /\ Upto(u, k - 1) \in 0 .. Len(a)
          BY <2>8, <3>1, <4>1
        <5>2. Len(u[k]) \in Nat
          BY <3>1, ElementOfSeq, LenProperties DEF n
        <5>3. ASSUME NEW j \in 1 .. Len(v[k]) PROVE Upto(u, k - 1) + j \in 1 .. Len(a)
          <6> DEFINE before == Upto(u, k - 1)
                     after == Upto(u, k)
                     all == Len(a)
          <6>1. /\ after = before + Len(u[k]) /\ after \in 0 .. all /\ before \in 0 .. all
                /\ all \in Nat /\ Len(u[k]) \in Nat /\ j \in 1 .. Len(u[k])
            BY <2>3, <4>2, <5>1, <5>2
          <6> HIDE DEF before, after, all
          <6>2. before + j \in 1 .. all
            BY <6>1
          <6> QED BY <6>2 DEF before, all
        <5> QED BY <5>3
      <4>4. \A j \in 1 .. Len(v[k]) : b[Upto(u, k - 1) + j] = a[Upto(u, k - 1) + j]
        BY <2>3, <4>3
      <4> QED BY <2>8, <3>1, <4>2, <4>4
    <3>2. CASE k = n + 1
      <4>1. k - 1 = n /\ n \in 0 .. n /\ v[k] = t
        BY <2>1, <3>2
      <4>2. Upto(v, k) = Len(b) /\ Upto(v, k - 1) = Len(a)
        BY <2>6, <2>8, <3>2, <4>1
      <4> QED BY <2>3, <4>1, <4>2
    <3> QED BY <2>1, <3>1, <3>2
  <2>11. PlacedIn(v)
    BY <2>9, <2>10 DEF PlacedIn, b
  <2> QED BY <2>1, <2>11 DEF v
<1>3. Seq(Seq(R)) \subseteq S
  BY <1>1, <1>2, AllSequences
<1> QED BY <1>3
-------------------------------------------------------------------------------
(* A number of the set below which there is none is the least.              *)
LEMMA LeastIs ==
  ASSUME NEW S, S \subseteq Nat, NEW k \in S, \A y \in S : k <= y
  PROVE  Min(S) = k
<1>1. Min(S) \in S /\ \A y \in S : Min(S) <= y
  BY LeastOf
<1>2. Min(S) <= k /\ k <= Min(S) /\ k \in Nat /\ Min(S) \in Nat
  BY <1>1
<1> QED BY <1>2

(* What Find finds: the first place from i on that holds one of C.          *)
LEMMA FindIs ==
  ASSUME NEW R, NEW s \in Seq(R), NEW i \in Nat, NEW C
  PROVE  /\ Find(s, i, C) \in Nat /\ Find(s, i, C) <= Len(s) + 1
         /\ i <= Len(s) + 1 => i <= Find(s, i, C)
         /\ i > Len(s) => Find(s, i, C) = Len(s) + 1
         /\ \A j \in i .. Len(s) : j < Find(s, i, C) => s[j] \notin C
         /\ Find(s, i, C) <= Len(s) => Find(s, i, C) \in i .. Len(s) /\ s[Find(s, i, C)] \in C
<1> DEFINE H == {j \in i .. Len(s) : s[j] \in C}
           f == Find(s, i, C)
<1>1. Len(s) \in Nat /\ H \cup {Len(s) + 1} \subseteq Nat /\ H \cup {Len(s) + 1} # {}
  BY LenProperties
<1>2. f \in H \cup {Len(s) + 1} /\ \A y \in H \cup {Len(s) + 1} : f <= y
  BY <1>1, LeastOf DEF Find
<1> HIDE DEF f
<1>3. f \in Nat /\ f <= Len(s) + 1 /\ (f <= Len(s) => f \in i .. Len(s) /\ s[f] \in C)
  BY <1>1, <1>2
<1>4. \A j \in i .. Len(s) : j < f => s[j] \notin C
  BY <1>1, <1>2, <1>3
<1>5. i > Len(s) => f = Len(s) + 1
  BY <1>1, <1>2
<1>6. i <= Len(s) + 1 => i <= f
  BY <1>1, <1>2
<1> QED BY <1>3, <1>4, <1>5, <1>6 DEF f

(* Find finds a place that holds one of C if no place before it does.       *)
LEMMA FindFirst ==
  ASSUME NEW R, NEW s \in Seq(R), NEW i \in Nat, NEW C, NEW k \in Nat, i <= k, k <= Len(s) + 1,
         \A j \in Nat : i <= j /\ j < k => s[j] \notin C, k <= Len(s) => s[k] \in C
  PROVE  Find(s, i, C) = k
<1> DEFINE H == {j \in i .. Len(s) : s[j] \in C}
<1>1. Len(s) \in Nat /\ H \cup {Len(s) + 1} \subseteq Nat
  BY LenProperties
<1>2. k \in H \cup {Len(s) + 1}
  BY <1>1
<1>3. \A y \in H \cup {Len(s) + 1} : k <= y
  <2> SUFFICES ASSUME NEW y \in H PROVE k <= y
    BY <1>1
  <2>1. y \in Nat /\ i <= y /\ s[y] \in C
    OBVIOUS
  <2> QED BY <2>1
<1>4. Min(H \cup {Len(s) + 1}) = k
  BY <1>1, <1>2, <1>3, LeastIs
<1> QED BY <1>4 DEF Find

(* Skip finds what is not in C.                                             *)
LEMMA SkipFinds ==
  ASSUME NEW R, NEW s \in Seq(R), NEW i \in Nat, i > 0, NEW C
  PROVE  Skip(s, i, C) = Find(s, i, R \ C)
<1>1. ASSUME NEW j \in i .. Len(s) PROVE s[j] \notin C <=> s[j] \in R \ C
  BY ElementOfSeq
<1>2. {j \in i .. Len(s) : s[j] \notin C} = {j \in i .. Len(s) : s[j] \in R \ C}
  BY <1>1
<1> QED BY <1>2 DEF Skip, Find

(* What Skip finds: the first place from i on that holds none of C.         *)
LEMMA SkipIs ==
  ASSUME NEW R, NEW s \in Seq(R), NEW i \in Nat, i > 0, NEW C
  PROVE  /\ Skip(s, i, C) \in Nat /\ Skip(s, i, C) <= Len(s) + 1
         /\ i <= Len(s) + 1 => i <= Skip(s, i, C)
         /\ i > Len(s) => Skip(s, i, C) = Len(s) + 1
         /\ \A j \in i .. Len(s) : j < Skip(s, i, C) => s[j] \in C
         /\ Skip(s, i, C) <= Len(s) => Skip(s, i, C) \in i .. Len(s) /\ s[Skip(s, i, C)] \notin C
<1>1. Skip(s, i, C) = Find(s, i, R \ C)
  BY SkipFinds
<1>2. ASSUME NEW j \in i .. Len(s) PROVE s[j] \notin C <=> s[j] \in R \ C
  BY ElementOfSeq
<1>3. /\ Find(s, i, R \ C) \in Nat /\ Find(s, i, R \ C) <= Len(s) + 1
      /\ i <= Len(s) + 1 => i <= Find(s, i, R \ C)
      /\ i > Len(s) => Find(s, i, R \ C) = Len(s) + 1
      /\ \A j \in i .. Len(s) : j < Find(s, i, R \ C) => s[j] \notin R \ C
      /\ Find(s, i, R \ C) <= Len(s) => Find(s, i, R \ C) \in i .. Len(s) /\ s[Find(s, i, R \ C)] \in R \ C
  BY FindIs
<1> QED BY <1>1, <1>2, <1>3, Zenon

(* Skip finds a place that holds none of C if all places before it hold     *)
(* one.                                                                     *)
LEMMA SkipFirst ==
  ASSUME NEW R, NEW s \in Seq(R), NEW i \in Nat, i > 0, NEW C, NEW k \in Nat, i <= k, k <= Len(s) + 1,
         \A j \in Nat : i <= j /\ j < k => s[j] \in C, k <= Len(s) => s[k] \notin C
  PROVE  Skip(s, i, C) = k
<1>1. Skip(s, i, C) = Find(s, i, R \ C)
  BY SkipFinds
<1>2. \A j \in Nat : i <= j /\ j < k => s[j] \notin R \ C
  OBVIOUS
<1>3. k <= Len(s) => s[k] \in R \ C
  <2> SUFFICES ASSUME k <= Len(s) PROVE s[k] \in R
    OBVIOUS
  <2>1. k \in 1 .. Len(s)
    BY LenProperties
  <2> QED BY <2>1, ElementOfSeq
<1>4. Find(s, i, R \ C) = k
  BY <1>2, <1>3, FindFirst
<1> QED BY <1>1, <1>4
-------------------------------------------------------------------------------
(* Such states exist, for any turns.                                        *)
LEMMA TurnsExist ==
  ASSUME NEW A, NEW n \in Nat, NEW base \in A, NEW turn \in [1 .. n -> [A -> A]]
  PROVE  \E g \in [0 .. n -> A] : Turns(base, turn, n, g)
<1> DEFINE S == {k \in Nat : k <= n => \E g \in [0 .. k -> A] : Turns(base, turn, k, g)}
<1>1. 0 \in S
  <2> DEFINE h == [i \in 0 .. 0 |-> base]
  <2>1. h \in [0 .. 0 -> A] /\ Turns(base, turn, 0, h)
    BY DEF Turns
  <2> QED BY <2>1
<1>2. ASSUME NEW k \in Nat, k \in S PROVE k + 1 \in S
  <2> SUFFICES ASSUME k + 1 <= n PROVE \E g \in [0 .. k + 1 -> A] : Turns(base, turn, k + 1, g)
    OBVIOUS
  <2>1. PICK g \in [0 .. k -> A] : Turns(base, turn, k, g)
    BY <1>2
  <2> DEFINE last == k + 1
             new == turn[last][g[k]]
             h == [i \in 0 .. last |-> IF i = last THEN new ELSE g[i]]
  <2>2. last \in 1 .. n /\ last - 1 = k /\ k \in 0 .. k /\ last \in 0 .. last
    OBVIOUS
  <2> HIDE DEF last
  <2>3. \A i \in 0 .. k : i \in 0 .. last /\ i # last /\ h[i] = g[i] /\ g[i] \in A
    BY <2>2
  <2>4. new \in A
    BY <2>2, <2>3
  <2>5. ASSUME NEW i \in 0 .. last
        PROVE  h[i] = (IF i = 0 THEN base ELSE turn[i][h[i - 1]]) /\ h[i] \in A
    <3>1. i # 0 => i - 1 \in 0 .. k /\ h[i - 1] = g[i - 1]
      BY <2>2, <2>3
    <3>2. CASE i = last
      BY <3>2, <2>2, <2>4, <3>1
    <3>3. CASE i # last
      <4>1. i \in 0 .. k
        BY <2>2, <3>3
      <4>2. g[i] = IF i = 0 THEN base ELSE turn[i][g[i - 1]]
        BY <2>1, <4>1 DEF Turns
      <4>3. h[i] = g[i] /\ h[i] \in A
        BY <2>3, <4>1
      <4> HIDE DEF h
      <4> QED BY <3>1, <4>2, <4>3
    <3> QED BY <3>2, <3>3
  <2>6. h = [i \in 0 .. last |-> h[i]]
    OBVIOUS
  <2> HIDE DEF h
  <2>7. h \in [0 .. last -> A] /\ Turns(base, turn, last, h)
    BY <2>5, <2>6 DEF Turns
  <2> QED BY <2>2, <2>7 DEF last
<1>3. Nat \subseteq S
  BY <1>1, <1>2, AllNumbers
<1> QED BY <1>3
-------------------------------------------------------------------------------
(* A function on the first numbers is a sequence.                           *)
LEMMA ASequence ==
  ASSUME NEW R, NEW n \in Nat, NEW f \in [1 .. n -> R]
  PROVE  f \in Seq(R) /\ Len(f) = n
<1>1. f \in Seq(R)
  BY SeqDef
<1>2. Len(f) \in Nat /\ DOMAIN f = 1 .. Len(f)
  BY <1>1, LenProperties
<1>3. 1 .. Len(f) = 1 .. n
  BY <1>2
<1>4. Len(f) = n
  <2> DEFINE l == Len(f)
  <2>1. l \in Nat /\ 1 .. l = 1 .. n
    BY <1>2, <1>3
  <2> HIDE DEF l
  <2>2. l > 0 => l \in 1 .. n
    BY <2>1
  <2>3. n > 0 => n \in 1 .. l
    BY <2>1
  <2>4. l = n
    BY <2>1, <2>2, <2>3
  <2> QED BY <2>4 DEF l
<1> QED BY <1>1, <1>4

(* Three in a row.                                                          *)
LEMMA ThreeInARow ==
  ASSUME NEW R, NEW a \in R, NEW b \in R, NEW c \in R
  PROVE  <<a>> \o <<b, c>> = <<a, b, c>> /\ <<>> \o <<b, c>> = <<b, c>>
<1> DEFINE s == <<a>> \o <<b, c>>
           t == <<a, b, c>>
<1>1. /\ <<a>> \in Seq(R) /\ <<b, c>> \in Seq(R) /\ Len(<<a>>) = 1 /\ Len(<<b, c>>) = 2
      /\ t \in Seq(R) /\ Len(t) = 3
  OBVIOUS
<1>2. s \in Seq(R) /\ Len(s) = 3 /\ \A i \in 1 .. 3 : s[i] = IF i <= 1 THEN <<a>>[i] ELSE <<b, c>>[i - 1]
  BY <1>1, ConcatProperties
<1>3. s[1] = a /\ s[2] = b /\ s[3] = c
  BY <1>2
<1>4. \A i \in 1 .. 3 : s[i] = t[i]
  BY <1>3
<1>5. s = t
  BY <1>1, <1>2, <1>4, SeqEqual
<1> QED BY <1>1, <1>5, ConcatEmptySeq

(* Whatever cgiMain does, the library was asked with a text it can be asked *)
(* with, and answered what the function answers for it.                     *)
THEOREM TextsAreRight == Spec => []TextsRight
<1>1. Init => TextsRight
  BY DEF Init, TextsRight
<1>2. TextsRight /\ [Next]_vars => TextsRight'
  <2> SUFFICES ASSUME TextsRight, [Next]_vars PROVE TextsRight'
    OBVIOUS
  <2>1. CASE UNCHANGED <<call, answer>>
    BY <2>1 DEF TextsRight, Answer
  <2>2. CASE Call
    BY <2>2 DEF Call, TextsRight, Answer
  <2>3. CASE \/ ParseEnds \/ InputBreaksOff \/ PartHeaders \/ PartInMemory \/ PartTemp \/ PartOpen \/ PartBody
             \/ PartBreaksOff \/ PartOutgrows \/ PartEntry \/ PartOutOfMemory \/ Free \/ Kill
             \/ \E p \in ToSet(sent) : updateFile(p.attr)
             \/ cgiWriteEnvironment \/ cgiReadEnvironment \/ UNCHANGED vars
    BY <2>1, <2>3
    DEF ParseEnds, InputBreaksOff, PartHeaders, PartInMemory, PartTemp, PartOpen, PartBody, PartBreaksOff, PartOutgrows,
        PartEntry, PartOutOfMemory, Free, Kill, updateFile, cgiWriteEnvironment, cgiReadEnvironment, texts, vars
  <2> QED BY <2>2, <2>3 DEF Next
<1> QED BY <1>1, <1>2, PTL DEF Spec

(* So an answer is the function's, to a call of it.                         *)
LEMMA Asked ==
  ASSUME TextsRight, NEW fn, Answered(fn)
  PROVE  call \in Calls /\ call.fn = fn /\ result = Answer(call)
BY DEF TextsRight, Answered, result

(* A call is one of those with its function's name.                         *)
LEMMA CallIs ==
  ASSUME NEW c \in Calls
  PROVE  /\ c.fn = "form" => c \in FormCall
         /\ c.fn = "query" => c \in QueryCall
         /\ c.fn = "type" => c \in TypeCall
         /\ c.fn = "header" => c \in HeaderCall
         /\ c.fn = "field" => c \in FieldCall
         /\ c.fn = "number" => c \in NumberCall
         /\ c.fn = "entries" => c \in EntriesCall
         /\ c.fn = "cookie" => c \in CookieCall
         /\ c.fn = "jar" => c \in JarCall
         /\ c.fn = "mac" => c \in MacCall
         /\ c.fn = "page" => c \in PageCall
<1>1. /\ c \in FormCall => c.fn = "form"
      /\ c \in QueryCall => c.fn = "query"
      /\ c \in TypeCall => c.fn = "type"
      /\ c \in HeaderCall => c.fn = "header"
      /\ c \in FieldCall => c.fn = "field"
      /\ c \in NumberCall => c.fn = "number"
      /\ c \in EntriesCall => c.fn = "entries"
      /\ c \in CookieCall => c.fn = "cookie"
      /\ c \in JarCall => c.fn = "jar"
      /\ c \in MacCall => c.fn = "mac"
      /\ c \in PageCall => c.fn = "page"
  BY DEF FormCall, QueryCall, TypeCall, HeaderCall, FieldCall, NumberCall, EntriesCall, CookieCall, JarCall,
         MacCall, PageCall
<1>2. c \in FormCall \cup QueryCall \cup TypeCall \cup HeaderCall \cup FieldCall \cup NumberCall
            \cup EntriesCall \cup CookieCall \cup JarCall \cup MacCall \cup PageCall
  BY CallsAssumption
<1> QED BY <1>1, <1>2
-------------------------------------------------------------------------------
(* MAC addresses: hexadecimal digits, in either letter case.                *)
LEMMA HexValues ==
  /\ \A c \in HexChars : cgiHexValue(c) \in 0 .. 15
  /\ \A c : cgiHexValue(c) \in Int
  /\ \A k \in 0 .. 15 : HexDigit(k) \in HexChars /\ HexDigit(k) \in Byte /\ cgiHexValue(HexDigit(k)) = k
<1>1. \A c \in HexChars : cgiHexValue(c) \in 0 .. 15
  BY DEF HexChars, Digits, cgiHexValue
<1>2. \A c : cgiHexValue(c) \in Int
  <2>1. \A c \in 128 .. 255 : HexBelow[c] \in Int
    BY TextAssumption
  <2> QED BY <2>1 DEF Digits, cgiHexValue
<1>3. ASSUME NEW k \in 0 .. 15
      PROVE  HexDigit(k) \in HexChars /\ HexDigit(k) \in Byte /\ cgiHexValue(HexDigit(k)) = k
  BY DEF HexDigit, HexChars, Digits, Byte, cgiHexValue
<1> QED BY <1>1, <1>2, <1>3

(* A byte is its two hexadecimal digits, and stays itself as an unsigned    *)
(* char.                                                                    *)
LEMMA Bytes ==
  /\ \A x \in Int : x % 256 \in 0 .. 255
  /\ \A x \in 0 .. 255 : /\ x % 256 = x /\ x \div 16 \in 0 .. 15 /\ x % 16 \in 0 .. 15
                         /\ 16 * (x \div 16) + (x % 16) = x
OBVIOUS

(* macString2Hex reads a text of 17 bytes or more whatever temp holds       *)
(* before: the digits it finds, and bytes where it finds none.              *)
LEMMA MacRead ==
  ASSUME NEW str \in Text, NEW temp \in Int, Len(str) >= 17
  PROVE  MacReads(str, macString2Hex(str, temp))
<1> DEFINE turn == [i \in 1 .. 6 |-> [x \in Int |-> sscanf02x(str, 3 * i - 2, x)]]
           Reads(g) == g = [i \in 0 .. 6 |-> IF i = 0 THEN temp ELSE sscanf02x(str, 3 * i - 2, g[i - 1])]
           Read == CHOOSE g : Reads(g)
           mac == [i \in 1 .. 6 |-> Read[i] % 256]
<1>1. ASSUME NEW i, NEW x \in Int PROVE sscanf02x(str, i, x) \in Int
  <2>1. cgiHexValue(At(str, i)) \in Int /\ cgiHexValue(At(str, i + 1)) \in Int
    BY HexValues
  <2> HIDE DEF Reads
  <2> QED BY <2>1 DEF sscanf02x
<1>2. turn \in [1 .. 6 -> [Int -> Int]]
  BY <1>1
<1>3. PICK g \in [0 .. 6 -> Int] : Turns(temp, turn, 6, g)
  BY <1>2, TurnsExist
<1>4. Reads(g)
  <2>1. \A i \in 1 .. 6 : turn[i][g[i - 1]] = sscanf02x(str, 3 * i - 2, g[i - 1])
    <3>1. \A i \in 1 .. 6 : i - 1 \in 0 .. 6 /\ g[i - 1] \in Int
      OBVIOUS
    <3> QED BY <3>1
  <2>2. g = [i \in 0 .. 6 |-> IF i = 0 THEN temp ELSE turn[i][g[i - 1]]]
    BY <1>3 DEF Turns
  <2> HIDE DEF turn
  <2>3. \A i \in 0 .. 6 : g[i] = IF i = 0 THEN temp ELSE sscanf02x(str, 3 * i - 2, g[i - 1])
    <3> SUFFICES ASSUME NEW i \in 0 .. 6
                 PROVE  g[i] = IF i = 0 THEN temp ELSE sscanf02x(str, 3 * i - 2, g[i - 1])
      OBVIOUS
    <3>1. g[i] = IF i = 0 THEN temp ELSE turn[i][g[i - 1]]
      BY <2>2, Zenon
    <3>2. i # 0 => i \in 1 .. 6
      OBVIOUS
    <3> QED BY <2>1, <3>1, <3>2, Zenon
  <2>4. g = [i \in 0 .. 6 |-> g[i]]
    OBVIOUS
  <2> QED BY <2>3, <2>4
<1>5. Reads(Read)
  BY <1>4
<1>6. macString2Hex(str, temp) = [ret |-> 0, mac |-> mac]
  BY LenProperties DEF Text, macString2Hex
<1> HIDE DEF Read
<1> DEFINE T == {k \in Nat : k <= 6 => Read[k] \in Int}
<1>7. /\ Read[0] = temp
      /\ \A i \in 1 .. 6 : Read[i] = sscanf02x(str, 3 * i - 2, Read[i - 1])
  BY <1>5
<1>8. \A i \in 0 .. 6 : Read[i] \in Int
  <2>1. Read[0] \in Int
    BY <1>7
  <2>2. \A i \in 1 .. 6 : Read[i - 1] \in Int => Read[i] \in Int
    BY <1>1, <1>7
  <2>3. Read[1] \in Int
    BY <2>1, <2>2
  <2>4. Read[2] \in Int
    BY <2>2, <2>3
  <2>5. Read[3] \in Int
    BY <2>2, <2>4
  <2>6. Read[4] \in Int
    BY <2>2, <2>5
  <2>7. Read[5] \in Int
    BY <2>2, <2>6
  <2>8. Read[6] \in Int
    BY <2>2, <2>7
  <2>9. \A i \in 0 .. 6 : i = 0 \/ i = 1 \/ i = 2 \/ i = 3 \/ i = 4 \/ i = 5 \/ i = 6
    OBVIOUS
  <2> QED BY <2>1, <2>3, <2>4, <2>5, <2>6, <2>7, <2>8, <2>9
<1>9. mac \in [1 .. 6 -> 0 .. 255]
  <2>1. ASSUME NEW i \in 1 .. 6 PROVE Read[i] % 256 \in 0 .. 255
    <3>1. Read[i] \in Int
      <4>1. i \in 0 .. 6
        OBVIOUS
      <4> QED BY <1>8, <4>1
    <3> QED BY <3>1, Bytes
  <2> QED BY <2>1
<1>10. ASSUME NEW i \in 1 .. 6, {str[3 * i - 2], str[3 * i - 1]} \subseteq HexChars
       PROVE  mac[i] = 16 * cgiHexValue(str[3 * i - 2]) + cgiHexValue(str[3 * i - 1])
  <2> DEFINE h == str[3 * i - 2]
             l == str[3 * i - 1]
             v == 16 * cgiHexValue(h) + cgiHexValue(l)
  <2>1. 3 * i - 2 \in 1 .. Len(str) /\ (3 * i - 2) + 1 = 3 * i - 1 /\ 3 * i - 1 \in 1 .. Len(str)
    BY LenProperties DEF Text
  <2>2. At(str, 3 * i - 2) = h /\ At(str, (3 * i - 2) + 1) = l
    BY <2>1, LenProperties DEF At, Text
  <2>3. h \in HexChars /\ l \in HexChars
    BY <1>10
  <2>4. v \in 0 .. 255
    <3>1. cgiHexValue(h) \in 0 .. 15 /\ cgiHexValue(l) \in 0 .. 15
      BY <2>3, HexValues, Zenon
    <3>2. \A x, y \in 0 .. 15 : 16 * x + y \in 0 .. 255
      OBVIOUS
    <3> QED BY <3>1, <3>2, Zenon
  <2>5. Read[i] = v
    BY <1>7, <2>2, <2>3 DEF sscanf02x
  <2> HIDE DEF v
  <2>6. v % 256 = v
    BY <2>4, Bytes
  <2> QED BY <2>5, <2>6 DEF v
<1> HIDE DEF mac
<1> QED BY <1>6, <1>9, <1>10 DEF MacReads

(* A MAC address of six bytes is written with two digits for each, and a    *)
(* character between them.                                                  *)
LEMMA MacWritten ==
  ASSUME NEW mac \in [1 .. 6 -> 0 .. 255]
  PROVE  LET t == macHex2String(mac)
         IN  /\ t \in Text /\ Len(t) = 17
             /\ \A i \in 1 .. 6 : t[3 * i - 2] = HexDigit(mac[i] \div 16) /\ t[3 * i - 1] = HexDigit(mac[i] % 16)
<1> DEFINE hex == [i \in DOMAIN mac |-> Hex02(mac[i])]
           ss == [i \in DOMAIN hex |-> (IF i = 1 THEN <<>> ELSE <<MINUS>>) \o hex[i]]
           t == FlattenSeq(ss)
<1>1. t = macHex2String(mac)
  BY DEF macHex2String, Joined
<1>2. ASSUME NEW i \in 1 .. 6
      PROVE  LET h == HexDigit(mac[i] \div 16)
                 l == HexDigit(mac[i] % 16)
             IN  h \in Byte /\ l \in Byte /\ ss[i] = IF i = 1 THEN <<h, l>> ELSE <<MINUS, h, l>>
  <2>1. mac[i] \div 16 \in 0 .. 15 /\ mac[i] % 16 \in 0 .. 15
    BY Bytes
  <2> DEFINE h == HexDigit(mac[i] \div 16)
             l == HexDigit(mac[i] % 16)
  <2>2. h \in Byte /\ l \in Byte
    BY <2>1, HexValues
  <2>3. ss[i] = (IF i = 1 THEN <<>> ELSE <<MINUS>>) \o <<h, l>>
    BY DEF Hex02
  <2> HIDE DEF h, l, ss
  <2>4. <<>> \o <<h, l>> = <<h, l>> /\ <<MINUS>> \o <<h, l>> = <<MINUS, h, l>>
    <3>1. MINUS \in Byte
      BY DEF MINUS, Byte
    <3>2. h \in Byte /\ l \in Byte
      BY <2>2 DEF h, l
    <3> QED BY <3>1, <3>2, ThreeInARow
  <2>5. ss[i] = IF i = 1 THEN <<h, l>> ELSE <<MINUS, h, l>>
    BY <2>3, <2>4
  <2> QED BY <2>2, <2>5 DEF h, l
<1>3. ss \in [1 .. 6 -> Seq(Byte)] /\ Len(ss[1]) = 2 /\ \A i \in 2 .. 6 : Len(ss[i]) = 3
  <2>1. ASSUME NEW i \in 1 .. 6 PROVE ss[i] \in Seq(Byte) /\ Len(ss[i]) = IF i = 1 THEN 2 ELSE 3
    <3> DEFINE h == HexDigit(mac[i] \div 16)
               l == HexDigit(mac[i] % 16)
    <3>1. h \in Byte /\ l \in Byte /\ ss[i] = IF i = 1 THEN <<h, l>> ELSE <<MINUS, h, l>>
      BY <1>2
    <3>2. MINUS \in Byte
      BY DEF MINUS, Byte
    <3> HIDE DEF h, l, ss
    <3> QED BY <3>1, <3>2
  <2>2. DOMAIN ss = 1 .. 6 /\ ss = [i \in 1 .. 6 |-> ss[i]]
    OBVIOUS
  <2> HIDE DEF ss
  <2> QED BY <2>1, <2>2
<1>4. ss \in Seq(Seq(Byte)) /\ Len(ss) = 6
  <2> DEFINE T == Seq(Byte)
  <2>1. ss \in [1 .. 6 -> T] /\ 6 \in Nat
    BY <1>3
  <2> HIDE DEF ss, T
  <2>2. ss \in Seq(T) /\ Len(ss) = 6
    BY <2>1, ASequence
  <2> QED BY <2>2 DEF T
<1> HIDE DEF ss
<1>5. PlacedIn(ss)
  BY <1>4, Placed
<1>6. \A k \in 1 .. 6 : Upto(ss, k) = 3 * k - 1
  <2>1. Upto(ss, 0) = 0
    BY <1>5 DEF PlacedIn
  <2>2. ASSUME NEW k \in 1 .. 6, NEW j, j = k - 1
        PROVE  Upto(ss, k) = Upto(ss, j) + IF k = 1 THEN 2 ELSE 3
    <3>1. Upto(ss, k) = Upto(ss, j) + Len(ss[k])
      BY <1>4, <1>5, <2>2 DEF PlacedIn
    <3>2. Len(ss[k]) = IF k = 1 THEN 2 ELSE 3
      <4>1. k = 1 \/ k \in 2 .. 6
        OBVIOUS
      <4> QED BY <1>3, <4>1
    <3> QED BY <3>1, <3>2
  <2>3. Upto(ss, 1) = 2
    BY <2>1, <2>2
  <2>4. Upto(ss, 2) = 5
    BY <2>2, <2>3
  <2>5. Upto(ss, 3) = 8
    BY <2>2, <2>4
  <2>6. Upto(ss, 4) = 11
    BY <2>2, <2>5
  <2>7. Upto(ss, 5) = 14
    BY <2>2, <2>6
  <2>9. Upto(ss, 6) = 17
    BY <2>2, <2>7
  <2>8. \A k \in 1 .. 6 : k = 1 \/ k = 2 \/ k = 3 \/ k = 4 \/ k = 5 \/ k = 6
    OBVIOUS
  <2> QED BY <2>3, <2>4, <2>5, <2>6, <2>7, <2>8, <2>9
<1>7. t \in Text /\ Len(t) = 17
  <2>1. Upto(ss, 6) = Len(t)
    BY <1>4, <1>5 DEF PlacedIn
  <2>2. Upto(ss, 6) = 17
    BY <1>6
  <2> QED BY <1>4, <2>1, <2>2, FlattenTyped DEF Text
<1>8. ASSUME NEW i \in 1 .. 6
      PROVE  t[3 * i - 2] = HexDigit(mac[i] \div 16) /\ t[3 * i - 1] = HexDigit(mac[i] % 16)
  <2> DEFINE h == HexDigit(mac[i] \div 16)
             l == HexDigit(mac[i] % 16)
             n == IF i = 1 THEN 2 ELSE 3
  <2>1. ss[i] = (IF i = 1 THEN <<h, l>> ELSE <<MINUS, h, l>>) /\ Len(ss[i]) = n
    <3>1. ss[i] = IF i = 1 THEN <<h, l>> ELSE <<MINUS, h, l>>
      BY <1>2
    <3>2. i = 1 \/ i \in 2 .. 6
      OBVIOUS
    <3> HIDE DEF h, l
    <3> QED BY <1>3, <3>1, <3>2
  <2>2. \A j \in 1 .. n : t[Upto(ss, i - 1) + j] = ss[i][j]
    BY <1>4, <1>5, <2>1 DEF PlacedIn
  <2>3. Upto(ss, i - 1) + n = 3 * i - 1 /\ Upto(ss, i - 1) + (n - 1) = 3 * i - 2
    BY <1>5, <1>6 DEF PlacedIn
  <2> HIDE DEF h, l
  <2>4. ss[i][n] = l /\ ss[i][n - 1] = h
    BY <2>1
  <2>5. n \in 1 .. n /\ n - 1 \in 1 .. n
    OBVIOUS
  <2> HIDE DEF n
  <2> QED BY <2>2, <2>3, <2>4, <2>5 DEF h, l
<1> QED BY <1>1, <1>7, <1>8

(* A MAC address is what was typed, and stays it.                           *)
THEOREM MacStaysKept == Spec => []MacIsKept
<1> SUFFICES ASSUME TextsRight, Answered("mac"), result.read.ret = 0
             PROVE  /\ \A i \in 1 .. 6 :
                         {call.text[3 * i - 2], call.text[3 * i - 1]} \subseteq HexChars =>
                           result.read.mac[i] =
                             16 * cgiHexValue(call.text[3 * i - 2]) + cgiHexValue(call.text[3 * i - 1])
                    /\ result.again = result.read
  <2>1. TextsRight => MacIsKept
    BY DEF MacIsKept
  <2> QED BY <2>1, TextsAreRight, PTL
<1> DEFINE read == macString2Hex(call.text, call.temp)
           mac == read.mac
           str == macHex2String(mac)
           again == macString2Hex(str, call.temp)
<1>1. /\ call.text \in Text /\ call.temp \in Int
      /\ result = [read |-> read, again |-> again]
  BY Asked, CallIs DEF MacCall, Answer
<1> HIDE DEF read
<1>2. Len(call.text) >= 17
  <2>1. read.ret = 0
    BY <1>1
  <2>2. Len(call.text) < 17 => read.ret = -1
    BY DEF read, macString2Hex
  <2>3. Len(call.text) \in Nat
    BY <1>1, LenProperties DEF Text
  <2> QED BY <2>1, <2>2, <2>3
<1>3. /\ read = [ret |-> 0, mac |-> mac]
      /\ mac \in [1 .. 6 -> 0 .. 255]
      /\ \A i \in 1 .. 6 :
           {call.text[3 * i - 2], call.text[3 * i - 1]} \subseteq HexChars =>
             mac[i] = 16 * cgiHexValue(call.text[3 * i - 2]) + cgiHexValue(call.text[3 * i - 1])
  <2>1. MacReads(call.text, read)
    BY <1>1, <1>2, MacRead DEF read
  <2> QED BY <2>1 DEF MacReads
<1>4. /\ str \in Text /\ Len(str) = 17
      /\ \A i \in 1 .. 6 : str[3 * i - 2] = HexDigit(mac[i] \div 16) /\ str[3 * i - 1] = HexDigit(mac[i] % 16)
  BY <1>3, MacWritten
<1> HIDE DEF mac, str
<1>5. /\ again = [ret |-> 0, mac |-> again.mac]
      /\ again.mac \in [1 .. 6 -> 0 .. 255]
      /\ \A i \in 1 .. 6 :
           {str[3 * i - 2], str[3 * i - 1]} \subseteq HexChars =>
             again.mac[i] = 16 * cgiHexValue(str[3 * i - 2]) + cgiHexValue(str[3 * i - 1])
  <2>1. MacReads(str, again)
    <3>1. Len(str) >= 17
      BY <1>4
    <3> QED BY <1>1, <1>4, <3>1, MacRead
  <2> HIDE DEF again
  <2> QED BY <2>1 DEF MacReads
<1> HIDE DEF again
<1>6. ASSUME NEW i \in 1 .. 6 PROVE again.mac[i] = mac[i]
  <2> DEFINE h == mac[i] \div 16
             l == mac[i] % 16
  <2>1. h \in 0 .. 15 /\ l \in 0 .. 15 /\ 16 * h + l = mac[i]
    BY <1>3, Bytes
  <2>2. str[3 * i - 2] = HexDigit(h) /\ str[3 * i - 1] = HexDigit(l)
    BY <1>4
  <2> HIDE DEF h, l
  <2>3. /\ HexDigit(h) \in HexChars /\ HexDigit(l) \in HexChars
        /\ cgiHexValue(HexDigit(h)) = h /\ cgiHexValue(HexDigit(l)) = l
    BY <2>1, HexValues
  <2>4. again.mac[i] = 16 * h + l
    BY <1>5, <2>2, <2>3
  <2> QED BY <2>1, <2>4
<1>7. again.mac = mac
  BY <1>3, <1>5, <1>6
<1>8. again = read
  BY <1>3, <1>5, <1>7
<1> QED BY <1>1, <1>3, <1>8
-------------------------------------------------------------------------------
(* The first texts, and those with one more.                                *)
LEMMA FirstOnes ==
  ASSUME NEW R, NEW v \in Seq(R), NEW k \in 1 .. Len(v)
  PROVE  /\ SubSeq(v, 1, k - 1) \in Seq(R) /\ SubSeq(v, 1, k) \in Seq(R) /\ v[k] \in R
         /\ SubSeq(v, 1, k) = Append(SubSeq(v, 1, k - 1), v[k])
<1> DEFINE w == SubSeq(v, 1, k - 1)
<1>1. Len(v) \in Nat /\ k \in Nat /\ k - 1 \in Int /\ k <= Len(v)
  BY LenProperties
<1>2. \A i \in 1 .. Len(v) : v[i] \in R
  BY ElementOfSeq
<1>3. w \in Seq(R)
  BY <1>1, <1>2, SubSeqProperties
<1>4. SubSeq(v, 1, k) \in Seq(R)
  BY <1>1, <1>2, SubSeqProperties
<1>5. SubSeq(v, 1, k) = w \o <<v[k]>>
  BY <1>1, SubSeqRecursiveSecond
<1>6. Append(w, v[k]) = w \o <<v[k]>>
  BY <1>2, <1>3, AppendIsConcat
<1> QED BY <1>2, <1>3, <1>4, <1>5, <1>6

(* The first none of a sequence are none.                                   *)
LEMMA FirstNone ==
  ASSUME NEW v PROVE SubSeq(v, 1, 0) = <<>>
BY SubSeqEmpty

(* The first k texts are the first k - 1 with the k-th behind them.         *)
LEMMA FlattenFirst ==
  ASSUME NEW R, NEW ss \in Seq(Seq(R)), NEW k \in 1 .. Len(ss)
  PROVE  FlattenSeq(SubSeq(ss, 1, k)) = FlattenSeq(SubSeq(ss, 1, k - 1)) \o ss[k]
<1>1. /\ SubSeq(ss, 1, k - 1) \in Seq(Seq(R)) /\ ss[k] \in Seq(R)
      /\ SubSeq(ss, 1, k) = Append(SubSeq(ss, 1, k - 1), ss[k])
  <2> DEFINE T == Seq(R)
  <2>1. ss \in Seq(T)
    OBVIOUS
  <2> HIDE DEF T
  <2>2. /\ SubSeq(ss, 1, k - 1) \in Seq(T) /\ ss[k] \in T
        /\ SubSeq(ss, 1, k) = Append(SubSeq(ss, 1, k - 1), ss[k])
    BY <2>1, FirstOnes
  <2> QED BY <2>2 DEF T
<1> DEFINE tt == SubSeq(ss, 1, k - 1)
<1>2. tt \in Seq(Seq(R)) /\ SubSeq(ss, 1, k) = Append(tt, ss[k])
  BY <1>1
<1> HIDE DEF tt
<1>3. FlattenSeq(Append(tt, ss[k])) = FlattenSeq(tt) \o ss[k]
  BY <1>1, <1>2, FlattenMore
<1> QED BY <1>2, <1>3 DEF tt

(* Texts of one member each.                                                *)
LEMMA FlattenOnes ==
  ASSUME NEW R, NEW v \in Seq(R)
  PROVE  FlattenSeq([k \in 1 .. Len(v) |-> <<v[k]>>]) = v
<1> DEFINE S == {u \in Seq(R) : FlattenSeq([k \in 1 .. Len(u) |-> <<u[k]>>]) = u}
<1>1. <<>> \in S
  BY EmptySeq, FlattenNone
<1>2. ASSUME NEW u \in Seq(R), NEW x \in R, u \in S PROVE Append(u, x) \in S
  <2> DEFINE n == Len(u)
             w == Append(u, x)
             us == [k \in 1 .. n |-> <<u[k]>>]
             ws == [k \in 1 .. Len(w) |-> <<w[k]>>]
  <2>1. /\ n \in Nat /\ w \in Seq(R) /\ Len(w) = n + 1 /\ w[n + 1] = x
        /\ \A k \in 1 .. n : w[k] = u[k] /\ u[k] \in R
    BY AppendProperties, LenProperties, ElementOfSeq
  <2>2. us \in Seq(Seq(R)) /\ Len(us) = n
    <3> DEFINE T == Seq(R)
    <3>1. us \in [1 .. n -> T]
      BY <2>1
    <3> HIDE DEF T, us, n
    <3>2. us \in Seq(T) /\ Len(us) = n
      BY <2>1, <3>1, ASequence
    <3> QED BY <3>2 DEF T
  <2>3. ws \in Seq(Seq(R)) /\ Len(ws) = n + 1
    <3> DEFINE T == Seq(R)
               m == n + 1
    <3>1. ws \in [1 .. m -> T]
      BY <2>1, ElementOfSeq
    <3>2. m \in Nat
      BY <2>1
    <3> HIDE DEF T, ws, m
    <3>3. ws \in Seq(T) /\ Len(ws) = m
      BY <3>1, <3>2, ASequence
    <3> QED BY <3>3 DEF T, m
  <2>4. Append(us, <<x>>) \in Seq(Seq(R)) /\ Len(Append(us, <<x>>)) = n + 1
        /\ (\A k \in 1 .. n : Append(us, <<x>>)[k] = us[k]) /\ Append(us, <<x>>)[n + 1] = <<x>>
    <3> DEFINE T == Seq(R)
               y == <<x>>
    <3>1. us \in Seq(T) /\ y \in T /\ Len(us) = n
      BY <2>2
    <3> HIDE DEF T, us, n, y
    <3>2. Append(us, y) \in Seq(T) /\ Len(Append(us, y)) = n + 1
          /\ (\A k \in 1 .. n : Append(us, y)[k] = us[k]) /\ Append(us, y)[n + 1] = y
      BY <3>1, AppendProperties
    <3> QED BY <3>2 DEF T, y
  <2>5. ws = Append(us, <<x>>)
    <3> DEFINE vs == Append(us, <<x>>)
               T == Seq(R)
    <3>1. ASSUME NEW k \in 1 .. n + 1 PROVE ws[k] = vs[k]
      BY <2>1, <2>4
    <3>2. ws \in Seq(T) /\ vs \in Seq(T) /\ Len(ws) = Len(vs) /\ \A k \in 1 .. Len(ws) : ws[k] = vs[k]
      BY <2>3, <2>4, <3>1
    <3> HIDE DEF ws, vs, T
    <3>3. ws = vs
      BY <3>2, SeqEqual
    <3> QED BY <3>3 DEF vs
  <2>6. FlattenSeq(us) = u
    BY <1>2
  <2>7. <<x>> \in Seq(R)
    OBVIOUS
  <2> HIDE DEF us, ws, w
  <2>8. FlattenSeq(ws) = u \o <<x>>
    BY <2>2, <2>5, <2>6, <2>7, FlattenMore
  <2>9. w = u \o <<x>>
    BY AppendIsConcat DEF w
  <2> QED BY <2>1, <2>8, <2>9 DEF ws, w
<1>3. Seq(R) \subseteq S
  BY <1>1, <1>2, AllSequences
<1>4. v \in S
  BY <1>3
<1> QED BY <1>4

(* All the texts behind one another, computed from the end, are FlattenSeq. *)
LEMMA FlattenFrom ==
  ASSUME NEW R, NEW ss \in Seq(Seq(R)), NEW w, Rests(ss, w)
  PROVE  w[1] = FlattenSeq(ss)
<1> DEFINE m == Len(ss)
           so(k) == FlattenSeq(SubSeq(ss, 1, k))
           S == {k \in Nat : k <= m => /\ so(k) \in Seq(R) /\ w[k + 1] \in Seq(R)
                                       /\ w[1] = so(k) \o w[k + 1]}
           T == {k \in Nat : k <= m => w[m - k + 1] \in Seq(R)}
<1>1. /\ m \in Nat /\ w[m + 1] = <<>>
      /\ \A k \in 1 .. m : ss[k] \in Seq(R) /\ w[k] = ss[k] \o w[k + 1]
  BY ElementOfSeq, LenProperties DEF Rests
<1>2. \A k \in 1 .. m + 1 : w[k] \in Seq(R)
  <2>1. 0 \in T
    <3>1. m - 0 + 1 = m + 1
      BY <1>1
    <3> QED BY <1>1, <3>1, EmptySeq
  <2>2. ASSUME NEW k \in Nat, k \in T PROVE k + 1 \in T
    <3> SUFFICES ASSUME k + 1 <= m PROVE w[m - (k + 1) + 1] \in Seq(R)
      OBVIOUS
    <3> DEFINE i == m - k
    <3>1. m - (k + 1) + 1 = i /\ i \in 1 .. m /\ m - k + 1 = i + 1 /\ k <= m
      BY <1>1
    <3>2. w[i + 1] \in Seq(R) /\ ss[i] \in Seq(R) /\ w[i] = ss[i] \o w[i + 1]
      BY <1>1, <2>2, <3>1
    <3> HIDE DEF i
    <3>3. w[i] \in Seq(R)
      <4> DEFINE a == ss[i]
                 b == w[i + 1]
      <4>1. a \in Seq(R) /\ b \in Seq(R) /\ w[i] = a \o b
        BY <3>2
      <4> HIDE DEF a, b
      <4> QED BY <4>1, ConcatProperties
    <3> QED BY <3>1, <3>3
  <2>3. Nat \subseteq T
    BY <2>1, <2>2, AllNumbers
  <2> SUFFICES ASSUME NEW k \in 1 .. m + 1 PROVE w[k] \in Seq(R)
    OBVIOUS
  <2>4. m - k + 1 \in T
    <3>1. m - k + 1 \in Nat
      BY <1>1
    <3> QED BY <2>3, <3>1
  <2>5. m - k + 1 <= m /\ m - (m - k + 1) + 1 = k
    BY <1>1
  <2> QED BY <2>4, <2>5
<1>3. 0 \in S
  <2>1. so(0) = <<>>
    BY FirstNone, FlattenNone
  <2>2. 1 \in 1 .. m + 1 /\ 0 + 1 = 1
    BY <1>1
  <2>3. w[1] \in Seq(R)
    BY <1>2, <2>2
  <2>4. <<>> \o w[1] = w[1]
    BY <2>3, ConcatEmptySeq
  <2> QED BY <2>1, <2>2, <2>3, <2>4, EmptySeq
<1>4. ASSUME NEW j \in Nat, j \in S PROVE j + 1 \in S
  <2> SUFFICES ASSUME j + 1 <= m PROVE j + 1 \in S
    <3> HIDE DEF so, m
    <3>1. ~(j + 1 <= m) => j + 1 \in S
      OBVIOUS
    <3> HIDE DEF S
    <3> QED BY <3>1
  <2> DEFINE k == j + 1
             a == so(j)
             b == ss[k]
             c == w[k + 1]
  <2>1. k \in 1 .. m /\ k + 1 \in 1 .. m + 1 /\ k - 1 = j /\ j <= m
    BY <1>1
  <2>2. a \in Seq(R) /\ w[1] = a \o w[k]
    BY <1>4, <2>1
  <2>3. b \in Seq(R) /\ c \in Seq(R) /\ w[k] = b \o c
    BY <1>1, <1>2, <2>1
  <2>4. so(k) = a \o b
    BY <2>1, FlattenFirst
  <2> HIDE DEF a, b, c
  <2>5. a \o (b \o c) = (a \o b) \o c /\ a \o b \in Seq(R)
    <3>1. a \in Seq(R) /\ b \in Seq(R) /\ c \in Seq(R)
      BY <2>2, <2>3
    <3>2. (a \o b) \o c = a \o (b \o c)
      BY <3>1
    <3>3. a \o b \in Seq(R)
      BY <3>1, ConcatProperties, Zenon
    <3> QED BY <3>2, <3>3
  <2>6. so(k) \in Seq(R) /\ w[1] = so(k) \o c /\ c \in Seq(R)
    BY <2>2, <2>3, <2>4, <2>5
  <2>7. k \in Nat /\ so(k) \in Seq(R) /\ w[k + 1] \in Seq(R) /\ w[1] = so(k) \o w[k + 1]
    BY <2>6 DEF c
  <2> HIDE DEF so, k
  <2>8. k \in S
    BY <2>7
  <2> QED BY <2>8 DEF k
<1>5. Nat \subseteq S
  BY <1>3, <1>4, AllNumbers
<1>6. w[1] = so(m) \o w[m + 1] /\ so(m) \in Seq(R)
  <2>1. m \in S /\ m <= m
    <3> HIDE DEF S
    <3>1. m \in Nat /\ m <= m
      BY <1>1
    <3> QED BY <1>5, <3>1
  <2> QED BY <2>1
<1>7. so(m) \o <<>> = so(m)
  BY <1>6, ConcatEmptySeq
<1>8. SubSeq(ss, 1, Len(ss)) = ss
  <2> DEFINE V == Seq(R)
  <2>1. ss \in Seq(V)
    OBVIOUS
  <2> HIDE DEF V
  <2> QED BY <2>1, SubSeqFull
<1> QED BY <1>1, <1>6, <1>7, <1>8

(* Every place of the whole is a place of one of the texts.                 *)
LEMMA PlacedOnce ==
  ASSUME NEW R, NEW ss \in Seq(Seq(R)), NEW p \in 1 .. Len(FlattenSeq(ss))
  PROVE  \E k \in 1 .. Len(ss) : \E j \in 1 .. Len(ss[k]) : p = Upto(ss, k - 1) + j
<1> DEFINE n == Len(ss)
           S == {k \in Nat : k <= n => \A q \in 1 .. Upto(ss, k) :
                   \E i \in 1 .. n : \E j \in 1 .. Len(ss[i]) : q = Upto(ss, i - 1) + j}
<1>1. PlacedIn(ss) /\ n \in Nat /\ Len(FlattenSeq(ss)) \in Nat
  BY Placed, LenProperties, FlattenTyped
<1>2. 0 \in S
  BY <1>1 DEF PlacedIn
<1>3. ASSUME NEW i \in Nat, i \in S PROVE i + 1 \in S
  <2> DEFINE k == i + 1
  <2> SUFFICES ASSUME k <= n, NEW q \in 1 .. Upto(ss, k)
               PROVE  \E l \in 1 .. n : \E j \in 1 .. Len(ss[l]) : q = Upto(ss, l - 1) + j
    OBVIOUS
  <2>1. k \in 1 .. n /\ k - 1 = i /\ i <= n /\ i \in 0 .. n
    BY <1>1
  <2>2. Upto(ss, k) = Upto(ss, i) + Len(ss[k]) /\ Upto(ss, i) \in Nat /\ Len(ss[k]) \in Nat
    BY <2>1, <1>1, ElementOfSeq, LenProperties DEF PlacedIn
  <2> HIDE DEF k, n
  <2>3. CASE q <= Upto(ss, i)
    BY <2>2, <2>3, <1>3, <2>1
  <2>4. CASE q > Upto(ss, i)
    <3>1. q - Upto(ss, i) \in 1 .. Len(ss[k]) /\ q = Upto(ss, k - 1) + (q - Upto(ss, i))
      BY <2>1, <2>2, <2>4
    <3> QED BY <2>1, <3>1
  <2> QED BY <2>2, <2>3, <2>4
<1>4. Nat \subseteq S
  BY <1>2, <1>3, AllNumbers
<1>5. n \in S /\ p \in 1 .. Upto(ss, n)
  BY <1>1, <1>4 DEF PlacedIn
<1> QED BY <1>1, <1>5

(* So a walk puts out FlattenSeq of what is put out along it.               *)
LEMMA WalkAlong ==
  ASSUME NEW R, NEW n \in Nat, NEW next, NEW out, Forward(next, n),
         NEW ws \in Seq(Seq(R)), NEW at, Along(next, out, n, at, ws)
  PROVE  Walk(next, out, at[1]) = FlattenSeq(ws)
<1> DEFINE m == Len(ws)
           w == [k \in 1 .. m + 1 |-> Walk(next, out, at[k])]
<1>1. /\ m \in Nat /\ at[m + 1] \in Nat /\ at[m + 1] \notin 1 .. n
      /\ \A k \in 1 .. m : at[k] \in 1 .. n /\ next[at[k]] = at[k + 1] /\ out[at[k]] = ws[k]
  BY LenProperties DEF Along
<1>2. ASSUME NEW k \in 1 .. m PROVE w[k] = ws[k] \o w[k + 1]
  <2>1. at[k] \in 1 .. n /\ next[at[k]] = at[k + 1] /\ out[at[k]] = ws[k]
    BY <1>1
  <2>2. at[k] \in Nat
    BY <2>1
  <2>3. Walk(next, out, at[k]) = out[at[k]] \o Walk(next, out, next[at[k]])
    BY <2>1, <2>2, WalkStep
  <2>4. k \in 1 .. m + 1 /\ k + 1 \in 1 .. m + 1
    BY <1>1
  <2> QED BY <2>1, <2>3, <2>4
<1>3. w[m + 1] = <<>>
  <2> DEFINE p == at[m + 1]
  <2>1. p \in Nat /\ p \notin 1 .. n
    BY <1>1
  <2>2. m + 1 \in 1 .. m + 1
    BY <1>1
  <2>3. w[m + 1] = Walk(next, out, p)
    BY <2>2
  <2> HIDE DEF p, w
  <2>4. Walk(next, out, p) = <<>>
    BY <2>1, WalkStep
  <2> QED BY <2>3, <2>4
<1>4. w[1] = Walk(next, out, at[1])
  BY <1>1
<1> HIDE DEF w
<1>5. w[1] = FlattenSeq(ws)
  BY <1>2, <1>3, FlattenFrom DEF Rests
<1> QED BY <1>4, <1>5
-------------------------------------------------------------------------------
(* The least of two numbers.                                                *)
LEMMA LeastOfTwo ==
  ASSUME NEW a \in Nat, NEW b \in Nat PROVE Min({a, b}) = IF a <= b THEN a ELSE b
<1>1. CASE a <= b
  BY <1>1, LeastIs
<1>2. CASE ~(a <= b)
  BY <1>2, LeastIs
<1> QED BY <1>1, <1>2

(* A part of a text.                                                        *)
LEMMA PartOf ==
  ASSUME NEW R, NEW s \in Seq(R), NEW i \in Nat, i >= 1, NEW j \in Nat, j <= Len(s)
  PROVE  /\ SubSeq(s, i, j) \in Seq(R)
         /\ Len(SubSeq(s, i, j)) = IF i <= j THEN j - i + 1 ELSE 0
         /\ \A k \in Nat : 1 <= k /\ k <= j - i + 1 => SubSeq(s, i, j)[k] = s[i + k - 1]
<1>1. \A k \in i .. j : s[k] \in R
  BY LenProperties, ElementOfSeq
<1>2. /\ SubSeq(s, i, j) \in Seq(R)
      /\ Len(SubSeq(s, i, j)) = IF i <= j THEN j - i + 1 ELSE 0
      /\ \A k \in 1 .. j - i + 1 : SubSeq(s, i, j)[k] = s[i + k - 1]
  BY <1>1, SubSeqProperties
<1> QED BY <1>2

(* The four entities are told apart by their second byte, and hold none of  *)
(* the bytes they stand for but the &.                                      *)
LEMMA Entities ==
  /\ DOMAIN Entity = Special
  /\ \A x \in Special : /\ Entity[x] \in Seq(Byte) /\ Len(Entity[x]) = 3 /\ Entity[x][1] = AMP
                        /\ \A i \in 1 .. 3 : Entity[x][i] \in Byte \ {LT, GT, QUOTE}
  /\ \A x, y \in Special : Entity[x][2] = Entity[y][2] => x = y
<1> DEFINE letter(c) == CASE c = LT -> 108 [] c = AMP -> 97 [] c = GT -> 103 [] c = QUOTE -> HASH
<1>1. DOMAIN Entity = Special /\ \A x \in Special : Entity[x] = <<AMP, letter(x), SEMI>>
  BY DEF Entity, Special
<1>2. /\ \A x \in Special : letter(x) \in {108, 97, 103, 35}
      /\ \A x, y \in Special : letter(x) = letter(y) => x = y
  <2>1. LT = 60 /\ AMP = 38 /\ GT = 62 /\ QUOTE = 34 /\ HASH = 35
    BY DEF LT, AMP, GT, QUOTE, HASH
  <2>2. letter(LT) = 108 /\ letter(AMP) = 97 /\ letter(GT) = 103 /\ letter(QUOTE) = 35
    BY <2>1
  <2>3. \A x \in Special : x = LT \/ x = AMP \/ x = GT \/ x = QUOTE
    BY DEF Special
  <2> HIDE DEF letter
  <2> QED BY <2>2, <2>3
<1>3. {AMP, SEMI, 108, 97, 103, 35} \subseteq Byte \ {LT, GT, QUOTE}
  BY DEF Byte, AMP, SEMI, LT, GT, QUOTE
<1> HIDE DEF letter
<1>4. ASSUME NEW x \in Special
      PROVE  /\ Entity[x] \in Seq(Byte) /\ Len(Entity[x]) = 3 /\ Entity[x][1] = AMP /\ Entity[x][2] = letter(x)
             /\ \A i \in 1 .. 3 : Entity[x][i] \in Byte \ {LT, GT, QUOTE}
  <2>1. Entity[x] = <<AMP, letter(x), SEMI>> /\ {AMP, letter(x), SEMI} \subseteq Byte \ {LT, GT, QUOTE}
    BY <1>1, <1>2, <1>3
  <2> QED BY <2>1
<1> QED BY <1>1, <1>2, <1>4

(* An escaped text holds none of the bytes that are escaped, but the &.     *)
LEMMA EscapedPieces ==
  ASSUME NEW s \in Text, NEW C \in SUBSET Special, NEW X \in SUBSET {LT, GT, QUOTE}, X \subseteq C
  PROVE  /\ Escapes(s, C) \in Seq(Seq(Byte \ X)) /\ Escapes(s, C) \in Seq(Seq(Byte))
         /\ Len(Escapes(s, C)) = Len(s)
         /\ Escaped(s, C) = FlattenSeq(Escapes(s, C))
         /\ Escaped(s, C) \in Seq(Byte \ X) /\ Escaped(s, C) \in Seq(Byte)
<1> DEFINE ss == Escapes(s, C)
           n == Len(s)
<1>1. n \in Nat /\ DOMAIN s = 1 .. n /\ \A i \in 1 .. n : s[i] \in Byte
  BY LenProperties, ElementOfSeq DEF Text
<1>2. ASSUME NEW Y \in SUBSET {LT, GT, QUOTE}, Y \subseteq C
      PROVE  ss \in Seq(Seq(Byte \ Y)) /\ Len(ss) = n
  <2>1. ASSUME NEW i \in 1 .. n PROVE ss[i] \in Seq(Byte \ Y)
    <3>1. CASE s[i] \in C
      <4>1. ss[i] = Entity[s[i]] /\ s[i] \in Special
        BY <1>1, <3>1 DEF Escapes
      <4>2. /\ Entity[s[i]] \in Seq(Byte) /\ Len(Entity[s[i]]) = 3
            /\ \A j \in 1 .. 3 : Entity[s[i]][j] \in Byte \ Y
        BY <4>1, Entities
      <4> DEFINE e == Entity[s[i]]
      <4>3. DOMAIN e = 1 .. 3
        BY <4>2, LenProperties
      <4>4. e \in [1 .. 3 -> Byte \ Y]
        BY <4>2, LenProperties DEF e
      <4>5. e \in Seq(Byte \ Y)
        <5> DEFINE B == Byte \ Y
        <5>1. e \in [1 .. 3 -> B]
          BY <4>4
        <5> HIDE DEF e, B
        <5>2. e \in Seq(B)
          BY <5>1, ASequence
        <5> QED BY <5>2 DEF B
      <4> QED BY <4>1, <4>5
    <3>2. CASE s[i] \notin C
      BY <1>1, <1>2, <3>2 DEF Escapes
    <3> QED BY <3>1, <3>2
  <2> DEFINE T == Seq(Byte \ Y)
  <2>2. ss = [i \in 1 .. n |-> ss[i]]
    BY <1>1 DEF Escapes
  <2> HIDE DEF ss
  <2>3. ss \in [1 .. n -> T]
    BY <2>1, <2>2
  <2> HIDE DEF T, n
  <2>4. ss \in Seq(T) /\ Len(ss) = n
    BY <1>1, <2>3, ASequence
  <2> QED BY <2>4 DEF T
<1>3. ss \in Seq(Seq(Byte \ X)) /\ Len(ss) = n
  BY <1>2
<1>4. ss \in Seq(Seq(Byte))
  <2>1. ss \in Seq(Seq(Byte \ {}))
    BY <1>2
  <2>2. Byte \ {} = Byte
    OBVIOUS
  <2> HIDE DEF ss
  <2> QED BY <2>1, <2>2
<1>5. Escaped(s, C) = FlattenSeq(ss)
  BY DEF Escaped, Escapes
<1> HIDE DEF ss
<1>6. FlattenSeq(ss) \in Seq(Byte \ X)
  <2> DEFINE B == Byte \ X
  <2>1. ss \in Seq(Seq(B))
    BY <1>3
  <2> HIDE DEF B
  <2>2. FlattenSeq(ss) \in Seq(B)
    BY <2>1, FlattenTyped
  <2> QED BY <2>2 DEF B
<1>7. FlattenSeq(ss) \in Seq(Byte)
  BY <1>4, FlattenTyped
<1> QED BY <1>3, <1>4, <1>5, <1>6, <1>7 DEF ss

(* A browser shows an escaped text as it is.                                *)
LEMMA ShownIsEscaped ==
  ASSUME NEW s \in Text, NEW C \in SUBSET Special,
         AMP \in C \/ AMP \notin ToSet(s)
  PROVE  Shown(Escaped(s, C)) = s
<1> DEFINE ss == Escapes(s, C)
           e == Escaped(s, C)
           n == Len(e)
           m == Len(s)
           entities(i) == {x \in DOMAIN Entity : SubSeq(e, i, Min({i + 2, Len(e)})) = Entity[x]}
           next == [i \in DOMAIN e |-> IF entities(i) = {} THEN i + 1 ELSE i + 3]
           out == [i \in DOMAIN e |-> IF entities(i) = {} THEN <<e[i]>> ELSE <<CHOOSE x \in entities(i) : TRUE>>]
           at == [k \in 1 .. m + 1 |-> Upto(ss, k - 1) + 1]
           ws == [k \in 1 .. m |-> <<s[k]>>]
<1>1. /\ ss \in Seq(Seq(Byte)) /\ Len(ss) = m /\ e = FlattenSeq(ss) /\ e \in Seq(Byte)
      /\ n \in Nat /\ m \in Nat /\ DOMAIN e = 1 .. n /\ DOMAIN s = 1 .. m
  <2>1. {} \in SUBSET {LT, GT, QUOTE} /\ {} \subseteq C
    OBVIOUS
  <2>2. ss \in Seq(Seq(Byte)) /\ Len(ss) = m /\ e = FlattenSeq(ss) /\ e \in Seq(Byte)
    BY <2>1, EscapedPieces
  <2> QED BY <2>2, LenProperties DEF Text
<1>2. Shown(e) = Walk(next, out, 1)
  BY DEF Shown
<1>3. /\ Upto(ss, 0) = 0 /\ Upto(ss, m) = n
      /\ \A k \in 0 .. m : Upto(ss, k) \in 0 .. n
      /\ \A k \in 1 .. m : Upto(ss, k) = Upto(ss, k - 1) + Len(ss[k])
      /\ \A k \in 1 .. m : \A j \in 1 .. Len(ss[k]) : e[Upto(ss, k - 1) + j] = ss[k][j]
  <2>1. PlacedIn(ss)
    BY <1>1, Placed
  <2> HIDE DEF ss, e, m
  <2> QED BY <1>1, <2>1 DEF PlacedIn
<1>4. ASSUME NEW k \in 1 .. m
      PROVE  at[k] \in 1 .. n /\ next[at[k]] = at[k + 1] /\ out[at[k]] = ws[k]
  <2> DEFINE u == Upto(ss, k - 1)
             p == u + 1
             q == Min({p + 2, Len(e)})
  <2>1. /\ k - 1 \in 0 .. m /\ k \in 0 .. m /\ (k + 1) - 1 = k /\ s[k] \in Byte
        /\ u \in 0 .. n /\ Upto(ss, k) \in 0 .. n /\ Upto(ss, k) = u + Len(ss[k])
        /\ \A j \in 1 .. Len(ss[k]) : e[u + j] = ss[k][j]
    <3>1. k - 1 \in 0 .. m /\ k \in 0 .. m /\ (k + 1) - 1 = k
      BY <1>1
    <3>2. s[k] \in Byte
      BY ElementOfSeq DEF Text
    <3> HIDE DEF ss, e
    <3> QED BY <1>3, <3>1, <3>2
  <2>2. at[k] = p /\ at[k + 1] = Upto(ss, k) + 1
    BY <1>1, <2>1
  <2>3. CASE s[k] \in C
    <3>1. ss[k] = Entity[s[k]] /\ s[k] \in Special
      BY <1>1, <2>3 DEF Escapes
    <3>2. /\ Entity[s[k]] \in Seq(Byte) /\ Len(Entity[s[k]]) = 3
      BY <3>1, Entities
    <3>3. /\ p \in 1 .. n /\ p + 2 \in 1 .. n /\ p + 2 <= n
          /\ \A j \in 1 .. 3 : e[u + j] = Entity[s[k]][j]
      <4> HIDE DEF u, n, ss, e
      <4> QED BY <1>1, <2>1, <3>1, <3>2
    <3>4. q = p + 2
      <4>1. p + 2 \in Nat /\ n \in Nat /\ Min({p + 2, n}) = p + 2
        <5> DEFINE r == p + 2
        <5>1. r \in Nat /\ n \in Nat /\ r <= n
          BY <1>1, <3>3
        <5> HIDE DEF r, n
        <5>2. Min({r, n}) = r
          BY <5>1, LeastOfTwo
        <5> QED BY <5>1, <5>2 DEF r
      <4> QED BY <4>1
    <3> DEFINE t == SubSeq(e, p, q)
    <3>5. t = Entity[s[k]]
      <4> HIDE DEF q, u, e, n
      <4>1. /\ t \in Seq(Byte) /\ Len(t) = 3
            /\ \A j \in Nat : 1 <= j /\ j <= 3 => t[j] = e[p + j - 1]
        <5>1. p \in Nat /\ p >= 1 /\ p + 2 \in Nat /\ p + 2 <= Len(e) /\ (p + 2) - p + 1 = 3 /\ p <= p + 2
          BY <1>1, <3>3 DEF n
        <5> DEFINE r == p + 2
        <5>2. r \in Nat /\ r <= Len(e) /\ r - p + 1 = 3 /\ p <= r /\ t = SubSeq(e, p, r)
          BY <3>4, <5>1
        <5> HIDE DEF p, r, t
        <5> QED BY <1>1, <5>1, <5>2, PartOf
      <4>2. \A j \in 1 .. 3 : t[j] = Entity[s[k]][j]
        BY <2>1, <3>3, <4>1
      <4> HIDE DEF t
      <4> QED BY <3>2, <4>1, <4>2, SeqEqual
    <3>6. entities(p) = {s[k]}
      BY <3>1, <3>5, Entities
    <3> HIDE DEF entities
    <3>7. next[p] = p + 3 /\ out[p] = <<s[k]>>
      BY <1>1, <3>3, <3>6
    <3>8. p + 3 = Upto(ss, k) + 1
      BY <2>1, <3>1, <3>2
    <3> QED BY <2>2, <3>3, <3>7, <3>8
  <2>4. CASE s[k] \notin C
    <3>1. ss[k] = <<s[k]>> /\ Len(ss[k]) = 1 /\ ss[k][1] = s[k]
      BY <1>1, <2>4 DEF Escapes
    <3>2. p \in 1 .. n /\ e[p] = s[k]
      BY <1>1, <2>1, <3>1
    <3>3. s[k] # AMP
      BY <1>1, <2>4 DEF ToSet
    <3>4. entities(p) = {}
      <4> SUFFICES ASSUME NEW x \in Special, SubSeq(e, p, q) = Entity[x] PROVE FALSE
        BY Entities
      <4>1. q \in Nat /\ p <= q /\ q <= Len(e)
        <5>1. p + 2 \in Nat /\ n \in Nat
          BY <1>1, <3>2
        <5>2. q = IF p + 2 <= n THEN p + 2 ELSE n
          BY <5>1, LeastOfTwo DEF n
        <5> HIDE DEF q, u, n
        <5>3. q \in Nat /\ p <= q /\ q <= n
          BY <3>2, <5>1, <5>2
        <5> QED BY <5>3 DEF n
      <4>2. SubSeq(e, p, q)[1] = e[p + 1 - 1]
        BY <3>2, <4>1, <1>1, PartOf
      <4>3. p + 1 - 1 = p
        BY <2>1
      <4>4. Entity[x][1] = AMP
        BY Entities
      <4> HIDE DEF p, q, e
      <4> QED BY <3>2, <3>3, <4>2, <4>3, <4>4
    <3> HIDE DEF entities
    <3>5. next[p] = p + 1 /\ out[p] = <<s[k]>>
      BY <1>1, <3>2, <3>4
    <3>6. p + 1 = Upto(ss, k) + 1
      BY <2>1, <3>1
    <3> QED BY <2>2, <3>2, <3>5, <3>6
  <2> QED BY <2>3, <2>4
<1>5. Forward(next, n)
  BY <1>1 DEF Forward
<1>6. ws \in Seq(Seq(Byte)) /\ Len(ws) = m /\ FlattenSeq(ws) = s
  <2> DEFINE T == Seq(Byte)
  <2>1. ws \in [1 .. m -> T]
    BY ElementOfSeq DEF Text
  <2> HIDE DEF T, ws
  <2>2. ws \in Seq(T) /\ Len(ws) = m
    BY <1>1, <2>1, ASequence
  <2> QED BY <2>2, FlattenOnes DEF T, ws, Text
<1>7. Along(next, out, n, at, ws)
  <2>1. at[1] = 1 /\ at[m + 1] = n + 1
    BY <1>1, <1>3
  <2> HIDE DEF at, next, out, n, m, ws, e
  <2>2. at[1] \in Nat /\ at[m + 1] \in Nat /\ at[m + 1] \notin 1 .. n
    BY <1>1, <2>1
  <2> QED BY <1>4, <1>6, <2>2 DEF Along
<1>8. at[1] = 1
  BY <1>1, <1>3
<1> HIDE DEF at, next, out, n, m, ws, e
<1>9. Walk(next, out, at[1]) = FlattenSeq(ws)
  BY <1>1, <1>5, <1>6, <1>7, WalkAlong
<1> QED BY <1>2, <1>6, <1>8, <1>9 DEF e

(* The output takes the text whole, or reports that it did not; and what it *)
(* takes is a part of it.                                                   *)
LEMMA PutOut ==
  ASSUME NEW R, NEW s \in Seq(R), NEW room \in Nat
  PROVE  /\ Put(s, room).text \in Seq(R)
         /\ Put(s, room).code = "cgiFormSuccess" => Put(s, room).text = s
<1> DEFINE q == Min({Len(s), room})
<1>1. Len(s) \in Nat /\ q = (IF Len(s) <= room THEN Len(s) ELSE room)
  BY LenProperties, LeastOfTwo
<1>2. Put(s, room).text = SubSeq(s, 1, q) /\ (Put(s, room).code = "cgiFormSuccess" => Len(s) <= room)
  BY DEF Put
<1> HIDE DEF q
<1>3. q \in Nat /\ q <= Len(s)
  BY <1>1
<1>4. SubSeq(s, 1, q) \in Seq(R)
  BY <1>3, PartOf
<1>5. SubSeq(s, 1, Len(s)) = s
  BY SubSeqFull
<1> QED BY <1>1, <1>2, <1>4, <1>5

(* A text over what is left of R holds nothing of X.                        *)
LEMMA NoneOf ==
  ASSUME NEW R, NEW X, NEW s \in Seq(R \ X) PROVE ToSet(s) \cap X = {}
<1>1. \A i \in DOMAIN s : s[i] \in R \ X
  BY LenProperties, ElementOfSeq
<1> QED BY <1>1 DEF ToSet

(* A page shows the texts that were put on it.                              *)
THEOREM PageAlwaysShowsText == Spec => []PageShowsText
<1> SUFFICES ASSUME TextsRight, Answered("page")
             PROVE  /\ ToSet(result.html.text) \cap {LT, GT} = {}
                    /\ QUOTE \notin ToSet(result.value.text)
                    /\ result.html.code = "cgiFormSuccess" => Shown(result.html.text) = call.text
                    /\ result.value.code = "cgiFormSuccess" /\ AMP \notin ToSet(call.text) =>
                         Shown(result.value.text) = call.text
  <2>1. TextsRight => PageShowsText
    BY DEF PageShowsText
  <2> QED BY <2>1, TextsAreRight, PTL
<1> DEFINE s == call.text
           room == call.room
           C == {LT, AMP, GT}
           D == {QUOTE}
           h == Escaped(s, C)
           v == Escaped(s, D)
<1>1. s \in Text /\ room \in Nat /\ result = [html |-> Put(h, room), value |-> Put(v, room)]
  BY Asked, CallIs DEF PageCall, Answer, cgiHtmlEscape, cgiValueEscape
<1> HIDE DEF s, room
<1>2. h \in Seq(Byte \ {LT, GT})
  <2> DEFINE X == {LT, GT}
  <2>1. C \in SUBSET Special /\ X \in SUBSET {LT, GT, QUOTE} /\ X \subseteq C
    BY DEF Special
  <2> HIDE DEF X, C
  <2>2. h \in Seq(Byte \ X)
    BY <1>1, <2>1, EscapedPieces
  <2> QED BY <2>2 DEF X
<1>3. v \in Seq(Byte \ {QUOTE})
  <2> DEFINE X == {QUOTE}
  <2>1. D \in SUBSET Special /\ X \in SUBSET {LT, GT, QUOTE} /\ X \subseteq D
    BY DEF Special
  <2> HIDE DEF X, D
  <2>2. v \in Seq(Byte \ X)
    BY <1>1, <2>1, EscapedPieces
  <2> QED BY <2>2 DEF X
<1>4. Shown(h) = s
  BY <1>1, ShownIsEscaped DEF Special
<1>5. AMP \notin ToSet(s) => Shown(v) = s
  BY <1>1, ShownIsEscaped DEF Special
<1> HIDE DEF h, v
<1>6. /\ Put(h, room).text \in Seq(Byte \ {LT, GT})
      /\ Put(h, room).code = "cgiFormSuccess" => Put(h, room).text = h
  <2> DEFINE B == Byte \ {LT, GT}
  <2>1. h \in Seq(B)
    BY <1>2
  <2> HIDE DEF B
  <2>2. Put(h, room).text \in Seq(B) /\ (Put(h, room).code = "cgiFormSuccess" => Put(h, room).text = h)
    BY <1>1, <2>1, PutOut
  <2> QED BY <2>2 DEF B
<1>7. /\ Put(v, room).text \in Seq(Byte \ {QUOTE})
      /\ Put(v, room).code = "cgiFormSuccess" => Put(v, room).text = v
  <2> DEFINE B == Byte \ {QUOTE}
  <2>1. v \in Seq(B)
    BY <1>3
  <2> HIDE DEF B
  <2>2. Put(v, room).text \in Seq(B) /\ (Put(v, room).code = "cgiFormSuccess" => Put(v, room).text = v)
    BY <1>1, <2>1, PutOut
  <2> QED BY <2>2 DEF B
<1>8. /\ ToSet(Put(h, room).text) \cap {LT, GT} = {}
      /\ ToSet(Put(v, room).text) \cap {QUOTE} = {}
  <2> DEFINE th == Put(h, room).text
             tv == Put(v, room).text
  <2>1. th \in Seq(Byte \ {LT, GT}) /\ tv \in Seq(Byte \ {QUOTE})
    BY <1>6, <1>7
  <2> HIDE DEF th, tv
  <2>2. ToSet(th) \cap {LT, GT} = {} /\ ToSet(tv) \cap {QUOTE} = {}
    BY <2>1, NoneOf
  <2> QED BY <2>2 DEF th, tv
<1> QED BY <1>1, <1>4, <1>5, <1>6, <1>7, <1>8 DEF s
-------------------------------------------------------------------------------
(* The number that digits stand for.                                        *)
LEMMA NaturalIsNat ==
  ASSUME NEW t \in Seq(Digits) PROVE Natural(t) \in Nat
<1> DEFINE n == Len(t)
           turn == [i \in 1 .. n |-> [x \in Nat |-> 10 * x + (t[i] - 48)]]
           Reads(g) == g = [i \in 0 .. n |-> IF i = 0 THEN 0 ELSE 10 * g[i - 1] + (t[i] - 48)]
           Of == CHOOSE g : Reads(g)
<1>1. n \in Nat /\ \A i \in 1 .. n : t[i] \in Nat /\ t[i] >= 48
  BY LenProperties, ElementOfSeq DEF Digits
<1>2. turn \in [1 .. n -> [Nat -> Nat]]
  BY <1>1
<1>3. PICK g \in [0 .. n -> Nat] : Turns(0, turn, n, g)
  BY <1>1, <1>2, TurnsExist
<1>4. Reads(g)
  <2>1. ASSUME NEW i \in 0 .. n PROVE g[i] = IF i = 0 THEN 0 ELSE 10 * g[i - 1] + (t[i] - 48)
    <3>1. g[i] = IF i = 0 THEN 0 ELSE turn[i][g[i - 1]]
      BY <1>3 DEF Turns
    <3>2. CASE i = 0
      BY <3>1, <3>2
    <3>3. CASE i # 0
      <4>1. i \in 1 .. n /\ i - 1 \in 0 .. n /\ g[i - 1] \in Nat
        <5>1. i \in 1 .. n /\ i - 1 \in 0 .. n
          BY <1>1, <3>3
        <5> HIDE DEF n, turn
        <5> QED BY <5>1
      <4>2. turn[i][g[i - 1]] = 10 * g[i - 1] + (t[i] - 48)
        BY <4>1
      <4> HIDE DEF turn
      <4> QED BY <3>1, <3>3, <4>2
    <3> QED BY <3>2, <3>3
  <2>2. g = [i \in 0 .. n |-> g[i]]
    OBVIOUS
  <2> HIDE DEF n
  <2> QED BY <2>1, <2>2
<1>5. Reads(Of)
  BY <1>4
<1>6. Natural(t) = Of[n]
  BY DEF Natural
<1> HIDE DEF Of
<1> DEFINE S == {k \in Nat : k <= n => Of[k] \in Nat}
<1>7. 0 \in S
  BY <1>1, <1>5
<1>8. ASSUME NEW k \in Nat, k \in S PROVE k + 1 \in S
  <2> SUFFICES ASSUME k + 1 <= n PROVE Of[k + 1] \in Nat
    OBVIOUS
  <2> DEFINE i == k + 1
  <2>1. i \in 0 .. n /\ i # 0 /\ i - 1 = k /\ i \in 1 .. n /\ k <= n
    BY <1>1
  <2> HIDE DEF i
  <2>2. Of[i] = 10 * Of[k] + (t[i] - 48)
    BY <1>5, <2>1
  <2>3. Of[k] \in Nat
    BY <1>8, <2>1
  <2>4. Of[i] \in Nat
    BY <1>1, <2>1, <2>2, <2>3
  <2> QED BY <2>4 DEF i
<1>9. Nat \subseteq S
  BY <1>7, <1>8, AllNumbers
<1>10. n \in S
  BY <1>1, <1>9
<1> QED BY <1>6, <1>10

(* The digits a text begins with.                                           *)
LEMMA WholeIsDigits ==
  ASSUME NEW s \in Text PROVE Whole(s) \in Seq(Digits)
<1> DEFINE k == Skip(s, 1, Digits)
<1>1. /\ k \in Nat /\ k <= Len(s) + 1 /\ 1 <= k /\ Len(s) \in Nat
      /\ \A j \in 1 .. Len(s) : j < k => s[j] \in Digits
  BY LenProperties, SkipIs DEF Text
<1> HIDE DEF k
<1>2. \A j \in 1 .. k - 1 : s[j] \in Digits
  BY <1>1
<1>3. SubSeq(s, 1, k - 1) \in Seq(Digits)
  BY <1>1, <1>2, SubSeqProperties
<1> QED BY <1>3 DEF Whole, k

(* A number without its sign is a text.                                     *)
LEMMA UnsignedIsText ==
  ASSUME NEW s \in Text PROVE Unsigned(s) \in Text
<1> DEFINE k == Skip(s, 1, Blank)
           b == IF At(s, k) \in {MINUS, PLUS} THEN k + 1 ELSE k
<1>1. k \in Nat /\ k >= 1 /\ Len(s) \in Nat
  BY LenProperties, SkipIs DEF Text
<1> HIDE DEF k
<1>2. b \in Nat /\ b >= 1
  BY <1>1
<1> HIDE DEF b
<1>3. SubSeq(s, b, Len(s)) \in Text
  BY <1>1, <1>2, PartOf DEF Text
<1> QED BY <1>3 DEF Unsigned, b, k

(* The integer and the double that are read, the latter in tenths.          *)
LEMMA NumbersRead ==
  ASSUME NEW s \in Text
  PROVE  \E w \in Nat : \E x \in 0 .. 9 : /\ atoi(s) = Signed(s, w) /\ atof(s) = Signed(s, 10 * w + x)
<1> DEFINE u == Unsigned(s)
           w == Natural(Whole(u))
           d == At(u, Len(Whole(u)) + 2)
           x == IF At(u, Len(Whole(u)) + 1) = DOT /\ d \in Digits THEN d - 48 ELSE 0
<1>1. w \in Nat
  BY UnsignedIsText, WholeIsDigits, NaturalIsNat
<1>2. x \in 0 .. 9
  BY DEF Digits
<1>3. atoi(s) = Signed(s, w) /\ atof(s) = Signed(s, 10 * w + x)
  BY DEF atoi, atof
<1> HIDE DEF w, x
<1> QED BY <1>1, <1>2, <1>3

(* This holds of what cgiFormIntegerBounded and cgiFormDoubleBounded        *)
(* answer.                                                                  *)
LEMMA NumberRight ==
  ASSUME NEW c \in NumberCall PROVE BoundedRight(c, Answer(c))
<1> DEFINE s == c.text
           f == cgiFormInteger(s, c.def)
           g == cgiFormDouble(s, 10 * c.def)
           i == Bounded(f, c.min, c.max)
           d == Bounded(g, 10 * c.min, 10 * c.max)
<1>1. s \in Text /\ c.def \in Int /\ c.min \in Int /\ c.max \in Int /\ c.fn = "number"
  BY DEF NumberCall
<1>2. PICK w \in Nat, x \in 0 .. 9 : atoi(s) = Signed(s, w) /\ atof(s) = Signed(s, 10 * w + x)
  BY <1>1, NumbersRead
<1>3. Answer(c) = [int |-> i, double |-> d]
  BY <1>1 DEF Answer
<1>4. /\ f.code = "cgiFormSuccess" => f.n = atoi(s)
      /\ f.code # "cgiFormSuccess" => f.n = c.def
      /\ f.code \in {"cgiFormSuccess", "cgiFormEmpty", "cgiFormBadType"}
      /\ cgiFirstNonspaceChar(s) \notin Digits \cup {MINUS, PLUS} => f.code # "cgiFormSuccess"
      /\ g.code = "cgiFormSuccess" => g.n = atof(s)
  BY DEF cgiFormInteger, cgiFormDouble, FormNumber
<1> HIDE DEF f, g
<1>5. /\ i.code = "cgiFormSuccess" => f.code = "cgiFormSuccess" /\ i.n = f.n /\ ~(i.n < c.min) /\ ~(i.n > c.max)
      /\ i.code = "cgiFormConstrained" /\ f.code # "cgiFormConstrained" => i.n \in {c.min, c.max}
      /\ f.code # "cgiFormSuccess" => i = f
      /\ d.code = "cgiFormSuccess" => g.code = "cgiFormSuccess" /\ d.n = g.n
  BY DEF Bounded
<1> HIDE DEF i, d
<1>6. \A y \in Nat : Signed(s, y) = y \/ Signed(s, y) = -y
  BY DEF Signed
<1>7. i.code = "cgiFormSuccess" => i.n \in c.min .. c.max
  BY <1>1, <1>2, <1>4, <1>5, <1>6
<1>8. i.code = "cgiFormConstrained" => i.n \in {c.min, c.max}
  BY <1>4, <1>5
<1>9. cgiFirstNonspaceChar(s) \notin Digits \cup {MINUS, PLUS} => i.n = c.def
  BY <1>4, <1>5
<1>10. ASSUME i.code = "cgiFormSuccess", d.code = "cgiFormSuccess"
       PROVE  i.n = IF d.n < 0 THEN -((-d.n) \div 10) ELSE d.n \div 10
  <2>1. i.n = Signed(s, w) /\ d.n = Signed(s, 10 * w + x)
    BY <1>2, <1>4, <1>5, <1>10
  <2>2. (10 * w + x) \div 10 = w
    OBVIOUS
  <2>3. CASE cgiFirstNonspaceChar(s) = MINUS
    <3>1. i.n = -w /\ d.n = -(10 * w + x)
      BY <2>1, <2>3 DEF Signed
    <3>2. d.n < 0 => -((-d.n) \div 10) = -w
      BY <3>1, <2>2
    <3>3. ~(d.n < 0) => w = 0 /\ d.n = 0
      BY <3>1
    <3>4. CASE d.n < 0
      BY <3>1, <3>2, <3>4
    <3>5. CASE ~(d.n < 0)
      <4>1. i.n = 0 /\ d.n = 0
        <5>1. w = 0 /\ d.n = 0
          BY <3>3, <3>5
        <5>2. i.n + w = 0 /\ i.n \in Int
          BY <3>1
        <5> QED BY <5>1, <5>2
      <4>2. 0 \div 10 = 0
        OBVIOUS
      <4> QED BY <3>5, <4>1, <4>2
    <3> QED BY <3>4, <3>5
  <2>4. CASE cgiFirstNonspaceChar(s) # MINUS
    BY <2>1, <2>4, <2>2 DEF Signed
  <2> QED BY <2>3, <2>4
<1> QED BY <1>3, <1>7, <1>8, <1>9, <1>10 DEF BoundedRight

(* A number is bounded in every state.                                      *)
LEMMA NumberStaysBounded ==
  ASSUME TextsRight PROVE NumberIsBounded
<1> SUFFICES ASSUME Answered("number") PROVE BoundedRight(call, result)
  BY DEF NumberIsBounded, BoundedRight
<1>1. call \in NumberCall /\ result = Answer(call)
  BY Asked, CallIs
<1> QED BY <1>1, NumberRight
-------------------------------------------------------------------------------
(* Fields.  The greatest of a set of numbers, and of two.                   *)
LEMMA GreatestIs ==
  ASSUME NEW S, S \subseteq Int, NEW k \in S, \A y \in S : y <= k
  PROVE  Max(S) = k
<1>1. \E x \in S : \A y \in S : x >= y
  OBVIOUS
<1>2. Max(S) \in S /\ \A y \in S : Max(S) >= y
  BY <1>1 DEF Max
<1>3. Max(S) >= k /\ Max(S) <= k /\ Max(S) \in Int /\ k \in Int
  BY <1>2
<1> QED BY <1>3

(* The greatest of two numbers.                                             *)
LEMMA GreatestOfTwo ==
  ASSUME NEW a \in Int, NEW b \in Int PROVE Max({a, b}) = IF a <= b THEN b ELSE a
<1>1. CASE a <= b
  BY <1>1, GreatestIs
<1>2. CASE ~(a <= b)
  BY <1>2, GreatestIs
<1> QED BY <1>1, <1>2

(* The count is a number, no more than there are places, and goes up by one *)
(* with each place that holds c.                                            *)
LEMMA Counted ==
  ASSUME NEW v, NEW c, NEW a \in Nat, NEW b \in Nat, a <= b + 1
  PROVE  /\ Count(v, c, a, b) \in Nat /\ Count(v, c, a, b) <= b - a + 1
         /\ Count(v, c, a, b + 1) = Count(v, c, a, b) + IF v[b + 1] = c THEN 1 ELSE 0
<1> DEFINE S == {k \in a .. b : v[k] = c}
           T == {k \in a .. b + 1 : v[k] = c}
<1>1. IsFiniteSet(a .. b) /\ Cardinality(a .. b) = b - a + 1
  BY FS_Interval
<1>2. IsFiniteSet(S) /\ Cardinality(S) <= Cardinality(a .. b)
  BY <1>1, FS_Subset
<1>3. Cardinality(S) \in Nat
  BY <1>2, FS_CardinalityType
<1>4. b + 1 \notin S
  OBVIOUS
<1>7. Count(v, c, a, b) = Cardinality(S) /\ Count(v, c, a, b + 1) = Cardinality(T)
  BY DEF Count
<1>5. CASE v[b + 1] = c
  <2>1. T = S \cup {b + 1}
    BY <1>5
  <2> HIDE DEF S, T
  <2>2. Cardinality(T) = Cardinality(S) + 1
    BY <1>2, <1>4, <2>1, FS_AddElement
  <2> QED BY <1>1, <1>2, <1>3, <1>5, <1>7, <2>2
<1>6. CASE v[b + 1] # c
  <2>1. T = S
    BY <1>6
  <2> HIDE DEF S, T
  <2> QED BY <1>1, <1>2, <1>3, <1>6, <1>7, <2>1
<1> QED BY <1>5, <1>6

(* New lines are a text.                                                    *)
LEMMA LFsAre ==
  ASSUME NEW k \in Nat PROVE LFs(k) \in Seq(Byte) /\ Len(LFs(k)) = k /\ \A i \in 1 .. k : LFs(k)[i] = LF
<1>1. LFs(k) \in [1 .. k -> Byte]
  BY DEF LFs, LF, Byte
<1>2. LFs(k) \in Seq(Byte) /\ Len(LFs(k)) = k
  BY <1>1, ASequence
<1> QED BY <1>2 DEF LFs

(* The lines of a burst that ends before place b.                           *)
LEMMA LinesAre ==
  ASSUME NEW v \in Text, NEW a \in 1 .. Len(v)
  PROVE  /\ LinesAt(v, a) \in Seq(Byte)
         /\ \A b \in Nat : Skip(v, a, Breaks) = b + 1 =>
              LinesAt(v, a) = LFs(Max({Count(v, CR, a, b), Count(v, LF, a, b)}))
<1> DEFINE e == Skip(v, a, Breaks)
           x == Count(v, CR, a, e - 1)
           y == Count(v, LF, a, e - 1)
<1>1. e \in Nat /\ e - 1 \in Nat /\ a \in Nat /\ a <= (e - 1) + 1
  BY LenProperties, SkipIs DEF Text
<1>2. LinesAt(v, a) = LFs(Max({x, y}))
  BY DEF LinesAt, LFs, Count
<1>3. x \in Nat /\ y \in Nat
  BY <1>1, Counted
<1>4. Max({x, y}) \in Nat
  BY <1>3, GreatestOfTwo
<1>5. LinesAt(v, a) \in Seq(Byte)
  BY <1>2, <1>4, LFsAre
<1>6. ASSUME NEW b \in Nat, e = b + 1
      PROVE  LinesAt(v, a) = LFs(Max({Count(v, CR, a, b), Count(v, LF, a, b)}))
  BY <1>6, <1>2
<1> QED BY <1>5, <1>6

(* The pieces are texts, one for each byte; together they are what the      *)
(* field was meant to be.                                                   *)
LEMMA KeptTyped ==
  ASSUME NEW v \in Text, NEW newlines \in BOOLEAN
  PROVE  /\ Kept(v, newlines) \in Seq(Seq(Byte)) /\ Len(Kept(v, newlines)) = Len(v)
         /\ WholeField(v, newlines) = FlattenSeq(Kept(v, newlines))
<1> DEFINE ns == Kept(v, newlines)
           n == Len(v)
           T == Seq(Byte)
<1>1. n \in Nat /\ DOMAIN v = 1 .. n /\ \A i \in 1 .. n : v[i] \in Byte
  BY LenProperties, ElementOfSeq DEF Text
<1>2. ASSUME NEW i \in 1 .. n PROVE ns[i] \in Seq(Byte)
  BY <1>1, LinesAre, EmptySeq DEF Kept
<1>3. ns \in Seq(T) /\ Len(ns) = n
  BY <1>1, <1>2, ASequence DEF Kept
<1>4. CASE newlines
  BY <1>3, <1>4 DEF WholeField, Normal, Kept
<1>5. CASE ~newlines
  BY <1>1, <1>5, <1>3 DEF Kept, WholeField, Only
<1> QED BY <1>4, <1>5

(* The first texts together are a text.                                     *)
LEMMA FirstTyped ==
  ASSUME NEW R, NEW ss \in Seq(Seq(R)), NEW k \in 0 .. Len(ss)
  PROVE  First(ss, k) \in Seq(R) /\ Len(First(ss, k)) \in Nat
<1> DEFINE T == Seq(R)
<1>1. ss \in Seq(T) /\ k \in Nat /\ k <= Len(ss)
  BY LenProperties
<1> HIDE DEF T
<1>2. SubSeq(ss, 1, k) \in Seq(T)
  BY <1>1, PartOf
<1>3. First(ss, k) \in Seq(R)
  BY <1>2, FlattenTyped DEF First, T
<1> QED BY <1>3, LenProperties

(* All of them are the whole, none of them nothing.                         *)
LEMMA FirstAll ==
  ASSUME NEW R, NEW ss \in Seq(R) PROVE First(ss, Len(ss)) = FlattenSeq(ss) /\ First(ss, 0) = <<>>
BY SubSeqFull, FirstNone, FlattenNone DEF First

(* What the first of them are is where the whole begins.                    *)
LEMMA FirstBegins ==
  ASSUME NEW R, NEW ss \in Seq(Seq(R)), NEW k \in 0 .. Len(ss)
  PROVE  /\ Len(First(ss, k)) <= Len(FlattenSeq(ss))
         /\ \A p \in 1 .. Len(First(ss, k)) : FlattenSeq(ss)[p] = First(ss, k)[p]
<1> DEFINE n == Len(ss)
           S == {l \in Nat : k <= l /\ l <= n => /\ Len(First(ss, k)) <= Len(First(ss, l))
                                                  /\ \A p \in 1 .. Len(First(ss, k)) : First(ss, l)[p] = First(ss, k)[p]}
<1>1. n \in Nat /\ k \in Nat /\ k <= n /\ Len(First(ss, k)) \in Nat
  BY LenProperties, FirstTyped
<1>2. 0 \in S
  BY <1>1
<1>3. ASSUME NEW l \in Nat, l \in S PROVE l + 1 \in S
  <2> DEFINE m == l + 1
  <2>1. CASE ~(k <= m /\ m <= n)
    BY <2>1
  <2>2. CASE k = m
    BY <1>1, <2>2
  <2>3. CASE k <= m /\ m <= n /\ k # m
    <3>1. k <= l /\ l <= n /\ m \in 1 .. n /\ m - 1 = l /\ l \in 0 .. n /\ m \in 0 .. n
      BY <1>1, <2>3
    <3> DEFINE a == First(ss, l)
               b == ss[m]
    <3>2. a \in Seq(R) /\ b \in Seq(R) /\ First(ss, m) = a \o b
      BY <3>1, FirstTyped, ElementOfSeq, FlattenFirst DEF First
    <3>3. Len(First(ss, k)) <= Len(a) /\ \A p \in 1 .. Len(First(ss, k)) : a[p] = First(ss, k)[p]
      BY <1>3, <3>1
    <3> HIDE DEF a, b, m
    <3>4. /\ Len(a) \in Nat /\ Len(b) \in Nat /\ Len(a \o b) = Len(a) + Len(b)
          /\ \A p \in 1 .. Len(a) : (a \o b)[p] = a[p]
      BY <3>2, ConcatProperties, LenProperties
    <3>5. /\ Len(First(ss, k)) <= Len(First(ss, m))
          /\ \A p \in 1 .. Len(First(ss, k)) : First(ss, m)[p] = First(ss, k)[p]
      BY <1>1, <3>2, <3>3, <3>4
    <3> QED BY <3>5 DEF m
  <2> QED BY <2>1, <2>2, <2>3
<1>4. Nat \subseteq S
  BY <1>2, <1>3, AllNumbers
<1>5. n \in S /\ First(ss, n) = FlattenSeq(ss)
  <2> HIDE DEF S
  <2>1. First(ss, Len(ss)) = FlattenSeq(ss)
    <3> DEFINE T == Seq(R)
    <3>1. ss \in Seq(T)
      OBVIOUS
    <3> HIDE DEF T
    <3> QED BY <3>1, FirstAll
  <2> QED BY <1>1, <1>4, <2>1
<1> QED BY <1>1, <1>5
-------------------------------------------------------------------------------
(* The loop's state stays one.                                              *)
LEMMA EntryCharTyped ==
  ASSUME NEW d \in EntryState, NEW c \in 0 .. 255, NEW avail \in Nat, NEW newlines \in BOOLEAN
  PROVE  EntryChar(d, c, avail, newlines) \in EntryState
<1> DEFINE lfs == IF newlines THEN Burst(d.cr, d.lf) ELSE 0
           room == Max({0, avail - Len(d.s)})
           k == Min({lfs, room})
           s == d.s \o [i \in 1 .. k |-> LF]
<1>1. d.s \in Seq(Byte) /\ d.cr \in Nat /\ d.lf \in Nat /\ d.truncated \in BOOLEAN /\ d.end \in BOOLEAN
      /\ Len(d.s) \in Nat
  BY LenProperties DEF EntryState
<1>2. lfs \in Nat /\ room \in Nat
  BY <1>1, GreatestOfTwo DEF Burst
<1> HIDE DEF lfs, room
<1>3. k \in Nat
  BY <1>2, LeastOfTwo
<1> HIDE DEF k
<1>4. s \in Seq(Byte)
  BY <1>3, <1>1, LFsAre, ConcatProperties DEF LFs
<1> HIDE DEF s
<1>5. c # NUL => Append(s, c) \in Seq(Byte)
  BY <1>4, AppendProperties DEF Byte, NUL
<1>6. EntryChar(d, c, avail, newlines) =
        IF d.end THEN d
        ELSE IF c = CR THEN [d EXCEPT !.cr = @ + 1]
        ELSE IF c = LF THEN [d EXCEPT !.lf = @ + 1]
        ELSE IF c = NUL THEN [d EXCEPT !.s = s, !.truncated = (lfs > room), !.end = TRUE]
        ELSE IF Len(s) >= avail THEN [d EXCEPT !.s = s, !.truncated = TRUE, !.end = TRUE]
        ELSE [s |-> Append(s, c), cr |-> 0, lf |-> 0, truncated |-> d.truncated, end |-> FALSE]
  BY DEF EntryChar, s, k, lfs, room
<1> DEFINE r == EntryChar(d, c, avail, newlines)
<1>7. d.end => r \in EntryState
  BY <1>6
<1>8. ~d.end /\ c = CR => r \in EntryState
  BY <1>1, <1>6 DEF EntryState
<1>9. ~d.end /\ c # CR /\ c = LF => r \in EntryState
  BY <1>1, <1>6 DEF EntryState
<1>10. ~d.end /\ c # CR /\ c # LF /\ c = NUL => r \in EntryState
  <2> DEFINE full == lfs > room
  <2>1. full \in BOOLEAN
    OBVIOUS
  <2> SUFFICES ASSUME ~d.end /\ c # CR /\ c # LF /\ c = NUL PROVE r \in EntryState
    OBVIOUS
  <2>2. r = [d EXCEPT !.s = s, !.truncated = full, !.end = TRUE]
    BY <1>6
  <2> HIDE DEF full, r
  <2> QED BY <1>1, <1>4, <2>1, <2>2 DEF EntryState
<1>11. ~d.end /\ c # CR /\ c # LF /\ c # NUL /\ Len(s) >= avail => r \in EntryState
  BY <1>1, <1>4, <1>6 DEF EntryState
<1>12. ~d.end /\ c # CR /\ c # LF /\ c # NUL /\ ~(Len(s) >= avail) => r \in EntryState
  BY <1>1, <1>5, <1>6 DEF EntryState
<1> QED BY <1>7, <1>8, <1>9, <1>10, <1>11, <1>12

(* A byte that is no new line is put out behind the burst before it, or     *)
(* ends the field for want of room.                                         *)
LEMMA EntryTurn ==
  ASSUME NEW d \in EntryState, ~d.end, NEW c \in 0 .. 255, c \notin Breaks, NEW avail \in Nat,
         Len(d.s) <= avail, NEW newlines \in BOOLEAN
  PROVE  EntryTurns(d, c, avail, newlines, EntryChar(d, c, avail, newlines))
<1> DEFINE lfs == IF newlines THEN Burst(d.cr, d.lf) ELSE 0
           room == Max({0, avail - Len(d.s)})
           k == Min({lfs, room})
           s == d.s \o LFs(k)
           all == d.s \o LFs(lfs)
           r == EntryChar(d, c, avail, newlines)
           l == Len(d.s)
<1>1. d.s \in Seq(Byte) /\ d.cr \in Nat /\ d.lf \in Nat /\ d.truncated \in BOOLEAN /\ d.end \in BOOLEAN
      /\ l \in Nat
  BY LenProperties DEF EntryState
<1>2. lfs \in Nat /\ room \in Nat /\ room = avail - l
  BY <1>1, GreatestOfTwo DEF Burst
<1>3. /\ r.end \in BOOLEAN
      /\ c = NUL => r = [d EXCEPT !.s = s, !.truncated = (lfs > room), !.end = TRUE]
      /\ c # NUL /\ Len(s) >= avail => r = [d EXCEPT !.s = s, !.truncated = TRUE, !.end = TRUE]
      /\ c # NUL /\ ~(Len(s) >= avail) =>
           r = [s |-> Append(s, c), cr |-> 0, lf |-> 0, truncated |-> d.truncated, end |-> FALSE]
  BY EntryCharTyped DEF Breaks, EntryState, EntryChar, LFs
<1>4. all = AllLines(d, newlines)
  BY DEF AllLines
<1> HIDE DEF lfs, room
<1>5. k \in Nat /\ k = IF lfs <= room THEN lfs ELSE room
  BY <1>2, LeastOfTwo
<1> HIDE DEF k
<1>6. /\ LFs(k) \in Seq(Byte) /\ Len(LFs(k)) = k /\ \A i \in 1 .. k : LFs(k)[i] = LF
      /\ LFs(lfs) \in Seq(Byte) /\ Len(LFs(lfs)) = lfs /\ \A i \in 1 .. lfs : LFs(lfs)[i] = LF
  BY <1>2, <1>5, LFsAre
<1>7. /\ s \in Seq(Byte) /\ Len(s) = l + k
      /\ \A i \in 1 .. l + k : s[i] = IF i <= l THEN d.s[i] ELSE LFs(k)[i - l]
  <2> DEFINE a == d.s
             b == LFs(k)
  <2>1. a \in Seq(Byte) /\ b \in Seq(Byte) /\ Len(a) = l /\ Len(b) = k
    BY <1>1, <1>6
  <2> HIDE DEF a, b, l
  <2>2. /\ a \o b \in Seq(Byte) /\ Len(a \o b) = l + k
        /\ \A i \in 1 .. l + k : (a \o b)[i] = IF i <= l THEN a[i] ELSE b[i - l]
    BY <2>1, ConcatProperties
  <2> QED BY <2>2 DEF a, b
<1>8. /\ all \in Seq(Byte) /\ Len(all) = l + lfs
      /\ \A i \in 1 .. l + lfs : all[i] = IF i <= l THEN d.s[i] ELSE LFs(lfs)[i - l]
  <2> DEFINE a == d.s
             b == LFs(lfs)
  <2>1. a \in Seq(Byte) /\ b \in Seq(Byte) /\ Len(a) = l /\ Len(b) = lfs
    BY <1>1, <1>6
  <2> HIDE DEF a, b, l
  <2>2. /\ a \o b \in Seq(Byte) /\ Len(a \o b) = l + lfs
        /\ \A i \in 1 .. l + lfs : (a \o b)[i] = IF i <= l THEN a[i] ELSE b[i - l]
    BY <2>1, ConcatProperties
  <2> QED BY <2>2 DEF a, b
<1> HIDE DEF l
<1>9. lfs <= room => s = all /\ Len(all) <= avail
  BY <1>1, <1>2, <1>5, <1>8
<1> HIDE DEF s, all, r
<1>10. ~(lfs <= room) => s = SubSeq(all, 1, avail) /\ Len(s) = avail /\ Len(all) > avail
  <2> SUFFICES ASSUME ~(lfs <= room) PROVE s = SubSeq(all, 1, avail) /\ Len(s) = avail /\ Len(all) > avail
    OBVIOUS
  <2>1. k = room /\ l + k = avail /\ avail <= l + lfs /\ avail < l + lfs /\ k <= lfs
    BY <1>1, <1>2, <1>5
  <2> DEFINE t == SubSeq(all, 1, avail)
  <2>2. /\ t \in Seq(Byte) /\ Len(t) = avail
        /\ \A i \in Nat : 1 <= i /\ i <= avail => t[i] = all[i]
    BY <1>8, <2>1, PartOf
  <2>3. \A i \in 1 .. avail : s[i] = t[i]
    <3> SUFFICES ASSUME NEW i \in 1 .. avail PROVE s[i] = t[i]
      OBVIOUS
    <3>1. t[i] = all[i]
      BY <2>2
    <3>2. i \in 1 .. l + k /\ i \in 1 .. l + lfs
      BY <1>1, <1>2, <2>1
    <3>3. CASE i <= l
      BY <1>7, <1>8, <3>1, <3>2, <3>3
    <3>4. CASE ~(i <= l)
      <4>1. i - l \in 1 .. k /\ i - l \in 1 .. lfs
        BY <1>1, <1>2, <1>5, <2>1, <3>2, <3>4
      <4>2. s[i] = LF /\ all[i] = LF
        BY <1>6, <1>7, <1>8, <3>2, <3>4, <4>1
      <4> QED BY <3>1, <4>2
    <3> QED BY <3>3, <3>4
  <2> HIDE DEF t
  <2>4. s = t
    BY <1>7, <2>1, <2>2, <2>3, SeqEqual
  <2> QED BY <1>7, <1>8, <2>1, <2>4 DEF t
<1>11. SubSeq(all, 1, Len(all)) = all /\ Len(all) \in Nat /\ Len(s) \in Nat
  BY <1>7, <1>8, SubSeqFull, LenProperties
<1>12. CASE c = NUL
  <2>1. r.end /\ r.truncated = (lfs > room) /\ r.s = s
    BY <1>3, <1>12 DEF EntryState
  <2>2. (lfs > room) = (Len(all) > avail)
    BY <1>2, <1>9, <1>10, <1>11
  <2>3. s = SubSeq(all, 1, IF Len(all) <= avail THEN Len(all) ELSE avail)
    BY <1>2, <1>9, <1>10, <1>11
  <2> QED BY <1>4, <1>8, <1>12, <2>1, <2>2, <2>3 DEF EntryTurns, r
<1>13. CASE c # NUL
  <2>1. ASSUME Len(all) >= avail PROVE r.end /\ r.truncated = TRUE /\ r.s = SubSeq(all, 1, avail)
    <3>1. Len(s) >= avail /\ s = SubSeq(all, 1, avail)
      <4>1. CASE lfs <= room
        <5>1. Len(all) = avail
          <6>1. Len(all) <= avail /\ Len(all) >= avail /\ Len(all) \in Nat
            BY <1>9, <1>11, <2>1, <4>1
          <6> DEFINE q == Len(all)
          <6> HIDE DEF q
          <6>2. q <= avail /\ q >= avail /\ q \in Nat
            BY <6>1 DEF q
          <6>3. q = avail
            BY <6>2
          <6> QED BY <6>3 DEF q
        <5> QED BY <1>9, <1>11, <2>1, <4>1, <5>1
      <4>2. CASE ~(lfs <= room)
        BY <1>10, <4>2
      <4> QED BY <4>1, <4>2
    <3>2. r = [d EXCEPT !.s = s, !.truncated = TRUE, !.end = TRUE]
      BY <1>3, <1>13, <3>1
    <3> QED BY <3>1, <3>2 DEF EntryState
  <2>2. ASSUME Len(all) < avail
        PROVE  r = [s |-> Append(all, c), cr |-> 0, lf |-> 0, truncated |-> d.truncated, end |-> FALSE]
    BY <1>2, <1>10, <1>11, <2>2, <1>9, <1>3, <1>13
  <2> QED BY <1>4, <1>8, <1>13, <2>1, <2>2 DEF EntryTurns, r
<1> QED BY <1>12, <1>13 DEF r
-------------------------------------------------------------------------------
(* The beginning of a text that has become longer.                          *)
LEMMA BeginsSame ==
  ASSUME NEW R, NEW s \in Seq(R), NEW t \in Seq(R), Len(s) <= Len(t),
         \A p \in 1 .. Len(s) : t[p] = s[p], NEW k \in Nat, k <= Len(s)
  PROVE  SubSeq(t, 1, k) = SubSeq(s, 1, k)
<1> DEFINE a == SubSeq(s, 1, k)
           b == SubSeq(t, 1, k)
<1>1. Len(s) \in Nat /\ Len(t) \in Nat /\ k <= Len(t) /\ k - 1 + 1 = k /\ 1 \in Nat /\ 1 >= 1
  BY LenProperties
<1>2. /\ a \in Seq(R) /\ Len(a) = (IF 1 <= k THEN k - 1 + 1 ELSE 0)
      /\ \A i \in Nat : 1 <= i /\ i <= k - 1 + 1 => a[i] = s[1 + i - 1]
  BY <1>1, PartOf
<1>3. /\ b \in Seq(R) /\ Len(b) = (IF 1 <= k THEN k - 1 + 1 ELSE 0)
      /\ \A i \in Nat : 1 <= i /\ i <= k - 1 + 1 => b[i] = t[1 + i - 1]
  BY <1>1, PartOf
<1> HIDE DEF a, b
<1>4. Len(a) = k /\ Len(b) = k
  BY <1>1, <1>2, <1>3
<1>5. \A i \in 1 .. k : a[i] = b[i]
  <2> SUFFICES ASSUME NEW i \in 1 .. k PROVE a[i] = b[i]
    OBVIOUS
  <2>1. i \in Nat /\ 1 <= i /\ i <= k - 1 + 1 /\ 1 + i - 1 = i /\ i \in 1 .. Len(s)
    BY <1>1
  <2> QED BY <1>2, <1>3, <2>1
<1>6. a = b
  BY <1>2, <1>3, <1>4, <1>5, SeqEqual
<1> QED BY <1>6 DEF a, b

(* A text with one more byte begins as it did.                              *)
LEMMA BeginsAppend ==
  ASSUME NEW R, NEW s \in Seq(R), NEW c \in R
  PROVE  /\ s \o <<c>> \in Seq(R) /\ s \o <<c>> = Append(s, c) /\ Len(s \o <<c>>) = Len(s) + 1
         /\ \A k \in Nat : k <= Len(s) => SubSeq(s \o <<c>>, 1, k) = SubSeq(s, 1, k)
<1> DEFINE t == Append(s, c)
<1>1. t = s \o <<c>>
  BY AppendIsConcat
<1>2. t \in Seq(R) /\ Len(t) = Len(s) + 1 /\ Len(s) \in Nat /\ \A p \in 1 .. Len(s) : t[p] = s[p]
  BY AppendProperties, LenProperties
<1> HIDE DEF t
<1>3. ASSUME NEW k \in Nat, k <= Len(s) PROVE SubSeq(t, 1, k) = SubSeq(s, 1, k)
  BY <1>2, <1>3, BeginsSame
<1> QED BY <1>1, <1>2, <1>3 DEF t

(* There is nothing to count where there are no places.                     *)
LEMMA CountNone ==
  ASSUME NEW v, NEW c, NEW a \in Nat PROVE Count(v, c, a + 1, a) = 0
<1>1. {k \in a + 1 .. a : v[k] = c} = {}
  OBVIOUS
<1> QED BY <1>1, FS_EmptySet DEF Count

(* The lines of a burst that is over.                                       *)
LEMMA BurstEnds ==
  ASSUME NEW v \in Text, NEW newlines \in BOOLEAN, NEW i \in 0 .. Len(v), NEW j, BurstSince(v, i, j),
         KeptSince(v, newlines, i, j), i < Len(v) => v[i + 1] \notin Breaks
  PROVE  LET ns == Kept(v, newlines)
             lfs == IF newlines THEN Max({Count(v, CR, j + 1, i), Count(v, LF, j + 1, i)}) ELSE 0
         IN  First(ns, i) = First(ns, j) \o LFs(lfs) /\ lfs \in Nat /\ Len(First(ns, i)) <= i
<1> DEFINE n == Len(v)
           ns == Kept(v, newlines)
           x == Count(v, CR, j + 1, i)
           y == Count(v, LF, j + 1, i)
           lfs == IF newlines THEN Max({x, y}) ELSE 0
<1>1. /\ n \in Nat /\ DOMAIN v = 1 .. n /\ j \in 0 .. i /\ i \in 0 .. n /\ j \in 0 .. n
      /\ ns \in Seq(Seq(Byte)) /\ Len(ns) = n
  BY LenProperties, KeptTyped DEF BurstSince, Text
<1>2. First(ns, j) \in Seq(Byte) /\ First(ns, i) \in Seq(Byte) /\ Len(First(ns, j)) <= j /\ Len(First(ns, j)) \in Nat
  BY <1>1, FirstTyped DEF KeptSince
<1>3. x \in Nat /\ y \in Nat /\ x <= i - j /\ y <= i - j
  <2> DEFINE a == j + 1
  <2>1. a \in Nat /\ i \in Nat /\ a <= i + 1 /\ i - a + 1 = i - j
    BY <1>1
  <2> HIDE DEF a
  <2>2. /\ Count(v, CR, a, i) \in Nat /\ Count(v, CR, a, i) <= i - a + 1
        /\ Count(v, LF, a, i) \in Nat /\ Count(v, LF, a, i) <= i - a + 1
    BY <2>1, Counted
  <2> QED BY <2>1, <2>2 DEF a
<1>4. lfs \in Nat /\ lfs <= i - j
  BY <1>3, <1>1, GreatestOfTwo
<1>5. First(ns, i) = First(ns, j) \o LFs(lfs)
  <2>1. CASE i = j
    <3>1. lfs = 0
      BY <1>1, <1>4, <2>1
    <3>2. LFs(0) = <<>>
      BY LFsAre, EmptySeq
    <3>3. First(ns, j) \o <<>> = First(ns, j)
      BY <1>2, ConcatEmptySeq
    <3> HIDE DEF lfs, ns
    <3> QED BY <2>1, <3>1, <3>2, <3>3
  <2>2. CASE i # j
    <3>1. i > j /\ j + 1 \in 1 .. n /\ j + 1 \in j + 1 .. i
      BY <1>1, <2>2
    <3>2. First(ns, i) = First(ns, j) \o ns[j + 1] /\ v[j + 1] \in Breaks
      BY <3>1 DEF KeptSince, BurstSince
    <3>3. ns[j + 1] = IF newlines /\ BurstsAt(v, j + 1) THEN LinesAt(v, j + 1) ELSE <<>>
      BY <1>1, <3>1, <3>2 DEF Kept
    <3>4. BurstsAt(v, j + 1)
      BY <1>1, <3>2 DEF At, BurstSince, NUL, Breaks, CR, LF, BurstsAt
    <3>5. Skip(v, j + 1, Breaks) = i + 1
      <4> DEFINE a == j + 1
                 b == i + 1
      <4>1. /\ v \in Seq(Byte) /\ a \in Nat /\ a > 0 /\ b \in Nat /\ a <= b /\ b <= Len(v) + 1
            /\ \A k \in Nat : a <= k /\ k < b => k \in j + 1 .. i
        BY <1>1 DEF Text
      <4>2. \A k \in Nat : a <= k /\ k < b => v[k] \in Breaks
        BY <4>1 DEF BurstSince
      <4>3. b <= Len(v) => v[b] \notin Breaks
        BY <1>1
      <4> HIDE DEF a, b
      <4>4. Skip(v, a, Breaks) = b
        BY <4>1, <4>2, <4>3, SkipFirst
      <4> QED BY <4>4 DEF a, b
    <3>6. LinesAt(v, j + 1) = LFs(Max({x, y}))
      <4> DEFINE a == j + 1
      <4>1. a \in 1 .. Len(v) /\ i \in Nat /\ Skip(v, a, Breaks) = i + 1
        BY <1>1, <3>1, <3>5
      <4> HIDE DEF a
      <4>2. LinesAt(v, a) = LFs(Max({Count(v, CR, a, i), Count(v, LF, a, i)}))
        BY <4>1, LinesAre
      <4> QED BY <4>2 DEF a
    <3>7. LFs(0) = <<>>
      BY LFsAre, EmptySeq
    <3> HIDE DEF x, y, ns
    <3> QED BY <3>2, <3>3, <3>4, <3>6, <3>7
  <2> QED BY <2>1, <2>2
<1>6. Len(First(ns, i)) <= i
  <2> DEFINE a == First(ns, j)
             b == LFs(lfs)
  <2>1. a \in Seq(Byte) /\ b \in Seq(Byte) /\ Len(b) = lfs /\ Len(a) \in Nat /\ Len(a) <= j
    BY <1>2, <1>4, LFsAre
  <2> HIDE DEF a, b
  <2>2. Len(a \o b) = Len(a) + Len(b)
    BY <2>1, ConcatProperties
  <2>3. First(ns, i) = a \o b
    BY <1>5 DEF a, b
  <2> HIDE DEF lfs
  <2> QED BY <1>1, <1>4, <2>1, <2>2, <2>3
<1> QED BY <1>4, <1>5, <1>6
-------------------------------------------------------------------------------
(* One more text at the end of the first ones.                              *)
LEMMA FirstMore ==
  ASSUME NEW R, NEW ss \in Seq(Seq(R)), NEW i \in Nat, i < Len(ss)
  PROVE  First(ss, i + 1) = First(ss, i) \o ss[i + 1]
<1> DEFINE m == i + 1
<1>1. m \in 1 .. Len(ss) /\ m - 1 = i
  BY LenProperties
<1> HIDE DEF m
<1>2. First(ss, m) = First(ss, m - 1) \o ss[m]
  BY <1>1, FlattenFirst DEF First
<1> QED BY <1>1, <1>2 DEF m

(* A byte more of a burst.                                                  *)
LEMMA EntryBreak ==
  ASSUME NEW v \in Text, NEW newlines \in BOOLEAN, NEW avail \in Nat, NEW i \in Nat, i < Len(v), NEW j,
         NEW d \in EntryState, BurstSince(v, i, j), KeptSince(v, newlines, i, j),
         EntryIs(v, newlines, avail, i, j, d), v[i + 1] \in Breaks
  PROVE  /\ BurstSince(v, i + 1, j) /\ KeptSince(v, newlines, i + 1, j)
         /\ EntryIs(v, newlines, avail, i + 1, j, EntryChar(d, v[i + 1], avail, newlines))
<1> DEFINE n == Len(v)
           m == i + 1
           c == v[m]
           ns == Kept(v, newlines)
           r == EntryChar(d, c, avail, newlines)
<1>1. /\ n \in Nat /\ DOMAIN v = 1 .. n /\ j \in 0 .. i /\ i \in 0 .. n /\ j \in 0 .. n /\ m \in 1 .. n
      /\ ns \in Seq(Seq(Byte)) /\ Len(ns) = n
  BY LenProperties, KeptTyped DEF BurstSince, Text
<1>2. BurstSince(v, m, j)
  BY <1>1 DEF BurstSince
<1>3. KeptSince(v, newlines, m, j)
  <2>1. First(ns, m) = First(ns, i) \o ns[m]
    BY <1>1, FirstMore
  <2>2. First(ns, m) = First(ns, j) \o ns[j + 1]
    <3>1. CASE i = j
      BY <2>1, <3>1
    <3>2. CASE i # j
      <4>1. i > j /\ i \in j + 1 .. i /\ m - 1 = i /\ i \in DOMAIN v
        BY <1>1, <3>2
      <4>2. v[i] \in Breaks
        BY <4>1 DEF BurstSince
      <4>3. ~BurstsAt(v, m)
        BY <4>1, <4>2 DEF BurstsAt, At
      <4>4. ns[m] = <<>>
        BY <1>1, <4>3 DEF Kept
      <4>5. First(ns, i) \in Seq(Byte) /\ First(ns, i) = First(ns, j) \o ns[j + 1]
        BY <1>1, <4>1, FirstTyped DEF KeptSince
      <4> HIDE DEF ns
      <4> QED BY <2>1, <4>4, <4>5, ConcatEmptySeq
    <3> QED BY <3>1, <3>2
  <2> QED BY <2>2 DEF KeptSince
<1>4. EntryIs(v, newlines, avail, m, j, r)
  <2>1. CASE d.end
    BY <2>1 DEF EntryChar, EntryIs
  <2>2. CASE ~d.end
    <3>1. /\ d.s = First(ns, j) /\ Len(First(ns, j)) <= avail /\ d.truncated = FALSE
          /\ d.cr = Count(v, CR, j + 1, i) /\ d.lf = Count(v, LF, j + 1, i)
      BY <2>2 DEF EntryIs
    <3>2. r = IF c = CR THEN [d EXCEPT !.cr = @ + 1] ELSE [d EXCEPT !.lf = @ + 1]
      BY <2>2 DEF EntryChar, Breaks
    <3>3. /\ Count(v, CR, j + 1, m) = Count(v, CR, j + 1, i) + (IF c = CR THEN 1 ELSE 0)
          /\ Count(v, LF, j + 1, m) = Count(v, LF, j + 1, i) + (IF c = LF THEN 1 ELSE 0)
          /\ Count(v, CR, j + 1, i) \in Nat /\ Count(v, LF, j + 1, i) \in Nat
      <4> DEFINE a == j + 1
      <4>1. a \in Nat /\ i \in Nat /\ a <= i + 1
        BY <1>1
      <4> HIDE DEF a
      <4>2. /\ Count(v, CR, a, i + 1) = Count(v, CR, a, i) + (IF v[i + 1] = CR THEN 1 ELSE 0)
            /\ Count(v, LF, a, i + 1) = Count(v, LF, a, i) + (IF v[i + 1] = LF THEN 1 ELSE 0)
            /\ Count(v, CR, a, i) \in Nat /\ Count(v, LF, a, i) \in Nat
        BY <4>1, Counted
      <4> QED BY <4>2 DEF a
    <3>4. CR # LF /\ (c = CR \/ c = LF)
      BY DEF CR, LF, Breaks
    <3> HIDE DEF c, r, ns, m
    <3>5. /\ ~r.end /\ r.s = d.s /\ r.truncated = d.truncated
          /\ r.cr = d.cr + (IF c = CR THEN 1 ELSE 0) /\ r.lf = d.lf + (IF c = LF THEN 1 ELSE 0)
      BY <2>2, <3>2, <3>4 DEF EntryState
    <3>6. /\ ~r.end /\ r.s = First(ns, j) /\ r.truncated = FALSE
          /\ r.cr = Count(v, CR, j + 1, m) /\ r.lf = Count(v, LF, j + 1, m)
      BY <3>1, <3>3, <3>5
    <3> QED BY <3>1, <3>6 DEF EntryIs, ns
  <2> QED BY <2>1, <2>2
<1> QED BY <1>2, <1>3, <1>4

(* Any other byte.                                                          *)
LEMMA EntryOther ==
  ASSUME NEW v \in Text, NEW newlines \in BOOLEAN, NEW avail \in Nat, NEW i \in Nat, i < Len(v), NEW j,
         NEW d \in EntryState, BurstSince(v, i, j), KeptSince(v, newlines, i, j),
         EntryIs(v, newlines, avail, i, j, d), v[i + 1] \notin Breaks
  PROVE  /\ BurstSince(v, i + 1, i + 1) /\ KeptSince(v, newlines, i + 1, i + 1)
         /\ EntryIs(v, newlines, avail, i + 1, i + 1, EntryChar(d, v[i + 1], avail, newlines))
<1> DEFINE n == Len(v)
           m == i + 1
           c == v[m]
           ns == Kept(v, newlines)
           lfs == IF newlines THEN Max({Count(v, CR, j + 1, i), Count(v, LF, j + 1, i)}) ELSE 0
           r == EntryChar(d, c, avail, newlines)
           f == First(ns, i)
           g == First(ns, m)
<1>1. /\ n \in Nat /\ DOMAIN v = 1 .. n /\ i \in 0 .. n /\ m \in 1 .. n /\ m \in 0 .. n
      /\ ns \in Seq(Seq(Byte)) /\ Len(ns) = n /\ c \in Byte
  BY LenProperties, ElementOfSeq, KeptTyped DEF Text
<1>2. BurstSince(v, m, m)
  BY <1>1 DEF BurstSince
<1>3. f = First(ns, j) \o LFs(lfs) /\ Len(f) <= i /\ f \in Seq(Byte) /\ Len(f) \in Nat
  BY <1>1, BurstEnds, FirstTyped
<1>4. /\ g = f \o <<c>> /\ g = Append(f, c) /\ g \in Seq(Byte) /\ Len(g) = Len(f) + 1
      /\ \A k \in Nat : k <= Len(f) => SubSeq(g, 1, k) = SubSeq(f, 1, k)
  <2>1. g = f \o ns[m]
    BY <1>1, FirstMore
  <2>2. ns[m] = <<c>>
    BY <1>1 DEF Kept
  <2>3. f \in Seq(Byte) /\ c \in Byte /\ g = f \o <<c>>
    BY <1>1, <1>3, <2>1, <2>2
  <2> HIDE DEF f, g, c, ns
  <2>4. /\ f \o <<c>> \in Seq(Byte) /\ f \o <<c>> = Append(f, c) /\ Len(f \o <<c>>) = Len(f) + 1
        /\ \A k \in Nat : k <= Len(f) => SubSeq(f \o <<c>>, 1, k) = SubSeq(f, 1, k)
    BY <2>3, BeginsAppend
  <2> QED BY <2>3, <2>4
<1>5. KeptSince(v, newlines, m, m)
  <2>1. Len(g) <= m /\ ~(m > m)
    BY <1>1, <1>3, <1>4
  <2> QED BY <2>1 DEF KeptSince
<1>6. EntryIs(v, newlines, avail, m, m, r)
  <2>1. CASE d.end
    BY <2>1 DEF EntryChar, EntryIs
  <2>2. CASE ~d.end
    <3>1. /\ d.s = First(ns, j) /\ Len(First(ns, j)) <= avail /\ d.truncated = FALSE
          /\ d.cr = Count(v, CR, j + 1, i) /\ d.lf = Count(v, LF, j + 1, i)
      BY <2>2 DEF EntryIs
    <3>2. AllLines(d, newlines) = f
      BY <3>1, <1>3 DEF AllLines, Burst
    <3>3. EntryTurns(d, c, avail, newlines, r)
      <4>1. c \in 0 .. 255 /\ c \notin Breaks
        BY <1>1 DEF Byte
      <4>2. Len(d.s) <= avail
        BY <3>1
      <4> HIDE DEF c
      <4> QED BY <2>2, <4>1, <4>2, EntryTurn
    <3>4. c # NUL
      <4>1. c \in Byte
        BY <1>1
      <4> HIDE DEF c
      <4> QED BY <4>1 DEF Byte, NUL
    <3>5. CASE Len(f) >= avail
      <4>1. r.end /\ r.truncated = TRUE /\ r.s = SubSeq(f, 1, avail)
        BY <3>2, <3>3, <3>4, <3>5 DEF EntryTurns
      <4>2. Len(g) > avail /\ r.s = SubSeq(g, 1, avail)
        <5> DEFINE l == Len(f)
        <5> HIDE DEF f, g, r
        <5>1. l \in Nat /\ avail <= l /\ Len(g) = l + 1
          BY <1>3, <1>4, <3>5
        <5>2. SubSeq(g, 1, avail) = SubSeq(f, 1, avail)
          BY <1>4, <5>1
        <5> HIDE DEF l
        <5> QED BY <4>1, <5>1, <5>2
      <4> HIDE DEF r
      <4> QED BY <1>1, <4>1, <4>2 DEF EntryIs
    <3>6. CASE ~(Len(f) >= avail)
      <4>1. Len(f) < avail
        BY <1>3, <3>6
      <4>2. r = [s |-> Append(f, c), cr |-> 0, lf |-> 0, truncated |-> d.truncated, end |-> FALSE]
        BY <3>2, <3>3, <3>4, <4>1 DEF EntryTurns
      <4>3. Len(g) <= avail
        BY <1>3, <1>4, <4>1
      <4>4. Count(v, CR, m + 1, m) = 0 /\ Count(v, LF, m + 1, m) = 0
        <5>1. m \in Nat
          BY <1>1
        <5> HIDE DEF m
        <5> QED BY <5>1, CountNone
      <4> HIDE DEF r
      <4>5. /\ ~r.end /\ r.truncated = FALSE /\ r.s = g /\ r.cr = 0 /\ r.lf = 0
        BY <1>4, <3>1, <4>2
      <4> QED BY <4>3, <4>4, <4>5 DEF EntryIs
    <3> QED BY <3>5, <3>6
  <2> QED BY <2>1, <2>2
<1> QED BY <1>2, <1>5, <1>6
-------------------------------------------------------------------------------
(* The loop has a state after each byte.                                    *)
LEMMA EntryRunExists ==
  ASSUME NEW text \in Seq(0 .. 255), NEW avail \in Nat, NEW newlines \in BOOLEAN
  PROVE  \E g \in [0 .. Len(text) -> EntryState] : EntryRuns(text, avail, newlines, g)
<1> DEFINE base == [s |-> <<>>, cr |-> 0, lf |-> 0, truncated |-> FALSE, end |-> FALSE]
           n == Len(text)
           turn == [i \in 1 .. n |-> [d \in EntryState |-> EntryChar(d, text[i], avail, newlines)]]
<1>1. n \in Nat /\ base \in EntryState
  BY LenProperties, EmptySeq DEF EntryState
<1>2. \A i \in 1 .. n : text[i] \in 0 .. 255
  BY ElementOfSeq
<1>3. turn \in [1 .. n -> [EntryState -> EntryState]]
  BY <1>2, EntryCharTyped
<1>4. PICK g \in [0 .. n -> EntryState] : Turns(base, turn, n, g)
  BY <1>1, <1>3, TurnsExist
<1>5. \A i \in 1 .. n : turn[i][g[i - 1]] = EntryChar(g[i - 1], text[i], avail, newlines)
  <2>1. \A i \in 1 .. n : i - 1 \in 0 .. n /\ g[i - 1] \in EntryState
    BY <1>1
  <2> QED BY <2>1
<1>6. g = [i \in 0 .. n |-> IF i = 0 THEN base ELSE turn[i][g[i - 1]]]
  BY <1>4 DEF Turns
<1> HIDE DEF turn, base, n
<1>7. \A i \in 0 .. n : g[i] = IF i = 0 THEN base ELSE EntryChar(g[i - 1], text[i], avail, newlines)
  <2> SUFFICES ASSUME NEW i \in 0 .. n
               PROVE  g[i] = IF i = 0 THEN base ELSE EntryChar(g[i - 1], text[i], avail, newlines)
    OBVIOUS
  <2>1. g[i] = IF i = 0 THEN base ELSE turn[i][g[i - 1]]
    BY <1>6, Zenon
  <2>2. i # 0 => i \in 1 .. n
    BY <1>1
  <2> QED BY <1>5, <2>1, <2>2, Zenon
<1>8. g = [i \in 0 .. n |-> g[i]]
  OBVIOUS
<1>9. g = [i \in 0 .. n |-> IF i = 0 THEN base ELSE EntryChar(g[i - 1], text[i], avail, newlines)]
  BY <1>7, <1>8
<1> QED BY <1>9 DEF EntryRuns, base, n

(* A text with its end mark, as the loop reads it.                          *)
LEMMA TextEnded ==
  ASSUME NEW v \in Text
  PROVE  /\ Len(v) \in Nat /\ Append(v, NUL) \in Seq(0 .. 255) /\ Len(Append(v, NUL)) = Len(v) + 1
         /\ Append(v, NUL)[Len(v) + 1] = NUL
         /\ \A i \in 1 .. Len(v) : Append(v, NUL)[i] = v[i]
<1> DEFINE R == 0 .. 255
           n == Len(v)
<1>1. Byte \subseteq R /\ NUL \in R
  BY DEF Byte, NUL
<1>2. \A i \in 1 .. n : v[i] \in R
  BY <1>1, ElementOfSeq DEF Text
<1>3. n \in Nat /\ v = [i \in 1 .. n |-> v[i]]
  BY LenProperties DEF Text
<1> HIDE DEF R
<1>4. v \in [1 .. n -> R]
  BY <1>2, <1>3
<1>5. v \in Seq(R)
  BY <1>3, <1>4, ASequence
<1>6. /\ Append(v, NUL) \in Seq(R) /\ Len(Append(v, NUL)) = n + 1 /\ Append(v, NUL)[n + 1] = NUL
      /\ \A i \in 1 .. n : Append(v, NUL)[i] = v[i]
  BY <1>1, <1>5, AppendProperties
<1> QED BY <1>3, <1>6 DEF R

(* What the loop has read of the value before its end mark.                 *)
LEMMA EntryAfter ==
  ASSUME NEW v \in Text, NEW newlines \in BOOLEAN, NEW avail \in Nat,
         NEW text, text = Append(v, NUL), NEW g \in [0 .. Len(v) + 1 -> EntryState],
         EntryRuns(text, avail, newlines, g)
  PROVE  \E j : /\ BurstSince(v, Len(v), j) /\ KeptSince(v, newlines, Len(v), j)
                /\ EntryIs(v, newlines, avail, Len(v), j, g[Len(v)])
<1> DEFINE n == Len(v)
           P(i) == \E j : /\ BurstSince(v, i, j) /\ KeptSince(v, newlines, i, j)
                          /\ EntryIs(v, newlines, avail, i, j, g[i])
           S == {i \in Nat : i <= n => P(i)}
           ns == Kept(v, newlines)
<1>1. n \in Nat /\ Len(text) = n + 1 /\ \A i \in 1 .. n : text[i] = v[i]
  BY TextEnded
<1>2. /\ g[0] = [s |-> <<>>, cr |-> 0, lf |-> 0, truncated |-> FALSE, end |-> FALSE]
      /\ \A i \in 1 .. n + 1 : g[i] = EntryChar(g[i - 1], text[i], avail, newlines)
  <2>1. Len(text) = n + 1 /\ 0 \in 0 .. n + 1 /\ \A i \in 1 .. n + 1 : i \in 0 .. n + 1 /\ i # 0
    BY <1>1
  <2> QED BY <2>1, Zenon DEF EntryRuns
<1>3. 0 \in S
  <2>1. First(ns, 0) = <<>>
    BY FirstNone, FlattenNone DEF First
  <2>2. Len(<<>>) = 0 /\ <<>> \in Seq(Byte)
    BY EmptySeq
  <2>3. BurstSince(v, 0, 0)
    BY DEF BurstSince
  <2>4. KeptSince(v, newlines, 0, 0)
    BY <2>1, <2>2 DEF KeptSince
  <2>5. Count(v, CR, 0 + 1, 0) = 0 /\ Count(v, LF, 0 + 1, 0) = 0
    BY CountNone
  <2>6. EntryIs(v, newlines, avail, 0, 0, g[0])
    BY <1>2, <2>1, <2>2, <2>5 DEF EntryIs
  <2> QED BY <2>3, <2>4, <2>6
<1>4. ASSUME NEW i \in Nat, i \in S PROVE i + 1 \in S
  <2> SUFFICES ASSUME i + 1 <= n PROVE P(i + 1)
    OBVIOUS
  <2>1. i < n /\ i <= n /\ i \in 0 .. n + 1 /\ i + 1 \in 1 .. n /\ i + 1 \in 1 .. n + 1 /\ (i + 1) - 1 = i
    BY <1>1
  <2>2. PICK j : BurstSince(v, i, j) /\ KeptSince(v, newlines, i, j) /\ EntryIs(v, newlines, avail, i, j, g[i])
    BY <1>4, <2>1
  <2> DEFINE d == g[i]
  <2>3. d \in EntryState /\ g[i + 1] = EntryChar(d, v[i + 1], avail, newlines)
    <3> DEFINE k == i + 1
    <3>1. k \in 1 .. n /\ k \in 1 .. n + 1 /\ k - 1 = i
      BY <2>1
    <3> HIDE DEF k
    <3>2. g[k] = EntryChar(g[k - 1], text[k], avail, newlines) /\ text[k] = v[k]
      BY <1>1, <1>2, <3>1
    <3>3. g[k] = EntryChar(g[i], v[k], avail, newlines)
      BY <3>1, <3>2
    <3> QED BY <2>1, <3>3 DEF k
  <2> HIDE DEF d
  <2>4. EntryIs(v, newlines, avail, i, j, d)
    BY <2>2 DEF d
  <2>5. CASE v[i + 1] \in Breaks
    BY <2>1, <2>2, <2>3, <2>4, <2>5, EntryBreak
  <2>6. CASE v[i + 1] \notin Breaks
    BY <2>1, <2>2, <2>3, <2>4, <2>6, EntryOther
  <2> QED BY <2>5, <2>6
<1>5. Nat \subseteq S
  BY <1>3, <1>4, AllNumbers
<1> QED BY <1>1, <1>5

(* A field's value is read with its lines as they were meant.               *)
LEMMA EntryRead ==
  ASSUME NEW v \in Text, NEW newlines \in BOOLEAN, NEW max \in Nat \ {0}
  PROVE  LET r == cgiFormEntryString(v, max, newlines)
             whole == WholeField(v, newlines)
         IN  /\ whole \in Seq(Byte) /\ Len(whole) <= Len(v)
             /\ r.text = Clip(whole, max)
             /\ r.code = IF Len(whole) > max - 1 THEN "cgiFormTruncated"
                         ELSE IF whole = <<>> THEN "cgiFormEmpty" ELSE "cgiFormSuccess"
<1> DEFINE n == Len(v)
           ns == Kept(v, newlines)
           whole == WholeField(v, newlines)
           w == Len(whole)
           avail == Avail(max)
           text == Append(v, NUL)
           After == CHOOSE g : EntryRuns(text, avail, newlines, g)
           end == After[Len(text)]
           part == IF w <= avail THEN w ELSE avail
<1>1. /\ n \in Nat /\ avail \in Nat /\ avail = max - 1 /\ ns \in Seq(Seq(Byte)) /\ Len(ns) = n
      /\ whole = FlattenSeq(ns) /\ whole \in Seq(Byte) /\ w \in Nat /\ First(ns, n) = whole
  <2>1. ns \in Seq(Seq(Byte)) /\ Len(ns) = n /\ whole = FlattenSeq(ns)
    BY KeptTyped
  <2>2. whole \in Seq(Byte)
    BY <2>1, FlattenTyped
  <2>3. First(ns, Len(ns)) = FlattenSeq(ns)
    <3> DEFINE T == Seq(Byte)
    <3>1. ns \in Seq(T)
      BY <2>1
    <3> HIDE DEF T, ns
    <3> QED BY <3>1, FirstAll
  <2> QED BY <2>1, <2>2, <2>3, LenProperties DEF Avail, Text
<1>2. text \in Seq(0 .. 255) /\ Len(text) = n + 1 /\ text[n + 1] = NUL
  BY TextEnded
<1>3. cgiFormEntryString(v, max, newlines)
        = [text |-> end.s,
           code |-> IF end.truncated THEN "cgiFormTruncated"
                    ELSE IF end.s = <<>> THEN "cgiFormEmpty" ELSE "cgiFormSuccess"]
  BY DEF cgiFormEntryString, EntryRuns
<1>4. PICK run \in [0 .. n + 1 -> EntryState] : EntryRuns(text, avail, newlines, run)
  BY <1>1, <1>2, EntryRunExists
<1>5. EntryRuns(text, avail, newlines, After)
  BY <1>4
<1> HIDE DEF After, text, avail, whole, ns
<1>6. After \in [0 .. n + 1 -> EntryState]
  <2> DEFINE S == {i \in Nat : i <= n + 1 => After[i] \in EntryState}
             base == [s |-> <<>>, cr |-> 0, lf |-> 0, truncated |-> FALSE, end |-> FALSE]
  <2>1. /\ After = [i \in 0 .. n + 1 |-> After[i]] /\ After[0] = base
        /\ \A i \in 1 .. n + 1 : After[i] = EntryChar(After[i - 1], text[i], avail, newlines)
    <3>1. After = [i \in 0 .. n + 1 |->
                     IF i = 0 THEN base ELSE EntryChar(After[i - 1], text[i], avail, newlines)]
      BY <1>2, <1>5 DEF EntryRuns
    <3>2. 0 \in 0 .. n + 1 /\ \A i \in 1 .. n + 1 : i \in 0 .. n + 1 /\ i # 0
      BY <1>1
    <3> HIDE DEF base, n
    <3> QED BY <3>1, <3>2
  <2>2. 0 \in S
    <3>1. base \in EntryState
      BY EmptySeq DEF EntryState
    <3> HIDE DEF base
    <3> QED BY <2>1, <3>1
  <2>3. ASSUME NEW i \in Nat, i \in S PROVE i + 1 \in S
    <3> SUFFICES ASSUME i + 1 <= n + 1 PROVE After[i + 1] \in EntryState
      OBVIOUS
    <3> DEFINE k == i + 1
    <3>1. k \in 1 .. n + 1 /\ k - 1 = i /\ i <= n + 1
      BY <1>1
    <3>2. After[i] \in EntryState
      BY <2>3, <3>1
    <3> HIDE DEF k, S
    <3>3. After[k] = EntryChar(After[i], text[k], avail, newlines) /\ text[k] \in 0 .. 255
      BY <1>2, <2>1, <3>1, ElementOfSeq
    <3>4. After[k] \in EntryState
      <4> DEFINE d == After[i]
                 c == text[k]
      <4>1. d \in EntryState /\ c \in 0 .. 255 /\ avail \in Nat
        BY <1>1, <3>2, <3>3
      <4> HIDE DEF d, c
      <4>2. EntryChar(d, c, avail, newlines) \in EntryState
        BY <4>1, EntryCharTyped
      <4> QED BY <3>3, <4>2 DEF d, c
    <3> QED BY <3>4 DEF k
  <2>4. Nat \subseteq S
    BY <2>2, <2>3, AllNumbers
  <2>5. \A i \in 0 .. n + 1 : After[i] \in EntryState
    BY <1>1, <2>4
  <2> QED BY <2>1, <2>5
<1> DEFINE d == After[n]
<1>7. d \in EntryState /\ end = EntryChar(d, NUL, avail, newlines)
  <2> DEFINE k == n + 1
  <2>1. k \in 0 .. k /\ k # 0 /\ k - 1 = n /\ n \in 0 .. n + 1
    BY <1>1
  <2>2. After = [i \in 0 .. k |->
                   IF i = 0 THEN [s |-> <<>>, cr |-> 0, lf |-> 0, truncated |-> FALSE, end |-> FALSE]
                   ELSE EntryChar(After[i - 1], text[i], avail, newlines)]
    BY <1>2, <1>5 DEF EntryRuns
  <2>3. end = After[k] /\ text[k] = NUL
    BY <1>2
  <2>4. d \in EntryState
    BY <1>6, <2>1
  <2> HIDE DEF k, end, n
  <2>5. After[k] = EntryChar(After[k - 1], text[k], avail, newlines)
    BY <2>1, <2>2
  <2> QED BY <2>1, <2>3, <2>4, <2>5
<1>8. PICK j : /\ BurstSince(v, n, j) /\ KeptSince(v, newlines, n, j)
               /\ EntryIs(v, newlines, avail, n, j, After[n])
  BY <1>1, <1>5, <1>6, EntryAfter DEF text
<1>9. /\ whole = First(ns, j) \o LFs(IF newlines THEN Max({Count(v, CR, j + 1, n), Count(v, LF, j + 1, n)}) ELSE 0)
      /\ w <= n
  <2> DEFINE lfs == IF newlines THEN Max({Count(v, CR, j + 1, n), Count(v, LF, j + 1, n)}) ELSE 0
  <2>1. n \in 0 .. Len(v) /\ ~(n < Len(v)) /\ BurstSince(v, n, j) /\ KeptSince(v, newlines, n, j)
    BY <1>1, <1>8
  <2>2. First(ns, n) = First(ns, j) \o LFs(lfs) /\ Len(First(ns, n)) <= n
    <3> HIDE DEF n
    <3> QED BY <2>1, BurstEnds DEF ns
  <2>3. First(ns, n) = whole
    BY <1>1
  <2> HIDE DEF lfs, n
  <2> QED BY <2>2, <2>3 DEF lfs
<1>10. end.truncated = (w > avail) /\ end.s = SubSeq(whole, 1, part)
  <2>1. CASE d.end
    <3>1. end = d
      BY <1>7, <2>1 DEF EntryChar
    <3>2. d.truncated = TRUE /\ \E k \in 0 .. n : Len(First(ns, k)) > avail /\ d.s = SubSeq(First(ns, k), 1, avail)
      BY <1>8, <2>1 DEF EntryIs, ns
    <3>3. PICK k \in 0 .. n : Len(First(ns, k)) > avail /\ d.s = SubSeq(First(ns, k), 1, avail)
      BY <3>2
    <3> DEFINE f == First(ns, k)
    <3>4. f \in Seq(Byte) /\ Len(f) \in Nat /\ Len(f) <= w /\ \A p \in 1 .. Len(f) : whole[p] = f[p]
      BY <1>1, FirstTyped, FirstBegins
    <3> HIDE DEF f, d, end
    <3>5. Len(f) > avail /\ d.s = SubSeq(f, 1, avail)
      BY <3>3 DEF f
    <3>6. SubSeq(whole, 1, avail) = SubSeq(f, 1, avail)
      BY <1>1, <3>4, <3>5, BeginsSame
    <3>7. w > avail /\ part = avail
      BY <1>1, <3>4, <3>5
    <3> QED BY <3>1, <3>2, <3>5, <3>6, <3>7
  <2>2. CASE ~d.end
    <3>1. /\ d.s = First(ns, j) /\ Len(First(ns, j)) <= avail
          /\ d.cr = Count(v, CR, j + 1, n) /\ d.lf = Count(v, LF, j + 1, n)
      BY <1>8, <2>2 DEF EntryIs, ns
    <3>2. AllLines(d, newlines) = whole
      BY <1>9, <3>1 DEF AllLines, Burst
    <3>3. EntryTurns(d, NUL, avail, newlines, end)
      <4>1. NUL \in 0 .. 255 /\ NUL \notin Breaks /\ Len(d.s) <= avail
        BY <3>1 DEF NUL, Breaks, CR, LF
      <4> HIDE DEF d, end
      <4> QED BY <1>1, <1>7, <2>2, <4>1, EntryTurn
    <3> QED BY <3>2, <3>3 DEF EntryTurns
  <2> QED BY <2>1, <2>2
<1>11. SubSeq(whole, 1, part) = Clip(whole, max)
  BY <1>1, LeastOfTwo DEF Clip
<1>12. w <= avail => (end.s = <<>> <=> whole = <<>>)
  BY <1>1, <1>10, SubSeqFull
<1>13. /\ cgiFormEntryString(v, max, newlines).text = end.s
       /\ cgiFormEntryString(v, max, newlines).code
            = IF end.truncated THEN "cgiFormTruncated"
              ELSE IF end.s = <<>> THEN "cgiFormEmpty" ELSE "cgiFormSuccess"
  BY <1>3
<1>14. ~(w > avail) <=> w <= avail
  BY <1>1
<1> HIDE DEF end, w, part
<1>15. w <= n /\ whole \in Seq(Byte) /\ avail = max - 1
  BY <1>1, <1>9
<1>16. cgiFormEntryString(v, max, newlines).code
         = IF w > avail THEN "cgiFormTruncated"
           ELSE IF whole = <<>> THEN "cgiFormEmpty" ELSE "cgiFormSuccess"
  BY <1>10, <1>12, <1>13, <1>14
<1> QED BY <1>10, <1>11, <1>13, <1>15, <1>16 DEF w, whole

(* A field is normal.                                                       *)
LEMMA FieldStaysNormal ==
  ASSUME TextsRight PROVE FieldIsNormal
<1> SUFFICES ASSUME Answered("field")
             PROVE  LET whole == WholeField(call.text, call.newlines)
                    IN  /\ result.text = Clip(whole, call.max)
                        /\ result.code = "cgiFormTruncated" <=> Len(whole) > call.max - 1
                        /\ result.code = "cgiFormEmpty" <=> whole = <<>>
  BY DEF FieldIsNormal, WholeField
<1>1. call.text \in Text /\ call.newlines \in BOOLEAN /\ call.max \in Nat \ {0}
  BY Asked, CallIs DEF FieldCall
<1>2. result = cgiFormEntryString(call.text, call.max, call.newlines)
  BY Asked DEF Answer
<1> DEFINE v == call.text
           newlines == call.newlines
           max == call.max
           r == cgiFormEntryString(v, max, newlines)
           whole == WholeField(v, newlines)
<1>3. v \in Text /\ newlines \in BOOLEAN /\ max \in Nat \ {0}
  BY <1>1
<1> HIDE DEF v, newlines, max
<1>4. /\ whole \in Seq(Byte) /\ r.text = Clip(whole, max)
      /\ r.code = IF Len(whole) > max - 1 THEN "cgiFormTruncated"
                  ELSE IF whole = <<>> THEN "cgiFormEmpty" ELSE "cgiFormSuccess"
  BY <1>3, EntryRead
<1>5. whole = <<>> => ~(Len(whole) > max - 1)
  BY <1>3, EmptySeq
<1> HIDE DEF whole, r
<1>6. /\ r.text = Clip(whole, max)
      /\ r.code = "cgiFormTruncated" <=> Len(whole) > max - 1
      /\ r.code = "cgiFormEmpty" <=> whole = <<>>
  BY <1>4, <1>5
<1> QED BY <1>2, <1>6 DEF r, whole, v, newlines, max
-------------------------------------------------------------------------------
(* cgiFormEntryFindNext finds the first entry of the name from pos on.      *)
LEMMA FindNextIs ==
  ASSUME NEW items, Len(items) \in Nat, NEW name, NEW pos \in 1 .. Len(items) + 1
  PROVE  FindAt(items, name, pos, FindNext(items, name, pos))
<1> DEFINE S == {i \in pos .. Len(items) : items[i].attr = name} \cup {Len(items) + 1}
<1>1. S \subseteq Nat /\ S # {} /\ FindNext(items, name, pos) = Min(S)
  BY DEF FindNext
<1>2. Min(S) \in S /\ \A y \in S : Min(S) <= y
  BY <1>1, LeastOf
<1> QED BY <1>1, <1>2 DEF FindAt

(* The entry at p is found from p on exactly if it has the name.            *)
LEMMA FindHere ==
  ASSUME NEW items, NEW n \in Nat, Len(items) = n, NEW name, NEW p \in 1 .. n, NEW x, FindAt(items, name, p, x)
  PROVE  /\ x \in Nat /\ x >= p /\ x <= n + 1
         /\ items[p].attr = name => x = p
         /\ items[p].attr # name => x # p
<1>1. /\ x \in p .. n + 1 /\ (x <= n => items[x].attr = name)
      /\ \A j \in p .. n : items[j].attr = name => x <= j
  BY DEF FindAt
<1>2. p \in p .. n /\ p <= n
  OBVIOUS
<1>3. items[p].attr = name => x = p
  BY <1>1, <1>2
<1>4. items[p].attr # name => x # p
  BY <1>1, <1>2
<1>5. x \in Nat /\ x >= p /\ x <= n + 1
  BY <1>1
<1> QED BY <1>3, <1>4, <1>5

(* What is not found at one place is found from the next place on.          *)
LEMMA FindLater ==
  ASSUME NEW items, NEW n \in Nat, Len(items) = n, NEW name, NEW p \in 1 .. n, NEW x, FindAt(items, name, p, x),
         items[p].attr # name, NEW y, FindAt(items, name, p + 1, y)
  PROVE  y = x
<1>1. /\ x \in p .. n + 1 /\ (x <= n => items[x].attr = name)
      /\ \A j \in p .. n : items[j].attr = name => x <= j
  BY DEF FindAt
<1>2. x # p /\ x >= p
  BY FindHere
<1> DEFINE q == p + 1
<1>3. /\ y \in q .. n + 1 /\ (y <= n => items[y].attr = name)
      /\ \A j \in q .. n : items[j].attr = name => y <= j
  BY DEF FindAt
<1>4. q \in Nat /\ q = p + 1 /\ x >= q
  BY <1>1, <1>2
<1> HIDE DEF q
<1>5. x <= y
  BY <1>3, <1>4, <1>1
<1>6. y <= x
  BY <1>1, <1>4, <1>3
<1> QED BY <1>1, <1>3, <1>4, <1>5, <1>6

(* The entries of a name, put together entry by entry.                      *)
LEMMA MineTyped ==
  ASSUME NEW items \in Seq(Field), NEW name
  PROVE  /\ MinePieces(items, name) \in Seq(Seq(Field)) /\ Len(MinePieces(items, name)) = Len(items)
         /\ Mine(items, name) = FlattenSeq(MinePieces(items, name)) /\ Mine(items, name) \in Seq(Field)
         /\ Len(Mine(items, name)) \in Nat
<1> DEFINE ps == MinePieces(items, name)
           n == Len(items)
           C == {e \in ToSet(items) : e.attr = name}
           T == Seq(Field)
<1>1. n \in Nat /\ DOMAIN items = 1 .. n /\ \A i \in 1 .. n : items[i] \in Field
  BY LenProperties, ElementOfSeq
<1>2. ps \in [1 .. n -> T]
  BY <1>1, EmptySeq DEF MinePieces, n
<1>3. ps \in Seq(T) /\ Len(ps) = n
  BY <1>1, <1>2, ASequence
<1>4. Mine(items, name) = FlattenSeq(ps)
  BY <1>1 DEF ToSet, MinePieces, Mine, Only
<1>5. FlattenSeq(ps) \in Seq(Field)
  BY <1>3, FlattenTyped
<1> QED BY <1>3, <1>4, <1>5, LenProperties

(* A loop of FindFirst and FindNext visits them all, in order.              *)
LEMMA VisitedIsMine ==
  ASSUME NEW items \in Seq(Field), NEW name
  PROVE  /\ Visited(items, name) = Mine(items, name)
         /\ LET e == cgiFormEntryFindFirst(items, name)
            IN  /\ e \in 1 .. Len(items) + 1
                /\ e > Len(items) => Mine(items, name) = <<>>
                /\ e <= Len(items) => Mine(items, name) # <<>> /\ Mine(items, name)[1] = items[e]
<1> DEFINE n == Len(items)
           D == 1 .. n
           found == [pos \in D |-> FindNext(items, name, pos)]
           next == [pos \in D |-> found[pos] + 1]
           out == [pos \in D |-> IF found[pos] > n THEN <<>> ELSE <<items[found[pos]]>>]
           ps == MinePieces(items, name)
           mine == Mine(items, name)
           W(p) == Walk(next, out, p)
           w == [p \in 1 .. n + 1 |-> W(p)]
<1>1. n \in Nat /\ DOMAIN items = D /\ \A i \in D : items[i] \in Field
  BY LenProperties, ElementOfSeq
<1>2. Visited(items, name) = W(1)
  BY <1>1 DEF Visited
<1>3. \A p \in D : FindAt(items, name, p, found[p])
  BY <1>1, FindNextIs
<1>4. \A p \in D : /\ found[p] \in Nat /\ found[p] >= p /\ found[p] <= n + 1
                   /\ next[p] = found[p] + 1
                   /\ out[p] = IF found[p] > n THEN <<>> ELSE <<items[found[p]]>>
  <2> SUFFICES ASSUME NEW p \in D
               PROVE  found[p] \in Nat /\ found[p] >= p /\ found[p] <= n + 1
    OBVIOUS
  <2>1. FindAt(items, name, p, found[p]) /\ p \in 1 .. n
    BY <1>3
  <2> HIDE DEF found
  <2> QED BY <1>1, <2>1, FindHere
<1> HIDE DEF found
<1>5. Forward(next, n)
  BY <1>1, <1>4 DEF Forward
<1> HIDE DEF next, out
<1>6. ASSUME NEW i \in Nat PROVE W(i) = IF i \in D THEN out[i] \o W(next[i]) ELSE <<>>
  BY <1>1, <1>5, WalkStep
<1>7. \A p \in D : out[p] \in Seq(Field)
  <2> SUFFICES ASSUME NEW p \in D PROVE out[p] \in Seq(Field)
    OBVIOUS
  <2>1. CASE found[p] > n
    BY <1>4, <2>1, EmptySeq
  <2>2. CASE ~(found[p] > n)
    <3>1. found[p] \in D
      <4> DEFINE x == found[p]
      <4>1. x \in Nat /\ x >= p /\ x <= n + 1 /\ ~(x > n) /\ p \in Nat /\ p >= 1
        <5>1. p \in Nat /\ p >= 1
          BY <1>1
        <5>2. x \in Nat /\ x >= p /\ x <= n + 1
          BY <1>4
        <5> QED BY <2>2, <5>1, <5>2
      <4> HIDE DEF x, n
      <4>2. x \in D
        BY <1>1, <4>1
      <4> QED BY <4>2 DEF x
    <3>2. <<items[found[p]]>> \in Seq(Field)
      BY <1>1, <3>1
    <3> QED BY <1>4, <2>2, <3>2
  <2> QED BY <2>1, <2>2
<1>8. ASSUME NEW i \in Nat PROVE W(i) \in Seq(Field)
  BY <1>1, <1>5, <1>7, WalkTyped
<1>9. ASSUME NEW p \in D PROVE W(p) = ps[p] \o W(p + 1)
  <2> DEFINE x == found[p]
             q == p + 1
  <2>1. /\ x \in Nat /\ x >= p /\ x <= n + 1 /\ next[p] = x + 1 /\ p \in Nat /\ p >= 1 /\ p <= n
        /\ out[p] = (IF x > n THEN <<>> ELSE <<items[x]>>) /\ q = p + 1
    BY <1>1, <1>4
  <2>2. /\ items[p].attr = name => x = p
        /\ items[p].attr # name => x # p
        /\ items[p].attr # name => \A y : FindAt(items, name, q, y) => y = x
    BY <1>1, <1>3, FindHere, FindLater DEF q
  <2>3. W(p) = out[p] \o W(next[p])
    BY <2>1, <1>6
  <2>4. ps[p] = IF items[p].attr = name THEN <<items[p]>> ELSE <<>>
    BY DEF MinePieces
  <2>5. q \in D => found[q] = x \/ items[p].attr = name
    BY <1>3, <2>2
  <2>6. q \in D => W(q) = out[q] \o W(next[q])
    <3>1. q \in Nat
      BY <2>1
    <3> HIDE DEF W, q
    <3> QED BY <1>6, <3>1
  <2>7. q \in D => next[q] = found[q] + 1 /\ out[q] = IF found[q] > n THEN <<>> ELSE <<items[found[q]]>>
    BY <1>4
  <2>8. q \notin D => W(q) = <<>> /\ W(q + 1) = <<>> /\ q = n + 1
    <3>1. q \in Nat /\ q + 1 \in Nat /\ (q \notin D => q = n + 1 /\ q + 1 \notin D)
      BY <1>1, <2>1
    <3> HIDE DEF W, q
    <3> QED BY <1>6, <3>1
  <2>9. W(q) \in Seq(Field)
    BY <2>1, <1>8
  <2> HIDE DEF x, q, W, ps, n, D
  <2>10. CASE items[p].attr = name
    BY <1>1, <2>1, <2>2, <2>10, <2>3, <2>4
  <2>11. CASE items[p].attr # name
    <3>1. <<>> \o W(q) = W(q) /\ ps[p] = <<>>
      BY <2>4, <2>9, <2>11, ConcatEmptySeq
    <3>2. W(p) = W(q)
      <4>1. CASE q \in D
        BY <2>1, <2>5, <2>7, <2>11, <4>1, <2>3, <2>6
      <4>2. CASE q \notin D
        BY <1>1, <2>1, <2>2, <2>8, <2>11, <4>2, <2>3
      <4> QED BY <4>1, <4>2
    <3> QED BY <3>1, <3>2 DEF q
  <2> QED BY <2>1, <2>10, <2>11
<1>10. ps \in Seq(Seq(Field)) /\ Len(ps) = n /\ mine = FlattenSeq(ps)
  BY MineTyped
<1>11. Rests(ps, w)
  <2>1. \A k \in 1 .. n : k \in 1 .. n + 1 /\ k + 1 \in 1 .. n + 1
    BY <1>1
  <2>2. n + 1 \in 1 .. n + 1 /\ n + 1 \in Nat /\ n + 1 \notin D
    BY <1>1
  <2>3. W(n + 1) = <<>>
    BY <1>6, <2>2
  <2> HIDE DEF W, ps, n
  <2> QED BY <1>9, <1>10, <2>1, <2>2, <2>3 DEF Rests
<1>12. w[1] = mine /\ w[1] = W(1)
  BY <1>1, <1>10, <1>11, FlattenFrom
<1> DEFINE e == cgiFormEntryFindFirst(items, name)
<1>13. FindAt(items, name, 1, e)
  BY <1>1, FindNextIs DEF cgiFormEntryFindFirst
<1>14. e \in 1 .. n + 1
  BY <1>13 DEF FindAt
<1>15. CASE n = 0
  BY <1>14, <1>15, <1>6, <1>2, <1>12 DEF e, n, mine
<1>16. CASE n # 0
  <2>1. 1 \in D /\ 1 \in Nat
    BY <1>1, <1>16
  <2>2. e = found[1]
    BY <2>1 DEF cgiFormEntryFindFirst, found
  <2>3. W(1) = out[1] \o W(next[1])
    BY <1>6, <2>1
  <2>4. next[1] = e + 1 /\ out[1] = IF e > n THEN <<>> ELSE <<items[e]>>
    BY <1>4, <2>1, <2>2
  <2>5. W(e + 1) \in Seq(Field)
    BY <1>1, <1>14, <1>8
  <2>6. CASE e > n
    <3>1. W(e + 1) = <<>>
      <4>1. e + 1 \in Nat /\ e + 1 \notin D
        BY <1>1, <1>14, <2>6
      <4> HIDE DEF e
      <4> QED BY <1>6, <4>1
    <3>2. W(1) = <<>>
      BY <2>3, <2>4, <2>6, <3>1
    <3>3. ~(e <= n)
      BY <1>1, <1>14, <2>6
    <3> HIDE DEF W, e, mine, w, n
    <3> QED BY <1>2, <1>12, <1>14, <2>6, <3>2, <3>3 DEF e, n, mine
  <2>7. CASE ~(e > n)
    <3> DEFINE rest == W(e + 1)
               x == items[e]
    <3>1. x \in Field /\ W(1) = <<x>> \o rest
      BY <1>1, <1>14, <2>7, <2>3, <2>4
    <3> HIDE DEF rest, x
    <3>2. <<x>> \in Seq(Field) /\ Len(<<x>>) = 1 /\ rest \in Seq(Field) /\ Len(rest) \in Nat
      BY <2>5, <3>1, LenProperties DEF rest
    <3>3. Len(<<x>> \o rest) = 1 + Len(rest) /\ (<<x>> \o rest)[1] = x
      BY <3>2, ConcatProperties
    <3>4. W(1) # <<>> /\ W(1)[1] = x
      BY <3>1, <3>2, <3>3
    <3> HIDE DEF W, mine, w, n
    <3> QED BY <1>2, <1>12, <1>14, <2>7, <3>4 DEF x, n, mine
  <2> QED BY <2>6, <2>7
<1> QED BY <1>15, <1>16
-------------------------------------------------------------------------------
(* Every value of a name is read in the room that was measured for it.      *)
LEMMA ValueFits ==
  ASSUME NEW v \in Text
  PROVE  cgiFormEntryString(v, SpaceNeeded(v), TRUE).text = Normal(v)
<1> DEFINE max == SpaceNeeded(v)
           whole == Normal(v)
<1>1. Len(v) \in Nat /\ max \in Nat \ {0} /\ max - 1 = Len(v) /\ WholeField(v, TRUE) = whole
  BY LenProperties DEF SpaceNeeded, WholeField, Text
<1> HIDE DEF max, whole
<1>2. /\ whole \in Seq(Byte) /\ Len(whole) <= Len(v) /\ Len(whole) \in Nat
      /\ cgiFormEntryString(v, max, TRUE).text = Clip(whole, max)
  BY <1>1, EntryRead, LenProperties
<1>3. Min({Len(whole), max - 1}) = Len(whole)
  BY <1>1, <1>2, LeastOfTwo
<1>4. Clip(whole, max) = whole
  BY <1>2, <1>3, SubSeqFull DEF Clip
<1> QED BY <1>2, <1>4 DEF max, whole

(* The choice that a value is.                                              *)
LEMMA ChoiceIs ==
  ASSUME NEW choices \in Seq(Text), IsInjective(choices), NEW x
  PROVE  /\ Choice(choices, x) \in Nat
         /\ Choice(choices, x) <= Len(choices) <=> x \in ToSet(choices)
         /\ \A c \in DOMAIN choices : Choice(choices, x) = c <=> choices[c] = x
<1> DEFINE n == Len(choices)
           S == {i \in DOMAIN choices : choices[i] = x} \cup {n + 1}
           k == Choice(choices, x)
<1>1. n \in Nat /\ DOMAIN choices = 1 .. n
  BY LenProperties
<1>2. S \subseteq Nat /\ S # {} /\ k = Min(S)
  BY <1>1 DEF Choice
<1>3. k \in S /\ \A y \in S : k <= y
  BY <1>2, LeastOf
<1> HIDE DEF k
<1>4. k \in Nat /\ ((k \in 1 .. n /\ choices[k] = x) \/ k = n + 1)
  BY <1>1, <1>3
<1>5. \A c \in 1 .. n : choices[c] = x => k <= c
  BY <1>1, <1>3
<1>6. \A c, d \in 1 .. n : choices[c] = choices[d] => c = d
  BY <1>1 DEF IsInjective
<1>7. x \in ToSet(choices) <=> \E c \in 1 .. n : choices[c] = x
  BY <1>1 DEF ToSet
<1> HIDE DEF n, S
<1>8. \A c \in 1 .. n : k = c <=> choices[c] = x
  <2> SUFFICES ASSUME NEW c \in 1 .. n PROVE k = c <=> choices[c] = x
    OBVIOUS
  <2>1. k = c => choices[c] = x
    BY <1>1, <1>4
  <2>2. choices[c] = x => k = c
    <3> SUFFICES ASSUME choices[c] = x PROVE k = c
      OBVIOUS
    <3>1. k <= c
      BY <1>5
    <3>2. k \in 1 .. n /\ choices[k] = x
      BY <1>1, <1>4, <3>1
    <3> QED BY <1>6, <3>2
  <2> QED BY <2>1, <2>2
<1>9. k <= n <=> x \in ToSet(choices)
  BY <1>1, <1>4, <1>7, <1>5
<1>10. k \in Nat
  BY <1>1, <1>4
<1> QED BY <1>1, <1>8, <1>9, <1>10 DEF k, n

(* The numbers up to n that are not in a set are n less those that are.     *)
LEMMA RestOf ==
  ASSUME NEW n \in Nat, NEW T, T \subseteq 1 .. n
  PROVE  Cardinality((1 .. n) \ T) = n - Cardinality(T)
<1> DEFINE S == 1 .. n
<1>1. IsFiniteSet(S) /\ Cardinality(S) = n
  BY FS_Interval
<1>2. S \cap T = T
  OBVIOUS
<1> HIDE DEF S
<1>3. Cardinality(S \ T) = Cardinality(S) - Cardinality(S \cap T)
  BY <1>1, FS_Difference
<1> QED BY <1>1, <1>2, <1>3 DEF S

(* cgiFormSelectMultiple.                                                   *)
LEMMA SelectsWhatWasMade ==
  ASSUME NEW items \in Seq(Field), NEW name, NEW choices \in Seq(Text), IsInjective(choices)
  PROVE  LET mine == Mine(items, name)
             made == {e.value : e \in ToSet(mine)} \cap ToSet(choices)
             r == SelectMultiple(items, name, choices)
         IN  /\ \A c \in DOMAIN choices : r.result[c] <=> choices[c] \in made
             /\ r.invalid = Cardinality({i \in DOMAIN mine : mine[i].value \notin made})
<1> DEFINE mine == Mine(items, name)
           m == Len(mine)
           made == {e.value : e \in ToSet(mine)} \cap ToSet(choices)
           picked == [i \in DOMAIN mine |-> Choice(choices, mine[i].value)]
           hits == {i \in DOMAIN picked : picked[i] <= Len(choices)}
           r == SelectMultiple(items, name, choices)
           invalid == Len(picked) - Cardinality(hits)
           res == [c \in DOMAIN choices |-> \E i \in hits : picked[i] = c]
           code == IF hits = {} THEN "cgiFormNotFound" ELSE "cgiFormSuccess"
<1>1. Visited(items, name) = mine /\ mine \in Seq(Field) /\ m \in Nat /\ DOMAIN mine = 1 .. m
  BY VisitedIsMine, MineTyped, LenProperties
<1>2. r = [result |-> res, invalid |-> invalid, code |-> code]
  BY <1>1 DEF SelectMultiple
<1> HIDE DEF mine
<1>3. r.result = res /\ r.invalid = invalid
  BY <1>2
<1>4. /\ \A i \in 1 .. m : mine[i].value \in {e.value : e \in ToSet(mine)}
      /\ \A x \in made : x \in ToSet(choices) /\ \E i \in 1 .. m : mine[i].value = x
  BY <1>1 DEF ToSet
<1>5. \A i \in 1 .. m : mine[i].value \in made <=> mine[i].value \in ToSet(choices)
  BY <1>4
<1>6. /\ DOMAIN picked = 1 .. m
      /\ \A i \in 1 .. m : picked[i] <= Len(choices) <=> mine[i].value \in ToSet(choices)
      /\ \A i \in 1 .. m : \A c \in DOMAIN choices : picked[i] = c <=> choices[c] = mine[i].value
      /\ picked \in [1 .. m -> Nat]
  BY <1>1, ChoiceIs
<1>7. Len(picked) = m
  BY <1>1, <1>6, ASequence
<1> HIDE DEF picked, made
<1>8. \A i \in 1 .. m : i \in hits <=> mine[i].value \in made
  BY <1>5, <1>6
<1>9. hits \subseteq 1 .. m
  BY <1>6
<1>10. {i \in DOMAIN mine : mine[i].value \notin made} = (1 .. m) \ hits
  BY <1>1, <1>8
<1>11. r.invalid = Cardinality({i \in DOMAIN mine : mine[i].value \notin made})
  BY <1>1, <1>9, <1>3, <1>7, <1>10, RestOf
<1>12. ASSUME NEW c \in DOMAIN choices PROVE r.result[c] <=> choices[c] \in made
  <2>1. r.result[c] <=> \E i \in hits : picked[i] = c
    BY <1>3
  <2>2. choices[c] \in ToSet(choices)
    BY DEF ToSet
  <2>3. (\E i \in hits : picked[i] = c) => choices[c] \in made
    <3> SUFFICES ASSUME NEW i \in hits, picked[i] = c PROVE choices[c] \in made
      OBVIOUS
    <3>1. i \in 1 .. m /\ mine[i].value \in made
      BY <1>8, <1>9
    <3> HIDE DEF hits
    <3> QED BY <1>6, <3>1
  <2>4. choices[c] \in made => \E i \in hits : picked[i] = c
    <3> SUFFICES ASSUME choices[c] \in made PROVE \E i \in hits : picked[i] = c
      OBVIOUS
    <3>1. PICK i \in 1 .. m : mine[i].value = choices[c]
      BY <1>4
    <3>2. i \in hits
      BY <1>8, <3>1
    <3>3. picked[i] = c
      BY <1>6, <3>1
    <3> QED BY <3>2, <3>3
  <2> HIDE DEF hits, r
  <2> QED BY <2>1, <2>3, <2>4
<1> HIDE DEF r
<1> QED BY <1>11, <1>12 DEF made, mine, r

(* cgiFormSelectSingle.                                                     *)
LEMMA SelectsTheFirst ==
  ASSUME NEW items \in Seq(Field), NEW name, NEW choices \in Seq(Text), IsInjective(choices), NEW default
  PROVE  LET mine == Mine(items, name)
             made == {e.value : e \in ToSet(mine)} \cap ToSet(choices)
         IN  SelectSingle(items, name, choices, default).code = "cgiFormSuccess"
               <=> mine # <<>> /\ mine[1].value \in made
<1> DEFINE mine == Mine(items, name)
           made == {e.value : e \in ToSet(mine)} \cap ToSet(choices)
           n == Len(items)
           e == cgiFormEntryFindFirst(items, name)
           i == Choice(choices, items[e].value)
           code == SelectSingle(items, name, choices, default).code
<1>1. /\ n \in Nat /\ e \in 1 .. n + 1 /\ (e > n => mine = <<>>)
      /\ e <= n => mine # <<>> /\ mine[1] = items[e]
  BY VisitedIsMine, LenProperties
<1>2. code = IF e > n THEN "cgiFormNotFound"
             ELSE IF i > Len(choices) THEN "cgiFormNoSuchChoice" ELSE "cgiFormSuccess"
  BY DEF SelectSingle, e, n, i
<1>3. mine # <<>> => mine[1] \in ToSet(mine)
  BY MineTyped, LenProperties, EmptySeq DEF ToSet
<1>4. i \in Nat /\ (i <= Len(choices) <=> items[e].value \in ToSet(choices)) /\ Len(choices) \in Nat
  BY ChoiceIs, LenProperties
<1>5. mine # <<>> => (mine[1].value \in made <=> mine[1].value \in ToSet(choices))
  BY <1>3
<1> HIDE DEF mine, made, n, e, i, code
<1>6. CASE e > n
  BY <1>1, <1>2, <1>6 DEF code, mine, made
<1>7. CASE ~(e > n)
  BY <1>1, <1>7, <1>2, <1>4, <1>5 DEF code, mine, made
<1> QED BY <1>6, <1>7
-------------------------------------------------------------------------------
(* The texts of a field.                                                    *)
LEMMA FieldTexts == \A e \in Field : e.attr \in Text /\ e.value \in Text
BY DEF Field

(* cgiFormEntries lists every name, and none twice.                         *)
LEMMA NamesOnce ==
  ASSUME NEW items \in Seq(Field)
  PROVE  ToSet(FormEntries(items)) = {e.attr : e \in ToSet(items)} /\ IsInjective(FormEntries(items))
<1> DEFINE n == Len(items)
           fresh(i) == \A j \in 1 .. i - 1 : items[j].attr # items[i].attr
           ss == [i \in DOMAIN items |-> IF fresh(i) THEN <<items[i].attr>> ELSE <<>>]
           t == FlattenSeq(ss)
           T == Seq(Text)
           u(k) == Upto(ss, k)
<1>1. n \in Nat /\ DOMAIN items = 1 .. n /\ \A i \in 1 .. n : items[i] \in Field /\ items[i].attr \in Text
  BY LenProperties, ElementOfSeq, FieldTexts
<1>2. t = FormEntries(items)
  BY DEF FormEntries
<1>3. \A i \in 1 .. n : ss[i] = IF fresh(i) THEN <<items[i].attr>> ELSE <<>>
  BY <1>1
<1>4. \A i \in 1 .. n : ss[i] \in Seq(Text)
  BY <1>1, <1>3, EmptySeq
<1>5. ss \in Seq(T) /\ Len(ss) = n
  BY <1>1, <1>4, ASequence
<1> HIDE DEF ss
<1>6. PlacedIn(ss) /\ t \in Seq(Text)
  BY <1>5, Placed, FlattenTyped
<1>7. Len(t) \in Nat /\ DOMAIN t = 1 .. Len(t)
  BY <1>6, LenProperties
<1>8. ASSUME NEW p \in 1 .. Len(t)
      PROVE  \E i \in 1 .. n : fresh(i) /\ p = u(i - 1) + 1 /\ t[p] = items[i].attr
  <2>1. PICK i \in 1 .. Len(ss) : \E j \in 1 .. Len(ss[i]) : p = u(i - 1) + j
    BY <1>5, PlacedOnce
  <2>2. PICK j \in 1 .. Len(ss[i]) : p = u(i - 1) + j
    BY <2>1
  <2>3. i \in 1 .. n
    BY <1>5
  <2>4. fresh(i)
    <3> SUFFICES ASSUME ~fresh(i) PROVE FALSE
      OBVIOUS
    <3>1. ss[i] = <<>>
      BY <1>3, <2>3
    <3>2. Len(ss[i]) = 0
      BY <3>1, EmptySeq
    <3>3. 1 .. 0 = {}
      OBVIOUS
    <3> QED BY <2>2, <3>2, <3>3
  <2>5. ss[i] = <<items[i].attr>>
    BY <1>3, <2>3, <2>4
  <2>6. j = 1 /\ ss[i][1] = items[i].attr
    BY <2>5, <2>2
  <2>7. t[u(i - 1) + j] = ss[i][j]
    BY <1>6, <2>2 DEF PlacedIn
  <2> HIDE DEF fresh, u, t, n
  <2> QED BY <2>2, <2>3, <2>4, <2>6, <2>7
<1>9. ASSUME NEW i \in 1 .. n, fresh(i) PROVE \E p \in 1 .. Len(t) : t[p] = items[i].attr
  <2>1. ss[i] = <<items[i].attr>> /\ i \in 1 .. Len(ss)
    BY <1>3, <1>5, <1>9
  <2>2. Len(ss[i]) = 1 /\ ss[i][1] = items[i].attr /\ 1 \in 1 .. Len(ss[i])
    BY <2>1
  <2>3. /\ u(i) = u(i - 1) + Len(ss[i]) /\ t[u(i - 1) + 1] = ss[i][1]
        /\ u(i) \in 0 .. Len(t) /\ u(i - 1) \in 0 .. Len(t)
    <3>1. i \in 0 .. Len(ss) /\ i - 1 \in 0 .. Len(ss)
      BY <2>1
    <3> QED BY <1>6, <2>1, <2>2, <3>1 DEF PlacedIn
  <2> DEFINE q == u(i - 1) + 1
  <2>4. q \in 1 .. Len(t)
    <3> DEFINE a == u(i)
               b == u(i - 1)
    <3>1. a = b + 1 /\ a \in 0 .. Len(t) /\ b \in 0 .. Len(t) /\ q = b + 1
      BY <2>2, <2>3
    <3> HIDE DEF a, b, q, t
    <3> QED BY <1>7, <3>1
  <2>5. t[q] = items[i].attr
    BY <2>2, <2>3
  <2> HIDE DEF q
  <2> QED BY <2>4, <2>5
<1>10. ASSUME NEW i \in 1 .. n PROVE \E k \in 1 .. n : fresh(k) /\ items[k].attr = items[i].attr
  <2> DEFINE S == {k \in 1 .. n : items[k].attr = items[i].attr}
             k == Min(S)
  <2>1. S \subseteq Nat /\ i \in S
    BY <1>1
  <2>2. k \in S /\ \A y \in S : k <= y
    BY <2>1, LeastOf
  <2> HIDE DEF k
  <2>3. k \in 1 .. n /\ items[k].attr = items[i].attr
    BY <2>2
  <2>4. fresh(k)
    <3> SUFFICES ASSUME NEW j \in 1 .. k - 1, items[j].attr = items[k].attr PROVE FALSE
      OBVIOUS
    <3>1. j \in S /\ ~(k <= j)
      BY <1>1, <2>3
    <3> QED BY <2>2, <3>1
  <2> QED BY <2>3, <2>4
<1>11. ASSUME NEW i \in 1 .. n, NEW k \in 1 .. n, fresh(i), fresh(k), items[i].attr = items[k].attr
       PROVE  i = k
  BY <1>1, <1>11
<1> HIDE DEF fresh, u
<1>12. ASSUME NEW p \in 1 .. Len(t), NEW q \in 1 .. Len(t), t[p] = t[q] PROVE p = q
  <2>1. PICK i \in 1 .. n : fresh(i) /\ p = u(i - 1) + 1 /\ t[p] = items[i].attr
    BY <1>8
  <2>2. PICK k \in 1 .. n : fresh(k) /\ q = u(k - 1) + 1 /\ t[q] = items[k].attr
    BY <1>8
  <2>3. i = k
    BY <1>11, <1>12, <2>1, <2>2
  <2> QED BY <2>1, <2>2, <2>3
<1> HIDE DEF t
<1>13. IsInjective(t)
  BY <1>7, <1>12 DEF IsInjective
<1>14. ToSet(t) = {t[p] : p \in 1 .. Len(t)} /\ {e.attr : e \in ToSet(items)} = {items[i].attr : i \in 1 .. n}
  BY <1>1, <1>7 DEF ToSet
<1>15. \A p \in 1 .. Len(t) : t[p] \in {items[i].attr : i \in 1 .. n}
  BY <1>8
<1>16. \A i \in 1 .. n : items[i].attr \in {t[p] : p \in 1 .. Len(t)}
  <2> SUFFICES ASSUME NEW i \in 1 .. n PROVE items[i].attr \in {t[p] : p \in 1 .. Len(t)}
    OBVIOUS
  <2>1. PICK k \in 1 .. n : fresh(k) /\ items[k].attr = items[i].attr
    BY <1>10
  <2>2. PICK p \in 1 .. Len(t) : t[p] = items[k].attr
    BY <1>9, <2>1
  <2> QED BY <2>1, <2>2
<1>17. ToSet(t) = {e.attr : e \in ToSet(items)}
  BY <1>14, <1>15, <1>16
<1> QED BY <1>2, <1>13, <1>17

(* Every value of a name is read.                                           *)
LEMMA ValuesStayRead ==
  ASSUME TextsRight PROVE EveryValueIsRead
<1> SUFFICES ASSUME Answered("entries") PROVE EveryValueIsRead
  BY DEF EveryValueIsRead
<1> DEFINE l == call.list
           name == call.name
           choices == call.choices
           mine == Mine(l, name)
           made == {e.value : e \in ToSet(mine)} \cap ToSet(choices)
           all == StringMultiple(l, name)
           names == FormEntries(l)
           single == SelectSingle(l, name, choices, -1)
           multiple == SelectMultiple(l, name, choices)
<1>1. l \in Seq(Field) /\ choices \in Seq(Text) /\ IsInjective(choices)
  BY Asked, CallIs DEF EntriesCall
<1>2. result = [all |-> all, names |-> names, single |-> single, multiple |-> multiple]
  BY Asked DEF Answer
<1> HIDE DEF l, name, choices
<1>3. all = [i \in DOMAIN mine |-> Normal(mine[i].value)]
  BY <1>1, VisitedIsMine, MineTyped, LenProperties, ElementOfSeq, FieldTexts, ValueFits DEF StringMultiple
<1>4. /\ \A c \in DOMAIN choices : multiple.result[c] <=> choices[c] \in made
      /\ multiple.invalid = Cardinality({i \in DOMAIN mine : mine[i].value \notin made})
  BY <1>1, SelectsWhatWasMade
<1>5. single.code = "cgiFormSuccess" <=> mine # <<>> /\ mine[1].value \in made
  <2> DEFINE default == -1
  <2> HIDE DEF default
  <2>1. SelectSingle(l, name, choices, default).code = "cgiFormSuccess"
          <=> mine # <<>> /\ mine[1].value \in made
    BY <1>1, SelectsTheFirst
  <2> QED BY <2>1 DEF default
<1>6. ToSet(names) = {e.attr : e \in ToSet(l)} /\ IsInjective(names)
  BY <1>1, NamesOnce
<1>7. mine = Only(l, {e \in ToSet(l) : e.attr = name})
  BY DEF Mine
<1> HIDE DEF all, names, single, multiple
<1>8. result.all = all /\ result.names = names /\ result.single = single /\ result.multiple = multiple
  BY <1>2
<1> HIDE DEF mine
<1> QED BY <1>3, <1>4, <1>5, <1>6, <1>7, <1>8 DEF EveryValueIsRead, l, name, choices

(* What cgiMain is given for a field is what was typed into it.             *)
THEOREM FieldsAreAlwaysRead == Spec => []FieldsAreRead
<1>1. TextsRight => FieldsAreRead
  BY FieldStaysNormal, NumberStaysBounded, ValuesStayRead DEF FieldsAreRead
<1> QED BY <1>1, TextsAreRight, PTL
-------------------------------------------------------------------------------
(* What a byte does to the state, for each of the loop's three states.      *)
LEMMA UnescapeTurn ==
  ASSUME NEW e \in EscapeState, NEW c \in Int
  PROVE  LET r == UnescapeChar(e, c)
         IN  /\ r \in EscapeState
             /\ e.state = "rest" /\ c = PERCENT => r.state = "first" /\ r.s = e.s
             /\ e.state = "rest" /\ c = PLUS => r.state = "rest" /\ r.s = Append(e.s, SP)
             /\ e.state = "rest" /\ c \notin {PERCENT, PLUS} => r.state = "rest" /\ r.s = Append(e.s, c)
             /\ e.state = "first" => r.state = "second" /\ r.s = e.s /\ r.value = 16 * cgiHexValue(c)
             /\ e.state = "second" => r.state = "rest" /\ r.s = Append(e.s, (e.value + cgiHexValue(c)) % 256)
<1> DEFINE h == cgiHexValue(c)
           r == UnescapeChar(e, c)
           x == 16 * h
           y == (e.value + h) % 256
<1>1. e.state \in {"rest", "first", "second"} /\ e.value \in Int /\ e.s \in Seq(Int)
  BY DEF EscapeState
<1>2. h \in Int
  BY HexValues
<1>3. r = CASE e.state = "rest" /\ c = PERCENT -> [e EXCEPT !.state = "first"]
            [] e.state = "rest" /\ c = PLUS -> [e EXCEPT !.s = Append(@, SP)]
            [] e.state = "rest" /\ c \notin {PERCENT, PLUS} -> [e EXCEPT !.s = Append(@, c)]
            [] e.state = "first" -> [e EXCEPT !.state = "second", !.value = x]
            [] e.state = "second" -> [e EXCEPT !.state = "rest", !.s = Append(@, y)]
  BY DEF UnescapeChar
<1>4. PERCENT # PLUS
  BY DEF PERCENT, PLUS
<1> HIDE DEF h, r
<1>5. x \in Int /\ y \in Int /\ SP \in Int
  BY <1>1, <1>2 DEF SP
<1> HIDE DEF x, y
<1>6. Append(e.s, SP) \in Seq(Int) /\ Append(e.s, c) \in Seq(Int) /\ Append(e.s, y) \in Seq(Int)
  BY <1>1, <1>5, AppendProperties
<1> DEFINE Good ==
             /\ r \in EscapeState
             /\ e.state = "rest" /\ c = PERCENT => r.state = "first" /\ r.s = e.s
             /\ e.state = "rest" /\ c = PLUS => r.state = "rest" /\ r.s = Append(e.s, SP)
             /\ e.state = "rest" /\ c \notin {PERCENT, PLUS} => r.state = "rest" /\ r.s = Append(e.s, c)
             /\ e.state = "first" => r.state = "second" /\ r.s = e.s /\ r.value = x
             /\ e.state = "second" => r.state = "rest" /\ r.s = Append(e.s, y)
<1>7. ASSUME e.state = "rest" /\ c = PERCENT PROVE Good
  BY <1>3, <1>4, <1>7 DEF EscapeState
<1>8. ASSUME e.state = "rest" /\ c = PLUS PROVE Good
  <2> DEFINE t == Append(e.s, SP)
  <2>1. r = [e EXCEPT !.s = t]
    BY <1>3, <1>4, <1>8
  <2>2. t \in Seq(Int)
    BY <1>6
  <2>3. t = Append(e.s, SP)
    OBVIOUS
  <2> HIDE DEF t
  <2>4. r \in EscapeState /\ r.state = "rest" /\ r.s = t
    BY <1>8, <2>1, <2>2 DEF EscapeState
  <2> QED BY <1>4, <1>8, <2>3, <2>4
<1>9. ASSUME e.state = "rest" /\ c \notin {PERCENT, PLUS} PROVE Good
  <2> DEFINE t == Append(e.s, c)
  <2>1. r = [e EXCEPT !.s = t]
    BY <1>3, <1>4, <1>9
  <2>2. t \in Seq(Int)
    BY <1>6
  <2>3. t = Append(e.s, c)
    OBVIOUS
  <2> HIDE DEF t
  <2>4. r \in EscapeState /\ r.state = "rest" /\ r.s = t
    BY <1>9, <2>1, <2>2 DEF EscapeState
  <2> QED BY <1>9, <2>3, <2>4
<1>10. ASSUME e.state = "first" PROVE Good
  BY <1>3, <1>10, <1>5 DEF EscapeState
<1>11. ASSUME e.state = "second" PROVE Good
  <2> DEFINE t == Append(e.s, y)
  <2>1. r = [e EXCEPT !.state = "rest", !.s = t]
    BY <1>3, <1>11
  <2>2. t \in Seq(Int)
    BY <1>6
  <2>3. t = Append(e.s, y)
    OBVIOUS
  <2> HIDE DEF t
  <2>4. r \in EscapeState /\ r.state = "rest" /\ r.s = t
    BY <2>1, <2>2 DEF EscapeState
  <2> QED BY <1>11, <2>3, <2>4
<1>12. \/ e.state = "rest" /\ c = PERCENT
       \/ e.state = "rest" /\ c = PLUS
       \/ e.state = "rest" /\ c \notin {PERCENT, PLUS}
       \/ e.state = "first"
       \/ e.state = "second"
  BY <1>1
<1>13. Good
  BY <1>7, <1>8, <1>9, <1>10, <1>11, <1>12
<1> QED BY <1>13 DEF r, x, y, h

(* cgiUnescapeChars is what the loop has put out after the last byte.       *)
LEMMA Unescapes ==
  ASSUME NEW s \in Seq(Int) PROVE \E g : UnescapeRun(s, g)
<1> DEFINE base == [state |-> "rest", value |-> 0, s |-> <<>>]
           n == Len(s)
           turn == [i \in 1 .. n |-> [e \in EscapeState |-> UnescapeChar(e, s[i])]]
           After == CHOOSE g : UnescapeRuns(s, g)
<1>1. n \in Nat /\ base \in EscapeState /\ \A i \in 1 .. n : s[i] \in Int
  BY LenProperties, ElementOfSeq, EmptySeq DEF EscapeState
<1>2. turn \in [1 .. n -> [EscapeState -> EscapeState]]
  BY <1>1, UnescapeTurn
<1>3. PICK g \in [0 .. n -> EscapeState] : Turns(base, turn, n, g)
  BY <1>1, <1>2, TurnsExist
<1>4. \A i \in 1 .. n : turn[i][g[i - 1]] = UnescapeChar(g[i - 1], s[i])
  <2>1. \A i \in 1 .. n : i - 1 \in 0 .. n /\ g[i - 1] \in EscapeState
    BY <1>1
  <2> QED BY <2>1
<1>5. g = [i \in 0 .. n |-> IF i = 0 THEN base ELSE turn[i][g[i - 1]]]
  BY <1>3 DEF Turns
<1> HIDE DEF turn, base, n
<1>6. \A i \in 0 .. n : g[i] = IF i = 0 THEN base ELSE UnescapeChar(g[i - 1], s[i])
  <2> SUFFICES ASSUME NEW i \in 0 .. n
               PROVE  g[i] = IF i = 0 THEN base ELSE UnescapeChar(g[i - 1], s[i])
    OBVIOUS
  <2>1. g[i] = IF i = 0 THEN base ELSE turn[i][g[i - 1]]
    BY <1>5, Zenon
  <2>2. i # 0 => i \in 1 .. n
    BY <1>1
  <2> QED BY <1>4, <2>1, <2>2, Zenon
<1>7. g = [i \in 0 .. n |-> g[i]]
  OBVIOUS
<1>8. g = [i \in 0 .. n |-> IF i = 0 THEN base ELSE UnescapeChar(g[i - 1], s[i])]
  BY <1>6, <1>7
<1>9. UnescapeRuns(s, g)
  BY <1>8 DEF UnescapeRuns, base, n
<1>10. UnescapeRuns(s, After)
  BY <1>9
<1>11. cgiUnescapeChars(s) = CString(After[n].s)
  BY DEF cgiUnescapeChars, UnescapeRuns, n
<1> HIDE DEF After
<1>12. /\ After = [i \in 0 .. n |-> After[i]] /\ After[0] = base
       /\ \A i \in 1 .. n : After[i] = UnescapeChar(After[i - 1], s[i])
  BY <1>10, <1>1 DEF UnescapeRuns, base, n
<1> DEFINE S == {i \in Nat : i <= n => After[i] \in EscapeState}
<1>13. 0 \in S
  BY <1>1, <1>12
<1>14. ASSUME NEW i \in Nat, i \in S PROVE i + 1 \in S
  <2> SUFFICES ASSUME i + 1 <= n PROVE After[i + 1] \in EscapeState
    OBVIOUS
  <2> DEFINE k == i + 1
  <2>1. k \in 1 .. n /\ k - 1 = i /\ i <= n
    BY <1>1
  <2>2. After[i] \in EscapeState
    BY <1>14, <2>1
  <2> HIDE DEF k, S
  <2>3. After[k] = UnescapeChar(After[i], s[k]) /\ s[k] \in Int
    BY <1>1, <1>12, <2>1
  <2>4. After[k] \in EscapeState
    BY <2>2, <2>3, UnescapeTurn
  <2> QED BY <2>4 DEF k
<1>15. Nat \subseteq S
  BY <1>13, <1>14, AllNumbers
<1>16. \A i \in 0 .. n : After[i] \in EscapeState
  BY <1>1, <1>15
<1>17. After \in [0 .. n -> EscapeState]
  BY <1>12, <1>16
<1> HIDE DEF S
<1> QED BY <1>11, <1>12, <1>17 DEF UnescapeRun, base, n
-------------------------------------------------------------------------------
(* A byte of a text is no end mark.                                         *)
LEMMA ByteIs == \A c \in Byte : c \in Int /\ c # NUL
BY DEF Byte, NUL

(* A byte is encoded without = and &, so that its digits stand for it.      *)
LEMMA EncodedByteIs ==
  ASSUME NEW c \in Byte
  PROVE  /\ EncodedByte(c) \in Seq(Harmless)
         /\ c \in Alnum => EncodedByte(c) = <<c>> /\ c \notin {PERCENT, PLUS} /\ Len(EncodedByte(c)) = 1
         /\ c \notin Alnum /\ c = SP => EncodedByte(c) = <<PLUS>> /\ Len(EncodedByte(c)) = 1
         /\ c \notin Alnum /\ c # SP =>
              /\ Len(EncodedByte(c)) = 3
              /\ EncodedByte(c)[1] = PERCENT
              /\ (16 * cgiHexValue(EncodedByte(c)[2]) + cgiHexValue(EncodedByte(c)[3])) % 256 = c
<1> DEFINE h == HexDigit(c \div 16)
           l == HexDigit(c % 16)
<1>1. c \in Alnum => c \in Harmless /\ c \notin {PERCENT, PLUS}
  BY DEF Alnum, Digits, Upper, Lower, Harmless, Byte, PERCENT, PLUS, EQ, AMP
<1>2. PLUS \in Harmless /\ PERCENT \in Harmless
  BY DEF Harmless, Byte, PERCENT, PLUS, EQ, AMP
<1>3. c \div 16 \in 0 .. 15 /\ c % 16 \in 0 .. 15 /\ 16 * (c \div 16) + (c % 16) = c
  BY Bytes DEF Byte
<1>4. h \in HexChars /\ l \in HexChars /\ cgiHexValue(h) = c \div 16 /\ cgiHexValue(l) = c % 16
  BY <1>3, HexValues
<1>5. \A x \in HexChars : x \in Harmless
  BY DEF HexChars, Digits, Harmless, Byte, EQ, AMP
<1>6. (16 * cgiHexValue(h) + cgiHexValue(l)) % 256 = c
  BY <1>3, <1>4, Bytes DEF Byte
<1> HIDE DEF h, l
<1>7. CASE c \in Alnum
  BY <1>7, <1>1 DEF EncodedByte
<1>8. CASE c \notin Alnum /\ c = SP
  BY <1>8, <1>2 DEF EncodedByte
<1>9. CASE c \notin Alnum /\ c # SP
  BY <1>9, <1>4, <1>5, <1>2, <1>6 DEF EncodedByte, h, l
<1> QED BY <1>7, <1>8, <1>9

(* So is a text.                                                            *)
LEMMA EncodedTyped ==
  ASSUME NEW s \in Text
  PROVE  /\ EncodedPieces(s) \in Seq(Seq(Harmless)) /\ Len(EncodedPieces(s)) = Len(s)
         /\ Encoded(s) = FlattenSeq(EncodedPieces(s)) /\ Encoded(s) \in Seq(Harmless) /\ Encoded(s) \in Text
<1> DEFINE n == Len(s)
           ss == EncodedPieces(s)
           T == Seq(Harmless)
<1>1. n \in Nat /\ DOMAIN s = 1 .. n /\ \A i \in 1 .. n : s[i] \in Byte
  BY LenProperties, ElementOfSeq DEF Text
<1>2. ss \in [1 .. n -> T]
  BY <1>1, EncodedByteIs DEF T, EncodedPieces
<1>3. ss \in Seq(T) /\ Len(ss) = n
  BY <1>1, <1>2, ASequence
<1>4. Encoded(s) = FlattenSeq(ss)
  BY <1>1 DEF Encoded, EncodedPieces, EncodedByte
<1>5. FlattenSeq(ss) \in Seq(Harmless)
  BY <1>3, FlattenTyped
<1>6. FlattenSeq(ss) \in Text
  <2> DEFINE t == FlattenSeq(ss)
  <2>1. t \in Seq(Harmless) /\ Harmless \subseteq Byte
    BY <1>5 DEF Harmless
  <2> HIDE DEF t
  <2>2. Len(t) \in Nat /\ t = [i \in 1 .. Len(t) |-> t[i]] /\ \A i \in 1 .. Len(t) : t[i] \in Byte
    BY <2>1, LenProperties, ElementOfSeq
  <2>3. t \in [1 .. Len(t) -> Byte]
    BY <2>2
  <2>4. t \in Seq(Byte)
    BY <2>2, <2>3, ASequence
  <2> QED BY <2>4 DEF t, Text
<1> QED BY <1>3, <1>4, <1>5, <1>6

(* The bytes of a text hold no end mark.                                    *)
LEMMA CStringIs == ASSUME NEW s \in Text PROVE CString(s) = s
<1> DEFINE n == Len(s)
           k == n + 1
<1>1. n \in Nat /\ k \in Nat /\ 1 <= k /\ k <= Len(s) + 1 /\ k - 1 = n /\ ~(k <= Len(s))
  BY LenProperties DEF Text
<1>2. \A j \in Nat : 1 <= j /\ j < k => s[j] \notin {NUL}
  <2> SUFFICES ASSUME NEW j \in Nat, 1 <= j, j < k PROVE s[j] \notin {NUL}
    OBVIOUS
  <2>1. j \in 1 .. n
    BY <1>1
  <2>2. s[j] \in Byte
    BY <2>1, ElementOfSeq DEF Text
  <2> QED BY <2>2, ByteIs
<1> HIDE DEF k
<1>3. Find(s, 1, {NUL}) = k
  BY <1>1, <1>2, FindFirst DEF Text
<1>4. SubSeq(s, 1, n) = s
  BY SubSeqFull DEF Text
<1> QED BY <1>1, <1>3, <1>4 DEF CString

(* What a browser encodes is unescaped to what it was.                      *)
LEMMA UnescapesEncoded ==
  ASSUME NEW s \in Text PROVE cgiUnescapeChars(Encoded(s)) = s
<1> DEFINE n == Len(s)
           ss == EncodedPieces(s)
           t == FlattenSeq(ss)
           u(k) == Upto(ss, k)
           done(k) == SubSeq(s, 1, k)
<1>1. /\ n \in Nat /\ ss \in Seq(Seq(Harmless)) /\ Len(ss) = n /\ Encoded(s) = t /\ t \in Text
      /\ PlacedIn(ss)
  BY EncodedTyped, Placed, LenProperties DEF Text
<1>2. \A i \in 1 .. n : s[i] \in Byte /\ ss[i] = EncodedByte(s[i])
  BY ElementOfSeq DEF Text, EncodedPieces
<1> HIDE DEF ss
<1>3. Len(t) \in Nat /\ t \in Seq(Int) /\ \A i \in 1 .. Len(t) : t[i] \in Int
  BY <1>1, LenProperties, ElementOfSeq, ByteIs, ASequence DEF Text
<1>4. PICK g : UnescapeRun(t, g)
  BY <1>3, Unescapes
<1>5. /\ \A i \in 0 .. Len(t) : g[i] \in EscapeState
      /\ g[0] = [state |-> "rest", value |-> 0, s |-> <<>>]
      /\ \A i \in 1 .. Len(t) : g[i] = UnescapeChar(g[i - 1], t[i])
      /\ cgiUnescapeChars(t) = CString(g[Len(t)].s)
  BY <1>4 DEF UnescapeRun
<1> DEFINE S == {k \in Nat : k <= n => g[u(k)].state = "rest" /\ g[u(k)].s = done(k)}
<1>6. u(0) = 0 /\ u(n) = Len(t) /\ \A k \in 0 .. n : u(k) \in 0 .. Len(t)
  BY <1>1 DEF PlacedIn
<1>7. 0 \in S
  <2>1. done(0) = <<>>
    BY FirstNone
  <2>2. g[0].state = "rest" /\ g[0].s = <<>>
    BY <1>5
  <2> HIDE DEF u, done
  <2> QED BY <1>6, <2>1, <2>2
<1>8. ASSUME NEW k \in Nat, k \in S PROVE k + 1 \in S
  <2> DEFINE m == k + 1
             c == s[m]
             x == EncodedByte(c)
             b == u(k)
  <2> SUFFICES ASSUME m <= n PROVE g[u(m)].state = "rest" /\ g[u(m)].s = done(m)
    OBVIOUS
  <2>1. m \in 1 .. n /\ m - 1 = k /\ k \in 0 .. n /\ m \in 0 .. n /\ k <= n
    BY <1>1
  <2> HIDE DEF m
  <2>2. g[b].state = "rest" /\ g[b].s = done(k)
    BY <1>8, <2>1
  <2>3. c \in Byte /\ ss[m] = x /\ m \in 1 .. Len(ss)
    BY <1>1, <1>2, <2>1
  <2>4. /\ u(m) = b + Len(x) /\ b \in 0 .. Len(t) /\ u(m) \in 0 .. Len(t)
        /\ \A j \in 1 .. Len(x) : t[b + j] = x[j]
    BY <1>1, <2>3, <1>6, <2>1 DEF PlacedIn
  <2>5. done(m) = Append(done(k), c)
    BY <2>1, FirstOnes DEF Text
  <2> HIDE DEF u, done, t, b, S
  <2>6. Len(t) \in Nat /\ b \in Nat
    BY <1>3, <2>4
  <2>7. ASSUME NEW j \in Nat, NEW i \in Nat, j = i + 1, j <= Len(x), Len(x) \in Nat
        PROVE  g[b + i] \in EscapeState /\ g[b + j] = UnescapeChar(g[b + i], x[j]) /\ x[j] \in Int
    <3> DEFINE p == b + j
    <3>1. p \in 1 .. Len(t) /\ p - 1 = b + i /\ p - 1 \in 0 .. Len(t) /\ j \in 1 .. Len(x)
      BY <2>4, <2>6, <2>7
    <3>2. t[p] = x[j]
      BY <2>4, <3>1
    <3> HIDE DEF p, x
    <3>3. g[p] = UnescapeChar(g[p - 1], t[p]) /\ g[p - 1] \in EscapeState /\ t[p] \in Int
      BY <1>3, <1>5, <3>1
    <3> QED BY <3>1, <3>2, <3>3 DEF p
  <2> HIDE DEF c
  <2>8. CASE c \in Alnum
    <3>1. x = <<c>> /\ Len(x) = 1 /\ c \notin {PERCENT, PLUS} /\ x[1] = c
      BY <2>3, <2>8, EncodedByteIs
    <3>2. u(m) = b + 1 /\ g[b] \in EscapeState /\ g[b + 1] = UnescapeChar(g[b], x[1]) /\ x[1] \in Int
      BY <2>7, <3>1, <2>4, <2>6
    <3> HIDE DEF x
    <3>3. g[b + 1].state = "rest" /\ g[b + 1].s = Append(g[b].s, c)
      <4> DEFINE e == g[b]
      <4>1. e \in EscapeState /\ e.state = "rest" /\ c \in Int /\ c \notin {PERCENT, PLUS}
        BY <2>2, <3>1, <3>2
      <4>2. g[b + 1] = UnescapeChar(e, c)
        BY <3>1, <3>2
      <4> HIDE DEF e
      <4>3. UnescapeChar(e, c).state = "rest" /\ UnescapeChar(e, c).s = Append(e.s, c)
        BY <4>1, UnescapeTurn
      <4> QED BY <4>2, <4>3 DEF e
    <3> QED BY <2>2, <2>5, <3>2, <3>3
  <2>9. CASE c \notin Alnum /\ c = SP
    <3>1. x = <<PLUS>> /\ Len(x) = 1 /\ x[1] = PLUS
      BY <2>3, <2>9, EncodedByteIs
    <3>2. u(m) = b + 1 /\ g[b] \in EscapeState /\ g[b + 1] = UnescapeChar(g[b], x[1]) /\ x[1] \in Int
      <4> HIDE DEF x
      <4>1. g[b + 0] \in EscapeState /\ g[b + 1] = UnescapeChar(g[b + 0], x[1]) /\ x[1] \in Int
        BY <2>7, <3>1
      <4> QED BY <2>4, <2>6, <3>1, <4>1
    <3> HIDE DEF x
    <3>3. g[b + 1].state = "rest" /\ g[b + 1].s = Append(g[b].s, SP)
      <4> DEFINE e == g[b]
      <4>1. e \in EscapeState /\ e.state = "rest" /\ x[1] \in Int /\ x[1] = PLUS
        BY <2>2, <3>1, <3>2
      <4>2. g[b + 1] = UnescapeChar(e, x[1])
        BY <3>2
      <4> HIDE DEF e
      <4>3. UnescapeChar(e, x[1]).state = "rest" /\ UnescapeChar(e, x[1]).s = Append(e.s, SP)
        BY <4>1, UnescapeTurn
      <4> QED BY <4>2, <4>3 DEF e
    <3> QED BY <2>2, <2>5, <2>9, <3>2, <3>3
  <2>10. CASE c \notin Alnum /\ c # SP
    <3>1. Len(x) = 3 /\ x[1] = PERCENT /\ (16 * cgiHexValue(x[2]) + cgiHexValue(x[3])) % 256 = c
      BY <2>3, <2>10, EncodedByteIs
    <3> HIDE DEF x
    <3>2. g[b] \in EscapeState /\ g[b + 1] = UnescapeChar(g[b], x[1]) /\ x[1] \in Int
      BY <2>7, <3>1, <2>6
    <3>3. g[b + 1] \in EscapeState /\ g[b + 2] = UnescapeChar(g[b + 1], x[2]) /\ x[2] \in Int
      BY <3>1, <2>7
    <3>4. g[b + 2] \in EscapeState /\ g[b + 3] = UnescapeChar(g[b + 2], x[3]) /\ x[3] \in Int
      BY <3>1, <2>7
    <3>5. g[b + 1].state = "first" /\ g[b + 1].s = g[b].s
      <4> DEFINE e == g[b]
                 y == x[1]
                 r == g[b + 1]
      <4>1. e \in EscapeState /\ e.state = "rest" /\ y \in Int /\ y = PERCENT /\ r = UnescapeChar(e, y)
        BY <2>2, <3>1, <3>2
      <4> HIDE DEF e, y, r
      <4>2. r.state = "first" /\ r.s = e.s
        BY <4>1, UnescapeTurn
      <4> QED BY <4>2 DEF e, r
    <3>6. g[b + 2].state = "second" /\ g[b + 2].s = g[b].s /\ g[b + 2].value = 16 * cgiHexValue(x[2])
      <4> DEFINE e == g[b + 1]
                 y == x[2]
                 r == g[b + 2]
      <4>1. e \in EscapeState /\ e.state = "first" /\ y \in Int /\ r = UnescapeChar(e, y)
        BY <3>3, <3>5
      <4> HIDE DEF e, y, r
      <4>2. r.state = "second" /\ r.s = e.s /\ r.value = 16 * cgiHexValue(y)
        BY <4>1, UnescapeTurn
      <4> QED BY <3>5, <4>2 DEF e, y, r
    <3>7. g[b + 3].state = "rest" /\ g[b + 3].s = Append(g[b].s, (g[b + 2].value + cgiHexValue(x[3])) % 256)
      <4> DEFINE e == g[b + 2]
                 y == x[3]
                 r == g[b + 3]
      <4>1. e \in EscapeState /\ e.state = "second" /\ e.s = g[b].s /\ y \in Int /\ r = UnescapeChar(e, y)
        BY <3>4, <3>6
      <4> HIDE DEF e, y, r
      <4>2. r.state = "rest" /\ r.s = Append(e.s, (e.value + cgiHexValue(y)) % 256)
        BY <4>1, UnescapeTurn
      <4>3. r.state = "rest" /\ r.s = Append(g[b].s, (e.value + cgiHexValue(y)) % 256)
        BY <4>1, <4>2
      <4> QED BY <4>3 DEF e, y, r
    <3>8. g[b + 3].s = Append(g[b].s, c)
      BY <3>1, <3>6, <3>7
    <3>9. u(m) = b + 3
      BY <2>4, <3>1
    <3> QED BY <2>2, <2>5, <3>7, <3>8, <3>9
  <2> QED BY <2>8, <2>9, <2>10
<1>9. Nat \subseteq S
  BY <1>7, <1>8, AllNumbers
<1>10. g[Len(t)].s = done(n)
  BY <1>1, <1>6, <1>9
<1>11. done(n) = s
  BY SubSeqFull DEF Text
<1> HIDE DEF t, done, S
<1> QED BY <1>1, <1>5, <1>10, <1>11, CStringIs
-------------------------------------------------------------------------------
(* It can be cut out there.                                                 *)
LEMMA StandsIs ==
  ASSUME NEW R, NEW s \in Seq(R), NEW t \in Seq(R), NEW i, StandsAt(s, i, t)
  PROVE  SubSeq(s, i, i + Len(t) - 1) = t
<1> DEFINE l == Len(t)
           j == i + l - 1
           r == SubSeq(s, i, j)
<1>1. l \in Nat /\ Len(s) \in Nat /\ i \in Nat /\ i >= 1 /\ j \in Nat /\ j <= Len(s) /\ j - i + 1 = l
  BY LenProperties DEF StandsAt
<1> HIDE DEF j
<1>2. /\ r \in Seq(R) /\ Len(r) = (IF i <= j THEN j - i + 1 ELSE 0)
      /\ \A k \in Nat : 1 <= k /\ k <= j - i + 1 => r[k] = s[i + k - 1]
  BY <1>1, PartOf
<1>3. Len(r) = l
  BY <1>1, <1>2
<1>4. \A k \in 1 .. l : r[k] = t[k]
  <2> SUFFICES ASSUME NEW k \in 1 .. l PROVE r[k] = t[k]
    OBVIOUS
  <2>1. r[k] = s[i + k - 1]
    BY <1>1, <1>2
  <2>2. s[i + k - 1] = t[k]
    BY DEF StandsAt
  <2> QED BY <2>1, <2>2
<1> HIDE DEF r
<1>5. r = t
  BY <1>1, <1>2, <1>3, <1>4, SeqEqual
<1> QED BY <1>5 DEF r, j

(* Two texts that stand there together stand there one behind the other.    *)
LEMMA StandsSplit ==
  ASSUME NEW R, NEW s \in Seq(R), NEW a \in Seq(R), NEW b \in Seq(R), NEW i, StandsAt(s, i, a \o b)
  PROVE  StandsAt(s, i, a) /\ StandsAt(s, i + Len(a), b) /\ Len(a \o b) = Len(a) + Len(b)
<1> DEFINE c == a \o b
           l == Len(a)
           m == Len(b)
<1>1. /\ l \in Nat /\ m \in Nat /\ Len(s) \in Nat /\ Len(c) = l + m
      /\ \A j \in 1 .. l + m : c[j] = IF j <= l THEN a[j] ELSE b[j - l]
  BY LenProperties, ConcatProperties
<1> HIDE DEF c
<1>2. /\ i \in Nat \ {0} /\ i + (l + m) <= Len(s) + 1
      /\ \A j \in 1 .. l + m : s[i + j - 1] = c[j]
  BY <1>1 DEF StandsAt, c
<1> HIDE DEF l, m
<1>3. ASSUME NEW j \in 1 .. l PROVE s[i + j - 1] = a[j]
  BY <1>1, <1>2
<1>4. ASSUME NEW j \in 1 .. m PROVE s[(i + l) + j - 1] = b[j]
  <2> DEFINE k == l + j
  <2>1. k \in 1 .. l + m /\ ~(k <= l) /\ k - l = j /\ i + k - 1 = (i + l) + j - 1
    BY <1>1, <1>2
  <2> HIDE DEF k
  <2> QED BY <1>1, <1>2, <2>1
<1>5. i + l <= Len(s) + 1 /\ (i + l) + m <= Len(s) + 1 /\ i + l \in Nat \ {0}
  BY <1>1, <1>2
<1> QED BY <1>1, <1>2, <1>3, <1>4, <1>5 DEF StandsAt, l, m, c

(* Find and Skip pass a text that holds none, or only, of what they seek.   *)
LEMMA FindPast ==
  ASSUME NEW R, NEW s \in Seq(R), NEW t \in Seq(R), NEW i, StandsAt(s, i, t), NEW C,
         \A j \in 1 .. Len(t) : t[j] \notin C,
         i + Len(t) <= Len(s) => s[i + Len(t)] \in C
  PROVE  Find(s, i, C) = i + Len(t)
<1> DEFINE l == Len(t)
           k == i + l
<1>1. /\ l \in Nat /\ Len(s) \in Nat /\ i \in Nat /\ k \in Nat /\ i <= k /\ k <= Len(s) + 1
      /\ \A j \in 1 .. l : s[i + j - 1] = t[j]
  BY LenProperties DEF StandsAt
<1>2. \A p \in Nat : i <= p /\ p < k => s[p] \notin C
  <2> SUFFICES ASSUME NEW p \in Nat, i <= p, p < k PROVE s[p] \notin C
    OBVIOUS
  <2> DEFINE j == p - i + 1
  <2>1. j \in 1 .. l /\ i + j - 1 = p
    BY <1>1
  <2> HIDE DEF j, l
  <2>2. s[i + j - 1] = t[j] /\ t[j] \notin C
    BY <1>1, <2>1 DEF l
  <2> QED BY <2>1, <2>2
<1>3. k <= Len(s) => s[k] \in C
  OBVIOUS
<1> HIDE DEF k
<1>4. Find(s, i, C) = k
  BY <1>1, <1>2, <1>3, FindFirst
<1> QED BY <1>4 DEF k

(* Each of the texts that Joined joins stands at its place.                 *)
LEMMA JoinedIs ==
  ASSUME NEW R, NEW words \in Seq(Seq(R)), NEW sep \in Seq(R)
  PROVE  /\ Joined(words, sep) \in Seq(R)
         /\ words = <<>> => Joined(words, sep) = <<>>
         /\ \E at : JoinedAt(words, sep, Joined(words, sep), at)
<1> DEFINE n == Len(words)
           T == Seq(R)
           ss == [i \in DOMAIN words |-> (IF i = 1 THEN <<>> ELSE sep) \o words[i]]
           d == FlattenSeq(ss)
           u(k) == Upto(ss, k)
           w == Len(sep)
           at == [k \in 1 .. n + 1 |-> IF k = 1 THEN 1 ELSE u(k - 1) + w + 1]
<1>1. n \in Nat /\ DOMAIN words = 1 .. n /\ w \in Nat /\ \A i \in 1 .. n : words[i] \in Seq(R) /\ Len(words[i]) \in Nat
  BY LenProperties, ElementOfSeq
<1>2. d = Joined(words, sep)
  BY DEF Joined
<1>3. \A i \in 1 .. n : ss[i] = IF i = 1 THEN words[i] ELSE sep \o words[i]
  BY <1>1, ConcatEmptySeq
<1>4. \A i \in 1 .. n : ss[i] \in Seq(R)
  BY <1>1, <1>3, ConcatProperties
<1>5. ss \in Seq(T) /\ Len(ss) = n
  BY <1>1, <1>4, ASequence
<1> HIDE DEF ss
<1>6. PlacedIn(ss) /\ d \in Seq(R) /\ Len(d) \in Nat
  BY <1>5, Placed, FlattenTyped, LenProperties
<1>7. words = <<>> => d = <<>>
  <2> SUFFICES ASSUME words = <<>> PROVE d = <<>>
    OBVIOUS
  <2>1. n = 0
    BY EmptySeq
  <2>2. ss = <<>>
    BY <1>5, <2>1, EmptySeq
  <2> QED BY <2>2, FlattenNone
<1>8. /\ u(0) = 0 /\ u(n) = Len(d) /\ \A k \in 0 .. n : u(k) \in 0 .. Len(d)
      /\ \A k \in 1 .. n : u(k) = u(k - 1) + Len(ss[k]) /\ \A j \in 1 .. Len(ss[k]) : d[u(k - 1) + j] = ss[k][j]
  BY <1>5, <1>6 DEF PlacedIn
<1> HIDE DEF u, d
<1>9. at[1] = 1 /\ \A k \in 1 .. n : k # 1 => at[k] = u(k - 1) + w + 1
  BY <1>1
<1>10. \A k \in 1 .. n : at[k + 1] = u(k) + w + 1
  BY <1>1
<1> HIDE DEF at
<1>11. ASSUME NEW k \in 1 .. n
       PROVE  /\ at[k] \in Nat /\ at[k] >= 1 /\ u(k) = at[k] + Len(words[k]) - 1 /\ u(k) \in 0 .. Len(d)
              /\ \A j \in 1 .. Len(words[k]) : d[at[k] + j - 1] = words[k][j]
              /\ k # 1 => u(k - 1) + w + 1 = at[k] /\ \A j \in 1 .. w : d[u(k - 1) + j] = sep[j]
  <2> DEFINE t == words[k]
             x == ss[k]
             a == u(k - 1)
  <2>1. /\ a \in Nat /\ u(k) = a + Len(x) /\ (\A j \in 1 .. Len(x) : d[a + j] = x[j])
        /\ t \in Seq(R) /\ Len(t) \in Nat /\ u(k) \in 0 .. Len(d)
    <3>1. k - 1 \in 0 .. n /\ k \in 0 .. n
      BY <1>1
    <3> HIDE DEF n
    <3> QED BY <1>1, <1>8, <3>1
  <2> HIDE DEF t, x, a, n
  <2>2. CASE k = 1
    BY <1>3, <2>2, <1>8, <1>9, <2>1 DEF x, t, a
  <2>3. CASE k # 1
    <3>1. x = sep \o t /\ at[k] = a + w + 1
      BY <1>3, <2>3, <1>9 DEF x, t, a
    <3>2. /\ Len(x) = w + Len(t)
          /\ \A j \in 1 .. w + Len(t) : x[j] = IF j <= w THEN sep[j] ELSE t[j - w]
      BY <2>1, <3>1, ConcatProperties
    <3>3. u(k) = at[k] + Len(t) - 1 /\ at[k] \in Nat /\ at[k] >= 1
      BY <1>1, <2>1, <3>1, <3>2
    <3>4. ASSUME NEW j \in 1 .. Len(t) PROVE d[at[k] + j - 1] = t[j]
      <4> DEFINE i == w + j
      <4>1. i \in 1 .. w + Len(t) /\ ~(i <= w) /\ i - w = j /\ a + i = at[k] + j - 1
        BY <1>1, <2>1, <3>1
      <4> HIDE DEF i
      <4> QED BY <2>1, <3>2, <4>1
    <3>5. ASSUME NEW j \in 1 .. w PROVE d[a + j] = sep[j]
      <4>1. j \in 1 .. w + Len(t) /\ j <= w
        BY <1>1, <2>1
      <4> QED BY <2>1, <3>2, <4>1
    <3> HIDE DEF w
    <3> QED BY <2>1, <3>1, <3>3, <3>4, <3>5 DEF t, a
  <2> QED BY <2>2, <2>3
<1> HIDE DEF n, w
<1>12. ASSUME NEW k \in 1 .. n
       PROVE  StandsAt(d, at[k], words[k]) /\ at[k + 1] = at[k] + Len(words[k]) + w
  <2> DEFINE a == at[k]
             l == Len(words[k])
  <2>1. a \in Nat /\ a >= 1 /\ u(k) = a + l - 1 /\ u(k) \in 0 .. Len(d) /\ l \in Nat /\ at[k + 1] = u(k) + w + 1
    BY <1>1, <1>10, <1>11
  <2> HIDE DEF a, l
  <2>2. a + l <= Len(d) + 1 /\ at[k + 1] = a + l + w
    BY <1>1, <1>6, <2>1
  <2> QED BY <1>11, <2>1, <2>2 DEF StandsAt, a, l
<1>13. ASSUME NEW k \in 1 .. n, k < n
       PROVE  StandsAt(d, at[k] + Len(words[k]), sep)
  <2> DEFINE m == k + 1
             a == at[k] + Len(words[k])
  <2>1. m \in 1 .. n /\ m # 1 /\ m - 1 = k
    BY <1>1, <1>13
  <2> HIDE DEF m
  <2>2. u(k) + w + 1 = at[m] /\ \A j \in 1 .. w : d[u(k) + j] = sep[j]
    BY <1>11, <2>1
  <2>3. u(k) = at[k] + Len(words[k]) - 1 /\ u(k) \in Nat /\ at[k] \in Nat /\ Len(words[k]) \in Nat
    BY <1>1, <1>6, <1>11
  <2>4. u(m) \in 0 .. Len(d) /\ u(m) = at[m] + Len(words[m]) - 1 /\ Len(words[m]) \in Nat /\ at[m] \in Nat
    BY <1>1, <1>11, <2>1
  <2>5. a = u(k) + 1
    BY <2>3
  <2> HIDE DEF a
  <2>6. a \in Nat \ {0} /\ a + w <= Len(d) + 1 /\ \A j \in 1 .. w : d[a + j - 1] = sep[j]
    <3> DEFINE e == u(k)
               f == u(m)
               b == at[m]
               l == Len(words[m])
    <3>1. /\ e \in Nat /\ f <= Len(d) /\ f = b + l - 1 /\ l \in Nat /\ b = e + w + 1 /\ a = e + 1 /\ w \in Nat
          /\ \A j \in 1 .. w : d[e + j] = sep[j]
      BY <1>1, <2>2, <2>3, <2>4, <2>5
    <3> HIDE DEF e, f, b, l
    <3>2. \A j \in 1 .. w : a + j - 1 = e + j
      BY <3>1
    <3>3. a \in Nat \ {0} /\ a + w <= Len(d) + 1
      BY <1>6, <3>1
    <3> QED BY <3>1, <3>2, <3>3
  <2> QED BY <2>6 DEF StandsAt, a, w
<1>14. words # <<>> => Len(d) + 1 = at[n] + Len(words[n])
  <2> SUFFICES ASSUME words # <<>> PROVE Len(d) + 1 = at[n] + Len(words[n])
    OBVIOUS
  <2>1. n # 0
    BY EmptySeq DEF n
  <2>2. n \in 1 .. n
    BY <1>1, <2>1
  <2>3. u(n) = at[n] + Len(words[n]) - 1 /\ at[n] \in Nat /\ Len(words[n]) \in Nat
    BY <1>1, <1>11, <2>2
  <2> QED BY <1>6, <1>8, <2>3
<1>15. JoinedAt(words, sep, d, at)
  BY <1>9, <1>12, <1>13, <1>14 DEF JoinedAt, n, w
<1> QED BY <1>2, <1>6, <1>7, <1>15
-------------------------------------------------------------------------------
(* cgiParseFormInput is that walk, and goes forward.                        *)
LEMMA FormWalks ==
  ASSUME NEW data \in Text
  PROVE  /\ cgiParseFormInput(data) = Walk(FormNext(data), FormOut(data), 1)
         /\ Forward(FormNext(data), Len(data))
         /\ \A p \in 1 .. Len(data) : EqAt(data, p) \in Nat /\ AmpAt(data, p) \in Nat
<1> DEFINE n == Len(data)
           D == 1 .. n
           eq == [pos \in D |-> Find(data, pos, {EQ})]
           amp == [pos \in D |-> Find(data, eq[pos] + 1, {AMP})]
           pair(pos) == [attr |-> cgiUnescapeChars(SubSeq(data, pos, eq[pos] - 1)),
                         value |-> cgiUnescapeChars(SubSeq(data, eq[pos] + 1, amp[pos] - 1))]
           next == [pos \in D |-> amp[pos] + 1]
           out == [pos \in D |-> IF eq[pos] > n THEN <<>> ELSE <<pair(pos)>>]
<1>1. n \in Nat /\ DOMAIN data = D
  BY LenProperties DEF Text
<1>2. cgiParseFormInput(data) = Walk(next, out, 1)
  BY <1>1 DEF cgiParseFormInput
<1>3. \A p \in D : eq[p] = EqAt(data, p) /\ amp[p] = AmpAt(data, p)
  BY DEF EqAt, AmpAt
<1>4. \A p \in D : pair(p) = PairAt(data, p)
  BY <1>3 DEF PairAt
<1> HIDE DEF eq, amp, pair
<1>5. next = FormNext(data) /\ out = FormOut(data)
  BY <1>3, <1>4 DEF FormNext, FormOut
<1>6. ASSUME NEW p \in D PROVE EqAt(data, p) \in Nat /\ AmpAt(data, p) \in Nat /\ AmpAt(data, p) + 1 > p
  <2> DEFINE e == EqAt(data, p)
             i == e + 1
             f == Find(data, i, {AMP})
  <2>1. p \in Nat /\ p <= n /\ p >= 1
    BY <1>1
  <2>2. e \in Nat /\ e <= n + 1 /\ e >= p
    BY <1>1, <2>1, FindIs DEF EqAt, Text
  <2> HIDE DEF e
  <2>3. i \in Nat
    BY <2>2
  <2>4. i = e + 1
    OBVIOUS
  <2> HIDE DEF i
  <2>5. f \in Nat /\ (i <= n + 1 => i <= f) /\ (i > n => f = n + 1)
    BY <2>3, FindIs DEF Text
  <2> HIDE DEF f
  <2>6. f + 1 > p
    BY <1>1, <2>3, <2>1, <2>2, <2>4, <2>5
  <2> QED BY <2>2, <2>5, <2>6 DEF AmpAt, f, i, e
<1>7. Forward(FormNext(data), n)
  BY <1>6 DEF FormNext, Forward
<1> QED BY <1>2, <1>5, <1>6, <1>7

(* A pair as a browser encodes it is read as it was typed.                  *)
LEMMA PairRead ==
  ASSUME NEW data \in Text, NEW i, NEW attr \in Text, NEW value \in Text, NEW e,
         PairStands(data, i, attr, value, e)
  PROVE  /\ i \in 1 .. Len(data) /\ EqAt(data, i) <= Len(data) /\ AmpAt(data, i) = e
         /\ PairAt(data, i) = [attr |-> attr, value |-> value]
<1> DEFINE a == Encoded(attr)
           b == Encoded(value)
           c == <<EQ>>
           l == Len(a)
           m == Len(b)
<1>1. /\ a \in Text /\ b \in Text /\ c \in Text /\ Len(c) = 1 /\ c[1] = EQ
      /\ l \in Nat /\ m \in Nat /\ Len(data) \in Nat
      /\ \A j \in 1 .. l : a[j] \notin {EQ}
      /\ \A j \in 1 .. m : b[j] \notin {AMP}
      /\ cgiUnescapeChars(a) = attr /\ cgiUnescapeChars(b) = value
  <2>1. a \in Seq(Harmless) /\ b \in Seq(Harmless) /\ a \in Text /\ b \in Text
    BY EncodedTyped
  <2>2. \A j \in 1 .. l : a[j] \in Harmless
    BY <2>1, ElementOfSeq
  <2>3. \A j \in 1 .. m : b[j] \in Harmless
    BY <2>1, ElementOfSeq
  <2>4. c \in Text /\ Len(c) = 1 /\ c[1] = EQ
    BY DEF Text, Byte, EQ
  <2>5. l \in Nat /\ m \in Nat /\ Len(data) \in Nat
    BY <2>1, LenProperties DEF Text
  <2>6. cgiUnescapeChars(a) = attr /\ cgiUnescapeChars(b) = value
    BY UnescapesEncoded
  <2>7. \A x \in Harmless : x \notin {EQ} /\ x \notin {AMP}
    BY DEF Harmless
  <2> HIDE DEF a, b, c, l, m
  <2> QED BY <2>1, <2>2, <2>3, <2>4, <2>5, <2>6, <2>7
<1>2. StandsAt(data, i, (a \o c) \o b) /\ e = i + Len((a \o c) \o b) /\ (e <= Len(data) => data[e] = AMP)
  BY DEF PairStands
<1>0. l = Len(a) /\ m = Len(b) /\ a \in Seq(Byte) /\ b \in Seq(Byte) /\ c \in Seq(Byte) /\ data \in Seq(Byte)
  BY <1>1 DEF Text
<1> HIDE DEF a, b, c, l, m
<1>3. a \o c \in Seq(Byte) /\ Len(a \o c) = l + 1
  <2>1. a \o c \in Seq(Byte) /\ Len(a \o c) = Len(a) + Len(c)
    BY <1>0, ConcatProperties
  <2> QED BY <1>0, <1>1, <2>1
<1>4. StandsAt(data, i, a \o c) /\ StandsAt(data, i + Len(a \o c), b) /\ Len((a \o c) \o b) = Len(a \o c) + m
  <2> DEFINE ac == a \o c
  <2>1. ac \in Seq(Byte) /\ StandsAt(data, i, ac \o b)
    BY <1>2, <1>3
  <2> HIDE DEF ac
  <2>2. StandsAt(data, i, ac) /\ StandsAt(data, i + Len(ac), b) /\ Len(ac \o b) = Len(ac) + Len(b)
    BY <1>0, <2>1, StandsSplit
  <2> QED BY <1>0, <2>2 DEF ac
<1>5. StandsAt(data, i, a) /\ StandsAt(data, i + l, c)
  BY <1>0, <1>4, StandsSplit
<1>6. i \in Nat \ {0} /\ e = i + l + 1 + m /\ i + l + 1 + m <= Len(data) + 1 /\ data[i + l] = EQ
  BY <1>5, <1>1, <1>2, <1>3, <1>4, <1>0 DEF StandsAt
<1> DEFINE k == i + l
           p == k + 1
<1>7. k \in Nat /\ p \in Nat /\ k >= 1 /\ k <= Len(data) /\ e = p + m /\ i \in 1 .. Len(data) /\ e - 1 = p + m - 1
  BY <1>1, <1>6
<1>8. Find(data, i, {EQ}) = k
  BY <1>6, <1>0, <1>1, <1>5, FindPast
<1>9. SubSeq(data, i, k - 1) = a
  <2>1. SubSeq(data, i, i + l - 1) = a
    BY <1>0, <1>5, StandsIs
  <2>2. k - 1 = i + l - 1
    BY <1>1, <1>6
  <2> HIDE DEF k
  <2> QED BY <2>1, <2>2
<1>10. StandsAt(data, p, b)
  BY <1>1, <1>3, <1>6, <1>4
<1> HIDE DEF p, k
<1>11. Find(data, p, {AMP}) = e
  <2>1. p + m <= Len(data) => data[p + m] \in {AMP}
    BY <1>2, <1>7
  <2>2. Find(data, p, {AMP}) = p + m
    BY <1>0, <1>1, <1>10, <2>1, FindPast
  <2> QED BY <1>7, <2>2
<1>12. SubSeq(data, p, e - 1) = b
  BY <1>0, <1>10, <1>7, StandsIs
<1>13. EqAt(data, i) = k /\ AmpAt(data, i) = e
  BY <1>8, <1>11 DEF EqAt, AmpAt, p
<1>14. PairAt(data, i) = [attr |-> attr, value |-> value]
  BY <1>1, <1>9, <1>12, <1>13 DEF PairAt, p
<1> QED BY <1>7, <1>13, <1>14
-------------------------------------------------------------------------------
(* The text of a pair is a text.                                            *)
LEMMA PairTextTyped ==
  ASSUME NEW p \in Field PROVE PairText(p) \in Text
<1> DEFINE a == Encoded(p.attr)
           b == Encoded(p.value)
           c == <<EQ>>
<1>1. a \in Text /\ b \in Text
  BY EncodedTyped, FieldTexts
<1>2. c \in Text
  BY DEF Text, Byte, EQ
<1> HIDE DEF a, b, c
<1>3. (a \o c) \o b \in Text
  BY <1>1, <1>2, ConcatProperties DEF Text
<1> QED BY <1>3 DEF PairText, a, b, c

(* The walk comes from each pair of the form to the next, and reads it.     *)
LEMMA PairsRead ==
  ASSUME NEW pairs \in Seq(Field), NEW n \in Nat, NEW d \in Text, NEW at, FormStands(pairs, n, d, at),
         NEW k \in 1 .. n
  PROVE  /\ at[k] \in 1 .. Len(d) /\ FormNext(d)[at[k]] = at[k + 1]
         /\ FormOut(d)[at[k]] = <<pairs[k]>>
         /\ k = n => at[k + 1] = Len(d) + 2
<1> PICK words \in Seq(Text) :
       /\ Len(words) = n /\ \A j \in 1 .. n : words[j] = PairText(pairs[j])
       /\ JoinedAt(words, <<AMP>>, d, at)
  BY DEF FormStands
<1>0. Len(pairs) = n
  BY DEF FormStands
<1> DEFINE i == at[k]
           p == pairs[k]
           attr == p.attr
           value == p.value
           l == Len(PairText(p))
           e == i + l
           sep == <<AMP>>
<1>1. /\ p \in Field /\ attr \in Text /\ value \in Text /\ p = [attr |-> attr, value |-> value]
      /\ Len(d) \in Nat /\ l \in Nat /\ Len(sep) = 1 /\ sep[1] = AMP
  <2>1. p \in Field
    BY <1>0, ElementOfSeq
  <2>2. attr \in Text /\ value \in Text
    BY <2>1, FieldTexts
  <2>3. p = [attr |-> attr, value |-> value]
    BY <2>1 DEF Field
  <2>4. Len(d) \in Nat
    BY LenProperties DEF Text
  <2>5. l \in Nat
    BY <2>1, PairTextTyped, LenProperties DEF Text
  <2>6. Len(sep) = 1 /\ sep[1] = AMP
    OBVIOUS
  <2> HIDE DEF p, l, sep
  <2> QED BY <2>1, <2>2, <2>3, <2>4, <2>5, <2>6
<1>2. words # <<>> /\ words[k] = PairText(p)
  BY EmptySeq
<1>3. StandsAt(d, i, PairText(p)) /\ at[k + 1] = (i + l) + Len(sep) /\ (k < n => StandsAt(d, i + l, sep))
  BY <1>2 DEF JoinedAt, sep
<1>4. k = n => Len(d) + 1 = i + l
  BY <1>2 DEF JoinedAt
<1>5. i \in Nat /\ e \in Nat
  BY <1>1, <1>3 DEF StandsAt
<1> HIDE DEF sep, p, i, l
<1>6. e <= Len(d) => d[e] = AMP
  <2> SUFFICES ASSUME e <= Len(d) PROVE d[e] = AMP
    OBVIOUS
  <2>1. k < n
    BY <1>1, <1>4, <1>5
  <2>2. StandsAt(d, e, sep)
    BY <1>3, <2>1
  <2>3. d[e + 1 - 1] = AMP
    BY <1>1, <2>2 DEF StandsAt
  <2>4. e + 1 - 1 = e
    BY <1>5
  <2> QED BY <2>3, <2>4
<1>7. /\ i \in 1 .. Len(d) /\ EqAt(d, i) <= Len(d) /\ AmpAt(d, i) = e
      /\ PairAt(d, i) = [attr |-> attr, value |-> value]
  <2>1. StandsAt(d, i, (Encoded(attr) \o <<EQ>>) \o Encoded(value))
    BY <1>3 DEF PairText
  <2>2. e = i + Len((Encoded(attr) \o <<EQ>>) \o Encoded(value))
    BY DEF PairText, l
  <2>3. attr \in Text /\ value \in Text
    BY <1>1
  <2> HIDE DEF e, attr, value
  <2>4. PairStands(d, i, attr, value, e)
    BY <1>6, <2>1, <2>2 DEF PairStands
  <2> QED BY <2>3, <2>4, PairRead
<1>8. FormNext(d)[i] = e + 1
  BY <1>7 DEF FormNext
<1>9. FormOut(d)[i] = <<p>>
  <2>1. ~(EqAt(d, i) > Len(d))
    BY <1>7, <1>1, FormWalks
  <2>2. FormOut(d)[i] = <<PairAt(d, i)>>
    BY <1>7, <2>1 DEF FormOut
  <2> HIDE DEF attr, value
  <2> QED BY <1>1, <1>7, <2>2
<1>10. at[k + 1] = e + 1 /\ (k = n => at[k + 1] = Len(d) + 2)
  BY <1>1, <1>3, <1>4, <1>5
<1> QED BY <1>7, <1>8, <1>9, <1>10 DEF i, p

(* So the form is read as it was sent.                                      *)
LEMMA FormIsSent ==
  ASSUME NEW pairs \in Seq(Field)
  PROVE  cgiParseFormInput(EncodedForm(pairs)) = pairs
<1> DEFINE n == Len(pairs)
           sep == <<AMP>>
           words == [i \in DOMAIN pairs |-> PairText(pairs[i])]
           d == Joined(words, sep)
           T == Text
<1>1. n \in Nat /\ DOMAIN pairs = 1 .. n /\ \A k \in 1 .. n : pairs[k] \in Field
  BY LenProperties, ElementOfSeq
<1>2. \A k \in 1 .. n : words[k] = PairText(pairs[k]) /\ words[k] \in T
  BY <1>1, PairTextTyped
<1>3. words \in Seq(T) /\ Len(words) = n
  BY <1>1, <1>2, ASequence
<1>4. sep \in Text
  BY DEF Text, Byte, AMP
<1>5. EncodedForm(pairs) = d
  BY DEF EncodedForm, PairText
<1> HIDE DEF words, sep
<1>6. /\ d \in Text /\ (words = <<>> => d = <<>>)
      /\ \E at : JoinedAt(words, sep, d, at)
  BY <1>3, <1>4, JoinedIs DEF Text
<1> HIDE DEF d
<1>7. /\ cgiParseFormInput(d) = Walk(FormNext(d), FormOut(d), 1)
      /\ Forward(FormNext(d), Len(d)) /\ Len(d) \in Nat
  BY <1>6, LenProperties, FormWalks DEF Text
<1>8. CASE n = 0
  <2>1. d = <<>> /\ pairs = <<>>
    BY <1>3, <1>6, <1>8, EmptySeq
  <2>2. Len(d) = 0
    BY <2>1, EmptySeq
  <2>3. Walk(FormNext(d), FormOut(d), 1) = <<>>
    <3>1. 1 \notin 1 .. Len(d)
      BY <2>2
    <3> QED BY <1>7, <3>1, WalkStep
  <2> QED BY <1>5, <1>7, <2>1, <2>3
<1>9. CASE n # 0
  <2> PICK at : JoinedAt(words, sep, d, at)
    BY <1>6
  <2> DEFINE next == FormNext(d)
             out == FormOut(d)
             ws == [k \in 1 .. n |-> <<pairs[k]>>]
             S == Seq(Field)
  <2>1. \A k \in 1 .. n : /\ at[k] \in 1 .. Len(d) /\ next[at[k]] = at[k + 1]
                          /\ out[at[k]] = <<pairs[k]>>
                          /\ k = n => at[k + 1] = Len(d) + 2
    <3>1. n = Len(pairs) /\ JoinedAt(words, <<AMP>>, d, at)
      BY DEF sep
    <3>2. \A k \in 1 .. n : words[k] = PairText(pairs[k])
      BY <1>2
    <3> HIDE DEF n
    <3> SUFFICES ASSUME NEW k \in 1 .. n
                 PROVE  /\ at[k] \in 1 .. Len(d) /\ FormNext(d)[at[k]] = at[k + 1]
                        /\ FormOut(d)[at[k]] = <<pairs[k]>>
                        /\ k = n => at[k + 1] = Len(d) + 2
      OBVIOUS
    <3>3. FormStands(pairs, n, d, at)
      BY <1>3, <3>1, <3>2 DEF FormStands
    <3>4. pairs \in Seq(Field) /\ n \in Nat /\ d \in Text
      BY <1>1, <1>6
    <3> QED BY <3>3, <3>4, PairsRead
  <2>2. ws \in Seq(S) /\ Len(ws) = n
    BY <1>1, ASequence
  <2>3. \A k \in 1 .. n : ws[k] = <<pairs[k]>>
    OBVIOUS
  <2>4. FlattenSeq(ws) = pairs
    BY FlattenOnes
  <2> HIDE DEF ws, next, out, n
  <2>5. at[1] = 1
    BY DEF JoinedAt
  <2>6. Along(next, out, Len(d), at, ws)
    <3>1. at[n + 1] = Len(d) + 2
      BY <1>1, <1>9, <2>1
    <3>2. at[n + 1] \in Nat /\ at[n + 1] \notin 1 .. Len(d)
      BY <1>7, <3>1
    <3>3. \A k \in 1 .. n : at[k] \in 1 .. Len(d) /\ next[at[k]] = at[k + 1] /\ out[at[k]] = ws[k]
      BY <2>1, <2>3
    <3>4. at[1] \in Nat
      BY <2>5
    <3>5. Len(ws) = n
      BY <2>2
    <3> QED BY <3>2, <3>3, <3>4, <3>5 DEF Along
  <2>7. Walk(next, out, at[1]) = FlattenSeq(ws)
    BY <1>7, <2>2, <2>6, WalkAlong DEF next, S
  <2> QED BY <1>5, <1>7, <2>4, <2>5, <2>7 DEF next, out
<1> QED BY <1>8, <1>9

(* The pairs a browser encodes are the pairs that are read.                 *)
LEMMA FormStaysAsSent == TextsRight => FormReadsAsSent
<1> SUFFICES ASSUME TextsRight, Answered("form") PROVE result = call.pairs
  BY DEF FormReadsAsSent
<1>1. call \in FormCall /\ result = Answer(call) /\ call.fn = "form"
  BY Asked, CallIs
<1>2. call.pairs \in Seq(Field)
  BY <1>1 DEF FormCall
<1>3. result = cgiParseFormInput(EncodedForm(call.pairs))
  BY <1>1 DEF Answer
<1> QED BY <1>2, <1>3, FormIsSent
-------------------------------------------------------------------------------
(* What stands in a text stands there with its parts and its bytes.         *)
LEMMA StandsPart ==
  ASSUME NEW R, NEW s \in Seq(R), NEW x \in Seq(R), NEW p \in Nat, StandsAt(s, p, x),
         NEW a \in Nat, a >= 1, NEW b \in Nat, b <= Len(x),
         NEW i \in Nat, i = (p + a) - 1, NEW j \in Nat, j = (p + b) - 1
  PROVE  SubSeq(s, i, j) = SubSeq(x, a, b)
<1> DEFINE l == Len(x)
           n == Len(s)
           u == SubSeq(s, i, j)
           v == SubSeq(x, a, b)
<1>1. /\ l \in Nat /\ n \in Nat /\ p \in Nat /\ p >= 1 /\ p + l <= n + 1 /\ b <= l
      /\ \A k \in 1 .. l : s[p + k - 1] = x[k]
  BY LenProperties DEF StandsAt
<1> HIDE DEF l, n
<1>2. i \in Nat /\ i >= 1 /\ j \in Nat /\ j <= n /\ j - i = b - a /\ (i <= j <=> a <= b)
  BY <1>1
<1>3. /\ u \in Seq(R) /\ Len(u) = (IF i <= j THEN j - i + 1 ELSE 0)
      /\ \A k \in Nat : 1 <= k /\ k <= j - i + 1 => u[k] = s[i + k - 1]
  BY <1>2, PartOf DEF n
<1>4. /\ v \in Seq(R) /\ Len(v) = (IF a <= b THEN b - a + 1 ELSE 0)
      /\ \A k \in Nat : 1 <= k /\ k <= b - a + 1 => v[k] = x[a + k - 1]
  BY PartOf
<1>5. ASSUME NEW k \in 1 .. Len(u) PROVE u[k] = v[k]
  <2> DEFINE c == a + k - 1
  <2>1. k \in Nat /\ 1 <= k /\ k <= b - a + 1
    BY <1>2, <1>3
  <2>2. c \in 1 .. l /\ i + k - 1 = p + c - 1
    BY <1>1, <2>1
  <2>3. u[k] = s[i + k - 1] /\ v[k] = x[c]
    BY <1>2, <1>3, <1>4, <2>1
  <2> HIDE DEF c, u, v
  <2> QED BY <1>1, <2>2, <2>3
<1>6. Len(u) = Len(v)
  BY <1>2, <1>3, <1>4
<1> HIDE DEF u, v
<1>7. u = v
  BY <1>3, <1>4, <1>5, <1>6, SeqEqual
<1> QED BY <1>7 DEF u, v

(* What Find finds in a text it finds where that text stands.               *)
LEMMA StandsFind ==
  ASSUME NEW R, NEW s \in Seq(R), NEW x \in Seq(R), NEW p \in Nat, StandsAt(s, p, x),
         NEW a \in Nat, a >= 1, NEW C, Find(x, a, C) <= Len(x), NEW i \in Nat, i = (p + a) - 1
  PROVE  Find(s, i, C) = (p + Find(x, a, C)) - 1
<1> DEFINE l == Len(x)
           n == Len(s)
           f == Find(x, a, C)
           k == (p + f) - 1
<1>1. /\ l \in Nat /\ n \in Nat /\ p \in Nat /\ p >= 1 /\ p + l <= n + 1
      /\ \A j \in 1 .. l : s[p + j - 1] = x[j]
  BY LenProperties DEF StandsAt
<1>2. /\ f \in Nat /\ a <= f /\ f <= l /\ x[f] \in C
      /\ \A j \in a .. l : j < f => x[j] \notin C
  BY FindIs
<1> HIDE DEF l, n, f
<1>3. i \in Nat /\ k \in Nat /\ i <= k /\ k <= n + 1 /\ k = p + f - 1
  BY <1>1, <1>2
<1>4. s[k] \in C
  BY <1>1, <1>2, <1>3
<1>5. ASSUME NEW j \in Nat, i <= j, j < k PROVE s[j] \notin C
  <2> DEFINE c == j - p + 1
  <2>1. c \in a .. l /\ c < f /\ c \in 1 .. l /\ p + c - 1 = j
    BY <1>1, <1>2, <1>5
  <2> HIDE DEF c
  <2> QED BY <1>1, <1>2, <2>1
<1>6. Find(s, i, C) = k
  BY <1>3, <1>4, <1>5, FindFirst DEF n
<1> QED BY <1>6 DEF f

(* A piece stands where it was cut out, and holds no separator.             *)
LEMMA PieceStands ==
  ASSUME NEW R, NEW s \in Seq(R), NEW C, NEW p \in Nat, p >= 1, p <= Len(s) + 1
  PROVE  /\ PieceAt(s, C, p) \in Seq(R) /\ StandsAt(s, p, PieceAt(s, C, p))
         /\ p + Len(PieceAt(s, C, p)) = Find(s, p, C)
         /\ \A j \in 1 .. Len(PieceAt(s, C, p)) : PieceAt(s, C, p)[j] \notin C
<1> DEFINE n == Len(s)
           f == Find(s, p, C)
           j == f - 1
           x == PieceAt(s, C, p)
<1>1. /\ n \in Nat /\ f \in Nat /\ p <= f /\ f <= n + 1 /\ p <= n + 1
      /\ \A k \in p .. n : k < f => s[k] \notin C
  BY LenProperties, FindIs
<1> HIDE DEF f, n
<1>2. j \in Nat /\ j <= n /\ j + 1 = f
  BY <1>1
<1> HIDE DEF j
<1>3. /\ x \in Seq(R) /\ Len(x) = (IF p <= j THEN j - p + 1 ELSE 0)
      /\ \A k \in Nat : 1 <= k /\ k <= j - p + 1 => x[k] = s[p + k - 1]
  BY <1>2, PartOf DEF PieceAt, f, j, n
<1> HIDE DEF x
<1>4. Len(x) = f - p
  BY <1>1, <1>2, <1>3
<1>5. ASSUME NEW k \in 1 .. Len(x) PROVE s[p + k - 1] = x[k] /\ x[k] \notin C
  BY <1>1, <1>2, <1>4, <1>3
<1>6. StandsAt(s, p, x)
  BY <1>1, <1>4, <1>5 DEF StandsAt, n
<1> QED BY <1>1, <1>3, <1>4, <1>5, <1>6 DEF x, f
-------------------------------------------------------------------------------
(* The pieces from a place on are the one that begins there and the pieces  *)
(* behind its separator.                                                    *)
LEMMA PiecesAre ==
  ASSUME NEW R, NEW s \in Seq(R), NEW C
  PROVE  /\ Pieces(s, C) = PiecesFrom(s, C, 1)
         /\ \A i \in Nat : PiecesFrom(s, C, i) \in Seq(Seq(R))
         /\ \A i \in Nat : i > Len(s) + 1 => PiecesFrom(s, C, i) = <<>>
         /\ \A i \in 1 .. Len(s) + 1 :
              PiecesFrom(s, C, i) = <<PieceAt(s, C, i)>> \o PiecesFrom(s, C, Find(s, i, C) + 1)
<1> DEFINE n == Len(s)
           next == PieceNext(s, C)
           out == PieceOut(s, C)
           T == Seq(R)
           m == n + 1
<1>1. Pieces(s, C) = PiecesFrom(s, C, 1)
  BY DEF Pieces, PiecesFrom, PieceNext, PieceOut, PieceAt
<1>2. n \in Nat /\ m \in Nat /\ DOMAIN next = 1 .. m /\ DOMAIN out = 1 .. m
  BY LenProperties DEF PieceNext, PieceOut
<1>3. \A i \in 1 .. m : /\ next[i] = Find(s, i, C) + 1 /\ out[i] = <<PieceAt(s, C, i)>>
                        /\ Find(s, i, C) \in Nat /\ i <= Find(s, i, C) /\ PieceAt(s, C, i) \in T
  <2> SUFFICES ASSUME NEW i \in 1 .. m
               PROVE  /\ next[i] = Find(s, i, C) + 1 /\ out[i] = <<PieceAt(s, C, i)>>
                      /\ Find(s, i, C) \in Nat /\ i <= Find(s, i, C) /\ PieceAt(s, C, i) \in T
    OBVIOUS
  <2>1. next[i] = Find(s, i, C) + 1 /\ out[i] = <<PieceAt(s, C, i)>>
    BY DEF PieceNext, PieceOut
  <2>2. i \in Nat /\ i >= 1 /\ i <= n + 1
    BY <1>2
  <2> HIDE DEF next, out, T
  <2>3. Find(s, i, C) \in Nat /\ i <= Find(s, i, C)
    BY <2>2, FindIs
  <2>4. PieceAt(s, C, i) \in T
    BY <2>2, PieceStands DEF T
  <2> QED BY <2>1, <2>3, <2>4
<1> HIDE DEF next, out, T, m
<1>4. Forward(next, m)
  BY <1>3, <1>2 DEF Forward
<1>5. \A i \in 1 .. m : out[i] \in Seq(T)
  <2>1. \A x \in T : <<x>> \in Seq(T)
    OBVIOUS
  <2> QED BY <1>3, <2>1
<1>6. \A i \in Nat : PiecesFrom(s, C, i) \in Seq(T)
  BY <1>2, <1>4, <1>5, WalkTyped DEF PiecesFrom, next, out
<1>7. ASSUME NEW i \in Nat PROVE i > n + 1 => PiecesFrom(s, C, i) = <<>>
  <2>1. i > n + 1 => i \notin 1 .. m
    BY <1>2 DEF m
  <2> QED BY <1>2, <1>4, <2>1, WalkStep DEF PiecesFrom, next, out
<1>8. ASSUME NEW i \in 1 .. m
      PROVE  PiecesFrom(s, C, i) = <<PieceAt(s, C, i)>> \o PiecesFrom(s, C, Find(s, i, C) + 1)
  <2>1. i \in Nat
    OBVIOUS
  <2>2. Walk(next, out, i) = out[i] \o Walk(next, out, next[i])
    BY <1>2, <1>4, <2>1, WalkStep
  <2> QED BY <1>3, <2>2 DEF PiecesFrom, next, out
<1> QED BY <1>1, <1>6, <1>7, <1>8 DEF T, m
-------------------------------------------------------------------------------
(* One element more in front.                                               *)
LEMMA OneMore ==
  ASSUME NEW R, NEW x \in R, NEW u \in Seq(R)
  PROVE  /\ <<x>> \o u \in Seq(R) /\ Len(<<x>> \o u) = Len(u) + 1 /\ Len(u) \in Nat
         /\ (<<x>> \o u)[1] = x
         /\ \A k \in 1 .. Len(u) : (<<x>> \o u)[k + 1] = u[k]
<1> DEFINE a == <<x>>
           w == a \o u
           l == Len(u)
<1>1. a \in Seq(R) /\ Len(a) = 1 /\ a[1] = x /\ l \in Nat
  BY LenProperties
<1> HIDE DEF a, l
<1>2. w \in Seq(R) /\ Len(w) = 1 + l /\ \A i \in 1 .. 1 + l : w[i] = IF i <= 1 THEN a[i] ELSE u[i - 1]
  <2>1. /\ w \in Seq(R) /\ Len(w) = Len(a) + Len(u)
        /\ \A i \in 1 .. Len(a) + Len(u) : w[i] = IF i <= Len(a) THEN a[i] ELSE u[i - Len(a)]
    BY <1>1, ConcatProperties
  <2> HIDE DEF w
  <2> QED BY <1>1, <2>1 DEF l
<1> HIDE DEF w
<1>3. w[1] = x /\ \A k \in 1 .. l : w[k + 1] = u[k]
  BY <1>1, <1>2
<1> QED BY <1>1, <1>2, <1>3 DEF w, a, l

(* A piece with an = sign is what cgiParseFormInput takes for a pair.       *)
LEMMA PieceIsPair ==
  ASSUME NEW s \in Text, NEW p \in Nat, p >= 1, p <= Len(s) + 1,
         EQ \in ToSet(PieceAt(s, {AMP}, p))
  PROVE  /\ p <= Len(s) /\ EqAt(s, p) <= Len(s) /\ AmpAt(s, p) = Find(s, p, {AMP})
         /\ PairAt(s, p) = FieldFrom(PieceAt(s, {AMP}, p))
<1> DEFINE n == Len(s)
           f == Find(s, p, {AMP})
           x == PieceAt(s, {AMP}, p)
           l == Len(x)
           c == Find(x, 1, {EQ})
           e == EqAt(s, p)
           i == e + 1
<1>1. s \in Seq(Byte) /\ n \in Nat
  BY LenProperties DEF Text
<1>2. x \in Seq(Byte) /\ StandsAt(s, p, x) /\ p + l = f /\ l \in Nat
  BY <1>1, PieceStands, LenProperties
<1>3. c \in Nat /\ c >= 1 /\ c <= l
  <2> HIDE DEF x
  <2>1. PICK k \in 1 .. l : x[k] = EQ
    BY <1>2, LenProperties DEF ToSet, x
  <2>2. /\ c \in Nat /\ c <= l + 1 /\ (1 <= l + 1 => 1 <= c)
        /\ \A j \in 1 .. l : j < c => x[j] \notin {EQ}
    BY <1>2, FindIs
  <2> HIDE DEF c, l
  <2>3. ~(k < c)
    BY <2>1, <2>2
  <2> QED BY <1>2, <2>1, <2>2, <2>3
<1>4. e = p + c - 1
  <2> DEFINE one == 1
  <2>1. one \in Nat /\ one >= 1
    OBVIOUS
  <2> HIDE DEF x
  <2>2. Find(s, p, {EQ}) = (p + Find(x, one, {EQ})) - 1
    BY <1>3, <1>1, <1>2, <2>1, StandsFind
  <2>3. Find(s, p, {EQ}) = e
    BY DEF EqAt
  <2> HIDE DEF e, c
  <2> QED BY <1>3, <2>2, <2>3 DEF c
<1>5. /\ f \in Nat /\ f <= n + 1 /\ p <= f
      /\ (\A j \in p .. n : j < f => s[j] \notin {AMP}) /\ (f <= n => s[f] \in {AMP})
  BY <1>1, FindIs
<1> HIDE DEF n, f, x, l, c, e
<1>6. e \in Nat /\ i \in Nat /\ p <= e /\ e <= n /\ p <= n /\ i <= f /\ i = e + 1
  BY <1>2, <1>3, <1>4, <1>1, <1>5
<1>7. Find(s, i, {AMP}) = f
  <2>1. \A j \in Nat : i <= j /\ j < f => s[j] \notin {AMP}
    <3> SUFFICES ASSUME NEW j \in Nat, i <= j, j < f PROVE s[j] \notin {AMP}
      OBVIOUS
    <3>1. j \in p .. n
      BY <1>1, <1>5, <1>6
    <3> QED BY <1>5, <3>1
  <2> HIDE DEF i
  <2> QED BY <1>1, <1>5, <1>6, <2>1, FindFirst DEF n
<1>8. AmpAt(s, p) = f
  BY <1>7 DEF AmpAt, e
<1>9. SubSeq(s, p, e - 1) = SubSeq(x, 1, c - 1)
  <2> DEFINE one == 1
             b == c - 1
             j == e - 1
  <2>1. one \in Nat /\ one >= 1 /\ b \in Nat /\ b <= Len(x)
    BY <1>2, <1>3 DEF l
  <2>2. p = (p + one) - 1 /\ j = (p + b) - 1 /\ j \in Nat
    BY <1>3, <1>4
  <2> HIDE DEF one, b, j
  <2>3. SubSeq(s, p, j) = SubSeq(x, one, b)
    BY <1>1, <1>2, <2>1, <2>2, StandsPart
  <2> QED BY <2>3 DEF one, b, j
<1>10. SubSeq(s, e + 1, f - 1) = SubSeq(x, c + 1, l)
  <2> DEFINE a == c + 1
             k == e + 1
             j == f - 1
  <2>1. a \in Nat /\ a >= 1 /\ l <= Len(x)
    BY <1>2, <1>3 DEF l
  <2>2. k = (p + a) - 1 /\ j = (p + l) - 1 /\ j \in Nat /\ k \in Nat
    BY <1>2, <1>3, <1>4, <1>6
  <2> HIDE DEF a, j, k
  <2>3. SubSeq(s, k, j) = SubSeq(x, a, l)
    BY <1>1, <1>2, <2>1, <2>2, StandsPart
  <2> QED BY <2>3 DEF a, j, k
<1>11. PairAt(s, p) = FieldFrom(x)
  BY <1>8, <1>9, <1>10 DEF PairAt, FieldFrom, e, c, l
<1> QED BY <1>6, <1>8, <1>11 DEF e, n, f, x
-------------------------------------------------------------------------------
(* If all pieces have an = sign, the first has one and all the others do.   *)
LEMMA SplitOneMore ==
  ASSUME NEW x \in Text, NEW ps \in Seq(Text), Split(<<x>> \o ps)
  PROVE  EQ \in ToSet(x) /\ Split(ps)
<1> DEFINE qs == <<x>> \o ps
           l == Len(ps)
<1>1. /\ qs \in Seq(Text) /\ Len(qs) = l + 1 /\ l \in Nat /\ qs[1] = x /\ \A k \in 1 .. l : qs[k + 1] = ps[k]
  BY OneMore
<1>2. DOMAIN qs = 1 .. l + 1 /\ DOMAIN ps = 1 .. l
  BY <1>1, LenProperties
<1> HIDE DEF qs, l
<1>3. \A i \in 1 .. l + 1 : EQ \in ToSet(qs[i])
  BY <1>2 DEF Split, qs
<1>4. 1 \in 1 .. l + 1 /\ \A k \in 1 .. l : k + 1 \in 1 .. l + 1
  BY <1>1
<1>5. EQ \in ToSet(x)
  BY <1>1, <1>3, <1>4
<1>6. \A k \in 1 .. l : EQ \in ToSet(ps[k])
  BY <1>1, <1>3, <1>4
<1> QED BY <1>2, <1>5, <1>6 DEF Split

(* The field of the first piece comes before those of the others.           *)
LEMMA FieldsOneMore ==
  ASSUME NEW x \in Text, NEW ps \in Seq(Text)
  PROVE  FieldsFrom(<<x>> \o ps) = <<FieldFrom(x)>> \o FieldsFrom(ps)
<1> DEFINE qs == <<x>> \o ps
           l == Len(ps)
           F == {FieldFrom(y) : y \in Text}
           fs == FieldsFrom(ps)
           gs == FieldsFrom(qs)
           h == FieldFrom(x)
           hs == <<h>> \o fs
<1>1. /\ qs \in Seq(Text) /\ Len(qs) = l + 1 /\ l \in Nat /\ qs[1] = x /\ \A k \in 1 .. l : qs[k + 1] = ps[k]
  BY OneMore
<1>2. DOMAIN qs = 1 .. l + 1 /\ DOMAIN ps = 1 .. l
  BY <1>1, LenProperties
<1> HIDE DEF qs
<1>3. /\ \A k \in 1 .. l : ps[k] \in Text
      /\ \A k \in 1 .. l + 1 : qs[k] \in Text
  BY <1>1, ElementOfSeq
<1>4. \A y \in Text : FieldFrom(y) \in F
  OBVIOUS
<1>5. h \in F
  BY <1>4
<1> HIDE DEF F, l, h
<1>6. fs \in [1 .. l -> F] /\ \A k \in 1 .. l : fs[k] = FieldFrom(ps[k])
  BY <1>2, <1>3, <1>4 DEF FieldsFrom
<1>7. gs \in [1 .. l + 1 -> F] /\ \A k \in 1 .. l + 1 : gs[k] = FieldFrom(qs[k])
  BY <1>2, <1>3, <1>4 DEF FieldsFrom
<1> HIDE DEF fs, gs
<1>8. fs \in Seq(F) /\ Len(fs) = l
  BY <1>1, <1>6, ASequence
<1>9. gs \in Seq(F) /\ Len(gs) = l + 1
  <2> DEFINE m == l + 1
  <2>1. m \in Nat /\ gs \in [1 .. m -> F]
    BY <1>1, <1>7
  <2> HIDE DEF m
  <2>2. gs \in Seq(F) /\ Len(gs) = m
    BY <2>1, ASequence
  <2> QED BY <2>2 DEF m
<1>10. hs \in Seq(F) /\ Len(hs) = l + 1 /\ hs[1] = h /\ \A k \in 1 .. l : hs[k + 1] = fs[k]
  BY <1>5, <1>8, OneMore
<1> HIDE DEF hs
<1>11. ASSUME NEW k \in 1 .. l + 1 PROVE gs[k] = hs[k]
  <2>1. CASE k = 1
    BY <1>1, <1>7, <1>10, <2>1 DEF h
  <2>2. CASE k # 1
    <3> DEFINE j == k - 1
    <3>1. j \in 1 .. l /\ k = j + 1
      BY <1>1, <2>2
    <3> HIDE DEF j
    <3>2. qs[k] = ps[j] /\ hs[k] = fs[j]
      BY <1>1, <1>10, <3>1
    <3> QED BY <1>6, <1>7, <3>1, <3>2
  <2> QED BY <2>1, <2>2
<1>12. gs = hs
  BY <1>9, <1>10, <1>11, SeqEqual
<1> QED BY <1>12 DEF gs, hs, fs, qs, h

(* The fields that are read from a place on are those of the pieces, if so  *)
(* they are behind the next separator.                                      *)
LEMMA FieldsFitFrom ==
  ASSUME NEW s \in Text, NEW p \in Nat, p >= 1,
         p <= Len(s) + 1 => FieldsFit(s, Find(s, p, {AMP}) + 1)
  PROVE  FieldsFit(s, p)
<1> DEFINE n == Len(s)
           next == FormNext(s)
           out == FormOut(s)
           ps == PiecesFrom(s, {AMP}, p)
           q == Find(s, p, {AMP}) + 1
           x == PieceAt(s, {AMP}, p)
           rest == PiecesFrom(s, {AMP}, q)
<1>1. s \in Seq(Byte) /\ n \in Nat /\ Forward(next, n)
  BY FormWalks, LenProperties DEF Text
<1>2. CASE p > n + 1
  <2>1. ps = <<>>
    BY <1>1, <1>2, PiecesAre
  <2>2. Walk(next, out, p) = <<>>
    <3>1. p \notin 1 .. n
      BY <1>1, <1>2
    <3> QED BY <1>1, <3>1, WalkStep
  <2>3. FieldsFrom(<<>>) = <<>>
    BY DEF FieldsFrom
  <2> QED BY <2>1, <2>2, <2>3 DEF FieldsFit
<1>3. CASE p <= n + 1
  <2> SUFFICES ASSUME Split(ps) PROVE Walk(next, out, p) = FieldsFrom(ps)
    BY DEF FieldsFit
  <2>1. x \in Text /\ rest \in Seq(Text) /\ ps = <<x>> \o rest
    <3>1. p \in 1 .. n + 1
      BY <1>1, <1>3
    <3>2. Find(s, p, {AMP}) \in Nat
      BY <1>1, FindIs
    <3>3. q \in Nat
      BY <3>2
    <3>4. x \in Seq(Byte)
      BY <1>1, <1>3, PieceStands
    <3>5. ps = <<x>> \o rest
      BY <1>1, <3>1, PiecesAre
    <3> HIDE DEF q
    <3>6. rest \in Seq(Seq(Byte))
      BY <1>1, <3>3, PiecesAre
    <3> QED BY <3>4, <3>5, <3>6 DEF Text
  <2> HIDE DEF ps, rest
  <2>2. EQ \in ToSet(x) /\ Split(rest)
    BY <2>1, SplitOneMore
  <2>3. p <= n /\ EqAt(s, p) <= n /\ AmpAt(s, p) + 1 = q /\ PairAt(s, p) = FieldFrom(x)
    BY <1>3, <2>2, PieceIsPair
  <2> HIDE DEF x, q
  <2>4. p \in 1 .. n /\ ~(EqAt(s, p) > n)
    BY <1>1, <2>3, FormWalks
  <2>5. next[p] = q /\ out[p] = <<FieldFrom(x)>>
    BY <2>3, <2>4 DEF FormNext, FormOut
  <2>6. Walk(next, out, p) = <<FieldFrom(x)>> \o Walk(next, out, q)
    BY <1>1, <2>4, <2>5, WalkStep
  <2>7. Walk(next, out, q) = FieldsFrom(rest)
    BY <1>3, <2>2 DEF FieldsFit, rest, q
  <2>8. FieldsFrom(ps) = <<FieldFrom(x)>> \o FieldsFrom(rest)
    BY <2>1, FieldsOneMore
  <2> QED BY <2>6, <2>7, <2>8
<1> QED BY <1>1, <1>2, <1>3

(* So they are from the first place on.                                     *)
LEMMA FieldsArePieces ==
  ASSUME NEW s \in Text PROVE FieldsFit(s, 1)
<1> DEFINE n == Len(s)
           S == {k \in Nat : \A p \in Nat : p >= 1 /\ p + k > n + 1 => FieldsFit(s, p)}
<1>1. s \in Seq(Byte) /\ n \in Nat
  BY LenProperties DEF Text
<1>2. 0 \in S
  <2> SUFFICES ASSUME NEW p \in Nat, p >= 1, p + 0 > n + 1 PROVE FieldsFit(s, p)
    OBVIOUS
  <2>1. ~(p <= n + 1)
    BY <1>1
  <2> QED BY <2>1, FieldsFitFrom
<1>3. ASSUME NEW k \in Nat, k \in S PROVE k + 1 \in S
  <2> SUFFICES ASSUME NEW p \in Nat, p >= 1, p + (k + 1) > n + 1 PROVE FieldsFit(s, p)
    OBVIOUS
  <2>1. ASSUME p <= n + 1 PROVE FieldsFit(s, Find(s, p, {AMP}) + 1)
    <3> DEFINE f == Find(s, p, {AMP})
               q == f + 1
    <3>1. f \in Nat /\ p <= f
      BY <1>1, <2>1, FindIs
    <3> HIDE DEF f
    <3>2. q \in Nat /\ q >= 1 /\ q + k > n + 1
      BY <1>1, <3>1
    <3> HIDE DEF q
    <3>3. FieldsFit(s, q)
      BY <1>3, <3>2
    <3> QED BY <3>3 DEF q, f
  <2> QED BY <2>1, FieldsFitFrom
<1>4. Nat \subseteq S
  BY <1>2, <1>3, AllNumbers
<1>5. n + 1 \in S /\ 1 + (n + 1) > n + 1 /\ 1 \in Nat /\ 1 >= 1
  BY <1>1, <1>4
<1> QED BY <1>5

(* The fields of any text are its pieces, cut at the first = sign.          *)
LEMMA FieldsStayPieces == TextsRight => PiecesAreFields
<1> SUFFICES ASSUME TextsRight, Answered("query"),
                    \A i \in DOMAIN Pieces(call.text, {AMP}) : EQ \in ToSet(Pieces(call.text, {AMP})[i])
             PROVE  result = FieldsFrom(Pieces(call.text, {AMP}))
  BY DEF PiecesAreFields, FieldsFrom, FieldFrom
<1> DEFINE s == call.text
<1>1. call \in QueryCall /\ result = Answer(call) /\ call.fn = "query"
  BY Asked, CallIs
<1>2. s \in Text /\ s \in Seq(Byte)
  BY <1>1 DEF QueryCall, Text
<1>3. result = cgiParseFormInput(s)
  BY <1>1 DEF Answer
<1>4. Split(Pieces(s, {AMP}))
  BY DEF Split
<1> HIDE DEF s
<1>5. Pieces(s, {AMP}) = PiecesFrom(s, {AMP}, 1)
  BY <1>2, PiecesAre
<1>6. cgiParseFormInput(s) = FieldsFrom(PiecesFrom(s, {AMP}, 1))
  BY <1>2, <1>4, <1>5, FormWalks, FieldsArePieces DEF FieldsFit
<1> QED BY <1>3, <1>5, <1>6 DEF s

(* A form is read as it was sent, and any other text as its pieces.         *)
THEOREM FormIsAlwaysRead == Spec => []FormIsRead
<1>1. TextsRight => FormIsRead
  BY FormStaysAsSent, FieldsStayPieces DEF FormIsRead
<1> QED BY <1>1, TextsAreRight, PTL
-------------------------------------------------------------------------------
(* What is at a place of a text, and behind it.                             *)
LEMMA AtIs ==
  ASSUME NEW s \in Text, NEW i \in Nat, i >= 1
  PROVE  /\ i <= Len(s) => At(s, i) = s[i] /\ s[i] \in Byte /\ At(s, i) # NUL
         /\ i > Len(s) => At(s, i) = NUL
<1>1. DOMAIN s = 1 .. Len(s) /\ Len(s) \in Nat
  BY LenProperties DEF Text
<1>2. i \in DOMAIN s <=> i <= Len(s)
  BY <1>1
<1>3. i <= Len(s) => s[i] \in Byte
  BY <1>1, <1>2, ElementOfSeq DEF Text
<1> QED BY <1>1, <1>2, <1>3, ByteIs DEF At

(* What is at the places of a piece, and behind it.                         *)
LEMMA CookieBytes ==
  ASSUME NEW s \in Text, NEW c, NEW t \in Text, CookieAt(s, c, t)
  PROVE  /\ c \in Nat /\ c >= 1 /\ Len(t) \in Nat /\ Len(s) \in Nat /\ c + Len(t) <= Len(s) + 1
         /\ \A j \in 0 .. Len(t) : j < Len(t) => At(s, c + j) = t[j + 1] /\ t[j + 1] # SEMI /\ t[j + 1] # NUL
         /\ c + Len(t) <= Len(s) => At(s, c + Len(t)) = SEMI
         /\ c + Len(t) = Len(s) + 1 => At(s, c + Len(t)) = NUL
<1> DEFINE l == Len(t)
           n == Len(s)
           e == c + l
<1>1. /\ l \in Nat /\ n \in Nat /\ c \in Nat /\ c >= 1 /\ e \in Nat /\ e = c + l /\ e <= n + 1
      /\ \A j \in 1 .. l : s[c + j - 1] = t[j] /\ t[j] # SEMI
      /\ e <= n => s[e] = SEMI
  BY LenProperties DEF CookieAt, StandsAt, Text
<1> HIDE DEF e, l, n
<1>2. ASSUME NEW j \in 0 .. l, j < l
      PROVE  At(s, c + j) = t[j + 1] /\ t[j + 1] # SEMI /\ t[j + 1] # NUL
  <2> DEFINE i == c + j
             k == j + 1
  <2>1. i \in Nat /\ i >= 1 /\ i <= n /\ k \in 1 .. l /\ c + k - 1 = i
    BY <1>1, <1>2
  <2> HIDE DEF i, k
  <2>2. At(s, i) = s[i] /\ At(s, i) # NUL
    BY <2>1, AtIs DEF n
  <2> QED BY <1>1, <2>1, <2>2 DEF i, k
<1>3. e <= n => At(s, e) = SEMI
  BY <1>1, AtIs DEF n
<1>4. e = n + 1 => At(s, e) = NUL
  BY <1>1, AtIs DEF n
<1> QED BY <1>1, <1>2, <1>3, <1>4 DEF e, l, n

(* A name's bytes.                                                          *)
LEMMA TokenIs ==
  ASSUME NEW name \in Token
  PROVE  /\ name \in Text /\ Len(name) \in Nat /\ Len(name) >= 1
         /\ \A j \in 1 .. Len(name) : /\ name[j] \in Byte /\ name[j] # SEMI /\ name[j] # NUL
                                      /\ name[j] # EQ /\ name[j] \notin Blank
         /\ \A j \in 0 .. Len(name) : j < Len(name) => At(name, j + 1) = name[j + 1]
         /\ At(name, Len(name) + 1) = NUL
<1> DEFINE m == Len(name)
<1>1. name \in Text /\ name # <<>> /\ ToSet(name) \cap ({SEMI, EQ} \cup Blank) = {}
  BY DEF Token
<1>2. m \in Nat /\ m >= 1
  BY <1>1, LenProperties, EmptySeq DEF Text
<1>3. ASSUME NEW j \in 1 .. m
      PROVE  name[j] \in Byte /\ name[j] # SEMI /\ name[j] # NUL /\ name[j] # EQ /\ name[j] \notin Blank
  <2>1. name[j] \in Byte /\ name[j] \in ToSet(name)
    BY <1>1, ElementOfSeq, LenProperties DEF Text, ToSet
  <2> QED BY <1>1, <2>1, ByteIs
<1> HIDE DEF m
<1>4. ASSUME NEW j \in 0 .. m, j < m PROVE At(name, j + 1) = name[j + 1]
  <2> DEFINE k == j + 1
  <2>1. k \in Nat /\ k >= 1 /\ k <= m
    BY <1>2, <1>4
  <2> HIDE DEF k
  <2>2. At(name, k) = name[k]
    BY <1>1, <2>1, AtIs DEF m
  <2> QED BY <2>2 DEF k
<1>5. At(name, m + 1) = NUL
  <2> DEFINE k == m + 1
  <2>1. k \in Nat /\ k >= 1 /\ k > m
    BY <1>2
  <2> HIDE DEF k
  <2>2. At(name, k) = NUL
    BY <1>1, <2>1, AtIs DEF m
  <2> QED BY <2>2 DEF k
<1> QED BY <1>1, <1>2, <1>3, <1>4, <1>5 DEF m

(* How far a cookie repeats the name.                                       *)
LEMMA CommonIs ==
  ASSUME NEW s \in Text, NEW c, NEW name, Len(name) \in Nat
  PROVE  LET k == Common(s, c, name)
         IN  /\ k \in Nat /\ k <= Len(name) + 1
             /\ \A j \in 0 .. Len(name) : j < k => At(s, c + j) = At(name, j + 1)
             /\ k <= Len(name) => At(s, c + k) # At(name, k + 1)
<1> DEFINE m == Len(name)
           H == {j \in 0 .. m : At(s, c + j) # At(name, j + 1)}
           k == Common(s, c, name)
<1>1. H \cup {m + 1} \subseteq Nat /\ H \cup {m + 1} # {}
  OBVIOUS
<1>2. k \in H \cup {m + 1} /\ \A y \in H \cup {m + 1} : k <= y
  BY <1>1, LeastOf DEF Common
<1> HIDE DEF k, m
<1>3. k \in Nat /\ k <= m + 1
  BY <1>1, <1>2
<1>4. ASSUME NEW j \in 0 .. m, j < k PROVE At(s, c + j) = At(name, j + 1)
  BY <1>2, <1>3, <1>4
<1>5. k <= m => At(s, c + k) # At(name, k + 1)
  <2> SUFFICES ASSUME k <= m PROVE k \in H
    OBVIOUS
  <2>1. k # m + 1
    BY <1>3 DEF m
  <2> HIDE DEF H
  <2> QED BY <1>2, <2>1
<1> QED BY <1>3, <1>4, <1>5 DEF k, m

(* How far the header repeats a name at a piece tells whether the piece is  *)
(* the bare name at the header's end, and whether it begins with the name   *)
(* and a = sign.                                                            *)
LEMMA CommonSays ==
  ASSUME NEW s \in Text, NEW c, NEW t \in Text, CookieAt(s, c, t), NEW name \in Token
  PROVE  LET k == Common(s, c, name)
         IN  /\ k \in Nat /\ k <= Len(name) + 1 /\ (k <= Len(name) => k <= Len(t))
             /\ k > Len(name) <=> t = name /\ c + Len(t) = Len(s) + 1
             /\ k = Len(name) /\ At(s, c + Len(name)) = EQ <=> Marked(name, t)
<1> DEFINE k == Common(s, c, name)
           l == Len(t)
           m == Len(name)
           n == Len(s)
           A(j) == At(s, c + j)
<1>1. /\ c \in Nat /\ c >= 1 /\ l \in Nat /\ n \in Nat /\ c + l <= n + 1
      /\ \A j \in 0 .. l : j < l => A(j) = t[j + 1] /\ t[j + 1] # SEMI /\ t[j + 1] # NUL
      /\ c + l <= n => A(l) = SEMI
      /\ c + l = n + 1 => A(l) = NUL
  BY CookieBytes
<1>2. /\ m \in Nat /\ m >= 1 /\ name \in Text
      /\ \A j \in 1 .. m : name[j] # SEMI /\ name[j] # NUL /\ name[j] # EQ
      /\ \A j \in 0 .. m : j < m => At(name, j + 1) = name[j + 1]
      /\ At(name, m + 1) = NUL
  BY TokenIs
<1>3. /\ k \in Nat /\ k <= m + 1
      /\ \A j \in 0 .. m : j < k => A(j) = At(name, j + 1)
      /\ k <= m => A(k) # At(name, k + 1)
  BY <1>2, CommonIs
<1>4. A(l) \in {SEMI, NUL} /\ SEMI # NUL /\ EQ # SEMI /\ EQ # NUL
  BY <1>1 DEF SEMI, NUL, EQ
<1> HIDE DEF k, l, m, n, A
<1>5. k <= l \/ (k = m + 1 /\ l = m)
  <2> SUFFICES ASSUME l < k PROVE k = m + 1 /\ l = m
    BY <1>1, <1>3
  <2>1. l \in 0 .. m
    BY <1>1, <1>2, <1>3
  <2>2. A(l) = At(name, l + 1)
    BY <1>3, <2>1
  <2>3. ~(l < m)
    <3> SUFFICES ASSUME l < m PROVE FALSE
      OBVIOUS
    <3>1. At(name, l + 1) = name[l + 1] /\ l + 1 \in 1 .. m
      BY <1>2, <2>1
    <3> QED BY <1>2, <1>4, <2>2, <3>1
  <2> QED BY <1>2, <1>3, <2>1, <2>3
<1>6. ASSUME NEW j \in 1 .. m, j <= k PROVE j <= l /\ t[j] = name[j]
  <2> DEFINE i == j - 1
  <2>1. i \in 0 .. m /\ i < k /\ i < m /\ i + 1 = j /\ i \in 0 .. l /\ i < l
    BY <1>1, <1>2, <1>3, <1>5, <1>6
  <2> HIDE DEF i
  <2>2. A(i) = At(name, i + 1) /\ At(name, i + 1) = name[i + 1] /\ A(i) = t[i + 1]
    BY <1>1, <1>2, <1>3, <2>1
  <2>3. t[i + 1] = name[i + 1]
    BY <2>2
  <2>4. t[j] = name[j]
    BY <2>1, <2>3
  <2>5. j <= l
    BY <1>1, <2>1
  <2> QED BY <2>4, <2>5
<1>7. ASSUME k > m PROVE t = name /\ c + l = n + 1
  <2>1. k = m + 1 /\ m \in 0 .. m /\ m < k
    BY <1>2, <1>3, <1>7
  <2>2. A(m) = NUL
    BY <1>2, <1>3, <2>1
  <2>3. m <= l
    BY <1>5, <2>1, <1>2, <1>1
  <2>4. ~(m < l)
    <3> SUFFICES ASSUME m < l PROVE FALSE
      OBVIOUS
    <3>1. m \in 0 .. l
      BY <1>1, <1>2, <2>3
    <3> QED BY <1>1, <2>2, <3>1
  <2>5. l = m
    BY <1>1, <1>2, <2>3, <2>4
  <2>6. \A j \in 1 .. m : t[j] = name[j]
    <3> SUFFICES ASSUME NEW j \in 1 .. m PROVE t[j] = name[j]
      OBVIOUS
    <3>1. j <= k
      BY <1>2, <2>1
    <3> QED BY <1>6, <3>1
  <2>7. t = name
    BY <1>2, <2>5, <2>6, SeqEqual DEF Text, l, m
  <2>8. ~(c + l <= n)
    BY <1>1, <1>4, <2>2, <2>5
  <2> QED BY <1>1, <2>7, <2>8
<1>8. ASSUME t = name, c + l = n + 1 PROVE k > m
  <2> SUFFICES ASSUME k <= m PROVE FALSE
    BY <1>2, <1>3
  <2>1. l = m
    BY <1>8 DEF l, m
  <2>2. CASE k < m
    BY <1>3, <2>1, <2>2, <1>2, <1>1, <1>8
  <2>3. CASE k = m
    BY <1>1, <1>2, <1>3, <1>8, <2>1, <2>3
  <2> QED BY <1>2, <1>3, <2>2, <2>3
<1>9. ASSUME k = m, A(m) = EQ PROVE Marked(name, t)
  <2>1. m <= l
    BY <1>1, <1>2, <1>5, <1>9
  <2>2. m # l
    BY <1>4, <1>9
  <2>3. m < l /\ m \in 0 .. l
    BY <1>1, <1>2, <2>1, <2>2
  <2>4. t[m + 1] = EQ
    BY <1>1, <1>9, <2>3
  <2>5. \A j \in 1 .. m : t[j] = name[j]
    <3> SUFFICES ASSUME NEW j \in 1 .. m PROVE t[j] = name[j]
      OBVIOUS
    <3>1. j <= k
      BY <1>2, <1>9
    <3> QED BY <1>6, <3>1
  <2> QED BY <1>1, <1>2, <2>3, <2>4, <2>5 DEF Marked, l, m
<1>10. ASSUME Marked(name, t) PROVE k = m /\ A(m) = EQ
  <2>1. m + 1 <= l /\ t[m + 1] = EQ /\ \A j \in 1 .. m : t[j] = name[j]
    BY <1>10 DEF Marked, l, m
  <2>2. ~(k > m)
    <3> SUFFICES ASSUME k > m PROVE FALSE
      OBVIOUS
    <3>1. t = name
      BY <1>7
    <3>2. l = m
      BY <3>1 DEF l, m
    <3> QED BY <1>1, <1>2, <2>1, <3>2
  <2>3. ~(k < m)
    <3> SUFFICES ASSUME k < m PROVE FALSE
      OBVIOUS
    <3>1. k \in 0 .. m /\ k \in 0 .. l /\ k < l /\ k + 1 \in 1 .. m
      BY <1>1, <1>2, <1>3, <2>1
    <3>2. At(name, k + 1) = name[k + 1] /\ A(k) = t[k + 1]
      BY <1>1, <1>2, <3>1
    <3> QED BY <1>3, <2>1, <3>1, <3>2
  <2>4. m \in 0 .. l /\ m < l
    BY <1>1, <1>2, <2>1
  <2> QED BY <1>1, <1>2, <1>3, <2>1, <2>2, <2>3, <2>4
<1> QED BY <1>1, <1>2, <1>3, <1>5, <1>7, <1>8, <1>9, <1>10 DEF k, l, m, n, A
-------------------------------------------------------------------------------
(* cgiCookieString answers what the first place decides that decides        *)
(* anything.                                                                *)
LEMMA CookieWalks ==
  ASSUME NEW s \in Text, NEW name \in Text, NEW space
  PROVE  /\ cgiCookieString(s, name, space) =
              IF CookieWalk(s, name, space, 1) = <<>> THEN CookieNone(space) ELSE CookieWalk(s, name, space, 1)[1]
         /\ Forward(CookieNext(s, name), Len(s))
<1> DEFINE n == Len(s)
           D == 1 .. n
           none == [text |-> <<>>, set |-> space > 0, code |-> "cgiFormNotFound"]
           k == [p \in D |-> Common(s, p, name)]
           semi == [p \in D |-> Find(s, p + k[p], {SEMI})]
           value(v) == SubSeq(s, v, Find(s, v, {SEMI}) - 1)
           found(t) == [text |-> Clip(t, space), set |-> space > 0,
                        code |-> IF Len(t) < space \/ t = <<>> THEN "cgiFormSuccess" ELSE "cgiFormTruncated"]
           next == [p \in D |-> NextCookie(s, semi[p])]
           out == [p \in D |->
                     IF k[p] > Len(name) THEN <<[none EXCEPT !.set = FALSE]>>
                     ELSE IF Named(s, p, name) THEN <<found(value(p + Len(name) + 1))>> ELSE <<>>]
           W == Walk(next, out, 1)
<1>1. n \in Nat /\ DOMAIN s = D /\ Len(name) \in Nat /\ s \in Seq(Byte)
  BY LenProperties DEF Text
<1>2. cgiCookieString(s, name, space) = IF W = <<>> THEN none ELSE W[1]
  BY <1>1 DEF cgiCookieString
<1>3. none = CookieNone(space) /\ (\A t : found(t) = CookieFound(t, space))
      /\ \A v : value(v) = PieceAt(s, {SEMI}, v)
  BY DEF CookieNone, CookieFound, PieceAt
<1>4. [none EXCEPT !.set = FALSE] = CookieBare(space)
  BY <1>3 DEF CookieBare
<1> HIDE DEF none, found, value
<1>5. \A p \in D : k[p] = Common(s, p, name) /\ semi[p] = CookieEnd(s, name, p)
  BY DEF CookieEnd
<1> HIDE DEF k, semi
<1>6. next = CookieNext(s, name)
  BY <1>5 DEF CookieNext
<1>7. out = CookieOut(s, name, space)
  <2> DEFINE old(p) == IF k[p] > Len(name) THEN <<[none EXCEPT !.set = FALSE]>>
                       ELSE IF Named(s, p, name) THEN <<found(value(p + Len(name) + 1))>> ELSE <<>>
             new(p) == IF Common(s, p, name) > Len(name) THEN <<CookieBare(space)>>
                       ELSE IF Named(s, p, name) THEN <<CookieFound(PieceAt(s, {SEMI}, p + Len(name) + 1), space)>>
                       ELSE <<>>
  <2>1. \A p \in D : old(p) = new(p)
    BY <1>3, <1>4, <1>5
  <2>2. out = [p \in D |-> old(p)] /\ CookieOut(s, name, space) = [p \in D |-> new(p)]
    BY DEF CookieOut
  <2> HIDE DEF old, new, out
  <2> QED BY <2>1, <2>2
<1>8. ASSUME NEW p \in D PROVE NextCookie(s, CookieEnd(s, name, p)) \in Nat /\ NextCookie(s, CookieEnd(s, name, p)) > p
  <2> DEFINE i == p + Common(s, p, name)
             e == CookieEnd(s, name, p)
             j == e + 1
             q == Skip(s, j, Blank)
  <2>1. Common(s, p, name) \in Nat
    BY <1>1, CommonIs
  <2>2. i \in Nat /\ i >= p /\ p \in Nat /\ p <= n
    BY <1>1, <2>1
  <2> HIDE DEF i
  <2>3. /\ Find(s, i, {SEMI}) \in Nat /\ (i <= n + 1 => i <= Find(s, i, {SEMI}))
        /\ (i > n => Find(s, i, {SEMI}) = n + 1)
    BY <1>1, <2>2, FindIs
  <2>4. e \in Nat /\ e >= p
    BY <1>1, <2>2, <2>3 DEF CookieEnd, i
  <2> HIDE DEF e
  <2>5. j \in Nat /\ j > 0 /\ j > p
    BY <2>2, <2>4
  <2> HIDE DEF j
  <2>6. q \in Nat /\ (j <= n + 1 => j <= q) /\ (j > n => q = n + 1)
    BY <1>1, <2>5, SkipIs
  <2> HIDE DEF q, n
  <2>7. q > p
    BY <1>1, <2>2, <2>5, <2>6
  <2> QED BY <2>6, <2>7 DEF NextCookie, q, j, e
<1>9. Forward(CookieNext(s, name), n)
  BY <1>8 DEF CookieNext, Forward
<1>10. W = CookieWalk(s, name, space, 1)
  BY <1>6, <1>7 DEF CookieWalk
<1> HIDE DEF W
<1> QED BY <1>2, <1>3, <1>9, <1>10

(* At a piece the walk decides by that piece and goes on behind its         *)
(* semicolon and the blanks.                                                *)
LEMMA CookieTurn ==
  ASSUME NEW s \in Text, NEW c, NEW t \in Text, CookieAt(s, c, t), NEW name \in Token, NEW space, c <= Len(s)
  PROVE  /\ CookieWalk(s, name, space, c) =
              (IF Bare(s, c, t, name) THEN <<CookieBare(space)>>
               ELSE IF Marked(name, t) THEN <<CookieFound(ValueIn(t, name), space)>> ELSE <<>>)
                \o CookieWalk(s, name, space, NextCookie(s, c + Len(t)))
<1> DEFINE k == Common(s, c, name)
           l == Len(t)
           m == Len(name)
           n == Len(s)
           e == c + l
           i == c + k
<1>1. /\ c \in Nat /\ c >= 1 /\ l \in Nat /\ n \in Nat /\ c + l <= n + 1 /\ m \in Nat /\ name \in Text
      /\ s \in Seq(Byte) /\ t \in Seq(Byte) /\ c \in 1 .. n /\ StandsAt(s, c, t)
      /\ (e <= n => s[e] = SEMI)
      /\ \A j \in 1 .. l : t[j] # SEMI
  BY CookieBytes, TokenIs DEF CookieAt, Text, n
<1>2. /\ k \in Nat /\ k <= m + 1 /\ (k <= m => k <= l)
      /\ k > m <=> Bare(s, c, t, name)
      /\ k = m /\ At(s, c + m) = EQ <=> Marked(name, t)
  BY CommonSays DEF Bare
<1>3. \A j \in Nat : c <= j /\ j < e => s[j] \notin {SEMI}
  <2> SUFFICES ASSUME NEW j \in Nat, c <= j, j < e PROVE s[j] \notin {SEMI}
    OBVIOUS
  <2> DEFINE a == j - c + 1
  <2>1. a \in 1 .. l /\ c + a - 1 = j
    BY <1>1
  <2> HIDE DEF a, l, e
  <2>2. s[c + a - 1] = t[a]
    BY <1>1, <2>1 DEF StandsAt, l
  <2> QED BY <1>1, <2>1, <2>2
<1> HIDE DEF k, l, n, m
<1>4. e \in Nat /\ e <= n + 1 /\ c <= e
  BY <1>1
<1>5. ASSUME NEW v \in Nat, c <= v, v <= e PROVE Find(s, v, {SEMI}) = e
  <2>1. \A j \in Nat : v <= j /\ j < e => s[j] \notin {SEMI}
    BY <1>1, <1>3, <1>5
  <2>2. e <= n => s[e] \in {SEMI}
    BY <1>1
  <2> HIDE DEF e
  <2> QED BY <1>1, <1>4, <1>5, <2>1, <2>2, FindFirst DEF n
<1>6. CookieEnd(s, name, c) = e
  <2>1. i \in Nat /\ c <= i
    BY <1>1, <1>2
  <2>2. CASE k <= m
    <3>1. i <= e
      BY <1>1, <1>2, <2>2
    <3> HIDE DEF i
    <3> QED BY <1>5, <2>1, <3>1 DEF CookieEnd, i, k
  <2>3. CASE k > m
    <3>1. e = n + 1 /\ l = m
      BY <1>2, <2>3 DEF Bare, n, l, m
    <3>2. i > n
      BY <1>1, <1>2, <2>3, <3>1
    <3> HIDE DEF i
    <3>3. Find(s, i, {SEMI}) = n + 1
      BY <1>1, <2>1, <3>2, FindIs DEF n
    <3> QED BY <3>1, <3>3 DEF CookieEnd, i, k
  <2> QED BY <1>1, <1>2, <2>2, <2>3
<1>7. Marked(name, t) => PieceAt(s, {SEMI}, c + m + 1) = ValueIn(t, name)
  <2> SUFFICES ASSUME Marked(name, t) PROVE PieceAt(s, {SEMI}, c + m + 1) = ValueIn(t, name)
    OBVIOUS
  <2> DEFINE v == c + m + 1
             a == m + 2
             j == e - 1
  <2>1. m + 1 <= l
    BY DEF Marked, m, l
  <2>2. v \in Nat /\ c <= v /\ v <= e /\ a \in Nat /\ a >= 1 /\ j \in Nat /\ v = (c + a) - 1 /\ j = (c + l) - 1
    BY <1>1, <2>1
  <2>3. Find(s, v, {SEMI}) = e
    BY <1>5, <2>2
  <2>4. PieceAt(s, {SEMI}, v) = SubSeq(s, v, j)
    BY <2>3 DEF PieceAt
  <2> HIDE DEF v, a, j, e
  <2>5. l <= Len(t) /\ l \in Nat
    BY <1>1 DEF l
  <2>6. SubSeq(s, v, j) = SubSeq(t, a, l)
    <3>1. s \in Seq(Byte) /\ t \in Seq(Byte) /\ c \in Nat /\ StandsAt(s, c, t) /\ j \in Nat
      BY <1>1, <2>2, <2>5
    <3> HIDE DEF l
    <3> QED BY <2>2, <2>5, <3>1, StandsPart
  <2> QED BY <2>4, <2>6 DEF ValueIn, v, a, l, m
<1>8. CookieOut(s, name, space)[c] =
        IF Bare(s, c, t, name) THEN <<CookieBare(space)>>
        ELSE IF Marked(name, t) THEN <<CookieFound(ValueIn(t, name), space)>> ELSE <<>>
  BY <1>1, <1>2, <1>7 DEF CookieOut, k, m, n, Named
<1>9. CookieNext(s, name)[c] = NextCookie(s, e)
  BY <1>1, <1>6 DEF CookieNext, n
<1>10. Forward(CookieNext(s, name), n)
  BY <1>1, CookieWalks DEF n
<1>11. CookieWalk(s, name, space, c) = CookieOut(s, name, space)[c] \o CookieWalk(s, name, space, CookieNext(s, name)[c])
  BY <1>1, <1>10, WalkStep DEF CookieWalk
<1> QED BY <1>8, <1>9, <1>11 DEF e, l
-------------------------------------------------------------------------------
(* A name with its = sign is the beginning of a piece.                      *)
LEMMA MarkIs ==
  ASSUME NEW name \in Token, NEW t \in Text
  PROVE  /\ IsPrefix(name \o <<EQ>>, t) <=> Marked(name, t)
         /\ Len(name \o <<EQ>>) = Len(name) + 1
<1> DEFINE m == Len(name)
           l == Len(t)
           q == m + 1
           eq == <<EQ>>
           mark == name \o eq
           u == SubSeq(mark, 1, q)
           v == SubSeq(t, 1, q)
<1>1. /\ name \in Seq(Byte) /\ t \in Seq(Byte) /\ m \in Nat /\ l \in Nat
      /\ eq \in Seq(Byte) /\ Len(eq) = 1 /\ eq[1] = EQ
  BY TokenIs, LenProperties DEF Text, Byte, EQ
<1> HIDE DEF eq
<1>2. /\ mark \in Seq(Byte) /\ Len(mark) = q /\ q \in Nat /\ q = m + 1
      /\ \A j \in 1 .. q : mark[j] = IF j <= m THEN name[j] ELSE EQ
  <2>1. /\ mark \in Seq(Byte) /\ Len(mark) = m + Len(eq)
        /\ \A j \in 1 .. m + Len(eq) : mark[j] = IF j <= m THEN name[j] ELSE eq[j - m]
    BY <1>1, ConcatProperties
  <2>2. \A j \in 1 .. q : j <= m \/ j - m = 1
    BY <1>1
  <2> HIDE DEF mark, m
  <2> QED BY <1>1, <2>1, <2>2
<1> HIDE DEF mark, m, l
<1>3. /\ u \in Seq(Byte) /\ Len(u) = q /\ \A j \in 1 .. q : u[j] = mark[j]
  <2> DEFINE one == 1
  <2>1. one \in Nat /\ one >= 1 /\ q <= Len(mark)
    BY <1>2
  <2> HIDE DEF one, q
  <2>2. /\ SubSeq(mark, one, q) \in Seq(Byte) /\ Len(SubSeq(mark, one, q)) = IF one <= q THEN q - one + 1 ELSE 0
        /\ \A k \in Nat : 1 <= k /\ k <= q - one + 1 => SubSeq(mark, one, q)[k] = mark[one + k - 1]
    BY <1>2, <2>1, PartOf
  <2>3. one = 1
    BY DEF one
  <2> HIDE DEF u
  <2>4. /\ u \in Seq(Byte) /\ Len(u) = (IF 1 <= q THEN q - 1 + 1 ELSE 0)
        /\ \A k \in Nat : 1 <= k /\ k <= q - 1 + 1 => u[k] = mark[1 + k - 1]
    BY <2>2, <2>3 DEF u
  <2> QED BY <1>1, <1>2, <2>4
<1>4. q <= l => v \in Seq(Byte) /\ Len(v) = q /\ \A j \in 1 .. q : v[j] = t[j]
  <2> SUFFICES ASSUME q <= l PROVE v \in Seq(Byte) /\ Len(v) = q /\ \A j \in 1 .. q : v[j] = t[j]
    OBVIOUS
  <2> DEFINE one == 1
  <2>1. one \in Nat /\ one >= 1 /\ q <= Len(t)
    BY DEF l
  <2> HIDE DEF one, q
  <2>2. /\ SubSeq(t, one, q) \in Seq(Byte) /\ Len(SubSeq(t, one, q)) = IF one <= q THEN q - one + 1 ELSE 0
        /\ \A k \in Nat : 1 <= k /\ k <= q - one + 1 => SubSeq(t, one, q)[k] = t[one + k - 1]
    BY <1>1, <1>2, <2>1, PartOf
  <2>3. one = 1
    BY DEF one
  <2> HIDE DEF v
  <2>4. /\ v \in Seq(Byte) /\ Len(v) = (IF 1 <= q THEN q - 1 + 1 ELSE 0)
        /\ \A k \in Nat : 1 <= k /\ k <= q - 1 + 1 => v[k] = t[1 + k - 1]
    BY <2>2, <2>3 DEF v
  <2> QED BY <1>1, <1>2, <2>4
<1>5. IsPrefix(mark, t) <=> q <= l /\ u = v
  BY <1>2 DEF IsPrefix, u, v, l
<1> HIDE DEF u, v, q
<1>6. ASSUME q <= l PROVE u = v <=> \A j \in 1 .. q : t[j] = mark[j]
  BY <1>3, <1>4, <1>6, SeqEqual
<1>7. (\A j \in 1 .. q : t[j] = mark[j]) <=> t[m + 1] = EQ /\ \A j \in 1 .. m : t[j] = name[j]
  BY <1>1, <1>2
<1>8. IsPrefix(mark, t) <=> Marked(name, t)
  BY <1>2, <1>5, <1>6, <1>7 DEF Marked, m, l
<1> QED BY <1>2, <1>8 DEF mark, eq, m

(* Without its blanks the piece stands where Skip leads.                    *)
LEMMA TrimIs ==
  ASSUME NEW s \in Text, NEW b \in Nat, b >= 1, b <= Len(s) + 1
  PROVE  LET x == PieceAt(s, {SEMI}, b)
         IN  /\ Trim(x) \in Text /\ CookieAt(s, Skip(s, b, Blank), Trim(x))
             /\ Skip(s, b, Blank) + Len(Trim(x)) = Find(s, b, {SEMI})
<1> DEFINE x == PieceAt(s, {SEMI}, b)
           l == Len(x)
           n == Len(s)
           f == Find(s, b, {SEMI})
           z == Skip(x, 1, Blank)
           t == Trim(x)
           c == b + z - 1
<1>1. s \in Seq(Byte) /\ n \in Nat
  BY LenProperties DEF Text
<1>2. /\ x \in Seq(Byte) /\ StandsAt(s, b, x) /\ b + l = f
      /\ \A j \in 1 .. l : x[j] \notin {SEMI}
  BY <1>1, PieceStands
<1> HIDE DEF x
<1>3. /\ l \in Nat /\ b + l <= n + 1 /\ \A j \in 1 .. l : s[b + j - 1] = x[j] /\ x[j] # SEMI
  BY <1>2, LenProperties DEF StandsAt
<1>4. f <= n => s[f] = SEMI
  BY <1>1, FindIs
<1>5. /\ z \in Nat /\ z >= 1 /\ z <= l + 1
      /\ \A j \in 1 .. l : j < z => x[j] \in Blank
      /\ z <= l => x[z] \notin Blank
  <2> DEFINE one == 1
  <2>1. one \in Nat /\ one > 0 /\ one <= l + 1
    BY <1>3
  <2> HIDE DEF one
  <2>2. /\ Skip(x, one, Blank) \in Nat /\ Skip(x, one, Blank) <= Len(x) + 1
        /\ one <= Len(x) + 1 => one <= Skip(x, one, Blank)
        /\ \A j \in one .. Len(x) : j < Skip(x, one, Blank) => x[j] \in Blank
        /\ Skip(x, one, Blank) <= Len(x) => x[Skip(x, one, Blank)] \notin Blank
    BY <1>2, <2>1, SkipIs
  <2> QED BY <2>1, <2>2 DEF one
<1> HIDE DEF l, n, f, z
<1>6. c \in Nat /\ c >= 1 /\ b <= c /\ c <= n + 1 /\ c <= f /\ f \in Nat
  BY <1>1, <1>2, <1>3, <1>5
<1>7. Skip(s, b, Blank) = c
  <2>1. \A j \in Nat : b <= j /\ j < c => s[j] \in Blank
    <3> SUFFICES ASSUME NEW j \in Nat, b <= j, j < c PROVE s[j] \in Blank
      OBVIOUS
    <3> DEFINE i == j - b + 1
    <3>1. i \in 1 .. l /\ i < z /\ b + i - 1 = j
      BY <1>1, <1>3, <1>5, <1>6
    <3> HIDE DEF i
    <3>2. s[b + i - 1] \in Blank
      BY <1>3, <1>5, <3>1
    <3> QED BY <3>1, <3>2
  <2>2. c <= n => s[c] \notin Blank
    <3> SUFFICES ASSUME c <= n PROVE s[c] \notin Blank
      OBVIOUS
    <3>1. CASE z <= l
      BY <1>3, <1>5, <3>1
    <3>2. CASE z = l + 1
      <4>1. c = f
        BY <1>2, <1>3, <3>2 DEF l, f
      <4>2. SEMI \notin Blank
        BY DEF SEMI, Blank, TAB, LF, VT, FF, CR, SP
      <4> HIDE DEF c
      <4> QED BY <1>4, <4>1, <4>2
    <3> QED BY <1>3, <1>5, <3>1, <3>2
  <2> HIDE DEF c
  <2>3. b > 0
    OBVIOUS
  <2> QED BY <1>1, <1>6, <2>1, <2>2, <2>3, SkipFirst DEF n
<1>8. /\ t \in Seq(Byte) /\ Len(t) = l - z + 1
      /\ \A j \in 1 .. Len(t) : t[j] = x[z + j - 1]
  <2>1. l <= Len(x)
    BY <1>3 DEF l
  <2>2. /\ SubSeq(x, z, l) \in Seq(Byte)
        /\ Len(SubSeq(x, z, l)) = IF z <= l THEN l - z + 1 ELSE 0
        /\ \A k \in Nat : 1 <= k /\ k <= l - z + 1 => SubSeq(x, z, l)[k] = x[z + k - 1]
    BY <1>2, <1>3, <1>5, <2>1, PartOf
  <2>3. t = SubSeq(x, z, l)
    BY DEF Trim, l, z
  <2> HIDE DEF t
  <2> QED BY <1>3, <1>5, <2>2, <2>3
<1> HIDE DEF t
<1>9. c + Len(t) = f
  BY <1>2, <1>3, <1>5, <1>8 DEF l, f
<1>10. ASSUME NEW j \in 1 .. Len(t) PROVE s[c + j - 1] = t[j] /\ t[j] # SEMI
  <2> DEFINE i == z + j - 1
  <2>1. i \in 1 .. l /\ b + i - 1 = c + j - 1
    BY <1>3, <1>5, <1>8
  <2>2. t[j] = x[i]
    BY <1>8
  <2> HIDE DEF i, c
  <2> QED BY <1>3, <2>1, <2>2
<1>11. CookieAt(s, c, t)
  <2>1. c + Len(t) <= n + 1
    BY <1>1, <1>2, <1>3, <1>9 DEF l, f
  <2>2. c \in Nat \ {0}
    BY <1>6
  <2> HIDE DEF c
  <2>3. StandsAt(s, c, t)
    BY <1>10, <2>1, <2>2 DEF StandsAt, n
  <2> QED BY <1>4, <1>9, <1>10, <2>2, <2>3 DEF CookieAt, n
<1> QED BY <1>7, <1>8, <1>9, <1>11 DEF Text, t, x, f
-------------------------------------------------------------------------------
(* What the walk puts out is made of the answers there are.                 *)
LEMMA CookieWalkTyped ==
  ASSUME NEW s \in Text, NEW name \in Text, NEW space
  PROVE  \E R : /\ CookieBare(space) \in R
                /\ \A t \in Text : CookieFound(t, space) \in R
                /\ \A c \in Nat : CookieWalk(s, name, space, c) \in Seq(R)
<1> DEFINE n == Len(s)
           next == CookieNext(s, name)
           out == CookieOut(s, name, space)
           R == {CookieBare(space)} \cup {CookieFound(t, space) : t \in Text} \cup {out[p][1] : p \in 1 .. n}
<1>1. n \in Nat /\ Forward(next, n)
  BY CookieWalks, LenProperties DEF Text
<1>2. ASSUME NEW p \in 1 .. n PROVE out[p] \in Seq(R)
  <2> DEFINE a == CookieBare(space)
             b == CookieFound(PieceAt(s, {SEMI}, p + Len(name) + 1), space)
  <2>1. out[p] = <<a>> \/ out[p] = <<b>> \/ out[p] = <<>>
    BY DEF CookieOut
  <2>2. out[p][1] \in R
    OBVIOUS
  <2> HIDE DEF a, b, R, out
  <2>3. ASSUME NEW y, out[p] = <<y>> PROVE out[p] \in Seq(R)
    BY <2>2, <2>3
  <2>4. <<>> \in Seq(R)
    BY EmptySeq
  <2> QED BY <2>1, <2>3, <2>4
<1>3. CookieBare(space) \in R /\ \A t \in Text : CookieFound(t, space) \in R
  OBVIOUS
<1> HIDE DEF R, out, next
<1>4. \A c \in Nat : CookieWalk(s, name, space, c) \in Seq(R)
  BY <1>1, <1>2, WalkTyped DEF CookieWalk, next, out
<1> QED BY <1>3, <1>4

(* The value of a marked piece is a text.                                   *)
LEMMA ValueTyped ==
  ASSUME NEW name \in Token, NEW t \in Text, Marked(name, t) PROVE ValueIn(t, name) \in Text
<1> DEFINE a == Len(name) + 2
           l == Len(t)
<1>1. a \in Nat /\ a >= 1 /\ l \in Nat /\ l <= Len(t) /\ t \in Seq(Byte)
  BY TokenIs, LenProperties DEF Text
<1> HIDE DEF a, l
<1>2. SubSeq(t, a, l) \in Seq(Byte)
  BY <1>1, PartOf
<1> QED BY <1>2 DEF Text, ValueIn, a, l

(* A piece more in front decides first.                                     *)
LEMMA DecidesMore ==
  ASSUME NEW s \in Text, NEW name \in Token, NEW space, NEW c, NEW t \in Text, CookieAt(s, c, t),
         NEW ts \in Seq(Text), c + Len(t) = Len(s) + 1 => ts = <<>>,
         FirstDecides(ts, name, space, CookieWalk(s, name, space, NextCookie(s, c + Len(t))))
  PROVE  FirstDecides(<<t>> \o ts, name, space, CookieWalk(s, name, space, c))
<1> DEFINE qs == <<t>> \o ts
           l == Len(ts)
           n == Len(s)
           q == NextCookie(s, c + Len(t))
           v == CookieWalk(s, name, space, q)
           w == CookieWalk(s, name, space, c)
<1>1. /\ qs \in Seq(Text) /\ Len(qs) = l + 1 /\ l \in Nat /\ qs[1] = t /\ \A k \in 1 .. l : qs[k + 1] = ts[k]
  BY OneMore
<1>2. DOMAIN qs = 1 .. l + 1 /\ DOMAIN ts = 1 .. l
  BY <1>1, LenProperties
<1>3. c \in Nat /\ c >= 1 /\ n \in Nat /\ Len(t) \in Nat /\ c + Len(t) <= n + 1
  BY CookieBytes
<1>4. Len(name) \in Nat /\ Len(name) >= 1 /\ name \in Text
  BY TokenIs
<1>5. l = 0 <=> ts = <<>>
  BY EmptySeq
<1>6. PICK R : /\ CookieBare(space) \in R
               /\ \A y \in Text : CookieFound(y, space) \in R
               /\ \A p \in Nat : CookieWalk(s, name, space, p) \in Seq(R)
  BY <1>4, CookieWalkTyped
<1>7. q \in Nat
  <2> DEFINE j == c + Len(t) + 1
  <2>1. j \in Nat /\ j > 0 /\ s \in Seq(Byte)
    BY <1>3 DEF Text
  <2> HIDE DEF j
  <2>2. Skip(s, j, Blank) \in Nat
    BY <2>1, SkipIs
  <2> QED BY <2>2 DEF j, NextCookie
<1>8. v \in Seq(R)
  BY <1>6, <1>7
<1>9. FirstDecides(ts, name, space, v)
  OBVIOUS
<1> HIDE DEF qs, l, q, v, w
<1>10. CASE c <= n
  <2>1. w = (IF Bare(s, c, t, name) THEN <<CookieBare(space)>>
             ELSE IF Marked(name, t) THEN <<CookieFound(ValueIn(t, name), space)>> ELSE <<>>) \o v
    BY <1>10, CookieTurn DEF w, v, q, n
  <2>2. CASE Bare(s, c, t, name)
    <3>1. t = name /\ ts = <<>> /\ l = 0
      BY <1>5, <2>2 DEF Bare
    <3>2. w[1] = CookieBare(space)
      BY <2>1, <2>2, <1>6, <1>8, OneMore
    <3>3. ~Marked(name, t)
      BY <1>4, <3>1 DEF Marked
    <3>4. \A i \in 1 .. l + 1 : ~Marked(name, qs[i])
      BY <1>1, <3>1, <3>3
    <3>5. qs # <<>> /\ qs[Len(qs)] = name
      <4>1. Len(qs) = 1
        BY <1>1, <3>1
      <4>2. qs # <<>>
        BY <1>1, <4>1, EmptySeq
      <4> QED BY <1>1, <3>1, <4>1, <4>2
    <3> QED BY <1>2, <3>2, <3>4, <3>5 DEF FirstDecides, qs, w
  <2>3. CASE ~Bare(s, c, t, name) /\ Marked(name, t)
    <3> DEFINE x == CookieFound(ValueIn(t, name), space)
    <3>1. x \in R
      BY <1>6, <2>3, ValueTyped
    <3>2. w = <<x>> \o v
      BY <2>1, <2>3
    <3> HIDE DEF x
    <3>3. w \in Seq(R) /\ Len(w) = Len(v) + 1 /\ Len(v) \in Nat /\ w[1] = x
      BY <1>8, <3>1, <3>2, OneMore
    <3>4. w # <<>>
      BY <3>3, EmptySeq
    <3>5. 1 \in 1 .. l + 1 /\ Marked(name, qs[1])
      BY <1>1, <2>3
    <3>6. ASSUME NEW i \in 1 .. l + 1, \A j \in 1 .. i - 1 : ~Marked(name, qs[j])
          PROVE  qs[i] = t
      BY <3>5, <3>6, <1>1
    <3> QED BY <1>2, <3>3, <3>4, <3>5, <3>6 DEF FirstDecides, qs, w, x
  <2>4. CASE ~Bare(s, c, t, name) /\ ~Marked(name, t)
    <3>1. w = v
      BY <2>1, <2>4, <1>8, ConcatEmptySeq
    <3>2. ASSUME NEW i \in 1 .. l + 1, Marked(name, qs[i]), \A j \in 1 .. i - 1 : ~Marked(name, qs[j])
          PROVE  v # <<>> /\ v[1] = CookieFound(ValueIn(qs[i], name), space)
      <4> DEFINE k == i - 1
      <4>1. i # 1
        BY <1>1, <2>4, <3>2
      <4>2. k \in 1 .. l /\ i = k + 1
        BY <1>1, <4>1
      <4> HIDE DEF k
      <4>3. qs[i] = ts[k]
        BY <1>1, <4>2
      <4>4. \A j \in 1 .. k - 1 : ~Marked(name, ts[j])
        <5> SUFFICES ASSUME NEW j \in 1 .. k - 1 PROVE ~Marked(name, ts[j])
          OBVIOUS
        <5> DEFINE a == j + 1
        <5>1. j \in 1 .. l /\ a \in 1 .. i - 1 /\ a = j + 1
          BY <1>1, <4>2
        <5> HIDE DEF a
        <5>2. ~Marked(name, qs[a]) /\ qs[j + 1] = ts[j]
          BY <1>1, <3>2, <5>1
        <5> QED BY <5>1, <5>2
      <4>5. Marked(name, ts[k])
        BY <3>2, <4>3
      <4>6. v # <<>> /\ v[1] = CookieFound(ValueIn(ts[k], name), space)
        BY <1>2, <1>9, <4>2, <4>4, <4>5 DEF FirstDecides
      <4> QED BY <4>3, <4>6
    <3>3. ASSUME \A i \in 1 .. l + 1 : ~Marked(name, qs[i])
          PROVE  v = <<>> \/ (v[1] = CookieBare(space) /\ qs # <<>> /\ qs[Len(qs)] = name)
      <4>1. \A k \in 1 .. l : ~Marked(name, ts[k])
        <5> SUFFICES ASSUME NEW k \in 1 .. l PROVE ~Marked(name, ts[k])
          OBVIOUS
        <5>1. k + 1 \in 1 .. l + 1 /\ qs[k + 1] = ts[k]
          BY <1>1
        <5> QED BY <3>3, <5>1
      <4>2. v = <<>> \/ (v[1] = CookieBare(space) /\ ts # <<>> /\ ts[l] = name)
        BY <1>2, <1>9, <4>1 DEF FirstDecides, l
      <4>3. ts # <<>> => l \in 1 .. l /\ qs[l + 1] = ts[l]
        BY <1>1, <1>5
      <4>4. qs # <<>>
        BY <1>1, EmptySeq
      <4> QED BY <1>1, <4>2, <4>3, <4>4
    <3> QED BY <1>2, <3>1, <3>2, <3>3 DEF FirstDecides, qs, w
  <2> QED BY <2>2, <2>3, <2>4
<1>11. CASE ~(c <= n)
  <2>1. Len(t) = 0 /\ c + Len(t) = n + 1 /\ c \notin 1 .. n
    BY <1>3, <1>11
  <2>2. ts = <<>> /\ l = 0
    BY <1>5, <2>1 DEF n
  <2>3. w = <<>>
    <3>1. Forward(CookieNext(s, name), n)
      BY <1>4, CookieWalks DEF n
    <3> QED BY <1>3, <2>1, <3>1, WalkStep DEF w, CookieWalk
  <2>4. ~Marked(name, t)
    BY <1>4, <2>1 DEF Marked
  <2>5. \A i \in 1 .. l + 1 : ~Marked(name, qs[i])
    BY <1>1, <2>2, <2>4
  <2> QED BY <1>2, <2>3, <2>5 DEF FirstDecides, qs, w
<1> QED BY <1>3, <1>10, <1>11
-------------------------------------------------------------------------------
(* A text without its blanks is a text.                                     *)
LEMMA TrimTyped ==
  ASSUME NEW x \in Text PROVE Trim(x) \in Text
<1> DEFINE one == 1
           z == Skip(x, one, Blank)
           l == Len(x)
<1>1. x \in Seq(Byte) /\ l \in Nat /\ l <= Len(x) /\ one \in Nat /\ one > 0 /\ one <= l + 1
  BY LenProperties DEF Text
<1> HIDE DEF one
<1>2. z \in Nat /\ one <= z
  BY <1>1, SkipIs
<1> HIDE DEF z, l
<1>3. z >= 1
  BY <1>2 DEF one
<1>4. SubSeq(x, z, l) \in Seq(Byte)
  BY <1>1, <1>2, <1>3, PartOf
<1> QED BY <1>4 DEF Trim, Text, z, one, l

(* There are as many pieces without their blanks.                           *)
LEMMA TrimsTyped ==
  ASSUME NEW ps \in Seq(Text), NEW k
  PROVE  Trims(ps, k) \in Seq(Text) /\ Len(Trims(ps, k)) = Len(ps) /\ DOMAIN Trims(ps, k) = DOMAIN ps
<1> DEFINE l == Len(ps)
           ts == Trims(ps, k)
           T == Text
<1>1. l \in Nat /\ DOMAIN ps = 1 .. l /\ \A i \in 1 .. l : ps[i] \in T /\ Trim(ps[i]) \in T
  BY ElementOfSeq, LenProperties, TrimTyped
<1> HIDE DEF T, l
<1>2. ts \in [1 .. l -> T]
  BY <1>1 DEF Trims
<1>3. DOMAIN ts = DOMAIN ps
  BY DEF Trims
<1> HIDE DEF ts
<1>4. ts \in Seq(T) /\ Len(ts) = l
  BY <1>1, <1>2, ASequence
<1> QED BY <1>3, <1>4 DEF T, l, ts

(* The first piece comes before the others.                                 *)
LEMMA TrimsOneMore ==
  ASSUME NEW x \in Text, NEW ps \in Seq(Text), NEW k \in {0, 1}
  PROVE  Trims(<<x>> \o ps, k) = <<IF k = 1 THEN x ELSE Trim(x)>> \o Trims(ps, 0)
<1> DEFINE qs == <<x>> \o ps
           l == Len(ps)
           t == IF k = 1 THEN x ELSE Trim(x)
           ts == Trims(ps, 0)
           us == Trims(qs, k)
           vs == <<t>> \o ts
<1>1. /\ qs \in Seq(Text) /\ Len(qs) = l + 1 /\ l \in Nat /\ qs[1] = x /\ \A i \in 1 .. l : qs[i + 1] = ps[i]
  BY OneMore
<1>2. DOMAIN qs = 1 .. l + 1 /\ DOMAIN ps = 1 .. l
  BY <1>1, LenProperties
<1>3. t \in Text
  BY TrimTyped
<1> HIDE DEF qs
<1>4. ts \in Seq(Text) /\ Len(ts) = l /\ us \in Seq(Text) /\ Len(us) = l + 1
  BY <1>1, TrimsTyped
<1>5. /\ \A i \in 1 .. l : ts[i] = Trim(ps[i])
      /\ us[1] = t
      /\ \A i \in 1 .. l + 1 : i # 1 => us[i] = Trim(qs[i])
  BY <1>1, <1>2 DEF Trims
<1> HIDE DEF t, ts, us
<1>6. vs \in Seq(Text) /\ Len(vs) = l + 1 /\ vs[1] = t /\ \A i \in 1 .. l : vs[i + 1] = ts[i]
  BY <1>3, <1>4, OneMore
<1> HIDE DEF vs, l
<1>7. ASSUME NEW i \in 1 .. l + 1 PROVE us[i] = vs[i]
  <2>1. CASE i = 1
    BY <1>5, <1>6, <2>1
  <2>2. CASE i # 1
    <3> DEFINE j == i - 1
    <3>1. j \in 1 .. l /\ i = j + 1
      BY <1>1, <2>2
    <3> HIDE DEF j
    <3>2. qs[i] = ps[j] /\ vs[i] = ts[j] /\ ts[j] = Trim(ps[j])
      BY <1>1, <1>5, <1>6, <3>1
    <3> QED BY <1>5, <2>2, <3>2
  <2> QED BY <2>1, <2>2
<1>8. us = vs
  BY <1>4, <1>6, <1>7, SeqEqual
<1> QED BY <1>8 DEF us, vs, ts, qs, t

(* Without pieces nothing is decided.                                       *)
LEMMA DecidesNothing ==
  ASSUME NEW name, NEW space PROVE FirstDecides(Trims(<<>>, 0), name, space, <<>>)
<1>1. DOMAIN <<>> = {}
  OBVIOUS
<1>2. DOMAIN Trims(<<>>, 0) = {}
  BY <1>1 DEF Trims
<1> QED BY <1>2 DEF FirstDecides

(* The rest of the pieces behind one of them.                               *)
LEMMA PieceAndRest ==
  ASSUME NEW s \in Text, NEW C, NEW b \in Nat, b >= 1, b <= Len(s) + 1
  PROVE  LET f == Find(s, b, C)
             rest == PiecesFrom(s, C, f + 1)
         IN  /\ f \in Nat /\ b <= f /\ f <= Len(s) + 1 /\ rest \in Seq(Text)
             /\ PieceAt(s, C, b) \in Text
             /\ PiecesFrom(s, C, b) = <<PieceAt(s, C, b)>> \o rest
             /\ f = Len(s) + 1 => rest = <<>>
<1> DEFINE n == Len(s)
           f == Find(s, b, C)
           q == f + 1
           rest == PiecesFrom(s, C, q)
<1>1. s \in Seq(Byte) /\ n \in Nat /\ b \in 1 .. n + 1
  BY LenProperties DEF Text
<1>2. f \in Nat /\ b <= f /\ f <= n + 1
  BY <1>1, FindIs
<1> HIDE DEF n, f
<1>3. q \in Nat /\ (f = n + 1 => q > n + 1)
  BY <1>1, <1>2
<1>4. PieceAt(s, C, b) \in Seq(Byte) /\ PiecesFrom(s, C, b) = <<PieceAt(s, C, b)>> \o rest
  BY <1>1, PieceStands, PiecesAre DEF n, f
<1> HIDE DEF q
<1>5. rest \in Seq(Seq(Byte)) /\ (q > n + 1 => rest = <<>>)
  BY <1>1, <1>3, PiecesAre DEF n
<1> QED BY <1>2, <1>3, <1>4, <1>5 DEF Text, n, f, q

(* The walk from a place on decides by the pieces, if so it does behind the *)
(* next semicolon.                                                          *)
LEMMA CookiesFitFrom ==
  ASSUME NEW s \in Text, NEW name \in Token, NEW space, NEW b \in Nat, b >= 1,
         b <= Len(s) + 1 => CookiesFit(s, name, space, Find(s, b, {SEMI}) + 1)
  PROVE  CookiesFit(s, name, space, b)
<1> DEFINE n == Len(s)
           C == {SEMI}
           ps == PiecesFrom(s, C, b)
           c == Skip(s, b, Blank)
           w == CookieWalk(s, name, space, c)
<1>1. s \in Seq(Byte) /\ n \in Nat /\ b > 0 /\ name \in Text
  BY TokenIs, LenProperties DEF Text
<1>2. c \in Nat /\ (b > n => c = n + 1)
  BY <1>1, SkipIs
<1>3. CASE b > n + 1
  <2>1. ps = <<>>
    BY <1>1, <1>3, PiecesAre
  <2>2. w = <<>>
    <3>1. Forward(CookieNext(s, name), n)
      BY <1>1, CookieWalks
    <3>2. c \notin 1 .. n
      BY <1>1, <1>2, <1>3
    <3> HIDE DEF c, n
    <3> QED BY <1>1, <1>2, <3>1, <3>2, WalkStep DEF CookieWalk
  <2> HIDE DEF w, ps
  <2> QED BY <2>1, <2>2, DecidesNothing DEF CookiesFit, w, ps
<1>4. CASE b <= n + 1
  <2> DEFINE x == PieceAt(s, C, b)
             f == Find(s, b, C)
             rest == PiecesFrom(s, C, f + 1)
             t == Trim(x)
             ts == Trims(rest, 0)
  <2>1. /\ f \in Nat /\ rest \in Seq(Text) /\ x \in Text /\ ps = <<x>> \o rest
        /\ f = n + 1 => rest = <<>>
    BY <1>4, PieceAndRest
  <2>2. t \in Text /\ CookieAt(s, c, t) /\ c + Len(t) = f
    BY <1>4, TrimIs
  <2>3. FirstDecides(ts, name, space, CookieWalk(s, name, space, NextCookie(s, f)))
    BY <1>4 DEF CookiesFit, NextCookie
  <2> HIDE DEF rest, x, f, ps, c
  <2>4. ts \in Seq(Text) /\ (f = n + 1 => ts = <<>>)
    BY <2>1, TrimsTyped, EmptySeq
  <2>5. Trims(ps, 0) = <<t>> \o ts
    <3> DEFINE k == 0
    <3>1. k \in {0, 1} /\ k # 1
      OBVIOUS
    <3> HIDE DEF k
    <3>2. Trims(<<x>> \o rest, k) = <<IF k = 1 THEN x ELSE Trim(x)>> \o Trims(rest, 0)
      BY <2>1, <3>1, TrimsOneMore
    <3>3. Trims(ps, k) = <<t>> \o ts
      BY <2>1, <3>1, <3>2
    <3> QED BY <3>3 DEF k
  <2> HIDE DEF t, ts, w
  <2>6. FirstDecides(<<t>> \o ts, name, space, w)
    BY <2>2, <2>3, <2>4, DecidesMore DEF w, n
  <2> QED BY <2>5, <2>6 DEF CookiesFit, w, ps, c
<1> QED BY <1>1, <1>3, <1>4

(* So it does from every place on.                                          *)
LEMMA CookiesAllFit ==
  ASSUME NEW s \in Text, NEW name \in Token, NEW space, NEW b \in Nat, b >= 1
  PROVE  CookiesFit(s, name, space, b)
<1> DEFINE n == Len(s)
           S == {k \in Nat : \A p \in Nat : p >= 1 /\ p + k > n + 1 => CookiesFit(s, name, space, p)}
<1>1. s \in Seq(Byte) /\ n \in Nat
  BY LenProperties DEF Text
<1>2. 0 \in S
  <2> SUFFICES ASSUME NEW p \in Nat, p >= 1, p + 0 > n + 1 PROVE CookiesFit(s, name, space, p)
    OBVIOUS
  <2>1. ~(p <= n + 1)
    BY <1>1
  <2> QED BY <2>1, CookiesFitFrom
<1>3. ASSUME NEW k \in Nat, k \in S PROVE k + 1 \in S
  <2> SUFFICES ASSUME NEW p \in Nat, p >= 1, p + (k + 1) > n + 1 PROVE CookiesFit(s, name, space, p)
    OBVIOUS
  <2>1. ASSUME p <= n + 1 PROVE CookiesFit(s, name, space, Find(s, p, {SEMI}) + 1)
    <3> DEFINE f == Find(s, p, {SEMI})
               q == f + 1
    <3>1. f \in Nat /\ p <= f
      BY <1>1, <2>1, FindIs
    <3> HIDE DEF f
    <3>2. q \in Nat /\ q >= 1 /\ q + k > n + 1
      BY <1>1, <3>1
    <3> HIDE DEF q
    <3>3. CookiesFit(s, name, space, q)
      BY <1>3, <3>2
    <3> QED BY <3>3 DEF q, f
  <2> QED BY <2>1, CookiesFitFrom
<1>4. Nat \subseteq S
  BY <1>2, <1>3, AllNumbers
<1>5. n + 1 \in S /\ b + (n + 1) > n + 1
  BY <1>1, <1>4
<1> QED BY <1>5

(* The whole header: the blanks before its first piece are not passed over. *)
LEMMA HeaderDecides ==
  ASSUME NEW s \in Text, NEW name \in Token, NEW space
  PROVE  FirstDecides(Trims(Pieces(s, {SEMI}), 1), name, space, CookieWalk(s, name, space, 1))
<1> DEFINE n == Len(s)
           C == {SEMI}
           b == 1
           x == PieceAt(s, C, b)
           f == Find(s, b, C)
           q == f + 1
           rest == PiecesFrom(s, C, q)
           ps == Pieces(s, C)
           ts == Trims(rest, 0)
           w == CookieWalk(s, name, space, b)
<1>1. s \in Seq(Byte) /\ n \in Nat /\ b \in Nat /\ b >= 1 /\ b <= n + 1
  BY LenProperties DEF Text
<1>2. ps = PiecesFrom(s, C, b)
  BY <1>1, PiecesAre
<1> HIDE DEF b
<1>3. /\ f \in Nat /\ rest \in Seq(Text) /\ x \in Text /\ ps = <<x>> \o rest
      /\ f = n + 1 => rest = <<>>
  BY <1>1, <1>2, PieceAndRest
<1>4. CookieAt(s, b, x) /\ b + Len(x) = f
  <2>1. StandsAt(s, b, x) /\ b + Len(x) = f /\ \A j \in 1 .. Len(x) : x[j] \notin C
    BY <1>1, PieceStands
  <2>2. f <= n => s[f] \in C
    BY <1>1, FindIs
  <2>3. \A j \in 1 .. Len(x) : x[j] # SEMI
    BY <2>1
  <2>4. f <= n => s[f] = SEMI
    BY <2>2
  <2>5. b \in Nat \ {0}
    BY <1>1
  <2> HIDE DEF x, f
  <2> QED BY <2>1, <2>3, <2>4, <2>5 DEF CookieAt
<1> HIDE DEF ps, rest, x, f
<1>5. ts \in Seq(Text) /\ (f = n + 1 => ts = <<>>)
  BY <1>3, TrimsTyped, EmptySeq
<1>6. Trims(ps, 1) = <<x>> \o ts
  <2> DEFINE k == 1
  <2>1. k \in {0, 1} /\ k = 1
    OBVIOUS
  <2> HIDE DEF k
  <2>2. Trims(<<x>> \o rest, k) = <<IF k = 1 THEN x ELSE Trim(x)>> \o Trims(rest, 0)
    BY <1>3, <2>1, TrimsOneMore
  <2>3. Trims(ps, k) = <<x>> \o ts
    BY <1>3, <2>1, <2>2
  <2> QED BY <2>3 DEF k
<1>7. FirstDecides(ts, name, space, CookieWalk(s, name, space, NextCookie(s, f)))
  <2>1. q \in Nat /\ q >= 1
    BY <1>3
  <2>2. NextCookie(s, f) = Skip(s, q, Blank) /\ rest = PiecesFrom(s, C, q)
    BY DEF NextCookie, rest
  <2> HIDE DEF q
  <2>3. CookiesFit(s, name, space, q)
    BY <2>1, CookiesAllFit
  <2> QED BY <2>2, <2>3 DEF CookiesFit
<1> HIDE DEF ts, w
<1>8. FirstDecides(<<x>> \o ts, name, space, w)
  BY <1>3, <1>4, <1>5, <1>7, DecidesMore DEF w, n
<1> QED BY <1>6, <1>8 DEF w, ps, b
-------------------------------------------------------------------------------
(* A cookie's value is that of the first piece with its name and a = sign.  *)
LEMMA CookieStaysFirstNamed == TextsRight => CookieIsFirstNamed
<1> SUFFICES ASSUME TextsRight, Answered("cookie") PROVE CookieIsFirstNamed
  BY DEF CookieIsFirstNamed
<1> DEFINE s == call.text
           name == call.name
           space == call.space
           ps == Pieces(s, {SEMI})
           ts == Trims(ps, 1)
           trimmed(i) == IF i = 1 THEN ps[1] ELSE SubSeq(ps[i], Skip(ps[i], 1, Blank), Len(ps[i]))
           mark == name \o <<EQ>>
           hits == {i \in DOMAIN ps : IsPrefix(mark, trimmed(i))}
           value == LET t == trimmed(Min(hits)) IN SubSeq(t, Len(mark) + 1, Len(t))
           r == result.string
           w == CookieWalk(s, name, space, 1)
<1>1. s \in Text /\ name \in Token /\ name \in Text /\ space \in Nat /\ space # 0
  BY Asked, CallIs, TokenIs DEF CookieCall
<1>2. r = cgiCookieString(s, name, space)
  BY Asked DEF Answer
<1> HIDE DEF s, name, space, r
<1>3. r = IF w = <<>> THEN CookieNone(space) ELSE w[1]
  BY <1>1, <1>2, CookieWalks
<1>4. FirstDecides(ts, name, space, w)
  BY <1>1, HeaderDecides
<1>5. ps \in Seq(Text) /\ Len(ps) \in Nat /\ DOMAIN ps = 1 .. Len(ps)
  BY <1>1, PiecesAre, LenProperties DEF Text
<1> HIDE DEF ps, w
<1>6. ts \in Seq(Text) /\ Len(ts) = Len(ps) /\ DOMAIN ts = DOMAIN ps
  BY <1>5, TrimsTyped
<1>7. \A i \in DOMAIN ps : ts[i] = trimmed(i) /\ ts[i] \in Text
  BY <1>5, <1>6, ElementOfSeq DEF Trims, Trim
<1> HIDE DEF ts, trimmed
<1>8. Len(mark) = Len(name) + 1 /\ Len(name) \in Nat /\ \A i \in DOMAIN ps : IsPrefix(mark, trimmed(i)) <=> Marked(name, ts[i])
  BY <1>1, <1>7, MarkIs, EmptySeq, TokenIs DEF Text
<1> HIDE DEF mark
<1>9. hits \subseteq 1 .. Len(ps) /\ \A i \in DOMAIN ps : i \in hits <=> Marked(name, ts[i])
  BY <1>5, <1>8
<1> HIDE DEF hits
<1>10. ASSUME hits # {}
       PROVE  /\ r.text = Clip(value, space) /\ r.set
              /\ r.code = "cgiFormTruncated" <=> Len(value) >= space
  <2> DEFINE m == Min(hits)
             v == ValueIn(ts[m], name)
  <2>1. m \in hits /\ \A y \in hits : m <= y
    <3>1. hits \subseteq Nat
      BY <1>5, <1>9
    <3> QED BY <1>10, <3>1, LeastOf
  <2> HIDE DEF m
  <2>2. m \in DOMAIN ps /\ Marked(name, ts[m]) /\ ts[m] = trimmed(m) /\ ts[m] \in Text
    BY <1>5, <1>7, <1>9, <2>1
  <2>3. \A j \in 1 .. m - 1 : ~Marked(name, ts[j])
    <3> SUFFICES ASSUME NEW j \in 1 .. m - 1 PROVE ~Marked(name, ts[j])
      OBVIOUS
    <3>1. j \in DOMAIN ps /\ ~(m <= j)
      BY <1>5, <2>2
    <3> QED BY <1>9, <2>1, <3>1
  <2>4. w # <<>> /\ w[1] = CookieFound(v, space)
    BY <1>4, <1>6, <2>2, <2>3 DEF FirstDecides
  <2>5. v \in Text /\ Len(v) \in Nat /\ (v = <<>> => Len(v) = 0)
    BY <1>1, <2>2, ValueTyped, LenProperties, EmptySeq DEF Text
  <2>6. value = v
    BY <1>8, <2>2 DEF ValueIn, m
  <2> HIDE DEF v
  <2>7. r = CookieFound(v, space)
    BY <1>3, <2>4
  <2>8. /\ r.text = Clip(v, space) /\ r.set = (space > 0)
        /\ r.code = IF Len(v) < space \/ v = <<>> THEN "cgiFormSuccess" ELSE "cgiFormTruncated"
    BY <2>7 DEF CookieFound
  <2>9. r.code = "cgiFormTruncated" <=> Len(v) >= space
    BY <1>1, <2>5, <2>8
  <2>10. r.set
    <3> DEFINE some == space > 0
    <3>1. some
      BY <1>1
    <3>2. r.set = some
      BY <2>8
    <3> HIDE DEF some
    <3> QED BY <3>1, <3>2, Zenon
  <2> HIDE DEF value
  <2> QED BY <2>6, <2>8, <2>9, <2>10
<1>11. ASSUME hits = {}
       PROVE  r.code = "cgiFormNotFound" /\ r.text = <<>> /\ (~r.set => trimmed(Len(ps)) = name)
  <2>1. \A i \in DOMAIN ts : ~Marked(name, ts[i])
    BY <1>6, <1>9, <1>11
  <2>2. w = <<>> \/ (w[1] = CookieBare(space) /\ ts # <<>> /\ ts[Len(ts)] = name)
    BY <1>4, <2>1 DEF FirstDecides
  <2>3. CASE w = <<>>
    <3>1. r = CookieNone(space)
      BY <1>3, <2>3
    <3>2. r.code = "cgiFormNotFound" /\ r.text = <<>> /\ r.set = (space > 0)
      BY <3>1 DEF CookieNone
    <3>3. r.set
      <4> DEFINE some == space > 0
      <4>1. some /\ r.set = some
        BY <1>1, <3>2
      <4> HIDE DEF some
      <4> QED BY <4>1, Zenon
    <3> QED BY <3>2, <3>3
  <2>4. CASE w # <<>>
    BY <1>3, <2>2, <2>4, <1>6, <1>5, <1>7, EmptySeq DEF CookieNone, CookieBare
  <2> QED BY <2>3, <2>4
<1> HIDE DEF value
<1>12. CookieIsFirstNamed <=>
         /\ hits # {} => /\ r.text = Clip(value, space)
                         /\ r.code = "cgiFormTruncated" <=> Len(value) >= space
         /\ hits = {} => r.code = "cgiFormNotFound" /\ r.text = <<>>
         /\ ~r.set => trimmed(Len(ps)) = name
  BY DEF CookieIsFirstNamed, value, hits, mark, trimmed, ps, r, s, name, space
<1> QED BY <1>10, <1>11, <1>12
-------------------------------------------------------------------------------
(* A cookie that was set is marked with its own name and no other, and      *)
(* holds its value.                                                         *)
LEMMA CookieTextIs ==
  ASSUME NEW c \in Cookie
  PROVE  LET t == CookieText(c)
         IN  /\ c.name \in Token /\ c.value \in Text
             /\ t \in Text /\ Len(t) >= 1 /\ t[1] \notin Blank
             /\ \A j \in 1 .. Len(t) : t[j] # SEMI
             /\ Marked(c.name, t) /\ ValueIn(t, c.name) = c.value
             /\ \A name \in Token : t # name /\ (Marked(name, t) => name = c.name)
<1> DEFINE name == c.name
           value == c.value
           m == Len(name)
           v == Len(value)
           mark == name \o <<EQ>>
           t == CookieText(c)
<1>1. name \in Token /\ value \in Text /\ SEMI \notin ToSet(value)
  BY DEF Cookie
<1>2. /\ name \in Text /\ m \in Nat /\ m >= 1
      /\ \A j \in 1 .. m : /\ name[j] \in Byte /\ name[j] # SEMI /\ name[j] # NUL
                           /\ name[j] # EQ /\ name[j] \notin Blank
  BY <1>1, TokenIs
<1>3. v \in Nat /\ \A j \in 1 .. v : value[j] # SEMI
  BY <1>1, LenProperties DEF Text, ToSet
<1>4. t = mark \o value
  BY DEF CookieText, SetCookie
<1> HIDE DEF name, value, t
<1>5. /\ mark \in Seq(Byte) /\ Len(mark) = m + 1
      /\ \A j \in 1 .. m : mark[j] = name[j]
      /\ mark[m + 1] = EQ
  <2> DEFINE e == <<EQ>>
  <2>1. e \in Seq(Byte) /\ Len(e) = 1 /\ e[1] = EQ
    BY DEF Byte, EQ
  <2> HIDE DEF e
  <2>2. /\ name \o e \in Seq(Byte) /\ Len(name \o e) = m + 1
        /\ \A j \in 1 .. m + 1 : (name \o e)[j] = IF j <= m THEN name[j] ELSE e[j - m]
    BY <1>2, <2>1, ConcatProperties DEF Text
  <2>3. (m + 1) - m = 1 /\ ~(m + 1 <= m) /\ m + 1 \in 1 .. m + 1
    BY <1>2
  <2>4. \A j \in 1 .. m : j \in 1 .. m + 1 /\ j <= m
    BY <1>2
  <2> QED BY <2>1, <2>2, <2>3, <2>4 DEF e
<1> HIDE DEF mark
<1>6. /\ t \in Seq(Byte) /\ Len(t) = (m + 1) + v
      /\ \A j \in 1 .. (m + 1) + v : t[j] = IF j <= m + 1 THEN mark[j] ELSE value[j - (m + 1)]
  <2> DEFINE k == Len(mark)
             l == k + Len(value)
  <2>1. mark \in Seq(Byte) /\ value \in Seq(Byte)
    BY <1>1, <1>5 DEF Text
  <2>2. /\ t \in Seq(Byte) /\ Len(t) = l
        /\ \A j \in 1 .. l : t[j] = IF j <= k THEN mark[j] ELSE value[j - k]
    BY <1>4, <2>1, ConcatProperties
  <2>3. k = m + 1 /\ l = (m + 1) + v
    BY <1>5
  <2> HIDE DEF k, l, m, v
  <2> QED BY <2>2, <2>3
<1> HIDE DEF m, v
<1>7. \A j \in 1 .. m : t[j] = name[j]
  BY <1>2, <1>3, <1>5, <1>6
<1>8. t[m + 1] = EQ
  BY <1>2, <1>3, <1>5, <1>6
<1>9. ASSUME NEW j \in 1 .. v PROVE t[(m + 1) + j] = value[j]
  BY <1>2, <1>3, <1>6
<1>10. t[1] \notin Blank /\ Len(t) >= 1
  BY <1>2, <1>3, <1>6, <1>7
<1>11. ASSUME NEW j \in 1 .. Len(t) PROVE t[j] # SEMI
  <2>1. CASE j <= m
    BY <1>2, <2>1, <1>7
  <2>2. CASE j = m + 1
    BY <1>8, <2>2 DEF EQ, SEMI
  <2>3. CASE j > m + 1
    <3> DEFINE i == j - (m + 1)
    <3>1. i \in 1 .. v /\ j = (m + 1) + i
      BY <1>2, <1>3, <1>6, <2>3
    <3> HIDE DEF i
    <3> QED BY <1>3, <1>9, <3>1
  <2> QED BY <1>2, <2>1, <2>2, <2>3
<1>12. Marked(name, t)
  BY <1>2, <1>3, <1>6, <1>7, <1>8 DEF Marked, m
<1>13. ValueIn(t, name) = value
  <2> DEFINE a == m + 2
             b == Len(t)
             u == SubSeq(t, a, b)
  <2>1. a \in Nat /\ a >= 1 /\ b \in Nat /\ b <= Len(t) /\ b = (m + 1) + v
    BY <1>2, <1>3, <1>6
  <2> HIDE DEF a, b
  <2>2. /\ u \in Seq(Byte) /\ Len(u) = (IF a <= b THEN b - a + 1 ELSE 0)
        /\ \A k \in Nat : 1 <= k /\ k <= b - a + 1 => u[k] = t[a + k - 1]
    BY <1>6, <2>1, PartOf
  <2>3. Len(u) = v
    BY <1>2, <1>3, <2>1, <2>2 DEF a
  <2>4. ASSUME NEW k \in 1 .. v PROVE u[k] = value[k]
    BY <1>2, <1>3, <2>1, <1>9, <2>2 DEF a
  <2> HIDE DEF u
  <2>5. u = value
    BY <1>1, <2>2, <2>3, <2>4, SeqEqual DEF Text, v
  <2> QED BY <2>5 DEF ValueIn, u, a, b, m
<1>14. ASSUME NEW other \in Token PROVE t # other /\ (Marked(other, t) => other = name)
  <2> DEFINE k == Len(other)
  <2>1. /\ other \in Text /\ k \in Nat /\ k >= 1
        /\ \A j \in 1 .. k : other[j] # EQ
    BY TokenIs
  <2>2. t # other
    <3> SUFFICES ASSUME t = other PROVE FALSE
      OBVIOUS
    <3>1. m + 1 \in 1 .. k
      BY <1>2, <1>3, <1>6
    <3>2. other[m + 1] = EQ
      BY <1>8
    <3> QED BY <2>1, <3>1, <3>2
  <2>3. ASSUME Marked(other, t) PROVE other = name
    <3>1. k + 1 <= Len(t) /\ t[k + 1] = EQ /\ \A j \in 1 .. k : t[j] = other[j]
      BY <2>3 DEF Marked
    <3> HIDE DEF k
    <3>2. ~(k < m)
      <4> SUFFICES ASSUME k < m PROVE FALSE
        OBVIOUS
      <4>1. k + 1 \in 1 .. m
        BY <1>2, <2>1
      <4> QED BY <1>2, <1>7, <3>1, <4>1
    <3>3. ~(m < k)
      <4> SUFFICES ASSUME m < k PROVE FALSE
        OBVIOUS
      <4>1. m + 1 \in 1 .. k
        BY <1>2, <2>1
      <4> QED BY <1>8, <2>1, <3>1, <4>1
    <3>4. k = m
      BY <1>2, <2>1, <3>2, <3>3
    <3>5. \A j \in 1 .. m : other[j] = name[j]
      BY <1>7, <3>1, <3>4
    <3> QED BY <1>2, <2>1, <3>4, <3>5, SeqEqual DEF Text, k, m
  <2> QED BY <2>2, <2>3
<1> QED BY <1>1, <1>6, <1>10, <1>11, <1>12, <1>13, <1>14 DEF Text, t, name, value
-------------------------------------------------------------------------------
(* Each cookie is a piece of the header, and the next begins behind its     *)
(* semicolon and the space.                                                 *)
LEMMA JarTurn ==
  ASSUME NEW cs \in Seq(Cookie), NEW n \in Nat, NEW d \in Text, NEW at, JarStands(cs, n, d, at),
         NEW k \in 1 .. n
  PROVE  /\ at[k] \in 1 .. Len(d) /\ CookieAt(d, at[k], CookieText(cs[k]))
         /\ k < n => NextCookie(d, at[k] + Len(CookieText(cs[k]))) = at[k + 1]
<1> DEFINE i == at[k]
           t == CookieText(cs[k])
           l == Len(t)
           e == i + l
           sep == <<SEMI, SP>>
           b == Len(d)
<1>0. PICK ts \in Seq(Text) : /\ Len(ts) = n /\ \A j \in 1 .. n : ts[j] = CookieText(cs[j])
                              /\ JoinedAt(ts, sep, d, at)
  BY DEF JarStands
<1>1. /\ t \in Text /\ l \in Nat /\ l >= 1 /\ (\A j \in 1 .. l : t[j] # SEMI)
      /\ b \in Nat
  BY ElementOfSeq, CookieTextIs, LenProperties DEF JarStands, Text
<1>2. Len(sep) = 2 /\ sep[1] = SEMI /\ sep[2] = SP
  OBVIOUS
<1> HIDE DEF sep, b
<1>3. /\ StandsAt(d, i, t) /\ at[k + 1] = i + l + 2
      /\ k < n => StandsAt(d, e, sep)
  BY <1>0, <1>2 DEF JoinedAt
<1>4. k = n => b + 1 = e
  BY <1>0, EmptySeq DEF JoinedAt, b
<1> HIDE DEF t
<1>5. i \in Nat /\ i >= 1 /\ e <= b + 1
  BY <1>3 DEF StandsAt, l, b
<1> HIDE DEF l, i
<1>6. e \in Nat /\ e = i + l /\ i \in 1 .. b
  BY <1>1, <1>5
<1> HIDE DEF e
<1>7. ASSUME k < n
      PROVE  /\ e + 2 <= b + 1 /\ d[e] = SEMI /\ d[e + 1] = SP
             /\ at[k + 1] = e + 2
             /\ e + 2 <= b /\ d[e + 2] \notin Blank
  <2> DEFINE f == e + 1
             j == k + 1
             p == at[j]
             u == CookieText(cs[j])
  <2>1. StandsAt(d, e, sep)
    BY <1>3, <1>7
  <2>2. e + 2 <= b + 1 /\ d[e + 1 - 1] = sep[1] /\ d[e + 2 - 1] = sep[2]
    BY <1>2, <2>1 DEF StandsAt, b
  <2>3. e + 1 - 1 = e /\ e + 2 - 1 = e + 1
    BY <1>6
  <2>4. p = e + 2
    BY <1>1, <1>3, <1>6
  <2>5. j \in 1 .. n
    BY <1>7
  <2> HIDE DEF j
  <2>6. u \in Text /\ Len(u) >= 1 /\ u[1] \notin Blank
    BY <2>5, ElementOfSeq, CookieTextIs DEF JarStands
  <2>7. StandsAt(d, p, u)
    BY <1>0, <2>5 DEF JoinedAt
  <2> HIDE DEF u, p
  <2>8. Len(u) \in Nat
    BY <2>6, LenProperties DEF Text
  <2>9. p + Len(u) <= b + 1 /\ d[p + 1 - 1] = u[1]
    BY <2>6, <2>7, <2>8 DEF StandsAt, b
  <2>10. p + 1 - 1 = e + 2 /\ e + 2 <= b
    BY <1>1, <1>6, <2>4, <2>6, <2>8, <2>9
  <2>11. d[e + 2] \notin Blank
    BY <2>6, <2>9, <2>10
  <2> QED BY <1>2, <2>2, <2>3, <2>4, <2>10, <2>11 DEF p, j
<1>8. e <= b => d[e] = SEMI
  BY <1>1, <1>4, <1>6, <1>7
<1>9. CookieAt(d, i, t)
  BY <1>1, <1>3, <1>5, <1>6, <1>8 DEF CookieAt, e, l, b
<1>10. ASSUME k < n PROVE NextCookie(d, e) = at[k + 1]
  <2> DEFINE f == e + 1
             g == e + 2
  <2>1. /\ f \in Nat /\ f > 0 /\ g \in Nat /\ f <= g /\ g <= b + 1
        /\ d[f] = SP /\ d[g] \notin Blank /\ at[k + 1] = g
    BY <1>6, <1>7, <1>10
  <2>2. \A j \in Nat : f <= j /\ j < g => d[j] \in Blank
    BY <1>6, <2>1 DEF Blank
  <2> HIDE DEF f, g
  <2>3. d \in Seq(Byte)
    BY DEF Text
  <2>4. Skip(d, f, Blank) = g
    BY <2>1, <2>2, <2>3, SkipFirst DEF b
  <2> QED BY <2>1, <2>4 DEF NextCookie, f
<1> QED BY <1>6, <1>9, <1>10 DEF e, i, l, t, b

(* The walk passes the other cookies and answers with the value that was    *)
(* set.                                                                     *)
LEMMA JarComesBack ==
  ASSUME NEW cs \in Seq(Cookie), NEW n \in Nat, NEW d \in Text, NEW at, JarStands(cs, n, d, at),
         IsInjective([j \in DOMAIN cs |-> cs[j].name]), NEW i \in 1 .. n, NEW space
  PROVE  cgiCookieString(d, cs[i].name, space) = CookieFound(cs[i].value, space)
<1> DEFINE name == cs[i].name
           W(c) == CookieWalk(d, name, space, c)
           found == CookieFound(cs[i].value, space)
           rest == NextCookie(d, at[i] + Len(CookieText(cs[i])))
<1>1. at[1] = 1 /\ Len(cs) = n /\ DOMAIN cs = 1 .. n /\ \A k \in 1 .. n : cs[k] \in Cookie
  BY ElementOfSeq, LenProperties DEF JarStands, JoinedAt
<1>2. \A k \in 1 .. n : cs[k].name = name => k = i
  <2> DEFINE f == [j \in DOMAIN cs |-> cs[j].name]
  <2>1. DOMAIN f = 1 .. n /\ \A k \in 1 .. n : f[k] = cs[k].name
    BY <1>1
  <2> HIDE DEF f
  <2>2. IsInjective(f)
    BY DEF f
  <2> QED BY <2>1, <2>2 DEF IsInjective
<1>3. name \in Token /\ name \in Text
  BY <1>1, CookieTextIs, TokenIs
<1>4. PICK R : \A c \in Nat : W(c) \in Seq(R)
  BY <1>3, CookieWalkTyped
<1>5. ASSUME NEW k \in 1 .. n
      PROVE  LET t == CookieText(cs[k])
                 c == NextCookie(d, at[k] + Len(t))
             IN  /\ W(at[k]) = (IF Marked(name, t) THEN <<CookieFound(ValueIn(t, name), space)>> ELSE <<>>) \o W(c)
                 /\ at[k] \in Nat
                 /\ Marked(name, t) => k = i
  <2> DEFINE t == CookieText(cs[k])
  <2>1. t \in Text /\ t # name /\ (Marked(name, t) => name = cs[k].name)
    BY <1>1, <1>3, CookieTextIs
  <2>2. at[k] \in 1 .. Len(d) /\ CookieAt(d, at[k], t)
    BY JarTurn
  <2>3. Len(d) \in Nat
    BY LenProperties DEF Text
  <2>4. at[k] \in Nat /\ at[k] <= Len(d)
    BY <2>2, <2>3
  <2> HIDE DEF t, name
  <2>5. ~Bare(d, at[k], t, name)
    BY <2>1 DEF Bare
  <2>6. W(at[k]) = (IF Bare(d, at[k], t, name) THEN <<CookieBare(space)>>
                    ELSE IF Marked(name, t) THEN <<CookieFound(ValueIn(t, name), space)>> ELSE <<>>)
                   \o W(NextCookie(d, at[k] + Len(t)))
    <3> DEFINE p == at[k]
    <3>1. CookieAt(d, p, t) /\ p <= Len(d)
      BY <2>2, <2>4
    <3> HIDE DEF p
    <3> QED BY <1>3, <2>1, <3>1, CookieTurn DEF p
  <2>7. W(at[k]) = (IF Marked(name, t) THEN <<CookieFound(ValueIn(t, name), space)>> ELSE <<>>)
                   \o W(NextCookie(d, at[k] + Len(t)))
    BY <2>5, <2>6
  <2>8. Marked(name, t) => k = i
    BY <1>2, <2>1
  <2> QED BY <2>4, <2>7, <2>8 DEF t
<1>6. W(at[i]) = <<found>> \o W(rest)
  <2> DEFINE t == CookieText(cs[i])
  <2>1. Marked(name, t) /\ ValueIn(t, name) = cs[i].value
    BY <1>1, CookieTextIs
  <2> HIDE DEF W, name
  <2> QED BY <1>5, <2>1
<1> DEFINE S == {k \in Nat : k + 1 <= i => W(1) = W(at[k + 1])}
<1>7. 0 \in S
  BY <1>1
<1>8. ASSUME NEW k \in Nat, k \in S PROVE k + 1 \in S
  <2> DEFINE j == k + 1
             l == j + 1
  <2> SUFFICES ASSUME l <= i PROVE W(1) = W(at[l])
    OBVIOUS
  <2>1. j \in 1 .. n /\ j < n /\ j # i /\ l \in 1 .. n
    OBVIOUS
  <2>2. W(1) = W(at[j])
    BY <1>8
  <2>3. NextCookie(d, at[j] + Len(CookieText(cs[j]))) = at[l]
    BY <2>1, JarTurn DEF l
  <2> HIDE DEF j, l, W
  <2>4. W(at[j]) = <<>> \o W(at[l])
    BY <1>5, <2>1, <2>3
  <2>5. W(at[l]) \in Seq(R)
    BY <1>4, <1>5, <2>1
  <2>6. <<>> \o W(at[l]) = W(at[l])
    BY <2>5, ConcatEmptySeq
  <2> QED BY <2>2, <2>4, <2>6
<1>9. Nat \subseteq S
  BY <1>7, <1>8, AllNumbers
<1>10. W(1) = W(at[i])
  <2> DEFINE k == i - 1
  <2>1. k \in Nat /\ k + 1 = i /\ k + 1 <= i
    OBVIOUS
  <2>2. k \in S
    BY <1>9, <2>1
  <2> HIDE DEF W, k
  <2> QED BY <2>1, <2>2
<1> HIDE DEF S
<1>11. W(1) # <<>> /\ W(1)[1] = found
  <2> DEFINE v == W(rest)
             w == W(1)
  <2>1. w = <<found>> \o v
    BY <1>6, <1>10
  <2>2. rest \in Nat
    <3>1. at[i] \in 1 .. Len(d) /\ Len(d) \in Nat
      BY JarTurn, LenProperties DEF Text
    <3>2. CookieText(cs[i]) \in Text
      BY <1>1, CookieTextIs
    <3> DEFINE f == at[i] + Len(CookieText(cs[i]))
               g == f + 1
    <3>3. f \in Nat
      BY <3>1, <3>2, LenProperties DEF Text
    <3> HIDE DEF f
    <3>4. g \in Nat /\ g > 0
      BY <3>3
    <3> HIDE DEF g
    <3>5. Skip(d, g, Blank) \in Nat
      BY <3>4, SkipIs DEF Text
    <3> QED BY <3>5 DEF NextCookie, f, g
  <2>3. v \in Seq(R)
    BY <1>4, <2>2
  <2> HIDE DEF w, v
  <2> DEFINE T == R \cup {found}
  <2>4. v \in Seq(T) /\ found \in T
    BY <2>3
  <2> HIDE DEF T, found
  <2>5. Len(w) = Len(v) + 1 /\ w[1] = found
    BY <2>1, <2>4, OneMore
  <2>6. w # <<>>
    BY <2>4, <2>5, LenProperties, EmptySeq
  <2> QED BY <2>5, <2>6 DEF w
<1>12. cgiCookieString(d, name, space) = IF W(1) = <<>> THEN CookieNone(space) ELSE W(1)[1]
  BY <1>3, CookieWalks
<1> QED BY <1>11, <1>12
-------------------------------------------------------------------------------
(* Cookies that were set come back.                                         *)
LEMMA CookiesStayBack == TextsRight => CookiesComeBack
<1> SUFFICES ASSUME TextsRight, Answered("jar"),
                    IsInjective([i \in DOMAIN call.cookies |-> call.cookies[i].name]),
                    NEW i \in DOMAIN call.cookies
             PROVE  result[i] = Clip(call.cookies[i].value, call.space)
  BY DEF CookiesComeBack
<1> DEFINE cs == call.cookies
           n == Len(cs)
           space == call.space
           sep == <<SEMI, SP>>
           ts == [j \in DOMAIN cs |-> SetCookie(cs[j].name, cs[j].value)]
           d == Joined(ts, sep)
           T == Text
<1>1. cs \in Seq(Cookie)
  BY Asked, CallIs DEF JarCall
<1>2. result[i] = cgiCookieString(d, cs[i].name, space).text
  BY Asked DEF Answer, cs
<1> HIDE DEF cs, space
<1>3. n \in Nat /\ DOMAIN cs = 1 .. n /\ \A k \in 1 .. n : cs[k] \in Cookie
  BY <1>1, LenProperties, ElementOfSeq
<1>4. \A k \in 1 .. n : ts[k] = CookieText(cs[k]) /\ ts[k] \in T
  BY <1>3, CookieTextIs DEF CookieText
<1>5. ts \in Seq(T) /\ Len(ts) = n
  BY <1>3, <1>4, ASequence
<1>6. sep \in Text
  BY DEF Text, Byte, SEMI, SP
<1> HIDE DEF ts, sep
<1>7. d \in Text /\ \E at : JoinedAt(ts, sep, d, at)
  BY <1>5, <1>6, JoinedIs DEF Text
<1> HIDE DEF d
<1>8. PICK at : JoinedAt(ts, sep, d, at)
  BY <1>7
<1>9. JarStands(cs, n, d, at)
  BY <1>4, <1>5, <1>8 DEF JarStands, sep
<1> HIDE DEF n
<1>10. i \in 1 .. n /\ IsInjective([j \in DOMAIN cs |-> cs[j].name])
  BY <1>3 DEF cs
<1>11. cgiCookieString(d, cs[i].name, space) = CookieFound(cs[i].value, space)
  BY <1>1, <1>3, <1>7, <1>9, <1>10, JarComesBack
<1>12. result[i] = Clip(cs[i].value, space)
  BY <1>2, <1>11 DEF CookieFound
<1> QED BY <1>12 DEF cs, space
-------------------------------------------------------------------------------
(* cgiCookies lists what that walk puts out.                                *)
LEMMA NamesWalk ==
  ASSUME NEW s \in Text
  PROVE  /\ cgiCookies(s).names = NamesFrom(s, 1) /\ Forward(NamesNext(s), Len(s))
         /\ \A i \in 1 .. Len(s) : NamesOut(s)[i] = <<>> \/ \E x \in Seq(Byte) : NamesOut(s)[i] = <<x>>
         /\ \A i \in Nat : NamesFrom(s, i) \in Seq(Seq(Byte))
<1> DEFINE l == Len(s)
           D == 1 .. l
           n == [i \in D |-> Skip(s, i, Blank)]
           eq == [i \in D |-> Find(s, n[i], {EQ})]
           next == [i \in D |-> Find(s, eq[i], {SEMI}) + 1]
           out == [i \in D |-> IF eq[i] = n[i] THEN <<>> ELSE <<SubSeq(s, n[i], eq[i] - 1)>>]
           R == Seq(Byte)
<1>1. s \in Seq(Byte) /\ l \in Nat /\ DOMAIN s = D
  BY LenProperties DEF Text
<1>2. cgiCookies(s).names = Walk(next, out, 1)
  BY <1>1 DEF cgiCookies
<1>3. \A i \in D : n[i] = NameAt(s, i) /\ eq[i] = NameEnd(s, i)
  BY DEF NameAt, NameEnd
<1> HIDE DEF n, eq
<1>4. next = NamesNext(s) /\ out = NamesOut(s)
  BY <1>3 DEF NamesNext, NamesOut
<1> HIDE DEF next, out
<1>5. ASSUME NEW i \in D
      PROVE  /\ NameAt(s, i) \in Nat /\ i <= NameAt(s, i) /\ NameAt(s, i) <= l + 1
             /\ NameEnd(s, i) \in Nat /\ i <= NameEnd(s, i) /\ NameEnd(s, i) <= l + 1
             /\ Find(s, NameEnd(s, i), {SEMI}) \in Nat /\ i <= Find(s, NameEnd(s, i), {SEMI})
  <2> DEFINE a == NameAt(s, i)
             b == NameEnd(s, i)
             f == Find(s, b, {SEMI})
  <2>1. i \in Nat /\ i > 0 /\ i <= l + 1
    BY <1>1
  <2>2. a \in Nat /\ i <= a /\ a <= l + 1
    BY <1>1, <2>1, SkipIs DEF NameAt
  <2> HIDE DEF a
  <2>3. b \in Nat /\ a <= b /\ b <= l + 1
    BY <1>1, <2>2, FindIs DEF NameEnd, a
  <2> HIDE DEF b
  <2>4. f \in Nat /\ b <= f
    BY <1>1, <2>3, FindIs
  <2> HIDE DEF f
  <2> QED BY <2>1, <2>2, <2>3, <2>4 DEF a, b, f
<1>6. ASSUME NEW i \in D PROVE NamesNext(s)[i] \in Nat /\ NamesNext(s)[i] > i
  <2>1. NamesNext(s)[i] = Find(s, NameEnd(s, i), {SEMI}) + 1
    BY DEF NamesNext
  <2> DEFINE f == Find(s, NameEnd(s, i), {SEMI})
             g == NamesNext(s)[i]
  <2>2. f \in Nat /\ i <= f /\ i \in Nat
    <3>1. f \in Nat /\ i <= f
      BY <1>5
    <3>2. i \in Nat
      BY <1>1
    <3> HIDE DEF f
    <3> QED BY <3>1, <3>2
  <2>3. g = f + 1
    BY <2>1
  <2> HIDE DEF f, g
  <2>4. g \in Nat /\ g > i
    BY <2>2, <2>3
  <2> QED BY <2>4 DEF g
<1>7. ASSUME NEW i \in D PROVE NamesOut(s)[i] = <<>> \/ \E x \in R : NamesOut(s)[i] = <<x>>
  <2> DEFINE a == NameAt(s, i)
             b == NameEnd(s, i)
             j == b - 1
             x == SubSeq(s, a, j)
  <2>1. NamesOut(s)[i] = IF b = a THEN <<>> ELSE <<x>>
    BY DEF NamesOut
  <2>2. x \in R
    BY <1>1, <1>5, PartOf
  <2> HIDE DEF a, b, x
  <2> QED BY <2>1, <2>2
<1>8. Forward(NamesNext(s), l)
  BY <1>6 DEF NamesNext, Forward
<1>9. \A i \in D : NamesOut(s)[i] \in Seq(R)
  <2> SUFFICES ASSUME NEW i \in D PROVE NamesOut(s)[i] \in Seq(R)
    OBVIOUS
  <2> HIDE DEF R
  <2>1. CASE NamesOut(s)[i] = <<>>
    BY <2>1, EmptySeq
  <2>2. ASSUME NEW x \in R, NamesOut(s)[i] = <<x>> PROVE NamesOut(s)[i] \in Seq(R)
    BY <2>2
  <2> QED BY <1>7, <2>1, <2>2
<1> HIDE DEF R
<1>10. \A i \in Nat : NamesFrom(s, i) \in Seq(R)
  BY <1>1, <1>8, <1>9, WalkTyped DEF NamesFrom
<1> QED BY <1>2, <1>4, <1>7, <1>8, <1>10 DEF NamesFrom, R
-------------------------------------------------------------------------------
(* Behind a = sign there is one less.                                       *)
LEMMA SignsMore ==
  ASSUME NEW s \in Text, NEW b \in Nat, NEW f \in Nat, b <= f, NEW q \in Nat, b <= q, q < f, q <= Len(s), s[q] = EQ
  PROVE  /\ Cardinality(Signs(s, b)) \in Nat /\ Cardinality(Signs(s, f)) \in Nat
         /\ Cardinality(Signs(s, f)) + 1 <= Cardinality(Signs(s, b))
<1> DEFINE n == Len(s)
           B == Signs(s, b)
           F == Signs(s, f)
           G == F \cup {q}
<1>1. n \in Nat
  BY LenProperties DEF Text
<1>2. IsFiniteSet(b .. n) /\ IsFiniteSet(f .. n)
  <2>1. b \in Int /\ f \in Int /\ n \in Int
    BY <1>1
  <2> QED BY <2>1, FS_Interval
<1>3. IsFiniteSet(B) /\ IsFiniteSet(F)
  BY <1>2, FS_Subset DEF Signs
<1>4. q \notin F /\ G \in SUBSET B
  BY <1>1 DEF Signs
<1> HIDE DEF B, F
<1>5. IsFiniteSet(G) /\ Cardinality(G) = Cardinality(F) + 1
  BY <1>3, <1>4, FS_AddElement
<1> HIDE DEF G
<1>6. Cardinality(G) <= Cardinality(B)
  BY <1>3, <1>4, FS_Subset
<1>7. Cardinality(B) \in Nat /\ Cardinality(F) \in Nat
  BY <1>3, FS_CardinalityType
<1> QED BY <1>5, <1>6, <1>7 DEF B, F

(* If all pieces have a = sign, the first has one and all the others do.    *)
LEMMA HaveSignsMore ==
  ASSUME NEW x \in Text, NEW ps \in Seq(Text), HaveSigns(<<x>> \o ps)
  PROVE  HaveSigns(ps) /\ \E j \in 1 .. Len(x) : x[j] = EQ
<1> DEFINE qs == <<x>> \o ps
           l == Len(ps)
<1>1. qs \in Seq(Text) /\ Len(qs) = l + 1 /\ l \in Nat /\ qs[1] = x /\ \A i \in 1 .. l : qs[i + 1] = ps[i]
  BY OneMore
<1> HIDE DEF qs
<1>2. DOMAIN qs = 1 .. l + 1 /\ DOMAIN ps = 1 .. l /\ DOMAIN x = 1 .. Len(x)
  BY <1>1, LenProperties DEF Text
<1> HIDE DEF l
<1>3. \A i \in 1 .. l + 1 : EQ \in ToSet(qs[i])
  BY <1>2 DEF HaveSigns, ToSet, qs
<1>4. HaveSigns(ps)
  <2> SUFFICES ASSUME NEW i \in 1 .. l PROVE EQ \in ToSet(ps[i])
    BY <1>2 DEF HaveSigns, ToSet
  <2> DEFINE k == i + 1
  <2>1. k \in 1 .. l + 1 /\ qs[k] = ps[i]
    BY <1>1
  <2> HIDE DEF k
  <2> QED BY <1>3, <2>1
<1>5. EQ \in ToSet(x)
  BY <1>1, <1>3
<1>6. \E j \in 1 .. Len(x) : x[j] = EQ
  BY <1>2, <1>5 DEF ToSet
<1> QED BY <1>4, <1>6

(* From a place on there are no more names than = signs, if so it is behind *)
(* the next semicolon.                                                      *)
LEMMA NamesFitFrom ==
  ASSUME NEW s \in Text, NEW b \in Nat, b >= 1,
         b <= Len(s) + 1 => NamesFit(s, Find(s, b, {SEMI}) + 1)
  PROVE  NamesFit(s, b)
<1> DEFINE n == Len(s)
           C == {SEMI}
           ps == PiecesFrom(s, C, b)
           w == NamesFrom(s, b)
<1>1. s \in Seq(Byte) /\ n \in Nat /\ Forward(NamesNext(s), n)
  BY NamesWalk, LenProperties DEF Text
<1> SUFFICES ASSUME HaveSigns(ps) PROVE Len(w) <= Cardinality(Signs(s, b))
  BY DEF NamesFit
<1>2. CASE b > n + 1
  <2>1. w = <<>>
    <3>1. b \notin 1 .. n
      BY <1>1, <1>2
    <3> HIDE DEF n
    <3> QED BY <1>1, <3>1, WalkStep DEF NamesFrom
  <2>2. Signs(s, b) = {}
    BY <1>1, <1>2 DEF Signs
  <2>3. Len(w) = 0 /\ Cardinality(Signs(s, b)) = 0
    BY <2>1, <2>2, EmptySeq, FS_EmptySet
  <2> HIDE DEF w
  <2> QED BY <2>3
<1>3. CASE b <= n + 1
  <2> DEFINE x == PieceAt(s, C, b)
             f == Find(s, b, C)
             g == f + 1
             rest == PiecesFrom(s, C, g)
             v == NamesFrom(s, g)
  <2>1. /\ f \in Nat /\ f <= n + 1 /\ rest \in Seq(Text) /\ x \in Text /\ ps = <<x>> \o rest
    BY <1>3, PieceAndRest
  <2>2. StandsAt(s, b, x) /\ b + Len(x) = f
    BY <1>1, <1>3, PieceStands
  <2> HIDE DEF rest, x, ps, n
  <2>3. HaveSigns(rest) /\ \E j \in 1 .. Len(x) : x[j] = EQ
    BY <2>1, HaveSignsMore
  <2>4. PICK q \in Nat : b <= q /\ q < f /\ s[q] = EQ
    <3>1. PICK j \in 1 .. Len(x) : x[j] = EQ
      BY <2>3
    <3> DEFINE k == b + j - 1
    <3>2. Len(x) \in Nat
      BY <2>1, LenProperties DEF Text
    <3>3. s[k] = EQ
      BY <2>2, <3>1 DEF StandsAt
    <3> HIDE DEF f
    <3>4. k \in Nat /\ b <= k /\ k < f
      BY <2>1, <2>2, <3>2
    <3> HIDE DEF k
    <3> QED BY <3>3, <3>4
  <2>5. \A p \in Nat : b <= p /\ p < f => s[p] # SEMI
    <3> SUFFICES ASSUME NEW p \in Nat, b <= p, p < f PROVE s[p] # SEMI
      OBVIOUS
    <3>1. \A j \in b .. n : j < f => s[j] \notin C
      BY <1>1, FindIs DEF n
    <3> HIDE DEF f
    <3>2. p \in b .. n
      BY <1>1, <2>1
    <3> QED BY <3>1, <3>2
  <2>6. f <= n => s[f] = SEMI
    BY <1>1, FindIs DEF n
  <2> HIDE DEF f
  <2>7. b \in 1 .. n /\ q <= n /\ g \in Nat
    BY <1>1, <2>1, <2>4
  <2> DEFINE a == NameAt(s, b)
             e == NameEnd(s, b)
  <2>8. a \in Nat /\ b <= a /\ a <= q
    <3>1. /\ a \in Nat /\ b <= a /\ a <= n + 1
          /\ \A j \in b .. n : j < a => s[j] \in Blank
      BY <1>1, <2>7, SkipIs DEF NameAt, n
    <3> HIDE DEF a
    <3>2. ~(q < a)
      <4> SUFFICES ASSUME q < a PROVE FALSE
        OBVIOUS
      <4>1. q \in b .. n
        BY <1>1, <2>4, <2>7
      <4>2. s[q] \in Blank
        BY <3>1, <4>1
      <4> QED BY <2>4, <4>2 DEF Blank, EQ, TAB, LF, VT, FF, CR, SP
    <3> QED BY <3>1, <3>2, <2>4
  <2> HIDE DEF a
  <2>9. e \in Nat /\ b <= e /\ e <= q
    <3>1. /\ e \in Nat /\ a <= e
          /\ \A j \in a .. n : j < e => s[j] \notin {EQ}
      BY <1>1, <2>7, <2>8, FindIs DEF NameEnd, a, n
    <3> HIDE DEF e
    <3>2. ~(q < e)
      <4> SUFFICES ASSUME q < e PROVE FALSE
        OBVIOUS
      <4>1. q \in a .. n
        BY <1>1, <2>7, <2>8
      <4> QED BY <2>4, <3>1, <4>1
    <3> QED BY <2>8, <3>1, <3>2
  <2> HIDE DEF e
  <2>10. Find(s, e, {SEMI}) = f
    <3>1. e <= f /\ f <= Len(s) + 1
      BY <2>1, <2>4, <2>9 DEF n
    <3>2. \A p \in Nat : e <= p /\ p < f => s[p] \notin {SEMI}
      BY <2>5, <2>9
    <3> QED BY <1>1, <2>1, <2>6, <2>9, <3>1, <3>2, FindFirst DEF n
  <2>11. NamesNext(s)[b] = g
    BY <2>7, <2>10 DEF NamesNext, e, n
  <2>12. w = NamesOut(s)[b] \o v
    BY <1>1, <2>7, <2>11, WalkStep DEF NamesFrom
  <2>13. v \in Seq(Seq(Byte)) /\ Len(v) \in Nat
    BY <2>7, NamesWalk, LenProperties
  <2>14. NamesFit(s, g)
    BY <1>3 DEF f, n
  <2>15. Len(v) <= Cardinality(Signs(s, g))
    BY <2>3, <2>14 DEF NamesFit, rest
  <2>16. Len(w) <= Len(v) + 1
    <3>1. NamesOut(s)[b] = <<>> \/ \E y \in Seq(Byte) : NamesOut(s)[b] = <<y>>
      BY <2>7, NamesWalk DEF n
    <3> HIDE DEF v, w
    <3>2. CASE NamesOut(s)[b] = <<>>
      BY <2>12, <2>13, <3>2, ConcatEmptySeq
    <3>3. ASSUME NEW y \in Seq(Byte), NamesOut(s)[b] = <<y>> PROVE Len(w) <= Len(v) + 1
      BY <2>13, <2>12, <3>3, OneMore
    <3> QED BY <3>1, <3>2, <3>3
  <2> HIDE DEF v
  <2>17. Len(w) \in Nat
    BY NamesWalk, LenProperties
  <2> HIDE DEF w
  <2>18. /\ Cardinality(Signs(s, b)) \in Nat /\ Cardinality(Signs(s, g)) \in Nat
         /\ Cardinality(Signs(s, g)) + 1 <= Cardinality(Signs(s, b))
    <3>1. b <= g /\ q < g
      BY <2>1, <2>4
    <3> HIDE DEF g
    <3> QED BY <2>4, <2>7, <3>1, SignsMore DEF n
  <2> HIDE DEF g
  <2> QED BY <2>13, <2>15, <2>16, <2>17, <2>18
<1> QED BY <1>1, <1>2, <1>3

(* So it is from every place on.                                            *)
LEMMA NamesAllFit ==
  ASSUME NEW s \in Text, NEW b \in Nat, b >= 1 PROVE NamesFit(s, b)
<1> DEFINE n == Len(s)
           S == {k \in Nat : \A p \in Nat : p >= 1 /\ p + k > n + 1 => NamesFit(s, p)}
<1>1. s \in Seq(Byte) /\ n \in Nat
  BY LenProperties DEF Text
<1>2. 0 \in S
  <2> SUFFICES ASSUME NEW p \in Nat, p >= 1, p + 0 > n + 1 PROVE NamesFit(s, p)
    OBVIOUS
  <2>1. ~(p <= n + 1)
    BY <1>1
  <2> QED BY <2>1, NamesFitFrom
<1>3. ASSUME NEW k \in Nat, k \in S PROVE k + 1 \in S
  <2> SUFFICES ASSUME NEW p \in Nat, p >= 1, p + (k + 1) > n + 1 PROVE NamesFit(s, p)
    OBVIOUS
  <2>1. ASSUME p <= n + 1 PROVE NamesFit(s, Find(s, p, {SEMI}) + 1)
    <3> DEFINE f == Find(s, p, {SEMI})
               q == f + 1
    <3>1. f \in Nat /\ p <= f
      BY <1>1, <2>1, FindIs
    <3> HIDE DEF f
    <3>2. q \in Nat /\ q >= 1 /\ q + k > n + 1
      BY <1>1, <3>1
    <3> HIDE DEF q
    <3>3. NamesFit(s, q)
      BY <1>3, <3>2
    <3> QED BY <3>3 DEF q, f
  <2> QED BY <2>1, NamesFitFrom
<1>4. Nat \subseteq S
  BY <1>2, <1>3, AllNumbers
<1>5. n + 1 \in S /\ b + (n + 1) > n + 1
  BY <1>1, <1>4
<1> QED BY <1>5

(* The array of the names has a place for its null pointer.                 *)
LEMMA CookieNamesStayEnded == TextsRight => CookieNamesEnd
<1> SUFFICES ASSUME TextsRight, Answered("cookie"),
                    \A p \in ToSet(Pieces(call.text, {SEMI})) : EQ \in ToSet(p)
             PROVE  Len(result.names.names) <= result.names.total
  BY DEF CookieNamesEnd
<1> DEFINE s == call.text
<1>1. s \in Text
  BY Asked, CallIs DEF CookieCall
<1>2. result.names = cgiCookies(s)
  BY Asked DEF Answer
<1>3. HaveSigns(Pieces(s, {SEMI}))
  BY DEF HaveSigns
<1> HIDE DEF s
<1>4. Pieces(s, {SEMI}) = PiecesFrom(s, {SEMI}, 1)
  BY <1>1, PiecesAre DEF Text
<1>5. NamesFit(s, 1)
  BY <1>1, NamesAllFit
<1>6. cgiCookies(s).names = NamesFrom(s, 1)
  BY <1>1, NamesWalk
<1>7. cgiCookies(s).total = Cardinality(Signs(s, 1))
  BY <1>1, LenProperties DEF Text, cgiCookies, Total, Signs
<1> QED BY <1>2, <1>3, <1>4, <1>5, <1>6, <1>7 DEF NamesFit

(* Cookies are told apart by their whole names, and all of them are listed. *)
THEOREM CookiesAreAlwaysRead == Spec => []CookiesAreRead
<1>1. TextsRight => CookiesAreRead
  BY CookieStaysFirstNamed, CookiesStayBack, CookieNamesStayEnded DEF CookiesAreRead
<1> QED BY <1>1, TextsAreRight, PTL
-------------------------------------------------------------------------------
(* main finds the boundary by that walk, which goes forward.                *)
LEMMA TypeWalk ==
  ASSUME NEW s \in Text, NEW raw, NEW space, Clip(raw, space) = s
  PROVE  /\ BoundaryOf(raw, space) = [type |-> SubSeq(s, 1, Find(s, 1, {SEMI}) - 1),
                                      boundary |-> TypeFrom(s, Find(s, 1, {SEMI}))]
         /\ Forward(TypeNext(s), Len(s))
         /\ \A a \in 1 .. Len(s) : TypeParam(s, a) \in Nat /\ a < TypeParam(s, a) /\ TypeParam(s, a) <= Len(s) + 1
<1> DEFINE l == Len(s)
           D == 1 .. l
           first == Find(s, 1, {SEMI})
           param == [at \in D |-> Skip(s, at + 1, Blank)]
           named(at) == BoundaryNamed(s, param[at])
           text(p) == SubSeq(s, p + 2, Find(s, p + 2, Blank) - 1)
           next == [at \in D |-> IF named(at) THEN Len(s) + 1 ELSE Find(s, param[at], {SEMI})]
           out == [at \in D |-> IF named(at) THEN text(param[at]) ELSE <<>>]
<1>1. s \in Seq(Byte) /\ l \in Nat /\ DOMAIN s = D
  BY LenProperties DEF Text
<1>2. BoundaryOf(raw, space) = [type |-> SubSeq(s, 1, first - 1), boundary |-> Walk(next, out, first)]
  BY <1>1 DEF BoundaryOf
<1>3. \A a \in D : param[a] = TypeParam(s, a)
  BY DEF TypeParam
<1>4. next = TypeNext(s)
  BY <1>3 DEF TypeNext
<1>5. out = TypeOut(s)
  BY <1>3 DEF TypeOut, BoundaryText
<1> HIDE DEF next, out, first
<1>6. ASSUME NEW a \in D PROVE TypeParam(s, a) \in Nat /\ a < TypeParam(s, a) /\ TypeParam(s, a) <= l + 1
  <2> DEFINE i == a + 1
             p == Skip(s, i, Blank)
  <2>1. i \in Nat /\ i > 0 /\ i <= l + 1 /\ a \in Nat
    BY <1>1
  <2> HIDE DEF i
  <2>2. p \in Nat /\ i <= p /\ p <= l + 1
    BY <1>1, <2>1, SkipIs
  <2>3. a < i
    BY <2>1 DEF i
  <2> HIDE DEF p
  <2>4. a < p
    BY <2>1, <2>2, <2>3
  <2> QED BY <2>2, <2>4 DEF TypeParam, p, i
<1>7. ASSUME NEW a \in D PROVE TypeNext(s)[a] \in Nat /\ TypeNext(s)[a] > a
  <2> DEFINE p == TypeParam(s, a)
             f == Find(s, p, {SEMI})
             g == TypeNext(s)[a]
  <2>1. p \in Nat /\ a < p /\ p <= l + 1
    BY <1>6
  <2>2. g = IF BoundaryNamed(s, p) THEN l + 1 ELSE f
    BY DEF TypeNext
  <2> HIDE DEF p
  <2>3. f \in Nat /\ p <= f
    BY <1>1, <2>1, FindIs
  <2> HIDE DEF f, g, l
  <2>4. a \in Nat /\ l + 1 > a /\ f > a
    BY <1>1, <2>1, <2>3
  <2>5. g = l + 1 \/ g = f
    BY <2>2
  <2>6. g \in Nat /\ g > a
    BY <1>1, <2>3, <2>4, <2>5
  <2> QED BY <2>6 DEF g
<1>8. Forward(TypeNext(s), l)
  BY <1>7 DEF TypeNext, Forward
<1> QED BY <1>2, <1>4, <1>5, <1>6, <1>8 DEF TypeFrom, first
-------------------------------------------------------------------------------
(* At a parameter that is not the boundary the walk goes on to the next     *)
(* semicolon.                                                               *)
LEMMA PlainTurn ==
  ASSUME NEW s \in Text, NEW a, NEW p, NEW t \in Text, ParamAt(s, a, p, t), Plain(t),
         NEW e \in Nat, e = p + Len(t), e <= Len(s), s[e] = SEMI
  PROVE  TypeNext(s)[a] = e /\ TypeOut(s)[a] = <<>>
<1> DEFINE n == Len(s)
           l == Len(t)
           q == Skip(t, 1, Blank)
           r == p + q - 1
           i == a + 1
<1>1. /\ s \in Seq(Byte) /\ t \in Seq(Byte) /\ n \in Nat /\ l \in Nat /\ DOMAIN t = 1 .. l /\ DOMAIN s = 1 .. n
      /\ a \in Nat /\ a >= 1 /\ a <= n /\ p \in Nat /\ a < p /\ e = p + l /\ e <= n
      /\ \A j \in 1 .. l : s[p + j - 1] = t[j]
      /\ \A j \in Nat : a < j /\ j < p => s[j] \in Blank
  BY LenProperties DEF Text, ParamAt, StandsAt
<1>2. /\ q \in Nat /\ 1 <= q /\ q <= l + 1
      /\ \A j \in 1 .. l : j < q => t[j] \in Blank
      /\ q <= l => t[q] \notin Blank
  BY <1>1, SkipIs
<1>3. (\A j \in 1 .. l : t[j] # SEMI) /\ ~BoundaryNamed(t, q)
  BY <1>1 DEF Plain, ToSet
<1> HIDE DEF n, l, q
<1>4. r \in Nat /\ p <= r /\ r <= e /\ i \in Nat /\ i > 0 /\ i <= p /\ (q <= l <=> r < e)
  BY <1>1, <1>2
<1>5. ASSUME NEW j \in Nat, i <= j, j < r PROVE s[j] \in Blank
  <2>1. CASE j < p
    BY <1>1, <1>5, <2>1
  <2>2. CASE p <= j
    <3> DEFINE k == j - p + 1
    <3>1. k \in 1 .. l /\ k < q /\ p + k - 1 = j
      BY <1>1, <1>2, <1>5, <2>2
    <3> HIDE DEF k
    <3> QED BY <1>1, <1>2, <3>1
  <2> QED BY <1>1, <2>1, <2>2
<1>6. s[r] \notin Blank
  <2>1. SEMI \notin Blank
    BY DEF SEMI, Blank, TAB, LF, VT, FF, CR, SP
  <2>2. q <= l => s[r] = t[q]
    BY <1>1, <1>2
  <2>3. ~(q <= l) => s[r] = SEMI
    BY <1>1, <1>2
  <2> QED BY <1>2, <2>1, <2>2, <2>3
<1> HIDE DEF r, i
<1>7. TypeParam(s, a) = r
  <2>1. r <= Len(s) + 1
    BY <1>1, <1>4 DEF n
  <2>2. Skip(s, i, Blank) = r
    BY <1>5, <1>1, <1>4, <1>6, <2>1, SkipFirst
  <2> QED BY <2>2 DEF TypeParam, i
<1>8. ~BoundaryNamed(s, r)
  <2> SUFFICES ASSUME tolower(At(s, r)) = 98, At(s, r + 1) = EQ PROVE FALSE
    BY DEF BoundaryNamed
  <2>1. r \in 1 .. n /\ At(s, r) = s[r]
    BY <1>1, <1>4 DEF At
  <2>2. q <= l
    <3> SUFFICES ASSUME ~(q <= l) PROVE FALSE
      OBVIOUS
    <3>1. r = e
      BY <1>1, <1>4
    <3>2. At(s, r) = SEMI
      BY <2>1, <3>1
    <3> QED BY <3>2 DEF tolower, SEMI, Upper
  <2>3. q \in 1 .. l /\ r < e /\ r = p + q - 1
    BY <1>1, <1>2, <1>4, <2>2 DEF r
  <2>4. At(t, q) = At(s, r)
    BY <1>1, <2>1, <2>3 DEF At
  <2>5. r + 1 \in 1 .. n /\ At(s, r + 1) = s[r + 1]
    BY <1>1, <1>4, <2>3 DEF At
  <2>6. q + 1 <= l
    <3> SUFFICES ASSUME ~(q + 1 <= l) PROVE FALSE
      OBVIOUS
    <3>1. r + 1 = e
      BY <1>1, <2>3
    <3> QED BY <2>5, <3>1 DEF SEMI, EQ
  <2>7. At(t, q + 1) = At(s, r + 1)
    <3> DEFINE k == q + 1
    <3>1. k \in 1 .. l /\ p + k - 1 = r + 1
      BY <1>1, <1>2, <2>3, <2>6
    <3> HIDE DEF k
    <3>2. At(t, k) = s[r + 1]
      BY <1>1, <3>1 DEF At
    <3> QED BY <2>5, <3>2 DEF k
  <2> QED BY <1>3, <2>4, <2>7 DEF BoundaryNamed
<1>9. Find(s, r, {SEMI}) = e
  <2>1. \A j \in Nat : r <= j /\ j < e => s[j] \notin {SEMI}
    <3> SUFFICES ASSUME NEW j \in Nat, r <= j, j < e PROVE s[j] # SEMI
      OBVIOUS
    <3> DEFINE k == j - p + 1
    <3>1. k \in 1 .. l /\ p + k - 1 = j
      BY <1>1, <1>4
    <3> HIDE DEF k
    <3> QED BY <1>1, <1>3, <3>1
  <2>2. e <= Len(s) + 1
    BY <1>1 DEF n
  <2> QED BY <1>1, <1>4, <2>1, <2>2, FindFirst
<1>10. a \in 1 .. Len(s)
  BY DEF ParamAt
<1> QED BY <1>7, <1>8, <1>9, <1>10 DEF TypeNext, TypeOut

(* At the boundary it ends, and puts the boundary out.                      *)
LEMMA BoundaryTurn ==
  ASSUME NEW s \in Text, NEW a, NEW p, NEW b \in Text, ParamAt(s, a, p, <<98, EQ>> \o b),
         ToSet(b) \cap Blank = {}, p + Len(<<98, EQ>> \o b) = Len(s) + 1
  PROVE  TypeNext(s)[a] = Len(s) + 1 /\ TypeOut(s)[a] = b
<1> DEFINE n == Len(s)
           c == <<98, EQ>>
           t == c \o b
           l == Len(b)
           i == a + 1
           k == p + 2
<1>1. /\ s \in Seq(Byte) /\ b \in Seq(Byte) /\ n \in Nat /\ l \in Nat
      /\ a \in 1 .. n /\ p \in Nat /\ a < p /\ StandsAt(s, p, t)
      /\ \A j \in Nat : a < j /\ j < p => s[j] \in Blank
  BY LenProperties DEF Text, ParamAt
<1>2. c \in Seq(Byte) /\ Len(c) = 2 /\ c[1] = 98 /\ c[2] = EQ
  BY DEF Byte, EQ
<1> HIDE DEF c
<1>3. StandsAt(s, p, c) /\ StandsAt(s, k, b) /\ p + (2 + l) = n + 1
  <2>1. StandsAt(s, p, c) /\ StandsAt(s, p + Len(c), b) /\ Len(t) = Len(c) + Len(b)
    <3>1. StandsAt(s, p, c \o b)
      BY <1>1
    <3>2. s \in Seq(Byte) /\ b \in Seq(Byte) /\ c \in Seq(Byte)
      BY <1>1, <1>2
    <3>3. StandsAt(s, p, c) /\ StandsAt(s, p + Len(c), b) /\ Len(c \o b) = Len(c) + Len(b)
      BY <3>1, <3>2, StandsSplit
    <3> QED BY <3>3
  <2>2. p + Len(t) = n + 1
    BY DEF c
  <2> HIDE DEF t
  <2> QED BY <1>2, <2>1, <2>2
<1>4. p \in 1 .. n /\ p + 1 \in 1 .. n /\ s[p] = 98 /\ s[p + 1] = EQ
  BY <1>2, <1>3, <1>1 DEF StandsAt
<1>5. TypeParam(s, a) = p
  <2>1. i \in Nat /\ i > 0 /\ i <= p /\ p <= Len(s) + 1 /\ \A j \in Nat : i <= j /\ j < p => a < j
    BY <1>1, <1>4
  <2> HIDE DEF i
  <2>2. s[p] \notin Blank
    BY <1>4 DEF Blank, TAB, LF, VT, FF, CR, SP
  <2>3. Skip(s, i, Blank) = p
    BY <1>1, <2>1, <2>2, SkipFirst
  <2> QED BY <2>3 DEF TypeParam, i
<1>6. BoundaryNamed(s, p)
  BY <1>1, <1>4, LenProperties DEF At, BoundaryNamed, tolower, Upper
<1>7. BoundaryText(s, p) = b
  <2>1. k \in Nat /\ k + Len(b) = Len(s) + 1
    BY <1>1, <1>3
  <2> HIDE DEF k
  <2>2. \A j \in 1 .. Len(b) : b[j] \notin Blank
    BY <1>1, LenProperties DEF ToSet
  <2>3. ~(k + Len(b) <= Len(s))
    BY <1>1, <2>1
  <2>4. Find(s, k, Blank) = k + Len(b)
    BY <1>1, <1>3, <2>2, <2>3, FindPast
  <2>5. SubSeq(s, k, k + Len(b) - 1) = b
    BY <1>1, <1>3, StandsIs
  <2>6. BoundaryText(s, p) = SubSeq(s, k, Find(s, k, Blank) - 1)
    BY DEF BoundaryText, k
  <2>7. k + Len(b) - 1 = Find(s, k, Blank) - 1
    <3> DEFINE f == Find(s, k, Blank)
               m == Len(b)
    <3>1. k \in Nat /\ m \in Nat /\ f = k + m
      BY <1>1, <2>1, <2>4
    <3> HIDE DEF f, m
    <3> QED BY <3>1 DEF f, m
  <2> QED BY <2>5, <2>6, <2>7, Zenon
<1> QED BY <1>1, <1>5, <1>6, <1>7 DEF TypeNext, TypeOut
-------------------------------------------------------------------------------
(* Each parameter stands behind the one before, a semicolon and a space.    *)
LEMMA TypeTurn ==
  ASSUME NEW s \in Text, NEW d \in Text, NEW ts \in Seq(Text), NEW n \in Nat, NEW at,
         TypeStands(s, d, ts, n, at), NEW k \in 1 .. n
  PROVE  LET p == at[k] + 2
             e == p + Len(ts[k])
         IN  /\ at[k] \in Nat /\ at[k] >= 1 /\ e \in Nat /\ ts[k] \in Text
             /\ StandsAt(s, p, ts[k])
             /\ k < n => e = at[k + 1] /\ e + 1 <= Len(s) /\ s[e] = SEMI /\ s[e + 1] = SP
             /\ k = n => e = Len(s) + 1
<1> DEFINE t == ts[k]
           l == Len(t)
           i == at[k]
           p == i + 2
           e == p + l
           f == i + l
           sep == <<SEMI, SP>>
           b == Len(d)
           m == Len(s)
<1>1. t \in Text /\ t \in Seq(Byte) /\ l \in Nat /\ b \in Nat /\ m \in Nat /\ m = b + 2
  BY ElementOfSeq, LenProperties DEF TypeStands, Text
<1>2. Len(sep) = 2 /\ sep[1] = SEMI /\ sep[2] = SP
  OBVIOUS
<1> HIDE DEF sep
<1>3. /\ StandsAt(d, i, t) /\ at[k + 1] = i + l + 2
      /\ k < n => StandsAt(d, f, sep)
  BY <1>2 DEF TypeStands, JoinedAt, sep
<1>4. k = n => b + 1 = f
  BY EmptySeq DEF TypeStands, JoinedAt
<1>5. /\ i \in Nat /\ i >= 1 /\ f <= b + 1 /\ \A j \in 1 .. l : d[i + j - 1] = t[j]
  BY <1>3 DEF StandsAt
<1>6. \A j \in 1 .. b : s[j + 2] = d[j]
  BY DEF TypeStands
<1> HIDE DEF t, l, i, b, m
<1>7. /\ p \in Nat /\ p # 0 /\ p \in Nat \ {0} /\ e \in Nat /\ f \in Nat /\ e = f + 2 /\ e <= m + 1
      /\ at[k + 1] = e /\ (k = n => e = m + 1)
  BY <1>1, <1>3, <1>4, <1>5
<1>8. ASSUME NEW j \in 1 .. l PROVE s[p + j - 1] = t[j]
  <2> DEFINE q == i + j - 1
  <2>1. q \in 1 .. b /\ q + 2 = p + j - 1
    BY <1>1, <1>5
  <2> HIDE DEF p, q
  <2>2. s[q + 2] = d[q]
    BY <1>6, <2>1
  <2> QED BY <1>5, <2>1, <2>2 DEF q
<1>9. StandsAt(s, p, t)
  BY <1>7, <1>8 DEF StandsAt, l, m
<1>10. ASSUME k < n PROVE e + 1 <= m /\ s[e] = SEMI /\ s[e + 1] = SP
  <2>1. StandsAt(d, f, sep)
    BY <1>3, <1>10
  <2>2. f + 2 <= b + 1 /\ d[f + 1 - 1] = sep[1] /\ d[f + 2 - 1] = sep[2] /\ f # 0
    BY <1>2, <2>1 DEF StandsAt, b
  <2>3. f + 1 - 1 = f /\ f + 2 - 1 = f + 1 /\ f \in 1 .. b /\ f + 1 \in 1 .. b /\ (f + 1) + 2 = e + 1
        /\ f + 2 = e /\ e + 1 <= m
    BY <1>1, <1>7, <2>2
  <2> HIDE DEF f, e
  <2>4. s[f + 2] = d[f] /\ s[(f + 1) + 2] = d[f + 1]
    BY <1>6, <2>3
  <2> QED BY <1>2, <2>2, <2>3, <2>4
<1> QED BY <1>1, <1>5, <1>7, <1>9, <1>10 DEF t, i, l, m

(* So the walk meets it at the semicolon before it.                         *)
LEMMA ParamStands ==
  ASSUME NEW s \in Text, NEW d \in Text, NEW ts \in Seq(Text), NEW n \in Nat, NEW at,
         TypeStands(s, d, ts, n, at), NEW k \in 1 .. n
  PROVE  ParamAt(s, TypeSemi(at, k), at[k] + 2, ts[k])
<1> DEFINE a == TypeSemi(at, k)
           p == at[k] + 2
           t == ts[k]
           m == Len(s)
<1>1. at[k] \in Nat /\ at[k] >= 1 /\ StandsAt(s, p, t) /\ m \in Nat /\ p + Len(t) <= m + 1 /\ Len(t) \in Nat
  BY TypeTurn, LenProperties DEF Text, StandsAt
<1>2. m = Len(d) + 2 /\ Len(d) \in Nat /\ at[1] = 1
  BY LenProperties DEF TypeStands, JoinedAt, Text
<1>3. CASE k = 1
  BY <1>2, <1>3, <1>1 DEF TypeSemi, ParamAt, a, p, t, m
<1>4. CASE k # 1
  <2> DEFINE j == k - 1
             u == ts[j]
             e == (at[j] + 2) + Len(u)
  <2>1. j \in 1 .. n /\ j < n /\ j + 1 = k
    BY <1>4
  <2>2. e = at[j + 1] /\ e + 1 <= m /\ s[e + 1] = SP
    <3> HIDE DEF j
    <3> QED BY <2>1, TypeTurn
  <2> HIDE DEF e, j, u
  <2>3. a = e /\ p = e + 2 /\ at[k] = e
    BY <1>4, <2>1, <2>2 DEF TypeSemi
  <2>4. a \in 1 .. m /\ p \in Nat /\ a < p /\ \A q \in Nat : a < q /\ q < p => q = e + 1
    BY <1>1, <1>2, <2>2, <2>3
  <2>5. SP \in Blank
    BY DEF Blank
  <2> HIDE DEF a, p, t, m
  <2>6. \A q \in Nat : a < q /\ q < p => s[q] \in Blank
    BY <2>2, <2>4, <2>5
  <2> QED BY <1>1, <2>4, <2>6 DEF ParamAt, a, p, t, m
<1> QED BY <1>3, <1>4

(* The walk comes to the last parameter, and that is the boundary.          *)
LEMMA BoundaryFound ==
  ASSUME NEW s \in Text, NEW d \in Text, NEW ts \in Seq(Text), NEW n \in Nat, n >= 1, NEW at,
         TypeStands(s, d, ts, n, at), AllButLast(ts, n),
         NEW b \in Text, ToSet(b) \cap Blank = {}, ts[n] = <<98, EQ>> \o b
  PROVE  TypeFrom(s, 2) = b
<1> DEFINE m == Len(s)
           semi(k) == TypeSemi(at, k)
           W(a) == TypeFrom(s, a)
           N == TypeNext(s)
           O == TypeOut(s)
<1>1. m \in Nat /\ Forward(N, m)
  <2>1. m \in Nat
    BY LenProperties DEF Text
  <2>3. Clip(s, m + 1) = s
    <3>1. Min({m, (m + 1) - 1}) = m
      <4>1. (m + 1) - 1 = m /\ {m, (m + 1) - 1} = {m}
        BY <2>1
      <4>2. {m} \subseteq Nat /\ m \in {m} /\ \A y \in {m} : m <= y
        BY <2>1
      <4>3. Min({m}) = m
        BY <4>2, LeastIs
      <4> QED BY <4>1, <4>3
    <3> QED BY <3>1, SubSeqFull DEF Clip, Text
  <2> QED BY <2>1, <2>3, TypeWalk
<1>2. ASSUME NEW k \in 1 .. n
      PROVE  /\ semi(k) \in 1 .. m
             /\ k < n => N[semi(k)] = semi(k + 1) /\ O[semi(k)] = <<>>
             /\ k = n => N[semi(k)] = m + 1 /\ O[semi(k)] = b
  <2> DEFINE a == semi(k)
             p == at[k] + 2
             t == ts[k]
             e == p + Len(t)
  <2>1. ParamAt(s, a, p, t)
    BY ParamStands
  <2>2. /\ e \in Nat /\ t \in Text
        /\ k < n => e = at[k + 1] /\ e + 1 <= m /\ s[e] = SEMI
        /\ k = n => e = m + 1
    BY TypeTurn
  <2>3. a \in 1 .. m
    BY <2>1 DEF ParamAt
  <2>4. ASSUME k < n PROVE N[a] = semi(k + 1) /\ O[a] = <<>>
    <3>1. Plain(t)
      BY <2>4 DEF AllButLast
    <3>2. semi(k + 1) = e
      BY <2>2, <2>4 DEF TypeSemi
    <3>3. e = p + Len(t) /\ e <= m /\ s[e] = SEMI
      BY <1>1, <2>2, <2>4
    <3> HIDE DEF e, t, p, a, semi
    <3> QED BY <2>1, <2>2, <3>1, <3>2, <3>3, PlainTurn
  <2>5. ASSUME k = n PROVE N[a] = m + 1 /\ O[a] = b
    <3>1. t = <<98, EQ>> \o b
      BY <2>5
    <3>2. p + Len(t) = m + 1
      BY <2>2, <2>5
    <3> HIDE DEF t, p, a, semi, m
    <3>3. ParamAt(s, a, p, <<98, EQ>> \o b) /\ p + Len(<<98, EQ>> \o b) = Len(s) + 1
      BY <2>1, <3>1, <3>2 DEF m
    <3> QED BY <3>3, BoundaryTurn DEF m
  <2> QED BY <2>3, <2>4, <2>5
<1> HIDE DEF semi, N, O, m
<1>3. ASSUME NEW a \in 1 .. m PROVE W(a) = O[a] \o W(N[a])
  <2>1. Walk(N, O, a) = O[a] \o Walk(N, O, N[a])
    <3>1. a \in Nat
      BY <1>1
    <3> QED BY <1>1, <3>1, WalkStep
  <2> QED BY <2>1 DEF TypeFrom, N, O
<1>4. W(semi(n)) = b
  <2> DEFINE z == m + 1
  <2>1. W(semi(n)) = b \o W(z)
    <3>1. n \in 1 .. n
      OBVIOUS
    <3> HIDE DEF W
    <3> QED BY <1>2, <1>3, <3>1
  <2>2. z \in Nat /\ z \notin 1 .. m
    BY <1>1
  <2> HIDE DEF z
  <2>3. W(z) = <<>>
    BY <1>1, <2>2, WalkStep DEF TypeFrom, N, O
  <2> HIDE DEF W
  <2>4. b \o <<>> = b
    BY ConcatEmptySeq DEF Text
  <2> QED BY <2>1, <2>3, <2>4
<1> DEFINE S == {k \in Nat : k < n => W(semi(n - k)) = b}
<1>5. 0 \in S
  BY <1>4
<1>6. ASSUME NEW k \in Nat, k \in S PROVE k + 1 \in S
  <2> SUFFICES ASSUME k + 1 < n PROVE W(semi(n - (k + 1))) = b
    OBVIOUS
  <2> DEFINE j == n - (k + 1)
             i == n - k
  <2>1. j \in 1 .. n /\ j < n /\ i \in 1 .. n /\ j + 1 = i /\ k < n
    OBVIOUS
  <2>2. W(semi(i)) = b
    BY <1>6, <2>1
  <2> HIDE DEF i, j, W
  <2>3. W(semi(j)) = <<>> \o W(semi(i))
    BY <1>2, <1>3, <2>1
  <2>4. <<>> \o b = b
    BY ConcatEmptySeq DEF Text
  <2> QED BY <2>2, <2>3, <2>4 DEF j
<1>7. Nat \subseteq S
  BY <1>5, <1>6, AllNumbers
<1>8. W(semi(1)) = b
  <2> DEFINE k == n - 1
  <2>1. k \in Nat /\ k < n /\ n - k = 1
    OBVIOUS
  <2>2. k \in S
    BY <1>7, <2>1
  <2> HIDE DEF k, W
  <2> QED BY <2>1, <2>2
<1>9. semi(1) = 2
  BY DEF semi, TypeSemi
<1> QED BY <1>8, <1>9
-------------------------------------------------------------------------------
(* The boundary is read, wherever it begins.                                *)
LEMMA BoundaryStaysRead == TextsRight => BoundaryIsRead
<1> DEFINE ps == call.params
           b == call.boundary
           space == call.space
           last == <<<<98, EQ>> \o b>>
           ts == ps \o last
           sep == <<SEMI, SP>>
           d == Joined(ts, sep)
           head == <<120, SEMI>>
           s == ContentType(ps, b)
           n == Len(ps) + 1
<1> SUFFICES ASSUME TextsRight, Answered("type"), Len(s) < space,
                    \A p \in ToSet(ps) : SEMI \notin ToSet(p) /\ ~BoundaryNamed(p, Skip(p, 1, Blank)),
                    ToSet(b) \cap Blank = {}
             PROVE  result = [type |-> <<120>>, boundary |-> b]
  BY DEF BoundaryIsRead
<1>1. ps \in Seq(Text) /\ b \in Text /\ space \in Nat
  BY Asked, CallIs DEF TypeCall
<1>2. result = BoundaryOf(s, space)
  BY Asked DEF Answer
<1>3. s = head \o d
  BY DEF ContentType
<1>4. \A k \in 1 .. Len(ps) : Plain(ps[k])
  BY <1>1, LenProperties DEF ToSet, Plain
<1> HIDE DEF ps, b, space, s
<1>5. last \in Seq(Text) /\ Len(last) = 1 /\ last[1] = <<98, EQ>> \o b
  <2> DEFINE c == <<98, EQ>>
             x == c \o b
  <2>1. c \in Seq(Byte)
    BY DEF Byte, EQ
  <2> HIDE DEF c
  <2>2. x \in Text
    BY <1>1, <2>1, ConcatProperties DEF Text
  <2> HIDE DEF x
  <2>3. <<x>> \in Seq(Text) /\ Len(<<x>>) = 1 /\ <<x>>[1] = x
    BY <2>2
  <2> QED BY <2>3 DEF x, c
<1> HIDE DEF last
<1>6. /\ ts \in Seq(Text) /\ Len(ts) = n /\ n \in Nat /\ n >= 1 /\ Len(ps) \in Nat
      /\ \A k \in 1 .. n : k < n => ts[k] = ps[k]
      /\ ts[n] = <<98, EQ>> \o b
  <2> DEFINE l == Len(ps)
  <2>1. l \in Nat
    BY <1>1, LenProperties
  <2>2. /\ ts \in Seq(Text) /\ Len(ts) = l + Len(last)
        /\ \A k \in 1 .. l + Len(last) : ts[k] = IF k <= l THEN ps[k] ELSE last[k - l]
    BY <1>1, <1>5, ConcatProperties
  <2> HIDE DEF ts
  <2>3. n \in 1 .. l + Len(last) /\ ~(n <= l) /\ n - l = 1 /\ n \in Nat /\ n >= 1 /\ l + Len(last) = n
    BY <1>5, <2>1
  <2>4. \A k \in 1 .. n : k < n => k <= l
    BY <2>1
  <2> HIDE DEF n, l
  <2> QED BY <1>5, <2>1, <2>2, <2>3, <2>4 DEF l
<1>7. AllButLast(ts, n)
  BY <1>6, <1>4 DEF AllButLast
<1> HIDE DEF ts, n
<1>8. sep \in Seq(Byte)
  BY DEF Byte, SEMI, SP
<1> HIDE DEF sep
<1>9. d \in Text /\ \E at : JoinedAt(ts, sep, d, at)
  BY <1>6, <1>8, JoinedIs DEF Text
<1> HIDE DEF d
<1>10. PICK at : JoinedAt(ts, sep, d, at)
  BY <1>9
<1>11. head \in Seq(Byte) /\ Len(head) = 2 /\ head[1] = 120 /\ head[2] = SEMI
  BY DEF Byte, SEMI
<1> HIDE DEF head
<1>12. /\ s \in Text /\ Len(d) \in Nat /\ Len(s) = Len(d) + 2 /\ (\A j \in 1 .. Len(d) : s[j + 2] = d[j])
       /\ s[1] = 120 /\ s[2] = SEMI
  <2> DEFINE l == Len(d)
             m == 2 + l
  <2>1. l \in Nat
    BY <1>9, LenProperties DEF Text
  <2>2. /\ s \in Seq(Byte) /\ Len(s) = m
        /\ \A j \in 1 .. m : s[j] = IF j <= 2 THEN head[j] ELSE d[j - 2]
    <3>1. /\ s \in Seq(Byte) /\ Len(s) = Len(head) + Len(d)
          /\ \A j \in 1 .. Len(head) + Len(d) : s[j] = IF j <= Len(head) THEN head[j] ELSE d[j - Len(head)]
      <4> DEFINE u == head \o d
      <4>1. head \in Seq(Byte) /\ d \in Seq(Byte)
        BY <1>9, <1>11 DEF Text
      <4>2. /\ u \in Seq(Byte) /\ Len(u) = Len(head) + Len(d)
            /\ \A j \in 1 .. Len(head) + Len(d) : u[j] = IF j <= Len(head) THEN head[j] ELSE d[j - Len(head)]
        BY <4>1, ConcatProperties
      <4>3. s = u
        BY <1>3
      <4> HIDE DEF u
      <4> QED BY <4>2, <4>3
    <3> QED BY <1>11, <3>1
  <2> HIDE DEF l
  <2>3. 1 \in 1 .. m /\ 2 \in 1 .. m /\ m = l + 2
    BY <2>1
  <2>4. ASSUME NEW j \in 1 .. l PROVE s[j + 2] = d[j]
    <3> DEFINE i == j + 2
    <3>1. i \in 1 .. m /\ ~(i <= 2) /\ i - 2 = j
      BY <2>1
    <3> HIDE DEF i, m
    <3> QED BY <2>2, <3>1 DEF i
  <2> HIDE DEF m
  <2> QED BY <1>11, <2>1, <2>2, <2>3, <2>4 DEF Text, l
<1>13. TypeStands(s, d, ts, n, at)
  BY <1>6, <1>10, <1>12 DEF TypeStands, sep
<1>14. TypeFrom(s, 2) = b
  <2>1. s \in Text /\ d \in Text /\ ts \in Seq(Text) /\ b \in Text /\ n \in Nat /\ n >= 1
    BY <1>1, <1>6, <1>9, <1>12
  <2>2. ts[n] = <<98, EQ>> \o b
    BY <1>6
  <2>3. ToSet(b) \cap Blank = {}
    OBVIOUS
  <2> QED BY <1>7, <1>13, <2>1, <2>2, <2>3, BoundaryFound
<1>15. Clip(s, space) = s
  <2> DEFINE m == Len(s)
             r == space - 1
  <2>1. m \in Nat /\ r \in Nat /\ m <= r
    BY <1>1, <1>12
  <2> HIDE DEF m, r
  <2>2. Min({m, r}) = m
    BY <2>1, LeastIs
  <2>3. SubSeq(s, 1, m) = s
    BY <1>12, SubSeqFull DEF Text, m
  <2> QED BY <2>2, <2>3 DEF Clip, m, r
<1>16. Find(s, 1, {SEMI}) = 2
  <2> DEFINE one == 1
             two == 2
  <2>1. one \in Nat /\ two \in Nat /\ one <= two /\ two <= Len(s) + 1 /\ s \in Seq(Byte)
    BY <1>12 DEF Text
  <2>2. \A j \in Nat : one <= j /\ j < two => s[j] \notin {SEMI}
    BY <1>12 DEF SEMI
  <2>3. two <= Len(s) => s[two] \in {SEMI}
    BY <1>12
  <2> HIDE DEF one, two
  <2>4. Find(s, one, {SEMI}) = two
    BY <2>1, <2>2, <2>3, FindFirst
  <2> QED BY <2>4 DEF one, two
<1>17. SubSeq(s, 1, 2 - 1) = <<120>>
  <2> DEFINE r == SubSeq(s, 1, 1)
  <2>1. 1 \in Nat /\ 1 >= 1 /\ 1 <= Len(s) /\ s \in Seq(Byte)
    BY <1>12 DEF Text
  <2>2. /\ r \in Seq(Byte) /\ Len(r) = 1
        /\ \A k \in Nat : 1 <= k /\ k <= 1 - 1 + 1 => r[k] = s[1 + k - 1]
    BY <2>1, PartOf
  <2>3. r[1] = 120
    BY <1>12, <2>2
  <2> HIDE DEF r
  <2>4. r = <<120>>
    BY <2>2, <2>3
  <2> QED BY <2>4 DEF r
<1>18. BoundaryOf(s, space) = [type |-> SubSeq(s, 1, 2 - 1), boundary |-> TypeFrom(s, 2)]
  <2> DEFINE first == Find(s, 1, {SEMI})
  <2>1. BoundaryOf(s, space) = [type |-> SubSeq(s, 1, first - 1), boundary |-> TypeFrom(s, first)]
    <3>1. s \in Text
      BY <1>12
    <3>2. \A raw : Clip(raw, space) = s =>
            BoundaryOf(raw, space) = [type |-> SubSeq(s, 1, Find(s, 1, {SEMI}) - 1),
                                      boundary |-> TypeFrom(s, Find(s, 1, {SEMI}))]
      BY <3>1, TypeWalk
    <3> QED BY <1>15, <3>2
  <2>2. first = 2
    BY <1>16
  <2> HIDE DEF first
  <2> QED BY <2>1, <2>2
<1> QED BY <1>2, <1>14, <1>17, <1>18
-------------------------------------------------------------------------------
(* What a browser may send as a parameter: no blank or semicolon where it   *)
(* would end the name or a bare value, no quote in quotes.                  *)
LEMMA ParamIs ==
  ASSUME NEW p \in Param
  PROVE  /\ p.gap \in Seq(Byte) /\ (\A j \in 1 .. Len(p.gap) : p.gap[j] \in Blank)
         /\ p.name \in Seq(Byte) /\ (\A j \in 1 .. Len(p.name) : p.name[j] \in Alnum)
         /\ p.text \in Seq(Byte) /\ p.quoted \in BOOLEAN
         /\ p.quoted => \A j \in 1 .. Len(p.text) : p.text[j] # QUOTE
         /\ ~p.quoted => /\ \A j \in 1 .. Len(p.text) : p.text[j] # SEMI
                         /\ p.text # <<>> => p.text[1] \notin {QUOTE} \cup Blank
         /\ ParamTail(p) \in Seq(Byte) /\ ParamText(p) \in Seq(Byte)
<1> DEFINE gap == p.gap
           name == p.name
           text == p.text
           q == <<QUOTE>>
<1>1. /\ gap \in Seq(Blank) /\ name \in Seq(Alnum) /\ p.quoted \in BOOLEAN /\ text \in Text
      /\ IF p.quoted THEN QUOTE \notin ToSet(text) ELSE text \in Unquoted
  BY DEF Param
<1>2. Blank \subseteq Byte /\ Alnum \subseteq Byte
  BY DEF Blank, Alnum, Digits, Upper, Lower, Byte, TAB, LF, VT, FF, CR, SP
<1> HIDE DEF gap, name, text
<1>3. gap \in Seq(Byte) /\ \A j \in 1 .. Len(gap) : gap[j] \in Blank
  BY <1>2, <1>1, ElementOfSeq
<1>4. name \in Seq(Byte) /\ \A j \in 1 .. Len(name) : name[j] \in Alnum
  BY <1>2, <1>1, ElementOfSeq
<1>5. text \in Seq(Byte) /\ DOMAIN text = 1 .. Len(text)
  BY <1>1, LenProperties DEF Text
<1>6. p.quoted => \A j \in 1 .. Len(text) : text[j] # QUOTE
  BY <1>1, <1>5 DEF ToSet
<1>7. ASSUME ~p.quoted
      PROVE  /\ \A j \in 1 .. Len(text) : text[j] # SEMI
             /\ text # <<>> => text[1] \notin {QUOTE} \cup Blank
  BY <1>1, <1>7, <1>5, EmptySeq, LenProperties DEF Unquoted, ToSet, At
<1>8. q \in Seq(Byte) /\ <<SEMI>> \in Seq(Byte) /\ <<EQ>> \in Seq(Byte)
  BY DEF Byte, QUOTE, SEMI, EQ
<1> HIDE DEF q
<1>9. ParamTail(p) \in Seq(Byte)
  BY <1>5, <1>8, ConcatProperties DEF ParamTail, q, text
<1>10. ParamText(p) \in Seq(Byte)
  <2> DEFINE a == <<SEMI>>
             b == <<EQ>>
             t == ParamTail(p)
             w == (((((a \o gap) \o name) \o gap) \o b) \o gap) \o t
  <2>1. a \in Seq(Byte) /\ b \in Seq(Byte) /\ t \in Seq(Byte)
    BY <1>8, <1>9
  <2> HIDE DEF a, b, t
  <2>2. a \o gap \in Seq(Byte)
    BY <1>3, <2>1, ConcatProperties
  <2>3. (a \o gap) \o name \in Seq(Byte)
    BY <1>4, <2>2, ConcatProperties
  <2>4. ((a \o gap) \o name) \o gap \in Seq(Byte)
    BY <1>3, <2>3, ConcatProperties
  <2>5. (((a \o gap) \o name) \o gap) \o b \in Seq(Byte)
    BY <2>1, <2>4, ConcatProperties
  <2>6. ((((a \o gap) \o name) \o gap) \o b) \o gap \in Seq(Byte)
    BY <1>3, <2>5, ConcatProperties
  <2>7. w \in Seq(Byte)
    BY <2>1, <2>6, ConcatProperties
  <2> QED BY <2>7 DEF ParamText, a, b, t, gap, name
<1> QED BY <1>1, <1>3, <1>4, <1>5, <1>6, <1>7, <1>9, <1>10 DEF gap, name, text
-------------------------------------------------------------------------------
(* If all bytes of a text are in C, so are those where it stands.           *)
LEMMA StandsBytes ==
  ASSUME NEW s, NEW i, NEW t, StandsAt(s, i, t), NEW C, \A j \in 1 .. Len(t) : t[j] \in C, Len(t) \in Nat
  PROVE  \A j \in Nat : i <= j /\ j < i + Len(t) => s[j] \in C
<1> SUFFICES ASSUME NEW j \in Nat, i <= j, j < i + Len(t) PROVE s[j] \in C
  OBVIOUS
<1> DEFINE l == Len(t)
           k == j - i + 1
<1>1. i \in Nat /\ \A y \in 1 .. l : s[i + y - 1] = t[y]
  BY DEF StandsAt
<1>2. k \in 1 .. l /\ i + k - 1 = j
  BY <1>1
<1> HIDE DEF k, l
<1> QED BY <1>1, <1>2 DEF l

(* The parts of a parameter are where it stands.                            *)
LEMMA ParamParts ==
  ASSUME NEW s \in Seq(Byte), NEW p \in Param, NEW i, StandsAt(s, i, ParamText(p))
  PROVE  \E b, c, d, v, e \in Nat :
            ParamPlaced(s, p, i, b, c, d, v, e) /\ e = i + Len(ParamText(p))
<1> DEFINE gap == p.gap
           name == p.name
           tail == ParamTail(p)
           a0 == <<SEMI>>
           a1 == a0 \o gap
           a2 == a1 \o name
           a3 == a2 \o gap
           a4 == a3 \o <<EQ>>
           a5 == a4 \o gap
           g == Len(gap)
           l == Len(name)
           m == Len(tail)
<1>1. /\ gap \in Seq(Byte) /\ (\A j \in 1 .. Len(gap) : gap[j] \in Blank)
      /\ name \in Seq(Byte) /\ (\A j \in 1 .. Len(name) : name[j] \in Alnum)
      /\ tail \in Seq(Byte)
  BY ParamIs
<1>2. StandsAt(s, i, a5 \o tail) /\ ParamText(p) = a5 \o tail
  BY DEF ParamText
<1> HIDE DEF gap, name, tail
<1>3. /\ a0 \in Seq(Byte) /\ Len(a0) = 1 /\ a0[1] = SEMI
      /\ <<EQ>> \in Seq(Byte) /\ Len(<<EQ>>) = 1 /\ <<EQ>>[1] = EQ
  BY DEF Byte, SEMI, EQ
<1> DEFINE q == <<EQ>>
<1> HIDE DEF a0, q
<1>4. a1 \in Seq(Byte)
  BY <1>1, <1>3, ConcatProperties
<1>5. a2 \in Seq(Byte)
  BY <1>1, <1>4, ConcatProperties
<1>6. a3 \in Seq(Byte)
  BY <1>1, <1>5, ConcatProperties
<1>7. a4 = a3 \o q /\ a4 \in Seq(Byte)
  BY <1>3, <1>6, ConcatProperties DEF q
<1>8. a5 \in Seq(Byte)
  BY <1>1, <1>7, ConcatProperties
<1>9. g \in Nat /\ l \in Nat /\ m \in Nat /\ q \in Seq(Byte) /\ Len(q) = 1 /\ q[1] = EQ
  BY <1>1, <1>3, LenProperties DEF q
<1>10. StandsAt(s, i, a5) /\ StandsAt(s, i + Len(a5), tail) /\ Len(a5 \o tail) = Len(a5) + m
  <2> HIDE DEF a5
  <2> QED BY <1>1, <1>2, <1>8, StandsSplit
<1>11. StandsAt(s, i, a4) /\ StandsAt(s, i + Len(a4), gap) /\ Len(a5) = Len(a4) + g
  <2>1. StandsAt(s, i, a4 \o gap) /\ a4 \in Seq(Byte) /\ Len(a5) = Len(a4 \o gap)
    BY <1>7, <1>10
  <2>2. gap \in Seq(Byte)
    BY <1>1
  <2> HIDE DEF a4, a5
  <2>3. StandsAt(s, i, a4) /\ StandsAt(s, i + Len(a4), gap) /\ Len(a4 \o gap) = Len(a4) + Len(gap)
    BY <2>1, <2>2, StandsSplit
  <2> QED BY <2>1, <2>3
<1>12. StandsAt(s, i, a3) /\ StandsAt(s, i + Len(a3), q) /\ Len(a4) = Len(a3) + 1
  <2>1. StandsAt(s, i, a3 \o q)
    BY <1>7, <1>11
  <2>2. Len(a4) = Len(a3 \o q)
    BY <1>7
  <2> HIDE DEF a3, a4
  <2> QED BY <1>6, <1>9, <2>1, <2>2, StandsSplit
<1>13. StandsAt(s, i, a2) /\ StandsAt(s, i + Len(a2), gap) /\ Len(a3) = Len(a2) + g
  <2>1. StandsAt(s, i, a2 \o gap)
    BY <1>12
  <2> HIDE DEF a2
  <2> QED BY <1>1, <1>5, <2>1, StandsSplit
<1>14. StandsAt(s, i, a1) /\ StandsAt(s, i + Len(a1), name) /\ Len(a2) = Len(a1) + l
  <2>1. StandsAt(s, i, a1 \o name)
    BY <1>13
  <2> HIDE DEF a1
  <2> QED BY <1>1, <1>4, <2>1, StandsSplit
<1>15. StandsAt(s, i, a0) /\ StandsAt(s, i + 1, gap) /\ Len(a1) = 1 + g
  <2>1. StandsAt(s, i, a0 \o gap) /\ a0 \in Seq(Byte) /\ Len(a1) = Len(a0 \o gap)
    BY <1>3, <1>14
  <2>2. gap \in Seq(Byte)
    BY <1>1
  <2> HIDE DEF a1
  <2>3. StandsAt(s, i, a0) /\ StandsAt(s, i + Len(a0), gap) /\ Len(a0 \o gap) = Len(a0) + Len(gap)
    BY <2>1, <2>2, StandsSplit
  <2> QED BY <1>3, <2>1, <2>3
<1>16. Len(ParamText(p)) = Len(a5) + m
  BY <1>2, <1>10
<1> HIDE DEF a1, a2, a3, a4, a5, g, l, m
<1> DEFINE b == i + Len(a1)
           c == i + Len(a2)
           d == i + Len(a3)
           v == i + Len(a5)
           e == v + m
           n == Len(s)
<1>17. /\ i \in Nat /\ i >= 1 /\ n \in Nat /\ b = (i + 1) + g /\ c = b + l /\ d = c + g /\ v = (d + 1) + g
       /\ Len(a1) \in Nat /\ Len(a2) \in Nat /\ Len(a3) \in Nat /\ Len(a4) \in Nat /\ Len(a5) \in Nat
       /\ i + Len(a4) = d + 1
  <2>1. i \in Nat /\ i # 0
    BY <1>15 DEF StandsAt
  <2>2. n \in Nat /\ Len(a1) \in Nat /\ Len(a2) \in Nat /\ Len(a3) \in Nat /\ Len(a4) \in Nat /\ Len(a5) \in Nat
    BY <1>4, <1>5, <1>6, <1>7, <1>8, LenProperties
  <2> HIDE DEF n
  <2> QED BY <1>9, <1>11, <1>12, <1>13, <1>14, <1>15, <2>1, <2>2
<1>18. b \in Nat /\ c \in Nat /\ d \in Nat /\ v \in Nat /\ e \in Nat /\ e = i + Len(ParamText(p))
       /\ i < b /\ b <= c /\ c <= d /\ d < v
  <2>1. g \in Nat /\ l \in Nat /\ m \in Nat
    BY <1>9
  <2>2. /\ i \in Nat /\ b = (i + 1) + g /\ c = b + l /\ d = c + g /\ v = (d + 1) + g /\ e = v + m
    BY <1>17
  <2>3. v = i + Len(a5) /\ Len(a5) \in Nat
    BY <1>17
  <2> HIDE DEF b, c, d, v, e
  <2>4. /\ b \in Nat /\ c \in Nat /\ d \in Nat /\ v \in Nat /\ e \in Nat
        /\ i < b /\ b <= c /\ c <= d /\ d < v
    BY <2>1, <2>2
  <2>5. e = i + Len(ParamText(p))
    BY <1>16, <2>1, <2>2, <2>3
  <2> QED BY <2>4, <2>5
<1>19. i <= n /\ s[i] = SEMI /\ d <= n /\ s[d] = EQ
  BY <1>3, <1>15, <1>9, <1>12, <1>17, <1>18 DEF StandsAt
<1>20. StandsAt(s, i + 1, gap) /\ StandsAt(s, b, name) /\ StandsAt(s, c, gap) /\ StandsAt(s, d + 1, gap)
       /\ StandsAt(s, v, tail)
  BY <1>11, <1>17, <1>10, <1>13, <1>14, <1>15
<1> HIDE DEF b, c, d, v, e, n
<1>21. \A j \in Nat : i < j /\ j < b => s[j] \in Blank
  <2> DEFINE f == i + 1
  <2>1. \A j \in Nat : f <= j /\ j < f + Len(gap) => s[j] \in Blank
    BY <1>1, <1>9, <1>20, StandsBytes DEF g
  <2> HIDE DEF g
  <2> QED BY <1>17, <2>1 DEF g
<1>22. \A j \in Nat : b <= j /\ j < c => s[j] \in Alnum
  BY <1>1, <1>9, <1>20, <1>17, StandsBytes DEF l
<1>23. \A j \in Nat : c <= j /\ j < d => s[j] \in Blank
  BY <1>1, <1>9, <1>20, <1>17, StandsBytes DEF g
<1>24. \A j \in Nat : d < j /\ j < v => s[j] \in Blank
  <2> DEFINE f == d + 1
  <2>1. StandsAt(s, f, gap)
    BY <1>20
  <2>2. f \in Nat /\ v = f + g /\ \A j \in Nat : d < j => f <= j
    BY <1>9, <1>17, <1>18
  <2> HIDE DEF f
  <2>3. \A j \in Nat : f <= j /\ j < f + Len(gap) => s[j] \in Blank
    BY <1>1, <1>9, <2>1, StandsBytes DEF g
  <2> QED BY <2>2, <2>3 DEF g
<1>25. SubSeq(s, b, c - 1) = name /\ (b = c => name = <<>>)
  <2>1. SubSeq(s, b, b + Len(name) - 1) = name
    BY <1>1, <1>20, StandsIs
  <2>2. b + Len(name) - 1 = c - 1
    BY <1>9, <1>17, <1>18 DEF l
  <2>3. b = c => name = <<>>
    <3>1. b = c => l = 0
      BY <1>9, <1>17, <1>18
    <3> QED BY <1>1, <3>1, EmptySeq DEF l
  <2> QED BY <2>1, <2>2, <2>3, Zenon
<1>26. ParamPlaced(s, p, i, b, c, d, v, e)
  <2>1. i \in 1 .. n
    BY <1>17, <1>19
  <2> QED BY <1>18, <1>19, <1>20, <1>21, <1>22, <1>23, <1>24, <1>25, <2>1
      DEF ParamPlaced, name, tail, e, m, n
<1> QED BY <1>18, <1>26
-------------------------------------------------------------------------------
(* A value in quotes or bare, up to the semicolon behind it.                *)
LEMMA HeaderTextEnds ==
  ASSUME NEW s \in Seq(Byte), NEW i \in Nat, i >= 1, i <= Len(s) + 1
  PROVE  HeaderText(s, i).next \in Nat /\ i <= HeaderText(s, i).next
<1> DEFINE n == Len(s)
<1>1. n \in Nat /\ DOMAIN s = 1 .. n
  BY LenProperties
<1>2. CASE At(s, i) = QUOTE
  <2> DEFINE j == i + 1
             close == Find(s, j, {QUOTE})
             next == Find(s, close, {SEMI})
  <2>1. i <= n
    BY <1>2, <1>1 DEF At, QUOTE, NUL
  <2>2. j \in Nat /\ j <= n + 1 /\ i <= j
    BY <1>1, <2>1
  <2> HIDE DEF j
  <2>3. close \in Nat /\ j <= close /\ close <= n + 1
    BY <2>2, FindIs
  <2> HIDE DEF close
  <2>4. next \in Nat /\ close <= next
    BY <2>3, FindIs
  <2>5. HeaderText(s, i).next = next
    BY <1>2 DEF HeaderText, close, j
  <2> HIDE DEF next
  <2> QED BY <2>2, <2>3, <2>4, <2>5
<1>3. CASE At(s, i) # QUOTE
  BY <1>3, FindIs DEF HeaderText
<1> QED BY <1>2, <1>3

(* A bare value is read up to the semicolon behind it.                      *)
LEMMA BareText ==
  ASSUME NEW s \in Seq(Byte), NEW i \in Nat, NEW t \in Seq(Byte), StandsAt(s, i, t),
         \A j \in 1 .. Len(t) : t[j] # SEMI, At(s, i) # QUOTE,
         NEW e \in Nat, e = i + Len(t), e <= Len(s) => s[e] = SEMI
  PROVE  HeaderText(s, i) = [text |-> t, next |-> e]
<1> DEFINE C == {SEMI}
           f == Find(s, i, C)
<1>1. \A j \in 1 .. Len(t) : t[j] \notin C
  OBVIOUS
<1>2. i + Len(t) <= Len(s) => s[i + Len(t)] \in C
  OBVIOUS
<1>3. f = i + Len(t)
  BY <1>1, <1>2, FindPast
<1>4. SubSeq(s, i, i + Len(t) - 1) = t
  BY StandsIs
<1>5. i + Len(t) - 1 = f - 1 /\ f = e
  <2> DEFINE m == Len(t)
  <2>1. m \in Nat /\ f = i + m
    BY <1>3, LenProperties
  <2> HIDE DEF m, f
  <2> QED BY <2>1 DEF m
<1>6. HeaderText(s, i) = [text |-> SubSeq(s, i, f - 1), next |-> f]
  BY DEF HeaderText
<1> HIDE DEF f
<1>7. SubSeq(s, i, f - 1) = t
  BY <1>4, <1>5, Zenon
<1> QED BY <1>5, <1>6, <1>7

(* A value in quotes is read without them, whatever semicolons it holds.    *)
LEMMA QuotedText ==
  ASSUME NEW s \in Seq(Byte), NEW i \in Nat, NEW t \in Seq(Byte), StandsAt(s, i, (<<QUOTE>> \o t) \o <<QUOTE>>),
         \A j \in 1 .. Len(t) : t[j] # QUOTE,
         NEW e \in Nat, e = i + Len((<<QUOTE>> \o t) \o <<QUOTE>>), e <= Len(s) => s[e] = SEMI
  PROVE  HeaderText(s, i) = [text |-> t, next |-> e] /\ At(s, i) = QUOTE
<1> DEFINE q == <<QUOTE>>
           a == q \o t
           m == Len(t)
           n == Len(s)
           k == i + 1
           close == k + m
<1>1. q \in Seq(Byte) /\ Len(q) = 1 /\ q[1] = QUOTE
  BY DEF Byte, QUOTE
<1>2. StandsAt(s, i, a \o q) /\ e = i + Len(a \o q)
  OBVIOUS
<1> HIDE DEF q
<1>3. a \in Seq(Byte) /\ m \in Nat /\ n \in Nat /\ DOMAIN s = 1 .. n
  BY <1>1, ConcatProperties, LenProperties
<1>4. StandsAt(s, i, a) /\ StandsAt(s, i + Len(a), q) /\ Len(a \o q) = Len(a) + 1
  <2> HIDE DEF a
  <2>1. StandsAt(s, i, a \o q) /\ q \in Seq(Byte) /\ a \in Seq(Byte)
    BY <1>1, <1>2, <1>3
  <2>2. StandsAt(s, i, a) /\ StandsAt(s, i + Len(a), q) /\ Len(a \o q) = Len(a) + Len(q)
    BY <2>1, StandsSplit
  <2> QED BY <1>1, <2>2
<1>5. StandsAt(s, i, q) /\ StandsAt(s, i + 1, t) /\ Len(a) = 1 + m
  BY <1>1, <1>4, StandsSplit
<1> HIDE DEF a
<1>6. k \in Nat /\ k > 0 /\ close \in Nat /\ k <= close /\ i + Len(a) = close /\ e = close + 1
  BY <1>2, <1>3, <1>4, <1>5
<1>7. close <= n /\ s[close] = QUOTE
  <2>1. StandsAt(s, close, q)
    BY <1>4, <1>6
  <2> HIDE DEF close
  <2>2. close + 1 <= n + 1 /\ s[close + 1 - 1] = QUOTE
    BY <1>1, <2>1 DEF StandsAt
  <2>3. close + 1 - 1 = close
    BY <1>6
  <2> HIDE DEF n
  <2> QED BY <1>3, <1>6, <2>2, <2>3
<1>8. At(s, i) = QUOTE
  BY <1>1, <1>5, <1>3 DEF StandsAt, At
<1>9. StandsAt(s, k, t)
  BY <1>5
<1> HIDE DEF k, n
<1>10. Find(s, k, {QUOTE}) = close
  <2> DEFINE C == {QUOTE}
  <2>1. \A j \in 1 .. Len(t) : t[j] \notin C
    OBVIOUS
  <2>2. k + Len(t) <= Len(s) => s[k + Len(t)] \in C
    BY <1>7
  <2> HIDE DEF C
  <2>3. Find(s, k, C) = k + Len(t)
    BY <1>9, <2>1, <2>2, FindPast
  <2> QED BY <2>3 DEF C
<1>11. SubSeq(s, k, close - 1) = t
  <2>1. SubSeq(s, k, k + Len(t) - 1) = t
    BY <1>9, StandsIs
  <2>2. k + Len(t) - 1 = close - 1
    BY <1>3, <1>6
  <2> QED BY <2>1, <2>2, Zenon
<1> HIDE DEF close
<1>12. Find(s, close, {SEMI}) = e
  <2>1. e <= Len(s) + 1 /\ close <= e
    BY <1>3, <1>6, <1>7 DEF n
  <2>2. \A j \in Nat : close <= j /\ j < e => s[j] \notin {SEMI}
    BY <1>6, <1>7 DEF QUOTE, SEMI
  <2> QED BY <1>6, <2>1, <2>2, FindFirst
<1>13. HeaderText(s, i) = [text |-> SubSeq(s, k, Find(s, k, {QUOTE}) - 1), next |-> Find(s, Find(s, k, {QUOTE}), {SEMI})]
  BY <1>8 DEF HeaderText, k
<1>14. HeaderText(s, i) = [text |-> SubSeq(s, k, close - 1), next |-> Find(s, close, {SEMI})]
  BY <1>10, <1>13
<1> QED BY <1>8, <1>11, <1>12, <1>14
-------------------------------------------------------------------------------
(* decomposeValue takes the parameters by a walk that goes forward.         *)
LEMMA ParamWalk ==
  ASSUME NEW s \in Seq(Byte), NEW i
  PROVE  Parameters(s, i) = Walk(ParamNext(s), ParamOut(s), i) /\ Forward(ParamNext(s), Len(s))
<1> DEFINE n == Len(s)
           D == 1 .. n
           name == [p \in D |-> Skip(s, p + 1, Blank)]
           stop == [p \in D |-> Skip(s, name[p], Alnum)]
           eq == [p \in D |-> Skip(s, stop[p], Blank)]
           value == [p \in D |-> HeaderText(s, Skip(s, eq[p] + 1, Blank))]
           good(p) == s[p] = SEMI /\ At(s, eq[p]) = EQ
           next == [p \in D |-> IF good(p) THEN value[p].next ELSE Len(s) + 1]
           out == [p \in D |->
                     IF good(p) THEN <<[name |-> SubSeq(s, name[p], stop[p] - 1), value |-> value[p].text]>>
                     ELSE <<>>]
<1>1. n \in Nat /\ DOMAIN s = D
  BY LenProperties
<1>2. Parameters(s, i) = Walk(next, out, i)
  BY <1>1 DEF Parameters
<1>3. \A p \in D : name[p] = ParamName(s, p)
  BY DEF ParamName
<1>4. \A p \in D : stop[p] = ParamStop(s, p)
  BY <1>3 DEF ParamStop
<1>5. \A p \in D : eq[p] = ParamEq(s, p)
  BY <1>4 DEF ParamEq
<1>6. \A p \in D : value[p] = ParamValue(s, p)
  BY <1>5 DEF ParamValue
<1> HIDE DEF name, stop, eq, value
<1>7. \A p \in D : good(p) <=> ParamGood(s, p)
  BY <1>5 DEF ParamGood
<1> HIDE DEF good
<1>8. next = ParamNext(s)
  BY <1>6, <1>7 DEF ParamNext
<1>9. out = ParamOut(s)
  BY <1>3, <1>4, <1>6, <1>7 DEF ParamOut
<1> HIDE DEF next, out
<1>10. ASSUME NEW p \in D PROVE ParamNext(s)[p] \in Nat /\ ParamNext(s)[p] > p
  <2>1. ParamNext(s)[p] = IF ParamGood(s, p) THEN ParamValue(s, p).next ELSE n + 1
    BY DEF ParamNext
  <2>2. CASE ~ParamGood(s, p)
    BY <1>1, <2>1, <2>2
  <2>3. CASE ParamGood(s, p)
    <3> DEFINE p1 == p + 1
               a == ParamName(s, p)
               b == ParamStop(s, p)
               c == ParamEq(s, p)
               c1 == c + 1
               v == Skip(s, c1, Blank)
               e == HeaderText(s, v).next
    <3>1. p \in Nat /\ p1 \in Nat /\ p1 > 0 /\ p1 <= n + 1
      BY <1>1
    <3>2. a \in Nat /\ p1 <= a /\ a <= n + 1
      BY <3>1, SkipIs DEF ParamName, p1
    <3> HIDE DEF a
    <3>3. b \in Nat /\ a <= b /\ b <= n + 1
      BY <3>1, <3>2, SkipIs DEF ParamStop, a
    <3> HIDE DEF b
    <3>4. c \in Nat /\ b <= c /\ c <= n + 1
      BY <3>1, <3>2, <3>3, SkipIs DEF ParamEq, b
    <3>5. c <= n
      BY <2>3, <1>1 DEF ParamGood, At, EQ, NUL
    <3> HIDE DEF c, p1
    <3>6. c1 \in Nat /\ c1 > 0 /\ c1 <= n + 1 /\ p < c1
      BY <1>1, <3>1, <3>2, <3>3, <3>4, <3>5 DEF p1
    <3> HIDE DEF c1
    <3>7. v \in Nat /\ c1 <= v /\ v <= n + 1
      BY <3>6, SkipIs
    <3> HIDE DEF v
    <3>8. e \in Nat /\ v <= e
      BY <3>6, <3>7, HeaderTextEnds
    <3>9. ParamNext(s)[p] = e
      BY <2>1, <2>3 DEF ParamValue, v, c1, c
    <3> HIDE DEF e
    <3>10. e > p
      BY <3>1, <3>6, <3>7, <3>8
    <3> QED BY <3>8, <3>9, <3>10
  <2> QED BY <2>2, <2>3
<1>11. Forward(ParamNext(s), n)
  BY <1>10 DEF ParamNext, Forward
<1> QED BY <1>2, <1>8, <1>9, <1>11
-------------------------------------------------------------------------------
(* A parameter is read as it was sent.                                      *)
LEMMA ParamNameRead ==
  ASSUME NEW s \in Seq(Byte), NEW p \in Param, NEW i, NEW b, NEW c, NEW d, NEW v, NEW e,
         ParamPlaced(s, p, i, b, c, d, v, e)
  PROVE  ParamEq(s, i) = d /\ SubSeq(s, ParamName(s, i), ParamStop(s, i) - 1) = p.name
<1> DEFINE n == Len(s)
           f == i + 1
<1>1. /\ n \in Nat /\ i \in Nat /\ i \in 1 .. n /\ b \in Nat /\ c \in Nat /\ d \in Nat
      /\ i < b /\ b <= c /\ c <= d /\ d <= n /\ s[d] = EQ
      /\ \A j \in Nat : i < j /\ j < b => s[j] \in Blank
      /\ \A j \in Nat : b <= j /\ j < c => s[j] \in Alnum
      /\ \A j \in Nat : c <= j /\ j < d => s[j] \in Blank
  <2>1. n \in Nat
    BY LenProperties
  <2>2. /\ i \in 1 .. n /\ b \in Nat /\ c \in Nat /\ d \in Nat
        /\ i < b /\ b <= c /\ c <= d /\ d <= n /\ s[d] = EQ
        /\ \A j \in Nat : i < j /\ j < b => s[j] \in Blank
        /\ \A j \in Nat : b <= j /\ j < c => s[j] \in Alnum
        /\ \A j \in Nat : c <= j /\ j < d => s[j] \in Blank
    BY DEF ParamPlaced
  <2>3. i \in Nat
    BY <2>1, <2>2
  <2> QED BY <2>1, <2>2, <2>3
<1>2. SubSeq(s, b, c - 1) = p.name /\ (b = c => p.name = <<>>)
  BY DEF ParamPlaced
<1>3. EQ \notin Blank /\ EQ \notin Alnum /\ Blank \cap Alnum = {}
  BY DEF EQ, Blank, TAB, LF, VT, FF, CR, SP, Alnum, Digits, Upper, Lower
<1>4. f \in Nat /\ f > 0 /\ f <= b /\ \A j \in Nat : f <= j <=> i < j
  BY <1>1
<1> HIDE DEF n, f
<1>5. CASE b = c
  <2>1. \A j \in Nat : f <= j /\ j < d => s[j] \in Blank
    BY <1>1, <1>4, <1>5
  <2>2. f <= d /\ d <= Len(s) + 1 /\ d > 0
    BY <1>1, <1>4 DEF n
  <2>3. Skip(s, f, Blank) = d
    BY <1>1, <1>3, <1>4, <2>1, <2>2, SkipFirst
  <2>4. Skip(s, d, Alnum) = d
    BY <1>1, <1>3, <2>2, SkipFirst
  <2>5. Skip(s, d, Blank) = d
    BY <1>1, <1>3, <2>2, SkipFirst
  <2>6. ParamName(s, i) = d
    BY <2>3 DEF ParamName, f
  <2>7. ParamStop(s, i) = d
    BY <2>4, <2>6 DEF ParamStop
  <2>8. ParamEq(s, i) = d
    BY <2>5, <2>7 DEF ParamEq
  <2>9. SubSeq(s, d, d - 1) = <<>>
    BY <1>1, SubSeqEmpty
  <2> QED BY <1>2, <1>5, <2>6, <2>7, <2>8, <2>9
<1>6. CASE b # c
  <2>1. /\ b <= Len(s) + 1 /\ c <= Len(s) + 1 /\ d <= Len(s) + 1 /\ b > 0 /\ c > 0 /\ b < c
    BY <1>1, <1>6 DEF n
  <2>2. Skip(s, f, Blank) = b
    <3>1. s[b] \notin Blank
      BY <1>1, <1>3, <2>1
    <3>2. \A j \in Nat : f <= j /\ j < b => s[j] \in Blank
      BY <1>1, <1>4
    <3> QED BY <1>1, <1>4, <2>1, <3>1, <3>2, SkipFirst
  <2>3. Skip(s, b, Alnum) = c
    BY <1>1, <1>3, <2>1, SkipFirst
  <2>4. Skip(s, c, Blank) = d
    BY <1>1, <1>3, <2>1, SkipFirst
  <2>5. ParamName(s, i) = b
    BY <2>2 DEF ParamName, f
  <2>6. ParamStop(s, i) = c
    BY <2>3, <2>5 DEF ParamStop
  <2>7. ParamEq(s, i) = d
    BY <2>4, <2>6 DEF ParamEq
  <2> QED BY <1>2, <2>5, <2>6, <2>7
<1> QED BY <1>5, <1>6

(* Its value is read too, in quotes or bare, up to the semicolon behind it. *)
LEMMA ParamValueRead ==
  ASSUME NEW s \in Seq(Byte), NEW p \in Param, NEW v \in Nat, NEW e \in Nat,
         StandsAt(s, v, ParamTail(p)), e = v + Len(ParamTail(p)), e <= Len(s) => s[e] = SEMI
  PROVE  /\ HeaderText(s, v) = [text |-> p.text, next |-> e]
         /\ v <= Len(s) => s[v] \notin Blank
         /\ v >= 1 /\ v <= Len(s) + 1
<1> DEFINE t == p.text
           q == <<QUOTE>>
           tail == ParamTail(p)
           n == Len(s)
<1>1. /\ t \in Seq(Byte) /\ p.quoted \in BOOLEAN /\ tail \in Seq(Byte)
      /\ p.quoted => \A j \in 1 .. Len(t) : t[j] # QUOTE
      /\ ~p.quoted => /\ \A j \in 1 .. Len(t) : t[j] # SEMI
                      /\ t # <<>> => t[1] \notin {QUOTE} \cup Blank
  BY ParamIs
<1>2. Len(tail) \in Nat /\ n \in Nat /\ DOMAIN s = 1 .. n /\ Len(t) \in Nat
  BY <1>1, LenProperties
<1>3. v >= 1 /\ v <= n + 1 /\ e <= n + 1
  BY <1>2 DEF StandsAt, tail, n
<1>4. CASE p.quoted
  <2>1. tail = (q \o t) \o q
    BY <1>4 DEF ParamTail
  <2>2. StandsAt(s, v, (q \o t) \o q) /\ e = v + Len((q \o t) \o q)
    BY <2>1
  <2>3. HeaderText(s, v) = [text |-> t, next |-> e] /\ At(s, v) = QUOTE
    BY <1>1, <1>4, <2>2, QuotedText
  <2>4. v <= n => s[v] \notin Blank
    <3> SUFFICES ASSUME v <= n PROVE s[v] \notin Blank
      OBVIOUS
    <3>1. v \in DOMAIN s
      BY <1>2, <1>3
    <3>2. s[v] = QUOTE
      BY <2>3, <3>1 DEF At
    <3> QED BY <3>2 DEF QUOTE, Blank, TAB, LF, VT, FF, CR, SP
  <2> QED BY <1>3, <2>3, <2>4
<1>5. CASE ~p.quoted
  <2>1. tail = t
    BY <1>5 DEF ParamTail
  <2>2. StandsAt(s, v, t) /\ e = v + Len(t)
    BY <2>1
  <2> HIDE DEF t, tail
  <2>3. ASSUME v <= n PROVE s[v] \notin {QUOTE} \cup Blank
    <3>1. CASE t = <<>>
      BY <3>1, <2>2, <2>3, EmptySeq DEF SEMI, QUOTE, Blank, TAB, LF, VT, FF, CR, SP
    <3>2. CASE t # <<>>
      <4>1. 1 \in 1 .. Len(t)
        BY <1>1, <1>2, <3>2, EmptySeq
      <4>2. s[v + 1 - 1] = t[1]
        BY <2>2, <4>1 DEF StandsAt
      <4>3. v + 1 - 1 = v
        OBVIOUS
      <4> QED BY <1>1, <1>5, <3>2, <4>2, <4>3
    <3> QED BY <3>1, <3>2
  <2>4. At(s, v) # QUOTE
    BY <1>2, <1>3, <2>3 DEF At, NUL, QUOTE
  <2>5. HeaderText(s, v) = [text |-> t, next |-> e]
    BY <1>1, <1>5, <2>2, <2>4, BareText
  <2> QED BY <1>3, <2>3, <2>5 DEF t
<1> QED BY <1>1, <1>4, <1>5

(* So the walk puts the parameter out and goes on to that semicolon.        *)
LEMMA ParamRead ==
  ASSUME NEW s \in Seq(Byte), NEW p \in Param, NEW i, NEW b, NEW c, NEW d, NEW v, NEW e,
         ParamPlaced(s, p, i, b, c, d, v, e), e <= Len(s) => s[e] = SEMI
  PROVE  /\ i \in 1 .. Len(s) /\ ParamNext(s)[i] = e
         /\ ParamOut(s)[i] = <<[name |-> p.name, value |-> p.text]>>
<1> DEFINE g == d + 1
<1>1. /\ i \in 1 .. Len(s) /\ s[i] = SEMI /\ d \in Nat /\ v \in Nat /\ e \in Nat /\ d < v /\ d <= Len(s) /\ s[d] = EQ
      /\ \A j \in Nat : d < j /\ j < v => s[j] \in Blank
      /\ StandsAt(s, v, ParamTail(p)) /\ e = v + Len(ParamTail(p))
      /\ i < d
  BY DEF ParamPlaced
<1>2. ParamEq(s, i) = d /\ SubSeq(s, ParamName(s, i), ParamStop(s, i) - 1) = p.name
  BY ParamNameRead
<1>3. /\ HeaderText(s, v) = [text |-> p.text, next |-> e]
      /\ v <= Len(s) => s[v] \notin Blank
      /\ v >= 1 /\ v <= Len(s) + 1
  BY <1>1, ParamValueRead
<1>4. g \in Nat /\ g > 0 /\ g <= v /\ \A j \in Nat : g <= j <=> d < j
  BY <1>1
<1> HIDE DEF g
<1>5. Skip(s, g, Blank) = v
  BY <1>1, <1>4, <1>3, SkipFirst
<1>6. ParamValue(s, i) = [text |-> p.text, next |-> e]
  BY <1>2, <1>3, <1>5 DEF ParamValue, g
<1>7. ParamGood(s, i)
  BY <1>1, <1>2, LenProperties DEF ParamGood, At
<1>8. ParamNext(s)[i] = e
  BY <1>1, <1>6, <1>7 DEF ParamNext
<1>9. ParamOut(s)[i] = <<[name |-> p.name, value |-> p.text]>>
  <2>1. ParamOut(s)[i] = <<[name |-> SubSeq(s, ParamName(s, i), ParamStop(s, i) - 1), value |-> ParamValue(s, i).text]>>
    BY <1>1, <1>7 DEF ParamOut
  <2>2. ParamValue(s, i).text = p.text
    BY <1>6
  <2> QED BY <1>2, <2>1, <2>2
<1> QED BY <1>1, <1>8, <1>9
-------------------------------------------------------------------------------
(* So they are in what a browser sends.                                     *)
LEMMA DispositionStands ==
  ASSUME NEW value \in Text, NEW ps \in Seq(Param), NEW n \in Nat, n = Len(ps)
  PROVE  /\ Disposition(value, ps) \in Text /\ StandsAt(Disposition(value, ps), 1, value)
         /\ \E at : ParamsStand(Disposition(value, ps), ps, n, at) /\ at[1] = Len(value) + 1
<1> DEFINE pts == [k \in DOMAIN ps |-> ParamText(ps[k])]
           f == FlattenSeq(pts)
           s == Disposition(value, ps)
           l == Len(value)
           m == Len(f)
           at == [k \in 1 .. n + 1 |-> (l + Upto(pts, k - 1)) + 1]
           T == Seq(Byte)
<1>1. s = value \o f
  BY DEF Disposition, ParamText, ParamTail
<1> HIDE DEF s
<1>2. DOMAIN ps = 1 .. n /\ \A k \in 1 .. n : ps[k] \in Param
  BY LenProperties, ElementOfSeq
<1>3. \A k \in 1 .. n : pts[k] = ParamText(ps[k]) /\ pts[k] \in T
  BY <1>2, ParamIs
<1>4. pts \in Seq(T) /\ Len(pts) = n
  BY <1>2, <1>3, ASequence
<1> HIDE DEF pts
<1>5. f \in T /\ PlacedIn(pts)
  BY <1>4, FlattenTyped, Placed
<1>6. l \in Nat /\ value \in T
  BY LenProperties DEF Text
<1> HIDE DEF f
<1>7. m \in Nat
  BY <1>5, LenProperties
<1>8. /\ s \in T /\ Len(s) = l + m
      /\ \A j \in 1 .. l + m : s[j] = IF j <= l THEN value[j] ELSE f[j - l]
  BY <1>5, <1>6, <1>1, ConcatProperties DEF T
<1>9. /\ Upto(pts, 0) = 0 /\ Upto(pts, n) = m
      /\ \A k \in 0 .. n : Upto(pts, k) \in 0 .. m
      /\ \A k \in 1 .. n : Upto(pts, k) = Upto(pts, k - 1) + Len(pts[k])
      /\ \A k \in 1 .. n : \A j \in 1 .. Len(pts[k]) : f[Upto(pts, k - 1) + j] = pts[k][j]
  BY <1>4, <1>5 DEF PlacedIn, f
<1> HIDE DEF l, m
<1>10. StandsAt(s, 1, value)
  <2>1. \A j \in 1 .. l : s[1 + j - 1] = value[j]
    <3> SUFFICES ASSUME NEW j \in 1 .. l PROVE s[1 + j - 1] = value[j]
      OBVIOUS
    <3>1. 1 + j - 1 = j /\ j \in 1 .. l + m /\ j <= l
      BY <1>6, <1>7
    <3> QED BY <1>8, <3>1
  <2>2. 1 + l <= Len(s) + 1 /\ 1 \in Nat \ {0}
    BY <1>6, <1>7, <1>8
  <2> QED BY <2>1, <2>2 DEF StandsAt, l
<1>11. \A k \in 1 .. n + 1 : at[k] = (l + Upto(pts, k - 1)) + 1
  OBVIOUS
<1> HIDE DEF at
<1>12. at[1] = l + 1 /\ at[n + 1] = Len(s) + 1
  <2>1. 1 \in 1 .. n + 1 /\ n + 1 \in 1 .. n + 1 /\ 1 - 1 = 0 /\ (n + 1) - 1 = n
    OBVIOUS
  <2>2. at[1] = (l + Upto(pts, 0)) + 1 /\ at[n + 1] = (l + Upto(pts, n)) + 1
    BY <1>11, <2>1
  <2> QED BY <1>6, <1>7, <1>8, <1>9, <2>2
<1>13. ASSUME NEW k \in 1 .. n
       PROVE  StandsAt(s, at[k], pts[k]) /\ at[k + 1] = at[k] + Len(pts[k])
  <2> DEFINE u == Upto(pts, k - 1)
             w == Upto(pts, k)
             t == pts[k]
             c == Len(t)
             i == at[k]
  <2>1. k \in 1 .. n + 1 /\ k + 1 \in 1 .. n + 1 /\ (k + 1) - 1 = k /\ k - 1 \in 0 .. n /\ k \in 0 .. n
    OBVIOUS
  <2>2. u \in Nat /\ w \in Nat /\ w <= m /\ w = u + c
    BY <1>7, <1>9, <2>1
  <2>3. at[k + 1] = (l + w) + 1 /\ i = (l + u) + 1
    BY <1>11, <2>1
  <2>4. c \in Nat
    BY <1>3, LenProperties
  <2>5. \A j \in 1 .. c : f[u + j] = t[j]
    BY <1>9
  <2> HIDE DEF u, w, t, c, i
  <2>6. i \in Nat \ {0} /\ i + c <= Len(s) + 1 /\ at[k + 1] = i + c
    BY <1>6, <1>7, <1>8, <2>2, <2>3, <2>4
  <2>7. ASSUME NEW j \in 1 .. c PROVE s[i + j - 1] = t[j]
    <3> DEFINE x == l + (u + j)
    <3>1. x \in 1 .. l + m /\ ~(x <= l) /\ x - l = u + j /\ i + j - 1 = x
      BY <1>6, <1>7, <2>2, <2>3, <2>4
    <3> HIDE DEF x
    <3> QED BY <1>8, <2>5, <3>1
  <2> QED BY <2>6, <2>7 DEF StandsAt, t, c, i
<1>14. ParamsStand(s, ps, n, at)
  BY <1>3, <1>12, <1>13 DEF ParamsStand
<1> QED BY <1>8, <1>10, <1>12, <1>14 DEF s, l, Text, T

(* The walk comes from each parameter to the next, and reads it.            *)
LEMMA ParamTurn ==
  ASSUME NEW s \in Seq(Byte), NEW ps \in Seq(Param), NEW n \in Nat, NEW at, ParamsStand(s, ps, n, at),
         NEW k \in 1 .. n
  PROVE  /\ at[k] \in 1 .. Len(s) /\ ParamNext(s)[at[k]] = at[k + 1]
         /\ ParamOut(s)[at[k]] = <<[name |-> ps[k].name, value |-> ps[k].text]>>
<1>1. \A j \in 1 .. n : ps[j] \in Param
  BY ElementOfSeq DEF ParamsStand
<1>2. StandsAt(s, at[k], ParamText(ps[k])) /\ at[k + 1] = at[k] + Len(ParamText(ps[k]))
  BY DEF ParamsStand
<1> DEFINE i == at[k]
           p == ps[k]
<1>3. PICK b, c, d, v, e \in Nat : ParamPlaced(s, p, i, b, c, d, v, e) /\ e = i + Len(ParamText(p))
  BY <1>1, <1>2, ParamParts
<1>4. e = at[k + 1]
  BY <1>2, <1>3
<1>5. ASSUME e <= Len(s) PROVE s[e] = SEMI
  <2>1. k # n
    <3> SUFFICES ASSUME k = n PROVE FALSE
      OBVIOUS
    <3>1. e = Len(s) + 1
      BY <1>4 DEF ParamsStand
    <3>2. Len(s) \in Nat
      BY LenProperties
    <3> QED BY <1>5, <3>1, <3>2
  <2> DEFINE j == k + 1
  <2>2. j \in 1 .. n
    BY <2>1
  <2>3. e = at[j]
    BY <1>4
  <2> HIDE DEF j
  <2>4. StandsAt(s, e, ParamText(ps[j])) /\ ps[j] \in Param
    BY <1>1, <2>2, <2>3 DEF ParamsStand
  <2>5. \E b2, c2, d2, v2, e2 \in Nat : ParamPlaced(s, ps[j], e, b2, c2, d2, v2, e2) /\ e2 = e + Len(ParamText(ps[j]))
    BY <2>4, ParamParts
  <2> QED BY <2>5 DEF ParamPlaced
<1> HIDE DEF i
<1>6. i \in 1 .. Len(s) /\ ParamNext(s)[i] = e /\ ParamOut(s)[i] = <<[name |-> p.name, value |-> p.text]>>
  BY <1>1, <1>3, <1>5, ParamRead
<1> QED BY <1>4, <1>6 DEF i, p

(* So the parameters are read as they were sent.                            *)
LEMMA ParamsRead ==
  ASSUME NEW s \in Seq(Byte), NEW ps \in Seq(Param), NEW n \in Nat, NEW at, ParamsStand(s, ps, n, at),
         at[1] \in Nat
  PROVE  Parameters(s, at[1]) = Pairs(ps)
<1> DEFINE rs == Pairs(ps)
           R == {rs[k] : k \in 1 .. n}
           ws == [k \in 1 .. Len(rs) |-> <<rs[k]>>]
           l == Len(s)
<1>1. Len(ps) = n /\ at[n + 1] = l + 1 /\ l \in Nat
  BY LenProperties DEF ParamsStand
<1>2. rs \in Seq(R) /\ Len(rs) = n
  <2>1. rs = [k \in 1 .. n |-> rs[k]]
    BY <1>1 DEF Pairs
  <2> HIDE DEF rs
  <2>2. rs \in [1 .. n -> R]
    BY <2>1
  <2> HIDE DEF R
  <2> QED BY <2>2, ASequence
<1>3. \A k \in 1 .. n : rs[k] = [name |-> ps[k].name, value |-> ps[k].text]
  BY <1>1 DEF Pairs
<1> HIDE DEF rs
<1>4. ws \in Seq(Seq(R)) /\ Len(ws) = n /\ \A k \in 1 .. n : ws[k] = <<rs[k]>>
  <2> DEFINE T == Seq(R)
  <2>1. \A k \in 1 .. n : rs[k] \in R
    OBVIOUS
  <2> HIDE DEF R
  <2>2. \A k \in 1 .. n : ws[k] = <<rs[k]>>
    BY <1>2
  <2>3. \A k \in 1 .. n : ws[k] \in T
    <3>1. \A x \in R : <<x>> \in Seq(R)
      OBVIOUS
    <3> HIDE DEF ws
    <3> QED BY <2>1, <2>2, <3>1 DEF T
  <2>4. ws = [k \in 1 .. n |-> ws[k]]
    BY <1>2
  <2> HIDE DEF ws, T
  <2>5. ws \in [1 .. n -> T]
    BY <2>3, <2>4
  <2>6. ws \in Seq(T) /\ Len(ws) = n
    BY <2>5, ASequence
  <2> QED BY <2>2, <2>6 DEF T
<1>5. FlattenSeq(ws) = rs
  BY <1>2, FlattenOnes
<1> HIDE DEF ws, R, l
<1>6. \A k \in 1 .. n : /\ at[k] \in 1 .. l /\ ParamNext(s)[at[k]] = at[k + 1]
                        /\ ParamOut(s)[at[k]] = ws[k]
  <2> SUFFICES ASSUME NEW k \in 1 .. n
               PROVE  /\ at[k] \in 1 .. l /\ ParamNext(s)[at[k]] = at[k + 1]
                      /\ ParamOut(s)[at[k]] = ws[k]
    OBVIOUS
  <2>1. /\ at[k] \in 1 .. Len(s) /\ ParamNext(s)[at[k]] = at[k + 1]
        /\ ParamOut(s)[at[k]] = <<[name |-> ps[k].name, value |-> ps[k].text]>>
    BY ParamTurn
  <2> QED BY <1>3, <1>4, <2>1 DEF l
<1>7. Along(ParamNext(s), ParamOut(s), l, at, ws)
  <2>1. Len(ws) = n
    BY <1>4
  <2>2. at[1] \in Nat /\ at[Len(ws) + 1] \in Nat /\ at[Len(ws) + 1] \notin 1 .. l
    BY <1>1, <2>1
  <2> QED BY <1>6, <2>1, <2>2, Zenon DEF Along
<1>8. Forward(ParamNext(s), l) /\ Parameters(s, at[1]) = Walk(ParamNext(s), ParamOut(s), at[1])
  BY ParamWalk DEF l
<1>9. Walk(ParamNext(s), ParamOut(s), at[1]) = FlattenSeq(ws)
  <2> DEFINE next == ParamNext(s)
             out == ParamOut(s)
  <2>1. Forward(next, l) /\ Along(next, out, l, at, ws)
    BY <1>7, <1>8
  <2> HIDE DEF next, out
  <2>2. Walk(next, out, at[1]) = FlattenSeq(ws)
    BY <1>1, <1>4, <2>1, WalkAlong
  <2> QED BY <2>2 DEF next, out
<1> QED BY <1>5, <1>8, <1>9 DEF rs

(* The value before the parameters.                                         *)
LEMMA ValueRead ==
  ASSUME NEW s \in Seq(Byte), NEW value \in Unquoted, StandsAt(s, 1, value),
         NEW e \in Nat, e = Len(value) + 1, e <= Len(s) => s[e] = SEMI
  PROVE  HeaderText(s, Skip(s, 1, Blank)) = [text |-> value, next |-> e]
<1> DEFINE n == Len(s)
           l == Len(value)
           one == 1
<1>1. value \in Seq(Byte) /\ DOMAIN value = 1 .. l /\ l \in Nat /\ n \in Nat /\ DOMAIN s = 1 .. n
      /\ SEMI \notin ToSet(value) /\ At(value, 1) \notin {QUOTE} \cup Blank
  BY LenProperties DEF Unquoted, Text
<1>2. \A j \in 1 .. l : value[j] # SEMI
  BY <1>1 DEF ToSet
<1>3. n >= 1 => s[1] \notin {QUOTE} \cup Blank
  <2> SUFFICES ASSUME n >= 1 PROVE s[1] \notin {QUOTE} \cup Blank
    OBVIOUS
  <2>1. CASE l = 0
    BY <2>1 DEF SEMI, QUOTE, Blank, TAB, LF, VT, FF, CR, SP
  <2>2. CASE l # 0
    BY <1>1, <2>2 DEF StandsAt, At
  <2> QED BY <2>1, <2>2
<1>4. Skip(s, 1, Blank) = 1
  <2>1. one \in Nat /\ one > 0 /\ one <= one /\ one <= n + 1
        /\ (\A j \in Nat : one <= j /\ j < one => s[j] \in Blank)
        /\ (one <= n => s[one] \notin Blank)
    BY <1>1, <1>3
  <2> HIDE DEF one
  <2>2. Skip(s, one, Blank) = one
    BY <2>1, SkipFirst
  <2> QED BY <2>2 DEF one
<1>5. At(s, 1) # QUOTE
  BY <1>1, <1>3 DEF At, NUL, QUOTE
<1>6. one \in Nat /\ e = one + Len(value)
  BY <1>1
<1>7. HeaderText(s, one) = [text |-> value, next |-> e]
  BY <1>5, <1>1, <1>2, <1>6, BareText
<1> QED BY <1>4, <1>7
-------------------------------------------------------------------------------
(* The last parameter of a name.                                            *)
LEMMA LastOf ==
  ASSUME NEW n \in Nat, NEW S, S \subseteq 1 .. n, S # {}
  PROVE  Max(S) \in S
<1> DEFINE D == {n - y : y \in S}
<1>1. D \subseteq Nat /\ D # {}
  <2>1. \A y \in S : n - y \in Nat
    BY SMT
  <2>2. PICK x : x \in S
    OBVIOUS
  <2>3. n - x \in D
    BY <2>2
  <2> QED BY <2>1, <2>3
<1>2. Min(D) \in D /\ \A y \in D : Min(D) <= y
  BY <1>1, LeastOf
<1>3. PICK x \in S : Min(D) = n - x
  BY <1>2
<1>4. \A y \in S : y <= x
  <2> SUFFICES ASSUME NEW y \in S PROVE y <= x
    OBVIOUS
  <2>1. n - y \in D
    OBVIOUS
  <2>2. n - x <= n - y
    BY <1>2, <1>3, <2>1
  <2>3. x \in Nat /\ y \in Nat
    OBVIOUS
  <2> QED BY <2>2, <2>3
<1>5. S \subseteq Int
  OBVIOUS
<1>6. Max(S) = x
  BY <1>4, <1>5, GreatestIs
<1> QED BY <1>6

(* LastNamed is the last parameter of the name, or 0 if there is none.      *)
LEMMA LastNamedIs ==
  ASSUME NEW ps \in Seq(Param), NEW name
  PROVE  /\ LastNamed(Pairs(ps), name) = IF ParamsNamed(ps, name) = {} THEN 0 ELSE Max(ParamsNamed(ps, name))
         /\ ParamsNamed(ps, name) # {} => Max(ParamsNamed(ps, name)) \in 1 .. Len(ps)
<1> DEFINE n == Len(ps)
           S == ParamsNamed(ps, name)
           rs == Pairs(ps)
           I == {i \in 1 .. Len(rs) : cgiStrEqNc(rs[i].name, name)}
<1>1. n \in Nat
  BY LenProperties
<1>2. Len(rs) = n /\ \A k \in 1 .. n : rs[k].name = ps[k].name
  BY <1>1 DEF Pairs, n
<1> HIDE DEF rs
<1>3. I = S
  BY <1>2 DEF ParamsNamed
<1>4. LastNamed(rs, name) = IF I # {} THEN Max(I) ELSE 0
  BY DEF LastNamed, SelectLastInSeq
<1>5. S \subseteq 1 .. n
  BY DEF ParamsNamed
<1> HIDE DEF I, S, n
<1>6. S # {} => Max(S) \in 1 .. n
  BY <1>1, <1>5, LastOf
<1> QED BY <1>3, <1>4, <1>6 DEF S, rs, n

(* A disposition is read as it was sent.                                    *)
LEMMA DispositionRead ==
  ASSUME NEW value \in Unquoted, NEW ps \in Seq(Param), NEW n \in Nat, n = Len(ps)
  PROVE  LET s == Disposition(value, ps)
         IN  HeaderText(s, Skip(s, 1, Blank)) = [text |-> value, next |-> Len(value) + 1]
             /\ Parameters(s, Len(value) + 1) = Pairs(ps)
<1> DEFINE s == Disposition(value, ps)
           e == Len(value) + 1
<1>1. value \in Text
  BY DEF Unquoted
<1>2. s \in Text /\ StandsAt(s, 1, value) /\ \E at : ParamsStand(s, ps, n, at) /\ at[1] = e
  BY <1>1, DispositionStands
<1>3. PICK at : ParamsStand(s, ps, n, at) /\ at[1] = e
  BY <1>2
<1>4. e \in Nat /\ Len(s) \in Nat
  BY <1>1, <1>2, LenProperties DEF Text
<1> HIDE DEF s, e
<1>5. Parameters(s, e) = Pairs(ps)
  BY <1>2, <1>3, <1>4, ParamsRead DEF Text
<1>6. ASSUME e <= Len(s) PROVE s[e] = SEMI
  <2>1. n # 0
    <3> SUFFICES ASSUME n = 0 PROVE FALSE
      OBVIOUS
    <3>1. at[0 + 1] = Len(s) + 1
      BY <1>3 DEF ParamsStand
    <3> QED BY <1>3, <1>4, <1>6, <3>1
  <2>2. 1 \in 1 .. n
    BY <2>1
  <2>3. ps[1] \in Param /\ StandsAt(s, e, ParamText(ps[1]))
    BY <1>3, <2>2, ElementOfSeq DEF ParamsStand
  <2>4. \E b, c, d, v, f \in Nat : ParamPlaced(s, ps[1], e, b, c, d, v, f) /\ f = e + Len(ParamText(ps[1]))
    BY <1>2, <2>3, ParamParts DEF Text
  <2> QED BY <2>4 DEF ParamPlaced
<1>7. HeaderText(s, Skip(s, 1, Blank)) = [text |-> value, next |-> e]
  BY <1>2, <1>4, <1>6, ValueRead DEF Text, e
<1> QED BY <1>5, <1>7 DEF s, e

(* What decomposeValue answers is the value and the last text of each name; *)
(* the null pointer is met if and only if a name is sent that was not asked *)
(* for.                                                                     *)
LEMMA DispositionStaysRead == TextsRight => DispositionIsRead
<1> DEFINE ps == call.sent
           value == call.value
           space == call.space
           n == Len(ps)
           s == Disposition(value, ps)
           is(k, i) == cgiStrEqNc(ps[k].name, ArgNames[i])
           mine(i) == {k \in DOMAIN ps : is(k, i)}
           rs == Pairs(ps)
           known(p) == \E i \in DOMAIN ArgNames : cgiStrEqNc(p.name, ArgNames[i])
           arg(k) == IF k = 0 THEN <<>> ELSE Clip(rs[k].value, space)
<1> SUFFICES ASSUME TextsRight, Answered("header")
             PROVE  /\ result.mvalue = value
                    /\ result.args = [i \in DOMAIN ArgNames |->
                                        IF mine(i) = {} THEN <<>> ELSE Clip(ps[Max(mine(i))].text, space)]
                    /\ result.null <=> space > 0 /\ \E k \in DOMAIN ps : \A i \in DOMAIN ArgNames : ~is(k, i)
  BY DEF DispositionIsRead
<1>1. value \in Unquoted /\ ps \in Seq(Param) /\ space \in Nat
  BY Asked, CallIs DEF HeaderCall
<1>2. result = decomposeValue(s, ArgNames, space)
  BY Asked DEF Answer
<1> HIDE DEF ps, value, space
<1>3. n \in Nat /\ DOMAIN ps = 1 .. n
  BY <1>1, LenProperties
<1>4. HeaderText(s, Skip(s, 1, Blank)) = [text |-> value, next |-> Len(value) + 1]
      /\ Parameters(s, Len(value) + 1) = rs
  BY <1>1, <1>3, DispositionRead
<1>5. DOMAIN rs = 1 .. n /\ \A k \in 1 .. n : rs[k].name = ps[k].name /\ rs[k].value = ps[k].text
  BY DEF Pairs
<1> HIDE DEF s, rs, n
<1>6. /\ result.mvalue = value
      /\ result.args = [i \in DOMAIN ArgNames |-> arg(LastNamed(rs, ArgNames[i]))]
      /\ result.null <=> space > 0 /\ \E k \in DOMAIN rs : ~known(rs[k])
  <2> DEFINE m == HeaderText(s, Skip(s, 1, Blank))
             qs == Parameters(s, m.next)
  <2>1. m.text = value /\ m.next = Len(value) + 1 /\ qs = rs
    BY <1>4
  <2>2. result = [mvalue |-> m.text,
                  args |-> [i \in DOMAIN ArgNames |->
                              LET k == LastNamed(qs, ArgNames[i])
                              IN  IF k = 0 THEN <<>> ELSE Clip(qs[k].value, space)],
                  null |-> space > 0 /\ \E k \in DOMAIN qs : ~known(qs[k])]
    BY <1>2 DEF decomposeValue
  <2> HIDE DEF m, qs, known
  <2> QED BY <2>1, <2>2
<1>7. ASSUME NEW i \in DOMAIN ArgNames
      PROVE  arg(LastNamed(rs, ArgNames[i])) =
               IF mine(i) = {} THEN <<>> ELSE Clip(ps[Max(mine(i))].text, space)
  <2> DEFINE S == ParamsNamed(ps, ArgNames[i])
  <2>1. mine(i) = S
    BY <1>3 DEF ParamsNamed, n
  <2>2. LastNamed(rs, ArgNames[i]) = IF S = {} THEN 0 ELSE Max(S)
    BY <1>1, LastNamedIs DEF rs
  <2>3. S # {} => Max(S) \in 1 .. n
    BY <1>1, LastNamedIs DEF n
  <2> HIDE DEF S, mine
  <2>4. CASE S = {}
    BY <2>1, <2>2, <2>4
  <2>5. CASE S # {}
    <3> DEFINE k == Max(S)
    <3>1. k \in 1 .. n /\ k # 0
      BY <2>3, <2>5
    <3> HIDE DEF k
    <3>2. arg(k) = Clip(ps[k].text, space)
      BY <1>5, <3>1
    <3> QED BY <2>1, <2>2, <2>5, <3>2 DEF k
  <2> QED BY <2>4, <2>5
<1>8. (\E k \in DOMAIN rs : ~known(rs[k])) <=> \E k \in DOMAIN ps : \A i \in DOMAIN ArgNames : ~is(k, i)
  BY <1>3, <1>5
<1> HIDE DEF arg, mine, known, is
<1> QED BY <1>6, <1>7, <1>8

(* What the headers of a browser say about a form is what is read of them.  *)
THEOREM HeadersAreAlwaysRead == Spec => []HeadersAreRead
<1>1. TextsRight => HeadersAreRead
  BY BoundaryStaysRead, DispositionStaysRead DEF HeadersAreRead
<1> QED BY <1>1, TextsAreRight, PTL
=============================================================================
