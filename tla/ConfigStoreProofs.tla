---------------------------- MODULE ConfigStoreProofs ----------------------------
(***************************************************************************)
(* Memory and disk agree between requests, for all parameters that the      *)
(* forms can carry and whatever fails on the way.                           *)
(***************************************************************************)
EXTENDS ConfigStore, FiniteSetTheorems, TLAPS

(* SavedIsOnDisk holds between requests only: a handler changes pa first    *)
(* and saves it later.  A LAN test changes neither, so that during one they *)
(* go on to agree; nothing has been saved when the daemon starts; and only  *)
(* a handler that saves gets to paramSave.                                  *)
DiskOK ==
  /\ saved \in BOOLEAN /\ "op" \in DOMAIN job
  /\ saved /\ flushed /\ (pc = "idle" \/ job.op = "LANTEST") => file = WholeFile(pa)
  /\ pc = "down" \/ job.op = "BOOT" => ~saved
  /\ pc \in {"save", "write"} => job.op \in Saving

(* The end of setNetParameters, by either way, keeps it.                    *)
LEMMA NetDoneKeepsDisk ==
  ASSUME DiskOK, NetDone, UNCHANGED <<file, saved, flushed>>, pc # "down"
  PROVE  DiskOK'
<1>1. CASE job.op = "BOOT"
  BY <1>1 DEF NetDone, DiskOK, NoJob, Saving
<1>2. CASE job.op = "NETCONFIGSAVE"
  <2>1. pc' \in {"ip", "save"} /\ "op" \in DOMAIN job' /\ job'.op = "NETCONFIGSAVE"
    BY <1>2 DEF NetDone, DiskOK
  <2> QED BY <1>2, <2>1 DEF DiskOK, Saving
<1>3. CASE job.op = "LANTEST"
  <2>1. pa' = pa /\ pc' \in {"idle", "ping"} /\ job' \in {job, NoJob}
    BY <1>3 DEF NetDone, Confirm
  <2>2. WholeFile(pa)' = WholeFile(pa)
    BY <2>1 DEF WholeFile, Encode
  <2> QED BY <1>3, <2>1, <2>2 DEF DiskOK, NoJob
<1> QED BY <1>1, <1>2, <1>3 DEF NetDone

(* So does its failure, which only a LAN test survives with saved set.      *)
LEMMA NetFailedKeepsDisk ==
  ASSUME DiskOK, NEW status, NetFailed(status), UNCHANGED <<file, flushed>>
  PROVE  DiskOK'
<1>1. CASE job.op = "LANTEST"
  BY <1>1 DEF NetFailed, DiskOK, Confirm, NoJob, WholeFile, Encode
<1>2. CASE job.op # "LANTEST"
  <2>1. saved' = FALSE /\ pc' \in {"idle", "down"} /\ job' = NoJob
    BY <1>2 DEF NetFailed, Confirm
  <2>2. "op" \in DOMAIN NoJob
    BY DEF NoJob
  <2> QED BY <2>1, <2>2 DEF DiskOK
<1> QED BY <1>1, <1>2

(* A request that changes nothing but its answer.                           *)
LEMMA AnswerKeepsDisk ==
  ASSUME DiskOK, NEW op, NEW status, Answer(op, status)
  PROVE  DiskOK'
BY DEF Answer, DiskOK, WholeFile, Encode

(* The handlers that change pa go on to paramSave.                          *)
LEMMA SaveJobKeepsDisk ==
  ASSUME DiskOK, NEW op \in Saving, Begin("save", SaveJob(op))
  PROVE  DiskOK'
BY DEF Begin, SaveJob, DiskOK, Saving

(* The handlers that set the interfaces begin with pa as it is.             *)
LEMMA NetJobKeepsDisk ==
  ASSUME DiskOK, NEW op, NEW lan, NEW net, NEW next, op # "BOOT",
         Begin("ip", NetJob(op, lan, net, next)), UNCHANGED pa
  PROVE  DiskOK'
BY DEF Begin, NetJob, DiskOK, WholeFile, Encode

(* A change that was confirmed, and of which fclose lost nothing, stays on  *)
(* disk, whole, and memory agrees with it, until an operation fails or the  *)
(* daemon ends.                                                             *)
THEOREM ConfirmedIsOnDisk == Spec => []SavedIsOnDisk
<1>1. Init => DiskOK
  BY DEF Init, DiskOK, NoJob
<1>2. DiskOK /\ [Next]_vars => DiskOK'
  <2> SUFFICES ASSUME DiskOK, [Next]_vars PROVE DiskOK'
    OBVIOUS
  <2>1. CASE Start
    BY <2>1 DEF Start, DiskOK, NetJob
  <2>2. CASE Crash
    BY <2>2 DEF Crash, DiskOK, NoJob
  <2>3. CASE SetIp
    <3>1. CASE \E status : NetFailed(status)
      BY <2>3, <3>1, NetFailedKeepsDisk DEF SetIp
    <3>2. CASE pc' = "mask" /\ UNCHANGED <<pa, job, reply, saved>>
      BY <2>3, <3>2 DEF SetIp, DiskOK, WholeFile, Encode
    <3> QED BY <2>3, <3>1, <3>2 DEF SetIp
  <2>4. CASE SetMask
    <3>1. CASE \E status : NetFailed(status)
      BY <2>4, <3>1, NetFailedKeepsDisk DEF SetMask
    <3>2. CASE pc' = "gateway" /\ UNCHANGED <<pa, job, reply, saved>>
      BY <2>4, <3>2 DEF SetMask, DiskOK, WholeFile, Encode
    <3> QED BY <2>4, <3>1, <3>2 DEF SetMask
  <2>5. CASE SetGateway
    BY <2>5 DEF SetGateway, DiskOK, WholeFile, Encode
  <2>6. CASE KeepMac
    BY <2>6, NetDoneKeepsDisk DEF KeepMac
  <2>7. CASE SetMac
    <3>1. CASE \E status : NetFailed(status)
      BY <2>7, <3>1, NetFailedKeepsDisk DEF SetMac
    <3>2. CASE pc' = "up" /\ UNCHANGED <<pa, job, reply, saved>>
      BY <2>7, <3>2 DEF SetMac, DiskOK, WholeFile, Encode
    <3> QED BY <2>7, <3>1, <3>2 DEF SetMac
  <2>8. CASE IfUp
    BY <2>8 DEF IfUp, DiskOK, WholeFile, Encode
  <2>9. CASE LinkUp \/ NoLinkStatus
    BY <2>9, NetDoneKeepsDisk DEF LinkUp, NoLinkStatus, LeaveLinkWait
  <2>10. CASE PingTest
    BY <2>10 DEF PingTest, DiskOK, WholeFile, Encode
  <2>11. CASE OpenFails
    BY <2>11 DEF OpenFails, Confirm, NoJob, DiskOK
  <2>12. CASE Truncate
    BY <2>12 DEF Truncate, DiskOK, Saving
  <2>13. CASE Write
    BY <2>13 DEF Write, Confirm, NoJob, DiskOK, WholeFile, Encode
  <2>14. CASE doNetConfigSave
    BY <2>14, NetJobKeepsDisk DEF doNetConfigSave
  <2>15. CASE doLanTest
    BY <2>15, NetJobKeepsDisk DEF doLanTest
  <2>16. CASE doNetCapture \/ doNetFilter
    BY <2>16, SaveJobKeepsDisk DEF doNetCapture, doNetFilter, Saving
  <2>17. CASE doNormalUserMgr
    BY <2>17, SaveJobKeepsDisk, AnswerKeepsDisk DEF doNormalUserMgr, Saving
  <2>18. CASE doSuperUserMgr
    BY <2>18, SaveJobKeepsDisk, AnswerKeepsDisk DEF doSuperUserMgr, Saving
  <2>19. CASE doLogin \/ doAdminPasswdConfirm
    BY <2>19, AnswerKeepsDisk DEF doLogin, doAdminPasswdConfirm
  <2>20. CASE UNCHANGED vars
    BY <2>20 DEF vars, DiskOK, WholeFile, Encode
  <2> QED
    BY <2>1, <2>2, <2>3, <2>4, <2>5, <2>6, <2>7, <2>8, <2>9, <2>10, <2>11, <2>12, <2>13,
       <2>14, <2>15, <2>16, <2>17, <2>18, <2>19, <2>20
       DEF Next, SetNetParameters, paramSave, Request
<1>3. DiskOK => SavedIsOnDisk
  BY DEF DiskOK, SavedIsOnDisk
<1> QED BY <1>1, <1>2, <1>3, PTL DEF Spec

(* A file that paramSave truncated and did not write is never left behind   *)
(* by a daemon that goes on, unless fclose lost its end: anything else that *)
(* fails ends the daemon.                                                   *)
THEOREM TornByCrashAlone == Spec => []TornOnlyByCrash
<1>1. Init => TornOnlyByCrash
  BY DEF Init, NoFile, WholeFile, TornOnlyByCrash
<1>2. TornOnlyByCrash /\ [Next]_vars => TornOnlyByCrash'
  <2> SUFFICES ASSUME TornOnlyByCrash, [Next]_vars PROVE TornOnlyByCrash'
    OBVIOUS
  <2>1. CASE UNCHANGED <<file, flushed>> /\ pc \notin {"write", "down"}
    BY <2>1 DEF TornOnlyByCrash
  <2>2. CASE Start \/ Crash
    BY <2>2 DEF Start, Crash, Loadable, TornOnlyByCrash
  <2>3. CASE paramSave
    BY <2>3 DEF paramSave, OpenFails, Truncate, Write, WholeFile, TornOnlyByCrash
  <2>4. CASE SetNetParameters \/ PingTest
    BY <2>1, <2>4 DEF SetNetParameters, SetIp, SetMask, SetGateway, KeepMac, SetMac, IfUp,
       LinkUp, NoLinkStatus, LeaveLinkWait, PingTest
  <2>5. CASE Request
    BY <2>1, <2>5 DEF Request, doNetConfigSave, doLanTest, doNetCapture, doNetFilter,
       doNormalUserMgr, doSuperUserMgr, doLogin, doAdminPasswdConfirm, Begin, Answer
  <2>6. CASE UNCHANGED vars
    BY <2>6 DEF vars, TornOnlyByCrash
  <2> QED BY <2>2, <2>3, <2>4, <2>5, <2>6 DEF Next
<1> QED BY <1>1, <1>2, PTL DEF Spec
-------------------------------------------------------------------------------
(* Types.  What the file holds is part of them: it is what the next start   *)
(* loads, and a text is not longer for being saved and loaded.              *)
LEMMA EncodeType ==
  ASSUME NEW p \in param, KeysFit(p.passwd)
  PROVE  WholeFile(p) \in [is : {"whole"}, doc : Document] /\ KeysFit(WholeFile(p).doc.passwd)
<1>1. Encode(p) \in Document
  <2>1. \A b : BoolText(b) \in BoolTexts
    BY Zenon DEF BoolText, BoolTexts
  <2>2. \A n \in Lans : p.capture[n].autoUpLoadPath \in Seq(STRING)
    BY DEF param, captureParam
  <2>3. p.net \in [Lans -> netParam] /\ p.passwd \in [Users -> Seq(STRING)]
    BY DEF param
  <2> QED BY <2>1, <2>2, <2>3 DEF Encode, Document
<1>2. WholeFile(p).doc.passwd = p.passwd
  BY DEF WholeFile, Encode
<1> QED BY <1>1, <1>2 DEF WholeFile

(* The length of a text is that of its blanks and of its letters.           *)
LEMMA StrLenType ==
  ASSUME NEW t \in Seq(STRING)
  PROVE  /\ StrLen(t) \in Nat
         /\ t # <<>> /\ Last(t) # "none" => StrLen(t) >= 1
<1> DEFINE letters == {i \in DOMAIN t : t[i] # "none"}
<1>1. CASE t = <<>>
  BY <1>1 DEF StrLen
<1>2. CASE t # <<>>
  <2>1. Len(t) \in Nat /\ Len(t) >= 1 /\ DOMAIN t = 1..Len(t)
    BY <1>2
  <2>2. IsFiniteSet(letters)
    <3>1. letters \subseteq 1..Len(t) /\ IsFiniteSet(1..Len(t))
      BY <2>1, FS_Interval
    <3> QED BY <3>1, FS_Subset
  <2>3. Cardinality(letters) \in Nat
    BY <2>2, FS_CardinalityType
  <2>4. Last(t) # "none" => Cardinality(letters) # 0
    <3>1. Last(t) # "none" => Len(t) \in letters
      BY <1>2, <2>1 DEF Last
    <3> QED BY <2>2, <3>1, FS_EmptySet
  <2> QED BY <1>2, <2>1, <2>3, <2>4 DEF StrLen
<1> QED BY <1>1, <1>2

(* What is loaded of a text is no longer than the text, and is not empty    *)
(* unless the text ends in a blank.                                         *)
LEMMA LastWordFits ==
  ASSUME NEW t \in Seq(STRING)
  PROVE  /\ LastWord(t) \in Seq(STRING) /\ StrLen(LastWord(t)) <= StrLen(t)
         /\ LastWord(t) # <<>> => StrLen(LastWord(t)) # 0
<1>1. CASE LastWord(t) = <<>>
  <2>1. StrLen(LastWord(t)) = 0 /\ LastWord(t) \in Seq(STRING)
    BY <1>1 DEF StrLen
  <2> QED BY <1>1, <2>1, StrLenType
<1>2. CASE LastWord(t) # <<>>
  <2>1. t # <<>> /\ Last(t) # "none" /\ LastWord(t) = <<Last(t)>>
    BY <1>2 DEF LastWord
  <2>2. Last(t) \in STRING
    BY <2>1 DEF Last
  <2>3. StrLen(<<Last(t)>>) = 1
    <3> DEFINE word == <<Last(t)>>
               letters == {i \in DOMAIN word : word[i] # "none"}
    <3>1. letters = {1}
      BY <2>1
    <3>2. Len(word) = 1 /\ word # <<>>
      OBVIOUS
    <3>3. StrLen(word) = Len(word) - 1 + Cardinality(letters)
      BY <3>2 DEF StrLen
    <3> HIDE DEF letters, word
    <3>4. Cardinality(letters) = 1
      BY <3>1, FS_Singleton
    <3>5. StrLen(word) = 1
      BY <3>2, <3>3, <3>4
    <3> QED BY <3>5 DEF word
  <2> QED BY <2>1, <2>2, <2>3, StrLenType
<1> QED BY <1>1, <1>2

(* paramLoad makes parameters of any document, and passwords that fit.      *)
LEMMA DecodeType ==
  ASSUME StoreAssumption, NEW f \in Document, KeysFit(f.passwd)
  PROVE  Decode(f) \in param /\ KeysFit(Decode(f).passwd)
<1>1. \A n \in Lans : LoadCapture(f, n) \in captureParam
  <2> SUFFICES ASSUME NEW n \in Lans PROVE LoadCapture(f, n) \in captureParam
    OBVIOUS
  <2>1. f.path[n] \in Seq(STRING)
    BY DEF Document
  <2> QED BY <2>1, LastWordFits DEF LoadCapture, captureParam
<1>2. \A u \in Users : /\ LastWord(f.passwd[u]) \in Seq(STRING)
                       /\ StrLen(LastWord(f.passwd[u])) <= KeyMax
  <2> SUFFICES ASSUME NEW u \in Users
               PROVE  /\ LastWord(f.passwd[u]) \in Seq(STRING)
                      /\ StrLen(LastWord(f.passwd[u])) <= KeyMax
    OBVIOUS
  <2>1. f.passwd[u] \in Seq(STRING) /\ StrLen(f.passwd[u]) <= KeyMax
    BY DEF Document, KeysFit
  <2>2. \A t \in Seq(STRING) : StrLen(t) \in Int
    BY StrLenType
  <2> QED BY <2>1, <2>2, LastWordFits DEF StoreAssumption
<1>3. f.net \in [Lans -> netParam]
  BY DEF Document
<1> QED BY <1>1, <1>2, <1>3 DEF Decode, param, KeysFit
(* On to the second interface.                                              *)
LEMMA SecondLan ==
  ASSUME NEW j \in NetJobs, NEW net \in netParam
  PROVE  [j EXCEPT !.lan = 2, !.net = net] \in NetJobs
<1>1. 2 \in Lans
  BY DEF Lans
<1> QED BY <1>1 DEF NetJobs

(* The end of setNetParameters, by either way, keeps the types.             *)
LEMMA NetDoneKeepsTypes ==
  ASSUME TypeOK, pc \in Setting \ {"ping"}, NetDone, Settles,
         UNCHANGED <<file, iface, saved, flushed, blank>>
  PROVE  TypeOK'
<1>1. /\ job \in NetJobs
      /\ pa \in param /\ KeysFit(pa.passwd) /\ pa.net \in [Lans -> netParam]
  BY DEF TypeOK, Setting, Saving, param
<1>2. drift' \subseteq Lans
  BY DEF Settles, TypeOK
<1>3. CASE job.op = "BOOT"
  <2>1. pa.net[2] \in netParam /\ pa' = pa
    BY <1>1, <1>3 DEF NetDone, Lans
  <2>2. CASE job.lan = 1
    <3>1. pc' = "ip" /\ job' = [job EXCEPT !.lan = 2, !.net = pa.net[2]]
      BY <1>3, <2>2 DEF NetDone
    <3>2. job' \in NetJobs
      BY <1>1, <2>1, <3>1, SecondLan
    <3> QED BY <1>2, <2>1, <3>1, <3>2 DEF TypeOK, Setting, KeysFit
  <2>3. CASE job.lan # 1
    <3>1. pc' = "idle" /\ job' = NoJob
      BY <1>3, <2>3 DEF NetDone
    <3> QED BY <1>2, <2>1, <3>1 DEF TypeOK, KeysFit
  <2> QED BY <2>2, <2>3
<1>4. CASE job.op = "NETCONFIGSAVE"
  <2>0. /\ pa' = [pa EXCEPT !.net[job.lan] = job.net]
        /\ \/ pc' = "ip" /\ job' = [job EXCEPT !.lan = 2, !.net = job.next]
           \/ pc' = "save" /\ job' = job
    BY <1>4 DEF NetDone
  <2>1. pa' \in param /\ pa'.passwd = pa.passwd
    <3>1. pa' = [pa EXCEPT !.net = [pa.net EXCEPT ![job.lan] = job.net]]
      BY <2>0
    <3>2. [pa.net EXCEPT ![job.lan] = job.net] \in [Lans -> netParam]
      BY <1>1 DEF NetJobs
    <3> QED BY <1>1, <3>1, <3>2 DEF param
  <2>2. KeysFit(pa.passwd)'
    BY <1>1, <2>1 DEF KeysFit
  <2>3. \/ pc' \in {"save", "write"} /\ job'.op \in Saving
        \/ /\ pc' = "ip"
           /\ job' \in NetJobs
    <3>1. job.next \in netParam
      BY <1>1 DEF NetJobs
    <3> QED BY <1>1, <1>4, <2>0, <3>1, SecondLan DEF Saving
  <2> QED BY <1>2, <2>1, <2>2, <2>3 DEF TypeOK, Setting, KeysFit
<1>5. CASE job.op = "LANTEST"
  BY <1>1, <1>2, <1>5 DEF NetDone, Confirm, TypeOK, Setting, KeysFit
<1> QED BY <1>3, <1>4, <1>5 DEF NetDone

(* So does its failure.                                                     *)
LEMMA NetFailedKeepsTypes ==
  ASSUME StoreAssumption, TypeOK, NEW status, NetFailed(status),
         UNCHANGED <<file, drift, flushed, blank>>,
         iface' \in [Lans -> Interface]
  PROVE  TypeOK'
<1>1. pc' \in {"down", "idle"} /\ job' = NoJob /\ pa' \in {pa, InitPa} /\ saved' \in BOOLEAN
  BY DEF NetFailed, Confirm, Unloaded
<1>2. pa' \in param /\ KeysFit(pa.passwd)'
  BY <1>1 DEF TypeOK, StoreAssumption, KeysFit
<1> QED BY <1>1, <1>2 DEF TypeOK, KeysFit

(* A handler that changes pa, to another that fits, goes on to paramSave.   *)
LEMMA SaveJobKeepsTypes ==
  ASSUME TypeOK, NEW op \in Saving, Begin("save", SaveJob(op)),
         pa' \in param, KeysFit(pa.passwd)'
  PROVE  TypeOK'
BY DEF Begin, SaveJob, TypeOK, Setting, KeysFit

(* Answering changes nothing that has a type but the reply.                 *)
LEMMA AnswerKeepsTypes ==
  ASSUME TypeOK, NEW op, NEW status, Answer(op, status)
  PROVE  TypeOK'
BY DEF Answer, TypeOK, KeysFit

(* A handler that sets the interfaces begins with what the form carries.    *)
LEMMA NetJobKeepsTypes ==
  ASSUME TypeOK, NEW op \in {"NETCONFIGSAVE", "LANTEST"}, NEW lan \in Lans,
         NEW net \in netParam, NEW next \in netParam,
         Begin("ip", NetJob(op, lan, net, next)), UNCHANGED pa
  PROVE  TypeOK'
<1>1. job' \in NetJobs
  BY DEF Begin, NetJob, NetJobs
<1> QED BY <1>1 DEF Begin, TypeOK, Setting, KeysFit

(* A user's new password, which was found short enough.                     *)
LEMMA PasswdKeepsTypes ==
  ASSUME TypeOK, NEW u \in Users, NEW key \in Seq(STRING), StrLen(key) <= KeyMax,
         pa' = [pa EXCEPT !.passwd[u] = key]
  PROVE  pa' \in param /\ KeysFit(pa.passwd)'
<1>1. pa.passwd \in [Users -> Seq(STRING)]
  BY DEF TypeOK, param
<1>2. pa' \in param /\ pa'.passwd = [pa.passwd EXCEPT ![u] = key]
  BY <1>1 DEF TypeOK, param
<1> QED BY <1>1, <1>2 DEF TypeOK, KeysFit

(* Setting an address, or a mask, fails or changes the interface.           *)
NetFails == NetFailed("IP_INVALID") \/ NetFailed("ERR")

IpIsSet ==
  /\ pc = "ip" /\ pc' = "mask" /\ drift' = drift \cup {job.lan}
  /\ iface' = [iface EXCEPT ![job.lan].ip = job.net.ip, ![job.lan].mask = ClassMask]
  /\ UNCHANGED <<pa, file, job, reply, saved, flushed, blank>>

(* Setting the address: it fails and changes nothing, or it is set.         *)
LEMMA IpCases ==
  ASSUME SetIp
  PROVE  (NetFails /\ UNCHANGED <<file, iface, drift, flushed, blank>>) \/ IpIsSet
BY DEF SetIp, NetFails, IpIsSet

MaskIsSet ==
  /\ pc = "mask" /\ pc' = "gateway"
  /\ iface' = [iface EXCEPT ![job.lan].mask = job.net.mask]
  /\ UNCHANGED <<pa, file, job, reply, drift, saved, flushed, blank>>

(* The same of the mask.                                                    *)
LEMMA MaskCases ==
  ASSUME SetMask
  PROVE  (NetFails /\ UNCHANGED <<file, iface, drift, flushed, blank>>) \/ MaskIsSet
BY DEF SetMask, NetFails, MaskIsSet

(* Parameters of an interface that are set one by one, or two at a time.    *)
LEMMA InterfaceWith ==
  ASSUME NEW r \in Interface, NEW n \in Int, NEW m \in Int, NEW b \in BOOLEAN
  PROVE  /\ [r EXCEPT !.ip = n, !.mask = m] \in Interface
         /\ [r EXCEPT !.mask = n] \in Interface
         /\ [r EXCEPT !.gateway = n] \in Interface
         /\ [r EXCEPT !.up = b, !.mac = n] \in Interface
<1>1. [r EXCEPT !.ip = n, !.mask = m] \in Interface
  BY DEF Interface
<1>2. [r EXCEPT !.mask = n] \in Interface
  BY DEF Interface
<1>3. [r EXCEPT !.gateway = n] \in Interface
  BY DEF Interface
<1>4. [r EXCEPT !.up = b, !.mac = n] \in Interface
  BY DEF Interface
<1> QED BY <1>1, <1>2, <1>3, <1>4

(* An interface on which one system call changes some of its parameters.    *)
LEMMA IfaceKeepsTypes ==
  ASSUME TypeOK, NEW where \in Setting \ {"ping"}, pc \in Setting, pc' = where,
         UNCHANGED <<pa, file, job, saved, flushed, blank>>, drift' \subseteq Lans,
         iface' \in [Lans -> Interface]
  PROVE  TypeOK'
BY DEF TypeOK, Setting, Saving, KeysFit

(* Whatever requests carry and whatever fails, memory, file, interfaces and *)
(* the request under way have their types, and no password is longer than   *)
(* USR_KEY_LNE_MAX, as each user's array requires.                          *)
THEOREM StoreTypes == Spec => []TypeOK
<1> USE StoreAssumption
<1>1. Init => TypeOK
  <2> SUFFICES ASSUME Init PROVE TypeOK
    OBVIOUS
  <2>1. pa \in param /\ KeysFit(pa.passwd)
    BY DEF Init, Unloaded, StoreAssumption, KeysFit
  <2>2. \/ file \in {NoFile, TornFile}
        \/ file \in [is : {"whole"}, doc : Document] /\ KeysFit(file.doc.passwd)
    BY <2>1, EncodeType DEF Init, Unloaded
  <2>3. Fresh \in Interface
    BY DEF Fresh, Interface, StoreAssumption
  <2> QED BY <2>1, <2>2, <2>3 DEF Init, TypeOK
<1>2. TypeOK /\ [Next]_vars => TypeOK'
  <2> SUFFICES ASSUME TypeOK, [Next]_vars PROVE TypeOK'
    OBVIOUS
  <2> DEFINE Net == job \in NetJobs /\ job.lan \in Lans /\ job.net \in netParam
  <2>0. /\ iface \in [Lans -> Interface]
        /\ pc \in Setting => Net
    BY DEF TypeOK, Setting, Saving, NetJobs
  <2>1. CASE Start
    <3>1. file.doc \in Document /\ KeysFit(file.doc.passwd)
      BY <2>1 DEF Start, Loadable, TypeOK, NoFile, TornFile
    <3>2. pa' \in param /\ KeysFit(pa.passwd)'
      BY <2>1, <3>1, DecodeType DEF Start, KeysFit
    <3>3. pa'.net[1] \in netParam /\ pa'.net[2] \in netParam /\ 1 \in Lans
      BY <3>2 DEF param, Lans
    <3>4. job' \in NetJobs
      BY <2>1, <3>3 DEF Start, NetJob, NetJobs
    <3> QED BY <2>1, <3>2, <3>4 DEF Start, TypeOK, Setting
  <2>2. CASE Crash
    <3>1. InitPa \in param /\ KeysFit(InitPa.passwd)
      BY DEF StoreAssumption, KeysFit
    <3> QED BY <2>2, <3>1 DEF Crash, Unloaded, TypeOK, KeysFit
  <2>3. CASE SetIp
    <3>1. CASE NetFails /\ UNCHANGED <<file, iface, drift, flushed, blank>>
      BY <2>0, <3>1, NetFailedKeepsTypes DEF NetFails
    <3>2. CASE IpIsSet
      <4>1. iface' \in [Lans -> Interface]
        <5>1. iface' = [iface EXCEPT ![job.lan] =
                          [iface[job.lan] EXCEPT !.ip = job.net.ip, !.mask = ClassMask]]
          BY <2>0, <3>2 DEF IpIsSet, Setting
        <5>2. [iface[job.lan] EXCEPT !.ip = job.net.ip, !.mask = ClassMask] \in Interface
          <6>1. iface[job.lan] \in Interface /\ job.net.ip \in Int /\ ClassMask \in Int
            BY <2>0, <3>2 DEF IpIsSet, Setting, netParam, StoreAssumption
          <6> QED BY <6>1, InterfaceWith
        <5> QED BY <2>0, <5>1, <5>2
      <4>2. drift' \subseteq Lans
        BY <2>0, <3>2 DEF IpIsSet, Setting, TypeOK
      <4> QED BY <3>2, <4>1, <4>2, IfaceKeepsTypes DEF IpIsSet, Setting
    <3> QED BY <2>3, <3>1, <3>2, IpCases
  <2>4. CASE SetMask
    <3>1. CASE NetFails /\ UNCHANGED <<file, iface, drift, flushed, blank>>
      BY <2>0, <3>1, NetFailedKeepsTypes DEF NetFails
    <3>2. CASE MaskIsSet
      <4>1. iface' \in [Lans -> Interface]
        <5>1. Net
          BY <2>0, <3>2 DEF MaskIsSet, Setting
        <5>2. iface[job.lan] \in Interface /\ job.net.mask \in Int
          BY <2>0, <5>1 DEF netParam
        <5>3. [iface[job.lan] EXCEPT !.mask = job.net.mask] \in Interface
          BY <5>2, InterfaceWith
        <5> QED BY <2>0, <3>2, <5>1, <5>3 DEF MaskIsSet
      <4>2. drift' \subseteq Lans
        BY <3>2 DEF MaskIsSet, TypeOK
      <4> QED BY <3>2, <4>1, <4>2, IfaceKeepsTypes DEF MaskIsSet, Setting
    <3> QED BY <2>4, <3>1, <3>2, MaskCases
  <2>5. CASE SetGateway
    <3>1. iface' \in [Lans -> Interface]
      <4>1. Net
        BY <2>0, <2>5 DEF SetGateway, Setting
      <4>2. CASE iface' = [iface EXCEPT ![job.lan].gateway = job.net.gateway]
        <5>1. iface[job.lan] \in Interface /\ job.net.gateway \in Int
          BY <2>0, <4>1 DEF netParam
        <5>2. [iface[job.lan] EXCEPT !.gateway = job.net.gateway] \in Interface
          BY <5>1, InterfaceWith
        <5> QED BY <2>0, <4>1, <4>2, <5>2
      <4> QED BY <2>0, <2>5, <4>2 DEF SetGateway
    <3>2. drift' \subseteq Lans
      BY <2>5 DEF SetGateway, TypeOK
    <3> QED BY <2>5, <3>1, <3>2, IfaceKeepsTypes DEF SetGateway, Setting
  <2>6. CASE KeepMac
    BY <2>6, NetDoneKeepsTypes DEF KeepMac, Setting
  <2>7. CASE SetMac
    <3>1. PICK b \in {FALSE, iface[job.lan].up} :
            \/ /\ iface' = [iface EXCEPT ![job.lan].up = b]
               /\ NetFailed("ERR")
            \/ /\ iface' = [iface EXCEPT ![job.lan].up = b, ![job.lan].mac = job.net.mac]
               /\ pc' = "up"
               /\ UNCHANGED <<pa, job, reply, saved>>
      BY <2>7 DEF SetMac
    <3>2. b \in BOOLEAN /\ Net
      BY <2>0, <2>7 DEF SetMac, Setting, Interface
    <3>3. iface' \in [Lans -> Interface]
      <4>1. CASE iface' = [iface EXCEPT ![job.lan].up = b]
        BY <2>0, <3>2, <4>1 DEF Interface
      <4>2. CASE iface' = [iface EXCEPT ![job.lan].up = b, ![job.lan].mac = job.net.mac]
        <5>1. iface' = [iface EXCEPT ![job.lan] =
                          [iface[job.lan] EXCEPT !.up = b, !.mac = job.net.mac]]
          BY <2>0, <3>2, <4>2
        <5>2. [iface[job.lan] EXCEPT !.up = b, !.mac = job.net.mac] \in Interface
          <6>1. iface[job.lan] \in Interface /\ job.net.mac \in Int
            BY <2>0, <3>2 DEF netParam
          <6> QED BY <3>2, <6>1, InterfaceWith
        <5> QED BY <2>0, <3>2, <5>1, <5>2
      <4> QED BY <3>1, <4>1, <4>2
    <3>4. CASE NetFailed("ERR")
      BY <2>7, <3>3, <3>4, NetFailedKeepsTypes DEF SetMac
    <3>5. CASE pc' = "up" /\ UNCHANGED <<pa, job, reply, saved>>
      <4>1. drift' \subseteq Lans
        BY <2>7 DEF SetMac, TypeOK
      <4> QED BY <2>7, <3>3, <3>5, <4>1, IfaceKeepsTypes DEF SetMac, Setting
    <3> QED BY <3>1, <3>4, <3>5
  <2>8. CASE IfUp
    <3>1. iface' \in [Lans -> Interface]
      <4>1. PICK b \in BOOLEAN : iface' = [iface EXCEPT ![job.lan].up = b]
        BY <2>8 DEF IfUp
      <4>2. iface[job.lan] \in Interface
        BY <2>0, <2>8 DEF IfUp, Setting
      <4>3. [iface[job.lan] EXCEPT !.up = b] \in Interface
        BY <4>2 DEF Interface
      <4> QED BY <2>0, <4>1, <4>3
    <3>2. drift' \subseteq Lans
      BY <2>8 DEF IfUp, TypeOK
    <3> QED BY <2>8, <3>1, <3>2, IfaceKeepsTypes DEF IfUp, Setting
  <2>9. CASE LinkUp \/ NoLinkStatus
    BY <2>9, NetDoneKeepsTypes DEF LinkUp, NoLinkStatus, LeaveLinkWait, Setting
  <2>10. CASE PingTest
    <3>1. job \in NetJobs /\ pa.net[job.lan] \in netParam
      BY <2>0, <2>10 DEF PingTest, Setting, TypeOK, param
    <3>2. job' \in NetJobs
      BY <2>10, <3>1 DEF PingTest, NetJobs
    <3> QED BY <2>10, <3>2 DEF PingTest, TypeOK, Setting, KeysFit
  <2>11. CASE OpenFails
    BY <2>11 DEF OpenFails, Confirm, TypeOK, KeysFit
  <2>12. CASE Truncate
    BY <2>12 DEF Truncate, TypeOK, Setting, KeysFit
  <2>13. CASE Write
    <3>1. \/ file' = TornFile
          \/ file' \in [is : {"whole"}, doc : Document] /\ KeysFit(file'.doc.passwd)
      BY <2>13, EncodeType DEF Write, TypeOK
    <3> QED BY <2>13, <3>1 DEF Write, Confirm, TypeOK, KeysFit
  <2>14. CASE doNetConfigSave
    <3>1. PICK nets \in NetPairs : Begin("ip", NetJob("NETCONFIGSAVE", 1, nets[1], nets[2]))
      BY <2>14 DEF doNetConfigSave
    <3>2. nets[1] \in netParam /\ nets[2] \in netParam /\ 1 \in Lans
      BY DEF StoreAssumption, Lans
    <3> QED BY <2>14, <3>1, <3>2, NetJobKeepsTypes DEF doNetConfigSave
  <2>15. CASE doLanTest
    BY <2>15, NetJobKeepsTypes DEF doLanTest, StoreAssumption
  <2>16. CASE doNetCapture
    <3>1. pa' \in param /\ pa'.passwd = pa.passwd
      BY <2>16 DEF doNetCapture, StoreAssumption, TypeOK, param
    <3>2. KeysFit(pa.passwd)'
      BY <3>1 DEF TypeOK, KeysFit
    <3> QED BY <2>16, <3>1, <3>2, SaveJobKeepsTypes DEF doNetCapture, Saving
  <2>17. CASE doNetFilter
    <3>1. pa' \in param /\ pa'.passwd = pa.passwd
      BY <2>17 DEF doNetFilter, StoreAssumption, TypeOK, param
    <3>2. KeysFit(pa.passwd)'
      BY <3>1 DEF TypeOK, KeysFit
    <3> QED BY <2>17, <3>1, <3>2, SaveJobKeepsTypes DEF doNetFilter, Saving
  <2>18. CASE doNormalUserMgr
    <3>1. PICK newKey \in Keys :
            \/ Answer("NORMALUSERMGR", "PASSWD_INVALID")
            \/ /\ StrLen(newKey) <= KeyMax
               /\ Begin("save", SaveJob("NORMALUSERMGR"))
               /\ pa' = [pa EXCEPT !.passwd[Normal] = newKey]
      BY <2>18 DEF doNormalUserMgr, Typed
    <3>2. newKey \in Seq(STRING) /\ Normal \in Users
      BY DEF StoreAssumption, Normal, Users
    <3> QED BY <3>1, <3>2, AnswerKeepsTypes, SaveJobKeepsTypes, PasswdKeepsTypes DEF Saving
  <2>19. CASE doSuperUserMgr
    <3>1. PICK newKey \in Keys, userName \in UserNames :
            \/ \E status : Answer("SUPERUSERMGR", status)
            \/ /\ StrLen(newKey) <= KeyMax /\ userName \in Users
               /\ Begin("save", SaveJob("SUPERUSERMGR"))
               /\ pa' = [pa EXCEPT !.passwd[userName] = newKey]
      BY <2>19 DEF doSuperUserMgr, Typed
    <3>2. newKey \in Seq(STRING)
      BY DEF StoreAssumption
    <3> QED BY <3>1, <3>2, AnswerKeepsTypes, SaveJobKeepsTypes, PasswdKeepsTypes DEF Saving
  <2>20. CASE doLogin \/ doAdminPasswdConfirm
    BY <2>20, AnswerKeepsTypes DEF doLogin, doAdminPasswdConfirm
  <2>21. CASE UNCHANGED vars
    BY <2>21 DEF vars, TypeOK, KeysFit
  <2> QED
    BY <2>1, <2>2, <2>3, <2>4, <2>5, <2>6, <2>7, <2>8, <2>9, <2>10, <2>11, <2>12, <2>13,
       <2>14, <2>15, <2>16, <2>17, <2>18, <2>19, <2>20, <2>21
       DEF Next, SetNetParameters, paramSave, Request
<1> QED BY <1>1, <1>2, PTL DEF Spec
-------------------------------------------------------------------------------
(* FileIsLoadable is about the file; what is in it comes from memory, where *)
(* no password is empty either, from the first start on.                    *)
LoadableOK ==
  /\ FileIsLoadable
  /\ pc # "down" /\ ~blank => \A u \in Users : StrLen(pa.passwd[u]) # 0

(* A step that leaves the file and the passwords alone.                     *)
LEMMA ElsewhereKeepsLoadable ==
  ASSUME LoadableOK, pc # "down", UNCHANGED <<file, blank>>,
         pc' # "down" => pa'.passwd = pa.passwd
  PROVE  LoadableOK'
BY DEF LoadableOK, FileIsLoadable, Loadable

(* The end of setNetParameters, well or not, is such a step.                *)
LEMMA NetKeepsPasswords ==
  /\ TypeOK /\ NetDone => pa'.passwd = pa.passwd
  /\ \A status : NetFailed(status) /\ pc' # "down" => pa'.passwd = pa.passwd
BY DEF NetDone, NetFailed, Confirm, TypeOK, param

(* A new password is one that the form accepted.                            *)
LEMMA PasswdKeepsLoadable ==
  ASSUME TypeOK, LoadableOK, pc # "down", UNCHANGED <<file, blank>>,
         NEW u \in Users, NEW key \in Typed, pa' = [pa EXCEPT !.passwd[u] = key]
  PROVE  LoadableOK'
<1>1. pa.passwd \in [Users -> Seq(STRING)] /\ pa'.passwd = [pa.passwd EXCEPT ![u] = key]
  BY DEF TypeOK, param
<1>2. \A v \in Users : pa'.passwd[v] \in {pa.passwd[v], key}
  BY <1>1
<1>3. StrLen(key) # 0
  BY DEF Typed, Accepted
<1> QED BY <1>2, <1>3 DEF LoadableOK, FileIsLoadable, Loadable

(* The forms keep empty passwords from the file, for all texts that can be  *)
(* typed, through any failures and restarts, until one that ends in a blank *)
(* is loaded: whatever was saved can be loaded again.                       *)
THEOREM SavedCanBeLoaded == Spec => []FileIsLoadable
<1> USE StoreAssumption
<1>1. Init => LoadableOK
  <2>1. \A u \in Users : StrLen(InitPa.passwd[u]) # 0
    BY DEF StoreAssumption
  <2> QED BY <2>1 DEF Init, Unloaded, NoFile, WholeFile, Encode, LoadableOK, FileIsLoadable,
         Loadable
<1>2. TypeOK /\ LoadableOK /\ [Next]_vars => LoadableOK'
  <2> SUFFICES ASSUME TypeOK, LoadableOK, [Next]_vars PROVE LoadableOK'
    OBVIOUS
  <2>1. CASE Start
    <3>1. file.doc \in Document
      BY <2>1 DEF Start, Loadable, TypeOK, NoFile, TornFile
    <3>2. ASSUME ~blank', NEW u \in Users PROVE StrLen(pa'.passwd[u]) # 0
      <4>1. file.doc.passwd[u] \in Seq(STRING) /\ LastWord(file.doc.passwd[u]) # <<>>
        BY <2>1, <3>1, <3>2 DEF Start, Document
      <4>2. pa'.passwd[u] = LastWord(file.doc.passwd[u])
        BY <2>1 DEF Start, Decode
      <4> QED BY <4>1, <4>2, LastWordFits
    <3>3. file' = file /\ Loadable(file)
      BY <2>1 DEF Start
    <3> QED BY <3>2, <3>3 DEF LoadableOK, FileIsLoadable, Loadable
  <2>2. CASE Crash
    BY <2>2, ElsewhereKeepsLoadable DEF Crash
  <2>3. CASE SetIp
    BY <2>3, NetKeepsPasswords, ElsewhereKeepsLoadable DEF SetIp
  <2>4. CASE SetMask
    BY <2>4, NetKeepsPasswords, ElsewhereKeepsLoadable DEF SetMask
  <2>5. CASE SetGateway \/ IfUp \/ PingTest
    BY <2>5, ElsewhereKeepsLoadable DEF SetGateway, IfUp, PingTest
  <2>6. CASE KeepMac
    BY <2>6, NetKeepsPasswords, ElsewhereKeepsLoadable DEF KeepMac
  <2>7. CASE SetMac
    BY <2>7, NetKeepsPasswords, ElsewhereKeepsLoadable DEF SetMac
  <2>8. CASE LinkUp \/ NoLinkStatus
    BY <2>8, NetKeepsPasswords, ElsewhereKeepsLoadable DEF LinkUp, NoLinkStatus, LeaveLinkWait
  <2>9. CASE OpenFails
    BY <2>9, ElsewhereKeepsLoadable DEF OpenFails
  <2>10. CASE Truncate
    BY <2>10 DEF Truncate, TornFile, LoadableOK, FileIsLoadable
  <2>11. CASE Write
    BY <2>11 DEF Write, Confirm, TornFile, WholeFile, Encode, LoadableOK, FileIsLoadable,
       Loadable
  <2>12. CASE doNetConfigSave \/ doLanTest \/ doLogin \/ doAdminPasswdConfirm
    BY <2>12, ElsewhereKeepsLoadable
    DEF doNetConfigSave, doLanTest, doLogin, doAdminPasswdConfirm, Begin, Answer
  <2>13. CASE doNetCapture \/ doNetFilter
    <3>1. pa'.passwd = pa.passwd
      BY <2>13 DEF doNetCapture, doNetFilter, TypeOK, param
    <3> QED BY <2>13, <3>1, ElsewhereKeepsLoadable DEF doNetCapture, doNetFilter, Begin
  <2>14. CASE doNormalUserMgr
    <3>1. PICK newKey \in Typed :
            \/ Answer("NORMALUSERMGR", "PASSWD_INVALID")
            \/ Begin("save", SaveJob("NORMALUSERMGR")) /\ pa' = [pa EXCEPT !.passwd[Normal] = newKey]
      BY <2>14 DEF doNormalUserMgr
    <3>2. Normal \in Users
      BY DEF Normal, Users
    <3> QED BY <3>1, <3>2, PasswdKeepsLoadable, ElsewhereKeepsLoadable DEF Begin, Answer
  <2>15. CASE doSuperUserMgr
    <3>1. PICK newKey \in Typed, userName \in UserNames :
            \/ \E status : Answer("SUPERUSERMGR", status)
            \/ /\ Begin("save", SaveJob("SUPERUSERMGR")) /\ userName \in Users
               /\ pa' = [pa EXCEPT !.passwd[userName] = newKey]
      BY <2>15 DEF doSuperUserMgr
    <3> QED BY <3>1, PasswdKeepsLoadable, ElsewhereKeepsLoadable DEF Begin, Answer
  <2>16. CASE UNCHANGED vars
    BY <2>16 DEF vars, LoadableOK, FileIsLoadable, Loadable
  <2> QED
    BY <2>1, <2>2, <2>3, <2>4, <2>5, <2>6, <2>7, <2>8, <2>9, <2>10, <2>11, <2>12, <2>13,
       <2>14, <2>15, <2>16
       DEF Next, SetNetParameters, paramSave, Request
<1>3. LoadableOK => FileIsLoadable
  BY DEF LoadableOK
<1> QED BY <1>1, <1>2, <1>3, StoreTypes, PTL DEF Spec
-------------------------------------------------------------------------------
Setup == {"mask", "gateway", "mac", "up", "link"}

(* DriftOnlyByFailure is about the daemon between requests.  While it sets  *)
(* an interface the addresses follow one another: what has been set so far  *)
(* is what the job asks for, and the interface counts as drifted until all  *)
(* is set.  At a start, and when a LAN test puts the parameters back, the   *)
(* job asks for what is configured.  The memory of a daemon that is down    *)
(* has no meaning, and no interface is as configured when it starts.        *)
AppliedOK ==
  /\ pc # "down" => \A n \in Lans \ drift : AsConfigured(n)
  /\ pc \in Setup => job.lan \in drift /\ iface[job.lan].ip = job.net.ip
  /\ pc \in Setup \ {"mask"} => iface[job.lan].mask = job.net.mask
  /\ pc \in {"up", "link"} => iface[job.lan].mac = job.net.mac
  /\ pc \in Setting /\ (job.op = "BOOT" \/ (job.op = "LANTEST" /\ job.back)) =>
       job.net = pa.net[job.lan]

NetSaved == file.is = "whole" /\ file.doc.net = pa.net
NetConfigOk == [op |-> "NETCONFIGSAVE", status |-> "OK"]

(* A NETCONFIGSAVE gets to the second interface with the first one set, and *)
(* to paramSave with both set; so does a start, which has its parameters    *)
(* from the file.  Hence they agree when the one is confirmed, and again    *)
(* after a restart, when the reply is still the last there was.             *)
ConfirmedOK ==
  /\ pc \in Setting /\ job.op = "BOOT" => NetSaved
  /\ pc \in Setting /\ job.op \in {"BOOT", "NETCONFIGSAVE"} /\ job.lan = 2 => 1 \notin drift
  /\ pc \in {"save", "write"} /\ job.op = "NETCONFIGSAVE" => drift = {}
  /\ pc = "idle" /\ reply = NetConfigOk => drift = {} /\ (flushed => NetSaved)

(* What the types say of a request that sets interfaces.                    *)
LEMMA NetJobTypes ==
  ASSUME TypeOK, pc \in Setting
  PROVE  /\ job \in NetJobs /\ job.lan \in Lans /\ job.net \in netParam
         /\ job.op \in {"BOOT", "NETCONFIGSAVE", "LANTEST"} /\ job.back \in BOOLEAN
         /\ pa.net \in [Lans -> netParam] /\ iface \in [Lans -> Interface]
BY DEF TypeOK, Setting, Saving, NetJobs, param

(* A LAN test whose parameters are set goes on to ping, or, with the        *)
(* configured ones, to its end; anything else has set what is configured.   *)
LEMMA NetDoneKeepsApplied ==
  ASSUME TypeOK, AppliedOK, pc \in {"mac", "link"}, iface[job.lan].mac = job.net.mac,
         NetDone, Settles, UNCHANGED <<file, iface, saved>>
  PROVE  AppliedOK'
<1>1. /\ job \in NetJobs /\ job.lan \in Lans /\ job.op \in {"BOOT", "NETCONFIGSAVE", "LANTEST"}
      /\ pa.net \in [Lans -> netParam] /\ job.back \in BOOLEAN
  BY NetJobTypes DEF Setting
<1>2. /\ iface[job.lan].ip = job.net.ip /\ iface[job.lan].mask = job.net.mask
      /\ \A n \in Lans \ drift : AsConfigured(n)
  BY DEF AppliedOK, Setup
<1>3. ASSUME pc' \in {"ip", "ping", "idle", "save"},
             \A n \in Lans \ drift' : AsConfigured(n)',
             pc' = "ip" => job'.op # "LANTEST" /\ (job'.op = "BOOT" => job'.net = pa'.net[job'.lan]),
             pc' = "ping" => job'.op = "LANTEST" /\ ~job'.back
      PROVE  AppliedOK'
  BY <1>3 DEF AppliedOK, Setup, Setting
<1>4. CASE job.op = "LANTEST" /\ ~job.back
  <2>1. pc' = "ping" /\ UNCHANGED <<pa, job, drift>>
    BY <1>4 DEF NetDone, Settles
  <2> QED BY <1>2, <1>3, <1>4, <2>1 DEF AsConfigured
<1>5. CASE job.op = "LANTEST" /\ job.back
  <2>1. pc' = "idle" /\ pa' = pa /\ drift' = drift \ {job.lan} /\ job.net = pa.net[job.lan]
    BY <1>5 DEF NetDone, Confirm, Settles, AppliedOK, Setting
  <2> QED BY <1>1, <1>2, <1>3, <2>1 DEF AsConfigured
<1>6. CASE job.op = "BOOT"
  <2>1. pa' = pa /\ drift' = drift \ {job.lan} /\ job.net = pa.net[job.lan]
    BY <1>6 DEF NetDone, Settles, AppliedOK, Setting
  <2>2. \/ pc' = "idle"
        \/ pc' = "ip" /\ job' = [job EXCEPT !.lan = 2, !.net = pa.net[2]]
    BY <1>6 DEF NetDone
  <2>3. pc' = "ip" => job'.op = "BOOT" /\ job'.lan = 2 /\ job'.net = pa.net[2]
    BY <1>1, <1>6, <2>2 DEF NetJobs
  <2> QED BY <1>1, <1>2, <1>3, <2>1, <2>2, <2>3 DEF AsConfigured
<1>7. CASE job.op = "NETCONFIGSAVE"
  <2>1. /\ pa' = [pa EXCEPT !.net[job.lan] = job.net] /\ drift' = drift \ {job.lan}
        /\ \/ pc' = "save" /\ job' = job
           \/ pc' = "ip" /\ job' = [job EXCEPT !.lan = 2, !.net = job.next]
    BY <1>7 DEF NetDone, Settles
  <2>2. pa'.net = [pa.net EXCEPT ![job.lan] = job.net]
    BY <1>1, <2>1 DEF TypeOK, param
  <2>3. pc' = "ip" => job'.op = "NETCONFIGSAVE"
    BY <1>1, <1>7, <2>1 DEF NetJobs
  <2>4. ASSUME NEW n \in Lans \ drift' PROVE AsConfigured(n)'
    BY <1>1, <1>2, <2>1, <2>2, <2>4 DEF AsConfigured
  <2> QED BY <1>3, <2>1, <2>3, <2>4
<1> QED BY <1>1, <1>4, <1>5, <1>6, <1>7

(* A failure leaves drifted what had begun to change.                       *)
LEMMA NetFailedKeepsApplied ==
  ASSUME TypeOK, AppliedOK, NEW status, NetFailed(status), pc \in Setting, UNCHANGED drift,
         \A n \in Lans \ drift : iface'[n] = iface[n]
  PROVE  AppliedOK'
<1>1. pc' = "down" \/ (pc' = "idle" /\ pa' = pa)
  BY DEF NetFailed, Confirm
<1> QED BY <1>1 DEF AppliedOK, AsConfigured, Setup, Setting

(* Setting a parameter of the interface of the job, which has drifted, does *)
(* not touch the others.                                                    *)
LEMMA StepKeepsConfigured ==
  ASSUME AppliedOK, pc # "down", UNCHANGED pa, drift \subseteq drift', job.lan \in drift',
         \A n \in Lans \ {job.lan} : iface'[n] = iface[n]
  PROVE  \A n \in Lans \ drift' : AsConfigured(n)'
BY DEF AppliedOK, AsConfigured
(* A request that leaves memory and interfaces alone, or only changes what  *)
(* is not about the interfaces.                                             *)
LEMMA ElsewhereKeepsApplied ==
  ASSUME AppliedOK, pc # "down", pc' \in {"idle", "save", "write"},
         UNCHANGED <<iface, drift>>, pa'.net = pa.net
  PROVE  AppliedOK'
BY DEF AppliedOK, AsConfigured, Setup, Setting

(* Between requests an interface has the configured addresses, unless an    *)
(* operation on it failed half-way.                                         *)
LEMMA Applied == Spec => []AppliedOK
<1> USE StoreAssumption
<1>1. Init => AppliedOK
  BY DEF Init, AppliedOK, Setup, Setting
<1>2. TypeOK /\ AppliedOK /\ [Next]_vars => AppliedOK'
  <2> SUFFICES ASSUME TypeOK, AppliedOK, [Next]_vars PROVE AppliedOK'
    OBVIOUS
  <2>1. CASE Start
    <3>1. /\ pc' = "ip" /\ drift' = Lans
          /\ job' = NetJob("BOOT", 1, pa'.net[1], pa'.net[2])
      BY <2>1 DEF Start
    <3>2. job'.net = pa'.net[job'.lan]
      BY <3>1 DEF NetJob
    <3> QED BY <3>1, <3>2 DEF AppliedOK, Setup
  <2>2. CASE Crash
    BY <2>2 DEF Crash, AppliedOK, Setup, Setting
  <2>3. CASE SetIp
    <3>0. pc = "ip"
      BY <2>3 DEF SetIp
    <3>1. CASE NetFails /\ UNCHANGED <<file, iface, drift, flushed, blank>>
      BY <3>0, <3>1, NetFailedKeepsApplied DEF NetFails, Setting
    <3>2. CASE IpIsSet
      <4>1. job.lan \in Lans /\ iface \in [Lans -> Interface]
        BY <3>0, NetJobTypes DEF Setting
      <4>2. /\ iface'[job.lan].ip = job.net.ip
            /\ \A n \in Lans \ {job.lan} : iface'[n] = iface[n]
        BY <3>2, <4>1 DEF IpIsSet, Interface
      <4>3. \A n \in Lans \ drift' : AsConfigured(n)'
        BY <3>2, <4>2, StepKeepsConfigured DEF IpIsSet
      <4> QED BY <3>2, <4>2, <4>3 DEF IpIsSet, AppliedOK, Setup, Setting
    <3> QED BY <2>3, <3>1, <3>2, IpCases
  <2>4. CASE SetMask
    <3>0. pc = "mask"
      BY <2>4 DEF SetMask
    <3>1. CASE NetFails /\ UNCHANGED <<file, iface, drift, flushed, blank>>
      BY <3>0, <3>1, NetFailedKeepsApplied DEF NetFails, Setting
    <3>2. CASE MaskIsSet
      <4>1. /\ job.lan \in Lans /\ iface \in [Lans -> Interface]
            /\ job.lan \in drift /\ iface[job.lan].ip = job.net.ip
        BY <3>0, NetJobTypes DEF Setting, AppliedOK, Setup
      <4>2. /\ iface'[job.lan].ip = job.net.ip /\ iface'[job.lan].mask = job.net.mask
            /\ \A n \in Lans \ {job.lan} : iface'[n] = iface[n]
        BY <3>2, <4>1 DEF MaskIsSet, Interface
      <4>3. \A n \in Lans \ drift' : AsConfigured(n)'
        BY <3>2, <4>1, <4>2, StepKeepsConfigured DEF MaskIsSet
      <4> QED BY <3>2, <4>1, <4>2, <4>3 DEF MaskIsSet, AppliedOK, Setup, Setting
    <3> QED BY <2>4, <3>1, <3>2, MaskCases
  <2>5. CASE SetGateway
    <3>1. /\ job.lan \in Lans /\ iface \in [Lans -> Interface] /\ job.lan \in drift
          /\ iface[job.lan].ip = job.net.ip /\ iface[job.lan].mask = job.net.mask
      BY <2>5, NetJobTypes DEF SetGateway, Setting, AppliedOK, Setup
    <3>2. /\ iface'[job.lan].ip = job.net.ip /\ iface'[job.lan].mask = job.net.mask
          /\ \A n \in Lans \ {job.lan} : iface'[n] = iface[n]
      <4>1. CASE iface' = [iface EXCEPT ![job.lan].gateway = job.net.gateway]
        BY <3>1, <4>1 DEF Interface
      <4> QED BY <2>5, <3>1, <4>1 DEF SetGateway
    <3>3. \A n \in Lans \ drift' : AsConfigured(n)'
      BY <2>5, <3>1, <3>2, StepKeepsConfigured DEF SetGateway
    <3> QED BY <2>5, <3>1, <3>2, <3>3 DEF SetGateway, AppliedOK, Setup, Setting
  <2>6. CASE KeepMac
    BY <2>6, NetDoneKeepsApplied DEF KeepMac
  <2>7. CASE SetMac
    <3>0. pc = "mac" /\ UNCHANGED drift
      BY <2>7 DEF SetMac
    <3>1. PICK b \in {FALSE, iface[job.lan].up} :
            \/ /\ iface' = [iface EXCEPT ![job.lan].up = b]
               /\ NetFailed("ERR")
            \/ /\ iface' = [iface EXCEPT ![job.lan].up = b, ![job.lan].mac = job.net.mac]
               /\ pc' = "up"
               /\ UNCHANGED <<pa, job, reply, saved>>
      BY <2>7 DEF SetMac
    <3>2. /\ job.lan \in Lans /\ iface \in [Lans -> Interface] /\ job.lan \in drift
          /\ iface[job.lan].ip = job.net.ip /\ iface[job.lan].mask = job.net.mask
      BY <3>0, NetJobTypes DEF Setting, AppliedOK, Setup
    <3>3. \A n \in Lans \ {job.lan} : iface'[n] = iface[n]
      BY <3>1, <3>2
    <3>4. CASE NetFailed("ERR")
      BY <3>0, <3>2, <3>3, <3>4, NetFailedKeepsApplied DEF Setting
    <3>5. CASE /\ iface' = [iface EXCEPT ![job.lan].up = b, ![job.lan].mac = job.net.mac]
               /\ pc' = "up"
               /\ UNCHANGED <<pa, job, reply, saved>>
      <4>1. /\ iface'[job.lan].ip = job.net.ip /\ iface'[job.lan].mask = job.net.mask
            /\ iface'[job.lan].mac = job.net.mac
        BY <3>2, <3>5 DEF Interface
      <4>2. \A n \in Lans \ drift' : AsConfigured(n)'
        BY <3>0, <3>2, <3>3, <3>5, StepKeepsConfigured
      <4> QED BY <3>0, <3>2, <3>5, <4>1, <4>2 DEF AppliedOK, Setup, Setting
    <3> QED BY <3>1, <3>4, <3>5
  <2>8. CASE IfUp
    <3>1. /\ job.lan \in Lans /\ iface \in [Lans -> Interface] /\ job.lan \in drift
          /\ iface[job.lan].ip = job.net.ip /\ iface[job.lan].mask = job.net.mask
          /\ iface[job.lan].mac = job.net.mac
      BY <2>8, NetJobTypes DEF IfUp, Setting, AppliedOK, Setup
    <3>2. /\ iface'[job.lan].ip = job.net.ip /\ iface'[job.lan].mask = job.net.mask
          /\ iface'[job.lan].mac = job.net.mac
          /\ \A n \in Lans \ {job.lan} : iface'[n] = iface[n]
      BY <2>8, <3>1 DEF IfUp, Interface
    <3>3. \A n \in Lans \ drift' : AsConfigured(n)'
      BY <2>8, <3>1, <3>2, StepKeepsConfigured DEF IfUp
    <3> QED BY <2>8, <3>1, <3>2, <3>3 DEF IfUp, AppliedOK, Setup, Setting
  <2>9. CASE LinkUp \/ NoLinkStatus
    <3>1. pc = "link" /\ iface[job.lan].mac = job.net.mac
      BY <2>9 DEF LinkUp, NoLinkStatus, LeaveLinkWait, AppliedOK
    <3> QED BY <2>9, <3>1, NetDoneKeepsApplied DEF LinkUp, NoLinkStatus, LeaveLinkWait
  <2>10. CASE PingTest
    <3>1. job \in NetJobs
      BY <2>10, NetJobTypes DEF PingTest, Setting
    <3>2. job'.net = pa.net[job.lan] /\ job'.lan = job.lan
      BY <2>10, <3>1 DEF PingTest, NetJobs
    <3> QED BY <2>10, <3>2 DEF PingTest, AppliedOK, AsConfigured, Setup, Setting
  <2>11. CASE OpenFails \/ Truncate \/ Write
    BY <2>11, ElsewhereKeepsApplied DEF OpenFails, Truncate, Write, Confirm
  <2>12. CASE doNetConfigSave
    <3>1. pc' = "ip" /\ UNCHANGED <<pa, iface, drift>> /\ pc = "idle" /\ job'.op = "NETCONFIGSAVE"
      BY <2>12 DEF doNetConfigSave, Begin, NetJob
    <3> QED BY <3>1 DEF AppliedOK, AsConfigured, Setup, Setting
  <2>13. CASE doLanTest
    <3>1. /\ pc' = "ip" /\ UNCHANGED <<pa, iface, drift>> /\ pc = "idle"
          /\ job'.op = "LANTEST" /\ ~job'.back
      BY <2>13 DEF doLanTest, Begin, NetJob
    <3> QED BY <3>1 DEF AppliedOK, AsConfigured, Setup, Setting
  <2>14. CASE doNetCapture \/ doNetFilter \/ doNormalUserMgr \/ doSuperUserMgr
    <3>1. \/ pc' = "save" /\ \E op : Begin("save", SaveJob(op))
          \/ \E op, status : Answer(op, status)
      BY <2>14 DEF doNetCapture, doNetFilter, doNormalUserMgr, doSuperUserMgr, Begin
    <3>2. pc = "idle" /\ pc' \in {"idle", "save"} /\ UNCHANGED <<iface, drift>>
      BY <3>1 DEF Begin, Answer
    <3>3. pa'.net = pa.net
      BY <2>14 DEF doNetCapture, doNetFilter, doNormalUserMgr, doSuperUserMgr, Answer,
         TypeOK, param
    <3> QED BY <3>2, <3>3, ElsewhereKeepsApplied
  <2>15. CASE doLogin \/ doAdminPasswdConfirm
    <3>1. pc = "idle" /\ UNCHANGED <<pa, iface, pc, drift>>
      BY <2>15 DEF doLogin, doAdminPasswdConfirm, Answer
    <3> QED BY <3>1, ElsewhereKeepsApplied
  <2>16. CASE UNCHANGED vars
    BY <2>16 DEF vars, AppliedOK, AsConfigured
  <2> QED
    BY <2>1, <2>2, <2>3, <2>4, <2>5, <2>6, <2>7, <2>8, <2>9, <2>10, <2>11, <2>12, <2>13,
       <2>14, <2>15, <2>16
       DEF Next, SetNetParameters, paramSave, Request
<1> QED BY <1>1, <1>2, StoreTypes, PTL DEF Spec

(* LAN tests put the configured addresses back, and a refused save leaves   *)
(* interface and memory together: between requests they part only by a      *)
(* failure half-way through setNetParameters.                               *)
THEOREM DriftByFailureAlone == Spec => []DriftOnlyByFailure
<1>1. AppliedOK => DriftOnlyByFailure
  BY DEF AppliedOK, DriftOnlyByFailure
<1> QED BY <1>1, Applied, PTL
(* Setting a parameter of the interface of the job.                         *)
LEMMA StepKeepsConfirmed ==
  ASSUME ConfirmedOK, pc \in Setting, pc' \in Setting, UNCHANGED <<pa, file, job, flushed>>,
         drift' \subseteq drift \cup {job.lan}
  PROVE  ConfirmedOK'
BY DEF ConfirmedOK, NetSaved, Setting

(* A job that fails is not confirmed with OK.                               *)
LEMMA FailureKeepsConfirmed ==
  ASSUME ConfirmedOK, NEW status \in {"ERR", "IP_INVALID"}, NetFailed(status)
  PROVE  ConfirmedOK'
<1>1. pc' = "down" \/ (pc' = "idle" /\ reply' = [op |-> job.op, status |-> status])
  BY DEF NetFailed, Confirm
<1>2. [op |-> job.op, status |-> status] # NetConfigOk
  BY DEF NetConfigOk
<1> QED BY <1>1, <1>2 DEF ConfirmedOK, Setting

(* The end of setNetParameters: the second interface is begun with the      *)
(* first one settled, and left with both settled.                           *)
LEMMA NetDoneKeepsConfirmed ==
  ASSUME TypeOK, ConfirmedOK, pc \in Setting \ {"ping"}, NetDone, Settles,
         UNCHANGED <<file, iface, saved, flushed>>
  PROVE  ConfirmedOK'
<1>1. /\ job \in NetJobs /\ job.lan \in Lans /\ job.op \in {"BOOT", "NETCONFIGSAVE", "LANTEST"}
      /\ drift \subseteq Lans
  BY NetJobTypes DEF Setting, TypeOK
<1>2. /\ job.op = "BOOT" => NetSaved
      /\ job.op \in {"BOOT", "NETCONFIGSAVE"} /\ job.lan = 2 => 1 \notin drift
  BY DEF ConfirmedOK
<1>3. CASE job.op = "BOOT"
  <2>1. pa' = pa /\ drift' = drift \ {job.lan} /\ NetSaved'
    BY <1>2, <1>3 DEF NetDone, Settles, NetSaved
  <2>2. CASE job.lan = 1
    <3>1. pc' = "ip"
      BY <1>3, <2>2 DEF NetDone
    <3> QED BY <2>1, <2>2, <3>1 DEF ConfirmedOK, Setting
  <2>3. CASE job.lan = 2
    <3>1. pc' = "idle" /\ drift' = {}
      BY <1>1, <1>2, <1>3, <2>1, <2>3 DEF NetDone, Lans
    <3> QED BY <2>1, <3>1 DEF ConfirmedOK, Setting
  <2> QED BY <1>1, <2>2, <2>3 DEF Lans
<1>4. CASE job.op = "NETCONFIGSAVE"
  <2>1. drift' = drift \ {job.lan}
    BY <1>4 DEF Settles
  <2>2. CASE job.lan = 1
    <3>1. pc' = "ip" /\ job' = [job EXCEPT !.lan = 2, !.net = job.next]
      BY <1>4, <2>2 DEF NetDone
    <3>2. job'.op = "NETCONFIGSAVE"
      BY <1>1, <1>4, <3>1 DEF NetJobs
    <3> QED BY <2>1, <2>2, <3>1, <3>2 DEF ConfirmedOK, Setting
  <2>3. CASE job.lan = 2
    <3>1. pc' = "save" /\ drift' = {}
      BY <1>1, <1>2, <1>4, <2>1, <2>3 DEF NetDone, Lans
    <3> QED BY <3>1 DEF ConfirmedOK, Setting
  <2> QED BY <1>1, <2>2, <2>3 DEF Lans
<1>5. CASE job.op = "LANTEST"
  <2>1. \/ pc' = "ping" /\ job' = job
        \/ pc' = "idle" /\ reply' = [op |-> "LANTEST", status |-> "OK"]
    BY <1>5 DEF NetDone, Confirm
  <2> QED BY <1>5, <2>1 DEF ConfirmedOK, NetConfigOk, Setting
<1> QED BY <1>1, <1>3, <1>4, <1>5

(* An answer to a request that changes nothing is not that of a             *)
(* NETCONFIGSAVE.                                                           *)
LEMMA AnswerKeepsConfirmed ==
  ASSUME ConfirmedOK, NEW op, NEW status, op # "NETCONFIGSAVE", Answer(op, status)
  PROVE  ConfirmedOK'
<1>1. pc' = "idle" /\ reply' = [op |-> op, status |-> status]
  BY DEF Answer
<1>2. reply' # NetConfigOk
  BY <1>1 DEF NetConfigOk
<1> QED BY <1>1, <1>2 DEF ConfirmedOK, Setting

(* Once a NETCONFIGSAVE is confirmed, file and interfaces have what memory  *)
(* has, and so they do after a restart, until another request is answered.  *)
LEMMA Confirmed == Spec => []ConfirmedOK
<1> USE StoreAssumption
<1>1. Init => ConfirmedOK
  BY DEF Init, ConfirmedOK, Setting
<1>2. TypeOK /\ ConfirmedOK /\ [Next]_vars => ConfirmedOK'
  <2> SUFFICES ASSUME TypeOK, ConfirmedOK, [Next]_vars PROVE ConfirmedOK'
    OBVIOUS
  <2>1. CASE Start
    <3>1. pc' = "ip" /\ job'.lan = 1 /\ pa' = Decode(file.doc) /\ file' = file
      BY <2>1 DEF Start, NetJob
    <3>2. NetSaved'
      BY <2>1, <3>1 DEF Start, Loadable, Decode, NetSaved
    <3> QED BY <3>1, <3>2 DEF ConfirmedOK, Setting
  <2>2. CASE Crash
    BY <2>2 DEF Crash, ConfirmedOK, Setting
  <2>3. CASE SetIp
    <3>1. CASE NetFails
      BY <3>1, FailureKeepsConfirmed DEF NetFails
    <3>2. CASE IpIsSet
      BY <3>2, StepKeepsConfirmed DEF IpIsSet, Setting
    <3> QED BY <2>3, <3>1, <3>2, IpCases
  <2>4. CASE SetMask
    <3>1. CASE NetFails
      BY <3>1, FailureKeepsConfirmed DEF NetFails
    <3>2. CASE MaskIsSet
      BY <3>2, StepKeepsConfirmed DEF MaskIsSet, Setting
    <3> QED BY <2>4, <3>1, <3>2, MaskCases
  <2>5. CASE SetGateway \/ IfUp
    BY <2>5, StepKeepsConfirmed DEF SetGateway, IfUp, Setting
  <2>6. CASE KeepMac
    BY <2>6, NetDoneKeepsConfirmed DEF KeepMac, Setting
  <2>7. CASE SetMac
    <3>1. CASE NetFailed("ERR")
      BY <3>1, FailureKeepsConfirmed
    <3>2. CASE pc' = "up" /\ UNCHANGED <<pa, job, reply, saved>>
      BY <2>7, <3>2, StepKeepsConfirmed DEF SetMac, Setting
    <3> QED BY <2>7, <3>1, <3>2 DEF SetMac
  <2>8. CASE LinkUp \/ NoLinkStatus
    BY <2>8, NetDoneKeepsConfirmed DEF LinkUp, NoLinkStatus, LeaveLinkWait, Setting
  <2>9. CASE PingTest
    <3>1. job \in NetJobs /\ job.op = "LANTEST"
      BY <2>9, NetJobTypes DEF PingTest, Setting, TypeOK, Saving
    <3>2. pc' = "ip" /\ job'.op = "LANTEST"
      BY <2>9, <3>1 DEF PingTest, NetJobs
    <3> QED BY <3>2 DEF ConfirmedOK, Setting
  <2>10. CASE OpenFails
    <3>1. pc' = "idle" /\ reply' = [op |-> job.op, status |-> "ERR"]
      BY <2>10 DEF OpenFails, Confirm
    <3>2. reply' # NetConfigOk
      BY <3>1 DEF NetConfigOk
    <3> QED BY <3>1, <3>2 DEF ConfirmedOK, Setting
  <2>11. CASE Truncate
    BY <2>11 DEF Truncate, ConfirmedOK, Setting
  <2>12. CASE Write
    <3>1. /\ pc = "write" /\ pc' = "idle" /\ reply' = [op |-> job.op, status |-> "OK"]
          /\ (flushed' => file' = WholeFile(pa)) /\ pa' = pa /\ drift' = drift
      BY <2>12 DEF Write, Confirm
    <3>2. flushed' => NetSaved'
      BY <3>1 DEF NetSaved, WholeFile, Encode
    <3>3. reply' = NetConfigOk => job.op = "NETCONFIGSAVE"
      BY <3>1 DEF NetConfigOk
    <3> QED BY <3>1, <3>2, <3>3 DEF ConfirmedOK, Setting
  <2>13. CASE doNetConfigSave
    BY <2>13 DEF doNetConfigSave, Begin, NetJob, ConfirmedOK, Setting
  <2>14. CASE doLanTest
    BY <2>14 DEF doLanTest, Begin, NetJob, ConfirmedOK, Setting
  <2>15. ASSUME NEW op, op # "NETCONFIGSAVE", Begin("save", SaveJob(op)) PROVE ConfirmedOK'
    BY <2>15 DEF Begin, SaveJob, ConfirmedOK, Setting
  <2>16. CASE doNetCapture \/ doNetFilter
    BY <2>15, <2>16 DEF doNetCapture, doNetFilter
  <2>17. CASE doNormalUserMgr
    BY <2>15, <2>17, AnswerKeepsConfirmed DEF doNormalUserMgr
  <2>18. CASE doSuperUserMgr
    BY <2>15, <2>18, AnswerKeepsConfirmed DEF doSuperUserMgr
  <2>19. CASE doLogin \/ doAdminPasswdConfirm
    BY <2>19, AnswerKeepsConfirmed DEF doLogin, doAdminPasswdConfirm
  <2>20. CASE UNCHANGED vars
    BY <2>20 DEF vars, ConfirmedOK, NetSaved
  <2> QED
    BY <2>1, <2>2, <2>3, <2>4, <2>5, <2>6, <2>7, <2>8, <2>9, <2>10, <2>11, <2>12, <2>13,
       <2>14, <2>16, <2>17, <2>18, <2>19, <2>20
       DEF Next, SetNetParameters, paramSave, Request
<1> QED BY <1>1, <1>2, StoreTypes, PTL DEF Spec

(* A NETCONFIGSAVE that was confirmed is set on both interfaces and, if     *)
(* fclose lost nothing, saved, across restarts too, until another request   *)
(* is answered.                                                             *)
THEOREM NetConfigApplied == Spec => []NetConfigOkMeansApplied
<1>1. AppliedOK /\ ConfirmedOK => NetConfigOkMeansApplied
  BY DEF AppliedOK, ConfirmedOK, NetSaved, NetConfigOk, NetConfigOkMeansApplied
<1> QED BY <1>1, Applied, Confirmed, PTL
===============================================================================
