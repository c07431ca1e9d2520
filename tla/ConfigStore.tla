------------------------------ MODULE ConfigStore ------------------------------
(***************************************************************************)
(* The configuration the daemon keeps: the parameters in memory (pa), the   *)
(* file they are saved to (CONFIG_FILE_NAME) and the two network interfaces *)
(* they are applied to.  One request at a time is carried out (webProcess), *)
(* but in many steps, each of which can fail or be the last before a crash: *)
(* setNetParameters makes up to six changes to an interface one after the   *)
(* other, and paramSave truncates the file before it writes it.             *)
(*                                                                          *)
(* External: the XML library (text is read back as words, and the last word *)
(* of an element is taken), stdio (the end of what was written may be lost  *)
(* when the file is closed), the interfaces and their cables.               *)
(***************************************************************************)
EXTENDS Integers, Sequences, SequencesExt

CONSTANTS
  NetPairs,      \* pairs of netParam that a NetConfigSave form can carry
  TestNets,      \* netParam values that a LAN test form can carry
  CapturePairs,  \* pairs of captureParam that a NetCapture form can carry
  FilterPairs,   \* pairs of isFilter that a NetFilter form can carry
  Keys,          \* texts that can be typed as a password
  KeyMax,        \* USR_KEY_LNE_MAX
  UserNames,     \* names that can be typed; users[0] and users[1] are 1 and 2
  InitPa,        \* the parameters that the delivered file holds
  ClassMask,     \* external: the mask an interface gets with a new address
  Crashes        \* whether the daemon can end at any step

Lans == 1..2
Users == 1..2           \* users[0], the administrator, and users[1]
Admin == 1
Normal == 2

(* A text is a sequence of words with a blank between them.  A word is one  *)
(* letter, or "none" where a blank has nothing before or behind it.         *)
StrLen(t) == IF t = <<>> THEN 0 ELSE Len(t) - 1 + Cardinality({i \in DOMAIN t : t[i] # "none"})

(* netParam, captureParam and param.                                        *)
netParam == [ip : Int, mask : Int, gateway : Int, mac : Int]
captureParam == [isCapture : BOOLEAN, isAutoUpLoad : BOOLEAN, autoUpLoadPath : Seq(STRING)]
param ==
  [net : [Lans -> netParam], capture : [Lans -> captureParam], filter : [Lans -> BOOLEAN],
   passwd : [Users -> Seq(STRING)]]

(* Forms carry values of these types; the delivered passwords have room and *)
(* are not empty.                                                           *)
ASSUME StoreAssumption ==
  /\ NetPairs \subseteq [Lans -> netParam]
  /\ TestNets \subseteq netParam
  /\ CapturePairs \subseteq [Lans -> captureParam]
  /\ FilterPairs \subseteq [Lans -> BOOLEAN]
  /\ Keys \subseteq Seq(STRING)
  /\ KeyMax \in Nat
  /\ InitPa \in param
  /\ \A u \in Users : StrLen(InitPa.passwd[u]) \in 1..KeyMax
  /\ ClassMask \in Int
  /\ Crashes \in BOOLEAN

VARIABLES
  pa,       \* the daemon's parameters
  file,     \* the configuration file
  iface,    \* what is set on each interface
  pc,       \* what the daemon is doing
  job,      \* the request it is doing it for
  reply,    \* the last confirm message, and what it answers
  drift,    \* history: interfaces that an operation that failed was changing
  saved,    \* history: a save since pa was loaded was confirmed, no operation failed after
  flushed,  \* history: the last fclose of paramSave wrote all that was left to write
  blank     \* history: a password that ends in a blank has been loaded

vars == <<pa, file, iface, pc, job, reply, drift, saved, flushed, blank>>

-------------------------------------------------------------------------------
(* What paramSave writes: the same text, and booleans by name.              *)
BoolText(b) == IF b THEN "true" ELSE "false"

Encode(p) ==
  [net        |-> p.net,
   capture    |-> [n \in Lans |-> BoolText(p.capture[n].isCapture)],
   autoUpLoad |-> [n \in Lans |-> BoolText(p.capture[n].isAutoUpLoad)],
   path       |-> [n \in Lans |-> p.capture[n].autoUpLoadPath],
   filter     |-> [n \in Lans |-> BoolText(p.filter[n])],
   passwd     |-> p.passwd]

(* mxmlGetLastChild, mxmlGetText: of a text of several words, the last,     *)
(* which is empty behind a blank.                                           *)
LastWord(t) == IF t = <<>> \/ Last(t) = "none" THEN <<>> ELSE <<Last(t)>>

(* What paramLoad makes of it.  AutoUpLoadEnable is loaded into isCapture,  *)
(* over what CaptureServiceStatus said, and isAutoUpLoad stays cleared.     *)
LoadCapture(f, n) ==
  [isCapture |-> f.autoUpLoad[n] = "true",
   isAutoUpLoad |-> FALSE,
   autoUpLoadPath |-> LastWord(f.path[n])]

Decode(f) ==
  [net     |-> f.net,
   capture |-> [n \in Lans |-> LoadCapture(f, n)],
   filter  |-> [n \in Lans |-> f.filter[n] = "true"],
   passwd  |-> [u \in Users |-> LastWord(f.passwd[u])]]

(* The file is missing, was truncated and not (or not wholly) written, or   *)
(* is a whole document.                                                     *)
NoFile == [is |-> "missing"]
TornFile == [is |-> "torn"]
WholeFile(p) == [is |-> "whole", doc |-> Encode(p)]

(* paramLoad's assertions hold: the document is there, no password is empty. *)
Loadable(f) == f.is = "whole" /\ \A u \in Users : StrLen(f.doc.passwd[u]) # 0

(* stringLenZeroChkReturn in each form with a password; and a slip: none.   *)
AcceptedAny(key) == TRUE
Accepted(key) == StrLen(key) # 0
Typed == {key \in Keys : Accepted(key)}

-------------------------------------------------------------------------------
(* A request under way that sets interface parameters: lan and net are      *)
(* setNetParameters' arguments, next is the net of interface 2, back says   *)
(* that a LAN test is putting the parameters back.                          *)
NetJob(op, lan, net, next) ==
  [op |-> op, lan |-> lan, net |-> net, next |-> next, back |-> FALSE]
SaveJob(op) == [op |-> op]
NoJob == [op |-> "none"]
Saving == {"NETCONFIGSAVE", "NETCAPTURE", "NETFILTER", "NORMALUSERMGR", "SUPERUSERMGR"}

(* The memory of a daemon that is down has no meaning: any value will do.   *)
Unloaded == InitPa

(* An interface as set_addr, set_gateway, setMacAddress and if_updown leave *)
(* it, and the interfaces before the daemon first runs.                     *)
Fresh == [ip |-> 0, mask |-> ClassMask, gateway |-> 0, mac |-> 0, up |-> TRUE]

Init ==
  /\ pa = Unloaded
  /\ file \in {NoFile, WholeFile(InitPa)}
  /\ iface = [n \in Lans |-> Fresh]
  /\ pc = "down"
  /\ job = NoJob
  /\ reply = [op |-> "none", status |-> "OK"]
  /\ drift = Lans
  /\ saved = FALSE
  /\ flushed = TRUE
  /\ blank = FALSE

(* genConfirmMsg, and back to the loop of webProcess.                       *)
Confirm(status) ==
  /\ pc' = "idle"
  /\ reply' = [op |-> job.op, status |-> status]
  /\ job' = NoJob

(* The daemon begins a request.                                             *)
Begin(where, j) ==
  /\ pc = "idle"
  /\ pc' = where
  /\ job' = j
  /\ UNCHANGED <<file, iface, reply, drift, saved, flushed, blank>>

(* A request that is answered at once, or refused, with nothing changed.    *)
Answer(op, status) ==
  /\ pc = "idle"
  /\ reply' = [op |-> op, status |-> status]
  /\ UNCHANGED <<pa, file, iface, pc, job, drift, saved, flushed, blank>>

-------------------------------------------------------------------------------
(* setNetParameters(job.net, job.lan), one system call per step.            *)
is_netipvalid(addr) == addr \notin {0, -1}

(* It returns OK: go on where it was called from.                           *)
NetDone ==
  \/ /\ job.op = "BOOT" /\ job.lan = 1
     /\ pc' = "ip"
     /\ job' = [job EXCEPT !.lan = 2, !.net = pa.net[2]]
     /\ UNCHANGED <<pa, reply>>
  \/ /\ job.op = "BOOT" /\ job.lan = 2
     /\ pc' = "idle"
     /\ job' = NoJob
     /\ UNCHANGED <<pa, reply>>
  \/ /\ job.op = "NETCONFIGSAVE"
     /\ pa' = [pa EXCEPT !.net[job.lan] = job.net]
     /\ IF job.lan = 1
          THEN pc' = "ip" /\ job' = [job EXCEPT !.lan = 2, !.net = job.next]
          ELSE pc' = "save" /\ job' = job
     /\ UNCHANGED reply
  \/ /\ job.op = "LANTEST"
     /\ IF job.back
          THEN Confirm("OK")
          ELSE pc' = "ping" /\ UNCHANGED <<job, reply>>
     /\ UNCHANGED pa

(* It returns an error: at start the daemon ends, a request is refused.     *)
NetFailed(status) ==
  /\ IF job.op = "BOOT"
       THEN pc' = "down" /\ job' = NoJob /\ pa' = Unloaded /\ UNCHANGED reply
       ELSE Confirm(status) /\ UNCHANGED pa
  /\ saved' = (saved /\ job.op = "LANTEST")

(* History: an interface drifts from pa with the first change made to it,   *)
(* and is back once all of what pa has, or is given now, is set.            *)
Settles ==
  drift' = IF job.op = "LANTEST" /\ ~job.back THEN drift ELSE drift \ {job.lan}

SetIp ==
  /\ pc = "ip"
  /\ \/ /\ ~is_netipvalid(job.net.ip)
        /\ NetFailed("IP_INVALID")
        /\ UNCHANGED <<iface, drift>>
     \/ /\ is_netipvalid(job.net.ip)
        /\ NetFailed("ERR")
        /\ UNCHANGED <<iface, drift>>
     \/ /\ is_netipvalid(job.net.ip)
        /\ iface' = [iface EXCEPT ![job.lan].ip = job.net.ip,
                                  ![job.lan].mask = ClassMask]
        /\ drift' = drift \cup {job.lan}
        /\ pc' = "mask"
        /\ UNCHANGED <<pa, job, reply, saved>>
  /\ UNCHANGED <<file, flushed, blank>>

SetMask ==
  /\ pc = "mask"
  /\ \/ /\ ~is_netipvalid(job.net.mask)
        /\ NetFailed("IP_INVALID")
        /\ UNCHANGED iface
     \/ /\ is_netipvalid(job.net.mask)
        /\ NetFailed("ERR")
        /\ UNCHANGED iface
     \/ /\ is_netipvalid(job.net.mask)
        /\ iface' = [iface EXCEPT ![job.lan].mask = job.net.mask]
        /\ pc' = "gateway"
        /\ UNCHANGED <<pa, job, reply, saved>>
  /\ UNCHANGED <<file, drift, flushed, blank>>

(* The shell command may fail: nobody looks.                                *)
SetGateway ==
  /\ pc = "gateway"
  /\ \/ iface' = [iface EXCEPT ![job.lan].gateway = job.net.gateway]
     \/ iface' = iface
  /\ pc' = "mac"
  /\ UNCHANGED <<pa, file, job, reply, drift, saved, flushed, blank>>

(* Slip: the new address is compared with the configured one.               *)
KeepMacConfigured ==
  /\ pc = "mac"
  /\ pa.net[job.lan].mac = job.net.mac
  /\ NetDone
  /\ Settles
  /\ UNCHANGED <<file, iface, saved, flushed, blank>>

(* The address is only written if it differs, after if_updown(DOWN), whose  *)
(* failure is only printed.  That get_mac_addr can read the address of an   *)
(* interface that set_addr has just set is assumed.                         *)
KeepMac ==
  /\ pc = "mac"
  /\ iface[job.lan].mac = job.net.mac
  /\ NetDone
  /\ Settles
  /\ UNCHANGED <<file, iface, saved, flushed, blank>>

SetMac ==
  /\ pc = "mac"
  /\ iface[job.lan].mac # job.net.mac
  /\ \E b \in {FALSE, iface[job.lan].up} :
       \/ /\ iface' = [iface EXCEPT ![job.lan].up = b]
          /\ NetFailed("ERR")
       \/ /\ iface' = [iface EXCEPT ![job.lan].up = b,
                                    ![job.lan].mac = job.net.mac]
          /\ pc' = "up"
          /\ UNCHANGED <<pa, job, reply, saved>>
  /\ UNCHANGED <<file, drift, flushed, blank>>

(* if_updown(UP): a failure is only printed.                                *)
IfUp ==
  /\ pc = "up"
  /\ \E b \in BOOLEAN : iface' = [iface EXCEPT ![job.lan].up = b]
  /\ pc' = "link"
  /\ UNCHANGED <<pa, file, job, reply, drift, saved, flushed, blank>>

(* ... and then it polls until the interface, if it is up, has a carrier,   *)
(* which is for the cable to decide.                                        *)
LeaveLinkWait ==
  /\ pc = "link"
  /\ NetDone
  /\ Settles
  /\ UNCHANGED <<file, iface, saved, flushed, blank>>

LinkUp == pc = "link" /\ iface[job.lan].up /\ LeaveLinkWait

(* ... or the driver does not answer ETHTOOL_GLINK.                         *)
NoLinkStatus == LeaveLinkWait

-------------------------------------------------------------------------------
(* Slips: what is put back is always lan1; the test starts over once the    *)
(* parameters are back.                                                     *)
PingTestFirstLan ==
  /\ pc = "ping"
  /\ pc' = "ip"
  /\ job' = [job EXCEPT !.net = pa.net[1], !.back = TRUE]
  /\ UNCHANGED <<pa, file, iface, reply, drift, saved, flushed, blank>>
PingTestAgain ==
  /\ pc = "ping"
  /\ pc' = "ip"
  /\ job' = [job EXCEPT !.net = pa.net[job.lan]]
  /\ UNCHANGED <<pa, file, iface, reply, drift, saved, flushed, blank>>

(* pingTest: an answer within the time allowed, or none.  Either way the    *)
(* parameters are put back, and what that returns is the test's result: the *)
(* outcome of the ping leaves no trace.                                     *)
PingTest ==
  /\ pc = "ping"
  /\ pc' = "ip"
  /\ job' = [job EXCEPT !.net = pa.net[job.lan], !.back = TRUE]
  /\ UNCHANGED <<pa, file, iface, reply, drift, saved, flushed, blank>>

(* paramSave: fopen fails; or it truncates the file, which is then written. *)
OpenFails ==
  /\ pc = "save"
  /\ Confirm("ERR")
  /\ saved' = FALSE
  /\ UNCHANGED <<pa, file, iface, drift, flushed, blank>>

Truncate ==
  /\ pc = "save"
  /\ file' = TornFile
  /\ pc' = "write"
  /\ UNCHANGED <<pa, iface, job, reply, drift, saved, flushed, blank>>

(* Slip: a failed write is reported as a failed open is.                    *)
WriteReported ==
  /\ pc = "write"
  /\ file' \in {TornFile, WholeFile(pa)}
  /\ Confirm(IF file' = TornFile THEN "ERR" ELSE "OK")
  /\ saved' = (file' # TornFile)
  /\ UNCHANGED <<pa, iface, drift, flushed, blank>>

(* mxmlSaveFile leaves what it writes to stdio, and of that as much as the  *)
(* buffer holds to fclose, whose result is not looked at: if the disk is    *)
(* full then, the file is torn and the save is confirmed all the same.      *)
Write ==
  /\ pc = "write"
  /\ flushed' \in BOOLEAN
  /\ file' = IF flushed' THEN WholeFile(pa) ELSE TornFile
  /\ Confirm("OK")
  /\ saved' = TRUE
  /\ UNCHANGED <<pa, iface, drift, blank>>

-------------------------------------------------------------------------------
(* The requests.                                                            *)
doNetConfigSave ==
  \E nets \in NetPairs :
    /\ Begin("ip", NetJob("NETCONFIGSAVE", 1, nets[1], nets[2]))
    /\ UNCHANGED pa

doLanTest ==
  \E n \in Lans, net \in TestNets :
    /\ Begin("ip", NetJob("LANTEST", n, net, net))
    /\ UNCHANGED pa

doNetCapture ==
  \E c \in CapturePairs :
    /\ Begin("save", SaveJob("NETCAPTURE"))
    /\ pa' = [pa EXCEPT !.capture = c]

(* Slip: the change is confirmed and not saved.                             *)
doNetFilterUnsaved ==
  \E f \in FilterPairs :
    /\ pc = "idle"
    /\ pa' = [pa EXCEPT !.filter = f]
    /\ reply' = [op |-> "NETFILTER", status |-> "OK"]
    /\ UNCHANGED <<file, iface, pc, job, drift, saved, flushed, blank>>

doNetFilter ==
  \E f \in FilterPairs :
    /\ Begin("save", SaveJob("NETFILTER"))
    /\ pa' = [pa EXCEPT !.filter = f]

(* Slip: the length of the new password is not looked at.                   *)
doNormalUserMgrUnchecked ==
  \E primaryKey, newKey \in Typed :
    \/ /\ pa.passwd[Normal] # primaryKey
       /\ Answer("NORMALUSERMGR", "PASSWD_INVALID")
    \/ /\ pa.passwd[Normal] = primaryKey
       /\ Begin("save", SaveJob("NORMALUSERMGR"))
       /\ pa' = [pa EXCEPT !.passwd[Normal] = newKey]

doNormalUserMgr ==
  \E primaryKey, newKey \in Typed :
    \/ /\ pa.passwd[Normal] # primaryKey \/ StrLen(newKey) > KeyMax
       /\ Answer("NORMALUSERMGR", "PASSWD_INVALID")
    \/ /\ pa.passwd[Normal] = primaryKey
       /\ StrLen(newKey) <= KeyMax
       /\ Begin("save", SaveJob("NORMALUSERMGR"))
       /\ pa' = [pa EXCEPT !.passwd[Normal] = newKey]

doSuperUserMgr ==
  \E adminKey, newKey \in Typed, userName \in UserNames :
    \/ /\ pa.passwd[Admin] # adminKey \/ StrLen(newKey) > KeyMax
       /\ Answer("SUPERUSERMGR", "PASSWD_INVALID")
    \/ /\ pa.passwd[Admin] = adminKey
       /\ StrLen(newKey) <= KeyMax
       /\ userName \notin Users
       /\ Answer("SUPERUSERMGR", "USER_NOT_EXIST")
    \/ /\ pa.passwd[Admin] = adminKey
       /\ StrLen(newKey) <= KeyMax
       /\ userName \in Users
       /\ Begin("save", SaveJob("SUPERUSERMGR"))
       /\ pa' = [pa EXCEPT !.passwd[userName] = newKey]

doLogin ==
  \E userName \in UserNames, passwd \in Typed :
    Answer("LOGIN",
           IF userName \in Users /\ pa.passwd[userName] = passwd THEN "OK" ELSE "ERR")

doAdminPasswdConfirm ==
  \E passwd \in Typed :
    Answer("ADMINPASSWDCONFIRM",
           IF pa.passwd[Admin] = passwd THEN "OK" ELSE "PASSWD_INVALID")

-------------------------------------------------------------------------------
(* webProcess up to its loop: paramLoad, then both interfaces are set.  An  *)
(* assertion that fails ends the daemon before it has done anything.        *)
Start ==
  /\ pc = "down"
  /\ Loadable(file)
  /\ pa' = Decode(file.doc)
  /\ pc' = "ip"
  /\ job' = NetJob("BOOT", 1, pa'.net[1], pa'.net[2])
  /\ drift' = Lans
  /\ saved' = FALSE
  /\ blank' = (blank \/ \E u \in Users : LastWord(file.doc.passwd[u]) = <<>>)
  /\ UNCHANGED <<file, iface, reply, flushed>>

(* The daemon ends: killed, or by an assertion (mxmlSaveFile fails).        *)
Crash ==
  /\ Crashes
  /\ pc # "down"
  /\ pc' = "down"
  /\ job' = NoJob
  /\ pa' = Unloaded
  /\ saved' = FALSE
  /\ UNCHANGED <<file, iface, reply, drift, flushed, blank>>

SetNetParameters ==
  SetIp \/ SetMask \/ SetGateway \/ KeepMac \/ SetMac \/ IfUp \/ LinkUp \/ NoLinkStatus

paramSave == OpenFails \/ Truncate \/ Write

Request ==
  \/ doNetConfigSave \/ doLanTest \/ doNetCapture \/ doNetFilter
  \/ doNormalUserMgr \/ doSuperUserMgr \/ doLogin \/ doAdminPasswdConfirm

Next ==
  \/ Start \/ Crash
  \/ SetNetParameters \/ PingTest \/ paramSave
  \/ Request

Spec == Init /\ [][Next]_vars

(* The daemon goes on with what it is doing; nothing makes a carrier come.  *)
Fairness ==
  /\ WF_vars(SetIp) /\ WF_vars(SetMask) /\ WF_vars(SetGateway)
  /\ WF_vars(KeepMac) /\ WF_vars(SetMac) /\ WF_vars(IfUp)
  /\ WF_vars(PingTest) /\ WF_vars(paramSave)

FairSpec == Spec /\ Fairness

-------------------------------------------------------------------------------
BoolTexts == {"true", "false"}
Document ==
  [net : [Lans -> netParam], capture : [Lans -> BoolTexts], autoUpLoad : [Lans -> BoolTexts],
   path : [Lans -> Seq(STRING)], filter : [Lans -> BoolTexts],
   passwd : [Users -> Seq(STRING)]]

Interface == [ip : Int, mask : Int, gateway : Int, mac : Int, up : BOOLEAN]

(* Where the daemon is during a request that sets interfaces, and which.    *)
Setting == {"ip", "mask", "gateway", "mac", "up", "link", "ping"}
NetJobs ==
  [op : {"BOOT", "NETCONFIGSAVE", "LANTEST"}, lan : Lans, net : netParam, next : netParam,
   back : BOOLEAN]

(* Passwords fit the USR_KEY_LNE_MAX letters there is room for.             *)
KeysFit(passwd) == \A u \in Users : StrLen(passwd[u]) <= KeyMax

(* Types, and what the request under way must be for the daemon to be where *)
(* it is.                                                                   *)
TypeOK ==
  /\ pa \in param /\ KeysFit(pa.passwd)
  /\ \/ file \in {NoFile, TornFile}
     \/ file \in [is : {"whole"}, doc : Document] /\ KeysFit(file.doc.passwd)
  /\ iface \in [Lans -> Interface]
  /\ \/ pc \in {"down", "idle"} /\ job = NoJob
     \/ pc \in {"save", "write"} /\ job.op \in Saving
     \/ /\ pc \in Setting
        /\ job \in NetJobs
        /\ pc = "ping" => job.op = "LANTEST" /\ ~job.back
  /\ drift \subseteq Lans
  /\ saved \in BOOLEAN /\ flushed \in BOOLEAN /\ blank \in BOOLEAN

(* A change that was confirmed with CFGMGR_OK is on disk, whole, and the    *)
(* disk agrees with memory until some operation reports a failure or the    *)
(* daemon ends: no handler changes the one without the other.  All that can *)
(* come between is the fclose whose result paramSave does not look at.      *)
SavedIsOnDisk == pc = "idle" /\ saved /\ flushed => file = WholeFile(pa)

(* The daemon does not serve a request with a torn file, which no later     *)
(* start can load, unless it was fclose that tore it: of any other failure  *)
(* the assertion on mxmlSaveFile makes an end of the daemon.                *)
TornOnlyByCrash == file.is = "torn" => pc \in {"write", "down"} \/ ~flushed

(* No sequence of requests, restarts and failures gets an empty password    *)
(* into the file, on which every later start would fail: the forms take     *)
(* none, so it takes one that ends in a blank, of which a start loads the   *)
(* empty word behind it and the next save keeps that.                       *)
FileIsLoadable == file.is = "whole" /\ ~blank => Loadable(file)

(* The addresses set on interface n are those of the configuration.         *)
AsConfigured(n) ==
  /\ iface[n].ip = pa.net[n].ip
  /\ iface[n].mask = pa.net[n].mask
  /\ iface[n].mac = pa.net[n].mac

(* Between requests an interface has the configured addresses, unless an    *)
(* operation that changed it failed on the way: LAN tests put them back,    *)
(* and a refused save that got only as far as the first interface does not  *)
(* leave memory and interface apart.                                        *)
DriftOnlyByFailure == pc = "idle" => \A n \in Lans \ drift : AsConfigured(n)

(* A NETCONFIGSAVE that is confirmed has set both interfaces and has both   *)
(* on disk, if fclose lost nothing, and so it stays, across restarts too,   *)
(* until the next request that is answered.                                 *)
NetConfigOkMeansApplied ==
  pc = "idle" /\ reply = [op |-> "NETCONFIGSAVE", status |-> "OK"] =>
    \A n \in Lans : AsConfigured(n) /\ (flushed => file.doc.net[n] = pa.net[n])

(* Every request is answered and every start comes to the loop or to its    *)
(* end; the one thing that can keep it forever is a link that never comes.  *)
RequestEnds ==
  pc \notin {"idle", "down"} ~>
    (pc \in {"idle", "down"} \/ [](pc = "link"))

-------------------------------------------------------------------------------
(* What the code says of itself and does not keep.                          *)

(* Lan1_AutoUpLoadEnable: what is loaded at start is what was saved.        *)
LoadsWhatWasSaved ==
  pc = "ip" /\ job.op = "BOOT" => file = WholeFile(pa)
===============================================================================
