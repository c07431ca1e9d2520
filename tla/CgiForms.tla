-------------------------------- MODULE CgiForms --------------------------------
(***************************************************************************)
(* From a form to the page that answers it (cfgMgrCgi.c): the form's method *)
(* checks what was typed and copies it into the arrays of a message, the    *)
(* daemon's handler reads the arrays as strings and answers, msg2json       *)
(* prints the answer.  Forms follow one another, each with the queue to     *)
(* itself (CgiChannel is about sharing it), and passwords that one form     *)
(* sets are compared with what later forms carry.                           *)
(*                                                                          *)
(* An array that was filled to its last place has no end mark: whoever      *)
(* reads it as a string reads on in what happens to follow, since neither   *)
(* the CGI process nor doFileUpLoad clears the message it fills in.         *)
(*                                                                          *)
(* External: the browser, the files in NET_FILES_PATH, the capture process  *)
(* that answers a look-up of files.                                         *)
(***************************************************************************)
EXTENDS Naturals

CONSTANTS
  Words,        \* words that texts can be beginnings of
  Texts,        \* what can be typed
  Names,        \* names of the two users
  InitPasswd,   \* their passwords in the delivered file
  KeyMax,       \* USR_KEY_LNE_MAX
  FileNameMax,  \* FILE_NAME_LEN_MAX
  FormMax,      \* FORM_ELEMENT_STRING_LEN_MAX
  PathMax,      \* size of autoUpLoadPath
  OpenMax       \* letters of a name that fit, with NET_FILES_PATH, in fileName[50]

Users == {"admin", "normal"}    \* users[0] and users[1]

(* Texts of the same word are beginnings of one another; "garbled" is none. *)
Text == [word : Words \cup {"garbled"}, len : Nat]

ASSUME FormsAssumption ==
  /\ "garbled" \notin Words
  /\ Texts \subseteq [word : Words, len : Nat]
  /\ Names \in [Users -> Text] /\ InitPasswd \in [Users -> Text]
  /\ KeyMax \in Nat /\ FileNameMax \in Nat /\ FormMax \in Nat /\ PathMax \in Nat
  /\ OpenMax \in Nat
  /\ KeyMax + 1 < FormMax /\ FileNameMax + 1 < FormMax /\ FormMax <= PathMax
  /\ OpenMax < FileNameMax
  /\ \A u \in Users : InitPasswd[u].len \in 1..KeyMax

VARIABLES
  stage,    \* where the exchange is
  form,     \* the form that was submitted last: its name and what was typed
  m,        \* the message: the request, then the answer
  req,      \* what the handler read in the request
  page,     \* what was printed
  passwd,   \* pa.users[].passwd
  known     \* history: the password that each user was last told is set

vars == <<stage, form, m, req, page, passwd, known>>

-------------------------------------------------------------------------------
(* Strings and the arrays they are copied into.                             *)
Cut(t, n) == IF t.len <= n THEN t ELSE [t EXCEPT !.len = n]
strncpy(t, size) == [text |-> Cut(t, size), ended |-> t.len < size]
Garbled(t) == [word |-> "garbled", len |-> t.len + 1]
Read(a) == IF a.ended THEN {a.text} ELSE {a.text, Garbled(a.text)}

(* Slip: form elements are cut to the length of a key.                      *)
cgiFormStringShort(t) == Cut(t, KeyMax)

(* What of a form element reaches the method; that it was cut is not looked *)
(* at.                                                                      *)
cgiFormString(t) == Cut(t, FormMax - 1)

-------------------------------------------------------------------------------
(* The methods of the forms: the type of the request they build, the texts  *)
(* they copy into it, and whether there are other elements (addresses,      *)
(* flags, times, an uploaded file) that can be missing or not valid.        *)
Method(type, texts, others) == [type |-> type, texts |-> texts, others |-> others]

login == Method("LOGIN_REQUEST", {"UserName", "Passwd"}, FALSE)
lan1Test == Method("LAN1TEST", {}, TRUE)
lan2Test == Method("LAN2TEST", {}, TRUE)
netConfigSave == Method("NETCONFIGSAVE", {}, TRUE)
netCapture ==
  Method("NETCAPTURE_REQUEST", {"Lan1_AutoUpLoadPath", "Lan2_AutoUpLoadPath"}, TRUE)
netFilter == Method("NETFILTER_REQUEST", {}, TRUE)
fileLookUp == Method("FILELOOKUP_REQUEST", {}, TRUE)
fileUpLoad == Method("FILEUPLOAD_REQUEST", {"FileName"}, FALSE)
diskInfo == Method("DISKINFO_REQUEST", {}, FALSE)
normalUserMgr == Method("NORMALUSERMGR_REQUEST", {"NewKey", "PrimaryKey"}, FALSE)
superUserMgr == Method("SUPERUSERMGR_REQUEST", {"UserName", "AdminKey", "NewKey"}, FALSE)
systemInfo == Method("SYSTEMINFO_REQUEST", {}, FALSE)
lan1StatisticsClear == Method("LAN1STATISTICSCLEAR_REQUEST", {}, FALSE)
lan2StatisticsClear == Method("LAN2STATISTICSCLEAR_REQUEST", {}, FALSE)
systemTimeGet == Method("SYSTIMEGET_REQUEST", {}, FALSE)
systemTimeSet == Method("SYSTIMESET_REQUEST", {}, TRUE)
adminPasswdConfirm == Method("ADMINPASSWDCOMFIRM_REQUEST", {"AdminPasswd"}, FALSE)
getVersion == Method("GETVERSION_REQUEST", {}, FALSE)
updateLogicFile == Method("UPDATELOGICFILE_REQUEST", {}, TRUE)
updateCfgMgrFile == Method("UPDATECFGMGRFILE_REQUEST", {}, TRUE)
updateWeb == Method("UPDATEWEB_REQUEST", {}, TRUE)
factoryReset == Method("FACTORYRESET_REQUEST", {}, FALSE)
reboot == Method("REBOOT_REQUEST", {}, FALSE)
logLookUp == Method("LOGLOOKUP_REQUEST", {}, TRUE)
logExport == Method("LOGEXPORT_REQUEST", {}, TRUE)
logClearAll == Method("LOGCLEARALL_REQUEST", {}, FALSE)

formMethodTable ==
  [Function_Login |-> login,
   Function_Lan1Test |-> lan1Test,
   Function_Lan2Test |-> lan2Test,
   Function_NetConfigSave |-> netConfigSave,
   Function_NetCapture |-> netCapture,
   Function_NetFilter |-> netFilter,
   Function_FileLookUp |-> fileLookUp,
   Function_FileUpLoad |-> fileUpLoad,
   Function_DiskInfo |-> diskInfo,
   Function_NormalUserMgr |-> normalUserMgr,
   Function_SuperUserMgr |-> superUserMgr,
   Function_SystemInfo |-> systemInfo,
   Function_Lan1StatisticsClear |-> lan1StatisticsClear,
   Function_Lan2StatisticsClear |-> lan2StatisticsClear,
   Function_SystemTimeGet |-> systemTimeGet,
   Function_SystemTimeSet |-> systemTimeSet,
   Function_AdminPasswdConfirm |-> adminPasswdConfirm,
   Function_GetVersion |-> getVersion,
   Function_UpdateLogicFile |-> updateLogicFile,
   Function_UpdateCfgMgrFile |-> updateCfgMgrFile,
   Function_UpdateWeb |-> updateWeb,
   Function_FactoryReset |-> factoryReset,
   Function_Reboot |-> reboot,
   Function_LogLookUp |-> logLookUp,
   Function_LogExport |-> logExport,
   Function_LogClearAll |-> logClearAll]

Paths == {"Lan1_AutoUpLoadPath", "Lan2_AutoUpLoadPath"}

(* stringLenZeroChkReturn, fileNameLenChkReturn and the checks of keys.     *)
Accepts(f, t) ==
  /\ t.len # 0
  /\ \/ f \in Paths
     \/ f = "FileName" /\ t.len <= FileNameMax
     \/ f \notin Paths \cup {"FileName"} /\ t.len <= KeyMax

(* The sizes of the arrays.                                                 *)
Size(f) ==
  CASE f \in Paths -> PathMax
    [] f = "FileName" -> FileNameMax
    [] f = "AdminPasswd" -> KeyMax
    [] OTHER -> KeyMax + 1

-------------------------------------------------------------------------------
NoPage == [kind |-> "none"]
NoMsg == [type |-> "none"]

Init ==
  /\ stage = "ready"
  /\ form = [name |-> "none"]
  /\ m = NoMsg
  /\ req = <<>>
  /\ page = NoPage
  /\ passwd = InitPasswd
  /\ known = InitPasswd

Typed(name) == [formMethodTable[name].texts -> Texts]

(* cgiMain up to msgSend.                                                   *)
Submit ==
  /\ stage = "ready"
  /\ \E name \in DOMAIN formMethodTable : \E typed \in Typed(name) :
       /\ \A f \in DOMAIN typed : Accepts(f, cgiFormString(typed[f]))
       /\ form' = [name |-> name, typed |-> typed]
       /\ m' = [type |-> formMethodTable[name].type,
                data |-> [f \in DOMAIN typed |-> strncpy(cgiFormString(typed[f]), Size(f))]]
  /\ stage' = "sent"
  /\ page' = NoPage
  /\ UNCHANGED <<req, passwd, known>>

(* ... or the method refuses: nothing is sent, nothing is printed.          *)
Refuse ==
  /\ stage = "ready"
  /\ \E name \in DOMAIN formMethodTable : \E typed \in Typed(name) :
       /\ \/ formMethodTable[name].others
          \/ \E f \in DOMAIN typed : ~Accepts(f, cgiFormString(typed[f]))
       /\ form' = [name |-> name, typed |-> typed]
  /\ page' = NoPage
  /\ UNCHANGED <<stage, m, req, passwd, known>>

-------------------------------------------------------------------------------
(* The daemon's handlers, by what they answer; doNormalUserMgr and          *)
(* doSuperUserMgr save what they change, which may fail (see ConfigStore).  *)
Confirm(status) == m' = [type |-> "COMFIRM", status |-> status]

(* Slip: whoever is named, the normal user's password is set.               *)
SetPasswdNormal(u, key) ==
  /\ passwd' = [passwd EXCEPT !["normal"] = Cut(key, KeyMax)]
  /\ Confirm("OK")
  /\ known' = [known EXCEPT ![u] = form.typed["NewKey"]]

SetPasswd(u, key) ==
  /\ passwd' = [passwd EXCEPT ![u] = Cut(key, KeyMax)]
  /\ \/ Confirm("OK") /\ known' = [known EXCEPT ![u] = form.typed["NewKey"]]
     \/ Confirm("ERR") /\ known' = [known EXCEPT ![u] = [word |-> "garbled", len |-> 0]]

KeepPasswd == UNCHANGED <<passwd, known>>

doLogin(r) ==
  /\ m.type = "LOGIN_REQUEST"
  /\ Confirm(IF \E u \in Users : Names[u] = r["UserName"] /\ passwd[u] = r["Passwd"]
               THEN "OK" ELSE "ERR")
  /\ KeepPasswd

doNormalUserMgr(r) ==
  /\ m.type = "NORMALUSERMGR_REQUEST"
  /\ IF passwd["normal"] = r["PrimaryKey"] /\ r["NewKey"].len <= KeyMax
       THEN SetPasswd("normal", r["NewKey"])
       ELSE Confirm("PASSWD_INVALID") /\ KeepPasswd

doSuperUserMgr(r) ==
  /\ m.type = "SUPERUSERMGR_REQUEST"
  /\ \/ /\ passwd["admin"] # r["AdminKey"] \/ r["NewKey"].len > KeyMax
        /\ Confirm("PASSWD_INVALID") /\ KeepPasswd
     \/ /\ passwd["admin"] = r["AdminKey"] /\ r["NewKey"].len <= KeyMax
        /\ \A u \in Users : Names[u] # r["UserName"]
        /\ Confirm("USER_NOT_EXIST") /\ KeepPasswd
     \/ /\ passwd["admin"] = r["AdminKey"] /\ r["NewKey"].len <= KeyMax
        /\ \E u \in Users : Names[u] = r["UserName"] /\ SetPasswd(u, r["NewKey"])

doAdminPasswdConfirm(r) ==
  /\ m.type = "ADMINPASSWDCOMFIRM_REQUEST"
  /\ Confirm(IF passwd["admin"] = r["AdminPasswd"] THEN "OK" ELSE "PASSWD_INVALID")
  /\ KeepPasswd

(* memcpy of the array, not of the string in it.                            *)
doFileUpLoad ==
  /\ m.type = "FILEUPLOAD_REQUEST"
  /\ m' = [type |-> "FILEUPLOAD_RESPONSE", name |-> m.data["FileName"]]
  /\ KeepPasswd

(* Whatever comes from the queue to the capture process, which may be the   *)
(* request itself, or a cleared message if that queue fails.                *)
doFileLookUp ==
  /\ m.type = "FILELOOKUP_REQUEST"
  /\ \/ m' = [type |-> "FILELOOKUP_RESPONSE"]
     \/ m' = m
     \/ Confirm("OK")
  /\ KeepPasswd

(* Handlers that answer with a response of their own.                       *)
Reports ==
  [DISKINFO_REQUEST |-> "DISKINFO_RESPONSE",
   SYSTEMINFO_REQUEST |-> "SYSTEMINFO_RESPONSE",
   SYSTIMEGET_REQUEST |-> "SYSTIMEGET_RESPONSE",
   GETVERSION_REQUEST |-> "GETVERSION_RESPONSE",
   LOGLOOKUP_REQUEST |-> "LOGLOOKUP_RESPONSE",
   LOGEXPORT_REQUEST |-> "LOGEXPORT_RESPONSE"]

doReport ==
  /\ m.type \in DOMAIN Reports
  /\ m' = [type |-> Reports[m.type]]
  /\ KeepPasswd

(* Handlers that confirm, with what ConfigStore says of them, always with   *)
(* OK, or always with NOT_SUPPORT.                                          *)
Outcomes ==
  [LAN1TEST |-> {"OK", "ERR", "IP_INVALID"},
   LAN2TEST |-> {"OK", "ERR", "IP_INVALID"},
   NETCONFIGSAVE |-> {"OK", "ERR", "IP_INVALID"},
   NETCAPTURE_REQUEST |-> {"OK", "ERR"},
   NETFILTER_REQUEST |-> {"OK", "ERR"},
   SYSTIMESET_REQUEST |-> {"OK"},
   LOGCLEARALL_REQUEST |-> {"OK"},
   UPDATELOGICFILE_REQUEST |-> {"OK"},
   UPDATECFGMGRFILE_REQUEST |-> {"OK"},
   UPDATEWEB_REQUEST |-> {"OK"},
   FACTORYRESET_REQUEST |-> {"NOT_SUPPORT"},
   REBOOT_REQUEST |-> {"NOT_SUPPORT"},
   LAN1STATISTICSCLEAR_REQUEST |-> {"NOT_SUPPORT"},
   LAN2STATISTICSCLEAR_REQUEST |-> {"NOT_SUPPORT"}]

doConfirm ==
  /\ m.type \in DOMAIN Outcomes
  /\ \E status \in Outcomes[m.type] : Confirm(status)
  /\ KeepPasswd

(* webProcess: receive, read, dispatch, send.                               *)
Handle ==
  /\ stage = "sent"
  /\ \E r \in [DOMAIN m.data -> UNION {Read(m.data[f]) : f \in DOMAIN m.data}] :
       /\ \A f \in DOMAIN r : r[f] \in Read(m.data[f])
       /\ req' = r
       /\ \/ doLogin(r) \/ doNormalUserMgr(r) \/ doSuperUserMgr(r)
          \/ doAdminPasswdConfirm(r)
          \/ doFileUpLoad \/ doFileLookUp \/ doReport \/ doConfirm
  /\ stage' = "answered"
  /\ UNCHANGED <<form, page>>

-------------------------------------------------------------------------------
(* Slip: two cases are missing.                                             *)
PrintedFewer ==
  {"FILELOOKUP_RESPONSE", "SYSTIMEGET_RESPONSE", "GETVERSION_RESPONSE",
   "LOGLOOKUP_RESPONSE", "LOGEXPORT_RESPONSE"}

(* The responses that msg2json has a case for, the confirm and the file     *)
(* apart.                                                                   *)
Printed ==
  {"FILELOOKUP_RESPONSE", "SYSTIMEGET_RESPONSE", "GETVERSION_RESPONSE",
   "LOGLOOKUP_RESPONSE", "LOGEXPORT_RESPONSE", "DISKINFO_RESPONSE",
   "SYSTEMINFO_RESPONSE"}

(* confirm2json                                                             *)
confirm2json == [kind |-> "COMFIRM", status |-> m.status]

(* Slip: the name is cut one letter early.                                  *)
fileUpLoadShort(name) ==
  [kind |-> "FILE", name |-> name, opened |-> Cut(name, OpenMax - 1)]

(* fileUpLoadResp2http: the name is cut to what fits behind NET_FILES_PATH  *)
(* in fileName, and the page is named after the whole of it.                *)
fileUpLoadResp2http(name) ==
  [kind |-> "FILE", name |-> name, opened |-> Cut(name, OpenMax)]

(* msg2json, and the CGI process ends.                                      *)
msg2json ==
  /\ stage = "answered"
  /\ \/ m.type = "COMFIRM" /\ page' = confirm2json
     \/ m.type = "FILEUPLOAD_RESPONSE"
        /\ \E name \in Read(m.name) : page' = fileUpLoadResp2http(name)
     \/ m.type \in Printed /\ page' = [kind |-> m.type]
     \/ m.type \notin Printed \cup {"COMFIRM", "FILEUPLOAD_RESPONSE"}
        /\ page' = [kind |-> "INVALID RESPONSE"]
  /\ stage' = "ready"
  /\ m' = NoMsg
  /\ req' = <<>>
  /\ UNCHANGED <<form, passwd, known>>

Next == Submit \/ Refuse \/ Handle \/ msg2json

Spec == Init /\ [][Next]_vars

-------------------------------------------------------------------------------
(* What a handler reads is what was typed, to the last letter, in every     *)
(* text of every form that is accepted, but for a password to confirm or a  *)
(* file name that fills its array and a path that is too long for a form    *)
(* element.                                                                 *)
Fits(f, t) ==
  CASE f \in Paths -> t.len < FormMax
    [] f = "AdminPasswd" -> t.len < KeyMax
    [] f = "FileName" -> t.len < FileNameMax
    [] OTHER -> TRUE

ReadAsTyped ==
  stage = "answered" =>
    \A f \in DOMAIN req : Fits(f, form.typed[f]) => req[f] = form.typed[f]

(* A password whose change was confirmed opens, as long as the daemon runs  *)
(* (of a restart, see FileIsLoadable of ConfigStore): login accepts it, and *)
(* so does AdminPasswdConfirm unless it has all of the USR_KEY_LNE_MAX      *)
(* letters that doSuperUserMgr allows.                                      *)
ConfirmedPasswordWorks ==
  stage = "ready" /\ page.kind = "COMFIRM" =>
    /\ form.name = "Function_Login" =>
         \A u \in Users :
           Names[u] = form.typed["UserName"] /\ known[u] = form.typed["Passwd"] =>
             page.status = "OK"
    /\ /\ form.name = "Function_AdminPasswdConfirm"
       /\ known["admin"] = form.typed["AdminPasswd"]
       /\ known["admin"].len < KeyMax
       => page.status = "OK"

(* Every form has a case in webProcess and its answer a case in msg2json:   *)
(* an accepted form gets a page, of a look-up of files apart, which may get *)
(* its own request back.                                                    *)
AcceptedGetsPage ==
  stage = "ready" /\ form.name \notin {"none", "Function_FileLookUp"} =>
    page.kind # "INVALID RESPONSE"

(* The file that is opened is the file that was asked for, if its name fits *)
(* next to NET_FILES_PATH: it comes back from an array that nobody cleared. *)
OpensAskedFile ==
  stage = "ready" /\ page.kind = "FILE" /\ form.typed["FileName"].len <= OpenMax =>
    page.opened = form.typed["FileName"]
===============================================================================
