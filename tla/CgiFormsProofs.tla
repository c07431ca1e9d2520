----------------------------- MODULE CgiFormsProofs -----------------------------
(***************************************************************************)
(* What the forms refuse is enough for the daemon: whatever is typed and    *)
(* whatever the limits are, texts arrive as they were typed, a confirmed    *)
(* password opens, every form gets its page and the file that is sent is    *)
(* the one that was asked for.                                              *)
(***************************************************************************)
EXTENDS CgiForms, TLAPS

(* The requests that set a password.                                        *)
KeyRequests == {"NORMALUSERMGR_REQUEST", "SUPERUSERMGR_REQUEST"}

(* The forms that build such a request are the ones with a NewKey.          *)
LEMMA KeyForms ==
  ASSUME NEW name \in DOMAIN formMethodTable,
         formMethodTable[name].type \in KeyRequests
  PROVE  "NewKey" \in formMethodTable[name].texts
<1>1. name \in {"Function_NormalUserMgr", "Function_SuperUserMgr"}
  BY DEF formMethodTable, KeyRequests, Method, login, lan1Test, lan2Test, netConfigSave,
     netCapture, netFilter, fileLookUp, fileUpLoad, diskInfo, systemInfo,
     lan1StatisticsClear, lan2StatisticsClear, systemTimeGet, systemTimeSet,
     adminPasswdConfirm, getVersion, updateLogicFile, updateCfgMgrFile, updateWeb,
     factoryReset, reboot, logLookUp, logExport, logClearAll
<1> QED BY <1>1 DEF formMethodTable, Method, normalUserMgr, superUserMgr

-------------------------------------------------------------------------------
(* What the properties need of the exchange under way.  A request is what   *)
(* its method made of the form, a form that the method let through.         *)
SentOK ==
  stage = "sent" =>
    /\ form.name \in DOMAIN formMethodTable
    /\ form.typed \in Typed(form.name)
    /\ \A f \in DOMAIN form.typed : Accepts(f, cgiFormString(form.typed[f]))
    /\ m.type = formMethodTable[form.name].type
    /\ m.data = [f \in DOMAIN form.typed |->
                   strncpy(cgiFormString(form.typed[f]), Size(f))]

(* What ConfirmedPasswordWorks says of a status, printed or not yet.        *)
OpensWith(status) ==
  /\ form.name = "Function_Login" =>
       \A u \in Users :
         Names[u] = form.typed["UserName"] /\ known[u] = form.typed["Passwd"] =>
           status = "OK"
  /\ /\ form.name = "Function_AdminPasswdConfirm"
     /\ known["admin"] = form.typed["AdminPasswd"]
     /\ known["admin"].len < KeyMax
     => status = "OK"

(* An answer is one that msg2json has a case for, the right one.            *)
AnswerOK ==
  stage = "answered" =>
    /\ form.name # "Function_FileLookUp" =>
         m.type \in Printed \cup {"COMFIRM", "FILEUPLOAD_RESPONSE"}
    /\ m.type = "COMFIRM" => OpensWith(m.status)
    /\ m.type = "FILEUPLOAD_RESPONSE" /\ form.typed["FileName"].len <= OpenMax =>
         Read(m.name) = {form.typed["FileName"]}

(* A password that a user was told of is the one that is set.               *)
KnownOK ==
  /\ passwd \in [Users -> Text] /\ known \in [Users -> Text]
  /\ \A u \in Users : known[u].word = "garbled" \/ known[u] = passwd[u]

FormOK ==
  /\ stage \in {"ready", "sent", "answered"}
  /\ SentOK /\ AnswerOK /\ KnownOK
  /\ ReadAsTyped /\ ConfirmedPasswordWorks /\ AcceptedGetsPage /\ OpensAskedFile

(* The forms that those properties are about, by the requests they build.   *)
LEMMA FormTypes ==
  ASSUME NEW name \in DOMAIN formMethodTable
  PROVE  LET type == formMethodTable[name].type
             texts == formMethodTable[name].texts
         IN /\ type = "FILELOOKUP_REQUEST" => name = "Function_FileLookUp"
            /\ type = "LOGIN_REQUEST" <=> name = "Function_Login"
            /\ type = "ADMINPASSWDCOMFIRM_REQUEST" <=> name = "Function_AdminPasswdConfirm"
            /\ type = "LOGIN_REQUEST" => texts = {"UserName", "Passwd"}
            /\ type = "ADMINPASSWDCOMFIRM_REQUEST" => texts = {"AdminPasswd"}
            /\ type = "FILEUPLOAD_REQUEST" => texts = {"FileName"}
BY DEF formMethodTable, Method, login, lan1Test, lan2Test, netConfigSave,
   netCapture, netFilter, fileLookUp, fileUpLoad, diskInfo, normalUserMgr, superUserMgr,
   systemInfo, lan1StatisticsClear, lan2StatisticsClear, systemTimeGet, systemTimeSet,
   adminPasswdConfirm, getVersion, updateLogicFile, updateCfgMgrFile, updateWeb,
   factoryReset, reboot, logLookUp, logExport, logClearAll

(* A text that is accepted and fits is neither cut on its way nor without   *)
(* an end mark.                                                             *)
LEMMA FittingIsRead ==
  ASSUME FormsAssumption, NEW f, NEW t \in Texts,
         Accepts(f, cgiFormString(t)), Fits(f, t)
  PROVE  Read(strncpy(cgiFormString(t), Size(f))) = {t}
<1>1. t.len \in Nat
  BY DEF FormsAssumption
<1>2. t.len <= FormMax - 1 /\ t.len < Size(f)
  <2>1. CASE f \in Paths
    BY <1>1, <2>1 DEF Fits, Size, FormsAssumption
  <2>2. CASE f = "FileName"
    BY <1>1, <2>2 DEF Fits, Size, Paths, FormsAssumption
  <2>3. CASE f = "AdminPasswd"
    BY <1>1, <2>3 DEF Fits, Size, Paths, FormsAssumption
  <2>4. CASE f \notin Paths \cup {"FileName", "AdminPasswd"}
    <3>1. cgiFormString(t).len <= KeyMax
      BY <2>4 DEF Accepts
    <3>2. t.len <= FormMax - 1
      <4> SUFFICES ASSUME ~(t.len <= FormMax - 1) PROVE FALSE
        OBVIOUS
      <4>1. cgiFormString(t).len = FormMax - 1
        BY DEF cgiFormString, Cut, FormsAssumption
      <4> QED BY <3>1, <4>1 DEF FormsAssumption
    <3>3. cgiFormString(t) = t
      BY <3>2 DEF cgiFormString, Cut
    <3>4. Size(f) = KeyMax + 1
      BY <2>4 DEF Size
    <3> QED BY <1>1, <3>1, <3>2, <3>3, <3>4 DEF FormsAssumption
  <2> QED BY <2>1, <2>2, <2>3, <2>4
<1>3. cgiFormString(t) = t
  BY <1>2 DEF cgiFormString, Cut
<1>4. Size(f) \in Nat
  BY DEF Size, FormsAssumption
<1>5. Cut(t, Size(f)) = t
  BY <1>1, <1>2, <1>4 DEF Cut
<1> QED BY <1>2, <1>3, <1>5 DEF strncpy, Read

(* So what a handler reads of it is what was typed.                         *)
LEMMA HandlerReads ==
  ASSUME FormsAssumption, SentOK, stage = "sent",
         NEW r \in [DOMAIN m.data -> UNION {Read(m.data[f]) : f \in DOMAIN m.data}],
         \A f \in DOMAIN r : r[f] \in Read(m.data[f])
  PROVE  /\ DOMAIN r = formMethodTable[form.name].texts
         /\ DOMAIN form.typed = DOMAIN r
         /\ \A f \in DOMAIN r : Fits(f, form.typed[f]) => r[f] = form.typed[f]
<1>1. DOMAIN m.data = DOMAIN form.typed /\ DOMAIN r = DOMAIN m.data
  BY DEF SentOK
<1>2. form.typed \in [formMethodTable[form.name].texts -> Texts]
  BY DEF SentOK, Typed
<1>3. ASSUME NEW f \in DOMAIN r, Fits(f, form.typed[f])
      PROVE  r[f] = form.typed[f]
  <2>1. form.typed[f] \in Texts /\ Accepts(f, cgiFormString(form.typed[f]))
    BY <1>1, <1>2, <1>3 DEF SentOK
  <2>2. m.data[f] = strncpy(cgiFormString(form.typed[f]), Size(f))
    BY <1>1, <1>3 DEF SentOK
  <2>3. Read(m.data[f]) = {form.typed[f]}
    BY <1>3, <2>1, <2>2, FittingIsRead
  <2> QED BY <1>3, <2>3
<1> QED BY <1>1, <1>2, <1>3

(* A status for a form that does not ask for a password to be tried.        *)
LEMMA OtherForms ==
  ASSUME NEW status,
         form.name \notin {"Function_Login", "Function_AdminPasswdConfirm"}
  PROVE  OpensWith(status)
BY DEF OpensWith

(* What was typed is never the mark of a password nobody knows.             *)
LEMMA TypedIsKnown ==
  ASSUME FormsAssumption, KnownOK, NEW t \in Texts, NEW u \in Users, known[u] = t
  PROVE  passwd[u] = t
<1>1. t.word # "garbled"
  BY DEF FormsAssumption
<1> QED BY <1>1 DEF KnownOK

(* The handler of a request that changes no password.                       *)
LEMMA KeepsKnown == ASSUME KnownOK, KeepPasswd PROVE KnownOK'
BY DEF KnownOK, KeepPasswd

(* A password that is set is told as it was typed, or not told.             *)
LEMMA SetKeepsKnown ==
  ASSUME FormsAssumption, KnownOK, NEW u \in Users, NEW key \in Text,
         key.len <= KeyMax, key = form.typed["NewKey"], SetPasswd(u, key)
  PROVE  KnownOK'
<1>1. Cut(key, KeyMax) = key
  BY DEF Cut
<1>2. passwd' = [passwd EXCEPT ![u] = key]
  BY <1>1 DEF SetPasswd
<1>3. CASE known' = [known EXCEPT ![u] = key]
  BY <1>2, <1>3 DEF KnownOK
<1>4. CASE known' = [known EXCEPT ![u] = [word |-> "garbled", len |-> 0]]
  <2>1. [word |-> "garbled", len |-> 0] \in Text
    BY DEF Text
  <2> QED BY <1>2, <1>4, <2>1 DEF KnownOK
<1> QED BY <1>3, <1>4 DEF SetPasswd

(* A password that opens is found by the handlers that try passwords.       *)
LEMMA LoginOpens ==
  ASSUME FormsAssumption, KnownOK, form.name = "Function_Login",
         NEW r, form.typed \in [{"UserName", "Passwd"} -> Texts],
         r["UserName"] = form.typed["UserName"], r["Passwd"] = form.typed["Passwd"]
  PROVE  OpensWith(IF \E u \in Users : Names[u] = r["UserName"] /\ passwd[u] = r["Passwd"]
                     THEN "OK" ELSE "ERR")
<1> SUFFICES ASSUME NEW u \in Users,
                    Names[u] = form.typed["UserName"], known[u] = form.typed["Passwd"]
             PROVE  \E v \in Users : Names[v] = r["UserName"] /\ passwd[v] = r["Passwd"]
  BY DEF OpensWith
<1>1. passwd[u] = form.typed["Passwd"]
  BY TypedIsKnown
<1> QED BY <1>1

(* ... and by the one that only the administrator's is tried with.          *)
LEMMA ConfirmOpens ==
  ASSUME FormsAssumption, KnownOK, form.name = "Function_AdminPasswdConfirm",
         NEW r, form.typed \in [{"AdminPasswd"} -> Texts],
         Fits("AdminPasswd", form.typed["AdminPasswd"]) =>
           r["AdminPasswd"] = form.typed["AdminPasswd"]
  PROVE  OpensWith(IF passwd["admin"] = r["AdminPasswd"] THEN "OK" ELSE "PASSWD_INVALID")
<1> SUFFICES ASSUME known["admin"] = form.typed["AdminPasswd"], known["admin"].len < KeyMax
             PROVE  passwd["admin"] = r["AdminPasswd"]
  BY DEF OpensWith
<1>1. Fits("AdminPasswd", form.typed["AdminPasswd"])
  BY DEF Fits, Paths
<1>2. passwd["admin"] = form.typed["AdminPasswd"]
  BY TypedIsKnown DEF Users
<1> QED BY <1>1, <1>2

(* Submit: the request is what the form says.                               *)
LEMMA SubmitKeeps == ASSUME FormOK, Submit PROVE FormOK'
<1>1. PICK name \in DOMAIN formMethodTable : \E typed \in Typed(name) :
        /\ \A f \in DOMAIN typed : Accepts(f, cgiFormString(typed[f]))
        /\ form' = [name |-> name, typed |-> typed]
        /\ m' = [type |-> formMethodTable[name].type,
                 data |-> [f \in DOMAIN typed |->
                             strncpy(cgiFormString(typed[f]), Size(f))]]
  BY DEF Submit
<1>2. PICK typed \in Typed(name) :
        /\ \A f \in DOMAIN typed : Accepts(f, cgiFormString(typed[f]))
        /\ form' = [name |-> name, typed |-> typed]
        /\ m' = [type |-> formMethodTable[name].type,
                 data |-> [f \in DOMAIN typed |->
                             strncpy(cgiFormString(typed[f]), Size(f))]]
  BY <1>1
<1>3. stage' = "sent" /\ UNCHANGED <<passwd, known>>
  BY DEF Submit
<1>4. SentOK'
  <2>1. form'.name = name /\ form'.typed = typed
    BY <1>2
  <2>2. m'.type = formMethodTable[name].type
        /\ m'.data = [f \in DOMAIN typed |-> strncpy(cgiFormString(typed[f]), Size(f))]
    BY <1>2
  <2> QED BY <1>2, <2>1, <2>2 DEF SentOK, Typed
<1>5. KnownOK'
  BY <1>3 DEF FormOK, KnownOK
<1> QED BY <1>3, <1>4, <1>5 DEF FormOK, AnswerOK, ReadAsTyped, ConfirmedPasswordWorks,
     AcceptedGetsPage, OpensAskedFile

(* Refuse: no page.                                                         *)
LEMMA RefuseKeeps == ASSUME FormOK, Refuse PROVE FormOK'
<1>1. stage' = "ready" /\ page' = [kind |-> "none"] /\ UNCHANGED <<passwd, known>>
  BY DEF Refuse, NoPage
<1>2. KnownOK'
  BY <1>1 DEF FormOK, KnownOK
<1> QED BY <1>1, <1>2 DEF FormOK, SentOK, AnswerOK, ReadAsTyped, ConfirmedPasswordWorks,
     AcceptedGetsPage, OpensAskedFile

(* Handle: what is read is what was typed, and the answer is the right one. *)
LEMMA HandleKeeps == ASSUME FormsAssumption, FormOK, Handle PROVE FormOK'
<1>1. PICK r \in [DOMAIN m.data -> UNION {Read(m.data[f]) : f \in DOMAIN m.data}] :
        /\ \A f \in DOMAIN r : r[f] \in Read(m.data[f])
        /\ req' = r
        /\ \/ doLogin(r) \/ doNormalUserMgr(r) \/ doSuperUserMgr(r)
           \/ doAdminPasswdConfirm(r)
           \/ doFileUpLoad \/ doFileLookUp \/ doReport \/ doConfirm
  BY DEF Handle
<1>2. stage = "sent" /\ stage' = "answered" /\ form' = form
  BY DEF Handle
<1> DEFINE name == form.name
           texts == formMethodTable[name].texts
<1>3. /\ name \in DOMAIN formMethodTable
      /\ m.type = formMethodTable[name].type
      /\ form.typed \in [texts -> Texts]
  BY <1>2 DEF FormOK, SentOK, Typed
<1>4. /\ DOMAIN r = texts /\ DOMAIN form.typed = texts
      /\ \A f \in DOMAIN r : Fits(f, form.typed[f]) => r[f] = form.typed[f]
  BY <1>1, <1>2, HandlerReads DEF FormOK
<1>5. ReadAsTyped'
  BY <1>1, <1>2, <1>4 DEF ReadAsTyped
<1> SUFFICES AnswerOK' /\ KnownOK'
  BY <1>2, <1>5 DEF FormOK, SentOK, ConfirmedPasswordWorks, AcceptedGetsPage,
     OpensAskedFile
<1>6. KnownOK
  BY DEF FormOK
<1>7. ASSUME NEW status, Confirm(status), KeepPasswd, OpensWith(status)
      PROVE  AnswerOK' /\ KnownOK'
  <2>1. m'.type = "COMFIRM" /\ m'.status = status
    BY <1>7 DEF Confirm
  <2>2. known' = known
    BY <1>7 DEF KeepPasswd
  <2>3. OpensWith(m.status)'
    BY <1>2, <1>7, <2>1, <2>2 DEF OpensWith
  <2> QED BY <1>6, <1>7, <2>1, <2>3, KeepsKnown DEF AnswerOK
<1>8. CASE doLogin(r)
  <2>1. name = "Function_Login" /\ texts = {"UserName", "Passwd"}
    BY <1>3, <1>8, FormTypes DEF doLogin
  <2>2. r["UserName"] = form.typed["UserName"] /\ r["Passwd"] = form.typed["Passwd"]
    BY <1>4, <2>1 DEF Fits, Paths
  <2>3. OpensWith(IF \E u \in Users : Names[u] = r["UserName"] /\ passwd[u] = r["Passwd"]
                    THEN "OK" ELSE "ERR")
    BY <1>3, <1>6, <2>1, <2>2, LoginOpens
  <2> QED BY <1>7, <1>8, <2>3 DEF doLogin
<1>9. CASE doAdminPasswdConfirm(r)
  <2>1. name = "Function_AdminPasswdConfirm" /\ texts = {"AdminPasswd"}
    BY <1>3, <1>9, FormTypes DEF doAdminPasswdConfirm
  <2>2. OpensWith(IF passwd["admin"] = r["AdminPasswd"] THEN "OK" ELSE "PASSWD_INVALID")
    BY <1>3, <1>4, <1>6, <2>1, ConfirmOpens
  <2> QED BY <1>7, <1>9, <2>2 DEF doAdminPasswdConfirm
<1>10. ASSUME m.type \notin {"LOGIN_REQUEST", "ADMINPASSWDCOMFIRM_REQUEST"}
       PROVE  name \notin {"Function_Login", "Function_AdminPasswdConfirm"}
  BY <1>3, <1>10, FormTypes
<1>11. CASE doNormalUserMgr(r) \/ doSuperUserMgr(r)
  <2>1. m.type \in KeyRequests
    BY <1>11 DEF doNormalUserMgr, doSuperUserMgr, KeyRequests
  <2>2. name \notin {"Function_Login", "Function_AdminPasswdConfirm"}
    BY <1>10, <2>1 DEF KeyRequests
  <2>3. "NewKey" \in texts
    BY <1>3, <2>1, KeyForms
  <2>4. r["NewKey"] = form.typed["NewKey"] /\ r["NewKey"] \in Text
    <3>1. r["NewKey"] = form.typed["NewKey"]
      BY <1>4, <2>3 DEF Fits, Paths
    <3>2. form.typed["NewKey"] \in Texts
      BY <1>3, <2>3
    <3>3. Texts \subseteq Text
      BY DEF FormsAssumption, Text
    <3> QED BY <3>1, <3>2, <3>3
  <2>5. CASE \E u \in Users : r["NewKey"].len <= KeyMax /\ SetPasswd(u, r["NewKey"])
    <3>1. KnownOK'
      BY <1>6, <2>4, <2>5, SetKeepsKnown
    <3>2. m'.type = "COMFIRM"
      BY <2>5 DEF SetPasswd, Confirm
    <3>3. OpensWith(m.status)'
      BY <1>2, <2>2 DEF OpensWith
    <3> QED BY <3>1, <3>2, <3>3 DEF AnswerOK
  <2>6. CASE KeepPasswd /\ \E status \in {"PASSWD_INVALID", "USER_NOT_EXIST"} : Confirm(status)
    BY <1>7, <2>2, <2>6, OtherForms
  <2>7. \/ \E u \in Users : r["NewKey"].len <= KeyMax /\ SetPasswd(u, r["NewKey"])
        \/ KeepPasswd /\ \E status \in {"PASSWD_INVALID", "USER_NOT_EXIST"} : Confirm(status)
    BY <1>11 DEF doNormalUserMgr, doSuperUserMgr, Users
  <2> QED BY <2>5, <2>6, <2>7
<1>12. CASE doFileUpLoad
  <2>1. texts = {"FileName"}
    BY <1>3, <1>12, FormTypes DEF doFileUpLoad
  <2>2. m'.type = "FILEUPLOAD_RESPONSE" /\ m'.name = m.data["FileName"]
    BY <1>12 DEF doFileUpLoad
  <2>3. ASSUME form.typed["FileName"].len <= OpenMax
        PROVE  Read(m'.name) = {form.typed["FileName"]}
    <3>1. form.typed["FileName"] \in Texts
      BY <1>3, <2>1
    <3>2. form.typed["FileName"].len \in Nat
      BY <3>1 DEF FormsAssumption
    <3>3. Fits("FileName", form.typed["FileName"])
      BY <2>3, <3>2 DEF Fits, Paths, FormsAssumption
    <3>4. /\ Accepts("FileName", cgiFormString(form.typed["FileName"]))
          /\ m.data["FileName"] = strncpy(cgiFormString(form.typed["FileName"]),
                                          Size("FileName"))
      BY <1>2, <1>4, <2>1 DEF FormOK, SentOK
    <3> QED BY <2>2, <3>1, <3>3, <3>4, FittingIsRead
  <2>4. KnownOK'
    BY <1>6, <1>12, KeepsKnown DEF doFileUpLoad
  <2> QED BY <1>2, <2>2, <2>3, <2>4 DEF AnswerOK
<1>13. CASE doFileLookUp
  <2>1. name = "Function_FileLookUp"
    BY <1>3, <1>13, FormTypes DEF doFileLookUp
  <2>2. CASE Confirm("OK")
    BY <1>7, <1>13, <2>1, <2>2, OtherForms DEF doFileLookUp
  <2>3. CASE ~Confirm("OK")
    <3>1. m'.type \in {"FILELOOKUP_RESPONSE", "FILELOOKUP_REQUEST"}
      BY <1>13, <2>3 DEF doFileLookUp
    <3>2. KnownOK'
      BY <1>6, <1>13, KeepsKnown DEF doFileLookUp
    <3> QED BY <1>2, <2>1, <3>1, <3>2 DEF AnswerOK
  <2> QED BY <2>2, <2>3
<1>14. CASE doReport
  <2>1. m'.type = Reports[m.type] /\ m.type \in DOMAIN Reports
    BY <1>14 DEF doReport
  <2>2. m'.type \in Printed /\ m'.type \notin {"COMFIRM", "FILEUPLOAD_RESPONSE"}
    BY <2>1 DEF Reports, Printed
  <2>3. KnownOK'
    BY <1>6, <1>14, KeepsKnown DEF doReport
  <2> QED BY <2>2, <2>3 DEF AnswerOK
<1>15. CASE doConfirm
  <2>1. m.type \notin {"LOGIN_REQUEST", "ADMINPASSWDCOMFIRM_REQUEST"}
    BY <1>15 DEF doConfirm, Outcomes
  <2> QED BY <1>7, <1>10, <1>15, <2>1, OtherForms DEF doConfirm
<1> QED BY <1>1, <1>8, <1>9, <1>11, <1>12, <1>13, <1>14, <1>15

(* msg2json: the page says what the answer says.                            *)
LEMMA PageKeeps == ASSUME FormsAssumption, FormOK, msg2json PROVE FormOK'
<1>1. stage = "answered" /\ stage' = "ready" /\ UNCHANGED <<form, passwd, known>>
  BY DEF msg2json
<1>2. KnownOK'
  BY <1>1 DEF FormOK, KnownOK
<1> SUFFICES ConfirmedPasswordWorks' /\ AcceptedGetsPage' /\ OpensAskedFile'
  BY <1>1, <1>2 DEF FormOK, SentOK, AnswerOK, ReadAsTyped
<1>3. CASE m.type = "COMFIRM" /\ page' = confirm2json
  <2>1. page'.kind = "COMFIRM" /\ page'.status = m.status
    BY <1>3 DEF confirm2json
  <2>2. OpensWith(m.status)
    BY <1>1, <1>3 DEF FormOK, AnswerOK
  <2>3. ConfirmedPasswordWorks'
    BY <1>1, <2>1, <2>2 DEF ConfirmedPasswordWorks, OpensWith
  <2> QED BY <2>1, <2>3 DEF AcceptedGetsPage, OpensAskedFile
<1>4. CASE /\ m.type = "FILEUPLOAD_RESPONSE"
           /\ \E name \in Read(m.name) : page' = fileUpLoadResp2http(name)
  <2>1. PICK name \in Read(m.name) : page' = fileUpLoadResp2http(name)
    BY <1>4
  <2>2. page'.kind = "FILE" /\ page'.opened = Cut(name, OpenMax)
    BY <2>1 DEF fileUpLoadResp2http
  <2>3. ASSUME form.typed["FileName"].len <= OpenMax
        PROVE  page'.opened = form.typed["FileName"]
    <3>1. name = form.typed["FileName"]
      BY <1>1, <1>4, <2>1, <2>3 DEF FormOK, AnswerOK
    <3> QED BY <2>2, <2>3, <3>1 DEF Cut
  <2> QED BY <1>1, <2>2, <2>3 DEF ConfirmedPasswordWorks, AcceptedGetsPage, OpensAskedFile
<1>5. CASE m.type \in Printed /\ page' = [kind |-> m.type]
  <2>1. page'.kind \notin {"COMFIRM", "FILE", "INVALID RESPONSE"}
    BY <1>5 DEF Printed
  <2> QED BY <2>1 DEF ConfirmedPasswordWorks, AcceptedGetsPage, OpensAskedFile
<1>6. CASE /\ m.type \notin Printed \cup {"COMFIRM", "FILEUPLOAD_RESPONSE"}
           /\ page' = [kind |-> "INVALID RESPONSE"]
  <2>1. form.name = "Function_FileLookUp"
    BY <1>1, <1>6 DEF FormOK, AnswerOK
  <2> QED BY <1>1, <1>6, <2>1 DEF ConfirmedPasswordWorks, AcceptedGetsPage, OpensAskedFile
<1> QED BY <1>3, <1>4, <1>5, <1>6 DEF msg2json

(* The exchange is as FormOK says, whatever is typed.                       *)
LEMMA FormHolds == Spec => []FormOK
<1> USE FormsAssumption
<1>1. Init => FormOK
  <2> SUFFICES ASSUME Init PROVE FormOK
    OBVIOUS
  <2>1. stage = "ready" /\ page.kind = "none" /\ form.name = "none"
    BY DEF Init, NoPage
  <2>2. KnownOK
    BY DEF Init, KnownOK, FormsAssumption
  <2> QED BY <2>1, <2>2 DEF FormOK, SentOK, AnswerOK, ReadAsTyped, ConfirmedPasswordWorks,
       AcceptedGetsPage, OpensAskedFile
<1>2. FormOK /\ [Next]_vars => FormOK'
  <2> SUFFICES ASSUME FormOK, [Next]_vars PROVE FormOK'
    OBVIOUS
  <2>1. CASE Submit
    BY <2>1, SubmitKeeps
  <2>2. CASE Refuse
    BY <2>2, RefuseKeeps
  <2>3. CASE Handle
    BY <2>3, HandleKeeps
  <2>4. CASE msg2json
    BY <2>4, PageKeeps
  <2>5. CASE UNCHANGED vars
    <3>1. ReadAsTyped' /\ ConfirmedPasswordWorks' /\ AcceptedGetsPage' /\ OpensAskedFile'
      BY <2>5 DEF vars, FormOK, OpensWith, ReadAsTyped, ConfirmedPasswordWorks,
         AcceptedGetsPage, OpensAskedFile
    <3>2. KnownOK'
      BY <2>5 DEF vars, FormOK, KnownOK, OpensWith
    <3>3. SentOK'
      BY <2>5 DEF vars, FormOK, SentOK
    <3>4. AnswerOK'
      BY <2>5 DEF vars, FormOK, AnswerOK, OpensWith
    <3>5. stage' \in {"ready", "sent", "answered"}
      BY <2>5 DEF vars, FormOK
    <3> QED BY <3>1, <3>2, <3>3, <3>4, <3>5 DEF FormOK
  <2> QED BY <2>1, <2>2, <2>3, <2>4, <2>5 DEF Next
<1> QED BY <1>1, <1>2, PTL DEF Spec

(* Whatever the limits and the texts, a handler reads an accepted text that *)
(* fits as it was typed: strlen, strncpy and the arrays agree.              *)
THEOREM FormsAreRead == Spec => []ReadAsTyped
<1>1. FormOK => ReadAsTyped
  BY DEF FormOK
<1> QED BY <1>1, FormHolds, PTL

(* A password that doNormalUserMgr or doSuperUserMgr confirmed opens in     *)
(* doLogin, and in doAdminPasswdConfirm if it is shorter than its array.    *)
THEOREM PasswordOpens == Spec => []ConfirmedPasswordWorks
<1>1. FormOK => ConfirmedPasswordWorks
  BY DEF FormOK
<1> QED BY <1>1, FormHolds, PTL

(* webProcess has a handler for every form of formMethodTable and msg2json  *)
(* a case for its answer.                                                   *)
THEOREM FormsAreAnswered == Spec => []AcceptedGetsPage
<1>1. FormOK => AcceptedGetsPage
  BY DEF FormOK
<1> QED BY <1>1, FormHolds, PTL

(* fileUpLoadResp2http opens the file whose name was typed, if its name     *)
(* fits, although doFileUpLoad copies an array that nobody cleared.         *)
THEOREM AskedFileIsOpened == Spec => []OpensAskedFile
<1>1. FormOK => OpensAskedFile
  BY DEF FormOK
<1> QED BY <1>1, FormHolds, PTL
===============================================================================
