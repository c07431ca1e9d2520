-------------------------------- MODULE LogStore --------------------------------
(***************************************************************************)
(* The log (trace.c): a table of rows in a database file, written by trace  *)
(* while requests are handled, looked up page by page, exported, and        *)
(* cleared by removing the file.  The clock that stamps the rows can be set *)
(* by a request (doSysTimeSet).  Handling any request writes to the log, so *)
(* that looking at the log changes it.                                      *)
(*                                                                          *)
(* External: the database returns rows in the order of their insertion; the *)
(* columns have no type, so that times are compared as text.  The reader is *)
(* the page that asks, through the CGI, for one page after the other.       *)
(***************************************************************************)
EXTENDS Naturals, Integers, Sequences, SequencesExt, FiniteSetsExt

CONSTANTS
  PageMax,     \* PAGE_RECORDS_MAX
  Lengths,     \* page lengths the reader can ask for
  Filters,     \* what it can ask for
  FirstTime,   \* what the clock shows at first
  SetTimes,    \* what it can be set to
  MaxTime,     \* bound: the clock does not go beyond
  MaxLog,      \* bound: no other request is made once the log is this long
  MaxRead      \* bound: no page is asked for once the log is this long

LogTypes == {"USER", "SYSTEM"}
Significances == {"GENERAL", "KEY"}
Row == [time : Nat, typ : LogTypes, sgnfcc : Significances]

(* What is looked for: ALL stands for either type or significance.          *)
Filter == [s : Nat, e : Nat, typ : LogTypes \cup {"ALL"},
           sgnfcc : Significances \cup {"ALL"}]

ASSUME LogAssumption ==
  /\ Filters \subseteq Filter
  /\ PageMax \in Nat \ {0}
  /\ Lengths \subseteq 1..PageMax
  /\ FirstTime \in Nat /\ SetTimes \subseteq Nat
  /\ MaxTime \in Nat /\ MaxLog \in Nat /\ MaxRead \in Nat

VARIABLES
  now,     \* the system's clock
  log,     \* the rows of logtable, oldest first
  up,      \* whether the daemon runs
  reader   \* the page: what it asks for, the last answer, all the rows it got

vars == <<now, log, up, reader>>

NoReader == [on |-> FALSE]

Init ==
  /\ now = FirstTime
  /\ log = <<>>
  /\ up = TRUE
  /\ reader = NoReader

-------------------------------------------------------------------------------
(* The text of a number, digit by digit, and the order of texts.            *)
Digits[n \in Nat] ==
  IF n < 10 THEN <<n>> ELSE Append(Digits[n \div 10], n % 10)

TextLeq(a, b) ==
  \/ IsPrefix(a, b)
  \/ \E i \in 1..Min({Len(a), Len(b)}) :
       a[i] < b[i] /\ SubSeq(a, 1, i - 1) = SubSeq(b, 1, i - 1)

(* Slip: the end of the window is left out.                                 *)
OccurTimeBefore(t, s, e) ==
  TextLeq(Digits[s], Digits[t]) /\ TextLeq(Digits[t], Digits[e]) /\ t # e

OccurTimeBetween(t, s, e) ==
  TextLeq(Digits[s], Digits[t]) /\ TextLeq(Digits[t], Digits[e])

(* What the query of logSelect asks of a row.                               *)
Wanted(r, f) ==
  /\ OccurTimeBetween(r.time, f.s, f.e)
  /\ f.typ \in {"ALL", r.typ}
  /\ f.sgnfcc \in {"ALL", r.sgnfcc}

(* logSelect: the rows the query returns, picked one after the other.       *)
logSelect(l, f) ==
  LET table[i \in 0..Len(l)] ==
        IF i = 0 THEN <<>>
        ELSE IF Wanted(l[i], f) THEN Append(table[i - 1], l[i]) ELSE table[i - 1]
  IN table[Len(l)]

(* Slip: a page begins with the last row of the page before.                *)
logRequestOverlaps(table, start, elementMax) ==
  SubSeq(table, Max({start, 1}), Min({Len(table), start + elementMax}))

(* logRequest: the elements it fills in from table.                         *)
logRequest(table, start, elementMax) ==
  SubSeq(table, start + 1, Min({Len(table), start + elementMax}))

(* logWrite: the row is inserted, or the insertion fails, which is printed. *)
logWrite(logs, row) == logs \cup {Append(l, row) : l \in logs}

(* trace, at time t.                                                        *)
trace(logs, t, typ, sgnfcc) ==
  logWrite(logs, [time |-> t, typ |-> typ, sgnfcc |-> sgnfcc])

(* webProcess traces every message it receives, before it handles it.       *)
Received == trace({log}, now, "SYSTEM", "GENERAL")

CanServe == up /\ Len(log) < MaxLog

-------------------------------------------------------------------------------
(* doLogLookUp for a reader that is at r.start: its answer and what the     *)
(* reader, to whom logLookUpResp2json prints it, has then seen.             *)
LookUp(r, table) ==
  LET rows == logRequest(table, r.start, Min({PageMax, r.length}))
      length == Min({r.length, Len(table) - r.start, PageMax})
  IN [r EXCEPT !.total = Len(table),
               !.shown = length,
               !.seen = @ \o SubSeq(rows, 1, Min({length, Len(rows)})),
               !.rows = Len(rows)]

(* The answer of a look-up whose database cannot be opened.                 *)
LookUpFails(r) == [LookUp(r, <<>>) EXCEPT !.whole = FALSE]

Ask(r) ==
  /\ up /\ Len(log) < MaxRead
  /\ log' \in Received
  /\ reader' \in {LookUp(r, logSelect(log', r.filter)), LookUpFails(r)}
  /\ UNCHANGED <<now, up>>

(* The reader asks for the first page, or for the one after.                *)
FirstPage ==
  \E f \in Filters, n \in Lengths :
    Ask([on |-> TRUE, filter |-> f, start |-> 0, length |-> n, total |-> 0,
         shown |-> 0, rows |-> 0, seen |-> <<>>, whole |-> TRUE])

NextPage ==
  /\ reader.on
  /\ reader.start + reader.length < reader.total
  /\ Ask([reader EXCEPT !.start = @ + reader.length])

(* logRequestExport: whether the daemon survives it.  The table of a query  *)
(* that finds nothing has no header row to print: reading past its end may  *)
(* end the daemon.                                                          *)
logRequestExport(table) == IF table = <<>> THEN BOOLEAN ELSE {TRUE}

doLogExport ==
  \E f \in Filters :
    /\ CanServe
    /\ \E l \in trace(Received, now, "USER", "GENERAL") :
         /\ up' \in logRequestExport(logSelect(l, f))
         /\ log' \in IF up' THEN trace({l}, now, "USER", "GENERAL") ELSE {l}
    /\ UNCHANGED <<now, reader>>

(* doLogClearAll: what it traced itself is removed with the file.           *)
doLogClearAll ==
  /\ CanServe
  /\ log' = <<>>
  /\ reader' = IF reader.on THEN [reader EXCEPT !.whole = FALSE] ELSE reader
  /\ UNCHANGED <<now, up>>

doSysTimeSet ==
  \E t \in SetTimes :
    /\ CanServe
    /\ log' \in trace(trace(Received, now, "USER", "GENERAL"), t, "USER", "GENERAL")
    /\ now' = t
    /\ UNCHANGED <<up, reader>>

(* Requests that are only answered (version, disk, system, updates), and    *)
(* requests that are not supported: factory reset, reboot, statistics.      *)
doReported ==
  /\ CanServe
  /\ log' \in trace(trace(Received, now, "USER", "GENERAL"), now, "USER", "GENERAL")
  /\ UNCHANGED <<now, up, reader>>

doNotSupported ==
  /\ CanServe
  /\ \E typ \in LogTypes :
       log' \in trace(trace(Received, now, "USER", "GENERAL"), now, typ, "KEY")
  /\ UNCHANGED <<now, up, reader>>

(* Any other request: its handler traces, and an error is of significance.  *)
OtherRequest ==
  /\ CanServe
  /\ \E typ \in LogTypes, sgnfcc \in Significances :
       log' \in trace(Received, now, typ, sgnfcc)
  /\ UNCHANGED <<now, up, reader>>

(* The database cannot be opened where a row is to be written, which is      *)
(* asserted (logWrite): the daemon ends in the middle of a request, whatever *)
(* this has traced before and whether or not it has set the clock.           *)
logWriteAborts ==
  /\ CanServe
  /\ up' = FALSE
  /\ log' \in trace(Received, now, "USER", "GENERAL")
  /\ now' \in {now} \cup SetTimes
  /\ UNCHANGED reader

(* The daemon is started again and traces the parameters it loads.          *)
Restart ==
  /\ ~up
  /\ up' = TRUE
  /\ log' \in Received
  /\ UNCHANGED <<now, reader>>

Tick ==
  /\ now < MaxTime
  /\ now' = now + 1
  /\ UNCHANGED <<log, up, reader>>

Next ==
  \/ FirstPage \/ NextPage \/ doLogExport \/ doLogClearAll \/ doSysTimeSet
  \/ doReported \/ doNotSupported \/ OtherRequest \/ logWriteAborts
  \/ Restart \/ Tick

Spec == Init /\ [][Next]_vars

-------------------------------------------------------------------------------
(* Pages read one after the other, while requests of every kind go on       *)
(* adding rows and the clock is set back and forth, show the selected rows  *)
(* in order, none twice and none left out, unless the log was cleared or    *)
(* could not be opened in between.                                          *)
PagesArePrefix ==
  reader.on /\ reader.whole => IsPrefix(reader.seen, logSelect(log, reader.filter))

(* The last page completes them: the reader then has as many rows as the    *)
(* total it is told, rows its own requests added included.                  *)
LastPageCompletes ==
  reader.on /\ reader.whole /\ reader.start + reader.length >= reader.total =>
    Len(reader.seen) = reader.total

(* The length of an answer is the number of elements it was given, and      *)
(* never more, even if a page is asked for where a cleared log has no rows  *)
(* any more: the CGI prints no elements that were not filled in.            *)
LengthIsRows ==
  reader.on => /\ reader.shown <= reader.rows
               /\ reader.whole => reader.shown = reader.rows

(* What a reader of all pages has in the end is what the query selects, and *)
(* each of its pages announces as many rows as it has.                      *)
PagesAreSelection == PagesArePrefix /\ LastPageCompletes /\ LengthIsRows

(* Comparing times as text selects by time as long as all have as many      *)
(* digits: a row is selected exactly if its time is in the window.          *)
SelectsByTime ==
  \A i \in DOMAIN log, f \in Filters :
    Cardinality({Len(Digits[t]) : t \in {log[i].time, f.s, f.e}}) = 1 =>
      (OccurTimeBetween(log[i].time, f.s, f.e) <=> log[i].time \in f.s..f.e)
===============================================================================
