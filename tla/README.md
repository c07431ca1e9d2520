# CfgMgr: a verification development

CfgMgr is the configuration manager of a capture device: a daemon that keeps the
device's parameters, applies them to two network interfaces and logs what it does,
and a CGI program through which the device's web pages talk to it. This directory
models both in TLA+, model-checks the models with TLC and proves the properties that
matter most with TLAPS.

## 1. The system

| Part | Source | State | Operations |
|---|---|---|---|
| message queue | `message.c`, `inc/message.h` | one POSIX queue, blocking, default capacity | `msgOpen`, `msgSend`, `msgRecv` |
| CGI process | `cgi-src/cfgMgrCgi.c`: `cgiMain` | its one message | build a request from the form, send, receive, print |
| daemon loop | `web.c`: `webProcess` | - | start, receive, dispatch, answer |
| configuration store | `web.c`: `paramLoad`, `paramSave` | `pa` in memory, the XML file | load, save, the handlers that change `pa` |
| network | `web.c`: `setNetParameters`, `set_addr`, `set_gateway`, `setMacAddress`, `if_updown` | address, mask, MAC, up/down of two interfaces | apply parameters, LAN test |
| ping | `ping.c`: `pingTest` | table of sent packets, sequence number, sockets | one echo request, one packet received |
| log | `trace.c` | a database table | `trace`, select, page, export, clear |
| CGI forms, JSON | `cgi-src/cfgMgrCgi.c` | - | one method per form, one printer per answer |
| cgic | `cgi-src/cgic.c`, `cgi-src/cgic.h` | the form's entries, temporary files, the environment's strings | parse a form, hand out fields, files and cookies, save and restore the environment, free everything |
| conversions | `share.c` | - | MAC and time formats |

The web server starts one CGI process per HTTP request. Each sends one message to the
queue `CGI_CFGMGR_MSG_NAME` and receives one message from the same queue; the daemon
receives from that queue and sends its answer to it. The daemon is one thread: a handler
runs to its end before the next request is received. Handlers change `pa`, save it to the
file, and make system calls on the interfaces, each of which can fail; a LAN test sets
parameters, pings, and puts the configured ones back. `doFileLookUp` forwards its request
to the capture process through a queue of its own, in the same way.
`cgic` is a library that is kept with the program and compiled into it: its `main` parses
the form, calls `cgiMain`, and gives everything back. Uploads go through its temporary files.

What is hard here:

* *One queue for both directions.* Nothing says whom a message is for. A process takes
  whatever is oldest: its own request, another's request, another's answer; the daemon
  can take its own answer for a request.
* *Faults around a queue that outlives everyone.* CGI processes are killed by the web
  server, the daemon ends on failed assertions, and the queue is never unlinked.
* *Long handlers that fail half-way.* Six system calls per interface, two interfaces, a
  file that is truncated before it is written.
* *A ping that trusts the first packet*, with a sequence number that runs on over tests
  and wraps as a signed 16-bit number.
* *A log that is read in pages while reading it adds to it*, ordered by insertion,
  selected by the text of its times.
* *A parser that puts bytes back.* A boundary can begin inside a false match of itself; the
  declared length need not be that of the input.
* *Failures on the way to a stored form.* Every allocation, file and write can fail, between
  the entry that is linked and the one that is complete, and everything must be given back
  once.

## 2. The modules

| Module | Models |
|---|---|
| `CgiChannel` | the queue, the CGI processes and the daemon's loop |
| `CgiChannelProofs` | its theorems, and that it implements `Mailbox` |
| `Mailbox` | what the channel promises: an abstract specification that `CgiChannel` implements |
| `ConfigStore` | memory, file, interfaces and the handlers that change them |
| `ConfigStoreProofs` | its theorems |
| `ConfigManager` | the channel and the configuration store put together |
| `ConfigManagerProofs` | the proofs that it is both, and its theorem |
| `Ping` | `pingTest` over a sequence of tests |
| `PingProofs` | its theorems |
| `LogStore` | the log, its readers and the clock |
| `LogStoreProofs` | its theorems |
| `CgiForms` | every form: its checks, its request, its handler's answer, its page |
| `CgiFormsProofs` | its theorems |
| `CgicMultipart` | cgic's parser of multipart bodies, byte by byte |
| `CgicMultipartProofs` | its theorems |
| `CgicText` | cgic's functions of texts: forms, headers, fields, numbers, choices, cookies, escapes |
| `Share` | the MAC conversions of `share.c` |
| `CgicRequest` | one CGI process in cgic's `main`: entries, temporary files, upload, environment |
| `CgicRequestInvariants` | its inductive invariants, and what the proofs about texts are told in |
| `CgicRequestProofs` | its theorems |
| `MC...` | instances for TLC, with one `.cfg` per question |

A definition whose comment begins with *Slip* is not part of a specification: it is a
plausible mistake in the definition it stands before, kept to show that the properties
notice it.

### CgiChannel

`q` is the content of the queue, `rcvq` and `sndq` the processes blocked in `msgRecv` and
`msgSend`, in the order in which the kernel serves them. `pc` and `buf` are the control
state and the message of every process. `SendBlocks`, `SendHandsOver`, `SendQueues` are the
outcomes of `mq_send`: the queue is full, somebody is waiting, or the message is queued;
`RecvBlocks`, `RecvTakes`, `RecvLetsIn` those of `mq_receive`. `CgiStart`, `CgiSend`,
`CgiRecv` are `cgiMain`; `DaemonStart`, `DaemonRecv`, `DaemonSend` are `webProcess`, whose
switch is `Answers`. `Kill` and `DaemonExit` are the faults. A member of `Clients` is a slot
in which CGI processes run one after the other.

Messages keep only what the channel tells apart: whether the daemon has a case for the
type (`REQUEST`), forwards it (`FILELOOKUP_REQUEST`), or refuses it (`RESPONSE`,
`NOT_SUPPORT`). The `owner` of a message, `orphans`, `lost` and `alone` are history.

*External.* The queue is the kernel's, modelled from how `message.c` uses it. `mq_open`,
`mq_send` and `mq_receive` fail only by ending the process, which `Kill` and `DaemonExit`
cover.

### Mailbox

A client puts its request behind the others in a box without limit; a client or the daemon
takes the oldest message; the daemon puts back one message of the same owner for each it
took. Nobody waits. A kill leaves a message that nobody expects, the end of the daemon may
lose one. `CgiChannel!Queue` instantiates it: `Box` are the owners of the messages in the queue, `Hand` the owner of the message that the
daemon holds, blocked in `msgSend` or not, `Waiting` the clients that expect a message, `Got`
whose message a client took. A send counts when its message enters the queue or is handed
over, not when its sender begins to wait.
`IsMailbox` is then: no message is taken twice, none is overtaken, none appears from
nowhere, whoever is blocked, killed or restarted.

### ConfigStore

`pa`, `file` and `iface` are the three copies of the configuration. `pc` says which system
call the handler makes next and `job` for which request: `setNetParameters` is the chain
`ip`, `mask`, `gateway`, `mac`, `up`, `link`; `paramSave` is `save`, `write`. `NetDone` and
`NetFailed` are the returns of `setNetParameters` to `webProcess`, `doNetConfigSave` and
`doLanTest`. `Encode` and `Decode` are what saving and loading do to the values: booleans
become words, and of a text of several words only the last is loaded. `Crash` ends the
daemon at any step; a file that was truncated and not, or not wholly, written is `TornFile`.
`Write` confirms a save in both cases that the code does not tell apart: `mxmlSaveFile` leaves
the end of the text in stdio's buffer, and whether the `fclose` behind it wrote that
(`web.c:522`) nobody asks; a full disk is a confirmed save with a torn file. A text of several
words has its blanks, also one at its end, behind which `LastWord` finds the empty word: so a
password that the forms accept (`Accepted`) becomes empty in memory with the next start, and in
the file with the next save. `drift`, `saved`, `flushed` (did the last `fclose` write
all) and `blank` (was such a password loaded) are history. The outcome of the ping of a LAN test has no effect, as in the code:
it is overwritten by the result of putting the parameters back (`web.c:940`).

*Assumed.* Reading the MAC address of an interface whose address was just set does not
fail (the code would compare an uninitialised buffer). The gateway command's result is
ignored by the code and left open. `isDhcp` is stored and loaded but used by nothing and
is left out. User names are not changed by any request and are numbered.

### ConfigManager

The two modules above as one system: `Channel` is an instance of `CgiChannel`, `Store` one of
`ConfigStore`, whose `pc` is here `stage`. The daemon boots (`Boot`), receives (`Loop`), begins
with the handler of the message it holds (`Handle`), goes through the handler's system calls
(`Work`) and sends (`Reply`), while CGI processes take their steps (`Cgi`). `Exit` is the end of
the daemon in both at once. What is asked for depends on the slot a request comes from
(`Ask`): a network save or a filter change. `handled` says that the message in hand has been
given to its handler; `sure` is history. An answer that the daemon takes for a request is refused as
in `CgiChannel` and touches nothing of the store.

### Ping

One test is `Begin` (clear the table, open the socket, send) and one of `ReceiveReply`,
`ReceiveStray`, `Timeout`; or `NoSocket` or `SendFails`. `net` holds answers on their way:
they can be lost, can arrive in a later test, and can be repeated. Numbers keep their
width: `Short` is the signed counter, `Unsigned` the field of the packet. `getprotobyname`
is assumed to succeed; the checksum is not modelled.

### LogStore

`log` is the table in the order of insertion, `now` the clock, `reader` a page that asks for
one page of rows after the other and remembers what it was shown. Every request first
traces that it was received; every insertion may fail, which the code only prints. Times
are compared as text (`Digits`, `TextLeq`), as the query does; `Wanted` is its condition, and
`logSelect` picks the rows one after the other. An export that selects
nothing reads a header that is not there and may end the daemon; so does a row for which the
database cannot be opened (`logWriteAborts`).
The reader advances by the length it asked for and asks for at most `PAGE_RECORDS_MAX`
rows.

### CgiForms

One exchange is `Submit` (or `Refuse`), `Handle`, `msg2json`; exchanges follow one another.
Every form method is an operator with its name in the code: the request type it builds, the
texts it copies, and whether it has other elements that it can refuse. A text is a beginning
of a word, of some length; `strncpy` puts it into an array, with or without end mark, and
`Read` is what a string function may find there: the text, or, without end mark, the text
and whatever follows. `Accepts` are the checks of the methods, `Size` the sizes of the
arrays. The handlers of passwords and downloads are modelled in full; `Reports` and
`Outcomes` are what the others answer. `known` is history.

The comment at `inc/parameters.h:72` has the two users the wrong way round: everywhere in
the code `users[0]` is the administrator, and so it is here.

### CgicMultipart

One action per turn of cgic's loops: `Scan...` is `afterNextBoundary`, `Trail` the two bytes
behind a boundary, `Part` the loop of `cgiParsePostMultipartInput`, `Line...` is
`readHeaderLine`. `putback` is the content of the ring buffer, `inpos` what was taken from
`cgiIn`, `offset` is `mp.offset`; `Got` and `mpRead` are what a read gets, `Take` what it and
the put back behind it change. A header line is a name and a value; only the name
`Content-Disposition` (the letter D) and the value `form-data` (the letter f) have a
meaning. `start` and `parts` are history.

The scan for the *first* boundary handles less than the others, which begin with a CR that
no boundary contains. Where something stands before the first boundary, and a byte of the
boundary other than its last is not a dash, a false match puts bytes back behind others
that are yet to be read: they come back out of order, and a boundary that begins inside the
false match can be missed. `FirstIsPlain` says that neither is so: the body begins with the
boundary, as those of browsers do, or the boundary is dashes but for its last byte. It is
the hypothesis of `PutBackInOrder` and `BoundariesAreFound`; the other properties do without.
The instance has boundaries of all of these kinds.

### CgicText, Share and CgicRequest

`CgicText` and `Share` are operators without state, named as in the code, on texts as
sequences of byte values. A loop of the library that goes from place to place in a text is a
`Walk`: where it goes next from each place, and what it puts out there. `CgicRequest` is the process around them. `pc` goes through `parse`,
`open`, `body` and `entry` for each part of the form, then `main`, and ends in `ended`,
`killed`, or `undefined`, where C says nothing more: a null pointer was followed
(`PartHeaders`, `SaveStrays`), an entry was freed twice, or a saved environment was read out of
step. `list` are the entries, `temps` the temporary files, `env` says
where the environment's strings point. `updateFile`, `cgiWriteEnvironment` and
`cgiReadEnvironment` may be called by `cgiMain` at any time and again and again. Saving has its
outcomes `SaveFails`, `SaveSucceeds` and `SaveStrays`; success includes what nobody looks at: a file
that cannot be opened, a read that fails, a length that is not written, the `fclose` at the
end. Restoring has `RestoreFails`, which leaves the strings as they were or freed,
`RestoreLosesString`, which leaves one of them null or without end mark,
`RestoreLosesEntry`, `RestoreStrays`, and `RestoreSucceeds`, which may stop at an entry for whose name there is no
memory, and lose the end of a file when it closes it; `Call` hands one text to the
library; the calls there are (`FormCall`, `HeaderCall`, ...) say what `cgiMain` or a browser
may hand over, and `CallsAssumption` that it is one of these. `bad` (what has failed) and `shot` are history. A form that is urlencoded is read whole and
its entries linked when complete; one that is multipart links them earlier. Of a number only
tenths are kept of the digits behind its point. `HexBelow` is what lies below the table of
hexadecimal values, which is indexed with a signed character (`cgic.c:1088`): for a byte from 128
on behind a `%`, any number.

*External.* `malloc`, `stdio`, `sscanf`, and the browser, which encodes a form and its headers and shows a
page (`EncodedForm`, `ContentType`, `Disposition`, `Shown`). A field name of a header is a letter,
`n` for `name` and `f` for `filename`, in either letter case.

## 3. What is checked

| Run | Checks | Instance |
|---|---|---|
| `channel_faults` | `TypeOK`, `Conservation`, `NoMutualWait`, `NoSendWedge`, `AloneGetsOwnAnswer`, `IsMailbox` | 3 clients, queue of 2, up to 3 orphaned messages, daemon restarts until it has lost one |
| `channel_live` | `EveryRequestReturns` | 3 clients, queue of 1, one orphaned message, daemon up, handlers that may never end |
| `store_net` | `DriftOnlyByFailure`, `NetConfigOkMeansApplied`, `RequestEnds` | network saves and LAN tests: other address, other mask and MAC, refused mask, refused address; crashes |
| `store_settings` | `TypeOK`, `SavedIsOnDisk`, `TornOnlyByCrash`, `FileIsLoadable` | capture, filter, passwords empty, of one to three words, and with a blank at the end; crashes, and `fclose` failing |
| `log_pages` | `PagesAreSelection`, `SelectsByTime` | pages of 1 and 2 rows, clock passing from 9 to 10 and set back, three queries, other requests until the log has 3 rows, pages until it has 4 |
| `config_manager` | `ConfirmedIsDurable` | 2 clients, one for each kind of request, queue of 1, one orphaned message, every system call failing, crashes at any step until the daemon has lost a message |
| `ping_tests` | `OkIsOwnOrZero`, `OwnAnswerCounts`, `SocketsOnlyLeakByFailure` | 7 tests, numbers of 2 bits, table of 3, 3 sockets |
| `forms` | `ReadAsTyped`, `ConfirmedPasswordWorks`, `AcceptedGetsPage`, `OpensAskedFile` | all forms, texts empty and at, below and beyond each limit |
| `cgic_multipart` | `TypeOK`, `PutBackInOrder`, `StreamInBounds`, `BoundariesAreFound`, `ParserEnds` | all texts of up to 4 of CR, LF, dash and a letter as body, four boundaries with and without dashes, four kinds of header, one part and two, noise before the first boundary, cut off anywhere, no frame at all; declared length right, one more, one less |
| `cgic_request` | `TempsAreKept`, `StaysDefined`, `RestoredIsSaved`, `EnvironmentIsValid`, `UpdateIsWhole`; and of texts `FormIsRead`, `HeadersAreRead`, `FieldsAreRead`, `CookiesAreRead`, `MacIsKept`, `PageShowsText` | forms of up to 3 parts with files, fields, namesakes and odd headers, every failure, up to 4 kinds of it before a save or a restore; all short texts over the bytes each function tells apart |

A property that is a conjunction has its parts as definitions of their own, each with a
comment: `StreamInBounds`, `BoundariesAreFound`, `PagesAreSelection`, `TempsAreKept`,
`FormIsRead`, `HeadersAreRead`, `FieldsAreRead`, `CookiesAreRead`. `BlockedJustly` and
`OneBlockedClient` are not in a run because they are proved.

What they show:

* Although anybody can take anybody's message, messages are conserved: there is always one
  for every client that expects one, except those lost with a daemon that ended. Hence the
  daemon and a client never wait for each other, at most one client is ever blocked in a
  receive, and every request comes to an end, unless the daemon is in a handler that does not:
  one that polls for a carrier (`web.c:748`) or waits for the capture process (`web.c:1112`). A client is sure to get its *own* answer only
  if it had the queue to itself and was already blocked in `msgRecv` when the daemon
  answered (`AloneGetsOwnAnswer`).
* A daemon blocked in a send is released as long as no more messages are orphaned than the
  queue holds. `MaxOrphans` of 3 with a queue of 2 includes the case beyond.
* What was confirmed is on disk and equals memory until something fails, if the `fclose` of
  the save wrote what it had to: the code does not look. Interfaces differ
  from the configuration only after a failure; a confirmed network save is applied and, with
  the same condition, saved, also when an earlier failure had left the interface different.
* A client that had the queue to itself, was blocked in `msgRecv` when the daemon answered, and
  reads OK, can rely on it: what it asked for is in the file until the daemon takes up another
  request, also if the daemon ends and starts again, unless `fclose` lost it. Without the first
  two conditions it may read OK of somebody else's request.
* A request that is carried out is answered, unless the link poll waits for ever.
* The daemon goes on with a torn file only if `fclose` tore it. An end between `fopen` and the
  end of `mxmlSaveFile` leaves one too; on either every later start asserts.
* An empty password gets into the file, on which every later start asserts as well, in one way
  only: a password with a blank at its end is accepted by the forms, loaded as empty, and saved.
* What is typed in an accepted form is what the handler reads, and a password that was
  confirmed opens, at its full length too; but not in `adminPasswd` and `fileName`, which have
  no place for an end mark (`inc/message.h:164`, `:130`).
* A download opens the file that was asked for, if its name fits; a longer one is cut
  (`cfgMgrCgi.c:950`). It sends less than it announces, which is not modelled: `fread` returns the number of blocks, not of bytes
  (`cfgMgrCgi.c:961`), so that one byte of each whole block of 512 is sent.
* Pages read one after the other are the selection, in order and complete, whatever is
  added between them and however the clock moves, unless the log is cleared or cannot be opened;
  and then still no page announces rows that it does not have.
* A ping test is decided by its own answer or by number 0, never by another late answer;
  successful tests do not use up sockets.
* The queue is a mailbox: however its readers and writers block and whoever is killed, what
  is seen of it is a box from which each message is taken once, oldest first.
* Each part of a multipart body ends at the first boundary behind its header, no byte is
  read twice or skipped, whatever false matches the body holds; and the parser ends,
  whatever was sent and declared.
* A request leaves no temporary file behind, whatever fails, except when a file that was
  made cannot be opened. It stays within defined behaviour except for the cases that
  `StaysDefined` lists: a header parameter that nobody asked for (`cgic.c:894`), an allocation for an
  entry that is already linked (`cgic.c:568`), a body in memory that cannot grow (`cgic.c:772`);
  and, when an environment is saved and restored, an upload that was not written or read whole,
  a length that was not written (`cgic.c:2005`), namesakes that are files (`cgic.c:1967`), and the
  strings that a failed restore has left (`cgic.c:1885`).
* A restored environment is the one that was saved, or, if the end of the saved file was lost
  when it was closed, or there was no memory for an entry's name (`cgic.c:2121`), a beginning of
  it, which is taken for the whole. A restored upload can lack its end without notice
  (`cgic.c:2184`).
* The environment's strings stay valid over saves and restores, but not if a restore failed in one of
  them or after another restore.
* What a browser encodes is what is read. The exceptions are part of the properties: a
  content type whose boundary is not its last parameter or comes twice, or that is too long for its array; a header
  parameter that nobody asked for, which is stored through a null pointer (`cgic.c:894`); a cookie header
  that ends with a bare name, a cookie without `=`, a quoted value with an `&`, a MAC address with
  less than two digits in a place.

Runs that end in a violation record a disagreement between the code and what the code
itself says; each has an entry under `findings` of `PROJECT.json`:

| Run | The code |
|---|---|
| `channel_refused` | the daemon takes its own answer for a request, and refuses it (`web.c:1628`) |
| `store_load` | `AutoUpLoadEnable` is loaded into `isCapture` (`web.c:164`) |

Three more disagreements are exceptions that passing properties name:

| Exception | The code |
|---|---|
| `flushed` in `SavedIsOnDisk`, `TornOnlyByCrash`, `NetConfigOkMeansApplied`, `ConfirmedIsDurable` | a save is confirmed although the `fclose` that writes its end failed (`web.c:522`); the assertion before it looks at `mxmlSaveFile` only, which succeeds on a full disk as long as its buffer takes the text |
| `blank` in `FileIsLoadable` | a password that ends in a blank is accepted (`cfgMgrCgi.c:458`), loaded as empty (`web.c:331`), and saved so with the next change: the start after that fails on an assertion |
| `"again"`, `"string"` in `EnvironmentIsValid` | a restore that fails leaves strings of the environment null, without end mark, or freed (`cgic.c:2243`), where `cgic.h:58` says that they are always valid |

**Bounds.** Three clients are enough for one to be blocked, one to send and one to be killed;
a queue of two can be full with one message of a client and one of the daemon, a queue of one
(`channel_live`, `config_manager`) is full and empty most often, and the theorems hold for every capacity and
every number of clients. Seven tests with numbers of two bits pass the wrap almost twice.
With `MaxLog` of 3 and `MaxRead` of 4 a reader has a page of the two rows there are, other requests add
rows, set the clock back or clear the log, and it asks for the next page; the clock changes its number
of digits. Bodies of four bytes can hold a false match inside a
false match, and longer beginnings of the boundary stand before the first one; a
put back buffer of 8 is the smallest for the boundaries used, and headers of 2 bytes are cut.
Forms of three parts have two files and a field in every order that matters for the list, and
room for six temporary files (`MaxTemps`) lets a form with a file be restored several times, each with
its own failures; four kinds of failure (`MaxFailures`) before a save or restore let an upload that
was not stored whole be followed by a failed save and by failed restores. Bounds are named
constants (`MaxOrphans`, `MaxLost`, `MaxTests`, `MaxLog`, `MaxRead`, `MaxTime`, `MaxTemps`, `MaxFailures`).

**Deadlock** is checked in `channel_live` and `forms`, where somebody can always go on. It is not in
`channel_faults` (a wedged daemon is a real end), in `ConfigStore` and `ConfigManager` (a daemon whose file is
missing or torn stays down), in `cgic_multipart` and `cgic_request` (a parser and a process that have ended), nor where
only a bound stops the model.

**Symmetry** of the clients is used in `channel_faults` only, where no liveness is checked.

**Fairness.** `channel_live`: weak fairness of the calls of CGI processes and daemon, that
is of an ordinary scheduler, and of restarting a daemon that is down, which the initial
state needs; none for faults or for clients to come, and none for the handler of a request, which
may never get to its `msgSend`. `EveryRequestReturns` says so (`HandlerHangs`). `store_net`: weak fairness of every
system call of the handler and of the ping, which has a timeout; none for a carrier or
for requests. `cgic_multipart`: weak fairness of the parser's next step, a sequential loop
that reads no more than was declared and so waits for nothing that does not come.

## 4. What is proved

TLAPS proves the following for all values of the constants that satisfy the named
assumptions (`ChannelAssumption`, `StoreAssumption`, `PingAssumption`,
`FormsAssumption`, `LogAssumption`, `MultipartAssumption`, `TextAssumption`, `RequestAssumption`, `CallsAssumption`, `ManagerAssumption`). They say that forms
carry values of their types, that limits are numbers, and where one array has to be longer
than another; `FormsAssumption` that the delivered passwords fit and that no letter is called what an
array without an end mark reads as; `CallsAssumption` that a number has no more digits than an `int` holds,
that an array has room for its end mark, that the choices of a form differ, and that what a browser
sends unquoted, or as the name of a cookie, holds no separator; `ManagerAssumption` is those of its two parts together. TLC
evaluates all of them in the runs.

Each invariant `...OK` below was an invariant of TLC's runs before it was proved. Where an
invariant is not inductive, its strengthening says what the code relies on between the two
places that the property compares.

*`CgiChannelProofs`.* `ChannelOK` is `TypeOK` and `BlockedJustly` without the history
variables; it is inductive as it stands once stated of all processes at once. The lemmas
`SendKeepsChannel` and `RecvKeepsChannel` show it of the queue operations, whoever calls
them; `AppendWaits`, `TailWaits` and `LeaveWaits` are the facts about wait queues without
repetition. `Conservation` is inductive relative to it: a send adds a message and a client
that expects one, a hand-over does both and takes one away, and so on (`OneMore`,
`OneLess`, `Swapped`). `NobodyStuckReceiving` follows by counting: a blocked client means
an empty queue, so the one message there is must be with the daemon. `DaemonNotWedged`
counts a full queue and a message in hand against the orphans. `UndisturbedExchange` needs
`AloneOK`: during an undisturbed exchange the queue is empty and the daemon holds a
descendant of the client's own request, or the client is done with one.

`QueueIsMailbox` is the refinement. Initial states map to the empty mailbox, and every step of `Next` to a step of
the mailbox or to none. One lemma per kind of step: a send that queues or hands over is a `Post` or a `Reply`, with a
`Collect` or a `Fetch` in the same step if somebody was waiting, and one that blocks is none
(`ClientSends`, `DaemonSends`); a receive that lets a blocked sender in is the same, the sender
posting and the receiver collecting at once (`ClientReceives`, `DaemonReceives`, with
`BoxMovesUp` for what becomes of the box); kills are `GiveUp`, the daemon's end is `Lose`. It needs `ChannelOK` and one invariant more, `OwnSender`:
what a client is about to send is its own request.

*`CgicMultipartProofs`.* `StreamSafe` states `StreamInBounds`, the conjunction of `OffsetIsPlace`
and `PutBackFits`. The first is inductive with the types (`StreamOK`, by `Takes`). The second is not: a false match puts
back up to a whole boundary while older bytes are still unread. `BufferOK` adds that during a scan
the bytes put back and the bytes matched are together fewer than the boundary has, that nothing
is put back when a boundary is complete, and that between boundaries two bytes at most are.
Hence a buffer of the boundary's length and four is enough, for every body and every boundary.
`ParserTypes` needs `PlaceOK`: where the parser is, in the input, in the boundary and in the
header line. `BytesStayInOrder` needs `OrderOK`. Bytes are put back *behind* those that are
still in the buffer, which is right only if these are not yet overtaken: `Tame` says that what was
put back, but for its last byte, holds no CR (or is dashes, for the first boundary), so that no
second match begins in it. The proof failed for the first form of the property, which
took any boundary that begins with dashes: its scan can also match beyond the dashes and put back out
of order; TLC found the body once the instance had a boundary of two letters, and the hypothesis is
now `FirstIsPlain` (section 2). `BoundariesFound` needs `SearchOK`: the scan has looked at every place
before the one where its match begins (`Searched`), and what it read up to there is the body
(`Collected`). That the places inside a false match are skipped only if no boundary is there
follows from `BoundaryPlain`: a boundary has no CR of its own, as `main` cuts it off at a blank.

*`CgicRequestProofs`*, with its definitions in `CgicRequestInvariants`. One inductive invariant, `RequestOK`, for five properties of a process in
which everything can fail. `Numbered` and `Owned` say which temporary files there are at each
step: those of the entries, and that of the part being stored. `InTurn`, `Stored`, `Listing` and
`FilesKept` tie entries and files to the parts that were sent; from them follows `UpdateIsWhole`, as the
first entry of a name was the first part of that name (`FirstWasSent`). `SavedRight` and
`ShotSaved` say the same of a saved environment, which is looked up by name: `Recorded` shows that this finds an
entry's own file if no two files share a name. `RestoredRight` compares what was restored with
the saved file, and with `ShotSaved` gives `RestoredIsSaved`. `FreedOnce`: an entry is freed while listed only after a
failed allocation in a multipart form.

The second half of the module is about the texts that `cgiMain` hands over. `TextsRight` ties each answer
to the function that gave it, for one of the calls there may be; what is left is that function, for *every* text.
Its definitions are recursive functions and folds over sequences, and the prover has no induction over these. It
has the library's theorem that a set of numbers has a least member: `AllNumbers` and `AllSequences` say from it that
a set with zero, or the empty sequence, and with the successors of its members has everything, and each
induction is one of these two, cited for a set. Everything rests on three pairs of lemmas:

* `FlattenIs` and `Placed` compute texts put behind one another and say where each of them stands in the whole;
  `StandsAt` is the same notion for one piece of a text.
* `WalkStep` and `WalkAlong` compute a walk: a loop that only goes forward is what it puts out
  here and the walk from the next place.
* `FindIs` and `SkipIs` say which place a search comes to, and `LeastOf` that there is one.

With these `FormIsAlwaysRead` shows that unescaping inverts encoding byte by byte (`UnescapeChar` over the three
bytes of an escape), that no encoded text holds an `&` or `=`, and so that the walk of `cgiParseFormInput` comes to the
beginning of each pair; for other texts that its places are those of `Pieces`. `HeadersAreAlwaysRead`
follows the parameters of a header: name, sign and value of each stand where the walk looks for them, with blanks and
quotes or without; of several of one name the last is in `LastNamed`. `CookiesAreAlwaysRead` shows that
the pieces between semicolons are the places that `cgiCookieString` comes to, and that one `=` per piece is
room enough for the names. `FieldsAreAlwaysRead` relates the counters of `cgiFormEntryString` to the burst that
the browser's text has at that place (`Normal`), until the room is used up; bounded numbers are arithmetic;
and the entries of a name are those that `FindNext` visits. `PageAlwaysShowsText` shows that what is
put out for each byte is shown as this byte, since no entity begins inside another; `MacStaysKept` that
each pair of digits is read alone, whatever `temp` holds before it.

The attempt changed the model and the properties in three places. Two branches of a `CASE` could apply at once in
`UnescapeChar` and in `sscanf02x`, where the code has one after the other: TLC takes the first, the
logic leaves it open; the branches now exclude one another. `BoundaryIsRead` was false for boundaries with blanks and for
parameters that are a boundary themselves, which the instance did not have; it now says so, and the
instance has such parameters. `DispositionIsRead` was about two parameters; it is now about any list of them, says
which of several is kept, and exactly when the null pointer is followed.

*`ConfigStoreProofs`.* `SavedIsOnDisk` speaks of the daemon between requests and is not
inductive: handlers change memory first. `DiskOK` adds that a LAN test, which changes
neither memory nor file, begins and ends with the two equal, that nothing counts as saved
before the first save after a start, and that only handlers that save reach `paramSave`.

`TornOnlyByCrash` is inductive as it stands. `SavedCanBeLoaded` needs `LoadableOK`: as long as no
password with a blank at its end was loaded, no password in memory is empty either, since the forms
bring none, what is loaded is the last word of a text that ends in one, and only memory is written. `StoreTypes` ties the types to the place the daemon is
at: a handler that sets interfaces has parameters for them, one that saves has what it is to save.
`DriftByFailureAlone` needs `AppliedOK`: while an interface is being set, what was set so far is
what the job asks for, and the interface counts as drifted until all is set; a start, and a LAN test
that puts the parameters back, ask for what is configured. `NetConfigApplied` needs `ConfirmedOK` on
top: a save gets to the second interface with the first one set and to `paramSave` with both, and
a restart in between applies the same file.

*`ConfigManagerProofs`.* `ManagerIsChannel` and `ManagerIsStore` are refinements: each step of the
composed system is a step of `CgiChannel`, or of `ConfigStore`, or leaves it alone. So the theorems about
the channel hold although the daemon now takes many steps with a message in hand, and ends
in the middle of them (`ManagerConserves`; the proofs about the channel are cited through the
instance `Chan`). `ConfirmedStays` needs `ManagerOK`: the daemon is at its
start, idle, or carrying out the very request it holds, as far as `Progress` says; and nothing is
promised meanwhile. That the answer which a client reads is that of its own request is `AloneOK` of the
channel, carried over by the refinement.

*`CgiFormsProofs`.* `FormOK` serves all four properties: what was sent is what the form's method made of the form (`SentOK`), what was answered is what the
handler of that type answers (`AnswerOK`), and a password that a user was told of is the one
that is set (`KnownOK`).

*`LogStoreProofs`.* `PagesFit` needs `ReaderOK`: what a reader has been shown are the first of the rows
that are selected *now*, as many as it asked for or as there were when it last asked. Requests keep it because the
log only grows behind (`Grown`): a row that is added, or lost, leaves the rows that were
selected before in front (`SelectsNewRow`, `GrownByRow`), for any filter and any clock. A log that was cleared ends the
hypothesis `whole` of the property. `WindowIsTime` is `TextIsOrder`: texts of as many
digits are in the order of their numbers (`DigitsInOrder`, from the last digit to the first). Both
speak of recursive functions. The prover has no induction for them, but it has the library's theorem
that a set of numbers has a least member: `AllNumbers` says from it that a set with zero and the
successor of each member has all numbers, and every induction of the module is that lemma, cited for a set.
`PicksExist` and `WritesExist` show first that the recursive functions exist, `DigitsOf`
and `Selects` that they are what their definitions say.

*`PingProofs`.* `SocketsCounted` counts open sockets as failed tests plus the test under
way. `TableOK` says that during a test the table holds only this test's number and zeros;
`ShortInverse` is the arithmetic of the wrapping counter. `AnswersOK` adds, for `OwnAnswerDecides`, that the request under way
is in the table under its number and that only answers to this test bear this test's mark.

Only model-checked: the liveness properties (`EveryRequestReturns`, `RequestEnds`, `ParserEnds`), which are
out of this prover's reach, and the two runs that end in a violation, which are counterexamples.

## 5. What is not modelled

SQLite and Mini-XML are third-party and not in the repository but for their headers; what the
code relies on is stated where it is used. Of `cgic.c` the fixed texts of the header output, the
size and the content type of an upload, the debug code and the branches for Windows are left
out. `test/` holds stand-alone experiments. `dumpapMonitor.c` and `capture.c` are stubs. The
capture process behind `doFileLookUp` is not in the repository. The time formats of `share.c`
are calls of `mktime` and `localtime_r`. The wording of messages, the text of JSON answers and of
the log's export (which reports one record fewer than it writes, `trace.c:231`), the default
route that is never deleted (`web.c:607`), and the checksum of `icmp_pack` are left out.

## 6. Plan

Done: the channel, the mailbox it implements, and their proofs; the configuration store, ping,
the forms and the log, with the proofs of all their safety properties; the composition of channel and store, and that
it implements both; cgic's multipart parser and its process with the proofs of their safety
properties; its texts and the MAC conversions, with the proofs that they are read as they were meant.

Next, in this order:

1. The dumpcap queues of `doFileLookUp` as a second instance of the queue, composed with the first.
2. The size and the content type of an upload, which `CgicRequest` leaves out.
