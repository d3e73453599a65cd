# UniRTOS demo programs: a TLA+ verification project

The repository is the code that accompanies the UniRTOS documentation: some
eighty C programs for a cellular module, each started by an
`unir_..._demo_init` or `..._init` function, that show how to use the system's
sockets, protocol clients, synchronisation objects, telephony and peripherals.
The programs share no state with one another.  The libraries under them
(`qcm_*` protocol stacks, `qosa_*` operating system) are not part of the
repository and are modelled only through the way the programs use them.

What is hard in this code is the same in most of the larger programs: a library
thread reports events through callbacks, the callback posts a message on a
short queue *without waiting*, and one task takes the messages and acts on
state that may have moved on since.  Events get lost, arrive late, refer to
things that are gone; sends take only a part; set-up fails half way.  The
synchronisation demos have several tasks around shared memory.  This is what
the models are about.

## Inventory

| Part | State | Operations | Hard behaviour | What makes it correct | Module |
|---|---|---|---|---|---|
| TCP echo server (`socket/server`) | client slots (handle, active flag, echo buffer, offset), message queue | library callback; accept, read, write, close handlers | events name a slot by index and may be stale, repeated or lost; partial sends; failing malloc | no buffer freed twice or used after free, a pending echo goes on where its last send stopped, the echo complete and to the one who asked | `TcpServer` |
| Non-blocking TCP client (`socket/noblock_client`) | send and receive watermark, current packet, flags, counters, queue | socket callback, application send and close, message loop | three threads; the task posts to its own full queue; blocked, partial, failed sends; high-water flags | the byte stream intact, every accepted block sent | `TcpClient` |
| Semaphore producer/consumer | ring, two indices, two semaphores | init, producer, consumer | two tasks on one array with semaphores only; init fails after a task started | a first-in first-out channel, nobody starves | `SemRing`, `BoundedChannel` |
| Semaphore connection pool | status array, counting semaphore | acquire, release, tasks | test and set of a status without lock | a granted task finds a connection; the pool is whole at the end; a connection has one user | `ConnPool` |
| WebSocket file sender | status, transfer progress, file, buffer, queue | service callback, write test, message loop | status written by the callback; full send buffer; the only way out of the loop is a message that can be lost | a gapless prefix of the file is sent, resources are given back, the task ends unless its last message was lost | `WebSocketDemo` |
| MQTT client | context, queue, client state | event callback, requests, event handlers, state check | state runs ahead of queued events; context freed while events may come; lost acknowledgements | no report begins on a freed context, the task ends when the connection goes down, the demo runs to its end | `MqttDemo` |
| Mutex demo | counter, two mutexes, tasks | tests of the main program, counting threads | the mutex is deleted while a thread may use it; the counter is read and written back with a sleep in between | no count is lost | `MutexDemo` |
| Semaphore demo | counter, semaphore, task handles | counting threads, clean-up with limited patience | threads are deleted anywhere in a round | no count is lost while there is a semaphore | `SemaphoreDemo` |
| Other synchronisation demos (event flags, mutexes, message queues) | one object and a few tasks each | test functions | - | - | not modelled |
| FTP get and put | session strings (current directory, URL), file, progress | one task that calls one command after the other; header and data callbacks | no result is looked at, so that every failure is followed by the next command on what is left of the session; short writes and reads | a transfer reported as successful is whole and at its place, the file is closed, an undisturbed session leaves nothing behind | `FtpSession`, `FtpGet`, `FtpPut` |
| HTTP(S) download, forms | context of the download, read index of a field | five tests, one or two requests; body, header and field callbacks | short writes, error answers, a request performed again with old state | the file begins with what came of the body, without a gap, and a field goes on where it stopped | `HttpGet`, `HttpForm` |
| SMTP | status, progress of text and attachment | the upload callback and its encoders | a mail spread over calls with buffers of any size; room for an encoding is estimated | no buffer overrun, 0 is returned for a complete mail only | `SmtpUpload` |
| MQTT 5 | as MQTT, and the library's store of messages | as MQTT; check for further messages after each reading | the task posts to its own queue, which may be full; what an event announces may have been read before | as MQTT; no stored message stays unread for ever | `Mqtt5Demo` |
| SMS demo | selected SIM, storages, queue, payloads, contexts of listings | API, task, answers of the modem, status indications | four actors on shared variables; a listing lives from one callback to the next; full queue | a listing's context has one owner and is freed, payloads do not leak | `SmsDemo` |
| Cellular data call | queue of deactivations, retry count | report, first start, restarts | reports are lost, or arrive while the call is started | a call that went down comes up again unless all tries fail | `DataCall` |
| Network demo | loop count, restarts, one semaphore | registration loops, radio off and on | one semaphore serves two requests; a jump into the other loop | confirmations and waits stay in step, the radio is on again | `CellularDemo` |
| Firmware update over HTTP and FTP | download progress, image | requests, body callbacks, resuming, verification | short bodies, replies without range, a file that grows or shrinks between two requests | the image is written in order and only a whole one is verified after an undisturbed run | `HttpFota`, `FtpFota` |
| Virtual SIM, USB network card | events, stored data | straight-line calls and a library's events | - | - | not modelled |
| Crypto, SIM queries, peripherals, system services | none of their own | straight-line calls | - | - | not modelled |

`PROJECT.json` lists every part with the files that belong to it, and every
hazard at its line.

## Plan

1. (done) The event-driven server and client, the two semaphore programs with
   an abstract channel, the WebSocket and the MQTT demo.
2. (done) The transfer programs FTP, HTTP and SMTP, composed in `MCTransfer`.
3. (done) The mutex and the semaphore demo, as further programs of `MCSync`.
4. (done) MQTT 5, as an extension of the MQTT client by the library's store.
5. (done) SMS, data call, network demo, firmware update.
6. (done) Proofs of every safety property and type invariant of every component, and
   that the composed specifications of the runs have them.
7. (done) Safety cores of liveness properties: no lost wake-up in the ring, no loss
   of the data call overlooked, no MQTT task stranded on a connection that is down, the
   reading of MQTT 5.  The liveness properties themselves are
   checked by TLC only.

## Modules

Every module follows the source's names.  Each handler is one action, up to the
points at which another thread can see or change something; those are the
program counters (`pc`).  Data is abstracted to what the properties tell apart:
bytes are their positions, blocks their sequence numbers, texts are left out.
Definitions called `..._<something>` under a comment "Mutant" are deliberately
wrong variants, used to make sure that the properties notice.

**TcpServer** (`network/network_protocol/socket/server/tcp_server.c`).  The
library thread (`PeerConnect`, `SocketReady`, `PeerClose`, external) runs
`socket_app_register_event_cb`; the task runs start-up, `HandleAccept` and
`HandleClient`.  `heap` holds the echo blocks that malloc returned and nobody
freed, so that a double free or a use after free is visible.  `sent`, `asker` and
`sentTo` are history.  `DropClient` stands for five identical places of the
client handler.  The clean-up after the main loop (lines 678-700) is unreachable,
since nothing resets `server_running`, and has no action.  A closed handle may be
given out again while events of its old connection are queued; nothing in the
repository says otherwise.  After a first send of more than half of the echo the count
of line 482 is negative; the library may refuse such a count or read it as a large
one and take bytes up to the end of the block and beyond (`Acceptable`).
`MCTcpServer` adds the symmetry of handles and blocks.

**TcpClient** (`.../noblock_client/tcp_noblock_client.c`).  Socket task, library
callbacks and application are three threads.  Taking a message and handling it
are two steps, since the others can fill the queue in between, and the handlers
post to their own queue.  `qcm_socket_app_soc_write` is five steps (test, length,
take, send, release), so that the application pushes and the library reports at any
point of a send; `send_release_count++` and `--` are a load and a store each.  A send
may block, fail, or take nothing or a part, and the memory for its copy or for an
event may be missing.  The application may push, and ask for the connection to be
closed, at any time: its close message carries no context and crashes the task (line
832).  A push while there is no watermark is refused by the watermark (external).  The
water levels count blocks.  The send watermark's low-water callback only runs where
its flag is already clear, and the receive watermark is never emptied, so that neither
clears anything.  A socket whose connect was refused stays registered (line 874) and may
still report events.

**SemRing**, **BoundedChannel** (`system/sync_comm/semaphore/producer_consumer`).
Waiting, accessing the ring and releasing are separate steps.  `BoundedChannel`
is the abstract first-in first-out channel; `SemRing!Channel` is its instance
over the same histories.  Some comments of the source file are in a broken
encoding that swallows the following line break; the statements on those lines
are taken as intended.  `init` may delete the semaphores under a running
producer (lines 105-118), and the model does.

**ConnPool** (`system/sync_comm/semaphore/task_sync`).  Each look at a status and
each marking is a step of its own.  A marking is a `strcpy` over a five-byte
text; overlapping copies leave a text that is "idle" or is not, and all texts
that are not are treated alike, so that one step stands for the copy.

**WebSocketDemo** (`.../websocket/websocket_demo.c`).  The callback answers the
library's WRITE event with CLOSEING (line 168), so that nothing ever posts
`WEB_DEMO_EVENT_WRITE`; the task's case for it has no action.  `lost` records that the
CLOSED message found the queue full.

**MqttDemo** (`.../mqtt/demo/mqtt_demo.c`).  A request makes responses due, which
the library delivers one by one and in any order that the connection state
allows.  The library changes the connection's state first and runs the callback later
(`report`); in between the task reads the new state without a lock (line 780) and may
free its context.  `late` records that an event was reported on a freed context.  `env` holds what the
program runs in (the capacity of the queue, how many foreign messages come, what may
fail); no step changes it, so that one specification covers all environments in `Envs`.
A task whose
last handler failed leaves an open connection behind (`mqtt_late`), so that
`NoReportAfterFree` is about the others: no report begins once the context is freed, and
none reaches it but one that was already under way.  `FreedIsUnused` is what the comments
say.

**FtpSession**, **FtpGet**, **FtpPut** (`.../ftp/get/ftp_get_demo.c`,
`.../ftp/put/ftp_put_demo.c`).  Most functions of the two programs are copies of
each other and are written once, with their places in the main function as
parameters.  The session strings are NULL or one of the paths that can occur,
with and without the '/' that `qurl_ftp_demo_cwd` appends, so that a wrong
concatenation names another file of the server (`files`).  The library call
succeeds, fails before the server acted, or fails after.  A null pointer that is
used crashes the task (`pc = "crashed"`).  The login directory is the root.
`trouble` is history: some allocation, file or network operation failed.

**HttpGet** (`.../http/get/http_get_demo.c`; `https_get_demo.c` is the same text
but for the last line).  The body callback may write any part of a block before
the file system fails.  The file is opened without TRUNC (lines 404, 721) and is there from
an earlier boot or not: `oldLen` is its length then, and what the download does not
overwrite stays.  Tests 2 to 4 give the body callback no context.

**HttpForm** (`.../http/post/http_post_demo.c`, `.../post_form/...`).  The callback
of the third form field over two requests or one.  A request that fails inside the field
leaves the read index there, and the next one starts from it: `before` is history, the
place where that was.

**SmtpUpload** (`.../smtp/no_tls/smtp_no_tls_demo.c`, and `.../tls/...`, which has
another main function only).  One step per part of the mail; the parts' lengths,
the room the code asks for (`smtp_size` is what the library's buffer holds) and the
arithmetic of the encoders are the source's.
The subject comes from an array without a terminator (line 112), so that whether
its encoding fits is a free choice; when it does not, the first call returns 0
and an empty mail is sent.  After a failed read the attachment is closed twice
(`atta_fd`).

**MutexDemo** (`system/sync_comm/mutex/demo`).  The main program counts once by
itself and then waits for as many counts as there are threads, so that one thread
may be left when it deletes the mutex.  A task that waits on a mutex, or holds it,
while it is deleted may be told anything.  No time is assumed for anything: the
sleep before a deletion may end at once.

**SemaphoreDemo** (`system/sync_comm/semaphore/demo`).  The threads take turns under
one semaphore; the main program gives up after `Patience` looks.  Which threads
`qosa_task_get_status` lets it delete is not assumed.  A thread deleted inside takes the
semaphore with it.

**SmsDemo** (`network/sms/demo/sms_demo.c`).  Applications, the demo's task, the
modem's callbacks and the center task are four actors.  Each function reads
`qosa_sms_simid` again whenever it needs it, and the model does, in the four uses of one
status indication too.  `unfreed` counts the text buffers that failed reads leave behind
(lines 1278-1290).  A listing has no
task of its own: the callback of each read asks for the next record and, with the
last one or a refusal, frees the context.

**DataCall** (`network/nic/cellular/datacall`).  A deactivation is reported through a
queue; the task does not look at which connection the report names, and the network
also ends connections that are not the demo's.  `LossNoticed` says why a call that went
down is started again: as long as no report was missed, there is a reason for the task
to look.  Nobody looks at whether the queue was created (line 87); without one (`msgq_ok`)
every report is lost and the task asks an absent queue for ever.

**CellularDemo** (`network/nic/cellular/demo/cellular_demo.c`).  Two loops, of which the
second jumps into the first behind its counting.  The count of passes is kept
modulo the period, which is all the code looks at.  A semaphore that could not be created
(line 243) is taken to make every wait fail at once, so that requests follow each other
(`cfun_sem`); `CfunPaired` is about the other case.

**Mqtt5Demo** (`.../mqtt/mqtt5/mqtt5_demo.c`).  The program is the MQTT program with
properties added to packets and a store of messages in the library; the module
extends `MqttDemo` and adds the store, the reading and the event that the task posts
to itself.  Which of the stored messages a reading without an announcement returns is
the library's choice.

**HttpFota**, **FtpFota** (`system/fota/http`, `system/fota/ftp`).  `qosa_fota_init` is taken
to start an empty image.  Bytes are positions of the image, those of an error page
are -1.  Several paths reach the verification without a download; `strange`,
`unsure` and `skipped` record them, so that the properties say what holds besides.  The
count of resumptions is incremented in an argument of a log macro (HTTP, line 448): whether
the build evaluates it is a choice (`verbose`), and without it the download is resumed
without end.  Over FTP the server's file may be longer or shorter than announced; what the
library passed on (`upd_came`), what the callback counted and what it wrote are kept
apart.

**MCSync**, **MCMessaging**, **MCTransfer** put programs that share nothing into one model for
TLC: `demo` says which one runs, and the others keep their first state.  Every
behaviour is a behaviour of one program.  As `demo` never changes, fairness of
a disjunction over it is fairness of the running program.  `MCSync` holds the
synchronisation and the cellular programs, `MCMessaging` the WebSocket and both
MQTT programs, `MCTransfer` the file transfers, the mail and the updates.  They extend
the programs' modules, so that the proofs are
about the very definitions that TLC checks.  Variables and bounds whose names several
of the extended modules would share carry a prefix (`sms_pc`, `ws_msgq`,
`smtp_size`); everything else keeps the source's names.

## Runs

| Run | Module, configuration | Result | Shows |
|---|---|---|---|
| `server` | `MCTcpServer`, `MCTcpServer.cfg` | passes, 259,000 states | types, `BuffersOwned`, `SendContinues` |
| `server_alldata` | `MCTcpServer_alldata.cfg` | violated | the end of an echo is lost after a partial first send |
| `server_asker` | `MCTcpServer_asker.cfg` | violated | an old connection's event makes the server send to the slot's next owner |
| `client` | `TcpClient.cfg` | passes, 1,230,000 states | types, `StreamIntact`, `SentUnlessStuck` |
| `client_wedge` | `TcpClient_wedge.cfg` | violated | at the high-water mark nothing is sent any more |
| `sync` | `MCSync`, `MCSync.cfg` | passes, 124,000 states | types; ring: `ImplementsChannel`, `EveryCharRead`; pool: `ScanNeverFails`, `PoolRestored`; mutex and semaphore: `NoLostCount`, `SemCounts`; SMS: `SmsMemoryOwned`, `ListingsEnd`; cellular: `CallRestored`, `CfunPaired` |
| `pool_exclusive` | `ConnPool_exclusive.cfg` | violated | two tasks use one connection |
| `messaging` | `MCMessaging`, `MCMessaging.cfg` | passes, 273,000 states | types, `WireIsPrefix`, `NothingHeldAtEnd`, `CompleteEndsTask`, `NoReportAfterFree`, `DownEndsTask`, `DemoRunsToEnd`, `StoredIsRead` |
| `web_transfer` | `WebSocketDemo_transfer.cfg` | violated | one full send buffer ends a transfer |
| `mqtt_late` | `MqttDemo_late.cfg` | violated | after a refused connect the library reports to a freed context |
| `transfer` | `MCTransfer`, `MCTransfer.cfg` | passes, 28,300 states | types; FTP: `DownloadWhole`, `UploadWhole`, `LocalFileClosed`, `CleanRun`; HTTP: `SavedIsPrefix`, `FieldInOrder`; updates: `ImageSound`, `FtpImageWhole`; SMTP: `WithinBuffer`, `MailInOrder`, `MailComplete` |
| `http_errorbody` | `HttpGet_errorbody.cfg` | violated | the body of an error answer is saved as the file |

Each run that is violated quotes, in `PROJECT.json`, the comment or text of the
source that the code contradicts.

### Bounds

- Server: two slots, so that one can be free while the other is taken; three
  handles, so that a slot gets a second owner while events of the first are
  queued; a queue of two and eight callbacks, so that events are lost and still
  arrive late; an echo of three bytes, of which a first send can take more than half,
  so that the count of the next one is negative.  The violated runs use
  the smallest numbers that show them.
- Client: a queue of two that three threads fill, a send of up to two blocks out of
  two accepted, so that a send takes a part and the application pushes between its
  steps; the high mark is two and can be reached; the socket answers one send with
  nothing, and there are two addresses to try.
- Ring: three places, six characters and an alphabet of five: indices and
  alphabet wrap at different times.  Pool: three tasks on two connections, two
  rounds each, so that a task waits, times out, and comes back.
- Mutex: the source's three threads.  Semaphore: two threads with two rounds and a
  patience of two looks, so that the main program gives up in the middle of a round
  and so that it does not.
- SMS: two SIMs, so that an indication changes the selection under a request; a queue
  of two that three calls overfill; listings of up to two records, so that one goes
  on after its first answer.  Data call: a queue of one, two retries, four
  deactivations.  Network: a period of three, two restarts, four changes of the
  registration, so that the second loop jumps back while restarts are left.
- WebSocket: the source's queue of five; a file of five bytes in blocks of two,
  so that the last one is short; five RECV events, so that RECV and the task's own
  CLOSEING messages push the CLOSED message out of the queue, after which the task
  never leaves.  `CompleteEndsTask` says that this takes at least four received messages.
- MQTT, in three environments, in all of which the broker may close.  `FailEnv`: a queue
  of one and every kind of failure.  `LossEnv`: a queue of one, and connect may be
  refused.  `PlainEnv`: the source's queue of five, no failing request, one foreign
  message; with two foreign messages the UNSUBACK event can be lost and the demo
  stays.
- MQTT 5 (`FiveEnv`): a queue of one, so that the event the task posts itself is refused,
  and one foreign message besides its own, so that the store holds two.
- FTP: a file of three bytes in blocks of up to two, cut at every byte.  HTTP: a
  body of four bytes that fills the file system exactly, over no file and over an older
  one that is shorter or longer.  Form: a field of four
  bytes in pieces of one and two, the source's ten looks at the registration.
  Updates: an image of three bytes in blocks of up to two, a file system with room for
  it or not, the source's four requests; the FTP file is any length up to two
  bytes more than announced.
  SMTP: the source's lengths, with buffers from 512 bytes, the least the
  attachment's header asks for, to the usual 2048, and attachments that are empty,
  end inside a buffer, fill one exactly (600 bytes) or take several.

Deadlock is checked in `transfer`, where every program ends.  In the other runs it
is not: every program ends, or waits for an event that need not come, or stops
at a bound of the model.

### Fairness

Weak fairness of a task: the scheduler runs a task that can go on (all of them
block or sleep in every round).  Weak fairness of a library's reports: an open, a
close and every request is answered in the end.  A change of state that the
MQTT library has made is reported in the end.  For the TCP client: a send that would have
blocked is followed by a WRITE event while the connection lasts (weak fairness while
`armed`; nothing is assumed after a send that took something), the application goes on
inside its push, and a socket that is asked again and again takes something at last
(strong fairness of a send that makes progress).  In `MCSync` the fair tasks are those
of ring, SMS demo and data call, and the modem is fair: it answers every request it has
accepted.  None is assumed of peers, brokers, networks or the application.

## Proofs

Eight modules hold the proofs, one for each group of components.  Each theorem
`Spec => []P` is proved from an inductive invariant that is defined at the end of the
component's module, under "What makes ... inductive" (those of the ring and of
`NeverStranded` are with the proofs), and was checked by TLC on the component's run
before it was proved.  The step lemma has one part per action; facts
about queues, counts and sequences that several actions need are lemmas of their own.
Every invariant and every action property that a run checks is the subject of a theorem.

What is proved of a program carries over to the composed specifications.  In
`SyncRunsEach`, `MsgRunsEach` and `TransferRunsEach` a step of the composition is shown
to be a step of the running program and a stutter of every other one; the initial
states are handled likewise.  Two programs with variables in common (FTP get and put, MQTT
and MQTT 5) are told apart by `demo`, which never changes.  Hence, for all values of the
constants, `SyncTypesCorrect`, `MsgTypesCorrect` and `TransferTypesCorrect`, the type
invariants the runs check, and `SyncSafe`, `MsgSafe` and `TransferSafe`, all of the
other safety properties together.

`TcpServerProofs`, for any number of slots, handles, blocks and messages:

- `TypeCorrect`: `Spec => []TypeOK`.
- `BuffersSafe`, `SendsContinue`: `Spec => []BuffersOwned` and `[]SendContinues`.  The
  two together, with the types, are inductive (`BufferInv`): a handler that frees a
  block clears the pointer in the same step, and a new block is not in the heap, hence
  not in any slot; a send moves the offset by what it took, also when the count it was
  given is negative.

`TcpClientProofs`, for all limits of queue and watermarks:

- `ClientTypeCorrect`, `ClientStreamIntact`.  The stream is the concatenation of wire,
  the copy being sent, current packet and watermark; every step of a send, whole or
  partial, and every push moves a boundary of it (`CatAssociative` and the lemmas after
  it).  `ClientInv` adds `Session`: when the watermarks exist, that nothing is accepted
  or sent before, and that there is no copy outside a send.

`SyncProofs`:

- The ring, for every size and alphabet: `RingTypeCorrect` and
  `RingImplementsChannel`, that is `Spec => ImplementsChannel`, by mapping a write to a
  put, a read to a get, everything else to a stutter.  `RingInv == TypeOK /\ Counting
  /\ Contents`: `Counting` bounds the semaphores, plus what the tasks hold between wait
  and release, by the occupied and the free places; it is an inequality, because
  deleted semaphores are no longer released.  `Contents` says that the producer's index
  is as many places ahead of the consumer's as the ring has characters, and that
  these places hold them in order.
- `RingWakesUp`, the safety core of `EveryCharRead`: while the semaphores exist, a
  consumer that waits although a character is there, or a producer that waits although
  there is room, can go on or is about to be released by the other task.  It needs the
  equality (`CountingExact`), and that no release comes at a semaphore's maximum.
- The pool, for any number of connections, tasks and rounds: `PoolTypeCorrect`,
  `PoolScanNeverFails` and `PoolIsRestored`.  The invariant counts, for each place k of the scan, the tasks
  that hold the semaphore and have come as far as k (`Beyond(k)`): there are at most
  as many as there are places from k on, since a place is passed only if
  somebody uses it (`BusyIsUsed`) and stays behind.  That two tasks can share a
  connection (`pool_exclusive`) does not disturb it.
- The semaphore demo, for any number of threads and rounds and any patience:
  `SemTypeCorrect` and `SemCountsKept`.  `SemInv` adds that until the main program ends at most one thread is
  inside and has read the counter's present value, also when threads are deleted.
- The mutex demo, for every finite set of threads: `MutexTypeCorrect` and
  `MutexNoLostCount`.  `MutexInv`: a
  thread inside holds the mutex as long as there is one and has read the counter's
  present value; and once there is none, at most one thread has not counted
  (`OneLeft`), so that it counts alone.  The main program's loop gives this: the
  counter includes its own count, hence all but one thread have counted
  (`AllButOne`).

`MessagingProofs`:

- The WebSocket sender, for all lengths of file, block and queue: `WebWireIsPrefix`
  and `WebNothingHeld`.  The invariant has to exclude a second transfer, which would
  begin the file again: `OpenOnce` says that at most one OPEN message is ever queued and
  that nothing has been sent while it is.
- The MQTT client, for every capacity of the queue and all choices of what fails:
  `MqttNoReportAfterFree`.  `LeavesClosed`: a task that leaves after no failure
  leaves a connection that is closed or was never opened, and a failure is not
  forgotten.  `OpenAlone`: while the OPEN event is due, the task can only wait, so that
  no closed connection has an event to come.  All of this is `ClientInv`, which speaks of
  the queue through the set of its messages and so serves both MQTT programs.
- The MQTT 5 client: `FiveNoReportAfterFree`, and `FiveTypeOK` as part of `FiveInvariant`.
  That at most one message more is stored than other clients send is not
  inductive: the task could publish twice.  `PublishesOnce` says that the way to the
  publication is taken once, and is at each moment either one queued event, one
  response that is due, or the message itself.
- `MqttNeverStranded` and `FiveNeverStranded`, the safety core of `DownEndsTask`: when the
  task waits and the connection is down, an event is in its queue or the end of the
  closing is still to be reported, unless a request to close was refused.  The two
  programs share the lemmas: every report leaves an event in the queue, be it an older
  one that kept it out (`PostedEvent`), and the task waits again only after it has looked
  at the connection (`LoopAwake`).
- `FiveGoesOnReading`: `FiveSpec => GoesOnReading`, the action property behind `StoredIsRead`:
  no step takes the last event that leads to a reading away while messages are left,
  unless the task ends or its own event is lost.

`CellularProofs`:

- The network demo, for every period and all limits: `CellTypeCorrect` and
  `CellularPaired`.  `CfunInv` adds
  that in the second wait the request under way is for the radio to be on, and that a
  confirmed one has switched it on or failed; all of it only if there is a semaphore.
- The data call, for every capacity of the queue and every limit: `CallTypeCorrect`, and
  `CallLossNoticed`, the safety core of `CallRestored`: the task never waits with the call
  down and nothing in its queue, unless a report found no memory, the retries are
  used up or there is no queue.
- The SMS demo, for any number of SIMs, calls, records and indications and any
  capacity of the queue: `SmsTypeCorrect` and `SmsMemory`, that is
  `SmsSpec => []SmsMemoryOwned`.  `SmsInv` adds
  `RequestsOnce` (a request has a number of its own and is in one place: in the queue or
  with the task; its listing has no context before the task makes one) and
  `ContextsPlaced` (the place of the task says whether its request has a context).
  `GoesOn` is the step that the task and the modem's callback share: the context
  passes to one new answer, or is freed and owed none.

`TransferProofs`:

- `HttpSavedIsPrefix`, for all lengths of body, header and blocks: `AllSaved` says
  that until the request fails, all that came is in the file, which is open, and that an
  older file shows behind it where it was longer (`WriteContinues`).
- `FormFieldInOrder`, for all lengths of field and pieces: a request goes round the field
  from where the one before stopped, which for the first is its beginning; the read index
  is where the field goes on, and at its beginning again once all of it is passed
  (`IndexFollows`).
- `HttpImageSound`, for all lengths of image and blocks and any number of resumptions:
  a reply that is what was asked for goes on where the image ends (`Continues`), and
  the length learnt from the first reply is that of the image (`FirstReply`).
- `FtpImageIsWhole`, for every length announced and every length sent: while the download
  goes on, what the library passed on, what the callback counted and what it wrote agree
  (`UpdInOrder`), so that a block that reaches beyond the announced length is not cut.

`FtpProofs`, for every length of file and blocks: `GetDownloadWhole`, `GetFileClosed`,
`GetCleanRun` from `GetInv`, and `PutUploadWhole`, `PutFileClosed`, `PutCleanRun` from
`PutInv`.  `CleanSession`, shared by both, says in which directory a session without
trouble is at each place of the main function, and what the server then holds.
`GetTypeCorrect` and `PutTypeCorrect` are the types of the whole session.

`SmtpProofs`, for all buffer sizes and all lengths of text, attachment and fixed
parts that satisfy `SmtpAssumption`:

- `EncodingFits`: what the encoder makes of `CanRead(room)` bytes or fewer fits
  `room`.  The line breaks taken off beforehand are at least those the encoder
  adds, since it writes fewer characters than there is room, and a multiple of
  three bytes has no padding.
- `StaysWithinBuffer`, `MailIsComplete`: `SmtpInv` has, besides the types, `NothingYet` (a
  call that has written nothing has not passed its status, as every part fits an
  empty buffer), `Behind` (what the status has passed is complete) and `Ended`.
- `MailIsInOrder`: a step writes no part or the one whose turn it is (`PartsInTurn`), so
  that the last part written is never behind the status.

The assumptions are those named `...Assumption` in the components' modules: bounds are
natural numbers, positive where a program with none would do nothing;
`ThreadsAssumption` (finitely many threads, none named like a mark of a mutex) and
finitely many tasks of the pool; `SmtpAssumption` (every buffer holds each of the fixed
parts); `SmsAssumption` (there is a SIM 0).  The bounds on what the environment does,
such as `MaxEvents`, `MaxCalls` or `MaxForeign`, are arbitrary numbers, so that they
restrict nothing.

Only model-checked: the liveness properties (`SentUnlessStuck`, `EveryCharRead`,
`ListingsEnd`, `CallRestored`, `CompleteEndsTask`, `DownEndsTask`, `DemoRunsToEnd`,
`StoredIsRead`).  Liveness under fairness and ENABLED are out of reach of the prover; of
`EveryCharRead`, `CallRestored`, `DownEndsTask` and `StoredIsRead` the part that is a
safety property is proved, as said above.  The prover cannot do induction over data either, which what a
recursive definition computes would need; the modules therefore contain no recursive
operator.  The properties of the runs that are violated are disagreements with the
source and have no theorem.

## Other deviations seen

These came up while modelling.  Where the state concerned is modelled the model
behaves as the code does; no run is about them.

- Server: `client_count` is not decremented when malloc fails (line 402), and twice
  when a READ on a broken connection is followed by its CLOSE event (line 530).  A first
  send of more than half of the echo makes the next count negative (lines 427, 482).  An
  event of a closed connection whose handle was given out again is taken for the new one's.
- Client: `soc_write` posts release messages it does not count (line 609), so that
  `send_release_count` becomes negative; the receive watermark sets the send
  watermark's flag (line 382); the user's close carries no context and is
  dereferenced (lines 832, 935); a lost CLOSE message leaves the client in CLOSING
  (line 629); `++` and `--` of the count are not locked, and one that stays at three or
  more stops the sender; a send tried while the connection is being made relies on the
  WRITE event after it.
- Ring and pool: `item_count` and `active_connections` lose updates; they are only
  logged and are not in the models.  The pool's tasks get pointers into an array on
  the stack of `connection_pool_init`, which returns before they read it (line 116).
- Mutex: "Wait for all threads to complete" waits for one count too few, as the
  main program's own count is in the counter.  Event flags: the test for all flags
  waits for a flag that was consumed before and is not set again.
- WebSocket: a failed open is only logged and the task then waits for an event that
  does not come (line 271); reading the file does not end when a read returns 0
  (line 339); once four messages were received the CLOSED message can be refused by the
  full queue (line 157), and the task never leaves its loop.
- FTP: a failed read answers 0, which the library takes for the end of the file: the
  upload is reported as successful with the beginning of the file only (put, lines
  238-241; `cut`).  A current directory without '/' puts the file beside the directory
  instead of into it, which `UploadWhole` says.  Command buffers and lists leak on the
  paths counted in `leaked`; a file that a failed write or read has closed is closed again; the '/' appended to the
  current directory is written past the string's block (get, line 958).
- HTTP: `qurl_http_app_r_raw_head_cb` copies from the beginning whatever its index
  is, and a failed URL leads to closing descriptor 0 (line 421).  The download does not
  truncate its file, so that an older, longer one shows behind a shorter body (lines 404, 721).  A
  form request after one that failed inside the third field sends that field rotated,
  from where the failed one stopped.
- SMTP: the attachment is not closed after success, although line 264 says "on
  error or completion", and its buffer is never freed; after a failed read it is closed
  twice (lines 149 and 268).
- MQTT: a report that is under way when the task sees the new state and frees its
  context reaches the freed context (lines 207, 780, 97); `topic_cnt` is the index of
  the last topic and is passed as their number (line 416), so that only one of two topics is unsubscribed from; a context that
  could not be allocated is dereferenced by the clean-up (lines 83, 230); parameters
  of events that are still queued at the end, or refused by a full queue, are not
  freed (line 803); after a refused subscription the task waits until the broker
  closes (line 560).  MQTT 5: a data pointer that a failed read leaves unset is freed;
  the model allows the crash.
- Update: the verification is also reached without a handle, with too little room,
  after a failed question for the size, after the last request and after an empty
  body; replies to the later HTTP requests are written unchecked.  The resumptions are
  counted in an argument of a log macro (HTTP, line 448).  Over FTP no length is compared
  after the download: a file that became shorter is verified as it is, and one that
  became longer is taken whole, or refused if a block ends where the old length did.
- Data call: the retry count is reset by a success only, so that the report after
  ten failures gets a single try; a report's payload leaks when the queue is full.
  Network: the jump to `wait_attach` does not count, so that restarts can follow each
  other at once; after a refused request the task waits for ever.  Neither looks at
  whether its queue or semaphore was created.
- SMS: the request to stop is lost in a full queue; payloads that are queued when the
  task stops leak; the selected SIM can change between two uses in one function; the text buffer of a
  failed read leaks.
- USB network card: the callback frees the configuration that the task reads and
  frees again.

## Not modelled

The remaining parts have no behaviour of their own for a model to say something
about: the cryptography, SIM query, positioning, peripheral, thread and
system-service programs call one function after the other and log the results, and
the one-touch programs wrap built-in services.  The virtual SIM demo passes the
events of a library on, whose requirements are not in the repository.  The HTTP put
program refers to names it does not declare.  In four of the
synchronisation programs (`mutex_basic.c`, `mutex_recursive.c`,
`queue_dispatching_system.c`, `queue_processing.c`) lost line breaks have put statements
into comments, and what is left is not a program one could hold to anything;
the event flag and message queue demos are straight-line calls.  Of the modelled
programs, log texts, payloads, certificates, sleeping times, packet properties
and the data-call set-up, beyond whether it succeeds, are left out.
