---------------------------- MODULE WebSocketDemo ----------------------------
(***************************************************************************)
(* The WebSocket file sender                                               *)
(* (network/network_protocol/websocket/websocket_demo.c).                  *)
(*                                                                         *)
(* The library thread runs quec_web_demo_service_cb, which sets the        *)
(* connection status and posts on a bounded queue without waiting; the     *)
(* task takes the messages.  The status is written by the callback and     *)
(* read by the task without a lock.                                        *)
(*                                                                         *)
(* The callback answers a WRITE event with a CLOSEING message, so that     *)
(* nothing ever posts WEB_DEMO_EVENT_WRITE: the task's case for it, and    *)
(* the resending of a block that it would lead to, are unreachable and     *)
(* have no action.  The greeting text and the data received are left out;  *)
(* the bytes of the file are their positions.  The library (qcm_ws), the   *)
(* file system and the heap are external.                                  *)
(***************************************************************************)
EXTENDS Integers, Sequences

CONSTANTS
    MsgMaxCnt,      \* WEBSOCKET_DEMO_MSG_MAX_CNT: capacity of the queue
    SendBuf,        \* WEBSOCKET_DEMO_SEND_BUF: longest block
    FileLen,        \* size of the file
    MaxRecv,        \* bound: how many RECV events the peer causes
    PeerCloses,     \* whether the peer or the network may end the connection
    CallsFail       \* whether opening, memory, file and sending may fail

ASSUME WebAssumption ==
    /\ MsgMaxCnt \in Nat \ {0} /\ SendBuf \in Nat \ {0} /\ FileLen \in Nat /\ MaxRecv \in Nat
    /\ PeerCloses \in BOOLEAN /\ CallsFail \in BOOLEAN

VARIABLES
    ws_pc,          \* the task
    ws_msgq, states,    \* of g_web_ctx, as the fields of data
    is_file, used_len, buf_len, complete,
    fd,             \* whether data->fd is an open file
    buf,            \* whether data->buf is allocated
    conn,           \* library: "none", "opening", "up", "closing", "down"
    owed,           \* library: a write was refused and a WRITE event is due
    recvs,          \* number of RECV events so far
    wire,           \* history: file positions the library accepted
    lost            \* history: the CLOSED message found the queue full

data    == <<is_file, used_len, buf_len, complete, fd, buf>>
lib     == <<conn, owed, recvs>>
webVars == <<ws_pc, ws_msgq, states, data, lib, wire, lost>>

Events == {"OPEN", "RECV", "CLOSEING", "CLOSED"}
Status == {"INIT", "CONNECTED"}

WebInit ==
    /\ ws_pc = "start"
    /\ ws_msgq = <<>> /\ states = "INIT"
    /\ is_file = FALSE /\ used_len = 0 /\ buf_len = 0 /\ complete = FALSE
    /\ fd = FALSE /\ buf = FALSE
    /\ conn = "none" /\ owed = FALSE /\ recvs = 0
    /\ wire = <<>> /\ lost = FALSE

\* qosa_msgq_release without waiting: lost when the queue is full, or when the
\* task is gone and the queue with it.
Full == Len(ws_msgq) = MsgMaxCnt

Post(e) ==
    IF ws_pc # "exited" /\ ~Full
    THEN ws_msgq' = Append(ws_msgq, e) ELSE UNCHANGED ws_msgq

-----------------------------------------------------------------------------
(* quec_web_demo_service_cb, one action per event type.                    *)

CbOpen ==
    /\ conn = "opening"
    /\ \E ok \in BOOLEAN :
          /\ conn' = IF ok THEN "up" ELSE "down"
          /\ states' = IF ok THEN "CONNECTED" ELSE "INIT"
    /\ Post("OPEN")
    /\ UNCHANGED <<ws_pc, data, owed, recvs, wire, lost>>

\* The peer or qcm_ws_close_proc ended the connection.
CbClose ==
    /\ conn = "closing" \/ (PeerCloses /\ conn = "up")
    /\ conn' = "down"
    /\ states' = "INIT"
    /\ Post("CLOSED")
    /\ lost' = Full
    /\ UNCHANGED <<ws_pc, data, owed, recvs, wire>>

CbRecv ==
    /\ conn = "up" /\ recvs < MaxRecv
    /\ recvs' = recvs + 1
    /\ Post("RECV")
    /\ UNCHANGED <<ws_pc, states, data, conn, owed, wire, lost>>

\* "Continue write event": what is posted is CLOSEING.
CbWrite ==
    /\ conn = "up" /\ owed
    /\ owed' = FALSE
    /\ Post("CLOSEING")
    /\ UNCHANGED <<ws_pc, states, data, conn, recvs, wire, lost>>

-----------------------------------------------------------------------------
(* The task: start.                                                        *)

\* Task and queue are created, the client configured, and qcm_ws_open_proc
\* called; a failure of it is only logged and the task waits for events.
quec_web_demo_open ==
    /\ ws_pc = "start"
    /\ ws_pc' = "wait"
    /\ \/ conn' = "opening"
       \/ CallsFail /\ UNCHANGED conn
    /\ UNCHANGED <<ws_msgq, states, data, owed, recvs, wire, lost>>

-----------------------------------------------------------------------------
(* The task: quec_web_demo_write_test.                                     *)

\* Its exit label.  The counters of the transfer keep their values.
WriteExit ==
    /\ fd' = FALSE /\ buf' = FALSE
    /\ complete' = TRUE
    /\ ws_pc' = "check"

\* Up to the loop: the greeting is sent and its result ignored, the buffer is
\* allocated, and the file opened at its beginning.
WriteStart ==
    /\ ws_pc = "write"
    /\ is_file' = TRUE
    /\ \/ /\ buf' = TRUE /\ fd' = TRUE
          /\ ws_pc' = "loop"
          /\ UNCHANGED complete
       \/ /\ CallsFail
          /\ WriteExit
       \/ /\ CallsFail
          /\ ws_pc' = "check"
          /\ UNCHANGED <<buf, fd, complete>>
    /\ UNCHANGED <<ws_msgq, states, used_len, buf_len, lib, wire, lost>>

\* Mutant: the block is a full buffer also at the end of the file.
BlockLen_not_cut == SendBuf

\* The length of the next block.
BlockLen == IF FileLen - used_len < SendBuf THEN FileLen - used_len ELSE SendBuf

\* Mutant: a block the library had no room for is taken for sent.
BufLenAfter_forgotten(r) == 0

\* buf_len after a send that returned r: what is still to be sent.
BufLenAfter(r) == IF r = "OK" THEN 0 ELSE BlockLen

\* What qcm_ws_write_proc may return.
WriteResults ==
    (IF conn = "up" THEN {"OK", "NOMEM"} ELSE {"ERROR"})
    \cup (IF CallsFail THEN {"ERROR"} ELSE {})

\* The next block is read and handed to the library.  quec_web_file_read repeats
\* short reads; when it fails, used_len is not advanced.
SendBlock ==
    /\ ws_pc = "loop" /\ used_len < FileLen
    /\ \/ \E r \in WriteResults :
             /\ used_len' = used_len + BlockLen
             /\ buf_len' = BufLenAfter(r)
             /\ wire' = IF r = "OK"
                        THEN wire \o [n \in 1 .. BlockLen |-> used_len + n]
                        ELSE wire
             /\ owed' = (owed \/ r = "NOMEM")
             /\ \/ r = "ERROR" /\ WriteExit
                \/ r = "NOMEM" /\ ws_pc' = "check" /\ UNCHANGED <<complete, fd, buf>>
                \/ r = "OK" /\ UNCHANGED <<ws_pc, complete, fd, buf>>
       \/ /\ CallsFail
          /\ buf_len' = BlockLen
          /\ WriteExit
          /\ UNCHANGED <<used_len, owed, wire>>
    /\ UNCHANGED <<ws_msgq, states, is_file, conn, recvs, lost>>

SendComplete ==
    /\ ws_pc = "loop" /\ used_len >= FileLen
    /\ WriteExit
    /\ UNCHANGED <<ws_msgq, states, is_file, used_len, buf_len, lib, wire, lost>>

quec_web_demo_write_test == WriteStart \/ SendBlock \/ SendComplete

-----------------------------------------------------------------------------
(* The task: the loop of quec_web_demo_app_init.                           *)

Take(e) == ws_pc = "wait" /\ ws_msgq # <<>> /\ Head(ws_msgq) = e /\ ws_msgq' = Tail(ws_msgq)

OnOpen ==
    /\ Take("OPEN")
    /\ ws_pc' = IF states = "CONNECTED" THEN "write" ELSE "check"
    /\ UNCHANGED <<states, data, lib, wire, lost>>

\* quec_web_demo_read_test reads and throws away.
OnRecv ==
    /\ Take("RECV")
    /\ ws_pc' = "check"
    /\ UNCHANGED <<states, data, lib, wire, lost>>

\* quec_web_demo_close: the library will report the end of an open connection.
OnClosing ==
    /\ Take("CLOSEING")
    /\ conn' = IF conn = "up" THEN "closing" ELSE conn
    /\ ws_pc' = "check"
    /\ UNCHANGED <<states, data, owed, recvs, wire, lost>>

\* Mutant: the open file is not closed at the end of the task.
OnClosed_keeps_file ==
    /\ Take("CLOSED")
    /\ buf' = FALSE
    /\ ws_pc' = "exited"
    /\ UNCHANGED <<states, is_file, used_len, buf_len, complete, fd, lib, wire, lost>>

\* The exit label: the queue is deleted, the file closed, the buffer freed.
OnClosed ==
    /\ Take("CLOSED")
    /\ fd' = FALSE /\ buf' = FALSE
    /\ ws_pc' = "exited"
    /\ UNCHANGED <<states, is_file, used_len, buf_len, complete, lib, wire, lost>>

\* Mutant: the task does not ask itself to close.
CheckComplete_silent ==
    /\ ws_pc = "check"
    /\ ws_pc' = "wait"
    /\ UNCHANGED <<ws_msgq, states, data, lib, wire, lost>>

\* The end of the loop's body: once the test is complete the task asks itself,
\* after every message, to close the connection.
CheckComplete ==
    /\ ws_pc = "check"
    /\ IF complete THEN Post("CLOSEING") ELSE UNCHANGED ws_msgq
    /\ ws_pc' = "wait"
    /\ UNCHANGED <<states, data, lib, wire, lost>>

-----------------------------------------------------------------------------
Task ==
    \/ quec_web_demo_open \/ quec_web_demo_write_test
    \/ OnOpen \/ OnRecv \/ OnClosing \/ OnClosed \/ CheckComplete

quec_web_demo_service_cb == CbOpen \/ CbClose \/ CbRecv \/ CbWrite

WebNext == Task \/ quec_web_demo_service_cb

WebSpec == WebInit /\ [][WebNext]_webVars

\* The task is scheduled, and the library reports what became of an open and
\* of a close request, and the room for a refused write.
WebFairness ==
    /\ WF_webVars(Task)
    /\ WF_webVars(CbOpen)
    /\ WF_webVars(CbClose /\ conn = "closing")
    /\ WF_webVars(CbWrite)

WebFairSpec == WebSpec /\ WebFairness

-----------------------------------------------------------------------------
(* Properties.                                                             *)

\* Every variable has the type of the C object it stands for, and no block is
\* longer than the buffer.
WebTypeOK ==
    /\ ws_pc \in {"start", "wait", "write", "loop", "check", "exited"}
    /\ ws_msgq \in Seq(Events) /\ Len(ws_msgq) <= MsgMaxCnt
    /\ states \in Status
    /\ is_file \in BOOLEAN /\ complete \in BOOLEAN
    /\ fd \in BOOLEAN /\ buf \in BOOLEAN
    /\ used_len \in 0 .. FileLen /\ buf_len \in 0 .. SendBuf
    /\ conn \in {"none", "opening", "up", "closing", "down"}
    /\ owed \in BOOLEAN /\ recvs \in 0 .. MaxRecv
    /\ wire \in Seq(1 .. FileLen) /\ lost \in BOOLEAN

\* What the library was given is the beginning of the file, in order and without
\* gaps, and all of what was read except for a block that is still held back.
WireIsPrefix ==
    /\ \A n \in 1 .. Len(wire) : wire[n] = n
    /\ Len(wire) = used_len \/ Len(wire) + buf_len = used_len

\* The task holds the file and the buffer only between the start of a transfer
\* and its end, whichever error ends it, and never after its own end.
NothingHeldAtEnd ==
    ws_pc = "exited" \/ complete => ~fd /\ ~buf

\* Once the test is complete the task ends, unless the one CLOSED message that
\* lets it leave its loop found the queue full; and that takes as many received
\* messages as the queue has places but one: the messages the task posts to
\* itself never crowd it out.
CompleteEndsTask ==
    complete ~> ws_pc = "exited" \/ (lost /\ recvs >= MsgMaxCnt - 1)

\* "Until the entire file transfer is complete": a transfer that no error and no
\* peer interrupts sends the whole file, also when the library's send buffer is
\* full for a while.
FileTransferred == ws_pc = "loop" ~> Len(wire) = FileLen

-----------------------------------------------------------------------------
(* What makes WireIsPrefix and NothingHeldAtEnd inductive.                 *)

\* Nothing of a transfer has happened yet.
Fresh == used_len = 0 /\ wire = <<>> /\ ~fd /\ ~buf /\ ~complete

OpenAt(n) == n \in 1 .. Len(ws_msgq) /\ ws_msgq[n] = "OPEN"

\* The connection is opened once and reports it once, so that there is one transfer.
OpenOnce ==
    /\ ws_pc = "start" => conn = "none"
    /\ conn \in {"none", "opening"} => Fresh /\ ws_pc # "loop" /\ ws_pc # "write"
    /\ \A m, n \in 1 .. Len(ws_msgq) :
          OpenAt(m) => /\ conn \notin {"none", "opening"}
                       /\ Fresh /\ ws_pc # "loop" /\ ws_pc # "write"
                       /\ OpenAt(n) => m = n

\* A block is held back only after the loop.
LoopOpen ==
    /\ ws_pc = "write" => Fresh
    /\ ws_pc = "loop" => Len(wire) = used_len /\ ~complete

WebInv == WebTypeOK /\ WireIsPrefix /\ NothingHeldAtEnd /\ OpenOnce /\ LoopOpen
=============================================================================
