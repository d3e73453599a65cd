--------------------------- MODULE MessagingProofs ---------------------------
(***************************************************************************)
(* The WebSocket file sender: for all lengths of file and block and all    *)
(* capacities of the queue, what the library was given is the beginning of *)
(* the file, and file and buffer are released whichever way a transfer     *)
(* ends.                                                                   *)
(*                                                                         *)
(* The MQTT client: for all capacities of the queue and any number of      *)
(* messages of other clients, on a context freed by a task that ends       *)
(* without a failed handler no report begins any more, and a task that     *)
(* waits on a lost connection is told.  The MQTT 5 client, which           *)
(* shares its steps: the same, its types, for which it must publish only   *)
(* once, and that it goes on reading while messages are left.              *)
(*                                                                         *)
(* The composed specification runs one of the three, so that it has all of *)
(* this.                                                                   *)
(***************************************************************************)
EXTENDS MCMessaging, SequenceTheorems, TLAPS

-----------------------------------------------------------------------------
(* The queue.                                                              *)

\* The OPEN messages of a queue to which e may have been added.
LEMMA PostKeepsQueue ==
    ASSUME WebTypeOK, NEW e \in Events, Post(e)
    PROVE  /\ ws_msgq' \in Seq(Events) /\ Len(ws_msgq') <= MsgMaxCnt
           /\ \A n : OpenAt(n)' => OpenAt(n) \/ (e = "OPEN" /\ n = Len(ws_msgq) + 1)
<1>1. /\ ws_msgq \in Seq(Events) /\ Len(ws_msgq) \in Nat /\ Len(ws_msgq) <= MsgMaxCnt
      /\ MsgMaxCnt \in Nat
  BY WebAssumption DEF WebTypeOK
<1>2. CASE ws_msgq' = ws_msgq
  BY <1>1, <1>2 DEF OpenAt
<1>3. CASE ws_msgq' = Append(ws_msgq, e) /\ Len(ws_msgq) < MsgMaxCnt
  <2>1. /\ ws_msgq' \in Seq(Events) /\ Len(ws_msgq') = Len(ws_msgq) + 1
        /\ ws_msgq'[Len(ws_msgq) + 1] = e
        /\ \A n \in 1 .. Len(ws_msgq) : ws_msgq'[n] = ws_msgq[n]
    BY <1>1, <1>3, AppendProperties
  <2> QED
    BY <1>1, <1>3, <2>1 DEF OpenAt
<1>4. ws_pc # "exited" /\ ~Full => Len(ws_msgq) < MsgMaxCnt
  BY <1>1 DEF Full
<1> QED
  BY <1>2, <1>3, <1>4 DEF Post

\* The messages that are left when one is taken.
LEMMA TakeKeepsQueue ==
    ASSUME WebTypeOK, NEW e, Take(e)
    PROVE  /\ ws_msgq' \in Seq(Events) /\ Len(ws_msgq') <= MsgMaxCnt
           /\ \A n \in Nat : OpenAt(n)' => OpenAt(n + 1)
           /\ e = "OPEN" => OpenAt(1)
<1>1. /\ ws_msgq \in Seq(Events) /\ ws_msgq # <<>> /\ Head(ws_msgq) = e
      /\ ws_msgq' = Tail(ws_msgq) /\ Len(ws_msgq) <= MsgMaxCnt /\ MsgMaxCnt \in Nat
  BY WebAssumption DEF WebTypeOK, Take
<1>2. /\ Len(ws_msgq) \in Nat \ {0} /\ ws_msgq[1] = e
      /\ ws_msgq' \in Seq(Events) /\ Len(ws_msgq') = Len(ws_msgq) - 1
      /\ \A n \in 1 .. Len(ws_msgq) - 1 : ws_msgq'[n] = ws_msgq[n + 1]
  BY <1>1, HeadTailProperties
<1> QED
  BY <1>1, <1>2 DEF OpenAt

-----------------------------------------------------------------------------
(* The inductive invariant, one lemma per kind of step.                    *)

\* The file sender starts within its invariant.
LEMMA WebStart == WebInit => WebInv
<1> SUFFICES ASSUME WebInit PROVE WebInv
  OBVIOUS
<1>1. /\ <<>> \in Seq(Events) /\ Len(<<>>) = 0 /\ <<>> \in Seq(1 .. FileLen)
      /\ 0 <= MsgMaxCnt /\ 0 \in 0 .. FileLen /\ 0 \in 0 .. SendBuf /\ 0 \in 0 .. MaxRecv
  BY WebAssumption, EmptySeq
<1>2. WebTypeOK
  BY <1>1 DEF WebInit, WebTypeOK, Status
<1>3. WireIsPrefix /\ NothingHeldAtEnd
  BY <1>1 DEF WebInit, WireIsPrefix, NothingHeldAtEnd
<1>4. OpenOnce /\ LoopOpen
  BY <1>1 DEF WebInit, OpenOnce, LoopOpen, Fresh, OpenAt
<1> QED
  BY <1>2, <1>3, <1>4 DEF WebInv

\* The callbacks leave the transfer alone; only the end of the opening reports OPEN.
LEMMA CallbackKeepsInv ==
    ASSUME WebInv, quec_web_demo_service_cb
    PROVE  WebInv'
<1>1. PICK e \in Events : /\ Post(e)
                          /\ e = "OPEN" => conn = "opening" /\ conn' \in {"up", "down"}
                          /\ conn' = conn \/ conn' \in {"up", "down"}
                          /\ ws_pc = "start" => conn' # "down"
  BY DEF quec_web_demo_service_cb, CbOpen, CbClose, CbRecv, CbWrite, Events, WebInv, OpenOnce
<1>2. /\ UNCHANGED <<ws_pc, data, wire>> /\ states' \in Status
      /\ recvs' \in 0 .. MaxRecv /\ owed' \in BOOLEAN /\ lost' \in BOOLEAN
  <2>1. UNCHANGED <<ws_pc, data, wire>> /\ states' \in Status
    BY DEF quec_web_demo_service_cb, CbOpen, CbClose, CbRecv, CbWrite, Status, WebInv, WebTypeOK
  <2>2. recvs' \in 0 .. MaxRecv
    BY WebAssumption DEF quec_web_demo_service_cb, CbOpen, CbClose, CbRecv, CbWrite, WebInv,
       WebTypeOK
  <2>3. owed' \in BOOLEAN
    BY DEF quec_web_demo_service_cb, CbOpen, CbClose, CbRecv, CbWrite, WebInv, WebTypeOK
  <2>4. lost' \in BOOLEAN
    BY DEF quec_web_demo_service_cb, CbOpen, CbClose, CbRecv, CbWrite, WebInv, WebTypeOK, Full
  <2> QED
    BY <2>1, <2>2, <2>3, <2>4
<1>3. /\ ws_msgq' \in Seq(Events) /\ Len(ws_msgq') <= MsgMaxCnt
      /\ \A n : OpenAt(n)' => OpenAt(n) \/ (e = "OPEN" /\ n = Len(ws_msgq) + 1)
  BY <1>1, PostKeepsQueue DEF WebInv
<1>4. WebTypeOK'
  BY <1>1, <1>2, <1>3 DEF WebInv, WebTypeOK, data
<1>5. WireIsPrefix' /\ NothingHeldAtEnd' /\ LoopOpen' /\ Fresh' = Fresh
  BY <1>2 DEF WebInv, WireIsPrefix, NothingHeldAtEnd, LoopOpen, Fresh, data
<1>6. OpenOnce'
  <2>1. ws_pc' = "start" => conn' = "none"
    BY <1>1, <1>2 DEF quec_web_demo_service_cb, CbOpen, CbClose, CbRecv, CbWrite,
       WebInv, OpenOnce
  <2>2. conn' \in {"none", "opening"} => Fresh' /\ ws_pc' # "loop" /\ ws_pc' # "write"
    BY <1>1, <1>2, <1>5 DEF WebInv, OpenOnce
  <2>3. ASSUME NEW m \in 1 .. Len(ws_msgq'), NEW n \in 1 .. Len(ws_msgq'), OpenAt(m)'
        PROVE  /\ conn' \notin {"none", "opening"}
               /\ Fresh' /\ ws_pc' # "loop" /\ ws_pc' # "write"
               /\ OpenAt(n)' => m = n
    <3>1. CASE e # "OPEN"
      <4>1. /\ OpenAt(m) /\ m \in 1 .. Len(ws_msgq)
            /\ OpenAt(n)' => OpenAt(n) /\ n \in 1 .. Len(ws_msgq)
        BY <1>3, <2>3, <3>1 DEF OpenAt
      <4> QED
        BY <1>1, <1>2, <1>5, <4>1 DEF WebInv, OpenOnce
    <3>2. CASE e = "OPEN"
      <4>1. \A k : ~OpenAt(k)
        BY <1>1, <3>2 DEF WebInv, OpenOnce, OpenAt
      <4>2. m = Len(ws_msgq) + 1 /\ (OpenAt(n)' => n = Len(ws_msgq) + 1)
        BY <1>3, <2>3, <4>1
      <4> QED
        BY <1>1, <1>2, <1>5, <3>2, <4>2 DEF WebInv, OpenOnce
    <3> QED
      BY <3>1, <3>2
  <2> QED
    BY <2>1, <2>2, <2>3 DEF OpenOnce
<1> QED
  BY <1>4, <1>5, <1>6 DEF WebInv

\* A step that leaves the transfer alone and adds no OPEN.
LEMMA QuietKeepsInv ==
    ASSUME WebInv, UNCHANGED <<states, is_file, used_len, buf_len, complete, recvs, owed, wire, lost>>,
           ws_msgq' \in Seq(Events), Len(ws_msgq') <= MsgMaxCnt,
           NEW k \in Nat, \A n \in Nat : OpenAt(n)' => OpenAt(n + k),
           fd' \in BOOLEAN, buf' \in BOOLEAN, fd' => fd, buf' => buf,
           conn' \in {"none", "opening", "up", "closing", "down"},
           conn' \in {"none", "opening"} => conn \in {"none", "opening"},
           conn \in {"none", "opening"} => conn' \in {"none", "opening"},
           ws_pc # "loop", ws_pc # "write", ws_pc' \in {"wait", "check", "exited"},
           ws_pc' = "exited" => ~fd' /\ ~buf'
    PROVE  WebInv'
<1>1. WebTypeOK'
  BY DEF WebInv, WebTypeOK
<1>2. WireIsPrefix' /\ NothingHeldAtEnd' /\ LoopOpen'
  BY DEF WebInv, WireIsPrefix, NothingHeldAtEnd, LoopOpen
<1>3. Fresh => Fresh'
  BY DEF Fresh
<1>4. ASSUME NEW n \in Nat, OpenAt(n)' PROVE OpenAt(n + k) /\ n + k \in 1 .. Len(ws_msgq)
  BY <1>4 DEF OpenAt
<1>5. OpenOnce'
  <2>1. ASSUME NEW m \in 1 .. Len(ws_msgq'), NEW n \in 1 .. Len(ws_msgq'), OpenAt(m)'
        PROVE  /\ conn' \notin {"none", "opening"} /\ Fresh'
               /\ OpenAt(n)' => m = n
    <3>1. OpenAt(m + k) /\ m + k \in 1 .. Len(ws_msgq)
      BY <1>4, <2>1
    <3>2. OpenAt(n)' => OpenAt(n + k) /\ n + k \in 1 .. Len(ws_msgq)
      BY <1>4
    <3>3. conn \notin {"none", "opening"} /\ Fresh /\ (OpenAt(n)' => m + k = n + k)
      BY <3>1, <3>2 DEF WebInv, OpenOnce
    <3> QED
      BY <1>3, <3>3
  <2> QED
    BY <1>3, <2>1 DEF WebInv, OpenOnce
<1> QED
  BY <1>1, <1>2, <1>5 DEF WebInv

\* The steps of the task outside a transfer.
LEMMA LoopKeepsInv ==
    ASSUME WebInv, quec_web_demo_open \/ OnRecv \/ OnClosing \/ OnClosed \/ CheckComplete
    PROVE  WebInv'
<1>1. ws_pc \in {"start", "wait", "check"} /\ ws_pc' \in {"wait", "check", "exited"}
  BY DEF quec_web_demo_open, OnRecv, OnClosing, OnClosed, CheckComplete, Take
<1>2. /\ UNCHANGED <<states, is_file, used_len, buf_len, complete, recvs, owed, wire, lost>>
      /\ fd' \in BOOLEAN /\ buf' \in BOOLEAN /\ (fd' => fd) /\ (buf' => buf)
      /\ ws_pc' = "exited" => ~fd' /\ ~buf'
  <2>1. UNCHANGED <<states, is_file, used_len, buf_len, complete, recvs, owed, wire, lost>>
    BY DEF quec_web_demo_open, OnRecv, OnClosing, OnClosed, CheckComplete, data, lib
  <2>2. CASE OnClosed
    BY <2>1, <2>2 DEF OnClosed
  <2>3. CASE ~OnClosed
    <3>1. UNCHANGED <<fd, buf>> /\ ws_pc' # "exited"
      BY <2>3 DEF quec_web_demo_open, OnRecv, OnClosing, CheckComplete, data
    <3>2. fd \in BOOLEAN /\ buf \in BOOLEAN
      BY DEF WebInv, WebTypeOK
    <3> QED
      BY <2>1, <3>1, <3>2
  <2> QED
    BY <2>2, <2>3
<1>3. CASE quec_web_demo_open
  <2>1. conn = "none" /\ conn' \in {"none", "opening"} /\ ws_msgq' = ws_msgq
    BY <1>3 DEF quec_web_demo_open, WebInv, OpenOnce
  <2>2. ws_msgq' \in Seq(Events) /\ Len(ws_msgq') <= MsgMaxCnt
    BY <2>1 DEF WebInv, WebTypeOK
  <2>3. \A n \in Nat : OpenAt(n)' => OpenAt(n + 0)
    BY <2>1 DEF OpenAt
  <2> QED
    BY <1>1, <1>2, <2>1, <2>2, <2>3, QuietKeepsInv
<1>4. CASE CheckComplete
  <2>1. conn' = conn /\ conn' \in {"none", "opening", "up", "closing", "down"}
    BY <1>4 DEF CheckComplete, lib, WebInv, WebTypeOK
  <2>2. /\ ws_msgq' \in Seq(Events) /\ Len(ws_msgq') <= MsgMaxCnt
        /\ \A n \in Nat : OpenAt(n)' => OpenAt(n)
    <3>1. CASE Post("CLOSEING")
      BY <3>1, PostKeepsQueue DEF WebInv, Events
    <3>2. CASE UNCHANGED ws_msgq
      BY <3>2 DEF OpenAt, WebInv, WebTypeOK
    <3> QED
      BY <1>4, <3>1, <3>2 DEF CheckComplete
  <2>3. \A n \in Nat : OpenAt(n)' => OpenAt(n + 0)
    BY <2>2
  <2> QED
    BY <1>1, <1>2, <2>1, <2>2, <2>3, QuietKeepsInv
<1>5. CASE OnRecv \/ OnClosing \/ OnClosed
  <2>1. PICK e : Take(e)
    BY <1>5 DEF OnRecv, OnClosing, OnClosed
  <2>2. /\ ws_msgq' \in Seq(Events) /\ Len(ws_msgq') <= MsgMaxCnt
        /\ \A n \in Nat : OpenAt(n)' => OpenAt(n + 1)
    BY <2>1, TakeKeepsQueue DEF WebInv
  <2>3. /\ conn' \in {"none", "opening", "up", "closing", "down"}
        /\ conn' \in {"none", "opening"} <=> conn \in {"none", "opening"}
    BY <1>5 DEF OnRecv, OnClosing, OnClosed, lib, WebInv, WebTypeOK
  <2> QED
    BY <1>1, <1>2, <2>2, <2>3, QuietKeepsInv
<1> QED
  BY <1>3, <1>4, <1>5

\* The OPEN message that starts the transfer was the only one.
LEMMA OpenKeepsInv ==
    ASSUME WebInv, OnOpen
    PROVE  WebInv'
<1>1. /\ ws_msgq' \in Seq(Events) /\ Len(ws_msgq') <= MsgMaxCnt
      /\ \A n \in Nat : OpenAt(n)' => OpenAt(n + 1)
      /\ OpenAt(1) /\ ws_pc = "wait"
  BY TakeKeepsQueue DEF OnOpen, Take, WebInv
<1>2. UNCHANGED <<states, data, lib, wire, lost>> /\ ws_pc' \in {"write", "check"}
  BY DEF OnOpen
<1>3. conn \notin {"none", "opening"} /\ Fresh
  BY <1>1 DEF WebInv, OpenOnce, OpenAt
<1>4. \A n \in 1 .. Len(ws_msgq') : ~OpenAt(n)'
  <2>1. ASSUME NEW n \in 1 .. Len(ws_msgq'), OpenAt(n)' PROVE FALSE
    <3>1. n \in Nat /\ n >= 1
      OBVIOUS
    <3>2. OpenAt(n + 1) /\ n + 1 \in 1 .. Len(ws_msgq) /\ 1 \in 1 .. Len(ws_msgq)
      BY <1>1, <2>1, <3>1 DEF OpenAt
    <3>3. n + 1 = 1
      BY <1>1, <3>2 DEF WebInv, OpenOnce
    <3> QED
      BY <3>1, <3>3
  <2> QED
    BY <2>1
<1>5. WebTypeOK'
  BY <1>1, <1>2 DEF WebInv, WebTypeOK, data, lib
<1>6. OpenOnce'
  BY <1>2, <1>3, <1>4 DEF OpenOnce, lib
<1>7. WireIsPrefix' /\ NothingHeldAtEnd' /\ LoopOpen'
  BY <1>1, <1>2, <1>3 DEF WebInv, WireIsPrefix, NothingHeldAtEnd, LoopOpen, Fresh, data
<1> QED
  BY <1>5, <1>6, <1>7 DEF WebInv

-----------------------------------------------------------------------------
(* The transfer.                                                           *)

\* During the transfer no OPEN is queued and the connection is past its opening.
LEMMA InTransfer ==
    ASSUME WebInv, ws_pc \in {"write", "loop"}, UNCHANGED <<ws_msgq, conn>>, ws_pc' # "start"
    PROVE  OpenOnce'
<1>1. conn \notin {"none", "opening"} /\ \A n \in 1 .. Len(ws_msgq) : ~OpenAt(n)
  BY DEF WebInv, OpenOnce
<1> QED
  BY <1>1 DEF OpenOnce, OpenAt

\* Starting the transfer takes file and buffer, or neither.
LEMMA WriteStartKeepsInv ==
    ASSUME WebInv, WriteStart
    PROVE  WebInv'
<1>1. /\ ws_pc = "write" /\ ws_pc' \in {"loop", "check"}
      /\ is_file' = TRUE /\ UNCHANGED <<ws_msgq, states, used_len, buf_len, lib, wire, lost>>
      /\ fd' \in BOOLEAN /\ buf' \in BOOLEAN /\ complete' \in BOOLEAN
      /\ complete' = complete \/ (~fd' /\ ~buf' /\ ws_pc' = "check")
  BY DEF WriteStart, WriteExit, WebInv, WebTypeOK
<1>2. WebTypeOK'
  BY <1>1 DEF WebInv, WebTypeOK, lib
<1>3. Fresh
  BY <1>1 DEF WebInv, LoopOpen
<1>4. WireIsPrefix' /\ NothingHeldAtEnd' /\ LoopOpen'
  BY <1>1, <1>3 DEF WebInv, WireIsPrefix, NothingHeldAtEnd, LoopOpen, Fresh
<1>5. OpenOnce'
  BY <1>1, InTransfer DEF lib
<1> QED
  BY <1>2, <1>4, <1>5 DEF WebInv

\* One more block of the file continues what was sent.
LEMMA BlockAppended ==
    ASSUME NEW n \in Nat, NEW b \in Nat, n + b <= FileLen,
           NEW w \in Seq(1 .. FileLen), Len(w) = n, \A i \in 1 .. Len(w) : w[i] = i
    PROVE  LET next == w \o [i \in 1 .. b |-> n + i]
           IN  /\ next \in Seq(1 .. FileLen) /\ Len(next) = n + b
               /\ \A i \in 1 .. Len(next) : next[i] = i
<1> DEFINE t == [i \in 1 .. b |-> n + i]
<1>1. t \in Seq(1 .. FileLen) /\ Len(t) = b /\ \A i \in 1 .. b : t[i] = n + i
  <2>1. FileLen \in Nat /\ \A i \in 1 .. b : n + i \in 1 .. FileLen
    BY WebAssumption
  <2> QED
    BY <2>1
<1> HIDE DEF t
<1>2. /\ w \o t \in Seq(1 .. FileLen) /\ Len(w \o t) = n + b
      /\ \A i \in 1 .. n + b : (w \o t)[i] = IF i <= n THEN w[i] ELSE t[i - n]
  BY <1>1, ConcatProperties
<1>3. \A i \in 1 .. Len(w \o t) : (w \o t)[i] = i
  BY <1>1, <1>2
<1> QED
  BY <1>2, <1>3 DEF t

\* A block the library took is on the wire, one it had no room for is held back, and
\* one it refused ends the transfer.
LEMMA SendBlockKeepsInv ==
    ASSUME WebInv, SendBlock
    PROVE  WebInv'
<1>1. /\ ws_pc = "loop" /\ used_len \in Nat /\ used_len < FileLen /\ FileLen \in Nat
      /\ SendBuf \in Nat \ {0} /\ Len(wire) = used_len /\ ~complete
      /\ wire \in Seq(1 .. FileLen) /\ \A i \in 1 .. Len(wire) : wire[i] = i
      /\ UNCHANGED <<ws_msgq, states, is_file, conn, recvs, lost>>
  BY WebAssumption DEF SendBlock, WebInv, WebTypeOK, LoopOpen, WireIsPrefix
<1>2. BlockLen \in 1 .. SendBuf /\ BlockLen \in Nat /\ used_len + BlockLen <= FileLen
  BY <1>1 DEF BlockLen
<1>3. /\ ws_pc' \in {"loop", "check"}
      /\ \/ UNCHANGED <<complete, fd, buf>>
         \/ ~fd' /\ ~buf' /\ complete' /\ ws_pc' = "check"
  BY <1>1 DEF SendBlock, WriteExit
<1>4. fd' \in BOOLEAN /\ buf' \in BOOLEAN /\ complete' \in BOOLEAN /\ owed' \in BOOLEAN
  BY DEF SendBlock, WriteExit, WebInv, WebTypeOK
<1> DEFINE Sent(r) ==
        /\ used_len' = used_len + BlockLen
        /\ buf_len' = BufLenAfter(r)
        /\ wire' = IF r = "OK" THEN wire \o [n \in 1 .. BlockLen |-> used_len + n] ELSE wire
        /\ \/ r = "ERROR" /\ WriteExit
           \/ r = "NOMEM" /\ ws_pc' = "check"
           \/ r = "OK"
<1>5. \/ \E r \in WriteResults : Sent(r)
      \/ buf_len' = BlockLen /\ UNCHANGED <<used_len, wire>>
  BY DEF SendBlock
<1> HIDE DEF Sent
<1>6. /\ used_len' \in 0 .. FileLen /\ buf_len' \in 0 .. SendBuf
      /\ wire' \in Seq(1 .. FileLen) /\ \A i \in 1 .. Len(wire') : wire'[i] = i
      /\ Len(wire') = used_len' \/ Len(wire') + buf_len' = used_len'
      /\ ws_pc' = "loop" => Len(wire') = used_len'
  <2>1. CASE /\ used_len' = used_len + BlockLen /\ buf_len' = 0
             /\ wire' = wire \o [n \in 1 .. BlockLen |-> used_len + n]
    <3>1. /\ wire' \in Seq(1 .. FileLen) /\ Len(wire') = used_len + BlockLen
          /\ \A i \in 1 .. Len(wire') : wire'[i] = i
      BY <1>1, <1>2, <2>1, BlockAppended
    <3>2. used_len' \in 0 .. FileLen /\ buf_len' \in 0 .. SendBuf
      BY <1>1, <1>2, <2>1
    <3> QED
      BY <2>1, <3>1, <3>2
  <2>2. CASE /\ used_len' = used_len + BlockLen /\ buf_len' = BlockLen
             /\ wire' = wire /\ ws_pc' = "check"
    BY <1>1, <1>2, <2>2
  <2>3. CASE used_len' = used_len /\ buf_len' = BlockLen /\ wire' = wire
    BY <1>1, <1>2, <2>3
  <2>4. CASE \E r \in WriteResults : Sent(r)
    <3>1. PICK r \in WriteResults : Sent(r)
      BY <2>4
    <3>2. CASE r = "OK"
      BY <2>1, <3>1, <3>2 DEF Sent, BufLenAfter
    <3>3. CASE r = "NOMEM" \/ r = "ERROR"
      <4>1. used_len' = used_len + BlockLen /\ buf_len' = BlockLen /\ wire' = wire
        BY <3>1, <3>3 DEF Sent, BufLenAfter
      <4>2. ws_pc' = "check"
        BY <3>1, <3>3 DEF Sent, WriteExit
      <4> QED
        BY <2>2, <4>1, <4>2
    <3> QED
      BY <3>1, <3>2, <3>3 DEF Sent
  <2>5. CASE buf_len' = BlockLen /\ UNCHANGED <<used_len, wire>>
    BY <2>3, <2>5
  <2> QED
    BY <2>4, <2>5, <1>5
<1>7. WebTypeOK'
  <2>1. fd' \in BOOLEAN /\ buf' \in BOOLEAN /\ complete' \in BOOLEAN /\ owed' \in BOOLEAN
    BY <1>4
  <2>2. /\ ws_pc' \in {"start", "wait", "write", "loop", "check", "exited"}
        /\ ws_msgq' \in Seq(Events) /\ Len(ws_msgq') <= MsgMaxCnt
        /\ states' \in Status /\ recvs' \in 0 .. MaxRecv
        /\ conn' \in {"none", "opening", "up", "closing", "down"}
    BY <1>1, <1>3 DEF WebInv, WebTypeOK
  <2>3. is_file' \in BOOLEAN /\ lost' \in BOOLEAN
    BY <1>1 DEF WebInv, WebTypeOK
  <2> QED
    BY <1>6, <2>1, <2>2, <2>3 DEF WebTypeOK
<1>8. WireIsPrefix' /\ NothingHeldAtEnd' /\ LoopOpen'
  <2>1. WireIsPrefix'
    BY <1>6 DEF WireIsPrefix
  <2>2. NothingHeldAtEnd'
    BY <1>1, <1>3 DEF NothingHeldAtEnd
  <2>3. LoopOpen'
    BY <1>1, <1>3, <1>6 DEF LoopOpen
  <2> QED
    BY <2>1, <2>2, <2>3
<1>9. OpenOnce'
  BY <1>1, <1>3, InTransfer
<1> QED
  BY <1>7, <1>8, <1>9 DEF WebInv

\* The end of the file gives file and buffer back.
LEMMA SendCompleteKeepsInv ==
    ASSUME WebInv, SendComplete
    PROVE  WebInv'
<1>1. /\ ws_pc = "loop" /\ ws_pc' = "check" /\ ~fd' /\ ~buf' /\ complete'
      /\ fd' \in BOOLEAN /\ buf' \in BOOLEAN /\ complete' \in BOOLEAN
      /\ UNCHANGED <<ws_msgq, states, is_file, used_len, buf_len, lib, wire, lost>>
  BY DEF SendComplete, WriteExit
<1>2. WebTypeOK'
  BY <1>1 DEF WebInv, WebTypeOK, lib
<1>3. WireIsPrefix' /\ NothingHeldAtEnd' /\ LoopOpen'
  BY <1>1 DEF WebInv, WireIsPrefix, NothingHeldAtEnd, LoopOpen
<1>4. OpenOnce'
  BY <1>1, InTransfer DEF lib
<1> QED
  BY <1>2, <1>3, <1>4 DEF WebInv

-----------------------------------------------------------------------------
(* The theorems.                                                           *)

\* Every step of the task and of the library's callbacks keeps WebInv.
THEOREM WebInvariant == WebSpec => []WebInv
<1>1. WebInit => WebInv
  BY WebStart
<1>2. WebInv /\ [WebNext]_webVars => WebInv'
  <2> SUFFICES ASSUME WebInv, [WebNext]_webVars PROVE WebInv'
    OBVIOUS
  <2>1. CASE Task
    BY <2>1, LoopKeepsInv, OpenKeepsInv, WriteStartKeepsInv, SendBlockKeepsInv, SendCompleteKeepsInv
       DEF Task, quec_web_demo_write_test
  <2>2. CASE quec_web_demo_service_cb
    BY <2>2, CallbackKeepsInv
  <2>3. CASE UNCHANGED webVars
    BY <2>3 DEF webVars, data, lib, WebInv, WebTypeOK, WireIsPrefix, NothingHeldAtEnd, OpenOnce,
       OpenAt, Fresh, LoopOpen
  <2> QED
    BY <2>1, <2>2, <2>3 DEF WebNext
<1> QED
  BY <1>1, <1>2, PTL DEF WebSpec

\* For every length of the file and of a block: what the library was given is the
\* beginning of the file in order, and only the block held back is missing.
THEOREM WebWireIsPrefix == WebSpec => []WireIsPrefix
<1>1. WebInv => WireIsPrefix
  BY DEF WebInv
<1> QED
  BY <1>1, WebInvariant, PTL

\* File and buffer are released whichever error ends a transfer, and never held after
\* the task's own end.
THEOREM WebNothingHeld == WebSpec => []NothingHeldAtEnd
<1>1. WebInv => NothingHeldAtEnd
  BY DEF WebInv
<1> QED
  BY <1>1, WebInvariant, PTL

-----------------------------------------------------------------------------
(* The client that the MQTT and the MQTT 5 demo have in common.  S is the  *)
(* set of the messages in its queue.                                       *)

\* The bounds are numbers.
LEMMA Bounds ==
    ASSUME ClientTypeOK
    PROVE  MqttMaxCnt \in Nat /\ MaxForeign \in Nat
BY MqttAssumption DEF ClientTypeOK, Envs, MqttMaxCnt, MaxForeign

\* What the program runs in does not change.
LEMMA BoundsKept ==
    ASSUME UNCHANGED env
    PROVE  MqttMaxCnt' = MqttMaxCnt /\ MaxForeign' = MaxForeign
BY DEF MqttMaxCnt, MaxForeign

\* The event callback keeps the queue within its capacity, and leaves it alone
\* unless there is a context.
LEMMA EventCbKeepsQueue ==
    ASSUME NEW S, ClientTypeOK, msgq \in Seq(S), NEW m \in S, unir_mqtt_demo_event_cb(m)
    PROVE  msgq' \in Seq(S) /\ Len(msgq') <= MqttMaxCnt /\ late' \in BOOLEAN
<1>1. msgq' \in Seq(S) /\ Len(msgq') <= MqttMaxCnt
  <2>1. CASE msgq' = msgq
    BY <2>1 DEF ClientTypeOK
  <2>2. CASE Len(msgq) < MqttMaxCnt /\ msgq' = Append(msgq, m)
    <3>1. msgq' \in Seq(S) /\ Len(msgq') = Len(msgq) + 1 /\ Len(msgq) \in Nat
      BY <2>2, AppendProperties
    <3> QED
      BY <2>2, <3>1, Bounds
  <2> QED
    BY <2>1, <2>2 DEF unir_mqtt_demo_event_cb
<1>2. late' \in BOOLEAN
  BY Zenon DEF unir_mqtt_demo_event_cb
<1> QED
  BY <1>1, <1>2

\* The same of the library's step that brings the event about: only a change of the
\* state is left to be reported.
LEMMA LibraryTells ==
    ASSUME NEW S, ClientTypeOK, msgq \in Seq(S), NEW m \in S,
           Tell(m) \/ (m \in Msgs /\ Changed(m))
    PROVE  /\ msgq' \in Seq(S) /\ Len(msgq') <= MqttMaxCnt /\ late' \in BOOLEAN
           /\ report' \in SUBSET Msgs
<1>1. CASE Tell(m)
  <2>1. unir_mqtt_demo_event_cb(m) /\ report' = {}
    BY <1>1 DEF Tell
  <2> QED
    BY <2>1, EventCbKeepsQueue
<1>2. CASE m \in Msgs /\ Changed(m)
  <2>1. report' = {m} /\ UNCHANGED <<msgq, late>>
    BY <1>2 DEF Changed
  <2> QED
    BY <1>2, <2>1 DEF ClientTypeOK
<1> QED
  BY <1>1, <1>2

\* What the library settles is one response fewer of its kind.
LEMMA Settled ==
    ASSUME ClientTypeOK, NEW k \in Kinds, Settle(k)
    PROVE  /\ due' \in [Kinds -> Nat] /\ due[k] > 0 /\ due'[k] = due[k] - 1
           /\ \A j \in Kinds \ {k} : due'[j] = due[j]
<1>1. due[k] \in Nat /\ due[k] > 0
  BY DEF ClientTypeOK, Settle
<1>2. due[k] - 1 \in Nat
  BY <1>1
<1> QED
  BY <1>1, <1>2 DEF ClientTypeOK, Settle

\* A request makes responses of some kinds due, never of the opening.
LEMMA Requested ==
    ASSUME ClientTypeOK, NEW ks \in SUBSET (Kinds \ {"OPEN"}), Request(ks)
    PROVE  /\ due' \in [Kinds -> Nat] /\ due'["OPEN"] = due["OPEN"]
           /\ \A k \in Kinds : due'[k] \in {due[k], due[k] + 1}
           /\ \A k \in Kinds \ ks : due'[k] = due[k]
<1>1. "OPEN" \in Kinds /\ "CLOSE" \in Kinds
  BY DEF Kinds
<1>2. CASE due' = [k \in Kinds |-> due[k] + (IF k \in ks THEN 1 ELSE 0)]
  <2>1. \A k \in Kinds : due[k] \in Nat
    BY DEF ClientTypeOK
  <2>2. \A k \in Kinds : due[k] + (IF k \in ks THEN 1 ELSE 0) \in Nat
    BY <2>1
  <2> QED
    BY <1>1, <1>2, <2>1, <2>2
<1>3. CASE UNCHANGED due
  BY <1>3 DEF ClientTypeOK
<1> QED
  BY <1>1, <1>2, <1>3 DEF Request

\* A library step that is not the end of the opening: there is a connection, which
\* neither a starting nor a leaving task has unless a handler failed.
LEMMA LibraryKeepsInv ==
    ASSUME ClientInv, UNCHANGED task, ClientTypeOK',
           due["OPEN"] = 0, due'["OPEN"] = 0,
           state \notin {"INIT", "TCP_CLOSED"}
    PROVE  ClientInv'
<1>1. OpenAlone'
  BY DEF OpenAlone
<1>2. LeavesClosed'
  BY DEF ClientInv, LeavesClosed, task
<1> QED
  BY <1>1, <1>2 DEF ClientInv

\* Whatever the library reports keeps the invariant: a closed connection has nothing
\* due that would still be reported.
LEMMA LibraryStep ==
    ASSUME NEW S, Msgs \subseteq S, msgq \in Seq(S), ClientInv, Library, UNCHANGED env
    PROVE  ClientInv' /\ msgq' \in Seq(S)
<1> USE DEF ClientInv
<1>0. /\ {"OPEN", "CONNECT", "SUBSCRIBE", "PUBLISH", "UNSUBSCRIBE", "SUBACK", "UNSUBACK",
          "ECHO", "DISCONNECT", "CLOSE"} \in SUBSET Kinds
      /\ Results \in SUBSET BOOLEAN /\ TRUE \in BOOLEAN
      /\ due["OPEN"] \in Nat /\ ClientTypeOK
      /\ \A k \in Kinds \ {"ECHO"}, ok \in BOOLEAN : Event(k, ok) \in S \cap Msgs
      /\ \A ok \in BOOLEAN : Event("STATE", ok) \in S \cap Msgs
      /\ \A t \in Topics : NewMessage(t) \in S
  <2>1. /\ {"OPEN", "CONNECT", "SUBSCRIBE", "PUBLISH", "UNSUBSCRIBE", "SUBACK", "UNSUBACK",
            "ECHO", "DISCONNECT", "CLOSE"} \in SUBSET Kinds
        /\ Results \in SUBSET BOOLEAN /\ TRUE \in BOOLEAN
    BY DEF Kinds, Results
  <2>2. due["OPEN"] \in Nat /\ ClientTypeOK
    BY <2>1 DEF ClientTypeOK
  <2>3. /\ \A k \in Kinds \ {"ECHO"}, ok \in BOOLEAN : Event(k, ok) \in Msgs
        /\ \A ok \in BOOLEAN : Event("STATE", ok) \in Msgs
        /\ \A t \in Topics : NewMessage(t) \in Msgs
    BY DEF Msgs
  <2> QED
    BY <2>1, <2>2, <2>3
<1>1. CASE LibOpen
  <2>1. /\ Settle("OPEN") /\ UNCHANGED <<task, subs, foreign, unsubbed>>
        /\ state' \in {"TCP_OPENED", "TCP_CLOSED"}
        /\ \E ok \in Results : Tell(Event("OPEN", ok))
    BY <1>1 DEF LibOpen
  <2>2. due' \in [Kinds -> Nat] /\ due["OPEN"] > 0 /\ due'["OPEN"] = due["OPEN"] - 1
    BY <1>0, <2>1, Settled
  <2>3. msgq' \in Seq(S) /\ Len(msgq') <= MqttMaxCnt /\ late' \in BOOLEAN
        /\ report' \in SUBSET Msgs
    BY <1>0, <2>1, LibraryTells
  <2>4. due'["OPEN"] = 0 /\ pc = "wait"
    BY <2>2 DEF OpenAlone
  <2>5. ClientTypeOK'
    BY BoundsKept, <2>1, <2>2, <2>3, Zenon DEF ClientTypeOK, task
  <2>6. OpenAlone' /\ LeavesClosed'
    BY <2>1, <2>4 DEF OpenAlone, LeavesClosed, task
  <2> QED
    BY <2>3, <2>5, <2>6
<1>2. CASE LibConnect
  <2>1. /\ Settle("CONNECT") /\ UNCHANGED <<task, subs, foreign, unsubbed>>
        /\ state = "MQTT_CONNECTING"
        /\ state' \in {"MQTT_CONNECTED", "TCP_OPENED", "TCP_CLOSING", "TCP_CLOSED"}
        /\ \E ok \in Results : Changed(Event("CONNECT", ok))
    BY <1>2 DEF LibConnect
  <2>2. due' \in [Kinds -> Nat] /\ due'["OPEN"] = due["OPEN"]
    BY <1>0, <2>1, Settled
  <2>3. msgq' \in Seq(S) /\ Len(msgq') <= MqttMaxCnt /\ late' \in BOOLEAN
        /\ report' \in SUBSET Msgs
    BY <1>0, <2>1, LibraryTells
  <2>4. ClientTypeOK'
    BY BoundsKept, <2>1, <2>2, <2>3, Zenon DEF ClientTypeOK, task
  <2>5. due["OPEN"] = 0
    BY <1>0, <2>1 DEF OpenAlone
  <2> QED
    BY <2>1, <2>2, <2>3, <2>4, <2>5, LibraryKeepsInv
<1>3. CASE LibSent
  <2>1. /\ Online /\ UNCHANGED <<task, state, subs, foreign, unsubbed>>
    BY <1>3 DEF LibSent
  <2>2. PICK k \in {"SUBSCRIBE", "PUBLISH", "UNSUBSCRIBE"} :
           Settle(k) /\ \E ok \in Results : Tell(Event(k, ok))
    BY <1>3 DEF LibSent
  <2>3. due' \in [Kinds -> Nat] /\ due'["OPEN"] = due["OPEN"]
    BY <1>0, <2>2, Settled
  <2>4. msgq' \in Seq(S) /\ Len(msgq') <= MqttMaxCnt /\ late' \in BOOLEAN
        /\ report' \in SUBSET Msgs
    BY <1>0, <2>2, LibraryTells
  <2>5. ClientTypeOK'
    BY BoundsKept, <2>1, <2>3, <2>4, Zenon DEF ClientTypeOK, task
  <2>6. due["OPEN"] = 0 /\ state \notin {"INIT", "TCP_CLOSED"}
    BY <1>0, <2>1 DEF OpenAlone, Online
  <2> QED
    BY <2>1, <2>3, <2>4, <2>5, <2>6, LibraryKeepsInv
<1>4. CASE LibSuback \/ LibUnsuback
  <2>1. /\ Online /\ UNCHANGED <<task, state, foreign, unsubbed>>
    BY <1>4 DEF LibSuback, LibUnsuback
  <2>2. PICK k \in {"SUBACK", "UNSUBACK"} :
           Settle(k) /\ \E ok \in Results : Tell(Event(k, ok))
    BY <1>4 DEF LibSuback, LibUnsuback
  <2>3. subs' \in SUBSET Topics
    BY <1>4 DEF LibSuback, LibUnsuback, ClientTypeOK
  <2>4. due' \in [Kinds -> Nat] /\ due'["OPEN"] = due["OPEN"]
    BY <1>0, <2>2, Settled
  <2>5. msgq' \in Seq(S) /\ Len(msgq') <= MqttMaxCnt /\ late' \in BOOLEAN
        /\ report' \in SUBSET Msgs
    BY <1>0, <2>2, LibraryTells
  <2>6. ClientTypeOK'
    BY BoundsKept, <2>1, <2>3, <2>4, <2>5, Zenon DEF ClientTypeOK, task
  <2>7. due["OPEN"] = 0 /\ state \notin {"INIT", "TCP_CLOSED"}
    BY <1>0, <2>1 DEF OpenAlone, Online
  <2> QED
    BY <2>1, <2>4, <2>5, <2>6, <2>7, LibraryKeepsInv
<1>5. CASE LibEcho
  <2>1. /\ Online /\ UNCHANGED <<task, state, subs, foreign, unsubbed>> /\ Settle("ECHO")
    BY <1>5 DEF LibEcho
  <2>2. due' \in [Kinds -> Nat] /\ due'["OPEN"] = due["OPEN"]
    BY <1>0, <2>1, Settled
  <2>3. msgq' \in Seq(S) /\ Len(msgq') <= MqttMaxCnt /\ late' \in BOOLEAN
        /\ report' \in SUBSET Msgs
    <3>1. CASE Tell(NewMessage("TOPIC1"))
      BY <1>0, <3>1, LibraryTells DEF Topics
    <3>2. CASE UNCHANGED <<msgq, late, report>>
      BY <3>2 DEF ClientTypeOK
    <3> QED
      BY <1>5, <3>1, <3>2 DEF LibEcho
  <2>4. ClientTypeOK'
    BY BoundsKept, <2>1, <2>2, <2>3, Zenon DEF ClientTypeOK, task
  <2>5. due["OPEN"] = 0 /\ state \notin {"INIT", "TCP_CLOSED"}
    BY <1>0, <2>1 DEF OpenAlone, Online
  <2> QED
    BY <2>1, <2>2, <2>3, <2>4, <2>5, LibraryKeepsInv
<1>6. CASE LibForeign
  <2>1. /\ Online /\ UNCHANGED <<task, state, due, subs, unsubbed>>
        /\ foreign < MaxForeign /\ foreign' = foreign + 1
    BY <1>6 DEF LibForeign
  <2>2. \E t \in Topics : Tell(NewMessage(t))
    BY <1>6 DEF LibForeign, ClientTypeOK
  <2>3. msgq' \in Seq(S) /\ Len(msgq') <= MqttMaxCnt /\ late' \in BOOLEAN
        /\ report' \in SUBSET Msgs
    BY <1>0, <2>2, LibraryTells
  <2>4. foreign' \in 0 .. MaxForeign
    BY <2>1, Bounds DEF ClientTypeOK
  <2>5. ClientTypeOK'
    BY BoundsKept, <2>1, <2>3, <2>4, Zenon DEF ClientTypeOK, task
  <2>6. due["OPEN"] = 0 /\ state \notin {"INIT", "TCP_CLOSED"}
    BY <1>0, <2>1 DEF OpenAlone, Online
  <2> QED
    BY <2>1, <2>3, <2>5, <2>6, LibraryKeepsInv
<1>7. CASE LibState
  <2>1. /\ UNCHANGED <<task, due, subs, foreign, unsubbed>>
        /\ state \in {"TCP_OPENED", "MQTT_CONNECTING", "MQTT_CONNECTED", "MQTT_DISCONNECTING"}
        /\ state' \in {"TCP_CLOSING", "TCP_CLOSED"}
        /\ Changed(Event("STATE", TRUE))
    BY <1>7 DEF LibState
  <2>2. msgq' \in Seq(S) /\ Len(msgq') <= MqttMaxCnt /\ late' \in BOOLEAN
        /\ report' \in SUBSET Msgs
    BY <1>0, <2>1, LibraryTells
  <2>3. ClientTypeOK'
    BY BoundsKept, <2>1, <2>2, Zenon DEF ClientTypeOK, task
  <2>4. due["OPEN"] = 0 /\ state \notin {"INIT", "TCP_CLOSED"}
    BY <1>0, <2>1 DEF OpenAlone
  <2> QED
    BY <2>1, <2>2, <2>3, <2>4, LibraryKeepsInv
<1>8. CASE LibDisconnect \/ LibClose
  <2>1. /\ UNCHANGED <<task, subs, foreign, unsubbed>>
        /\ state \notin {"INIT", "TCP_CLOSED"}
        /\ state' \in {"TCP_CLOSING", "TCP_CLOSED"}
    BY <1>8 DEF LibDisconnect, LibClose
  <2>2. PICK k \in {"DISCONNECT", "CLOSE"} :
           /\ Settle(k) /\ \E ok \in BOOLEAN : Changed(Event(k, ok))
           /\ k = "DISCONNECT" => state = "MQTT_DISCONNECTING"
    BY <1>0, <1>8 DEF LibDisconnect, LibClose
  <2>3. due' \in [Kinds -> Nat] /\ due'["OPEN"] = due["OPEN"] /\ due[k] > 0
    BY <1>0, <2>2, Settled
  <2>4. msgq' \in Seq(S) /\ Len(msgq') <= MqttMaxCnt /\ late' \in BOOLEAN
        /\ report' \in SUBSET Msgs
    BY <1>0, <2>2, LibraryTells
  <2>5. ClientTypeOK'
    BY BoundsKept, <2>1, <2>3, <2>4, Zenon DEF ClientTypeOK, task
  <2>6. due["OPEN"] = 0
    BY <1>0, <2>2, <2>3 DEF OpenAlone
  <2> QED
    BY <2>1, <2>3, <2>4, <2>5, <2>6, LibraryKeepsInv
<1>9. CASE LibReport
  <2>1. /\ UNCHANGED <<task, state, due, subs, foreign, unsubbed>> /\ report' = {}
        /\ \E m \in report : unir_mqtt_demo_event_cb(m)
    BY <1>9 DEF LibReport
  <2>2. report \subseteq S /\ report # {}
    BY <1>0, <2>1 DEF ClientTypeOK
  <2>3. msgq' \in Seq(S) /\ Len(msgq') <= MqttMaxCnt /\ late' \in BOOLEAN
    BY <1>0, <2>1, <2>2, EventCbKeepsQueue
  <2>4. ClientTypeOK'
    BY BoundsKept, <2>1, <2>3, Zenon DEF ClientTypeOK, task
  <2>5. OpenAlone' /\ LeavesClosed'
    BY <2>1, <2>2 DEF OpenAlone, LeavesClosed, task
  <2> QED
    BY <2>3, <2>4, <2>5
<1> QED
  BY <1>1, <1>2, <1>3, <1>4, <1>5, <1>6, <1>7, <1>8, <1>9 DEF Library

\* A step of the task inside its loop: the connection has been opened by then.
LEMMA InLoopKeepsInv ==
    ASSUME ClientInv, (pc = "wait" /\ msgq # <<>>) \/ pc = "read",
           pc' \in {"check", "read", "crashed"},
           UNCHANGED <<env, g_mqtt_ctx, subs, foreign, late, report>>,
           Len(msgq') <= MqttMaxCnt,
           due' \in [Kinds -> Nat], due'["OPEN"] = due["OPEN"],
           ret' \in BOOLEAN, ret' # TRUE => pc' = "check", unsubbed' \in SUBSET Topics,
           state' \in {state, "MQTT_CONNECTING", "MQTT_DISCONNECTING"}
    PROVE  ClientInv'
<1>1. due["OPEN"] = 0
  <2>1. due["OPEN"] \in Nat
    BY DEF ClientInv, ClientTypeOK, Kinds
  <2> QED
    BY <2>1 DEF ClientInv, OpenAlone
<1>2. ClientTypeOK'
  BY BoundsKept, Zenon DEF ClientInv, ClientTypeOK
<1>3. OpenAlone'
  BY <1>1 DEF OpenAlone
<1>4. LeavesClosed'
  BY DEF ClientInv, LeavesClosed
<1> QED
  BY <1>2, <1>3, <1>4 DEF ClientInv

\* What is left of the queue when an event is taken.
LEMMA TakenQueue ==
    ASSUME NEW S, msgq \in Seq(S), ClientTypeOK, msgq # <<>>, msgq' = Tail(msgq)
    PROVE  /\ msgq' \in Seq(S) /\ Len(msgq') <= MqttMaxCnt
           /\ Len(msgq) \in Nat \ {0} /\ Len(msgq') = Len(msgq) - 1
           /\ Head(msgq) \in S /\ Head(msgq) = msgq[1]
           /\ \A k \in 1 .. Len(msgq') : msgq'[k] = msgq[k + 1]
<1>1. /\ Tail(msgq) \in Seq(S) /\ Len(Tail(msgq)) = Len(msgq) - 1
      /\ Head(msgq) \in S /\ Head(msgq) = msgq[1]
      /\ \A k \in 1 .. Len(Tail(msgq)) : Tail(msgq)[k] = msgq[k + 1]
  BY HeadTailProperties
<1>2. Len(msgq) \in Nat \ {0} /\ Len(msgq) <= MqttMaxCnt
  BY EmptySeq DEF ClientTypeOK
<1> QED
  BY <1>1, <1>2, Bounds

\* A handler that takes an event.
LEMMA HandlerKeepsInv ==
    ASSUME NEW S, msgq \in Seq(S), ClientInv, NEW ids, TakeEvent(ids),
           UNCHANGED <<env, g_mqtt_ctx, subs, foreign, late, report>>,
           due' \in [Kinds -> Nat], due'["OPEN"] = due["OPEN"],
           ret' \in BOOLEAN, unsubbed' \in SUBSET Topics,
           state' \in {state, "MQTT_CONNECTING", "MQTT_DISCONNECTING"}
    PROVE  ClientInv' /\ msgq' \in Seq(S) /\ pc' = "check"
<1>1. pc = "wait" /\ pc' = "check" /\ msgq # <<>> /\ msgq' = Tail(msgq)
  BY DEF TakeEvent
<1>2. msgq' \in Seq(S) /\ Len(msgq') <= MqttMaxCnt
  BY <1>1, TakenQueue DEF ClientInv
<1> QED
  BY <1>1, <1>2, InLoopKeepsInv

\* The handlers request only while the task is in its loop, and never an opening.
LEMMA EventHandleStep ==
    ASSUME NEW S, msgq \in Seq(S), ClientInv, UNCHANGED env,
           unir_mqtt_demo_event_handle \/ unir_mqtt_demo_recv_new_message
    PROVE  ClientInv' /\ msgq' \in Seq(S) /\ pc' = "check"
<1>0. /\ ClientTypeOK /\ due \in [Kinds -> Nat] /\ unsubbed \in SUBSET Topics /\ ret \in BOOLEAN
      /\ {"SUBSCRIBE", "SUBACK"} \in SUBSET (Kinds \ {"OPEN"})
      /\ {"PUBLISH", "ECHO"} \in SUBSET (Kinds \ {"OPEN"})
      /\ {"UNSUBSCRIBE", "UNSUBACK"} \in SUBSET (Kinds \ {"OPEN"})
      /\ "TOPIC1" \in Topics
  BY DEF ClientInv, ClientTypeOK, Kinds, Topics
<1>1. CASE OnOpened
  <2>1. TakeEvent({"OPEN"}) /\ UNCHANGED <<g_mqtt_ctx, subs, foreign, unsubbed, late, report>>
    BY <1>1 DEF OnOpened
  <2>2. /\ due' = due \/ due' = [due EXCEPT !["CONNECT"] = @ + 1]
        /\ state' \in {state, "MQTT_CONNECTING"}
    BY <1>1 DEF OnOpened, unir_mqtt_demo_connect
  <2>3. ret' \in BOOLEAN
    BY <1>1, Zenon DEF OnOpened, unir_mqtt_demo_connect
  <2>4. due' \in [Kinds -> Nat] /\ due'["OPEN"] = due["OPEN"]
    <3>1. "CONNECT" \in Kinds /\ "OPEN" \in Kinds /\ due["CONNECT"] + 1 \in Nat
      BY <1>0 DEF Kinds
    <3>2. CASE due' = due
      BY <1>0, <3>2
    <3>3. CASE due' = [due EXCEPT !["CONNECT"] = @ + 1]
      BY <1>0, <3>1, <3>3
    <3> QED
      BY <2>2, <3>2, <3>3
  <2> QED
    BY <1>0, <2>1, <2>2, <2>3, <2>4, HandlerKeepsInv
<1>2. CASE OnConnect \/ OnSuback
  <2>1. PICK ids \in {{"CONNECT"}, {"SUBACK"}} :
           /\ TakeEvent(ids) /\ ret' = TRUE
           /\ UNCHANGED <<g_mqtt_ctx, state, subs, foreign, unsubbed, late, report>>
    BY <1>2 DEF OnConnect, OnSuback
  <2>2. due' = due \/ Request({"SUBSCRIBE", "SUBACK"}) \/ Request({"PUBLISH", "ECHO"})
    BY <1>2 DEF OnConnect, OnSuback, unir_mqtt_demo_subscribe, unir_mqtt_demo_publish
  <2>3. due' \in [Kinds -> Nat] /\ due'["OPEN"] = due["OPEN"]
    BY <1>0, <2>2, Requested
  <2> QED
    BY <1>0, <2>1, <2>3, HandlerKeepsInv
<1>3. CASE OnUnsuback
  <2>1. /\ TakeEvent({"UNSUBACK"}) /\ ret' = TRUE
        /\ UNCHANGED <<g_mqtt_ctx, subs, foreign, unsubbed, late, report>>
    BY <1>3 DEF OnUnsuback
  <2>2. /\ due' = due \/ due' = [due EXCEPT !["DISCONNECT"] = @ + 1]
        /\ state' \in {state, "MQTT_DISCONNECTING"}
    BY <1>3 DEF OnUnsuback, unir_mqtt_demo_disconnect
  <2>3. due' \in [Kinds -> Nat] /\ due'["OPEN"] = due["OPEN"]
    <3>1. "DISCONNECT" \in Kinds /\ "OPEN" \in Kinds /\ due["DISCONNECT"] + 1 \in Nat
      BY <1>0 DEF Kinds
    <3>2. CASE due' = due
      BY <1>0, <3>2
    <3>3. CASE due' = [due EXCEPT !["DISCONNECT"] = @ + 1]
      BY <1>0, <3>1, <3>3
    <3> QED
      BY <2>2, <3>2, <3>3
  <2> QED
    BY <1>0, <2>1, <2>2, <2>3, HandlerKeepsInv
<1>4. CASE OnOther
  <2>1. /\ UNCHANGED <<g_mqtt_ctx, state, due, subs, foreign, unsubbed, late, report>>
        /\ ret' = TRUE
        /\ TakeEvent({"PUBLISH", "SUBSCRIBE", "UNSUBSCRIBE", "STATE", "DISCONNECT", "CLOSE"})
    BY <1>4 DEF OnOther, libVars
  <2> QED
    BY <1>0, <2>1, HandlerKeepsInv
<1>5. CASE unir_mqtt_demo_recv_new_message
  <2>1. TakeEvent({"NEW_MESSAGE"}) /\ UNCHANGED <<g_mqtt_ctx, ret, state, subs, foreign, late, report>>
    BY <1>5 DEF unir_mqtt_demo_recv_new_message
  <2>2. /\ due' = due \/ Request({"UNSUBSCRIBE", "UNSUBACK"})
        /\ unsubbed' = unsubbed \/ unsubbed' = unsubbed \cup {"TOPIC1"}
    BY <1>5 DEF unir_mqtt_demo_recv_new_message, unir_mqtt_demo_unsubscribe
  <2>3. due' \in [Kinds -> Nat] /\ due'["OPEN"] = due["OPEN"]
    BY <1>0, <2>2, Requested
  <2>4. unsubbed' \in SUBSET Topics
    BY <1>0, <2>2
  <2> QED
    BY <1>0, <2>1, <2>3, <2>4, HandlerKeepsInv
<1> QED
  BY <1>1, <1>2, <1>3, <1>4, <1>5 DEF unir_mqtt_demo_event_handle

\* The opening, and the end of the task.
LEMMA OpenAndFreeStep ==
    ASSUME NEW S, msgq \in Seq(S), ClientInv, UNCHANGED env,
           unir_mqtt_demo_open \/ CheckState \/ unir_mqtt_demo_ctx_free
    PROVE  /\ ClientInv' /\ msgq' \in Seq(S)
           /\ pc' \in {"wait", "free", "exited", "crashed"}
<1> USE DEF ClientInv
<1>0. /\ "OPEN" \in Kinds /\ "CLOSE" \in Kinds /\ due["OPEN"] \in Nat
      /\ {"CLOSE"} \in SUBSET (Kinds \ {"OPEN"}) /\ ClientTypeOK
  BY DEF Kinds, ClientTypeOK
<1>1. CASE unir_mqtt_demo_open
  <2>1. /\ pc = "start" /\ UNCHANGED <<ret, msgq, subs, foreign, unsubbed, late, report>>
        /\ msgq = <<>> /\ due["OPEN"] = 0 /\ due["CLOSE"] = 0 /\ state = "INIT"
    BY <1>0, <1>1 DEF unir_mqtt_demo_open, LeavesClosed
  <2>2. \/ /\ g_mqtt_ctx' = "live" /\ state' = "TCP_OPENING" /\ pc' = "wait"
           /\ due' = [due EXCEPT !["OPEN"] = @ + 1]
        \/ /\ g_mqtt_ctx' \in {"null", "live"} /\ pc' = "free" /\ UNCHANGED <<state, due>>
    BY <1>1 DEF unir_mqtt_demo_open
  <2>3. due' \in [Kinds -> Nat] /\ due'["CLOSE"] = 0 /\ due'["OPEN"] \in {0, 1}
        /\ (pc' = "free" => due'["OPEN"] = 0)
    <3>1. due \in [Kinds -> Nat] /\ due["OPEN"] + 1 = 1 /\ 1 \in Nat
      BY <2>1 DEF ClientTypeOK
    <3> QED
      BY <1>0, <2>1, <2>2, <3>1
  <2>4. ClientTypeOK'
    BY BoundsKept, <2>1, <2>2, <2>3, Zenon DEF ClientTypeOK
  <2>5. OpenAlone' /\ LeavesClosed'
    BY <2>1, <2>2, <2>3 DEF OpenAlone, LeavesClosed
  <2> QED
    BY <2>1, <2>2, <2>4, <2>5
<1>2. CASE CheckState
  <2>1. /\ pc = "check" /\ pc' \in {"free", "wait"}
        /\ pc' = "wait" => ret
        /\ pc' = "free" /\ ret => state \in {"TCP_CLOSED", "INIT"}
        /\ UNCHANGED <<g_mqtt_ctx, ret, msgq, state, subs, foreign, unsubbed, late, report>>
    BY <1>2 DEF CheckState, Ended
  <2>2. due["OPEN"] = 0
    BY <1>0, <2>1 DEF OpenAlone
  <2>3. due' \in [Kinds -> Nat] /\ due'["OPEN"] = 0
    <3>1. due' = due \/ Request({"CLOSE"})
      BY <1>2 DEF CheckState
    <3> QED
      BY <1>0, <2>2, <3>1, Requested DEF ClientTypeOK
  <2>4. ClientTypeOK'
    BY BoundsKept, <2>1, <2>3, Zenon DEF ClientTypeOK
  <2>5. OpenAlone' /\ LeavesClosed'
    BY <2>1, <2>3 DEF OpenAlone, LeavesClosed
  <2> QED
    BY <2>1, <2>2, <2>4, <2>5
<1>3. CASE unir_mqtt_demo_ctx_free
  <2>1. /\ pc = "free" /\ pc' \in {"exited", "crashed"}
        /\ g_mqtt_ctx' \in {"null", "freed"} /\ (g_mqtt_ctx' = "freed" => pc' = "exited")
        /\ msgq' = <<>> /\ UNCHANGED <<ret, state, due, subs, foreign, unsubbed, late, report>>
    BY <1>3 DEF unir_mqtt_demo_ctx_free, libVars
  <2>2. msgq' \in Seq(S) /\ Len(msgq') <= MqttMaxCnt
    BY <2>1, Bounds
  <2>3. ClientTypeOK'
    BY BoundsKept, <2>1, <2>2, Zenon DEF ClientTypeOK
  <2>4. OpenAlone' /\ LeavesClosed'
    BY <1>0, <2>1 DEF OpenAlone, LeavesClosed
  <2> QED
    BY <2>1, <2>2, <2>3, <2>4
<1> QED
  BY <1>1, <1>2, <1>3

-----------------------------------------------------------------------------
(* The MQTT client.                                                        *)

\* The MQTT client starts within its invariant.
LEMMA MqttStart == Init => MqttInv
<1> SUFFICES ASSUME Init PROVE MqttInv
  OBVIOUS
<1>1. due \in [Kinds -> Nat] /\ \A k \in Kinds : due[k] = 0
  BY DEF Init
<1>2. msgq \in Seq(Msgs) /\ Len(msgq) = 0
  BY DEF Init
<1>3. foreign \in 0 .. MaxForeign /\ Len(msgq) <= MqttMaxCnt
  <2>1. MqttMaxCnt \in Nat /\ MaxForeign \in Nat
    BY MqttAssumption DEF Init, Envs, MqttMaxCnt, MaxForeign
  <2> QED
    BY <1>2, <2>1 DEF Init
<1>4. TypeOK
  BY <1>1, <1>2, <1>3, Zenon DEF Init, TypeOK, ClientTypeOK
<1>5. OpenAlone
  BY <1>1 DEF OpenAlone, Kinds
<1>6. LeavesClosed
  BY <1>1 DEF Init, LeavesClosed
<1> QED
  BY <1>4, <1>5, <1>6 DEF MqttInv, ClientInv, TypeOK

\* Every step of task and library keeps the invariant.
LEMMA MqttStep == MqttInv /\ [Next]_vars => MqttInv'
<1> SUFFICES ASSUME MqttInv, [Next]_vars PROVE MqttInv'
  OBVIOUS
<1>0. ClientInv /\ msgq \in Seq(Msgs) /\ Msgs \subseteq Msgs
  BY DEF MqttInv, TypeOK
<1>1. CASE UNCHANGED vars
  BY <1>1, BoundsKept DEF MqttInv, TypeOK, ClientInv, ClientTypeOK, OpenAlone, LeavesClosed,
     vars, task, libVars
<1>2. CASE Library /\ UNCHANGED env
  <2>1. ClientInv' /\ msgq' \in Seq(Msgs)
    BY <1>0, <1>2, LibraryStep
  <2>2. pc' = pc
    BY <1>2 DEF Library, LibOpen, LibConnect, LibSent, LibSuback, LibUnsuback, LibEcho, LibForeign,
       LibState, LibDisconnect, LibClose, LibReport, task
  <2> QED
    BY <2>1, <2>2 DEF MqttInv, TypeOK, ClientInv
<1>3. CASE unir_mqtt_demo_task /\ UNCHANGED env
  <2>1. /\ ClientInv' /\ msgq' \in Seq(Msgs)
        /\ pc' \in {"check", "wait", "free", "exited", "crashed"}
    <3>1. CASE unir_mqtt_demo_event_handle \/ unir_mqtt_demo_recv_new_message
      BY <1>0, <1>3, <3>1, EventHandleStep
    <3>2. CASE unir_mqtt_demo_open \/ CheckState \/ unir_mqtt_demo_ctx_free
      BY <1>0, <1>3, <3>2, OpenAndFreeStep
    <3> QED
      BY <1>3, <3>1, <3>2 DEF unir_mqtt_demo_task
  <2> QED
    BY <2>1 DEF MqttInv, TypeOK, ClientInv
<1> QED
  BY <1>1, <1>2, <1>3 DEF Next

\* MqttInv holds whatever mqtt_demo.c's task meets: lost events, refused requests and a
\* broker that closes at any time.
THEOREM MqttInvariant == Spec => []MqttInv
BY MqttStart, MqttStep, PTL DEF Spec

\* On a context freed without a failure only the report that is under way can end.
LEMMA AfterFree ==
    ASSUME ClientInv, g_mqtt_ctx = "freed", ret,
           unir_mqtt_demo_task \/ Library \/ UNCHANGED vars
    PROVE  report' \subseteq report /\ (late' => late \/ report # {})
<1>1. pc = "exited" /\ state \in {"INIT", "TCP_CLOSED"} /\ due["OPEN"] = 0
  BY DEF ClientInv, LeavesClosed
<1>2. ~unir_mqtt_demo_task
  BY <1>1 DEF unir_mqtt_demo_task, unir_mqtt_demo_open, unir_mqtt_demo_event_handle, OnOpened,
     OnConnect, OnSuback, OnUnsuback, OnOther, unir_mqtt_demo_recv_new_message, TakeEvent,
     CheckState, unir_mqtt_demo_ctx_free
<1>3. Library => LibReport
  <2>1. ~LibOpen
    BY <1>1 DEF LibOpen, Settle
  <2>2. ~LibConnect /\ ~LibState /\ ~LibDisconnect /\ ~LibClose
    BY <1>1 DEF LibConnect, LibState, LibDisconnect, LibClose
  <2>3. ~LibSent /\ ~LibSuback /\ ~LibUnsuback /\ ~LibEcho /\ ~LibForeign
    BY <1>1 DEF LibSent, LibSuback, LibUnsuback, LibEcho, LibForeign, Online
  <2> QED
    BY <2>1, <2>2, <2>3 DEF Library
<1>4. CASE LibReport
  BY <1>4 DEF LibReport
<1>5. CASE UNCHANGED vars
  BY <1>5 DEF vars, libVars
<1> QED
  BY <1>2, <1>3, <1>4, <1>5

\* For every capacity of the queue and whatever the library refuses or the broker
\* does: when the task of mqtt_demo.c frees its context without a failed handler, the
\* library has begun its last report.
THEOREM MqttNoReportAfterFree == Spec => NoReportAfterFree
<1>1. MqttInv /\ [Next]_vars =>
          [g_mqtt_ctx = "freed" /\ ret =>
               report' \subseteq report /\ (late' => late \/ report # {})]_vars
  BY AfterFree DEF MqttInv, Next
<1> QED
  BY <1>1, MqttInvariant, PTL DEF Spec, NoReportAfterFree

-----------------------------------------------------------------------------
(* The client that both have in common is never stranded.                  *)

\* In its loop the task has a context, through which events come.
LoopHasContext == pc \in {"wait", "check", "read"} => g_mqtt_ctx = "live"

Awake == LoopHasContext /\ NeverStranded

\* With a context, the queue has an event after each report: the reported one, or those
\* that kept it out.
LEMMA PostedEvent ==
    ASSUME NEW S, ClientInv, msgq \in Seq(S), NEW m \in S, unir_mqtt_demo_event_cb(m),
           g_mqtt_ctx = "live", MqttMaxCnt > 0
    PROVE  msgq' # <<>>
<1>1. Len(msgq) \in Nat /\ MqttMaxCnt \in Nat /\ Len(msgq) <= MqttMaxCnt
  BY LenProperties, Bounds DEF ClientInv, ClientTypeOK
<1>2. CASE Len(msgq) < MqttMaxCnt
  <2>1. msgq' = Append(msgq, m)
    BY <1>2 DEF unir_mqtt_demo_event_cb
  <2> QED
    BY <2>1, AppendProperties
<1>3. CASE Len(msgq) = MqttMaxCnt
  <2>1. msgq' = msgq /\ Len(msgq) # 0
    BY <1>1, <1>3 DEF unir_mqtt_demo_event_cb
  <2> QED
    BY <2>1
<1> QED
  BY <1>1, <1>2, <1>3

\* A report keeps the task awake, whatever it says of the connection.
LEMMA ReportAwake ==
    ASSUME NEW S, ClientInv, msgq \in Seq(S), NEW m \in S, unir_mqtt_demo_event_cb(m),
           Awake, UNCHANGED <<env, task>>
    PROVE  Awake'
<1>1. LoopHasContext'
  BY DEF Awake, LoopHasContext, task
<1>2. ASSUME MqttMaxCnt' > 0, pc' = "wait" PROVE msgq' # <<>>
  <2>1. g_mqtt_ctx = "live" /\ MqttMaxCnt > 0
    BY <1>2, BoundsKept DEF Awake, LoopHasContext, task
  <2> QED
    BY <2>1, PostedEvent
<1> QED
  BY <1>1, <1>2 DEF Awake, NeverStranded

\* A step that takes neither events nor the close that is due keeps it awake.
LEMMA QuietAwake ==
    ASSUME Awake, UNCHANGED <<env, task, state, report>>, due'["CLOSE"] = due["CLOSE"],
           msgq' = msgq
    PROVE  Awake'
BY BoundsKept DEF Awake, LoopHasContext, NeverStranded, task, AcksFail

\* Every report of the library comes with an event, but for messages the client did not
\* subscribe to.
LEMMA LibraryAwake ==
    ASSUME NEW S, Msgs \subseteq S, ClientInv, msgq \in Seq(S), Awake, Library, UNCHANGED env
    PROVE  Awake'
<1>0. /\ Results \subseteq BOOLEAN
      /\ {"OPEN", "CONNECT", "PUBLISH", "SUBSCRIBE", "SUBACK", "UNSUBSCRIBE",
          "UNSUBACK", "DISCONNECT", "CLOSE"} \subseteq Kinds \ {"ECHO"}
  BY DEF Results, Kinds
<1>1. UNCHANGED task
  BY DEF Library, LibOpen, LibConnect, LibSent, LibSuback, LibUnsuback, LibEcho, LibForeign,
     LibState, LibDisconnect, LibClose, LibReport
<1>2. CASE LibOpen \/ LibSent \/ LibSuback \/ LibUnsuback
  <2>1. PICK k \in Kinds \ {"ECHO"}, ok \in BOOLEAN : unir_mqtt_demo_event_cb(Event(k, ok))
    BY <1>0, <1>2 DEF LibOpen, LibSent, LibSuback, LibUnsuback, Tell
  <2>2. Event(k, ok) \in S
    <3>1. Event(k, ok) \in Msgs
      BY DEF Msgs
    <3> QED
      BY <3>1
  <2> QED
    BY <1>1, <2>1, <2>2, ReportAwake
<1>3. CASE LibForeign
  <2>1. PICK t \in Topics : unir_mqtt_demo_event_cb(NewMessage(t))
    BY <1>3 DEF LibForeign, ClientInv, ClientTypeOK, Tell
  <2>2. NewMessage(t) \in S
    <3>1. NewMessage(t) \in Msgs
      BY DEF Msgs
    <3> QED
      BY <3>1
  <2> QED
    BY <1>1, <2>1, <2>2, ReportAwake
<1>4. CASE LibEcho
  <2>1. CASE unir_mqtt_demo_event_cb(NewMessage("TOPIC1"))
    <3>1. NewMessage("TOPIC1") \in S
      <4>1. NewMessage("TOPIC1") \in Msgs
        BY DEF Msgs, Topics
      <4> QED
        BY <4>1
    <3> QED
      BY <1>1, <2>1, <3>1, ReportAwake
  <2>2. CASE UNCHANGED <<msgq, late, report>>
    <3>1. due'["CLOSE"] = due["CLOSE"]
      <4>1. "ECHO" \in Kinds /\ "CLOSE" \in Kinds \ {"ECHO"}
        BY DEF Kinds
      <4> QED
        BY <1>4, <4>1, Settled DEF LibEcho, ClientInv
    <3> QED
      BY <1>1, <1>4, <2>2, <3>1, QuietAwake DEF LibEcho
  <2> QED
    BY <1>4, <2>1, <2>2 DEF LibEcho, Tell
<1>5. CASE LibConnect \/ LibState \/ LibDisconnect \/ LibClose
  <2>1. report' # {}
    BY <1>5 DEF LibConnect, LibState, LibDisconnect, LibClose, Changed
  <2> QED
    BY <1>1, <2>1 DEF Awake, LoopHasContext, NeverStranded, task
<1>6. CASE LibReport
  <2>1. PICK m \in report : unir_mqtt_demo_event_cb(m)
    BY <1>6 DEF LibReport
  <2>2. m \in S
    BY DEF ClientInv, ClientTypeOK
  <2> QED
    BY <1>1, <2>1, <2>2, ReportAwake
<1> QED
  BY <1>2, <1>3, <1>4, <1>5, <1>6 DEF Library

\* A step of the task inside its loop after which it does not wait.
LEMMA BusyAwake ==
    ASSUME Awake, pc \in {"wait", "check", "read"}, pc' \in {"check", "read", "crashed"},
           UNCHANGED g_mqtt_ctx
    PROVE  Awake'
BY DEF Awake, LoopHasContext, NeverStranded

\* The task waits again only after it has looked at the connection: a closed one ends
\* it, and of one that is going down it requests the end.
LEMMA LoopAwake ==
    ASSUME ClientInv, Awake, UNCHANGED env,
           unir_mqtt_demo_open \/ CheckState \/ unir_mqtt_demo_ctx_free
    PROVE  Awake'
<1>1. CASE unir_mqtt_demo_open
  BY <1>1 DEF unir_mqtt_demo_open, Awake, LoopHasContext, NeverStranded
<1>2. CASE CheckState
  <2>1. pc = "check" /\ pc' \in {"free", "wait"} /\ UNCHANGED <<g_mqtt_ctx, state>>
        /\ (pc' = "wait" => state # "TCP_CLOSED")
    BY <1>2 DEF CheckState, Ended
  <2>2. ASSUME state = "TCP_CLOSING", ~AcksFail PROVE due'["CLOSE"] > 0
    <3>1. "CLOSE" \in Kinds /\ due["CLOSE"] \in Nat
      BY DEF ClientInv, ClientTypeOK, Kinds
    <3>2. due' = [k \in Kinds |-> due[k] + (IF k \in {"CLOSE"} THEN 1 ELSE 0)]
      BY <1>2, <2>2 DEF CheckState, Request
    <3>3. due'["CLOSE"] = due["CLOSE"] + 1
      BY <3>1, <3>2
    <3> QED
      BY <3>1, <3>3
  <2>3. AcksFail' = AcksFail
    BY DEF AcksFail
  <2> QED
    BY <2>1, <2>2, <2>3 DEF Awake, LoopHasContext, NeverStranded
<1>3. CASE unir_mqtt_demo_ctx_free
  BY <1>3 DEF unir_mqtt_demo_ctx_free, Awake, LoopHasContext, NeverStranded
<1> QED
  BY <1>1, <1>2, <1>3

\* However many events the queue loses, the task of mqtt_demo.c does not wait for ever
\* on a connection that is down, unless the library refuses to close it.
THEOREM MqttNeverStranded == Spec => []NeverStranded
<1>1. Init => Awake
  BY DEF Init, Awake, LoopHasContext, NeverStranded
<1>2. MqttInv /\ Awake /\ [Next]_vars => Awake'
  <2> SUFFICES ASSUME MqttInv, Awake, [Next]_vars PROVE Awake'
    OBVIOUS
  <2>0. ClientInv /\ msgq \in Seq(Msgs)
    BY DEF MqttInv, TypeOK
  <2>1. CASE UNCHANGED vars
    BY <2>1, QuietAwake DEF vars, libVars
  <2>2. CASE Library /\ UNCHANGED env
    BY <2>0, <2>2, LibraryAwake
  <2>3. CASE unir_mqtt_demo_event_handle \/ unir_mqtt_demo_recv_new_message
    BY <2>3, BusyAwake
    DEF unir_mqtt_demo_event_handle, OnOpened, OnConnect, OnSuback, OnUnsuback, OnOther,
        unir_mqtt_demo_recv_new_message, TakeEvent
  <2>4. CASE (unir_mqtt_demo_open \/ CheckState \/ unir_mqtt_demo_ctx_free) /\ UNCHANGED env
    BY <2>0, <2>4, LoopAwake
  <2> QED
    BY <2>1, <2>2, <2>3, <2>4 DEF Next, unir_mqtt_demo_task
<1>3. Awake => NeverStranded
  BY DEF Awake
<1> QED
  BY <1>1, <1>2, <1>3, MqttInvariant, PTL DEF Spec

-----------------------------------------------------------------------------
(* The MQTT 5 client: it publishes once.                                   *)

\* The number of publications under way is a number.
LEMMA PublicationsNat ==
    ASSUME due \in [Kinds -> Nat], stored \in Nat, foreign \in Nat, foreign <= stored
    PROVE  Publications \in Nat
<1>1. {"OPEN", "CONNECT", "SUBACK", "ECHO"} \subseteq Kinds
  BY DEF Kinds
<1>2. /\ due["OPEN"] \in Nat /\ due["CONNECT"] \in Nat
      /\ due["SUBACK"] \in Nat /\ due["ECHO"] \in Nat
  BY <1>1
<1> QED
  BY <1>2 DEF Publications

\* The same of the next state.
LEMMA PublicationsNatNext ==
    ASSUME due' \in [Kinds -> Nat], stored' \in Nat, foreign' \in Nat, foreign' <= stored'
    PROVE  Publications' \in Nat
<1>1. {"OPEN", "CONNECT", "SUBACK", "ECHO"} \subseteq Kinds
  BY DEF Kinds
<1>2. /\ due'["OPEN"] \in Nat /\ due'["CONNECT"] \in Nat
      /\ due'["SUBACK"] \in Nat /\ due'["ECHO"] \in Nat
  BY <1>1
<1> QED
  BY <1>2 DEF Publications

\* The step adds no event on the way to the publication to the queue, and takes at
\* most one event from its front: d is their number.
QuietQueue(d) ==
    \A j \in 1 .. Len(msgq') : msgq'[j].id \in StepEvents =>
        j + d \in 1 .. Len(msgq) /\ msgq[j + d].id \in StepEvents

\* A step that takes nothing forward.
LEMMA QuietStep ==
    ASSUME PublishesOnce, Publications \in Nat, Publications' \in Nat,
           Publications' <= Publications, Len(msgq') \in Nat,
           foreign' <= stored', pc' = "start" => stored' = foreign',
           NEW d \in {0, 1}, QuietQueue(d),
           \A m \in report' : m.id \in StepEvents => m \in report
    PROVE  PublishesOnce'
<1>1. Publications' <= 1
  BY DEF PublishesOnce
<1>2. ASSUME NEW j \in 1 .. Len(msgq'), msgq'[j].id \in StepEvents
      PROVE  /\ Publications' = 0
             /\ \A k \in 1 .. Len(msgq') : msgq'[k].id \in StepEvents => j = k
  <2>1. j + d \in 1 .. Len(msgq) /\ msgq[j + d].id \in StepEvents
    BY <1>2 DEF QuietQueue
  <2>2. Publications = 0
    BY <2>1 DEF PublishesOnce
  <2>3. ASSUME NEW k \in 1 .. Len(msgq'), msgq'[k].id \in StepEvents
        PROVE  j = k
    <3>1. k + d \in 1 .. Len(msgq) /\ msgq[k + d].id \in StepEvents
      BY <2>3 DEF QuietQueue
    <3>2. j + d = k + d
      BY <2>1, <3>1 DEF PublishesOnce
    <3> QED
      BY <3>2
  <2> QED
    BY <2>2, <2>3
<1>3. ASSUME NEW m \in report', m.id \in StepEvents
      PROVE  Publications' = 0 /\ \A k \in 1 .. Len(msgq') : msgq'[k].id \notin StepEvents
  <2>1. Publications = 0 /\ \A k \in 1 .. Len(msgq) : msgq[k].id \notin StepEvents
    BY <1>3 DEF PublishesOnce
  <2> QED
    BY <2>1 DEF QuietQueue
<1> QED
  BY <1>1, <1>2, <1>3 DEF PublishesOnce, StepEvents

\* A response on the way to the publication becomes an event, now or by a report, or
\* is lost.
LEMMA ResponseStep ==
    ASSUME NEW S, msgq \in Seq(S), NEW m \in S,
           PublishesOnce, Publications \in Nat, Publications' \in Nat,
           Publications' < Publications, foreign' <= stored',
           pc' = "start" => stored' = foreign',
           \/ report' = {} /\ msgq' \in {msgq, Append(msgq, m)}
           \/ report' = {m} /\ msgq' = msgq
    PROVE  PublishesOnce'
<1>1. Publications' = 0 /\ \A j \in 1 .. Len(msgq) : msgq[j].id \notin StepEvents
  BY DEF PublishesOnce
<1>2. CASE msgq' = msgq
  BY <1>1, <1>2 DEF PublishesOnce, StepEvents
<1>3. CASE msgq' = Append(msgq, m)
  <2>1. /\ Len(msgq) \in Nat /\ Len(msgq') = Len(msgq) + 1
        /\ \A j \in 1 .. Len(msgq) : msgq'[j] = msgq[j]
    BY <1>3, AppendProperties
  <2>2. \A j \in 1 .. Len(msgq') : msgq'[j].id \in StepEvents => j = Len(msgq')
    BY <1>1, <2>1
  <2> QED
    BY <1>1, <1>3, <2>1, <2>2 DEF PublishesOnce, StepEvents
<1> QED
  BY <1>2, <1>3

\* The report of such a response: the queue had none of these events.
LEMMA ReportStep ==
    ASSUME NEW S, msgq \in Seq(S), NEW m \in S, m \in report,
           PublishesOnce, Publications' = Publications, foreign' <= stored',
           pc' = "start" => stored' = foreign', report' = {},
           msgq' \in {msgq, Append(msgq, m)}
    PROVE  PublishesOnce'
<1>1. CASE msgq' = msgq
  BY <1>1 DEF PublishesOnce, StepEvents
<1>2. CASE msgq' = Append(msgq, m)
  <2>1. /\ Len(msgq) \in Nat /\ Len(msgq') = Len(msgq) + 1 /\ msgq'[Len(msgq) + 1] = m
        /\ \A j \in 1 .. Len(msgq) : msgq'[j] = msgq[j]
    BY <1>2, AppendProperties
  <2>2. CASE m.id \in StepEvents
    <3>1. Publications = 0 /\ \A j \in 1 .. Len(msgq) : msgq[j].id \notin StepEvents
      BY <2>2 DEF PublishesOnce
    <3>2. \A j \in 1 .. Len(msgq') : msgq'[j].id \in StepEvents => j = Len(msgq')
      BY <2>1, <3>1
    <3> QED
      BY <3>1, <3>2 DEF PublishesOnce, StepEvents
  <2>3. CASE m.id \notin StepEvents
    <3>1. \A j \in 1 .. Len(msgq') : msgq'[j].id \in StepEvents =>
             j \in 1 .. Len(msgq) /\ msgq'[j] = msgq[j]
      BY <2>1, <2>3
    <3> QED
      BY <3>1 DEF PublishesOnce, StepEvents
  <2> QED
    BY <2>2, <2>3
<1> QED
  BY <1>1, <1>2

\* An event on the way to the publication leads to one more request.
LEMMA RequestStep ==
    ASSUME NEW S, msgq \in Seq(S), msgq # <<>>, Head(msgq).id \in StepEvents,
           msgq' = Tail(msgq),
           PublishesOnce, Publications \in Nat, Publications' \in Nat,
           Publications' <= Publications + 1, foreign' <= stored', pc' # "start",
           UNCHANGED report
    PROVE  PublishesOnce'
<1>1. /\ Len(msgq) \in Nat \ {0} /\ Len(msgq') = Len(msgq) - 1 /\ Head(msgq) = msgq[1]
      /\ \A k \in 1 .. Len(msgq') : msgq'[k] = msgq[k + 1]
  BY EmptySeq, HeadTailProperties
<1>2. /\ Publications = 0
      /\ \A k \in 1 .. Len(msgq) : msgq[k].id \in StepEvents => k = 1
      /\ \A m \in report : m.id \notin StepEvents
  BY <1>1 DEF PublishesOnce
<1>3. \A k \in 1 .. Len(msgq') : msgq'[k].id \notin StepEvents
  BY <1>1, <1>2
<1> QED
  BY <1>2, <1>3 DEF PublishesOnce, StepEvents

\* An event that leads to no step of the publication may be added.
LEMMA QuietAppend ==
    ASSUME NEW S, msgq \in Seq(S), NEW m \in S, m.id \notin StepEvents,
           msgq' \in {msgq, Append(msgq, m)}
    PROVE  QuietQueue(0) /\ Len(msgq') \in Nat
<1>1. CASE msgq' = msgq
  BY <1>1 DEF QuietQueue
<1>2. CASE msgq' = Append(msgq, m)
  <2>1. /\ Len(msgq) \in Nat /\ Len(msgq') = Len(msgq) + 1
        /\ \A j \in 1 .. Len(msgq) : msgq'[j] = msgq[j]
        /\ msgq'[Len(msgq) + 1] = m
    BY <1>2, AppendProperties
  <2> QED
    BY <2>1 DEF QuietQueue
<1> QED
  BY <1>1, <1>2

\* An event may be taken.
LEMMA QuietTail ==
    ASSUME NEW S, msgq \in Seq(S), msgq # <<>>, msgq' = Tail(msgq)
    PROVE  QuietQueue(1) /\ Len(msgq') \in Nat
<1>1. /\ Len(msgq) \in Nat \ {0} /\ Len(msgq') = Len(msgq) - 1
      /\ \A k \in 1 .. Len(msgq') : msgq'[k] = msgq[k + 1]
  BY EmptySeq, HeadTailProperties
<1> QED
  BY <1>1 DEF QuietQueue

\* What the invariant says of the numbers.
LEMMA FiveFacts ==
    ASSUME FiveInv
    PROVE  /\ ClientInv /\ ClientTypeOK /\ PublishesOnce
           /\ msgq \in Seq(FiveMsgs) /\ due \in [Kinds -> Nat]
           /\ stored \in Nat /\ foreign \in Nat /\ MaxForeign \in Nat
           /\ foreign <= stored /\ Publications \in Nat
           /\ Msgs \subseteq FiveMsgs /\ CacheEvent \in FiveMsgs
           /\ {"OPEN", "CONNECT", "PUBLISH", "SUBSCRIBE", "SUBACK", "UNSUBSCRIBE",
               "UNSUBACK", "DISCONNECT", "CLOSE", "ECHO"} \subseteq Kinds
           /\ pc = "start" => stored = foreign
<1>1. /\ ClientInv /\ ClientTypeOK /\ PublishesOnce /\ msgq \in Seq(FiveMsgs)
      /\ due \in [Kinds -> Nat] /\ Msgs \subseteq FiveMsgs /\ CacheEvent \in FiveMsgs
      /\ pc = "start" => stored = foreign
      /\ {"OPEN", "CONNECT", "PUBLISH", "SUBSCRIBE", "SUBACK", "UNSUBSCRIBE",
          "UNSUBACK", "DISCONNECT", "CLOSE", "ECHO"} \subseteq Kinds
  BY DEF FiveInv, FiveTypeOK, ClientTypeOK, PublishesOnce, FiveMsgs, Kinds
<1>2. MaxForeign \in Nat
  BY <1>1, Bounds
<1>3. stored \in Nat /\ foreign \in Nat /\ foreign <= stored
  BY <1>1, <1>2 DEF FiveInv, FiveTypeOK, ClientTypeOK, PublishesOnce
<1> QED
  BY <1>1, <1>2, <1>3, PublicationsNat

\* The messages of the queue depend on nothing that changes.
LEMMA FiveMsgsKept ==
    ASSUME UNCHANGED env
    PROVE  FiveMsgs' = FiveMsgs
<1>1. MaxForeign' = MaxForeign
  BY BoundsKept
<1> QED
  BY <1>1 DEF FiveMsgs

\* How the bound follows, in numbers.
LEMMA AtMostOneMore ==
    ASSUME NEW a \in Nat, NEW b \in Nat, NEW c \in Nat, NEW d \in Nat, NEW s \in Nat,
           NEW f \in Nat, NEW m \in Nat, f <= m, a + b + c + d + (s - f) <= 1
    PROVE  s \in 0 .. m + 1
OBVIOUS

\* That at most one message is the client's own bounds the messages that are stored.
LEMMA StoredBound ==
    ASSUME ClientTypeOK', PublishesOnce', stored' \in Nat
    PROVE  stored' \in 0 .. MaxForeign' + 1
<1>1. /\ due' \in [Kinds -> Nat] /\ foreign' \in 0 .. MaxForeign'
      /\ {"OPEN", "CONNECT", "SUBACK", "ECHO"} \subseteq Kinds
  BY DEF ClientTypeOK, Kinds
<1>2. /\ due'["OPEN"] \in Nat /\ due'["CONNECT"] \in Nat
      /\ due'["SUBACK"] \in Nat /\ due'["ECHO"] \in Nat
  BY <1>1
<1>3. env' \in Envs
  BY DEF ClientTypeOK
<1>4. MaxForeign' \in Nat
  BY <1>3, MqttAssumption DEF Envs, MaxForeign
<1>5. Publications' <= 1
  BY DEF PublishesOnce
<1>6. foreign' \in Nat /\ foreign' <= MaxForeign' /\ stored' \in Nat
  BY <1>1, <1>4
<1>7. due'["OPEN"] + due'["CONNECT"] + due'["SUBACK"] + due'["ECHO"] + (stored' - foreign') <= 1
  BY <1>5 DEF Publications
<1> QED
  BY <1>2, <1>4, <1>6, <1>7, AtMostOneMore

\* What is left to show of a step.
LEMMA FiveShape ==
    ASSUME UNCHANGED env, ClientInv', msgq' \in Seq(FiveMsgs), PublishesOnce',
           pc' \in {"start", "wait", "read", "check", "free", "exited", "crashed"},
           msg' \in FiveMsgs, stored' \in Nat, refused' \in BOOLEAN,
           store' \subseteq [store_id : 1 .. stored', topic : Topics],
           \A m, n \in store' : m.store_id = n.store_id => m = n
    PROVE  FiveInv'
<1>1. /\ msgq' \in Seq(FiveMsgs') /\ msg' \in FiveMsgs' /\ ClientTypeOK'
      /\ MaxForeign' = MaxForeign
  BY FiveMsgsKept, BoundsKept DEF ClientInv
<1>2. stored' \in 0 .. MaxForeign' + 1
  BY <1>1, StoredBound
<1>3. FiveTypeOK'
  BY <1>1, <1>2, Zenon DEF FiveTypeOK
<1> QED
  BY <1>3 DEF FiveInv

\* A response on the way to the publication that is no longer due.
LEMMA OneResponseFewer ==
    ASSUME due \in [Kinds -> Nat], stored \in Nat, foreign \in Nat,
           NEW k \in {"OPEN", "CONNECT", "SUBACK"}, due'[k] = due[k] - 1,
           \A j \in Kinds \ {k} : due'[j] = due[j], UNCHANGED <<stored, foreign>>
    PROVE  Publications' < Publications
<1>1. {"OPEN", "CONNECT", "SUBACK", "ECHO"} \subseteq Kinds
  BY DEF Kinds
<1>2. /\ due["OPEN"] \in Nat /\ due["CONNECT"] \in Nat
      /\ due["SUBACK"] \in Nat /\ due["ECHO"] \in Nat
  BY <1>1
<1>3. CASE k = "OPEN"
  BY <1>1, <1>2, <1>3 DEF Publications
<1>4. CASE k = "CONNECT"
  BY <1>1, <1>2, <1>4 DEF Publications
<1>5. CASE k = "SUBACK"
  BY <1>1, <1>2, <1>5 DEF Publications
<1> QED
  BY <1>3, <1>4, <1>5

\* The MQTT 5 client starts within its invariant.
LEMMA FiveStart == FiveInit => FiveInv
<1> SUFFICES ASSUME FiveInit PROVE FiveInv
  OBVIOUS
<1>1. MqttInv
  BY MqttStart DEF FiveInit
<1>2. /\ ClientInv /\ ClientTypeOK /\ msgq = <<>> /\ foreign = 0 /\ due \in [Kinds -> Nat]
      /\ \A k \in Kinds : due[k] = 0
      /\ {"OPEN", "CONNECT", "SUBACK", "ECHO"} \subseteq Kinds
  BY <1>1 DEF FiveInit, Init, MqttInv, TypeOK, Kinds
<1>3. Publications = 0
  BY <1>2 DEF FiveInit, Publications
<1>4. PublishesOnce
  BY <1>2, <1>3 DEF FiveInit, PublishesOnce
<1>5. MaxForeign \in Nat
  BY <1>2, Bounds
<1>6. /\ stored \in 0 .. MaxForeign + 1 /\ msgq \in Seq(FiveMsgs) /\ msg \in FiveMsgs
      /\ store = {} /\ pc = "start"
  BY <1>2, <1>5 DEF FiveInit, Init, FiveMsgs
<1>7. FiveTypeOK
  <2>1. refused \in BOOLEAN
    BY DEF FiveInit
  <2> QED
    BY <1>2, <1>6, <2>1 DEF FiveTypeOK
<1> QED
  BY <1>2, <1>4, <1>7 DEF FiveInv

\* The library's reports, messages apart.
LEMMA FiveReport ==
    ASSUME FiveInv, LibOther, UNCHANGED env
    PROVE  FiveInv'
<1>0. /\ ClientInv /\ ClientTypeOK /\ PublishesOnce
      /\ msgq \in Seq(FiveMsgs) /\ due \in [Kinds -> Nat]
      /\ stored \in Nat /\ foreign \in Nat /\ foreign <= stored /\ Publications \in Nat
      /\ Msgs \subseteq FiveMsgs /\ (pc = "start" => stored = foreign)
      /\ Results \subseteq BOOLEAN
  BY FiveFacts DEF Results
<1>k. {"OPEN", "CONNECT", "PUBLISH", "SUBSCRIBE", "SUBACK", "UNSUBSCRIBE",
       "UNSUBACK", "DISCONNECT", "CLOSE", "ECHO"} \subseteq Kinds
  BY FiveFacts
<1>1. ClientInv' /\ msgq' \in Seq(FiveMsgs)
  <2>1. Library
    BY DEF LibOther, Library
  <2> QED
    BY <1>0, <2>1, LibraryStep
<1>2. UNCHANGED <<task, foreign, readVars>>
  BY DEF LibOther, LibOpen, LibConnect, LibSent, LibSuback, LibUnsuback, LibState,
     LibDisconnect, LibClose, LibReport
<1>3. /\ stored' = stored /\ foreign' = foreign /\ pc' = pc
      /\ due' \in [Kinds -> Nat] /\ Publications' \in Nat
  <2>1. stored' = stored /\ foreign' = foreign /\ pc' = pc
    BY <1>2 DEF task, readVars
  <2>2. due' \in [Kinds -> Nat]
    BY <1>1 DEF ClientInv, ClientTypeOK
  <2> QED
    BY <1>0, <2>1, <2>2, PublicationsNatNext
<1>4. PublishesOnce'
  <2>1. CASE LibOpen \/ LibConnect \/ LibSuback
    <3>1. PICK k \in {"OPEN", "CONNECT", "SUBACK"}, ok \in BOOLEAN :
             Settle(k) /\ (Tell(Event(k, ok)) \/ Changed(Event(k, ok)))
      BY <1>0, <2>1 DEF LibOpen, LibConnect, LibSuback
    <3>2. due[k] \in Nat /\ due'[k] = due[k] - 1 /\ \A j \in Kinds \ {k} : due'[j] = due[j]
      BY <1>0, <1>k, <3>1, Settled
    <3>3. Publications' < Publications
      BY <1>0, <1>3, <3>2, OneResponseFewer
    <3>4. /\ Event(k, ok) \in FiveMsgs
          /\ \/ report' = {} /\ msgq' \in {msgq, Append(msgq, Event(k, ok))}
             \/ report' = {Event(k, ok)} /\ msgq' = msgq
      <4>1. Event(k, ok) \in Msgs
        BY <1>k DEF Msgs
      <4> QED
        BY <1>0, <3>1, <4>1 DEF Tell, Changed, unir_mqtt_demo_event_cb
    <3> QED
      BY <1>0, <1>3, <3>3, <3>4, ResponseStep
  <2>2. CASE LibSent \/ LibUnsuback \/ LibDisconnect \/ LibClose \/ LibState
    <3>1. PICK k \in {"SUBSCRIBE", "PUBLISH", "UNSUBSCRIBE", "UNSUBACK", "DISCONNECT",
                      "CLOSE", "STATE"}, ok \in BOOLEAN :
             /\ Settle(k) \/ UNCHANGED due
             /\ Tell(Event(k, ok)) \/ Changed(Event(k, ok))
             /\ k = "STATE" => UNCHANGED due
      BY <1>0, <2>2 DEF LibSent, LibUnsuback, LibDisconnect, LibClose, LibState
    <3>2. Publications' = Publications
      <4>1. \A j \in {"OPEN", "CONNECT", "SUBACK", "ECHO"} : due'[j] = due[j]
        BY <1>0, <1>k, <3>1, Settled
      <4> QED
        BY <1>3, <4>1 DEF Publications
    <3>3. /\ msgq' \in {msgq, Append(msgq, Event(k, ok))} /\ Event(k, ok) \in FiveMsgs
          /\ Event(k, ok).id \notin StepEvents
          /\ report' \subseteq {Event(k, ok)}
      <4>1. Event(k, ok) \in Msgs
        BY <1>k DEF Msgs
      <4>2. Event(k, ok).id \notin StepEvents
        BY DEF Event, StepEvents
      <4> QED
        BY <1>0, <3>1, <4>1, <4>2 DEF Tell, Changed, unir_mqtt_demo_event_cb
    <3>4. QuietQueue(0) /\ Len(msgq') \in Nat
      BY <1>0, <3>3, QuietAppend
    <3> QED
      BY <1>0, <1>3, <3>2, <3>3, <3>4, QuietStep
  <2>3. CASE LibReport
    <3>1. PICK m \in report : unir_mqtt_demo_event_cb(m)
      BY <2>3 DEF LibReport
    <3>2. report' = {} /\ UNCHANGED due
      BY <2>3 DEF LibReport
    <3>3. m \in FiveMsgs /\ msgq' \in {msgq, Append(msgq, m)}
      BY <1>0, <3>1 DEF ClientTypeOK, unir_mqtt_demo_event_cb
    <3>4. Publications' = Publications
      BY <1>3, <3>2 DEF Publications
    <3> QED
      BY <1>0, <1>3, <3>2, <3>3, <3>4, ReportStep
  <2> QED
    BY <2>1, <2>2, <2>3 DEF LibOther
<1> QED
  BY <1>1, <1>2, <1>3, <1>4, FiveShape DEF FiveInv, FiveTypeOK, task, readVars

\* A message that arrives: the queue, and the library's store.
LEMMA MessageStored ==
    ASSUME FiveInv, NEW t \in Topics, Deliver(t), stored <= MaxForeign
    PROVE  /\ msgq' \in Seq(FiveMsgs) /\ Len(msgq') <= MqttMaxCnt
           /\ late' \in BOOLEAN /\ report' = report
           /\ QuietQueue(0) /\ Len(msgq') \in Nat
           /\ stored' = stored + 1
           /\ store' \subseteq [store_id : 1 .. stored', topic : Topics]
           /\ \A m, n \in store' : m.store_id = n.store_id => m = n
<1> DEFINE e == Announcement(stored + 1, t)
<1>0. /\ ClientTypeOK /\ msgq \in Seq(FiveMsgs) /\ stored \in Nat /\ MaxForeign \in Nat
      /\ store \subseteq [store_id : 1 .. stored, topic : Topics]
      /\ \A m, n \in store : m.store_id = n.store_id => m = n
  BY FiveFacts DEF FiveInv, FiveTypeOK
<1>1. stored' = stored + 1 /\ store' = store \cup {Stored(stored + 1, t)}
      /\ unir_mqtt_demo_event_cb(e) /\ report' = report
  BY DEF Deliver, Tell
<1>2. e \in FiveMsgs /\ e.id \notin StepEvents
  <2>1. stored + 1 \in 1 .. MaxForeign + 1
    BY <1>0
  <2>2. e \in FiveMsgs
    BY <2>1 DEF FiveMsgs
  <2>3. e.id = "NEW_MESSAGE"
    BY DEF Announcement
  <2> QED
    BY <2>2, <2>3 DEF StepEvents
<1>3. /\ msgq' \in Seq(FiveMsgs) /\ Len(msgq') <= MqttMaxCnt
      /\ late' \in BOOLEAN /\ report' = report
  BY <1>0, <1>1, <1>2, EventCbKeepsQueue
<1>4. QuietQueue(0) /\ Len(msgq') \in Nat
  <2>1. msgq' \in {msgq, Append(msgq, e)}
    BY <1>1 DEF unir_mqtt_demo_event_cb
  <2> QED
    BY <1>0, <1>2, <2>1, QuietAppend
<1>5. store' \subseteq [store_id : 1 .. stored', topic : Topics]
  <2>1. Stored(stored + 1, t) \in [store_id : 1 .. stored + 1, topic : Topics]
    BY <1>0 DEF Stored
  <2>2. \A m \in store : m \in [store_id : 1 .. stored + 1, topic : Topics]
    BY <1>0
  <2> QED
    BY <1>1, <2>1, <2>2
<1>6. \A m, n \in store' : m.store_id = n.store_id => m = n
  <2>1. Stored(stored + 1, t).store_id = stored + 1
    BY DEF Stored
  <2>2. \A m \in store : m.store_id # stored + 1
    BY <1>0
  <2> QED
    BY <1>0, <1>1, <2>1, <2>2
<1> QED
  BY <1>1, <1>3, <1>4, <1>5, <1>6

\* The number of publications when only the response of kind "ECHO" may change.
LEMMA EchoOrForeign ==
    ASSUME due \in [Kinds -> Nat], due' \in [Kinds -> Nat], stored \in Nat, foreign \in Nat,
           \A k \in Kinds \ {"ECHO"} : due'[k] = due[k],
           \/ /\ due'["ECHO"] = due["ECHO"] - 1 /\ foreign' = foreign
              /\ stored' \in {stored, stored + 1}
           \/ due'["ECHO"] = due["ECHO"] /\ stored' = stored + 1 /\ foreign' = foreign + 1
    PROVE  Publications' <= Publications
<1>1. {"OPEN", "CONNECT", "SUBACK", "ECHO"} \subseteq Kinds
  BY DEF Kinds
<1>2. /\ due["OPEN"] \in Nat /\ due["CONNECT"] \in Nat /\ due["SUBACK"] \in Nat
      /\ due["ECHO"] \in Nat
  BY <1>1
<1>3. /\ due'["OPEN"] = due["OPEN"] /\ due'["CONNECT"] = due["CONNECT"]
      /\ due'["SUBACK"] = due["SUBACK"]
  BY <1>1
<1>4. CASE due'["ECHO"] = due["ECHO"] - 1 /\ stored' \in {stored, stored + 1}
           /\ foreign' = foreign
  BY <1>2, <1>3, <1>4 DEF Publications
<1>5. CASE due'["ECHO"] = due["ECHO"] /\ stored' = stored + 1 /\ foreign' = foreign + 1
  BY <1>2, <1>3, <1>5 DEF Publications
<1> QED
  BY <1>4, <1>5

\* The broker delivers the client's own message, for which there was room.
LEMMA StoreEchoStep ==
    ASSUME FiveInv, StoreEcho, UNCHANGED env
    PROVE  FiveInv'
<1>0. /\ ClientInv /\ ClientTypeOK /\ PublishesOnce
      /\ msgq \in Seq(FiveMsgs) /\ due \in [Kinds -> Nat]
      /\ stored \in Nat /\ foreign \in Nat /\ MaxForeign \in Nat
      /\ foreign <= stored /\ Publications \in Nat
      /\ (pc = "start" => stored = foreign)
  BY FiveFacts
<1>k. {"OPEN", "CONNECT", "SUBACK", "ECHO"} \subseteq Kinds
  BY DEF Kinds
<1>1. /\ Online /\ Settle("ECHO")
      /\ UNCHANGED <<task, state, subs, foreign, unsubbed, msg, refused>>
  BY DEF StoreEcho
<1>2. /\ due' \in [Kinds -> Nat] /\ due["ECHO"] > 0 /\ due'["ECHO"] = due["ECHO"] - 1
      /\ \A k \in Kinds \ {"ECHO"} : due'[k] = due[k]
  BY <1>0, <1>1, <1>k, Settled
<1>3. due["OPEN"] = 0 /\ due'["OPEN"] = 0 /\ state \notin {"INIT", "TCP_CLOSED"} /\ pc # "start"
  <2>1. due["OPEN"] \in Nat /\ due'["OPEN"] = due["OPEN"]
    BY <1>0, <1>k, <1>2
  <2> QED
    BY <1>0, <1>1, <2>1 DEF ClientInv, OpenAlone, LeavesClosed, Online
<1>4. stored <= MaxForeign
  <2>1. /\ due["OPEN"] \in Nat /\ due["CONNECT"] \in Nat /\ due["SUBACK"] \in Nat
        /\ due["ECHO"] \in Nat \ {0}
    BY <1>0, <1>k, <1>2
  <2>2. Publications <= 1
    BY <1>0 DEF PublishesOnce
  <2>3. stored - foreign <= 0
    BY <1>0, <2>1, <2>2 DEF Publications
  <2>4. foreign <= MaxForeign
    BY <1>0 DEF ClientTypeOK
  <2> QED
    BY <1>0, <2>3, <2>4
<1>5. /\ msgq' \in Seq(FiveMsgs) /\ Len(msgq') <= MqttMaxCnt
      /\ late' \in BOOLEAN /\ report' = report
      /\ QuietQueue(0) /\ Len(msgq') \in Nat
      /\ stored' \in {stored, stored + 1}
      /\ store' \subseteq [store_id : 1 .. stored', topic : Topics]
      /\ \A m, n \in store' : m.store_id = n.store_id => m = n
  <2>1. CASE Deliver("TOPIC1")
    <3>1. "TOPIC1" \in Topics
      BY DEF Topics
    <3> QED
      BY <1>4, <2>1, <3>1, MessageStored
  <2>2. CASE UNCHANGED <<msgq, late, report, store, stored>>
    <3>1. QuietQueue(0) /\ Len(msgq') \in Nat
      BY <1>0, <2>2 DEF QuietQueue
    <3>2. /\ Len(msgq') <= MqttMaxCnt /\ late' = late /\ late' \in BOOLEAN
      BY <1>0, <2>2 DEF ClientTypeOK
    <3> QED
      BY <1>0, <2>2, <3>1, <3>2 DEF FiveInv, FiveTypeOK
  <2> QED
    BY <2>1, <2>2 DEF StoreEcho
<1>6. ClientInv'
  <2>1. ClientTypeOK'
    BY BoundsKept, <1>0, <1>1, <1>2, <1>5, Zenon DEF ClientTypeOK, task
  <2> QED
    BY <1>0, <1>1, <1>3, <1>5, <2>1, LibraryKeepsInv
<1>7. PublishesOnce'
  <2>1. foreign' = foreign /\ pc' = pc
    BY <1>1 DEF task
  <2>2. Publications' <= Publications
    BY <1>0, <1>2, <1>5, <2>1, EchoOrForeign
  <2>3. foreign' <= stored' /\ stored' \in Nat
    BY <1>0, <1>5, <2>1
  <2>4. Publications' \in Nat
    BY <1>0, <1>2, <2>1, <2>3, PublicationsNatNext
  <2> QED
    BY <1>0, <1>3, <1>5, <2>1, <2>2, <2>3, <2>4, QuietStep
<1>8. /\ pc' = pc /\ msg' = msg /\ refused' = refused /\ stored' \in Nat
  BY <1>0, <1>1, <1>5 DEF task
<1>9. msg' \in FiveMsgs /\ refused' \in BOOLEAN
      /\ pc' \in {"start", "wait", "read", "check", "free", "exited", "crashed"}
  BY <1>8, Zenon DEF FiveInv, FiveTypeOK
<1> QED
  BY <1>5, <1>6, <1>7, <1>8, <1>9, FiveShape

\* The broker delivers a message of another client.
LEMMA StoreForeignStep ==
    ASSUME FiveInv, StoreForeign, UNCHANGED env
    PROVE  FiveInv'
<1>0. /\ ClientInv /\ ClientTypeOK /\ PublishesOnce
      /\ msgq \in Seq(FiveMsgs) /\ due \in [Kinds -> Nat]
      /\ stored \in Nat /\ foreign \in Nat /\ MaxForeign \in Nat
      /\ foreign <= stored /\ Publications \in Nat
      /\ (pc = "start" => stored = foreign)
  BY FiveFacts
<1>k. {"OPEN", "CONNECT", "SUBACK", "ECHO"} \subseteq Kinds
  BY DEF Kinds
<1>1. /\ Online /\ foreign < MaxForeign /\ foreign' = foreign + 1
      /\ UNCHANGED <<task, state, due, subs, unsubbed, msg, refused>>
  BY DEF StoreForeign
<1>3. due["OPEN"] = 0 /\ due'["OPEN"] = 0 /\ state \notin {"INIT", "TCP_CLOSED"} /\ pc # "start"
  <2>1. due["OPEN"] \in Nat /\ due'["OPEN"] = due["OPEN"]
    BY <1>0, <1>k, <1>1
  <2> QED
    BY <1>0, <1>1, <2>1 DEF ClientInv, OpenAlone, LeavesClosed, Online
<1>4. stored <= MaxForeign
  <2>1. /\ due["OPEN"] \in Nat /\ due["CONNECT"] \in Nat /\ due["SUBACK"] \in Nat
        /\ due["ECHO"] \in Nat
    BY <1>0, <1>k
  <2>2. Publications <= 1
    BY <1>0 DEF PublishesOnce
  <2>3. stored - foreign <= 1
    BY <1>0, <2>1, <2>2 DEF Publications
  <2> QED
    BY <1>0, <1>1, <2>3
<1>5. /\ msgq' \in Seq(FiveMsgs) /\ Len(msgq') <= MqttMaxCnt
      /\ late' \in BOOLEAN /\ report' = report
      /\ QuietQueue(0) /\ Len(msgq') \in Nat
      /\ stored' = stored + 1
      /\ store' \subseteq [store_id : 1 .. stored', topic : Topics]
      /\ \A m, n \in store' : m.store_id = n.store_id => m = n
  <2>1. PICK t \in Topics : Deliver(t)
    BY <1>0 DEF StoreForeign, ClientTypeOK
  <2> QED
    BY <1>4, <2>1, MessageStored
<1>6. ClientInv'
  <2>1. foreign' \in 0 .. MaxForeign
    BY <1>0, <1>1
  <2>2. ClientTypeOK'
    BY BoundsKept, <1>0, <1>1, <1>5, <2>1, Zenon DEF ClientTypeOK, task
  <2> QED
    BY <1>0, <1>1, <1>3, <1>5, <2>2, LibraryKeepsInv
<1>7. PublishesOnce'
  <2>1. foreign' = foreign + 1 /\ pc' = pc /\ due' = due
    BY <1>1 DEF task
  <2>2. Publications' <= Publications
    BY <1>0, <1>5, <2>1, EchoOrForeign
  <2>3. foreign' <= stored' /\ stored' \in Nat /\ foreign' \in Nat
    BY <1>0, <1>5, <2>1
  <2>4. Publications' \in Nat
    BY <1>0, <2>1, <2>3, PublicationsNatNext
  <2> QED
    BY <1>0, <1>3, <1>5, <2>1, <2>2, <2>3, <2>4, QuietStep
<1>8. /\ pc' = pc /\ msg' = msg /\ refused' = refused /\ stored' \in Nat
  BY <1>0, <1>1, <1>5 DEF task
<1>9. msg' \in FiveMsgs /\ refused' \in BOOLEAN
      /\ pc' \in {"start", "wait", "read", "check", "free", "exited", "crashed"}
  BY <1>8, Zenon DEF FiveInv, FiveTypeOK
<1> QED
  BY <1>5, <1>6, <1>7, <1>8, <1>9, FiveShape

\* One request more on the way to the publication.
LEMMA OneRequestMore ==
    ASSUME due \in [Kinds -> Nat], stored \in Nat, foreign \in Nat,
           NEW k \in {"CONNECT", "SUBACK", "ECHO"}, due'[k] \in {due[k], due[k] + 1},
           \A j \in {"OPEN", "CONNECT", "SUBACK", "ECHO"} \ {k} : due'[j] = due[j],
           UNCHANGED <<stored, foreign>>
    PROVE  Publications' <= Publications + 1
<1>1. {"OPEN", "CONNECT", "SUBACK", "ECHO"} \subseteq Kinds
  BY DEF Kinds
<1>2. /\ due["OPEN"] \in Nat /\ due["CONNECT"] \in Nat
      /\ due["SUBACK"] \in Nat /\ due["ECHO"] \in Nat
  BY <1>1
<1>3. CASE k = "CONNECT"
  BY <1>2, <1>3 DEF Publications
<1>4. CASE k = "SUBACK"
  BY <1>2, <1>4 DEF Publications
<1>5. CASE k = "ECHO"
  BY <1>2, <1>5 DEF Publications
<1> QED
  BY <1>3, <1>4, <1>5

\* The handlers of the library's events, messages apart.
LEMMA FiveHandlerStep ==
    ASSUME FiveInv, UNCHANGED env,
           FiveOnOpened \/ FiveOnConnect \/ FiveOnSuback \/ FiveOnUnsuback \/ FiveOnOther
    PROVE  FiveInv'
<1>0. /\ ClientInv /\ ClientTypeOK /\ PublishesOnce
      /\ msgq \in Seq(FiveMsgs) /\ due \in [Kinds -> Nat]
      /\ stored \in Nat /\ foreign \in Nat
      /\ foreign <= stored /\ Publications \in Nat
  BY FiveFacts
<1>k. /\ {"OPEN", "CONNECT", "SUBACK", "ECHO", "DISCONNECT"} \subseteq Kinds
      /\ {"SUBSCRIBE", "SUBACK"} \in SUBSET (Kinds \ {"OPEN"})
      /\ {"PUBLISH", "ECHO"} \in SUBSET (Kinds \ {"OPEN"})
  BY DEF Kinds
<1>1. unir_mqtt_demo_event_handle /\ UNCHANGED readVars
  BY DEF FiveOnOpened, FiveOnConnect, FiveOnSuback, FiveOnUnsuback, FiveOnOther,
     unir_mqtt_demo_event_handle
<1>2. ClientInv' /\ msgq' \in Seq(FiveMsgs) /\ pc' = "check"
  BY <1>0, <1>1, EventHandleStep
<1>3. UNCHANGED <<stored, foreign, report>>
  BY <1>1 DEF unir_mqtt_demo_event_handle, OnOpened, OnConnect, OnSuback, OnUnsuback, OnOther,
     readVars, libVars
<1>4. /\ due' \in [Kinds -> Nat] /\ foreign' <= stored' /\ pc' # "start"
      /\ Publications' \in Nat
  <2>1. due' \in [Kinds -> Nat]
    BY <1>2 DEF ClientInv, ClientTypeOK
  <2>2. foreign' <= stored' /\ stored' \in Nat /\ foreign' \in Nat
    BY <1>0, <1>3
  <2> QED
    BY <1>2, <2>1, <2>2, PublicationsNatNext
<1>5. PublishesOnce'
  <2>1. CASE FiveOnOpened \/ FiveOnConnect \/ FiveOnSuback
    <3>1. /\ msgq # <<>> /\ msgq' = Tail(msgq) /\ Head(msgq).id \in StepEvents
      BY <2>1 DEF FiveOnOpened, FiveOnConnect, FiveOnSuback, OnOpened, OnConnect, OnSuback,
         TakeEvent, StepEvents
    <3>2. Publications' <= Publications + 1
      <4>1. CASE FiveOnOpened
        <5>1. due' = due \/ due' = [due EXCEPT !["CONNECT"] = @ + 1]
          BY <4>1 DEF FiveOnOpened, OnOpened, unir_mqtt_demo_connect
        <5>2. /\ due'["CONNECT"] \in {due["CONNECT"], due["CONNECT"] + 1}
              /\ \A j \in {"OPEN", "SUBACK", "ECHO"} : due'[j] = due[j]
          BY <1>0, <1>k, <5>1
        <5> QED
          BY <1>0, <1>3, <5>2, OneRequestMore
      <4>2. CASE FiveOnConnect
        <5>1. due' = due \/ Request({"SUBSCRIBE", "SUBACK"})
          BY <4>2 DEF FiveOnConnect, OnConnect, unir_mqtt_demo_subscribe
        <5>2. /\ due'["SUBACK"] \in {due["SUBACK"], due["SUBACK"] + 1}
              /\ \A j \in {"OPEN", "CONNECT", "ECHO"} : due'[j] = due[j]
          BY <1>0, <1>k, <5>1, Requested
        <5> QED
          BY <1>0, <1>3, <5>2, OneRequestMore
      <4>3. CASE FiveOnSuback
        <5>1. due' = due \/ Request({"PUBLISH", "ECHO"})
          BY <4>3 DEF FiveOnSuback, OnSuback, unir_mqtt_demo_publish
        <5>2. /\ due'["ECHO"] \in {due["ECHO"], due["ECHO"] + 1}
              /\ \A j \in {"OPEN", "CONNECT", "SUBACK"} : due'[j] = due[j]
          BY <1>0, <1>k, <5>1, Requested
        <5> QED
          BY <1>0, <1>3, <5>2, OneRequestMore
      <4> QED
        BY <2>1, <4>1, <4>2, <4>3
    <3> QED
      BY <1>0, <1>3, <1>4, <3>1, <3>2, RequestStep
  <2>2. CASE FiveOnUnsuback \/ FiveOnOther
    <3>1. /\ msgq # <<>> /\ msgq' = Tail(msgq)
      BY <2>2 DEF FiveOnUnsuback, FiveOnOther, OnUnsuback, OnOther, TakeEvent
    <3>2. due' = due \/ due' = [due EXCEPT !["DISCONNECT"] = @ + 1]
      BY <2>2 DEF FiveOnUnsuback, FiveOnOther, OnUnsuback, OnOther, libVars,
         unir_mqtt_demo_disconnect
    <3>3. \A j \in {"OPEN", "CONNECT", "SUBACK", "ECHO"} : due'[j] = due[j]
      BY <1>0, <1>k, <3>2
    <3>4. Publications' = Publications
      BY <1>3, <3>3 DEF Publications
    <3>5. QuietQueue(1) /\ Len(msgq') \in Nat
      BY <1>0, <3>1, QuietTail
    <3> QED
      BY <1>0, <1>3, <1>4, <3>4, <3>5, QuietStep
  <2> QED
    BY <2>1, <2>2
<1>6. msg' = msg /\ refused' = refused /\ store' = store /\ stored' = stored /\ stored' \in Nat
  BY <1>0, <1>1 DEF readVars
<1>7. /\ msg' \in FiveMsgs /\ refused' \in BOOLEAN
      /\ store' \subseteq [store_id : 1 .. stored', topic : Topics]
      /\ \A m, n \in store' : m.store_id = n.store_id => m = n
  BY <1>6, Zenon DEF FiveInv, FiveTypeOK
<1> QED
  BY <1>2, <1>5, <1>6, <1>7, FiveShape

\* The opening, the look at the state and the end of the task.
LEMMA FiveOpenAndFreeStep ==
    ASSUME FiveInv, UNCHANGED env, FiveOpen \/ FiveCheckState \/ FiveCtxFree
    PROVE  FiveInv'
<1>0. /\ ClientInv /\ ClientTypeOK /\ PublishesOnce
      /\ msgq \in Seq(FiveMsgs) /\ due \in [Kinds -> Nat]
      /\ stored \in Nat /\ foreign \in Nat
      /\ foreign <= stored /\ Publications \in Nat
      /\ (pc = "start" => stored = foreign)
  BY FiveFacts
<1>k. /\ {"OPEN", "CONNECT", "SUBACK", "ECHO"} \subseteq Kinds
      /\ {"CLOSE"} \in SUBSET (Kinds \ {"OPEN"})
  BY DEF Kinds
<1>1. /\ unir_mqtt_demo_open \/ CheckState \/ unir_mqtt_demo_ctx_free
      /\ UNCHANGED readVars
  BY DEF FiveOpen, FiveCheckState, FiveCtxFree
<1>2. /\ ClientInv' /\ msgq' \in Seq(FiveMsgs)
      /\ pc' \in {"wait", "free", "exited", "crashed"}
  BY <1>0, <1>1, OpenAndFreeStep
<1>3. UNCHANGED <<stored, foreign, report>>
  BY <1>1 DEF unir_mqtt_demo_open, CheckState, unir_mqtt_demo_ctx_free, readVars, libVars
<1>4. /\ due' \in [Kinds -> Nat] /\ foreign' <= stored' /\ pc' # "start"
      /\ Publications' \in Nat
  <2>1. due' \in [Kinds -> Nat]
    BY <1>2 DEF ClientInv, ClientTypeOK
  <2>2. foreign' <= stored' /\ stored' \in Nat /\ foreign' \in Nat
    BY <1>0, <1>3
  <2> QED
    BY <1>2, <2>1, <2>2, PublicationsNatNext
<1>5. PublishesOnce'
  <2>1. CASE unir_mqtt_demo_open
    <3>1. /\ msgq' = <<>> /\ report = {} /\ stored = foreign /\ \A k \in Kinds : due[k] = 0
          /\ due' = due \/ due' = [due EXCEPT !["OPEN"] = @ + 1]
      BY <1>0, <2>1 DEF unir_mqtt_demo_open, ClientInv, LeavesClosed
    <3>2. /\ due'["OPEN"] \in {0, 1} /\ due'["CONNECT"] = 0 /\ due'["SUBACK"] = 0
          /\ due'["ECHO"] = 0
      BY <1>0, <1>k, <3>1
    <3>3. Publications' <= 1
      BY <1>0, <1>3, <3>1, <3>2 DEF Publications
    <3> QED
      BY <1>0, <1>3, <1>4, <3>1, <3>3 DEF PublishesOnce, StepEvents
  <2>2. CASE CheckState \/ unir_mqtt_demo_ctx_free
    <3>1. msgq' = msgq \/ msgq' = <<>>
      BY <2>2 DEF CheckState, unir_mqtt_demo_ctx_free
    <3>2. due' = due \/ Request({"CLOSE"})
      BY <2>2 DEF CheckState, unir_mqtt_demo_ctx_free, libVars
    <3>3. \A j \in {"OPEN", "CONNECT", "SUBACK", "ECHO"} : due'[j] = due[j]
      BY <1>0, <1>k, <3>2, Requested
    <3>4. Publications' = Publications
      BY <1>3, <3>3 DEF Publications
    <3>5. QuietQueue(0) /\ Len(msgq') \in Nat
      BY <1>0, <3>1 DEF QuietQueue
    <3> QED
      BY <1>0, <1>3, <1>4, <3>4, <3>5, QuietStep
  <2> QED
    BY <1>1, <2>1, <2>2
<1>6. msg' = msg /\ refused' = refused /\ store' = store /\ stored' = stored /\ stored' \in Nat
  BY <1>0, <1>1 DEF readVars
<1>7. /\ msg' \in FiveMsgs /\ refused' \in BOOLEAN
      /\ store' \subseteq [store_id : 1 .. stored', topic : Topics]
      /\ \A m, n \in store' : m.store_id = n.store_id => m = n
  BY <1>6, Zenon DEF FiveInv, FiveTypeOK
<1> QED
  BY <1>2, <1>5, <1>6, <1>7, FiveShape

\* The event whose message is read next leaves the queue.
LEMMA TakeMessageStep ==
    ASSUME FiveInv, UNCHANGED env, TakeMessage
    PROVE  FiveInv'
<1>0. /\ ClientInv /\ ClientTypeOK /\ PublishesOnce
      /\ msgq \in Seq(FiveMsgs) /\ due \in [Kinds -> Nat]
      /\ stored \in Nat /\ foreign \in Nat
      /\ foreign <= stored /\ Publications \in Nat
  BY FiveFacts
<1>1. /\ pc = "wait" /\ msgq # <<>> /\ pc' = "read" /\ msg' = Head(msgq)
      /\ msgq' = Tail(msgq)
      /\ UNCHANGED <<g_mqtt_ctx, ret, state, due, subs, foreign, unsubbed, late, report, store, stored,
                     refused>>
  BY DEF TakeMessage, libVars
<1>2. /\ msgq' \in Seq(FiveMsgs) /\ Len(msgq') <= MqttMaxCnt /\ msg' \in FiveMsgs
  BY <1>0, <1>1, TakenQueue
<1>3. ret' = TRUE /\ ret' \in BOOLEAN /\ unsubbed' \in SUBSET Topics
  BY <1>0, <1>1 DEF ClientInv, ClientTypeOK, LeavesClosed
<1>4. ClientInv'
  BY <1>0, <1>1, <1>2, <1>3, InLoopKeepsInv
<1>5. PublishesOnce'
  <2>1. Publications' = Publications /\ foreign' <= stored'
    BY <1>0, <1>1 DEF Publications
  <2>2. QuietQueue(1) /\ Len(msgq') \in Nat
    BY <1>0, <1>1, QuietTail
  <2> QED
    BY <1>0, <1>1, <2>1, <2>2, QuietStep
<1>6. refused' = refused /\ store' = store /\ stored' = stored /\ stored' \in Nat
  BY <1>0, <1>1
<1>7. /\ refused' \in BOOLEAN
      /\ store' \subseteq [store_id : 1 .. stored', topic : Topics]
      /\ \A m, n \in store' : m.store_id = n.store_id => m = n
  BY <1>6, Zenon DEF FiveInv, FiveTypeOK
<1> QED
  BY <1>1, <1>2, <1>4, <1>5, <1>6, <1>7, FiveShape

\* The look for further messages adds at most the task's own event to the queue.
LEMMA CheckCacheCnt ==
    ASSUME FiveInv, NEW rest, unir_mqtt_demo_check_cache_cnt(rest)
    PROVE  /\ msgq' \in Seq(FiveMsgs) /\ Len(msgq') <= MqttMaxCnt
           /\ QuietQueue(0) /\ Len(msgq') \in Nat /\ refused' \in BOOLEAN
<1>0. /\ ClientTypeOK /\ msgq \in Seq(FiveMsgs) /\ CacheEvent \in FiveMsgs
      /\ Len(msgq) <= MqttMaxCnt /\ Len(msgq) \in Nat
  BY FiveFacts DEF ClientTypeOK
<1>1. MqttMaxCnt \in Nat
  BY <1>0, Bounds
<1>2. CacheEvent.id \notin StepEvents
  BY DEF CacheEvent, Event, StepEvents
<1>3. msgq' = msgq \/ (Len(msgq) < MqttMaxCnt /\ msgq' = Append(msgq, CacheEvent))
  BY DEF unir_mqtt_demo_check_cache_cnt
<1>4. msgq' \in Seq(FiveMsgs) /\ Len(msgq') <= MqttMaxCnt
  <2>1. CASE msgq' = msgq
    BY <1>0, <2>1
  <2>2. CASE Len(msgq) < MqttMaxCnt /\ msgq' = Append(msgq, CacheEvent)
    <3>1. msgq' \in Seq(FiveMsgs) /\ Len(msgq') = Len(msgq) + 1
      BY <1>0, <2>2, AppendProperties
    <3> QED
      BY <1>0, <1>1, <2>2, <3>1
  <2> QED
    BY <1>3, <2>1, <2>2
<1>5. QuietQueue(0) /\ Len(msgq') \in Nat
  BY <1>0, <1>2, <1>3, QuietAppend
<1>6. refused' \in BOOLEAN
  <2>1. refused \in BOOLEAN
    BY DEF FiveInv, FiveTypeOK
  <2> QED
    BY <2>1, Zenon DEF unir_mqtt_demo_check_cache_cnt
<1> QED
  BY <1>4, <1>5, <1>6

\* Both readers.
LEMMA ReadStep ==
    ASSUME FiveInv, UNCHANGED env, ReadAnnounced \/ unir_mqtt_demo_recv_cache_message
    PROVE  FiveInv'
<1>0. /\ ClientInv /\ ClientTypeOK /\ PublishesOnce
      /\ msgq \in Seq(FiveMsgs) /\ due \in [Kinds -> Nat]
      /\ stored \in Nat /\ foreign \in Nat
      /\ foreign <= stored /\ Publications \in Nat /\ CacheEvent \in FiveMsgs
  BY FiveFacts
<1>k. /\ {"OPEN", "CONNECT", "SUBACK", "ECHO"} \subseteq Kinds
      /\ {"UNSUBSCRIBE", "UNSUBACK"} \in SUBSET (Kinds \ {"OPEN"})
  BY DEF Kinds
<1>1. /\ pc = "read" /\ pc' \in {"check", "crashed"}
      /\ unir_mqtt_demo_check_cache_cnt(store')
      /\ UNCHANGED <<g_mqtt_ctx, ret, state, subs, foreign, late, report, stored>>
      /\ msg' \in {msg, CacheEvent} /\ store' \subseteq store
  BY DEF ReadAnnounced, unir_mqtt_demo_recv_cache_message, Without, libVars
<1>2. /\ msgq' \in Seq(FiveMsgs) /\ Len(msgq') <= MqttMaxCnt
      /\ QuietQueue(0) /\ Len(msgq') \in Nat /\ refused' \in BOOLEAN
  BY <1>1, CheckCacheCnt
<1>3. /\ due' = due \/ Request({"UNSUBSCRIBE", "UNSUBACK"})
      /\ unsubbed' = unsubbed \/ unsubbed' = unsubbed \cup {"TOPIC1"}
  BY DEF ReadAnnounced, unir_mqtt_demo_recv_cache_message, unir_mqtt_demo_unsubscribe, libVars
<1>4. /\ due' \in [Kinds -> Nat]
      /\ \A j \in {"OPEN", "CONNECT", "SUBACK", "ECHO"} : due'[j] = due[j]
  BY <1>0, <1>k, <1>3, Requested
<1>5. ret' = TRUE /\ ret' \in BOOLEAN /\ unsubbed' \in SUBSET Topics
  BY <1>0, <1>1, <1>3 DEF ClientInv, ClientTypeOK, LeavesClosed, Topics
<1>6. ClientInv'
  BY <1>0, <1>1, <1>2, <1>4, <1>5, InLoopKeepsInv
<1>7. PublishesOnce'
  <2>1. Publications' = Publications /\ foreign' <= stored'
    BY <1>0, <1>1, <1>4 DEF Publications
  <2> QED
    BY <1>0, <1>1, <1>2, <2>1, QuietStep
<1>8. /\ msg' \in FiveMsgs /\ stored' = stored /\ stored' \in Nat
      /\ store' \subseteq [store_id : 1 .. stored', topic : Topics]
      /\ \A m, n \in store' : m.store_id = n.store_id => m = n
  BY <1>0, <1>1 DEF FiveInv, FiveTypeOK
<1> QED
  BY <1>1, <1>2, <1>6, <1>7, <1>8, FiveShape

\* Every step of the MQTT 5 client keeps its invariant.
LEMMA FiveStep == FiveInv /\ [FiveNext]_fiveVars => FiveInv'
<1> SUFFICES ASSUME FiveInv, [FiveNext]_fiveVars PROVE FiveInv'
  OBVIOUS
<1>1. CASE UNCHANGED fiveVars
  <2>1. ClientInv'
    BY <1>1, BoundsKept DEF FiveInv, ClientInv, ClientTypeOK, OpenAlone, LeavesClosed,
       fiveVars, vars, task, libVars
  <2>2. FiveTypeOK'
    BY <1>1, <2>1, BoundsKept, FiveMsgsKept, Zenon
       DEF FiveInv, FiveTypeOK, ClientInv, fiveVars, readVars, vars, task
  <2>3. PublishesOnce'
    <3>1. /\ due' = due /\ stored' = stored /\ foreign' = foreign /\ pc' = pc /\ msgq' = msgq
          /\ report' = report
      BY <1>1 DEF fiveVars, readVars, vars, task, libVars
    <3>2. Publications' = Publications
      BY <3>1 DEF Publications
    <3> QED
      BY <3>1, <3>2 DEF FiveInv, PublishesOnce, StepEvents
  <2> QED
    BY <2>1, <2>2, <2>3 DEF FiveInv
<1>2. CASE FiveTask /\ UNCHANGED env
  BY <1>2, FiveHandlerStep, FiveOpenAndFreeStep, TakeMessageStep, ReadStep DEF FiveTask
<1>3. CASE (StoreEcho \/ StoreForeign \/ LibOther) /\ UNCHANGED env
  BY <1>3, StoreEchoStep, StoreForeignStep, FiveReport
<1> QED
  BY <1>1, <1>2, <1>3 DEF FiveNext

\* FiveInv holds whatever mqtt5_demo.c's task meets: lost events and announcements,
\* refused requests, messages of other clients and a broker that closes at any time.
THEOREM FiveInvariant == FiveSpec => []FiveInv
BY FiveStart, FiveStep, PTL DEF FiveSpec

\* For every capacity of the queue and any number of messages of other clients: when
\* the task of mqtt5_demo.c frees its context without a failed handler, the library has
\* begun its last report, messages that arrive while it reads included.
THEOREM FiveNoReportAfterFree == FiveSpec => NoReportAfterFree
<1>1. FiveInv /\ [FiveNext]_fiveVars =>
          [g_mqtt_ctx = "freed" /\ ret =>
               report' \subseteq report /\ (late' => late \/ report # {})]_vars
  <2> SUFFICES ASSUME FiveInv, FiveNext, g_mqtt_ctx = "freed", ret
               PROVE  report' \subseteq report /\ (late' => late \/ report # {})
    BY DEF fiveVars
  <2>1. /\ ClientInv /\ pc = "exited" /\ state \in {"INIT", "TCP_CLOSED"}
    BY DEF FiveInv, ClientInv, LeavesClosed
  <2>2. CASE LibOther
    <3>1. Library
      BY <2>2 DEF LibOther, Library
    <3> QED
      BY <2>1, <3>1, AfterFree
  <2>3. ~StoreEcho /\ ~StoreForeign
    BY <2>1 DEF StoreEcho, StoreForeign, Online
  <2>4. ~FiveTask
    BY <2>1 DEF FiveTask, FiveOpen, unir_mqtt_demo_open, FiveOnOpened, FiveOnConnect, FiveOnSuback,
       FiveOnUnsuback, FiveOnOther, OnOpened, OnConnect, OnSuback, OnUnsuback, OnOther, TakeEvent,
       TakeMessage, ReadAnnounced, unir_mqtt_demo_recv_cache_message, FiveCheckState, CheckState,
       FiveCtxFree, unir_mqtt_demo_ctx_free
  <2> QED
    BY <2>2, <2>3, <2>4 DEF FiveNext
<1> QED
  BY <1>1, FiveInvariant, PTL DEF FiveSpec, NoReportAfterFree

\* An announcement in the queue stays there when something is added.
LEMMA ReadingKept ==
    ASSUME NEW S, msgq \in Seq(S), NEW m \in S, msgq' \in {msgq, Append(msgq, m)},
           Reading, pc = "read" => pc' = "read"
    PROVE  Reading'
<1>1. CASE pc = "read"
  BY <1>1 DEF Reading
<1>2. CASE pc # "read"
  <2>1. PICK k \in 1 .. Len(msgq) : msgq[k].id \in {"NEW_MESSAGE", "CACHE"}
    BY <1>2 DEF Reading
  <2>2. k \in 1 .. Len(msgq') /\ msgq'[k] = msgq[k]
    <3>1. CASE msgq' = msgq
      BY <3>1
    <3>2. CASE msgq' = Append(msgq, m)
      <4>1. Len(msgq') = Len(msgq) + 1 /\ Len(msgq) \in Nat /\ msgq'[k] = msgq[k]
        BY <3>2, AppendProperties
      <4> QED
        BY <4>1
    <3> QED
      BY <3>1, <3>2
  <2> QED
    BY <2>1, <2>2 DEF Reading
<1> QED
  BY <1>1, <1>2

\* An announcement behind the first event stays in the queue when that one is taken.
LEMMA ReadingPastHead ==
    ASSUME NEW S, msgq \in Seq(S), msgq # <<>>, msgq' = Tail(msgq), pc # "read", Reading,
           Head(msgq).id \notin {"NEW_MESSAGE", "CACHE"}
    PROVE  Reading'
<1>1. /\ Len(msgq) \in Nat \ {0} /\ Len(msgq') = Len(msgq) - 1 /\ Head(msgq) = msgq[1]
      /\ \A j \in 1 .. Len(msgq') : msgq'[j] = msgq[j + 1]
  BY EmptySeq, HeadTailProperties
<1>2. PICK k \in 1 .. Len(msgq) : msgq[k].id \in {"NEW_MESSAGE", "CACHE"}
  BY DEF Reading
<1>3. k - 1 \in 1 .. Len(msgq') /\ msgq'[k - 1] = msgq[k]
  <2>1. k # 1
    BY <1>1, <1>2
  <2>2. k - 1 \in 1 .. Len(msgq')
    BY <1>1, <2>1
  <2> QED
    BY <1>1, <2>2
<1> QED
  BY <1>2, <1>3 DEF Reading

\* The announcement of a message is one that the type of the queue provides for.
LEMMA DeliveredTyped ==
    ASSUME FiveInv, FiveInv', UNCHANGED env, NEW t \in Topics, Deliver(t)
    PROVE  Announcement(stored + 1, t) \in FiveMsgs
<1>1. /\ stored' = stored + 1 /\ stored' \in 0 .. MaxForeign' + 1
      /\ MaxForeign' = MaxForeign /\ stored \in Nat /\ MaxForeign \in Nat
  BY BoundsKept, FiveFacts DEF Deliver, FiveInv, FiveTypeOK
<1>2. stored + 1 \in 1 .. MaxForeign + 1
  BY <1>1
<1> QED
  BY <1>2 DEF FiveMsgs

\* The library adds at most an event to the queue.
LEMMA LibraryAppends ==
    ASSUME FiveInv, FiveInv', UNCHANGED env, StoreEcho \/ StoreForeign \/ LibOther
    PROVE  pc' = pc /\ \E m \in FiveMsgs : msgq' \in {msgq, Append(msgq, m)}
<1>0. /\ Msgs \subseteq FiveMsgs /\ CacheEvent \in FiveMsgs /\ Results \subseteq BOOLEAN
      /\ {"OPEN", "CONNECT", "PUBLISH", "SUBSCRIBE", "SUBACK", "UNSUBSCRIBE",
          "UNSUBACK", "DISCONNECT", "CLOSE"} \subseteq Kinds \ {"ECHO"}
  BY FiveFacts DEF Results, Kinds
<1>1. CASE LibOther /\ ~LibReport
  <2>1. PICK k \in (Kinds \ {"ECHO"}) \cup {"STATE"}, ok \in BOOLEAN :
           unir_mqtt_demo_event_cb(Event(k, ok)) \/ UNCHANGED msgq
    BY <1>0, <1>1 DEF LibOther, LibOpen, LibConnect, LibSent, LibSuback, LibUnsuback, LibState,
       LibDisconnect, LibClose, Tell, Changed
  <2>2. Event(k, ok) \in FiveMsgs
    <3>1. Event(k, ok) \in Msgs
      BY DEF Msgs
    <3> QED
      BY <1>0, <3>1
  <2>3. pc' = pc
    BY <1>1 DEF LibOther, LibOpen, LibConnect, LibSent, LibSuback, LibUnsuback, LibState,
       LibDisconnect, LibClose, task
  <2> QED
    BY <2>1, <2>2, <2>3 DEF unir_mqtt_demo_event_cb
<1>2. CASE StoreEcho \/ StoreForeign
  <2>1. pc' = pc /\ (msgq' = msgq \/ \E t \in Topics : Deliver(t))
    BY <1>2 DEF StoreEcho, StoreForeign, task, Topics, FiveInv, FiveTypeOK, ClientTypeOK
  <2>2. CASE msgq' = msgq
    BY <1>0, <2>1, <2>2
  <2>3. CASE \E t \in Topics : Deliver(t)
    <3>1. PICK t \in Topics : Deliver(t)
      BY <2>3
    <3>2. Announcement(stored + 1, t) \in FiveMsgs
      BY <3>1, DeliveredTyped
    <3> QED
      BY <2>1, <3>1, <3>2 DEF Deliver, Tell, unir_mqtt_demo_event_cb
  <2> QED
    BY <2>1, <2>2, <2>3
<1>3. CASE LibOther /\ LibReport
  <2>1. PICK m \in report : unir_mqtt_demo_event_cb(m)
    BY <1>3 DEF LibReport
  <2>2. m \in FiveMsgs
    BY <1>0 DEF FiveInv, FiveTypeOK, ClientTypeOK
  <2>3. pc' = pc
    BY <1>3 DEF LibReport, task
  <2> QED
    BY <2>1, <2>2, <2>3 DEF unir_mqtt_demo_event_cb
<1> QED
  BY <1>1, <1>2, <1>3

\* While messages are left, the task of mqtt5_demo.c goes on reading: neither an event
\* handled in between nor one lost for want of room ends the chain of readings, only
\* the end of the task or the loss of the event the task posts to itself.
THEOREM FiveGoesOnReading == FiveSpec => GoesOnReading
<1>1. FiveInv /\ FiveInv' /\ [FiveNext]_fiveVars =>
          [Reading /\ store' # {} =>
               Reading' \/ refused' \/ pc' \in {"exited", "crashed"}]_fiveVars
  <2> SUFFICES ASSUME FiveInv, FiveInv', FiveNext, Reading, store' # {}
               PROVE  Reading' \/ refused' \/ pc' \in {"exited", "crashed"}
    OBVIOUS
  <2>0. /\ msgq \in Seq(FiveMsgs) /\ CacheEvent \in FiveMsgs
    BY FiveFacts
  <2>1. CASE (StoreEcho \/ StoreForeign \/ LibOther) /\ UNCHANGED env
    BY <2>0, <2>1, LibraryAppends, ReadingKept
  <2>2. CASE FiveOnOpened \/ FiveOnConnect \/ FiveOnSuback \/ FiveOnUnsuback \/ FiveOnOther
    <3>1. /\ msgq # <<>> /\ msgq' = Tail(msgq) /\ pc # "read"
          /\ Head(msgq).id \notin {"NEW_MESSAGE", "CACHE"}
      BY <2>2 DEF FiveOnOpened, FiveOnConnect, FiveOnSuback, FiveOnUnsuback, FiveOnOther,
         OnOpened, OnConnect, OnSuback, OnUnsuback, OnOther, TakeEvent
    <3> QED
      BY <2>0, <3>1, ReadingPastHead
  <2>3. CASE FiveOpen \/ FiveCheckState
    <3>1. msgq' = msgq /\ pc # "read"
      BY <2>3 DEF FiveOpen, FiveCheckState, unir_mqtt_demo_open, CheckState
    <3> QED
      BY <2>0, <3>1, ReadingKept
  <2>4. CASE TakeMessage
    BY <2>4 DEF TakeMessage, Reading
  <2>5. CASE ReadAnnounced \/ unir_mqtt_demo_recv_cache_message
    <3>1. unir_mqtt_demo_check_cache_cnt(store')
      BY <2>5 DEF ReadAnnounced, unir_mqtt_demo_recv_cache_message
    <3>2. CASE msgq' = Append(msgq, CacheEvent)
      <4>1. /\ Len(msgq') = Len(msgq) + 1 /\ Len(msgq) \in Nat
            /\ msgq'[Len(msgq) + 1] = CacheEvent
        BY <2>0, <3>2, AppendProperties
      <4>2. CacheEvent.id = "CACHE"
        BY DEF CacheEvent, Event
      <4> QED
        BY <4>1, <4>2 DEF Reading
    <3>3. CASE refused' = (refused \/ store' # {})
      BY <3>3
    <3> QED
      BY <3>1, <3>2, <3>3 DEF unir_mqtt_demo_check_cache_cnt
  <2>6. CASE FiveCtxFree
    BY <2>6 DEF FiveCtxFree, unir_mqtt_demo_ctx_free
  <2> QED
    BY <2>1, <2>2, <2>3, <2>4, <2>5, <2>6 DEF FiveNext, FiveTask
<1> QED
  BY <1>1, FiveInvariant, PTL DEF FiveSpec, GoesOnReading

\* The same of mqtt5_demo.c, whose task may wait with messages left to read but not with
\* the connection down and nothing to come.
THEOREM FiveNeverStranded == FiveSpec => []NeverStranded
<1>1. FiveInit => Awake
  BY DEF FiveInit, Init, Awake, LoopHasContext, NeverStranded
<1>2. FiveInv /\ FiveInv' /\ Awake /\ [FiveNext]_fiveVars => Awake'
  <2> SUFFICES ASSUME FiveInv, FiveInv', Awake, [FiveNext]_fiveVars PROVE Awake'
    OBVIOUS
  <2>0. ClientInv /\ msgq \in Seq(FiveMsgs) /\ Msgs \subseteq FiveMsgs
    BY FiveFacts
  <2>1. CASE UNCHANGED fiveVars
    BY <2>1, QuietAwake DEF fiveVars, vars, libVars
  <2>2. CASE LibOther /\ UNCHANGED env
    <3>1. Library
      BY <2>2 DEF LibOther, Library
    <3> QED
      BY <2>0, <2>2, <3>1, LibraryAwake
  <2>3. CASE (StoreEcho \/ StoreForeign) /\ UNCHANGED env
    <3>1. /\ UNCHANGED <<task, state, report>>
          /\ UNCHANGED msgq \/ \E t \in Topics : Deliver(t)
      BY <2>3 DEF StoreEcho, StoreForeign, Deliver, Tell, Topics, FiveInv, FiveTypeOK, ClientTypeOK
    <3>2. CASE UNCHANGED msgq
      <4>1. due'["CLOSE"] = due["CLOSE"]
        <5>1. "ECHO" \in Kinds /\ "CLOSE" \in Kinds \ {"ECHO"} /\ ClientTypeOK
          BY <2>0 DEF Kinds, ClientInv
        <5> QED
          BY <2>3, <5>1, Settled DEF StoreEcho, StoreForeign
      <4> QED
        BY <2>3, <3>1, <3>2, <4>1, QuietAwake
    <3>3. CASE \E t \in Topics : Deliver(t)
      <4>1. PICK t \in Topics : Deliver(t)
        BY <3>3
      <4>2. Announcement(stored + 1, t) \in FiveMsgs
        BY <2>3, <4>1, DeliveredTyped
      <4> QED
        BY <2>0, <2>3, <3>1, <4>1, <4>2, ReportAwake DEF Deliver, Tell
    <3> QED
      BY <3>1, <3>2, <3>3
  <2>4. CASE FiveOnOpened \/ FiveOnConnect \/ FiveOnSuback \/ FiveOnUnsuback \/ FiveOnOther
    BY <2>4, BusyAwake
    DEF FiveOnOpened, FiveOnConnect, FiveOnSuback, FiveOnUnsuback, FiveOnOther,
        OnOpened, OnConnect, OnSuback, OnUnsuback, OnOther, TakeEvent
  <2>5. CASE TakeMessage \/ ReadAnnounced \/ unir_mqtt_demo_recv_cache_message
    BY <2>5, BusyAwake DEF TakeMessage, ReadAnnounced, unir_mqtt_demo_recv_cache_message
  <2>6. CASE (FiveOpen \/ FiveCheckState \/ FiveCtxFree) /\ UNCHANGED env
    BY <2>0, <2>6, LoopAwake DEF FiveOpen, FiveCheckState, FiveCtxFree
  <2> QED
    BY <2>1, <2>2, <2>3, <2>4, <2>5, <2>6 DEF FiveNext, FiveTask
<1>3. Awake => NeverStranded
  BY DEF Awake
<1> QED
  BY <1>1, <1>2, <1>3, FiveInvariant, PTL DEF FiveSpec

-----------------------------------------------------------------------------
(* The composition.                                                        *)

\* Whether the program that runs is the MQTT client, and not the MQTT 5 client.
RunsMqtt == demo = "mqtt"

\* Every behaviour of the composed specification is one of the file sender's own
\* specification and of one of the two MQTT clients', which share their variables.
THEOREM MsgRunsEach ==
    MsgSpec => /\ WebSpec
               /\ (Spec /\ []RunsMqtt) \/ (FiveSpec /\ []~RunsMqtt)
<1>1. MsgInit => WebInit /\ Init /\ FiveInit
  BY DEF MsgInit, FiveInit
<1>2. [MsgNext]_allVars =>
         /\ [WebNext]_webVars
         /\ RunsMqtt => RunsMqtt' /\ [Next]_vars
         /\ ~RunsMqtt => (~RunsMqtt)' /\ [FiveNext]_fiveVars
  BY DEF MsgNext, InWeb, InMqtt, InFive, allVars, fiveVars, RunsMqtt
<1>3. MsgSpec => MsgInit /\ [][MsgNext]_allVars
  BY DEF MsgSpec
<1> QED
  BY <1>1, <1>2, <1>3, PTL DEF WebSpec, Spec, FiveSpec

\* For all bounds and in every environment: the variables of the three demos keep their
\* types, no queue exceeds its capacity, and the MQTT 5 client stores its own message
\* at most once.
THEOREM MsgTypesCorrect == MsgSpec => []AllTypesOK
<1>1. WebInv /\ MqttInv /\ RunsMqtt => AllTypesOK
  BY DEF RunsMqtt, AllTypesOK, WebInv, MqttInv
<1>2. WebInv /\ FiveInv /\ ~RunsMqtt => AllTypesOK
  BY DEF RunsMqtt, AllTypesOK, WebInv, FiveInv
<1> QED
  BY <1>1, <1>2, MsgRunsEach, WebInvariant, MqttInvariant, FiveInvariant, PTL

\* For all bounds and in every environment: every safety property TLC checks of the
\* composed specification holds.
THEOREM MsgSafe ==
    MsgSpec => [](WireIsPrefix /\ NothingHeldAtEnd /\ NeverStranded) /\ NoReportAfterFree
BY MsgRunsEach, WebWireIsPrefix, WebNothingHeld, MqttNoReportAfterFree,
   FiveNoReportAfterFree, MqttNeverStranded, FiveNeverStranded, PTL
=============================================================================
