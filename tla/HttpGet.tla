------------------------------- MODULE HttpGet -------------------------------
(***************************************************************************)
(* The HTTP download demo                                                  *)
(* (network/network_protocol/http/get/http_get_demo.c; https_get is the    *)
(* same file but for its name).                                            *)
(*                                                                         *)
(* One task runs the test that UNIR_HTTP_TEST selects: 1 a download into a *)
(* file, 5 the same from byte 10 on, 2 to 4 requests with a header of the  *)
(* program's own, which is passed by a callback, as data or as a file.     *)
(* The library calls the callbacks from inside qurl_core_perform.  Tests 2 *)
(* to 4 set no argument for the body callback, which then gets null.       *)
(* Bytes are their positions.  The file is opened without being truncated  *)
(* and never deleted: what an earlier run left in it is overwritten from   *)
(* the beginning.  Library, files and server are external; the server      *)
(* answers with a success, whose length it tells or not ("chunked"), or    *)
(* with an error, each with a body.                                        *)
(***************************************************************************)
EXTENDS Integers, Sequences

CONSTANTS
    Tests,          \* values of UNIR_HTTP_TEST to look at
    BodyLen,        \* length of the body the server sends
    FreeSize,       \* free space of the file system when the test starts
    OldLens,        \* lengths the file may have from an earlier run
    HeadLen,        \* length of head_data
    HttpBlock       \* most bytes the library passes to or from a callback at once

ASSUME HttpAssumption ==
    /\ BodyLen \in Nat /\ FreeSize \in Nat /\ HeadLen \in Nat /\ HttpBlock \in Nat
    /\ OldLens \subseteq Nat

VARIABLES
    test,
    http_pc,
    first_flag, chunk_encode, need_save, total_recv_cnt,    \* of g_demo_http
    http_fd,        \* g_demo_http->fd: "zero", "invalid" or "file"
    head_index,     \* of r_head_buf
    head,           \* positions of head_data the library was given
    resp,           \* the server's answer: "none", "success", "chunked" or "error"
    came,           \* bytes of the body that came so far
    file,           \* the file: each byte is a position of the body, or Old
    offset,         \* where the next byte is written
    oldLen,         \* length of the file before the test
    foreignClose,   \* history: descriptor 0 was closed, which is not the file
    http_result     \* what qurl_core_perform returned: "none", "ok" or "failed"

httpCtx  == <<first_flag, chunk_encode, need_save, total_recv_cnt, http_fd>>
disk     == <<file, offset, oldLen>>
httpVars == <<test, http_pc, httpCtx, head_index, head, resp, came, disk, foreignClose,
              http_result>>

Old == -1
Positions(a, n) == [i \in 1..n |-> a + i - 1]
Least(a, b) == IF a < b THEN a ELSE b
Most(a, b)  == IF a < b THEN b ELSE a

\* The structure is cleared by the tests that use it.
HttpInit ==
    /\ test \in Tests
    /\ http_pc = "start"
    /\ first_flag = 0 /\ chunk_encode = 0 /\ need_save = 0 /\ total_recv_cnt = 0
    /\ http_fd = "zero"
    /\ head_index = 0 /\ head = <<>>
    /\ resp = "none" /\ came = 0
    /\ oldLen \in OldLens /\ file = [i \in 1..oldLen |-> Old] /\ offset = 0
    /\ foreignClose = FALSE /\ http_result = "none"

\* exit: a descriptor that is not negative is closed.
HttpExit ==
    /\ http_pc' = "end"
    /\ foreignClose' = (foreignClose \/ http_fd' = "zero")

\* Tests 1 and 5 up to the request: the URL is refused, the file cannot be
\* opened, or both went well.
StartGet(of) ==
    /\ test = of /\ http_pc = "start"
    /\ \/ UNCHANGED httpCtx /\ HttpExit
       \/ /\ need_save' = 1 /\ http_fd' = "invalid" /\ HttpExit
          /\ UNCHANGED <<first_flag, chunk_encode, total_recv_cnt>>
       \/ /\ need_save' = 1 /\ http_fd' = "file" /\ http_pc' = "perform"
          /\ UNCHANGED <<first_flag, chunk_encode, total_recv_cnt, foreignClose>>
    /\ UNCHANGED <<test, head_index, head, resp, came, disk, http_result>>

qurl_http_app_get       == StartGet(1)
qurl_http_app_get_range == StartGet(5)

\* Tests 3 and 4: no file, and the library has the header.
StartWithHead(of) ==
    /\ test = of /\ http_pc = "start"
    /\ http_pc' = "perform"
    /\ head' = Positions(0, HeadLen)
    /\ UNCHANGED <<test, httpCtx, head_index, resp, came, disk, foreignClose, http_result>>

qurl_http_app_get_upload_head      == StartWithHead(3)
qurl_http_app_get_upload_file_head == StartWithHead(4)

\* Test 2: the library asks for the header until it gets nothing more.
qurl_http_app_get_raw_head ==
    /\ test = 2 /\ http_pc = "start" /\ http_pc' = "header"
    /\ UNCHANGED <<test, httpCtx, head_index, head, resp, came, disk, foreignClose, http_result>>

\* What is copied is the beginning of the header, whatever r_index is.
qurl_http_app_r_raw_head_cb ==
    /\ http_pc = "header"
    /\ \E size \in 1..HttpBlock :
          LET n == Least(size, HeadLen - head_index) IN
          /\ head' = head \o Positions(0, n)
          /\ head_index' = head_index + n
          /\ http_pc' = IF n = 0 THEN "perform" ELSE "header"
    /\ UNCHANGED <<test, httpCtx, resp, came, disk, foreignClose, http_result>>

-----------------------------------------------------------------------------
(* The body, during qurl_core_perform.                                     *)

Answer ==
    /\ http_pc = "perform" /\ resp = "none"
    /\ resp' \in {"success", "chunked", "error"}
    /\ UNCHANGED <<test, http_pc, httpCtx, head_index, head, came, disk, foreignClose, http_result>>

\* qosa_vfs_write: the file when the next k bytes of the body are written into it.
Written(k) ==
    [i \in 1..Most(Len(file), offset + k) |->
        IF i \in offset + 1..offset + k THEN came + (i - offset) - 1 ELSE file[i]]

\* What is free of the file system with l bytes in the file.
FreeWith(l) == FreeSize - (l - oldLen)

\* The part of qurl_http_demo_save_file that looks at the answer.
FirstCheckFails ==
    first_flag # 0 /\ (resp = "error" \/ (resp = "success" /\ BodyLen > FreeSize))

\* chunk_encode after that part.
ChunkEncode ==
    IF first_flag = 0 \/ FirstCheckFails THEN chunk_encode
    ELSE IF resp = "chunked" THEN 1 ELSE 0

\* With an unknown length the space is looked at for every block.
NoSpace(n) == ChunkEncode = 1 /\ n >= FreeWith(Len(file))

\* Mutant: a write that stops short is not noticed.
qurl_http_demo_save_file_short(n, k) ==
    /\ file' = Written(k) /\ offset' = offset + k
    /\ total_recv_cnt' = total_recv_cnt + k
    /\ UNCHANGED <<http_fd, http_result, first_flag, chunk_encode, need_save>>

\* qurl_http_demo_save_file, of whose n bytes k reach the file; a write that
\* stops short closes the file and leaves descriptor 0 behind.
qurl_http_demo_save_file(n, k) ==
    LET refused == FirstCheckFails \/ NoSpace(n)
        whole   == ~refused /\ k = n IN
    /\ chunk_encode' = ChunkEncode
    /\ file' = IF refused THEN file ELSE Written(k)
    /\ offset' = IF refused THEN offset ELSE offset + k
    /\ http_fd' = IF refused \/ whole THEN http_fd ELSE "zero"
    /\ total_recv_cnt' = IF whole THEN total_recv_cnt + n ELSE total_recv_cnt
    /\ http_result' = IF whole THEN http_result ELSE "failed"
    /\ UNCHANGED <<first_flag, need_save>>

\* A callback that returns less than it was given ends the request.
qurl_http_app_w_cb ==
    /\ http_pc = "perform" /\ resp # "none" /\ http_result = "none"
    /\ \E n \in 1..HttpBlock : \E k \in 0..n :
          /\ came + n <= BodyLen /\ came' = came + n
          /\ IF need_save = 1
             THEN /\ FreeWith(Len(Written(k))) >= 0
                  /\ qurl_http_demo_save_file(n, k)
             ELSE http_result' = "failed" /\ UNCHANGED <<httpCtx, file, offset>>
    /\ UNCHANGED <<test, http_pc, head_index, head, resp, oldLen, foreignClose>>

\* The request ends: a callback gave up, all came, or the connection failed.
HttpEnds ==
    /\ http_pc = "perform"
    /\ \/ http_result = "failed" /\ UNCHANGED http_result
       \/ http_result = "none" /\ resp # "none" /\ came = BodyLen /\ http_result' = "ok"
       \/ http_result = "none" /\ http_result' = "failed"
    /\ UNCHANGED <<test, httpCtx, head_index, head, resp, came, disk>>
    /\ IF need_save = 1
       THEN HttpExit ELSE http_pc' = "end" /\ UNCHANGED foreignClose

unir_qurl_http_app_init ==
    \/ qurl_http_app_get \/ qurl_http_app_get_raw_head \/ qurl_http_app_get_upload_head
    \/ qurl_http_app_get_upload_file_head \/ qurl_http_app_get_range
    \/ qurl_http_app_r_raw_head_cb \/ Answer \/ qurl_http_app_w_cb \/ HttpEnds

HttpDone == http_pc = "end" /\ UNCHANGED httpVars
HttpNext == unir_qurl_http_app_init \/ HttpDone
HttpSpec == HttpInit /\ [][HttpNext]_httpVars

-----------------------------------------------------------------------------
HttpTypeOK ==
    /\ http_pc \in {"start", "header", "perform", "end"}
    /\ resp \in {"none", "success", "chunked", "error"} /\ foreignClose \in BOOLEAN
    /\ first_flag \in 0..1 /\ chunk_encode \in 0..1 /\ need_save \in 0..1
    /\ total_recv_cnt \in 0..BodyLen /\ came \in 0..BodyLen
    /\ http_fd \in {"zero", "invalid", "file"} /\ head_index \in 0..HeadLen
    /\ head \in Seq(0..(HeadLen - 1)) /\ Len(head) <= HeadLen
    /\ file \in Seq({Old} \cup 0..(BodyLen - 1)) /\ offset \in 0..BodyLen /\ oldLen \in OldLens
    /\ http_result \in {"none", "ok", "failed"}

\* What was written since the file was opened is a beginning of what the server
\* sent, in order and without gaps, wherever a write stopped short
\* (unir_http_demo_vfs_write).  Behind it there is nothing but what an earlier run
\* left: the file is not truncated, so that a shorter body keeps the old tail.  When
\* the request succeeded all of the body was written, and it is the file that is
\* closed at the end and not descriptor 0.
SavedIsPrefix ==
    /\ Len(file) = Most(oldLen, offset)
    /\ \A i \in 1..Len(file) : file[i] = IF i <= offset THEN i - 1 ELSE Old
    /\ offset >= total_recv_cnt
    /\ http_result = "ok" => offset = came /\ ~foreignClose

\* qurl_http_demo_save_file "determines whether download can continue based on
\* response status code and content length" (lines 203-204): the body of an
\* error answer is not saved.
ErrorNotSaved == resp = "error" => offset = 0

-----------------------------------------------------------------------------
(* What makes SavedIsPrefix inductive.                                     *)

\* Before the request nothing came; until the request fails, all that came is in the
\* file, which is open, and a program without a file got nothing.
AllSaved ==
    /\ http_pc # "end" => ~foreignClose /\ http_result # "ok"
    /\ http_pc \in {"start", "header"} => http_result = "none" /\ came = 0 /\ need_save = 0
    /\ http_pc = "start" => head_index = 0
    /\ http_pc \in {"start", "header"} => Len(head) = head_index
    /\ http_result # "failed" => offset = came /\ total_recv_cnt = came
    /\ http_pc = "perform" /\ need_save = 1 /\ http_result = "none" => http_fd = "file"

HttpInv == HttpTypeOK /\ AllSaved /\ SavedIsPrefix
=============================================================================
