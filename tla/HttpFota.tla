------------------------------ MODULE HttpFota ------------------------------
(***************************************************************************)
(* The firmware update over HTTP (system/fota/http/http_fota_demo.c).      *)
(*                                                                         *)
(* The image is written as it comes.  A request that succeeds but leaves   *)
(* the image short is followed by another one for the rest, up to four     *)
(* requests; the image is then verified and, if that succeeds, the module  *)
(* restarts into the update.  Status and length are looked at in the first *)
(* reply only: a later reply is written whatever it is.                    *)
(*                                                                         *)
(* Library, server and the update service (qosa_fota) are external.        *)
(* qosa_fota_init starts an empty image.  Bytes are their positions, those *)
(* of an error page are -1.  The library reports a failed request when the *)
(* callback refuses data, and may report success for a short body.         *)
(***************************************************************************)
EXTENDS Integers, Sequences

CONSTANTS
    ImgLen,         \* length of the image on the server
    FreeSizes,      \* free spaces of the file system to look at
    FotaBlock,      \* most bytes the library passes to the callback at once
    MaxResume       \* limit on resume_dload_count (3)

ASSUME HttpFotaAssumption == ImgLen \in Nat /\ FotaBlock \in Nat /\ MaxResume \in Nat

VARIABLES
    fota_pc,
    fota_ptr,               \* whether qosa_fota_init gave a handle
    fota_first, fota_chunk, \* first_flag and chunk_encode of the structure
    dload_want_size, resume_dload_count,
    verbose,                \* the build: QLOGV evaluates its arguments
    reply,                  \* what the server sends: "none", "length", "chunked" or "error"
    next,                   \* position of the next byte it sends
    image,                  \* bytes written so far
    strange,                \* history: a later reply was an error or ignored the range
    unsure                  \* history: the size could not be asked after a request

fotaState == <<fota_ptr, fota_first, fota_chunk, dload_want_size, resume_dload_count, verbose>>
fotaVars  == <<fota_pc, fotaState, reply, next, image, strange, unsure>>

HttpFotaInit ==
    /\ fota_pc = "net" /\ fota_ptr = FALSE /\ fota_first = FALSE /\ fota_chunk = FALSE
    /\ dload_want_size = 0 /\ resume_dload_count = 0 /\ verbose \in BOOLEAN /\ reply = "none" /\ next = 0
    /\ image = <<>> /\ strange = FALSE /\ unsure = FALSE

-----------------------------------------------------------------------------
unir_fota_net_active ==
    /\ fota_pc = "net"
    /\ fota_pc' \in {"init", "deinit"}
    /\ UNCHANGED <<fotaState, reply, next, image, strange, unsure>>

\* Without a handle ret still says success, and nothing is verified.
FotaInit ==
    /\ fota_pc = "init"
    /\ fota_ptr' \in BOOLEAN
    /\ fota_pc' = IF fota_ptr' THEN "loop" ELSE "verify"
    /\ UNCHANGED <<fota_first, fota_chunk, dload_want_size, resume_dload_count, verbose, reply,
                   next, image, strange, unsure>>

\* Mutant: every request asks for the whole image.
StartPos_none(start_pos) == 0

\* Where the server is asked to start: the header field Range.
StartPos(start_pos) == start_pos

\* The head of the loop and the request; sizes, handle or connection may fail.  The
\* server may not know the range and start at the beginning.
unirtos_fota_http_start ==
    /\ fota_pc = "loop"
    /\ \/ fota_pc' = "deinit" /\ UNCHANGED <<reply, next, strange>>
       \/ /\ fota_pc' = "body"
          /\ reply' \in {"length", "chunked", "error"}
          /\ next' \in {StartPos(Len(image)), 0}
          /\ strange' = \/ strange
                        \/ fota_first /\ (reply' = "error" \/ next' # StartPos(Len(image)))
    /\ UNCHANGED <<fotaState, image, unsure>>

BodyBlock(n) == [i \in 1 .. n |-> IF reply = "error" THEN -1 ELSE next + i - 1]

\* The body callback, called with the next n bytes; an error page is no longer than
\* the image.  The first call of the program looks at the reply and refuses an error
\* or an image that finds no room; the write may fail as well, and the request with it.
http_read_body_cb(n, room) ==
    /\ fota_pc = "body" /\ next + n <= ImgLen
    /\ IF ~fota_first /\ (reply = "error" \/ (reply = "length" /\ ImgLen - next > room))
       THEN fota_pc' = "deinit" /\ UNCHANGED <<fotaState, next, image>>
       ELSE /\ IF fota_first THEN UNCHANGED <<fota_chunk, dload_want_size>>
               ELSE /\ fota_chunk' = (reply = "chunked")
                    /\ dload_want_size' = IF reply = "length" THEN ImgLen - next ELSE 0
            /\ fota_first' = TRUE
            /\ \/ /\ image' = image \o BodyBlock(n)
                  /\ next' = next + n /\ UNCHANGED fota_pc
               \/ fota_pc' = "deinit" /\ UNCHANGED <<next, image>>
            /\ UNCHANGED <<fota_ptr, resume_dload_count, verbose>>
    /\ UNCHANGED <<reply, strange, unsure>>

\* The request ends, after all of the body or before, well or not.  A failed one is
\* not repeated.
FotaPerform ==
    /\ fota_pc = "body"
    /\ fota_pc' \in {"check", "deinit"}
    /\ UNCHANGED <<fotaState, reply, next, image, strange, unsure>>

\* Mutant: one request has to do.
CheckSize_once ==
    /\ fota_pc = "check"
    /\ \/ unsure' = TRUE /\ fota_pc' = "verify"
       \/ fota_pc' = "verify" /\ UNCHANGED unsure
    /\ UNCHANGED <<fotaState, reply, next, image, strange>>

\* The end of the loop.  When the size cannot be asked, and when the requests are
\* used up, ret still says success.  The requests are counted in an argument of QLOGV:
\* a build without these messages resumes without end.
CheckSize ==
    /\ fota_pc = "check"
    /\ \/ unsure' = TRUE /\ fota_pc' = "verify" /\ UNCHANGED resume_dload_count
       \/ /\ IF dload_want_size > Len(image)
             THEN /\ resume_dload_count' = resume_dload_count + (IF verbose THEN 1 ELSE 0)
                  /\ fota_pc' = IF resume_dload_count' <= MaxResume THEN "loop" ELSE "verify"
             ELSE fota_pc' = "verify" /\ UNCHANGED resume_dload_count
          /\ UNCHANGED unsure
    /\ UNCHANGED <<fota_ptr, fota_first, fota_chunk, dload_want_size, verbose, reply, next,
                   image, strange>>

\* What the update service says of the image is its own affair.
VerifyImage ==
    /\ fota_pc = "verify"
    /\ fota_pc' \in {"reset", "deinit"}
    /\ UNCHANGED <<fotaState, reply, next, image, strange, unsure>>

FotaDeinit ==
    /\ fota_pc = "deinit"
    /\ fota_pc' = "end" /\ fota_ptr' = FALSE
    /\ UNCHANGED <<fota_first, fota_chunk, dload_want_size, resume_dload_count, verbose, reply,
                   next, image, strange, unsure>>

\* Nothing follows the end of the task or the restart.
FotaOver == fota_pc \in {"end", "reset"} /\ UNCHANGED fotaVars

unir_http_fota_demo_process ==
    \/ unir_fota_net_active \/ FotaInit \/ unirtos_fota_http_start
    \/ \E n \in 1 .. FotaBlock, room \in FreeSizes : http_read_body_cb(n, room)
    \/ FotaPerform \/ CheckSize \/ VerifyImage \/ FotaDeinit

-----------------------------------------------------------------------------
HttpFotaNext == unir_http_fota_demo_process \/ FotaOver

HttpFotaSpec == HttpFotaInit /\ [][HttpFotaNext]_fotaVars

-----------------------------------------------------------------------------
(* Properties.                                                             *)

\* Every variable has its type.
HttpFotaTypeOK ==
    /\ fota_pc \in {"net", "init", "loop", "body", "check", "verify", "reset", "deinit", "end"}
    /\ fota_ptr \in BOOLEAN /\ fota_first \in BOOLEAN /\ fota_chunk \in BOOLEAN
    /\ strange \in BOOLEAN /\ unsure \in BOOLEAN /\ verbose \in BOOLEAN
    /\ dload_want_size \in 0 .. ImgLen /\ resume_dload_count \in 0 .. MaxResume + 1
    /\ reply \in {"none", "length", "chunked", "error"} /\ next \in Nat
    /\ image \in Seq(-1 .. ImgLen - 1)

\* However often the download was interrupted, the image is a gapless beginning of
\* the server's, as long as the later replies are what was asked for.
ImageInOrder == strange \/ image = [i \in 1 .. Len(image) |-> i - 1]

\* The image that is verified is the whole one, although every later reply is
\* shorter than the first, whose length is the one compared with: unless its length
\* was not known, its size could not be asked, or all requests are used up.
ImageWhole ==
    fota_pc \in {"verify", "reset"} /\ ~strange
        => \/ Len(image) = ImgLen
           \/ dload_want_size = 0 \/ unsure \/ resume_dload_count > MaxResume

\* The update over HTTP: the image is in order at any time and whole when it is
\* verified.
ImageSound == ImageInOrder /\ ImageWhole

-----------------------------------------------------------------------------
(* What makes ImageSound inductive.                                        *)

\* A request that is what was asked for goes on where the image ends.
Continues ==
    ~strange => /\ Len(image) <= ImgLen
                /\ fota_pc = "body" => next = Len(image) /\ (fota_first => reply # "error")

\* Before the first body nothing is known and nothing written; its length is that of
\* the image, because the first request is for all of it.
FirstReply ==
    /\ fota_pc \in {"net", "init"} => ~fota_first
    /\ ~fota_first => image = <<>> /\ dload_want_size = 0 /\ ~strange
    /\ dload_want_size \in {0, ImgLen}
    /\ fota_pc \in {"net", "init", "loop", "body", "check"} => resume_dload_count <= MaxResume

HttpFotaInv == HttpFotaTypeOK /\ Continues /\ FirstReply /\ ImageSound
=============================================================================
