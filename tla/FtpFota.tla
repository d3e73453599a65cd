------------------------------ MODULE FtpFota ------------------------------
(***************************************************************************)
(* The firmware update over FTP (system/fota/ftp/ftp_fota_demo.c).         *)
(*                                                                         *)
(* The program asks the server for the length of the image, downloads it   *)
(* in one request and verifies it.  The callback works out how much of a   *)
(* block belongs to the image (realsize) but writes all of the block.      *)
(*                                                                         *)
(* Library, server and update service are external, as in HttpFota.  The   *)
(* file on the server may be replaced by a shorter or a longer one between *)
(* the two requests; the program compares no lengths after the download.   *)
(***************************************************************************)
EXTENDS Integers, Sequences

CONSTANTS
    UpdLen,         \* length of the image on the server
    Growth,         \* most bytes by which a longer one exceeds it
    UpdRooms,       \* free spaces of the file system to look at
    UpdBlock        \* most bytes the library passes to the callback at once

ASSUME FtpFotaAssumption == UpdLen \in Nat /\ Growth \in Nat

VARIABLES
    upd_pc,
    upd_fota_ptr,           \* whether qosa_fota_init gave a handle
    current_dl_len,         \* the length asked for, or Unknown
    sent,                   \* length of the file the server sends
    upd_came,               \* history: bytes the library passed to the callback
    current_dl_offset,      \* bytes the callback counted
    upd_image,              \* the bytes written so far, each by its place in the file
    skipped                 \* history: the download was skipped with err at success

updVars == <<upd_pc, upd_fota_ptr, current_dl_len, sent, upd_came, current_dl_offset, upd_image,
             skipped>>

\* What a step outside the download leaves alone.
updData == <<upd_came, current_dl_offset, upd_image>>

Unknown == -1       \* 0xFFFFFFFF

FtpFotaInit ==
    /\ upd_pc = "net" /\ upd_fota_ptr = FALSE /\ current_dl_len = 0 /\ sent = 0
    /\ upd_came = 0 /\ current_dl_offset = 0 /\ upd_image = <<>> /\ skipped = FALSE

LesserOf(a, b) == IF a < b THEN a ELSE b

-----------------------------------------------------------------------------
upd_net_active ==
    /\ upd_pc = "net"
    /\ upd_pc' \in {"init", "deinit"}
    /\ UNCHANGED <<upd_fota_ptr, current_dl_len, sent, updData, skipped>>

\* Without a handle err still says success.
UpdInit ==
    /\ upd_pc = "init"
    /\ current_dl_len' = Unknown
    /\ upd_fota_ptr' \in BOOLEAN
    /\ IF upd_fota_ptr' THEN upd_pc' = "new" /\ UNCHANGED skipped
                    ELSE upd_pc' = "verify" /\ skipped' = TRUE
    /\ UNCHANGED <<sent, updData>>

unir_fota_ftp_handle_new ==
    /\ upd_pc = "new"
    /\ \/ upd_pc' = "size" /\ UNCHANGED skipped
       \/ upd_pc' = "verify" /\ skipped' = TRUE
    /\ UNCHANGED <<upd_fota_ptr, current_dl_len, sent, updData>>

\* A reply without a length leaves the length at 0 and is a success.
unir_ftp_fota_get_file_size ==
    /\ upd_pc = "size"
    /\ \/ upd_pc' = "room" /\ current_dl_len' \in {0, UpdLen}
       \/ upd_pc' = "deinit" /\ UNCHANGED current_dl_len
    /\ UNCHANGED <<upd_fota_ptr, sent, updData, skipped>>

\* Too little room ends the program with err at success.
unirtos_fota_get_partition_space(room) ==
    /\ upd_pc = "room"
    /\ IF room < current_dl_len - current_dl_offset
       THEN upd_pc' = "verify" /\ skipped' = TRUE /\ UNCHANGED sent
       ELSE upd_pc' = "body" /\ sent' \in 0 .. UpdLen + Growth /\ UNCHANGED skipped
    /\ UNCHANGED <<upd_fota_ptr, current_dl_len, updData>>

\* How much of a block the callback takes to belong to the image; never 0 once more
\* has come than was asked for.
RealSize(n) ==
    IF current_dl_len = Unknown THEN n ELSE LesserOf(n, current_dl_len - current_dl_offset)

\* Mutant: only what belongs to the image is written.
WriteSize_realsize(n) == RealSize(n)

\* How much of a block is written: all of it, whatever realsize says.
WriteSize(n) == n

\* The callback refuses a block when it has all it asked for, unless an earlier one
\* went beyond that; the write may fail.  A refused block fails the request.
unir_fota_ftp_transmitter_cb(n) ==
    /\ upd_pc = "body" /\ upd_came + n <= sent
    /\ upd_came' = upd_came + n
    /\ \/ /\ RealSize(n) # 0
          /\ upd_image' = upd_image \o [i \in 1 .. WriteSize(n) |-> upd_came + i - 1]
          /\ current_dl_offset' = current_dl_offset + n
          /\ UNCHANGED upd_pc
       \/ upd_pc' = "deinit" /\ UNCHANGED <<current_dl_offset, upd_image>>
    /\ UNCHANGED <<upd_fota_ptr, current_dl_len, sent, skipped>>

\* RETR is a success when the server has sent the whole file.
unir_ftp_fota_get_file ==
    /\ upd_pc = "body"
    /\ \/ upd_pc' = "verify" /\ upd_came = sent
       \/ upd_pc' = "deinit"
    /\ UNCHANGED <<upd_fota_ptr, current_dl_len, sent, updData, skipped>>

UpdVerify ==
    /\ upd_pc = "verify"
    /\ upd_pc' \in {"reset", "deinit"}
    /\ UNCHANGED <<upd_fota_ptr, current_dl_len, sent, updData, skipped>>

UpdDeinit ==
    /\ upd_pc = "deinit"
    /\ upd_pc' = "end" /\ upd_fota_ptr' = FALSE
    /\ UNCHANGED <<current_dl_len, sent, updData, skipped>>

\* Nothing follows the end of the task or the restart.
UpdOver == upd_pc \in {"end", "reset"} /\ UNCHANGED updVars

unir_ftp_fota_demo_process ==
    \/ upd_net_active \/ UpdInit \/ unir_fota_ftp_handle_new
    \/ unir_ftp_fota_get_file_size
    \/ \E room \in UpdRooms : unirtos_fota_get_partition_space(room)
    \/ \E n \in 1 .. UpdBlock : unir_fota_ftp_transmitter_cb(n)
    \/ unir_ftp_fota_get_file \/ UpdVerify \/ UpdDeinit

-----------------------------------------------------------------------------
FtpFotaNext == unir_ftp_fota_demo_process \/ UpdOver

FtpFotaSpec == FtpFotaInit /\ [][FtpFotaNext]_updVars

-----------------------------------------------------------------------------
(* Properties.                                                             *)

\* Every variable has its type.
FtpFotaTypeOK ==
    /\ upd_pc \in {"net", "init", "new", "size", "room", "body", "verify", "reset", "deinit", "end"}
    /\ upd_fota_ptr \in BOOLEAN /\ skipped \in BOOLEAN
    /\ current_dl_len \in {Unknown} \union 0 .. UpdLen
    /\ sent \in 0 .. UpdLen + Growth /\ upd_came \in 0 .. UpdLen + Growth
    /\ current_dl_offset \in 0 .. UpdLen + Growth
    /\ upd_image \in Seq(0 .. UpdLen + Growth - 1)

\* The image that is verified is byte for byte the file the server sent, whether that
\* is as long as announced, shorter or longer: a block that reaches beyond the length
\* asked for is written whole or ends the download, and nothing is cut or left out.
\* There is no image when the download was skipped.
FtpImageWhole ==
    upd_pc \in {"verify", "reset"} /\ ~skipped => upd_image = [i \in 1 .. sent |-> i - 1]

-----------------------------------------------------------------------------
\* What makes FtpImageWhole inductive: while the download goes on, what was passed to
\* the callback, what it counted and what it wrote agree.
UpdInOrder ==
    /\ upd_image = [i \in 1 .. Len(upd_image) |-> i - 1]
    /\ upd_pc \in {"net", "init", "new", "size", "room"} => upd_came = 0
    /\ upd_pc \in {"net", "init", "new", "size", "room", "body"} =>
           Len(upd_image) = upd_came /\ current_dl_offset = upd_came
    /\ upd_pc = "body" => upd_came <= sent

FtpFotaInv == FtpFotaTypeOK /\ UpdInOrder /\ FtpImageWhole
=============================================================================
