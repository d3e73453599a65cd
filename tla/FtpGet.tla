------------------------------- MODULE FtpGet -------------------------------
(***************************************************************************)
(* The FTP download demo                                                   *)
(* (network/network_protocol/ftp/get/ftp_get_demo.c): the session of       *)
(* FtpSession with a download into a local file, which the program then    *)
(* deletes on the server.                                                  *)
(***************************************************************************)
EXTENDS FtpSession

GetInit == FtpInit /\ ftp = "get" /\ localLen = 0

\* qurl_ftp_demo_get up to the start of the transfer: file, then URL.
get_start ==
    /\ pc = "get"
    /\ IF currentDir = NULL THEN Crash
       ELSE /\ UNCHANGED <<qurl, currentDir, last_reply_Dir, server_ap, used_len, total_len,
                           leaked, server, localLen>>
            /\ \/ /\ pc' = "list" /\ result' = "failed" /\ trouble' = TRUE
                  /\ UNCHANGED <<url, opened>>
               \/ /\ pc' = "list" /\ result' = "failed" /\ trouble' = TRUE
                  /\ url' = FALSE /\ UNCHANGED opened
               \/ /\ pc' = "transfer" /\ url' = TRUE /\ opened' = TRUE
                  /\ UNCHANGED <<result, trouble>>

\* Mutant: a short write counts as a whole one.
qurl_ftp_demo_vfs_write_short(n, k) ==
    [ret |-> IF k = 0 THEN -1 ELSE 0, open |-> k # 0]

\* How a write ends, for n bytes of which k reached the file: -1 is returned
\* for a short one, and the file is closed.
qurl_ftp_demo_vfs_write(n, k) ==
    [ret |-> IF k < n THEN -1 ELSE 0, open |-> k = n]

\* What the callback reports to the library: 0 makes it give up.
Reported(n, ret) == IF ret < 0 THEN 0 ELSE n

\* Mutant: a failed transfer returns before the file is closed.
get_exit_keeps_file(res) ==
    /\ pc' = "list"
    /\ opened' = (opened /\ res = "failed")
    /\ result' = res

\* The end of qurl_ftp_demo_get; the file is closed once more if a failed write
\* closed it.
get_exit(res) ==
    /\ pc' = "list"
    /\ opened' = FALSE
    /\ result' = res

\* The library passes on the next bytes of the server's file.
qurl_ftp_download_data_cb ==
    /\ pc = "transfer" /\ files[InDir(currentDir)] # None
    /\ \E n \in 1..MaxBlock : \E k \in 0..n :
          LET w == qurl_ftp_demo_vfs_write(n, k) IN
          /\ used_len + n <= files[InDir(currentDir)]
          /\ localLen' = IF localLen = used_len THEN used_len + k ELSE localLen
          /\ used_len' = IF w.ret < 0 THEN used_len ELSE used_len + n
          /\ IF Reported(n, w.ret) = n
             THEN pc' = "transfer" /\ opened' = w.open /\ UNCHANGED <<result, trouble>>
             ELSE get_exit("failed") /\ trouble' = TRUE
    /\ UNCHANGED <<qurl, strings, total_len, leaked, server>>

\* The transfer ends: all is there, the server has no such file, or the
\* connection fails.
get_end ==
    /\ pc = "transfer"
    /\ \/ /\ files[InDir(currentDir)] = used_len
          /\ get_exit("ok") /\ UNCHANGED trouble
       \/ /\ files[InDir(currentDir)] = None
          /\ get_exit("failed") /\ UNCHANGED trouble
       \/ get_exit("failed") /\ trouble' = TRUE
    /\ UNCHANGED <<qurl, strings, used_len, total_len, leaked, server, localLen>>

qurl_ftp_demo_get == get_start \/ qurl_ftp_download_data_cb \/ get_end

ftp_get_demo ==
    \/ qurl_ftp_demo_open("open", "mkdir")
    \/ qurl_ftp_demo_mkdir("mkdir", "cwd")
    \/ qurl_ftp_demo_cwd("cwd", "/t", "cwd_pwd", "pwd")
    \/ cwd_pwd("cwd_pwd", "/t", "pwd")
    \/ qurl_ftp_demo_pwd("pwd", "size")
    \/ qurl_ftp_demo_size("size", "get")
    \/ qurl_ftp_demo_get
    \/ qurl_ftp_demo_list("list", "nlist")
    \/ qurl_ftp_demo_nlist("nlist", "delete")
    \/ qurl_ftp_demo_delete("delete", "back")
    \/ qurl_ftp_demo_cwd("back", "/", "back_pwd", "rmd")
    \/ cwd_pwd("back_pwd", "/", "rmd")
    \/ qurl_ftp_demo_rmd("rmd", "close")
    \/ qurl_ftp_demo_close("close")

GetDone == pc \in {"end", "crashed"} /\ UNCHANGED ftpVars

GetNext == (ftp_get_demo /\ UNCHANGED ftp) \/ GetDone
GetSpec == GetInit /\ [][GetNext]_ftpVars

-----------------------------------------------------------------------------
\* A download the library reports as successful has put every byte of the
\* server's file into the local file, although a write may stop short at any
\* byte (qurl_ftp_download_data_cb answers 0 then).  The program deletes the
\* server's file next.
DownloadWhole ==
    ftp = "get" /\ result = "ok" => localLen = used_len /\ localLen = FileLen

-----------------------------------------------------------------------------
(* What makes DownloadWhole, LocalFileClosed and CleanRun inductive.       *)

\* The file is open during the transfer only, and then holds all that was passed on;
\* the files on the server are whole or not there.
Downloading ==
    /\ ftp = "get" /\ (pc = "open" => ~trouble)
    /\ used_len \in Nat /\ files \in [Files -> {None, FileLen}]
    /\ opened \in BOOLEAN /\ (opened => pc = "transfer")
    /\ pc \in {"open", "mkdir", "cwd", "cwd_pwd", "pwd", "size", "get", "transfer"} =>
          localLen = used_len /\ result = "none"
    /\ pc \in {"open", "mkdir", "cwd", "cwd_pwd", "pwd", "size", "get"} => used_len = 0

GetInv == Downloading /\ DownloadWhole /\ CleanSession /\ LocalFileClosed
=============================================================================
