------------------------------- MODULE FtpPut -------------------------------
(***************************************************************************)
(* The FTP upload demo                                                     *)
(* (network/network_protocol/ftp/put/ftp_put_demo.c): the session of       *)
(* FtpSession with an upload of a local file, before the size is asked     *)
(* for.  The functions the program shares with the download demo are       *)
(* copies and appear here as calls at their places.                        *)
(***************************************************************************)
EXTENDS FtpSession

VARIABLE cut        \* history: reading the local file failed

putVars == <<ftpVars, cut>>

PutInit == FtpInit /\ ftp = "put" /\ localLen = FileLen /\ cut = FALSE

-----------------------------------------------------------------------------
(* qurl_ftp_demo_put.                                                      *)

\* The structure is cleared; the file is opened and its length asked for.  A
\* failed fstat leaves the length 0 and is what the function returns.
put_start ==
    /\ pc = "put"
    /\ IF currentDir = NULL THEN Crash
       ELSE /\ used_len' = 0
            /\ UNCHANGED <<qurl, currentDir, last_reply_Dir, server_ap, leaked, localLen>>
            /\ \/ /\ pc' = "size" /\ result' = "failed" /\ trouble' = TRUE
                  /\ total_len' = 0 /\ url' \in {url, FALSE} /\ UNCHANGED <<opened, server>>
               \/ \E stat \in BOOLEAN :
                     /\ pc' = "transfer" /\ url' = TRUE /\ opened' = TRUE
                     /\ total_len' = IF stat THEN localLen ELSE 0
                     /\ result' = IF stat THEN "none" ELSE "failed"
                     /\ trouble' = (trouble \/ ~stat)
                     /\ UNCHANGED server
    /\ UNCHANGED cut

\* The server takes the file under the joined path, if its directory exists.
Takes == testDir \/ currentDir # "/t/"

\* Mutant: the result of the transfer is dropped.
put_exit_always_ok(ok) ==
    /\ pc' = "size"
    /\ opened' = FALSE
    /\ result' = IF result # "failed" THEN "ok" ELSE "failed"

\* The end of the function; a failed read has closed the file before.
put_exit(ok) ==
    /\ pc' = "size"
    /\ opened' = FALSE
    /\ result' = IF ok /\ result # "failed" THEN "ok" ELSE "failed"

\* Mutant: the rest of the file is not looked at.
ReadLen_not_cut(size) == size

\* How many bytes the callback reads when the library asks for size.
ReadLen(size) == IF total_len - used_len < size THEN total_len - used_len ELSE size

\* The library asks for the next bytes.  A read that fails closes the file and
\* answers 0, which is how the end of the data is told.
qurl_ftp_upload_data_cb ==
    /\ pc = "transfer" /\ Takes /\ used_len < total_len /\ ~cut
    /\ \/ \E size \in 1..MaxBlock :
             /\ used_len' = used_len + ReadLen(size)
             /\ files' = [files EXCEPT ![Joined(currentDir)] = used_len']
             /\ UNCHANGED <<opened, cut, trouble>>
       \/ /\ opened' = FALSE /\ cut' = TRUE /\ trouble' = TRUE
          /\ UNCHANGED <<used_len, files>>
    /\ UNCHANGED <<pc, qurl, strings, total_len, leaked, testDir, localLen, result>>

\* The library has its end of data, or the server refuses, or the connection
\* fails.  What the server was sent, if it got that far, is the file.
put_end ==
    /\ pc = "transfer"
    /\ \/ /\ Takes /\ (used_len = total_len \/ cut)
          /\ put_exit(TRUE) /\ UNCHANGED trouble
          /\ files' = [files EXCEPT ![Joined(currentDir)] = used_len]
       \/ /\ put_exit(FALSE) /\ trouble' = TRUE
          /\ \/ UNCHANGED files
             \/ Takes /\ files' = [files EXCEPT ![Joined(currentDir)] = used_len]
    /\ UNCHANGED <<qurl, strings, used_len, total_len, leaked, testDir, localLen, cut>>

qurl_ftp_demo_put == put_start \/ qurl_ftp_upload_data_cb \/ put_end

-----------------------------------------------------------------------------
(* The functions copied from the download demo, at their places.           *)

put_open   == qurl_ftp_demo_open("open", "mkdir") /\ UNCHANGED cut
put_mkdir  == qurl_ftp_demo_mkdir("mkdir", "cwd") /\ UNCHANGED cut
put_cwd    == /\ \/ qurl_ftp_demo_cwd("cwd", "/t", "cwd_pwd", "pwd")
                 \/ cwd_pwd("cwd_pwd", "/t", "pwd")
              /\ UNCHANGED cut
put_pwd    == qurl_ftp_demo_pwd("pwd", "put") /\ UNCHANGED cut
put_size   == qurl_ftp_demo_size("size", "list") /\ UNCHANGED cut
put_list   == qurl_ftp_demo_list("list", "nlist") /\ UNCHANGED cut
put_nlist  == qurl_ftp_demo_nlist("nlist", "delete") /\ UNCHANGED cut
put_delete == qurl_ftp_demo_delete("delete", "back") /\ UNCHANGED cut
put_back   == /\ \/ qurl_ftp_demo_cwd("back", "/", "back_pwd", "rmd")
                 \/ cwd_pwd("back_pwd", "/", "rmd")
              /\ UNCHANGED cut
put_rmd    == qurl_ftp_demo_rmd("rmd", "close") /\ UNCHANGED cut
put_close  == qurl_ftp_demo_close("close") /\ UNCHANGED cut

ftp_put_demo ==
    \/ put_open \/ put_mkdir \/ put_cwd \/ put_pwd \/ qurl_ftp_demo_put \/ put_size
    \/ put_list \/ put_nlist \/ put_delete \/ put_back \/ put_rmd \/ put_close

PutDone == pc \in {"end", "crashed"} /\ UNCHANGED putVars

PutNext == (ftp_put_demo /\ UNCHANGED ftp) \/ PutDone
PutSpec == PutInit /\ [][PutNext]_putVars

-----------------------------------------------------------------------------
\* When qurl_ftp_demo_put returned 0, the file is under the path that SIZE and DELE
\* use next, whatever became of the current directory: the directory and the name
\* written one after the other, with or without the '/' that a failed PWD leaves
\* out.  It is the whole local file, unless a read failed: the library takes that for
\* the end of the data, and the upload then succeeds with a proper beginning.
UploadWhole ==
    ftp = "put" /\ pc \in {"size", "list", "nlist", "delete"} /\ result = "ok" =>
        LET stored == files[Joined(currentDir)]
        IN  IF cut THEN stored \in 0 .. localLen - 1 ELSE stored = localLen

-----------------------------------------------------------------------------
(* What makes UploadWhole, LocalFileClosed and CleanRun inductive.         *)

\* The places before the transfer.
BeforePut == {"open", "mkdir", "cwd", "cwd_pwd", "pwd", "put"}

\* The file is open during the transfer only, which has a directory to go to and,
\* unless the length could not be asked, the length of the file.  A failed read is its
\* last and leaves something unread.
Uploading ==
    /\ ftp = "put" /\ cut \in BOOLEAN /\ (pc = "open" => ~trouble)
    /\ currentDir \in Dirs \cup {NULL} /\ last_reply_Dir \in Dirs \cup {NULL}
    /\ files \in [Files -> Int] /\ used_len \in Int /\ total_len \in Int /\ localLen \in Nat
    /\ opened \in BOOLEAN /\ (opened => pc = "transfer")
    /\ pc = "transfer" => /\ currentDir # NULL
                          /\ result # "failed" => total_len = localLen
                          /\ used_len >= 0 /\ (cut => used_len < total_len)
    /\ pc \in BeforePut => ~cut

PutInv == Uploading /\ UploadWhole /\ CleanSession /\ LocalFileClosed
=============================================================================
