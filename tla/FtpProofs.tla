------------------------------ MODULE FtpProofs ------------------------------
(***************************************************************************)
(* The FTP programs: for all lengths of the file and of the blocks, a      *)
(* transfer that is taken as successful is whole, the local file is closed *)
(* in the end, and a run without a failure touches nothing but its own     *)
(* directory, whose name the program puts together from the server's       *)
(* replies.                                                                *)
(***************************************************************************)
EXTENDS FtpGet, FtpPut, TLAPS

-----------------------------------------------------------------------------
(* The FTP session, of the download and of the upload.                     *)

\* What the header callback can leave in the two strings.
LEMMA RepliesTyped ==
    ASSUME currentDir \in Dirs \cup {NULL}, last_reply_Dir \in Dirs \cup {NULL},
           NEW ds \in SUBSET Dirs, NEW r \in Replies(ds)
    PROVE  r.last \in Dirs \cup {NULL} /\ r.cur \in Dirs \cup {NULL, "crash"}
BY DEF Replies, qurl_ftp_demo_open_header, qurl_ftp_demo_open_get_current_dir

\* A session that opens without trouble starts in the root.
LEMMA OpenClean ==
    ASSUME CleanSession, ~trouble, qurl_ftp_demo_open("open", "mkdir")
    PROVE  CleanSession'
<1> SUFFICES ASSUME ~trouble' PROVE CleanSession'
  BY DEF CleanSession
<1>1. /\ pc = "open" /\ pc' = "mkdir" /\ qurl' /\ server_ap' = "/" /\ currentDir' = "/" /\ UNCHANGED server
  BY DEF qurl_ftp_demo_open
<1> QED
  BY <1>1 DEF CleanSession, qurl_ftp_demo_open, InTestDir, server

\* Making the directory leaves a session without trouble in the root.
LEMMA MkdirClean ==
    ASSUME CleanSession, qurl_ftp_demo_mkdir("mkdir", "cwd")
    PROVE  CleanSession'
BY DEF CleanSession, qurl_ftp_demo_mkdir, Crash, InTestDir, strings, NULL, server

\* The first half of a change of directory leaves currentDir as it is.
LEMMA CwdClean ==
    ASSUME CleanSession,
           \/ qurl_ftp_demo_cwd("cwd", "/t", "cwd_pwd", "pwd")
           \/ qurl_ftp_demo_cwd("back", "/", "back_pwd", "rmd")
    PROVE  CleanSession'
<1> SUFFICES ASSUME ~trouble' PROVE CleanSession'
  BY DEF CleanSession
<1>1. /\ \/ pc = "cwd" /\ pc' = "cwd_pwd"
         \/ pc = "back" /\ pc' = "back_pwd"
      /\ ~trouble
      /\ UNCHANGED <<qurl, server_ap, currentDir, server>>
  <2>1. PICK c \in {[from |-> "cwd", dir |-> "/t", pwd |-> "cwd_pwd", to |-> "pwd"],
                    [from |-> "back", dir |-> "/", pwd |-> "back_pwd", to |-> "rmd"]} :
                qurl_ftp_demo_cwd(c.from, c.dir, c.pwd, c.to)
    OBVIOUS
  <2>2. pc = c.from /\ ~trouble
    BY <2>1 DEF qurl_ftp_demo_cwd, Crash
  <2>3. qurl /\ server_ap = "/" /\ currentDir \in {"/", "/t/"}
    BY <2>2 DEF CleanSession, InTestDir
  <2>4. PICK out \in Outcomes, r \in Replies({"/"}) :
                /\ pc' = IF r.cur = "crash" THEN "crashed" ELSE IF out = "ok" THEN c.pwd ELSE c.to
                /\ currentDir' = IF r.cur = "crash" THEN NULL ELSE r.cur
                /\ trouble' = (trouble \/ out # "ok"
                                  \/ r # [last |-> last_reply_Dir, cur |-> currentDir])
    BY <2>1, <2>3, Zenon DEF qurl_ftp_demo_cwd, NULL
  <2>5. out = "ok" /\ r = [last |-> last_reply_Dir, cur |-> currentDir]
    BY <2>4, Zenon
  <2>6. UNCHANGED <<qurl, server_ap, server>>
    BY <2>1, <2>3 DEF qurl_ftp_demo_cwd, NULL
  <2> QED
    BY <2>2, <2>3, <2>4, <2>5, <2>6
<1> QED
  BY <1>1 DEF CleanSession, InTestDir, server

\* The second half reads it back.
LEMMA PwdClean ==
    ASSUME CleanSession,
           \/ cwd_pwd("cwd_pwd", "/t", "pwd")
           \/ cwd_pwd("back_pwd", "/", "rmd")
    PROVE  CleanSession'
<1> SUFFICES ASSUME ~trouble' PROVE CleanSession'
  BY DEF CleanSession
<1>1. /\ \/ pc = "cwd_pwd" /\ pc' = "pwd" /\ currentDir' = "/t/"
         \/ pc = "back_pwd" /\ pc' = "rmd" /\ currentDir' = "/"
      /\ ~trouble
      /\ UNCHANGED <<qurl, server_ap, server>>
  <2>1. PICK c \in {[from |-> "cwd_pwd", dir |-> "/t", to |-> "pwd"],
                    [from |-> "back_pwd", dir |-> "/", to |-> "rmd"]} :
                cwd_pwd(c.from, c.dir, c.to)
    OBVIOUS
  <2>2. PICK out \in {"ok", "late"},
             r \in UNION {qurl_ftp_demo_open_header(d) : d \in {c.dir, "/"}} :
                /\ pc' = IF r.cur = "crash" THEN "crashed" ELSE c.to
                /\ currentDir' = IF r.cur = "crash" THEN NULL
                                 ELSE IF out = "ok" THEN WithSlash(r.cur) ELSE r.cur
                /\ trouble' = (trouble \/ out # "ok" \/ r # [last |-> c.dir, cur |-> c.dir])
    BY <2>1 DEF cwd_pwd
  <2>3. out = "ok" /\ ~trouble /\ r = [last |-> c.dir, cur |-> c.dir]
    BY <2>2, Zenon
  <2>4. pc' = c.to /\ currentDir' = WithSlash(c.dir)
    BY <2>2, <2>3
  <2>5. pc = c.from /\ UNCHANGED <<qurl, server_ap, server>>
    BY <2>1 DEF cwd_pwd
  <2> QED
    BY <2>3, <2>4, <2>5 DEF WithSlash
<1> QED
  BY <1>1 DEF CleanSession, InTestDir, server

\* The calls that only ask the server.
LEMMA AskClean ==
    ASSUME CleanSession,
           \/ \E to \in {"size", "put"} : qurl_ftp_demo_pwd("pwd", to)
           \/ \E to \in {"get", "list"} : qurl_ftp_demo_size("size", to)
           \/ qurl_ftp_demo_list("list", "nlist")
           \/ qurl_ftp_demo_nlist("nlist", "delete")
    PROVE  CleanSession'
<1> SUFFICES ASSUME ~trouble' PROVE CleanSession'
  BY DEF CleanSession
<1>1. CASE \E to \in {"size", "put"} : qurl_ftp_demo_pwd("pwd", to)
  <2>1. ~trouble
    BY <1>1, Zenon DEF qurl_ftp_demo_pwd
  <2> QED
    BY <1>1, <2>1 DEF CleanSession, qurl_ftp_demo_pwd, InTestDir, server, strings
<1>2. CASE \E to \in {"get", "list"} : qurl_ftp_demo_size("size", to)
  BY <1>2 DEF CleanSession, qurl_ftp_demo_size, Crash, InTestDir, server, strings, NULL
<1>3. CASE qurl_ftp_demo_list("list", "nlist") \/ qurl_ftp_demo_nlist("nlist", "delete")
  BY <1>3 DEF CleanSession, qurl_ftp_demo_list, qurl_ftp_demo_nlist, Command, Crash,
              InTestDir, server, strings, NULL
<1> QED
  BY <1>1, <1>2, <1>3

\* DELE means the file of the test directory, RMD the test directory.
LEMMA RemoveClean ==
    ASSUME CleanSession, files \in [Files -> Int],
           \/ qurl_ftp_demo_delete("delete", "back")
           \/ qurl_ftp_demo_rmd("rmd", "close")
           \/ qurl_ftp_demo_close("close")
    PROVE  CleanSession'
<1> SUFFICES ASSUME ~trouble' PROVE CleanSession'
  BY DEF CleanSession
<1>1. CASE qurl_ftp_demo_delete("delete", "back")
  BY <1>1 DEF CleanSession, qurl_ftp_demo_delete, Command, Crash, InTestDir, server, strings,
              NULL, Joined, Files
<1>2. CASE qurl_ftp_demo_rmd("rmd", "close")
  BY <1>2 DEF CleanSession, qurl_ftp_demo_rmd, Command, Crash, InTestDir, server, strings, NULL
<1>3. CASE qurl_ftp_demo_close("close")
  BY <1>3 DEF CleanSession, qurl_ftp_demo_close, InTestDir, server
<1> QED
  BY <1>1, <1>2, <1>3

-----------------------------------------------------------------------------
(* The FTP download.                                                       *)

\* The download starts within its invariant.
LEMMA GetStart == GetInit => GetInv
<1> SUFFICES ASSUME GetInit PROVE GetInv
  OBVIOUS
<1>1. /\ files \in [Files -> {None, FileLen}]
      /\ files["/f"] = FileLen /\ files["/tf"] = None
  BY DEF GetInit, FtpInit, Files
<1>2. Downloading
  BY <1>1 DEF GetInit, FtpInit, Downloading
<1>3. CleanSession
  BY <1>1 DEF GetInit, FtpInit, CleanSession, InTestDir
<1> QED
  BY <1>2, <1>3 DEF GetInit, FtpInit, GetInv, DownloadWhole, LocalFileClosed

\* Steps that touch neither of the two files.
LEMMA DownloadStands ==
    ASSUME GetInv, UNCHANGED <<ftp, used_len, opened, localLen, result>>, CleanSession',
           files' \in [Files -> {None, FileLen}],
           pc \notin {"get", "transfer"}, pc' \notin {"open", "transfer", "end"},
           pc' \in {"mkdir", "cwd", "cwd_pwd", "pwd", "size", "get"} =>
              pc \in {"open", "mkdir", "cwd", "cwd_pwd", "pwd", "size"}
    PROVE  GetInv'
<1>1. Downloading'
  BY DEF GetInv, Downloading
<1>2. DownloadWhole' /\ LocalFileClosed'
  BY DEF GetInv, DownloadWhole, LocalFileClosed
<1> QED
  BY <1>1, <1>2 DEF GetInv

\* The calls of the session.
LEMMA GetSessionStep ==
    ASSUME GetInv, UNCHANGED ftp,
           \/ qurl_ftp_demo_open("open", "mkdir")
           \/ qurl_ftp_demo_mkdir("mkdir", "cwd")
           \/ qurl_ftp_demo_cwd("cwd", "/t", "cwd_pwd", "pwd")
           \/ cwd_pwd("cwd_pwd", "/t", "pwd")
           \/ qurl_ftp_demo_pwd("pwd", "size")
           \/ qurl_ftp_demo_list("list", "nlist")
           \/ qurl_ftp_demo_nlist("nlist", "delete")
           \/ qurl_ftp_demo_delete("delete", "back")
           \/ qurl_ftp_demo_cwd("back", "/", "back_pwd", "rmd")
           \/ cwd_pwd("back_pwd", "/", "rmd")
           \/ qurl_ftp_demo_rmd("rmd", "close")
    PROVE  GetInv'
<1> USE DEF GetInv, Downloading
<1>0. files \in [Files -> Int]
  BY FtpAssumption DEF None
<1>1. CASE qurl_ftp_demo_open("open", "mkdir")
  <2>1. CleanSession'
    BY <1>1, OpenClean DEF qurl_ftp_demo_open
  <2> QED
    BY <1>1, <2>1, DownloadStands DEF qurl_ftp_demo_open, data, server
<1>2. CASE qurl_ftp_demo_mkdir("mkdir", "cwd")
  BY <1>2, MkdirClean, DownloadStands DEF qurl_ftp_demo_mkdir, Crash, data, server
<1>3. CASE \/ qurl_ftp_demo_cwd("cwd", "/t", "cwd_pwd", "pwd")
           \/ qurl_ftp_demo_cwd("back", "/", "back_pwd", "rmd")
  BY <1>3, CwdClean, DownloadStands DEF qurl_ftp_demo_cwd, Crash, data, server
<1>4. CASE \/ cwd_pwd("cwd_pwd", "/t", "pwd")
           \/ cwd_pwd("back_pwd", "/", "rmd")
  BY <1>4, PwdClean, DownloadStands DEF cwd_pwd, data, server
<1>5. CASE qurl_ftp_demo_pwd("pwd", "size")
  BY <1>5, AskClean, DownloadStands DEF qurl_ftp_demo_pwd, data, server
<1>6. CASE qurl_ftp_demo_list("list", "nlist") \/ qurl_ftp_demo_nlist("nlist", "delete")
  BY <1>6, AskClean, DownloadStands
  DEF qurl_ftp_demo_list, qurl_ftp_demo_nlist, Command, Crash, data, server
<1>7. CASE qurl_ftp_demo_delete("delete", "back")
  BY <1>0, <1>7, RemoveClean, DownloadStands
  DEF qurl_ftp_demo_delete, Command, Crash, data, server
<1>8. CASE qurl_ftp_demo_rmd("rmd", "close")
  BY <1>0, <1>8, RemoveClean, DownloadStands
  DEF qurl_ftp_demo_rmd, Command, Crash, data, server
<1> QED
  BY <1>1, <1>2, <1>3, <1>4, <1>5, <1>6, <1>7, <1>8

\* The size is asked for before anything was passed on.
LEMMA GetSizeStep ==
    ASSUME GetInv, UNCHANGED ftp, qurl_ftp_demo_size("size", "get")
    PROVE  GetInv'
<1>1. CleanSession'
  BY AskClean DEF GetInv
<1>2. Downloading'
  BY DEF GetInv, Downloading, qurl_ftp_demo_size, Crash, data, server
<1>3. DownloadWhole' /\ LocalFileClosed'
  BY DEF GetInv, Downloading, DownloadWhole, LocalFileClosed, qurl_ftp_demo_size, Crash, data
<1> QED
  BY <1>1, <1>2, <1>3 DEF GetInv

\* The transfer: the session stays where it is.
LEMMA TransferClean ==
    ASSUME CleanSession, pc \in {"get", "put", "transfer"},
           pc' \in {"transfer", "list", "size"},
           UNCHANGED <<qurl, currentDir, server_ap, testDir>>,
           ~trouble' => ~trouble /\ files'["/f"] = files["/f"] /\ files'["/tf"] = files["/tf"]
    PROVE  CleanSession'
BY DEF CleanSession, InTestDir

\* Opening, transferring and finishing a download keeps the invariant.
LEMMA GetTransferStep ==
    ASSUME GetInv, UNCHANGED ftp, qurl_ftp_demo_get
    PROVE  GetInv'
<1> USE DEF GetInv
<1>1. CASE get_start
  <2>1. CASE currentDir = NULL
    <3>1. Downloading' /\ LocalFileClosed'
      BY <1>1, <2>1 DEF get_start, Crash, Downloading, LocalFileClosed, data, server
    <3>2. DownloadWhole'
      BY <1>1, <2>1 DEF get_start, Crash, Downloading, DownloadWhole, data
    <3>3. CleanSession'
      BY <1>1, <2>1 DEF get_start, Crash, CleanSession, InTestDir, NULL
    <3> QED
      BY <3>1, <3>2, <3>3
  <2>2. CASE currentDir # NULL
    <3>1. Downloading' /\ LocalFileClosed'
      BY <1>1, <2>2 DEF get_start, Downloading, LocalFileClosed, server
    <3>2. DownloadWhole'
      BY <1>1, <2>2 DEF get_start, Downloading, DownloadWhole
    <3>3. CleanSession'
      BY <1>1, <2>2, TransferClean DEF get_start, server
    <3> QED
      BY <3>1, <3>2, <3>3
  <2> QED
    BY <2>1, <2>2
<1>2. CASE qurl_ftp_download_data_cb
  <2>1. PICK n \in 1 .. MaxBlock : \E k \in 0 .. n :
           LET w == qurl_ftp_demo_vfs_write(n, k) IN
           /\ localLen' = IF localLen = used_len THEN used_len + k ELSE localLen
           /\ used_len' = IF w.ret < 0 THEN used_len ELSE used_len + n
           /\ IF Reported(n, w.ret) = n
              THEN pc' = "transfer" /\ opened' = w.open /\ UNCHANGED <<result, trouble>>
              ELSE get_exit("failed") /\ trouble' = TRUE
    BY <1>2 DEF qurl_ftp_download_data_cb
  <2>3. PICK k \in 0 .. n :
           LET w == qurl_ftp_demo_vfs_write(n, k) IN
           /\ localLen' = IF localLen = used_len THEN used_len + k ELSE localLen
           /\ used_len' = IF w.ret < 0 THEN used_len ELSE used_len + n
           /\ IF Reported(n, w.ret) = n
              THEN pc' = "transfer" /\ opened' = w.open /\ UNCHANGED <<result, trouble>>
              ELSE get_exit("failed") /\ trouble' = TRUE
    BY <2>1
  <2>4. pc = "transfer" /\ UNCHANGED <<qurl, currentDir, server_ap, testDir, files>>
    BY <1>2 DEF qurl_ftp_download_data_cb, strings, server
  <2>5. n \in Nat /\ n > 0 /\ k \in Nat /\ MaxBlock \in Nat
    BY FtpAssumption
  <2>6. CASE k = n
    <3>1. qurl_ftp_demo_vfs_write(n, k).ret = 0 /\ qurl_ftp_demo_vfs_write(n, k).open = TRUE
      <4>1. ~(k < n)
        BY <2>5, <2>6
      <4> QED
        BY <2>6, <4>1, Zenon DEF qurl_ftp_demo_vfs_write
    <3>2. Reported(n, 0) = n
      BY DEF Reported
    <3>3. /\ localLen' = used_len + n /\ used_len' = used_len + n
          /\ pc' = "transfer" /\ opened' = TRUE /\ UNCHANGED <<result, trouble>>
      BY <2>3, <2>4, <2>6, <3>1, <3>2 DEF Downloading
    <3>4. Downloading' /\ LocalFileClosed'
      BY <2>4, <2>5, <3>3 DEF Downloading, LocalFileClosed
    <3>5. DownloadWhole'
      BY <2>4, <3>3 DEF Downloading, DownloadWhole
    <3>6. CleanSession'
      BY <2>4, <3>3, TransferClean
    <3> QED
      BY <3>4, <3>5, <3>6
  <2>7. CASE k # n
    <3>1. qurl_ftp_demo_vfs_write(n, k).ret = -1
      BY <2>5, <2>7 DEF qurl_ftp_demo_vfs_write
    <3>2. Reported(n, -1) # n
      BY <2>5 DEF Reported
    <3>3. used_len' = used_len /\ get_exit("failed") /\ trouble' = TRUE
      BY <2>3, <3>1, <3>2
    <3>4. Downloading' /\ LocalFileClosed'
      BY <2>4, <3>3 DEF get_exit, Downloading, LocalFileClosed
    <3>5. DownloadWhole'
      BY <3>3 DEF get_exit, DownloadWhole
    <3>6. CleanSession'
      BY <3>3 DEF CleanSession
    <3> QED
      BY <3>4, <3>5, <3>6
  <2> QED
    BY <2>6, <2>7
<1>3. CASE get_end
  <2>1. /\ pc = "transfer" /\ UNCHANGED <<qurl, currentDir, server_ap, testDir, files>>
        /\ UNCHANGED <<used_len, localLen>>
    BY <1>3 DEF get_end, strings, server
  <2>2. \/ files[InDir(currentDir)] = used_len /\ get_exit("ok") /\ UNCHANGED trouble
        \/ get_exit("failed") /\ (UNCHANGED trouble \/ trouble' = TRUE)
    BY <1>3 DEF get_end
  <2>3. pc' = "list" /\ opened' = FALSE
    BY <2>2 DEF get_exit
  <2>4. Downloading' /\ LocalFileClosed'
    BY <2>1, <2>3 DEF Downloading, LocalFileClosed
  <2>5. DownloadWhole'
    <3>1. InDir(currentDir) \in Files
      BY DEF InDir, Files
    <3>2. files[InDir(currentDir)] \in {None, FileLen} /\ used_len \in Nat /\ localLen = used_len
      BY <2>1, <3>1 DEF Downloading
    <3>3. files[InDir(currentDir)] = used_len => used_len = FileLen
      BY <3>2 DEF None
    <3> QED
      BY <2>1, <2>2, <3>2, <3>3 DEF get_exit, DownloadWhole
  <2>6. CleanSession'
    BY <2>1, <2>2, <2>3, TransferClean
  <2> QED
    BY <2>4, <2>5, <2>6
<1> QED
  BY <1>1, <1>2, <1>3 DEF qurl_ftp_demo_get

\* Every step of the download keeps the invariant.
LEMMA GetStep == GetInv /\ [GetNext]_ftpVars => GetInv'
<1> SUFFICES ASSUME GetInv, [GetNext]_ftpVars PROVE GetInv'
  OBVIOUS
<1>1. CASE qurl_ftp_demo_close("close") /\ UNCHANGED ftp
  <2>1. CleanSession'
    BY <1>1, RemoveClean, FtpAssumption DEF GetInv, Downloading, None
  <2>2. Downloading' /\ LocalFileClosed'
    BY <1>1 DEF GetInv, Downloading, LocalFileClosed, qurl_ftp_demo_close, data, server
  <2>3. DownloadWhole'
    BY <1>1 DEF GetInv, DownloadWhole, qurl_ftp_demo_close, data
  <2> QED
    BY <2>1, <2>2, <2>3 DEF GetInv
<1>2. CASE UNCHANGED ftpVars
  BY <1>2 DEF ftpVars, data, server, strings, GetInv, Downloading, DownloadWhole, CleanSession,
              LocalFileClosed
<1> QED
  BY <1>1, <1>2, GetSessionStep, GetSizeStep, GetTransferStep
  DEF GetNext, ftp_get_demo, GetDone

\* GetInv holds throughout ftp_get_demo.c's session, in which every request may fail.
THEOREM GetInvariant == GetSpec => []GetInv
BY GetStart, GetStep, PTL DEF GetSpec

\* For every length of the file and of the blocks: a download ftp_get_demo.c takes as
\* successful is whole, wherever a write stops short.
THEOREM GetDownloadWhole == GetSpec => []DownloadWhole
<1>1. GetInv => DownloadWhole
  BY DEF GetInv
<1> QED
  BY <1>1, GetInvariant, PTL

\* ftp_get_demo.c has closed the local file when it is over.
THEOREM GetFileClosed == GetSpec => []LocalFileClosed
<1>1. GetInv => LocalFileClosed
  BY DEF GetInv
<1> QED
  BY <1>1, GetInvariant, PTL

\* A run of ftp_get_demo.c without a failure cleans up behind itself and nothing else.
THEOREM GetCleanRun == GetSpec => []CleanRun
<1>1. GetInv => CleanRun
  BY DEF GetInv, CleanSession, CleanRun
<1> QED
  BY <1>1, GetInvariant, PTL

-----------------------------------------------------------------------------
(* The FTP upload.                                                         *)

\* The upload starts within its invariant.
LEMMA PutStart == PutInit => PutInv
<1> SUFFICES ASSUME PutInit PROVE PutInv
  OBVIOUS
<1>1. /\ files \in [Files -> {None, FileLen}]
      /\ files["/f"] = FileLen /\ files["/tf"] = None
  BY DEF PutInit, FtpInit, Files
<1>2. files \in [Files -> Int]
  BY <1>1, FtpAssumption DEF None
<1>3. Uploading
  <2>1. used_len \in Int /\ total_len \in Int /\ localLen \in Nat
    BY FtpAssumption DEF PutInit, FtpInit
  <2> QED
    BY <1>2, <2>1, Zenon DEF PutInit, FtpInit, Uploading
<1>4. CleanSession
  BY <1>1 DEF PutInit, FtpInit, CleanSession, InTestDir
<1> QED
  BY <1>3, <1>4 DEF PutInit, FtpInit, PutInv, UploadWhole, LocalFileClosed

\* Steps outside the transfer that keep the directory and the files while the
\* uploaded file is looked at.
LEMMA UploadStands ==
    ASSUME PutInv, UNCHANGED <<ftp, cut, opened, localLen, result>>, CleanSession',
           currentDir' \in Dirs \cup {NULL}, last_reply_Dir' \in Dirs \cup {NULL},
           used_len' \in Int, total_len' \in Int, files' \in [Files -> Int],
           pc # "transfer", pc' \notin {"open", "transfer"}, pc' \in BeforePut => pc \in BeforePut,
           pc' \in {"size", "list", "nlist", "delete"} =>
              /\ pc \in {"size", "list", "nlist", "delete"}
              /\ UNCHANGED <<currentDir, files>>
    PROVE  PutInv'
<1>1. Uploading'
  BY DEF PutInv, Uploading
<1>2. UploadWhole'
  <2> SUFFICES ASSUME pc' \in {"size", "list", "nlist", "delete"}
               PROVE  UploadWhole'
    BY DEF UploadWhole
  <2> QED
    BY DEF PutInv, UploadWhole, Joined
<1>3. LocalFileClosed'
  BY DEF PutInv, Uploading, LocalFileClosed
<1> QED
  BY <1>1, <1>2, <1>3 DEF PutInv

\* The calls of the session.
LEMMA PutSessionStep ==
    ASSUME PutInv, UNCHANGED ftp,
           \/ put_open \/ put_mkdir \/ put_cwd \/ put_pwd \/ put_size \/ put_list
           \/ put_nlist \/ put_delete \/ put_back \/ put_rmd \/ put_close
    PROVE  PutInv'
<1> USE DEF PutInv, Uploading, BeforePut
<1>0. {"/"} \in SUBSET Dirs /\ {"/t", "/"} \in SUBSET Dirs /\ "/" \in Dirs /\ "/t/" \in Dirs
  BY DEF Dirs
<1>1. CASE put_open
  <2>1. CleanSession'
    BY <1>1, OpenClean DEF put_open, qurl_ftp_demo_open
  <2>2. currentDir' \in Dirs \cup {NULL} /\ last_reply_Dir' \in Dirs \cup {NULL}
    <3>1. CASE UNCHANGED strings
      BY <3>1 DEF strings
    <3>2. CASE \E out \in Outcomes :
               \E r \in IF out = "ok" THEN qurl_ftp_demo_open_header("/") ELSE Replies({"/"}) :
                  /\ last_reply_Dir' = r.last
                  /\ currentDir' = IF r.cur = "crash" THEN NULL ELSE r.cur
      <4>1. PICK r \in Replies({"/"}) :
                  /\ last_reply_Dir' = r.last
                  /\ currentDir' = IF r.cur = "crash" THEN NULL ELSE r.cur
        BY <3>2 DEF Replies
      <4> QED
        BY <1>0, <4>1, RepliesTyped
    <3> QED
      BY <1>1, <3>1, <3>2 DEF put_open, qurl_ftp_demo_open
  <2> QED
    BY <1>1, <2>1, <2>2, UploadStands DEF put_open, qurl_ftp_demo_open, data, server
<1>2. CASE put_mkdir
  BY <1>2, MkdirClean, UploadStands
  DEF put_mkdir, qurl_ftp_demo_mkdir, Crash, data, server, strings
<1>3. CASE \/ qurl_ftp_demo_cwd("cwd", "/t", "cwd_pwd", "pwd") /\ UNCHANGED cut
           \/ qurl_ftp_demo_cwd("back", "/", "back_pwd", "rmd") /\ UNCHANGED cut
  <2>1. CleanSession'
    BY <1>3, CwdClean
  <2>2. currentDir' \in Dirs \cup {NULL} /\ last_reply_Dir' \in Dirs \cup {NULL}
    <3>1. CASE UNCHANGED <<currentDir, last_reply_Dir>>
      BY <3>1
    <3>2. CASE \E r \in Replies({"/"}) :
                  /\ last_reply_Dir' = r.last
                  /\ currentDir' = IF r.cur = "crash" THEN NULL ELSE r.cur
      BY <1>0, <3>2, RepliesTyped
    <3> QED
      BY <1>3, <3>1, <3>2 DEF qurl_ftp_demo_cwd, Crash, strings
  <2> QED
    BY <1>3, <2>1, <2>2, UploadStands DEF qurl_ftp_demo_cwd, Crash, data, server
<1>4. CASE \/ cwd_pwd("cwd_pwd", "/t", "pwd") /\ UNCHANGED cut
           \/ cwd_pwd("back_pwd", "/", "rmd") /\ UNCHANGED cut
  <2>1. CleanSession'
    BY <1>4, PwdClean
  <2>2. currentDir' \in Dirs \cup {NULL} /\ last_reply_Dir' \in Dirs \cup {NULL}
    <3>1. CASE UNCHANGED <<currentDir, last_reply_Dir>>
      BY <3>1
    <3>2. CASE \E out \in {"ok", "late"}, d \in {"/t", "/"} : \E r \in qurl_ftp_demo_open_header(d) :
                  /\ last_reply_Dir' = r.last
                  /\ currentDir' = IF r.cur = "crash" THEN NULL
                                   ELSE IF out = "ok" THEN WithSlash(r.cur) ELSE r.cur
      <4>1. PICK out \in {"ok", "late"}, r \in Replies({"/t", "/"}) :
                  /\ last_reply_Dir' = r.last
                  /\ currentDir' = IF r.cur = "crash" THEN NULL
                                   ELSE IF out = "ok" THEN WithSlash(r.cur) ELSE r.cur
        BY <3>2 DEF Replies
      <4>2. r.last \in Dirs \cup {NULL} /\ r.cur \in Dirs \cup {NULL, "crash"}
        BY <1>0, RepliesTyped
      <4>3. WithSlash(r.cur) \in Dirs \cup {NULL, "crash"}
        BY <1>0, <4>2 DEF WithSlash
      <4>4. CASE r.cur = "crash"
        BY <4>1, <4>2, <4>4
      <4>5. CASE r.cur # "crash" /\ out = "ok"
        <5>1. WithSlash(r.cur) # "crash"
          BY <4>5 DEF WithSlash
        <5> QED
          BY <4>1, <4>2, <4>3, <4>5, <5>1
      <4>6. CASE r.cur # "crash" /\ out # "ok"
        BY <4>1, <4>2, <4>6
      <4> QED
        BY <4>4, <4>5, <4>6
    <3> QED
      BY <1>4, <3>1, <3>2 DEF cwd_pwd
  <2> QED
    BY <1>4, <2>1, <2>2, UploadStands DEF cwd_pwd, data, server
<1>5. CASE put_pwd
  BY <1>5, AskClean, UploadStands DEF put_pwd, qurl_ftp_demo_pwd, data, server, strings
<1>6. CASE put_size
  <2>1. files[Joined(currentDir)] \in Int \/ currentDir = NULL
    BY DEF Joined, Dirs, Files
  <2>2. used_len' \in Int /\ total_len' \in Int
    BY <1>6, <2>1 DEF put_size, qurl_ftp_demo_size, Crash, data
  <2>3. CleanSession'
    BY <1>6, AskClean DEF put_size
  <2> QED
    BY <1>6, <2>2, <2>3, UploadStands DEF put_size, qurl_ftp_demo_size, Crash, data, server, strings
<1>7. CASE put_list \/ put_nlist
  BY <1>7, AskClean, UploadStands
  DEF put_list, put_nlist, qurl_ftp_demo_list, qurl_ftp_demo_nlist, Command, Crash, data,
      server, strings
<1>8. CASE put_delete
  <2>1. files' = files \/ files' = [files EXCEPT ![Joined(currentDir)] = None]
    BY <1>8 DEF put_delete, qurl_ftp_demo_delete, Command, Crash, server
  <2>2. files' \in [Files -> Int]
    BY <2>1 DEF None
  <2> QED
    BY <1>8, <2>2, RemoveClean, UploadStands
    DEF put_delete, qurl_ftp_demo_delete, Command, Crash, data, server, strings
<1>9. CASE put_rmd
  BY <1>9, RemoveClean, UploadStands
  DEF put_rmd, qurl_ftp_demo_rmd, Command, Crash, data, server, strings
<1>10. CASE put_close
  BY <1>10, RemoveClean, UploadStands
  DEF put_close, qurl_ftp_demo_close, data, server
<1> QED
  BY <1>1, <1>2, <1>3, <1>4, <1>5, <1>6, <1>7, <1>8, <1>9, <1>10 DEF put_cwd, put_back

\* Directory and name written one after the other denote one of the three files.
LEMMA JoinedIsFile ==
    ASSUME NEW dir \in Dirs
    PROVE  Joined(dir) \in Files
BY DEF Joined, Dirs, Files

\* During the transfer of a session without trouble only the file of the test
\* directory is written.
LEMMA WriteClean ==
    ASSUME PutInv, pc = "transfer", pc' \in {"transfer", "size"},
           UNCHANGED <<qurl, currentDir, server_ap, testDir>>,
           ~trouble' => ~trouble,
           NEW n \in Int,
           files' = files \/ files' = [files EXCEPT ![Joined(currentDir)] = n]
    PROVE  CleanSession' /\ files' \in [Files -> Int]
<1>1. files' \in [Files -> Int]
  BY DEF PutInv, Uploading
<1>2. ASSUME ~trouble'
      PROVE  files'["/f"] = files["/f"] /\ files'["/tf"] = files["/tf"]
  <2>1. currentDir = "/t/"
    BY <1>2 DEF PutInv, CleanSession, InTestDir
  <2> QED
    BY <2>1 DEF PutInv, Uploading, Joined, Files
<1>3. CleanSession'
  BY <1>2, TransferClean DEF PutInv
<1> QED
  BY <1>1, <1>3

\* Opening, transferring and finishing an upload keeps the invariant.
LEMMA PutTransferStep ==
    ASSUME PutInv, UNCHANGED ftp, qurl_ftp_demo_put
    PROVE  PutInv'
<1> USE DEF PutInv
<1>1. CASE put_start
  <2>1. CASE currentDir = NULL
    <3>1. Uploading'
      <4>1. /\ pc' = "crashed" /\ pc = "put"
            /\ UNCHANGED <<cut, strings, data, server, localLen, result>>
        BY <1>1, <2>1 DEF put_start, Crash
      <4> QED
        BY <4>1 DEF Uploading, BeforePut, data, server, strings
    <3>2. UploadWhole' /\ LocalFileClosed'
      BY <1>1, <2>1 DEF put_start, Crash, UploadWhole, LocalFileClosed
    <3>3. CleanSession'
      BY <1>1, <2>1 DEF put_start, Crash, CleanSession, InTestDir, NULL
    <3> QED
      BY <3>1, <3>2, <3>3
  <2>2. CASE currentDir # NULL
    <3>1. Uploading'
      <4>1. /\ used_len' \in Int /\ total_len' \in Int
            /\ pc' = "transfer" /\ result' # "failed" => total_len' = localLen'
        <5>1. /\ used_len' = 0 /\ localLen' = localLen
              /\ \/ pc' = "size" /\ total_len' = 0
                 \/ \E stat \in BOOLEAN : /\ total_len' = IF stat THEN localLen ELSE 0
                                          /\ result' = IF stat THEN "none" ELSE "failed"
          BY <1>1, <2>2, Zenon DEF put_start
        <5>2. \/ pc' = "size" /\ total_len' = 0
              \/ total_len' = localLen
              \/ total_len' = 0 /\ result' = "failed"
          BY <5>1, Zenon
        <5> QED
          BY <5>1, <5>2 DEF Uploading
      <4>2. /\ UNCHANGED <<cut, currentDir, last_reply_Dir, localLen, files>>
            /\ pc' \in {"transfer", "size"}
            /\ pc' = "size" => opened' = opened
            /\ pc' = "transfer" => opened' = TRUE
            /\ pc = "put"
        BY <1>1, <2>2 DEF put_start, server
      <4>3. opened' \in BOOLEAN /\ (opened' => pc' = "transfer")
        <5>1. CASE pc' = "size"
          <6>1. opened = FALSE
            BY <4>2 DEF Uploading
          <6>2. opened' = FALSE
            BY <4>2, <5>1, <6>1
          <6> QED
            BY <6>2
        <5>2. CASE pc' = "transfer"
          BY <4>2, <5>2, Zenon
        <5> QED
          BY <4>2, <5>1, <5>2
      <4>4. ~cut /\ used_len' = 0
        BY <1>1, <2>2, <4>2 DEF put_start, Uploading, BeforePut
      <4> QED
        BY <2>2, <4>1, <4>2, <4>3, <4>4 DEF Uploading, BeforePut
    <3>2. UploadWhole' /\ LocalFileClosed'
      BY <1>1, <2>2 DEF put_start, UploadWhole, LocalFileClosed
    <3>3. CleanSession'
      BY <1>1, <2>2, TransferClean DEF put_start, server
    <3> QED
      BY <3>1, <3>2, <3>3
  <2> QED
    BY <2>1, <2>2
<1>2. CASE qurl_ftp_upload_data_cb
  <2>1. /\ pc = "transfer" /\ pc' = "transfer"
        /\ UNCHANGED <<qurl, currentDir, last_reply_Dir, server_ap, testDir>>
        /\ UNCHANGED <<total_len, localLen, result>>
    BY <1>2 DEF qurl_ftp_upload_data_cb, strings
  <2>2. used_len' \in Int
    BY <1>2 DEF qurl_ftp_upload_data_cb, ReadLen, Uploading
  <2>3. /\ files' = files \/ files' = [files EXCEPT ![Joined(currentDir)] = used_len']
        /\ ~trouble' => ~trouble
        /\ cut' \in BOOLEAN /\ opened' \in BOOLEAN
    <3>1. CASE /\ files' = [files EXCEPT ![Joined(currentDir)] = used_len']
               /\ UNCHANGED <<opened, cut, trouble>>
      BY <3>1 DEF Uploading
    <3>2. CASE opened' = FALSE /\ cut' = TRUE /\ trouble' = TRUE /\ files' = files
      BY <3>2
    <3> QED
      BY <1>2, <3>1, <3>2 DEF qurl_ftp_upload_data_cb
  <2>4. CleanSession' /\ files' \in [Files -> Int]
    BY <2>1, <2>2, <2>3, WriteClean
  <2>5. Uploading'
    <3>1. used_len' >= 0 /\ (cut' => used_len' < total_len')
      <4>1. used_len >= 0 /\ used_len < total_len /\ ~cut /\ total_len' = total_len
        BY <1>2, <2>1 DEF qurl_ftp_upload_data_cb, Uploading
      <4>2. \/ cut' = cut /\ \E size \in 1 .. MaxBlock : used_len' = used_len + ReadLen(size)
            \/ used_len' = used_len
        BY <1>2 DEF qurl_ftp_upload_data_cb
      <4>3. \A size \in 1 .. MaxBlock : ReadLen(size) \in Nat
        BY <4>1, FtpAssumption DEF ReadLen, Uploading
      <4> QED
        BY <4>1, <4>2, <4>3 DEF Uploading
    <3>2. pc' \notin BeforePut /\ ftp' = "put"
      BY <2>1 DEF BeforePut, Uploading
    <3>3. /\ currentDir' \in Dirs \cup {NULL} /\ last_reply_Dir' \in Dirs \cup {NULL}
          /\ total_len' \in Int /\ localLen' \in Nat /\ currentDir' # NULL
          /\ result' # "failed" => total_len' = localLen'
      BY <2>1 DEF Uploading
    <3> QED
      BY <2>1, <2>2, <2>3, <2>4, <3>1, <3>2, <3>3, Zenon DEF Uploading
  <2> QED
    BY <2>1, <2>4, <2>5 DEF UploadWhole, LocalFileClosed
<1>3. CASE put_end
  <2>1. /\ pc = "transfer" /\ pc' = "size" /\ opened' = FALSE
        /\ UNCHANGED <<qurl, currentDir, last_reply_Dir, server_ap, testDir>>
        /\ UNCHANGED <<total_len, localLen, used_len, cut>>
        /\ files' = files \/ files' = [files EXCEPT ![Joined(currentDir)] = used_len]
        /\ ~trouble' => ~trouble
    BY <1>3 DEF put_end, put_exit, strings
  <2>2. CleanSession' /\ files' \in [Files -> Int]
    BY <2>1, WriteClean DEF Uploading
  <2>3. Uploading'
    BY <2>1, <2>2 DEF Uploading, BeforePut
  <2>4. UploadWhole'
    <3> SUFFICES ASSUME result' = "ok"
                 PROVE  LET stored == files'[Joined(currentDir)]
                        IN  IF cut THEN stored \in 0 .. localLen - 1 ELSE stored = localLen
      BY <2>1 DEF UploadWhole, Joined
    <3>1. /\ result # "failed" /\ (used_len = total_len \/ cut)
          /\ files' = [files EXCEPT ![Joined(currentDir)] = used_len]
      BY <1>3 DEF put_end, put_exit
    <3>2. /\ total_len = localLen /\ currentDir \in Dirs /\ used_len \in Int
          /\ used_len >= 0 /\ (cut => used_len < localLen) /\ localLen \in Nat
      BY <2>1, <3>1 DEF Uploading
    <3>3. files'[Joined(currentDir)] = used_len
      BY <3>1, <3>2, JoinedIsFile DEF Uploading
    <3> QED
      BY <3>1, <3>2, <3>3
  <2> QED
    BY <2>1, <2>2, <2>3, <2>4 DEF LocalFileClosed
<1> QED
  BY <1>1, <1>2, <1>3 DEF qurl_ftp_demo_put

\* Every step of the upload keeps the invariant.
LEMMA PutStep == PutInv /\ [PutNext]_putVars => PutInv'
<1> SUFFICES ASSUME PutInv, [PutNext]_putVars PROVE PutInv'
  OBVIOUS
<1>1. CASE UNCHANGED putVars
  <2> USE <1>1 DEF putVars, ftpVars, data, server, strings, PutInv
  <2>1. Uploading' /\ UploadWhole'
    BY DEF Uploading, UploadWhole, Joined, BeforePut
  <2>2. CleanSession' /\ LocalFileClosed'
    BY DEF CleanSession, LocalFileClosed
  <2> QED
    BY <2>1, <2>2
<1> QED
  BY <1>1, PutSessionStep, PutTransferStep DEF PutNext, ftp_put_demo, PutDone

\* PutInv holds throughout ftp_put_demo.c's session, in which every request may fail.
THEOREM PutInvariant == PutSpec => []PutInv
BY PutStart, PutStep, PTL DEF PutSpec

\* For every length of the file and of the blocks: when ftp_put_demo.c takes its upload
\* as successful, the file is under the path that its SIZE and DELE use, whatever
\* became of the current directory, and is whole unless a read failed; if one did, it
\* is a proper beginning.
THEOREM PutUploadWhole == PutSpec => []UploadWhole
<1>1. PutInv => UploadWhole
  BY DEF PutInv
<1> QED
  BY <1>1, PutInvariant, PTL

\* ftp_put_demo.c has closed the local file when it is over.
THEOREM PutFileClosed == PutSpec => []LocalFileClosed
<1>1. PutInv => LocalFileClosed
  BY DEF PutInv
<1> QED
  BY <1>1, PutInvariant, PTL

\* A run of ftp_put_demo.c without a failure cleans up behind itself and nothing else.
THEOREM PutCleanRun == PutSpec => []CleanRun
<1>1. PutInv => CleanRun
  BY DEF PutInv, CleanSession, CleanRun
<1> QED
  BY <1>1, PutInvariant, PTL

-----------------------------------------------------------------------------
(* Types: for all lengths, no count of bytes exceeds the file's and every  *)
(* string is a directory PWD names, with or without a '/', or null.        *)

StringsTyped ==
    /\ currentDir \in Dirs \cup {NULL} /\ last_reply_Dir \in Dirs \cup {NULL}
    /\ server_ap \in Dirs \cup {NULL}
FlagsTyped ==
    /\ qurl \in BOOLEAN /\ url \in BOOLEAN /\ opened \in BOOLEAN /\ testDir \in BOOLEAN
    /\ trouble \in BOOLEAN
Lengths == {None} \cup 0..FileLen
CountsTyped ==
    /\ used_len \in 0..FileLen /\ total_len \in 0..FileLen /\ localLen \in 0..FileLen
    /\ leaked \in Nat /\ files \in [Files -> Lengths]
    /\ result \in {"none", "ok", "failed"}

\* FtpTypeOK in the three parts a step is looked at for.
LEMMA FtpTypeParts ==
    /\ FtpTypeOK <=> StringsTyped /\ FlagsTyped /\ CountsTyped
    /\ StringsTyped' /\ FlagsTyped' /\ CountsTyped' => FtpTypeOK'
BY DEF FtpTypeOK, StringsTyped, FlagsTyped, CountsTyped, Lengths

\* Both programs start with an empty structure and whole files.
LEMMA FtpTypeStart ==
    ASSUME FtpInit, localLen \in {0, FileLen}
    PROVE  FtpTypeOK
<1>1. StringsTyped
  BY DEF FtpInit, StringsTyped
<1>2. FlagsTyped
  BY Zenon DEF FtpInit, FlagsTyped
<1>3. files \in [Files -> Lengths]
  BY FtpAssumption DEF FtpInit, Files, Lengths
<1>4. CountsTyped
  BY <1>3, FtpAssumption DEF FtpInit, CountsTyped
<1> QED
  BY <1>1, <1>2, <1>4, FtpTypeParts

\* A file on the server replaced by one of another length.
LEMMA FileReplaced ==
    ASSUME CountsTyped, NEW p, NEW n \in Lengths
    PROVE  [files EXCEPT ![p] = n] \in [Files -> Lengths]
BY DEF CountsTyped

\* A task that crashes changes nothing else.
LEMMA CrashTyped ==
    ASSUME FtpTypeOK, Crash
    PROVE  FtpTypeOK'
BY DEF FtpTypeOK, Crash, strings, data, server

\* The login.
LEMMA OpenTyped ==
    ASSUME FtpTypeOK, NEW from, NEW to, qurl_ftp_demo_open(from, to)
    PROVE  FtpTypeOK'
<1>1. StringsTyped /\ FlagsTyped /\ CountsTyped
  BY FtpTypeParts
<1>2. CountsTyped'
  BY <1>1 DEF qurl_ftp_demo_open, data, server, CountsTyped
<1>3. FlagsTyped'
  BY <1>1 DEF qurl_ftp_demo_open, data, server, strings, FlagsTyped
<1>4. StringsTyped'
  <2>1. CASE UNCHANGED strings
    BY <1>1, <2>1 DEF StringsTyped, strings
  <2>2. CASE \E out \in Outcomes, mem \in BOOLEAN, r \in Replies({"/"}) :
                /\ last_reply_Dir' = r.last
                /\ currentDir' = IF r.cur = "crash" THEN NULL ELSE r.cur
                /\ server_ap' = IF out = "ok" /\ mem THEN r.last ELSE NULL
    <3>1. PICK r \in Replies({"/"}) :
             /\ last_reply_Dir' = r.last
             /\ currentDir' = IF r.cur = "crash" THEN NULL ELSE r.cur
             /\ server_ap' \in {r.last, NULL}
      BY <2>2
    <3>2. r.last \in Dirs \cup {NULL} /\ r.cur \in Dirs \cup {NULL, "crash"}
      BY <1>1, RepliesTyped DEF StringsTyped, Dirs
    <3> QED
      BY <3>1, <3>2 DEF StringsTyped
  <2>3. qurl_ftp_demo_open_header("/") \subseteq Replies({"/"})
    BY DEF Replies
  <2> QED
    BY <2>1, <2>2, <2>3 DEF qurl_ftp_demo_open
<1> QED
  BY <1>2, <1>3, <1>4, FtpTypeParts

\* Making the directory, and asking where the session is.
LEMMA MkdirTyped ==
    ASSUME FtpTypeOK, NEW from, NEW to,
           qurl_ftp_demo_mkdir(from, to) \/ qurl_ftp_demo_pwd(from, to)
    PROVE  FtpTypeOK'
<1>1. CASE Crash
  BY <1>1, CrashTyped
<1>2. CASE ~Crash
  <2>1. StringsTyped /\ FlagsTyped /\ CountsTyped
    BY FtpTypeParts
  <2>2. /\ UNCHANGED <<qurl, strings, data, leaked, files, localLen, result>>
        /\ trouble' \in BOOLEAN /\ testDir' \in BOOLEAN
    BY <1>2, <2>1 DEF qurl_ftp_demo_mkdir, qurl_ftp_demo_pwd, FlagsTyped, server
  <2>3. StringsTyped' /\ FlagsTyped' /\ CountsTyped'
    BY <2>1, <2>2 DEF StringsTyped, FlagsTyped, CountsTyped, strings, data
  <2> QED
    BY <2>3, FtpTypeParts
<1> QED
  BY <1>1, <1>2

\* The first half of a change of directory.
LEMMA CwdTyped ==
    ASSUME FtpTypeOK, NEW from, NEW dir, NEW pwd, NEW to, qurl_ftp_demo_cwd(from, dir, pwd, to)
    PROVE  FtpTypeOK'
<1>1. CASE Crash
  BY <1>1, CrashTyped
<1>2. CASE ~Crash
  <2>1. StringsTyped /\ FlagsTyped /\ CountsTyped
    BY FtpTypeParts
  <2>2. UNCHANGED <<qurl, server_ap, data, leaked, server, localLen, result>>
    BY <1>2 DEF qurl_ftp_demo_cwd
  <2>3. url' \in BOOLEAN /\ trouble' \in BOOLEAN
    BY <1>2, <2>1 DEF qurl_ftp_demo_cwd, FlagsTyped
  <2>4. currentDir' \in Dirs \cup {NULL} /\ last_reply_Dir' \in Dirs \cup {NULL}
    <3>1. CASE UNCHANGED <<currentDir, last_reply_Dir>>
      BY <3>1, <2>1 DEF StringsTyped
    <3>2. CASE \E r \in Replies({"/"}) :
                  /\ last_reply_Dir' = r.last
                  /\ currentDir' = IF r.cur = "crash" THEN NULL ELSE r.cur
      BY <3>2, <2>1, RepliesTyped DEF StringsTyped, Dirs
    <3> QED
      BY <1>2, <3>1, <3>2 DEF qurl_ftp_demo_cwd
  <2>5. StringsTyped' /\ FlagsTyped' /\ CountsTyped'
    BY <2>1, <2>2, <2>3, <2>4 DEF StringsTyped, FlagsTyped, CountsTyped, data, server
  <2> QED
    BY <2>5, FtpTypeParts
<1> QED
  BY <1>1, <1>2

\* The second half: a '/' is appended to a directory only.
LEMMA PwdTyped ==
    ASSUME FtpTypeOK, NEW from, NEW dir \in {"/", "/t"}, NEW to, cwd_pwd(from, dir, to)
    PROVE  FtpTypeOK'
<1>1. StringsTyped /\ FlagsTyped /\ CountsTyped
  BY FtpTypeParts
<1>2. UNCHANGED <<qurl, url, server_ap, data, server, localLen, result>> /\ leaked' \in Nat
  BY <1>1 DEF cwd_pwd, CountsTyped
<1>3. trouble' \in BOOLEAN
  BY DEF cwd_pwd
<1>4. currentDir' \in Dirs \cup {NULL} /\ last_reply_Dir' \in Dirs \cup {NULL}
  <2>1. CASE UNCHANGED <<currentDir, last_reply_Dir>>
    BY <1>1, <2>1 DEF StringsTyped
  <2>2. CASE \E d \in {dir, "/"}, r \in Replies({"/", "/t"}) :
                /\ last_reply_Dir' = r.last
                /\ \/ currentDir' = IF r.cur = "crash" THEN NULL ELSE WithSlash(r.cur)
                   \/ currentDir' = IF r.cur = "crash" THEN NULL ELSE r.cur
    <3>1. PICK r \in Replies({"/", "/t"}) :
                /\ last_reply_Dir' = r.last
                /\ \/ currentDir' = IF r.cur = "crash" THEN NULL ELSE WithSlash(r.cur)
                   \/ currentDir' = IF r.cur = "crash" THEN NULL ELSE r.cur
      BY <2>2
    <3>2. r.last \in Dirs \cup {NULL} /\ r.cur \in Dirs \cup {NULL, "crash"}
      BY <1>1, RepliesTyped DEF StringsTyped, Dirs
    <3> QED
      BY <3>1, <3>2 DEF WithSlash, Dirs, NULL
  <2>3. \A d \in {dir, "/"} : qurl_ftp_demo_open_header(d) \subseteq Replies({"/", "/t"})
    BY DEF Replies
  <2> QED
    BY <2>1, <2>2, <2>3 DEF cwd_pwd
<1>5. StringsTyped' /\ FlagsTyped' /\ CountsTyped'
  BY <1>1, <1>2, <1>3, <1>4 DEF StringsTyped, FlagsTyped, CountsTyped, data, server
<1> QED
  BY <1>5, FtpTypeParts

\* Asking for the size: the server names the length of one of its files.
LEMMA SizeTyped ==
    ASSUME FtpTypeOK, NEW from, NEW to, qurl_ftp_demo_size(from, to)
    PROVE  FtpTypeOK'
<1>1. CASE Crash
  BY <1>1, CrashTyped
<1>2. CASE ~Crash
  <2>1. StringsTyped /\ FlagsTyped /\ CountsTyped
    BY FtpTypeParts
  <2>2. /\ UNCHANGED <<qurl, currentDir, last_reply_Dir, server_ap, opened, leaked,
                        server, localLen, result>>
        /\ used_len' = 0 /\ url' \in BOOLEAN
    BY <1>2 DEF qurl_ftp_demo_size
  <2>3. trouble' \in BOOLEAN
    BY <1>2, <2>1 DEF qurl_ftp_demo_size, FlagsTyped
  <2>4. total_len' \in 0..FileLen
    <3>1. Joined(currentDir) \in Files
      BY <1>2, <2>1 DEF qurl_ftp_demo_size, StringsTyped, Joined, Dirs, Files, NULL
    <3>2. files[Joined(currentDir)] \in Lengths
      BY <2>1, <3>1 DEF CountsTyped
    <3> QED
      BY <1>2, <3>2, FtpAssumption DEF qurl_ftp_demo_size, Lengths
  <2>5. CountsTyped'
    BY <2>1, <2>2, <2>4, FtpAssumption DEF CountsTyped, server
  <2>6. StringsTyped' /\ FlagsTyped'
    BY <2>1, <2>2, <2>3 DEF StringsTyped, FlagsTyped, server
  <2> QED
    BY <2>5, <2>6, FtpTypeParts
<1> QED
  BY <1>1, <1>2

\* The commands: a listing, the deletion of the file and of the directory.
LEMMA CommandTyped ==
    ASSUME FtpTypeOK, NEW from, NEW to,
           \/ qurl_ftp_demo_list(from, to) \/ qurl_ftp_demo_nlist(from, to)
           \/ qurl_ftp_demo_delete(from, to) \/ qurl_ftp_demo_rmd(from, to)
    PROVE  FtpTypeOK'
<1>1. CASE Crash
  BY <1>1, CrashTyped
<1>2. CASE ~Crash
  <2> USE DEF qurl_ftp_demo_list, qurl_ftp_demo_nlist, qurl_ftp_demo_delete,
              qurl_ftp_demo_rmd, Command
  <2>1. StringsTyped /\ FlagsTyped /\ CountsTyped
    BY FtpTypeParts
  <2>2. UNCHANGED <<qurl, currentDir, last_reply_Dir, server_ap, data, localLen, result>>
    BY <1>2
  <2>3. url' \in BOOLEAN /\ trouble' \in BOOLEAN
    BY <1>2, <2>1 DEF FlagsTyped
  <2>4. leaked' \in Nat
    BY <1>2, <2>1 DEF CountsTyped
  <2>5. testDir' \in BOOLEAN
    BY <1>2, <2>1 DEF FlagsTyped, server
  <2>6. files' \in [Files -> Lengths]
    <3>1. \/ files' = files
          \/ files' = [files EXCEPT ![Joined(currentDir)] = None]
      BY <1>2 DEF server
    <3>2. None \in Lengths
      BY DEF Lengths
    <3>3. [files EXCEPT ![Joined(currentDir)] = None] \in [Files -> Lengths]
      BY <2>1, <3>2, FileReplaced
    <3> QED
      BY <2>1, <3>1, <3>3 DEF CountsTyped
  <2>7. CountsTyped'
    BY <2>1, <2>2, <2>4, <2>6 DEF CountsTyped, data
  <2>8. StringsTyped' /\ FlagsTyped'
    BY <2>1, <2>2, <2>3, <2>5 DEF StringsTyped, FlagsTyped, data
  <2> QED
    BY <2>7, <2>8, FtpTypeParts
<1> QED
  BY <1>1, <1>2

\* The end of a session.
LEMMA CloseTyped ==
    ASSUME FtpTypeOK, qurl_ftp_demo_close("close")
    PROVE  FtpTypeOK'
<1>1. StringsTyped /\ FlagsTyped /\ CountsTyped
  BY FtpTypeParts
<1>2. StringsTyped'
  BY DEF qurl_ftp_demo_close, StringsTyped
<1>3. FlagsTyped'
  BY <1>1, Zenon DEF qurl_ftp_demo_close, FlagsTyped, data, server
<1>4. CountsTyped'
  BY <1>1 DEF qurl_ftp_demo_close, CountsTyped, data, server
<1> QED
  BY <1>2, <1>3, <1>4, FtpTypeParts

\* The download: what the library passes on stays within the server's file.
LEMMA DownloadTyped ==
    ASSUME FtpTypeOK, qurl_ftp_demo_get
    PROVE  FtpTypeOK'
<1>0. StringsTyped /\ FlagsTyped /\ CountsTyped
  BY FtpTypeParts
<1>1. CASE get_start
  <2>1. CASE Crash
    BY <2>1, CrashTyped
  <2>2. CASE ~Crash
    <3>1. CountsTyped'
      BY <1>0, <1>1, <2>2 DEF get_start, CountsTyped, server
    <3>2. FlagsTyped'
      BY <1>0, <1>1, <2>2, Zenon DEF get_start, FlagsTyped, server
    <3>3. StringsTyped'
      BY <1>0, <1>1, <2>2 DEF get_start, StringsTyped
    <3> QED
      BY <3>1, <3>2, <3>3, FtpTypeParts
  <2> QED
    BY <2>1, <2>2
<1>2. CASE qurl_ftp_download_data_cb
  <2> DEFINE Passed(n, k) ==
           LET w == qurl_ftp_demo_vfs_write(n, k) IN
           /\ used_len + n <= files[InDir(currentDir)]
           /\ localLen' = IF localLen = used_len THEN used_len + k ELSE localLen
           /\ used_len' = IF w.ret < 0 THEN used_len ELSE used_len + n
           /\ IF Reported(n, w.ret) = n
              THEN pc' = "transfer" /\ opened' = w.open /\ UNCHANGED <<result, trouble>>
              ELSE get_exit("failed") /\ trouble' = TRUE
  <2>1. PICK n \in 1..MaxBlock : \E k \in 0..n : Passed(n, k)
    BY <1>2 DEF qurl_ftp_download_data_cb
  <2>9. PICK k \in 0..n : Passed(n, k)
    BY <2>1
  <2>2. files[InDir(currentDir)] \in Lengths
    BY <1>0 DEF CountsTyped, InDir, Files
  <2>3. used_len' \in 0..FileLen /\ localLen' \in 0..FileLen
    BY <1>0, <2>9, <2>2, FtpAssumption DEF CountsTyped, Lengths, None, qurl_ftp_demo_vfs_write
  <2>4. result' \in {"none", "ok", "failed"}
    BY <1>0, <2>9 DEF CountsTyped, get_exit
  <2>5. opened' \in BOOLEAN /\ trouble' \in BOOLEAN
    <3>1. \/ opened' = (k = n) /\ trouble' = trouble
          \/ opened' = FALSE /\ trouble' = TRUE
      BY <2>9 DEF get_exit, Reported, qurl_ftp_demo_vfs_write
    <3> QED
      BY <1>0, <3>1, Zenon DEF FlagsTyped
  <2>6. UNCHANGED <<qurl, strings, total_len, leaked, server>>
    BY <1>2 DEF qurl_ftp_download_data_cb
  <2>7. CountsTyped'
    BY <1>0, <2>3, <2>4, <2>6 DEF CountsTyped, server
  <2>8. StringsTyped' /\ FlagsTyped'
    BY <1>0, <2>5, <2>6 DEF StringsTyped, FlagsTyped, server, strings
  <2> QED
    BY <2>7, <2>8, FtpTypeParts
<1>3. CASE get_end
  <2>1. CountsTyped'
    BY <1>0, <1>3 DEF get_end, get_exit, CountsTyped, server
  <2>2. FlagsTyped'
    BY <1>0, <1>3, Zenon DEF get_end, get_exit, FlagsTyped, server, strings
  <2>3. StringsTyped'
    BY <1>0, <1>3 DEF get_end, StringsTyped, strings
  <2> QED
    BY <2>1, <2>2, <2>3, FtpTypeParts
<1> QED
  BY <1>1, <1>2, <1>3 DEF qurl_ftp_demo_get

\* The upload: what the callback reads stays within the local file.
LEMMA UploadTyped ==
    ASSUME FtpTypeOK, qurl_ftp_demo_put
    PROVE  FtpTypeOK'
<1>0. StringsTyped /\ FlagsTyped /\ CountsTyped
  BY FtpTypeParts
<1>1. CASE put_start
  <2>1. CASE Crash
    BY <2>1, CrashTyped
  <2>2. CASE ~Crash
    <3>1. /\ used_len' = 0 /\ total_len' \in {0, localLen}
          /\ result' \in {"none", "failed"}
          /\ UNCHANGED <<qurl, currentDir, last_reply_Dir, server_ap, leaked, localLen, server>>
      BY <1>1, <2>2 DEF put_start
    <3>2. url' \in BOOLEAN /\ opened' \in BOOLEAN /\ trouble' \in BOOLEAN
      BY <1>0, <1>1, <2>2 DEF put_start, FlagsTyped
    <3>3. CountsTyped'
      BY <1>0, <3>1, FtpAssumption DEF CountsTyped, server
    <3>4. StringsTyped' /\ FlagsTyped'
      BY <1>0, <3>1, <3>2 DEF StringsTyped, FlagsTyped, server
    <3> QED
      BY <3>3, <3>4, FtpTypeParts
  <2> QED
    BY <2>1, <2>2
<1>2. CASE qurl_ftp_upload_data_cb
  <2>1. UNCHANGED <<pc, qurl, strings, total_len, leaked, testDir, localLen, result>>
    BY <1>2 DEF qurl_ftp_upload_data_cb
  <2>2. opened' \in BOOLEAN /\ trouble' \in BOOLEAN
    BY <1>0, <1>2, Zenon DEF qurl_ftp_upload_data_cb, FlagsTyped
  <2>3. used_len' \in 0..FileLen /\ files' \in [Files -> Lengths]
    <3>1. CASE UNCHANGED <<used_len, files>>
      BY <1>0, <3>1 DEF CountsTyped
    <3>2. CASE \E size \in 1..MaxBlock :
                  /\ used_len' = used_len + ReadLen(size)
                  /\ files' = [files EXCEPT ![Joined(currentDir)] = used_len']
      <4>1. PICK size \in 1..MaxBlock :
                  /\ used_len' = used_len + ReadLen(size)
                  /\ files' = [files EXCEPT ![Joined(currentDir)] = used_len']
        BY <3>2
      <4>2. used_len' \in 0..FileLen
        BY <1>0, <1>2, <4>1, FtpAssumption DEF CountsTyped, ReadLen, qurl_ftp_upload_data_cb
      <4>3. PICK n \in Lengths : n = used_len'
        BY <4>2 DEF Lengths
      <4>4. files' \in [Files -> Lengths]
        BY <1>0, <4>1, <4>3, FileReplaced
      <4> QED
        BY <4>2, <4>4
    <3> QED
      BY <1>2, <3>1, <3>2 DEF qurl_ftp_upload_data_cb
  <2>4. CountsTyped'
    BY <1>0, <2>1, <2>3 DEF CountsTyped
  <2>5. StringsTyped' /\ FlagsTyped'
    BY <1>0, <2>1, <2>2 DEF StringsTyped, FlagsTyped, strings
  <2> QED
    BY <2>4, <2>5, FtpTypeParts
<1>3. CASE put_end
  <2>1. UNCHANGED <<qurl, strings, used_len, total_len, leaked, testDir, localLen>>
    BY <1>3 DEF put_end
  <2>2. opened' = FALSE /\ trouble' \in {trouble, TRUE} /\ result' \in {"ok", "failed"}
    BY <1>3 DEF put_end, put_exit
  <2>3. used_len \in Lengths
    BY <1>0 DEF CountsTyped, Lengths
  <2>4. files' = files \/ files' = [files EXCEPT ![Joined(currentDir)] = used_len]
    BY <1>3 DEF put_end
  <2>5. [files EXCEPT ![Joined(currentDir)] = used_len] \in [Files -> Lengths]
    BY <1>0, <2>3, FileReplaced
  <2>6. CountsTyped'
    BY <1>0, <2>1, <2>2, <2>4, <2>5 DEF CountsTyped
  <2>7. FlagsTyped'
    BY <1>0, <2>1, <2>2, Zenon DEF FlagsTyped, strings
  <2>8. StringsTyped'
    BY <1>0, <2>1 DEF StringsTyped, strings
  <2> QED
    BY <2>6, <2>7, <2>8, FtpTypeParts
<1> QED
  BY <1>1, <1>2, <1>3 DEF qurl_ftp_demo_put

\* The types of the download: ftp_get_demo.c never counts more bytes than the file
\* has, and its strings are null or a directory.
THEOREM GetTypeCorrect == GetSpec => []FtpTypeOK
<1>1. GetInit => FtpTypeOK
  BY FtpTypeStart DEF GetInit
<1>2. FtpTypeOK /\ [GetNext]_ftpVars => FtpTypeOK'
  <2> SUFFICES ASSUME FtpTypeOK, [GetNext]_ftpVars PROVE FtpTypeOK'
    OBVIOUS
  <2>1. CASE UNCHANGED ftpVars
    BY <2>1 DEF FtpTypeOK, ftpVars, strings, data, server
  <2> QED
    BY <2>1, OpenTyped, MkdirTyped, CwdTyped, PwdTyped, SizeTyped, CommandTyped, CloseTyped,
       DownloadTyped
    DEF GetNext, ftp_get_demo, GetDone
<1> QED
  BY <1>1, <1>2, PTL DEF GetSpec

\* The types of the upload, for ftp_put_demo.c.
THEOREM PutTypeCorrect == PutSpec => []FtpTypeOK
<1>1. PutInit => FtpTypeOK
  BY FtpTypeStart DEF PutInit
<1>2. FtpTypeOK /\ [PutNext]_putVars => FtpTypeOK'
  <2> SUFFICES ASSUME FtpTypeOK, [PutNext]_putVars PROVE FtpTypeOK'
    OBVIOUS
  <2>1. CASE UNCHANGED putVars
    BY <2>1 DEF FtpTypeOK, putVars, ftpVars, strings, data, server
  <2> QED
    BY <2>1, OpenTyped, MkdirTyped, CwdTyped, PwdTyped, SizeTyped, CommandTyped, CloseTyped,
       UploadTyped
    DEF PutNext, ftp_put_demo, PutDone, put_open, put_mkdir, put_cwd, put_pwd, put_size,
        put_list, put_nlist, put_delete, put_back, put_rmd, put_close
<1> QED
  BY <1>1, <1>2, PTL DEF PutSpec
=============================================================================
