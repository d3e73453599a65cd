----------------------------- MODULE FtpSession -----------------------------
(***************************************************************************)
(* What the two FTP demos share (network/network_protocol/ftp/get and      *)
(* .../put): the session structure, the directory and listing commands and *)
(* the server they act on.  The functions are copies of each other in the  *)
(* two programs; FtpGet and FtpPut put them in the order of their main     *)
(* functions, giving each call its place (pc before and after).            *)
(*                                                                         *)
(* One task calls one function after the other and no result is looked at: *)
(* a failed call is followed by the next one, which works with whatever    *)
(* the session structure then holds.  A function that dereferences a null  *)
(* pointer crashes the task.                                               *)
(*                                                                         *)
(* The library (qurl), the heap, the local files and the server are        *)
(* external.  qurl_core_perform succeeds, fails before the server acted,   *)
(* or fails after it ("late": the answer or a later exchange is lost).     *)
(* The login directory is the root.  Paths are the strings the code        *)
(* builds, for a test directory t and a file f.                            *)
(***************************************************************************)
EXTENDS Integers

CONSTANTS
    FileLen,        \* length of the file that is transferred
    MaxBlock        \* most bytes the library passes to a callback at once

ASSUME FtpAssumption == FileLen \in Nat \ {0} /\ MaxBlock \in Nat \ {0}

VARIABLES
    ftp,            \* the program: "get" or "put"
    pc,
    qurl,           \* whether the library handle exists
    url,            \* whether ftp_ptr->url is allocated
    currentDir, last_reply_Dir, server_ap,
    used_len, total_len,    \* of ftp_ptr->data
    opened,         \* whether the local file is open
    leaked,         \* blocks no pointer leads to any more
    testDir,        \* server: whether the test directory exists
    files,          \* server: length of the file under each path, or None
    localLen,       \* leading bytes of the local file that are the file's
    result,         \* history: how get or put came out
    trouble         \* history: an allocation, a file or a network operation failed

strings == <<url, currentDir, last_reply_Dir, server_ap>>
data    == <<used_len, total_len, opened>>
server  == <<testDir, files>>
ftpVars == <<ftp, pc, qurl, strings, data, leaked, server, localLen, result, trouble>>

None  == -1
NULL  == "null"
Dirs  == {"/", "/t", "/t/"}     \* as PWD reports them, or with a '/' appended
Files == {"/f", "/t/f", "/tf"}

\* Directory and file name, written one after the other ("%s%s").
Joined(dir) == CASE dir = "/" -> "/f" [] dir = "/t" -> "/tf" [] dir = "/t/" -> "/t/f"

\* The file of that name in the directory, which is what "%s/%s" denotes.
InDir(dir) == IF dir = "/" THEN "/f" ELSE "/t/f"

Outcomes == {"ok", "refused", "late"}

\* The control structure is cleared by the main function.  The file /f belongs
\* to somebody else.
FtpInit ==
    /\ pc = "open"
    /\ qurl = FALSE /\ url = FALSE
    /\ currentDir = NULL /\ last_reply_Dir = NULL /\ server_ap = NULL
    /\ used_len = 0 /\ total_len = 0 /\ opened = FALSE
    /\ leaked = 0
    /\ testDir \in BOOLEAN
    /\ files \in {[p \in Files |-> CASE p = "/f" -> FileLen [] p = "/tf" -> None
                                     [] p = "/t/f" -> n] : n \in {None, FileLen}}
    /\ files["/t/f"] # None => testDir
    /\ result = "none" /\ trouble = FALSE

Crash == pc' = "crashed" /\ UNCHANGED <<qurl, strings, data, leaked, server, localLen,
                                        result, trouble>>

-----------------------------------------------------------------------------
(* The header callback, called with a 257 reply naming directory d.        *)

\* qurl_ftp_demo_open_get_current_dir: without memory the old string stays.
qurl_ftp_demo_open_get_current_dir(d) == {d, last_reply_Dir}

\* qurl_ftp_demo_open_header: the new values of last_reply_Dir and currentDir.
\* The memory for currentDir is used without a check: none is a crash.
qurl_ftp_demo_open_header(d) ==
    UNION {{[last |-> l, cur |-> c] :
               c \in IF l = NULL THEN {currentDir} ELSE {l, "crash"}} :
           l \in qurl_ftp_demo_open_get_current_dir(d)}

\* The callback sees the 257 replies to the directories in ds, at most one.
Replies(ds) ==
    {[last |-> last_reply_Dir, cur |-> currentDir]} \cup
    UNION {qurl_ftp_demo_open_header(d) : d \in ds}

-----------------------------------------------------------------------------
(* The functions.  from and to are their places in the main function.      *)

\* The login, whose PWD is answered with the root.
qurl_ftp_demo_open(from, to) ==
    /\ pc = from
    /\ UNCHANGED <<data, leaked, server, localLen, result>>
    /\ \/ pc' = to /\ trouble' = TRUE /\ UNCHANGED <<qurl, strings>>
       \/ pc' = to /\ trouble' = TRUE /\ qurl' = TRUE
          /\ UNCHANGED strings
       \/ /\ qurl' = TRUE /\ url' = TRUE
          /\ \E out \in Outcomes, mem \in BOOLEAN :
             \E r \in IF out = "ok" THEN qurl_ftp_demo_open_header("/") ELSE Replies({"/"}) :
                /\ pc' = IF r.cur = "crash" THEN "crashed" ELSE to
                /\ last_reply_Dir' = r.last
                /\ currentDir' = IF r.cur = "crash" THEN NULL ELSE r.cur
                /\ server_ap' = IF out = "ok" /\ mem THEN r.last ELSE NULL
                /\ trouble' = (out # "ok" \/ ~mem \/ r.last # "/" \/ r.cur # "/")

\* The URL is the one of the session so far; when there is none the library
\* refuses.  MKD is relative to the login directory.
qurl_ftp_demo_mkdir(from, to) ==
    /\ pc = from
    /\ IF qurl /\ server_ap = NULL THEN Crash
       ELSE /\ pc' = to
            /\ UNCHANGED <<qurl, strings, data, leaked, files, localLen, result>>
            /\ \/ trouble' = (trouble \/ qurl) /\ UNCHANGED testDir
               \/ \E out \in Outcomes :
                     /\ qurl /\ url
                     /\ testDir' = (testDir \/ out # "refused")
                     /\ trouble' = (trouble \/ out # "ok")

qurl_ftp_demo_pwd(from, to) ==
    /\ pc = from /\ pc' = to
    /\ trouble' \in {trouble, trouble \/ qurl}
    /\ UNCHANGED <<qurl, strings, data, leaked, server, localLen, result>>

\* The first half of qurl_ftp_demo_cwd: the library changes to dir.  After a
\* new login the header callback sees the root.
qurl_ftp_demo_cwd(from, dir, pwd, to) ==
    /\ pc = from
    /\ IF qurl /\ (currentDir = NULL \/ server_ap = NULL) THEN Crash
       ELSE /\ UNCHANGED <<qurl, server_ap, data, leaked, server, localLen, result>>
            /\ \/ /\ pc' = to /\ url' = (url /\ ~qurl) /\ trouble' = (trouble \/ qurl)
                  /\ UNCHANGED <<currentDir, last_reply_Dir>>
               \/ \E out \in Outcomes, r \in Replies({"/"}) :
                     /\ qurl /\ url' = TRUE
                     /\ out = "ok" => dir = "/" \/ testDir
                     /\ pc' = IF r.cur = "crash" THEN "crashed"
                              ELSE IF out = "ok" THEN pwd ELSE to
                     /\ last_reply_Dir' = r.last
                     /\ currentDir' = IF r.cur = "crash" THEN NULL ELSE r.cur
                     /\ trouble' = (trouble \/ out # "ok"
                                      \/ r # [last |-> last_reply_Dir, cur |-> currentDir])

\* Mutant: no '/' is appended.
WithSlash_forgotten(dir) == dir

\* What the second half makes of currentDir after a PWD that succeeded.
WithSlash(dir) == IF dir = "/t" THEN "/t/" ELSE dir

\* The second half: PWD on the same handle.  It is answered with dir, or with
\* the root when the library had to log in again.  Unless it succeeds the
\* command list is never freed and no '/' is appended.
cwd_pwd(from, dir, to) ==
    /\ pc = from
    /\ UNCHANGED <<qurl, url, server_ap, data, server, localLen, result>>
    /\ \/ /\ pc' = to /\ leaked' = leaked + 1 /\ trouble' = TRUE
          /\ UNCHANGED <<currentDir, last_reply_Dir>>
       \/ \E out \in {"ok", "late"}, d \in {dir, "/"} : \E r \in qurl_ftp_demo_open_header(d) :
             /\ pc' = IF r.cur = "crash" THEN "crashed" ELSE to
             /\ last_reply_Dir' = r.last
             /\ currentDir' = IF r.cur = "crash" THEN NULL
                              ELSE IF out = "ok" THEN WithSlash(r.cur) ELSE r.cur
             /\ leaked' = IF out = "ok" THEN leaked ELSE leaked + 1
             /\ trouble' = (trouble \/ out # "ok" \/ r # [last |-> dir, cur |-> dir])

\* The structure for the transfer is cleared first.
qurl_ftp_demo_size(from, to) ==
    /\ pc = from
    /\ IF currentDir = NULL THEN Crash
       ELSE /\ pc' = to
            /\ used_len' = 0
            /\ url' \in BOOLEAN
            /\ \/ /\ url' /\ files[Joined(currentDir)] # None
                  /\ total_len' = files[Joined(currentDir)]
                  /\ UNCHANGED trouble
               \/ /\ url' /\ files[Joined(currentDir)] = None
                  /\ total_len' = 0 /\ UNCHANGED trouble
               \/ total_len' = 0 /\ trouble' = TRUE
            /\ UNCHANGED <<qurl, currentDir, last_reply_Dir, server_ap, opened, leaked,
                           server, localLen, result>>

\* What list, nlist, delete and rmd have in common: a command buffer, the URL
\* made anew, and the command.  Nothing happens without a handle or a buffer.
\* Act is what the server does.  keeps says whether the buffer is lost when there
\* is no memory for the URL.
Command(from, to, keeps, Act) ==
    /\ pc = from
    /\ IF qurl /\ (currentDir = NULL \/ server_ap = NULL) THEN Crash
       ELSE /\ pc' = to
            /\ UNCHANGED <<qurl, currentDir, last_reply_Dir, server_ap, data, localLen,
                           result>>
            /\ \/ trouble' = (trouble \/ qurl) /\ UNCHANGED <<url, leaked, server>>
               \/ /\ qurl /\ url' = FALSE /\ trouble' = TRUE
                  /\ leaked' = leaked + (IF keeps THEN 1 ELSE 0)
                  /\ UNCHANGED server
               \/ \E out \in Outcomes :
                     /\ qurl /\ url' = TRUE /\ leaked' = leaked + 1
                     /\ trouble' = (trouble \/ out # "ok")
                     /\ IF out = "refused" THEN UNCHANGED server ELSE Act

\* The whole directory, as the demos pass no path.
qurl_ftp_demo_list(from, to)  == Command(from, to, TRUE, UNCHANGED server)
qurl_ftp_demo_nlist(from, to) == Command(from, to, TRUE, UNCHANGED server)

\* DELE currentDir followed by the name; the server refuses when there is none.
qurl_ftp_demo_delete(from, to) ==
    Command(from, to, TRUE,
            files' = [files EXCEPT ![Joined(currentDir)] = None] /\ UNCHANGED testDir)

\* RMD currentDir followed by the name: the test directory only from the root,
\* and only when it is empty.
qurl_ftp_demo_rmd(from, to) ==
    Command(from, to, FALSE,
            /\ testDir' = (testDir /\ (currentDir # "/" \/ files["/t/f"] # None))
            /\ UNCHANGED files)

\* Close, and release of the structure at the end of the main function.
qurl_ftp_demo_close(from) ==
    /\ pc = from /\ pc' = "end"
    /\ qurl' = FALSE /\ url' = FALSE
    /\ currentDir' = NULL /\ last_reply_Dir' = NULL /\ server_ap' = NULL
    /\ UNCHANGED <<data, leaked, server, localLen, result, trouble>>

-----------------------------------------------------------------------------
FtpTypeOK ==
    /\ qurl \in BOOLEAN /\ url \in BOOLEAN /\ opened \in BOOLEAN /\ testDir \in BOOLEAN
    /\ {currentDir, last_reply_Dir, server_ap} \subseteq Dirs \cup {NULL}
    /\ used_len \in 0..FileLen /\ total_len \in 0..FileLen /\ localLen \in 0..FileLen
    /\ leaked \in Nat
    /\ files \in [Files -> {None} \cup 0..FileLen]
    /\ result \in {"none", "ok", "failed"} /\ trouble \in BOOLEAN

\* The local file is closed when a program is over, whichever call failed.
LocalFileClosed == pc = "end" => ~opened

\* When no allocation, no file and no network operation fails, neither program
\* dereferences a null pointer, each leaves nothing of its own on the server, and the
\* file of the same name in the root is untouched: MKD and the URLs are relative to
\* the login, DELE and RMD are absolute, and all of them mean the same places.
CleanRun ==
    ~trouble => /\ pc # "crashed"
                /\ files["/f"] = FileLen /\ files["/tf"] = None
                /\ pc = "end" => ~testDir /\ files["/t/f"] = None

-----------------------------------------------------------------------------
(* What makes CleanRun inductive.                                          *)

InTestDir == {"pwd", "size", "get", "put", "transfer", "list", "nlist", "delete",
              "back", "back_pwd"}

\* A session without trouble knows the directory it is in: the root up to the end of
\* the first change of directory, the test directory up to the end of the second.
CleanSession ==
    ~trouble =>
      /\ pc # "crashed"
      /\ files["/f"] = FileLen /\ files["/tf"] = None
      /\ pc \notin {"open", "end"} => qurl /\ server_ap = "/"
      /\ pc \in {"mkdir", "cwd", "cwd_pwd", "rmd"} => currentDir = "/"
      /\ pc \in InTestDir => currentDir = "/t/"
      /\ pc \in {"back", "back_pwd", "rmd", "close", "end"} => files["/t/f"] = None
      /\ pc \in {"close", "end"} => ~testDir
=============================================================================
