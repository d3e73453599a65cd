----------------------------- MODULE SmtpUpload -----------------------------
(***************************************************************************)
(* The SMTP demos (network/network_protocol/smtp/no_tls and .../tls), which *)
(* differ in their main function only.                                     *)
(*                                                                         *)
(* The library sends a mail whose text it gets from                        *)
(* qurl_smtp_upload_data_cb, called with a buffer again and again until it  *)
(* returns 0.  The callback writes as many of the mail's parts as fit:     *)
(* header, header of the text, text, header of the attachment, attachment, *)
(* end.  Its place in the mail is status; one that does not fit waits for  *)
(* the next call.  Lengths are the source's; contents are left out.        *)
(*                                                                         *)
(* Library, heap and files are external.  The encoder (qcm_base64) writes  *)
(* four characters for three bytes and a line break after every 76         *)
(* characters, and fails if that does not fit.                             *)
(*                                                                         *)
(* The subject is copied from an array without a terminator                *)
(* (g_hello_utf8_hex): its length is whatever the memory behind the array  *)
(* makes it, so that it fits the 128 characters of its encoding or not.    *)
(***************************************************************************)
EXTENDS Integers, Sequences

CONSTANTS
    Sizes,          \* buffer sizes the library calls with
    FileLens,       \* lengths of the attachment to look at
    TextLen,        \* text_len
    MailHeadLen, TextHeadLen, AttaHeadLen, TailLen, \* lengths of the fixed parts
    TextHeadRoom, AttaHeadRoom, TailRoom        \* room the callback asks for

\* The library's buffer holds the header of the mail, and the room asked for is
\* enough for each part ("generally single size is 2048").
ASSUME SmtpAssumption ==
    /\ TextLen \in Nat /\ MailHeadLen \in Nat \ {0} /\ TextHeadLen \in Nat \ {0}
    /\ AttaHeadLen \in Nat \ {0} /\ TailLen \in Nat \ {0}
    /\ TextHeadRoom \in Nat /\ AttaHeadRoom \in Nat /\ TailRoom \in Nat
    /\ Sizes \subseteq Nat /\ FileLens \subseteq Nat
    /\ TextHeadLen <= TextHeadRoom /\ AttaHeadLen <= AttaHeadRoom /\ TailLen <= TailRoom
    /\ \A s \in Sizes : /\ 4 <= s /\ MailHeadLen <= s
                       /\ TextHeadRoom <= s /\ AttaHeadRoom <= s /\ TailRoom < s

VARIABLES
    mpc,            \* "start", "perform", "callback", "end"
    status, text_used, file_used, file_size,    \* of the client structure
    smtp_size, len, \* of the callback
    at,             \* the status the callback tests next
    fits,           \* whether the encoded subject fits its buffer
    fileLen,        \* length of the attachment
    atta_fd,        \* its descriptor: not opened, open, closed, or closed twice
    lost,           \* history: the attachment could not be opened or read
    parts,          \* history: what was written, in order
    mail            \* "none", "sent" (the library got its 0) or "failed"

client   == <<status, text_used, file_used, file_size>>
smtpVars == <<mpc, client, smtp_size, len, at, fits, fileLen, atta_fd, lost, parts, mail>>

\* qurl_smtp_send_statu_e
HEAD == 0
TEXT_HEAD == 1
TEXT_BODY == 2
ATTA_HEAD == 3
ATTA_BODY == 4
TAIL == 5
NONE == 6

SmtpInit ==
    /\ mpc = "start"
    /\ status = HEAD /\ text_used = 0 /\ file_used = 0 /\ file_size = 0
    /\ smtp_size = 0 /\ len = 0 /\ at = HEAD
    /\ fits \in BOOLEAN /\ fileLen \in FileLens
    /\ atta_fd = "none" /\ lost = FALSE /\ parts = <<>> /\ mail = "none"

-----------------------------------------------------------------------------
(* The main functions: set-up, any part of which may fail, and the request. *)

\* The strings of the client are allocated, or one of them is not.
qurl_smtp_client_init == {0, -1}

\* Everything before qurl_core_perform.
SetUp ==
    /\ mpc = "start"
    /\ \/ mpc' = "end" /\ mail' = "failed"
       \/ \E ret \in qurl_smtp_client_init :
             IF ret # 0 THEN mpc' = "end" /\ mail' = "failed"
             ELSE mpc' = "perform" /\ UNCHANGED mail
    /\ UNCHANGED <<client, smtp_size, len, at, fits, fileLen, atta_fd, lost, parts>>

\* The connection fails, at any time between two calls.
PerformFails ==
    /\ mpc = "perform"
    /\ mpc' = "end" /\ mail' = "failed"
    /\ UNCHANGED <<client, smtp_size, len, at, fits, fileLen, atta_fd, lost, parts>>

-----------------------------------------------------------------------------
(* qurl_smtp_upload_data_cb.                                               *)

Called ==
    /\ mpc = "perform" /\ mpc' = "callback"
    /\ smtp_size' \in Sizes /\ len' = 0 /\ at' = HEAD
    /\ UNCHANGED <<client, fits, fileLen, atta_fd, lost, parts, mail>>

Room == smtp_size - len

\* The callback comes to the part that status s stands for.
Stage(s) == mpc = "callback" /\ status = s /\ at <= s /\ at' = s + 1

\* A fixed part of length n is written, and status becomes next.
Write(name, n, next) ==
    /\ len' = len + n
    /\ status' = next
    /\ parts' = Append(parts, name)

\* The part has to wait for the next call.
Wait == UNCHANGED <<len, client, parts, atta_fd, lost>>

\* A subject that cannot be encoded: 0 is returned and the status stays.
qurl_smtp_encode_mail_header ==
    /\ Stage(HEAD)
    /\ IF ~fits THEN Wait
       ELSE /\ Write("head", MailHeadLen, TEXT_HEAD)
            /\ UNCHANGED <<text_used, file_used, file_size, atta_fd, lost>>
    /\ UNCHANGED <<mpc, smtp_size, fits, fileLen, mail>>

\* Mutant: status is not advanced.
qurl_smtp_encode_text_head_again ==
    /\ Stage(TEXT_HEAD)
    /\ IF Room < TextHeadRoom THEN Wait
       ELSE /\ Write("texthead", TextHeadLen, TEXT_HEAD)
            /\ UNCHANGED <<text_used, file_used, file_size, atta_fd, lost>>
    /\ UNCHANGED <<mpc, smtp_size, fits, fileLen, mail>>

qurl_smtp_encode_text_head ==
    /\ Stage(TEXT_HEAD)
    /\ IF Room < TextHeadRoom THEN Wait
       ELSE /\ Write("texthead", TextHeadLen, TEXT_BODY)
            /\ UNCHANGED <<text_used, file_used, file_size, atta_fd, lost>>
    /\ UNCHANGED <<mpc, smtp_size, fits, fileLen, mail>>

\* Mutant: the line breaks are not allowed for.
CanRead_no_breaks(room) ==
    LET can == (room * 3) \div 4 IN can - (can % 3)

\* How many bytes may be read for an encoding into room characters.
CanRead(room) ==
    LET free == room - (room \div 76) * 2
        can  == (free * 3) \div 4
    IN  can - (can % 3)

\* qcm_base64_encode: length of the encoding of n bytes, with line breaks.
Encoded(n) ==
    LET chars == 4 * ((n + 2) \div 3) IN chars + 2 * (chars \div 76)

Copied(left) == IF CanRead(Room) < left THEN CanRead(Room) ELSE left

qurl_smtp_encode_text_body ==
    /\ Stage(TEXT_BODY)
    /\ LET n == Copied(TextLen - text_used) IN
       IF TextLen = 0
       THEN status' = ATTA_HEAD /\ UNCHANGED <<len, text_used, parts>>
       ELSE IF Room < 4 \/ Encoded(n) > Room
       THEN UNCHANGED <<status, len, text_used, parts>>
       ELSE /\ text_used' = text_used + n
            /\ len' = len + Encoded(n)
            /\ parts' = Append(parts, "text")
            /\ status' = IF text_used' >= TextLen THEN ATTA_HEAD ELSE TEXT_BODY
    /\ UNCHANGED <<mpc, file_used, file_size, smtp_size, fits, fileLen, atta_fd, lost, mail>>

\* Mutant: the header of the attachment is written whatever room there is.
qurl_smtp_encode_atta_head_unchecked ==
    /\ Stage(ATTA_HEAD)
    /\ Write("attahead", AttaHeadLen, ATTA_BODY)
    /\ file_size' = fileLen /\ atta_fd' = "open"
    /\ UNCHANGED <<text_used, file_used, lost, mpc, smtp_size, fits, fileLen, mail>>

\* The file is opened and its size asked for; if either fails the mail goes on
\* without it.
qurl_smtp_encode_atta_head ==
    /\ Stage(ATTA_HEAD)
    /\ IF Room < AttaHeadRoom THEN Wait
       ELSE /\ \/ /\ Write("attahead", AttaHeadLen, ATTA_BODY)
                  /\ file_size' = fileLen /\ atta_fd' = "open" /\ UNCHANGED lost
               \/ /\ status' = TAIL /\ lost' = TRUE
                  /\ UNCHANGED <<len, parts, file_size, atta_fd>>
            /\ UNCHANGED <<text_used, file_used>>
    /\ UNCHANGED <<mpc, smtp_size, fits, fileLen, mail>>

\* When there is no memory, when reading fails (ok is false then) or when the
\* encoding does not fit, the file is closed and the mail ended.  A failed read has
\* closed the file already (qurl_smtp_file_read), and forgets so in its own copy of
\* the descriptor only: it is closed again.
qurl_smtp_encode_atta_body ==
    /\ Stage(ATTA_BODY)
    /\ LET n == Copied(file_size - file_used) IN
       IF Room < 4 THEN Wait
       ELSE /\ UNCHANGED <<text_used, file_size>>
            /\ IF n = 0
               THEN status' = TAIL /\ UNCHANGED <<len, file_used, parts, atta_fd, lost>>
               ELSE \E ok \in BOOLEAN :
                    IF ok /\ Encoded(n) <= Room
                    THEN /\ file_used' = file_used + n
                         /\ len' = len + Encoded(n)
                         /\ parts' = Append(parts, "file")
                         /\ status' = IF file_used' >= file_size THEN TAIL ELSE ATTA_BODY
                         /\ UNCHANGED <<atta_fd, lost>>
                    ELSE /\ status' = TAIL
                         /\ atta_fd' \in IF ok THEN {"closed"} ELSE {"closed", "twice"}
                         /\ lost' = (lost \/ ~ok)
                         /\ UNCHANGED <<len, file_used, parts>>
    /\ UNCHANGED <<mpc, smtp_size, fits, fileLen, mail>>

EndOfMail ==
    /\ Stage(TAIL)
    /\ IF Room > TailRoom
       THEN /\ Write("tail", TailLen, NONE)
            /\ UNCHANGED <<text_used, file_used, file_size, atta_fd, lost>>
       ELSE Wait
    /\ UNCHANGED <<mpc, smtp_size, fits, fileLen, mail>>

\* The callback returns when no further test applies; the library takes 0 for
\* the end of the mail.
Return ==
    /\ mpc = "callback"
    /\ at > status \/ status = NONE
    /\ IF len = 0
       THEN mpc' = "end" /\ mail' = "sent"
       ELSE mpc' = "perform" /\ UNCHANGED mail
    /\ UNCHANGED <<client, smtp_size, len, at, fits, fileLen, atta_fd, lost, parts>>

qurl_smtp_upload_data_cb ==
    \/ Called
    \/ qurl_smtp_encode_mail_header \/ qurl_smtp_encode_text_head
    \/ qurl_smtp_encode_text_body \/ qurl_smtp_encode_atta_head
    \/ qurl_smtp_encode_atta_body \/ EndOfMail
    \/ Return

SmtpDone == mpc = "end" /\ UNCHANGED smtpVars

SmtpNext == SetUp \/ PerformFails \/ qurl_smtp_upload_data_cb \/ SmtpDone

SmtpSpec == SmtpInit /\ [][SmtpNext]_smtpVars

-----------------------------------------------------------------------------
Parts == {"head", "texthead", "text", "attahead", "file", "tail"}

Places ==
    /\ mpc \in {"start", "perform", "callback", "end"}
    /\ status \in HEAD..NONE /\ at \in HEAD..NONE
    /\ text_used \in 0..TextLen
    /\ fileLen \in FileLens /\ file_size \in {0, fileLen} /\ file_used \in 0..file_size
    /\ smtp_size \in Sizes \cup {0} /\ len \in Nat
    /\ mail \in {"none", "sent", "failed"}

Flags == fits \in BOOLEAN /\ atta_fd \in {"none", "open", "closed", "twice"} /\ lost \in BOOLEAN

SmtpTypeOK == Places /\ Flags /\ parts \in Seq(Parts)

\* Whatever the library's buffers and the attachment, the callback never writes
\* more than the buffer holds: the estimate of the line breaks and the rounding
\* to three bytes leave room for the encoding.
WithinBuffer == len <= smtp_size

Place(part) ==
    CASE part = "head" -> 0 [] part = "texthead" -> 1 [] part = "text" -> 2
      [] part = "attahead" -> 3 [] part = "file" -> 4 [] part = "tail" -> 5

\* The parts of the mail come in order, and only text and attachment in pieces.
MailInOrder ==
    \A i \in 1..(Len(parts) - 1) :
        \/ Place(parts[i]) < Place(parts[i + 1])
        \/ parts[i] = parts[i + 1] /\ parts[i] \in {"text", "file"}

\* When the callback returns 0 the mail is complete: its end is written, all of
\* the text, and all of the attachment unless that could not be opened or read.
\* A part that has to wait never makes a call return 0 by itself.  Only a subject
\* that cannot be encoded does, and the mail is then empty.
MailComplete ==
    mail = "sent" /\ fits =>
        /\ parts # <<>> /\ parts[Len(parts)] = "tail"
        /\ text_used = TextLen
        /\ lost \/ (file_size = fileLen /\ file_used = fileLen)

\* A call has written nothing before its first test, and one that has written
\* nothing is not past the status: whatever comes next still finds all of the
\* buffer free.
NothingYet ==
    mpc = "callback" =>
        /\ smtp_size \in Sizes
        /\ at = HEAD => len = 0
        /\ len = 0 /\ at > status => status = HEAD /\ ~fits

\* What is behind the status is complete, what is before it not begun.
Behind ==
    /\ status < TEXT_BODY => text_used = 0
    /\ status = TEXT_BODY => text_used < TextLen \/ TextLen = 0
    /\ status > TEXT_BODY => text_used = TextLen
    /\ status = ATTA_BODY => file_size = fileLen
    /\ status >= TAIL => lost \/ (file_size = fileLen /\ file_used = fileLen)
    /\ mail = "sent" => mpc = "end" /\ (fits => status = NONE)

\* The last status is reached by writing the end of the mail.
Ended == status = NONE => parts # <<>> /\ parts[Len(parts)] = "tail"

\* The last part written is the one before the status, or the one of the status
\* when that is sent in pieces.
LastInPlace ==
    parts # <<>> =>
        LET last == Place(parts[Len(parts)])
        IN  last < status \/ (last = status /\ status \in {TEXT_BODY, ATTA_BODY})

SmtpInv == SmtpTypeOK /\ WithinBuffer /\ NothingYet /\ Behind /\ Ended
=============================================================================
