----------------------------- MODULE SmtpProofs -----------------------------
(***************************************************************************)
(* SMTP: for all sizes of the library's buffers, all lengths of text and   *)
(* attachment and all lengths of the fixed parts, the callback stays       *)
(* within its buffer and reports the end of a complete mail only.          *)
(***************************************************************************)
EXTENDS SmtpUpload, SequenceTheorems, TLAPS

\* The estimate of the line breaks and the rounding to three bytes leave room for
\* what the encoder makes of any number of bytes up to CanRead(room).
LEMMA EncodingFits ==
    ASSUME NEW room \in Nat, NEW n \in Nat, n <= CanRead(room)
    PROVE  /\ Encoded(n) \in Nat /\ Encoded(n) <= room
           /\ n > 0 => Encoded(n) >= 4
<1> DEFINE k == room \div 76
           free == room - k * 2
           can == (free * 3) \div 4
           most == can - (can % 3)
           triples == (n + 2) \div 3
           chars == 4 * triples
<1>1. k \in Nat /\ 76 * k <= room
  OBVIOUS
<1>2. free \in Nat /\ free = room - 2 * k
  BY <1>1
<1>3. can \in Nat /\ 4 * can <= 3 * free
  BY <1>2
<1>4. PICK q \in Nat : most = 3 * q
  <2>1. can = 3 * (can \div 3) + (can % 3) /\ can \div 3 \in Nat
    BY <1>3
  <2> QED
    BY <2>1, <1>3
<1>5. 4 * q <= free
  <2>1. most <= can
    BY <1>3
  <2> QED
    BY <2>1, <1>2, <1>3, <1>4
<1>6. n <= 3 * q
  BY <1>4 DEF CanRead
<1>7. triples \in Nat /\ triples <= q /\ (n > 0 => triples >= 1)
  BY <1>4, <1>6
<1>8. chars \in Nat /\ chars <= free /\ (n > 0 => chars >= 4)
  BY <1>2, <1>5, <1>7
<1>9. chars \div 76 \in Nat /\ chars \div 76 <= k
  BY <1>1, <1>2, <1>8
<1>10. Encoded(n) = chars + 2 * (chars \div 76)
  BY DEF Encoded
<1> HIDE DEF chars, k, free
<1> QED
  BY <1>1, <1>2, <1>8, <1>9, <1>10

\* Four characters of room are enough for three bytes.
LEMMA CanReadThree ==
    ASSUME NEW room \in Nat
    PROVE  CanRead(room) \in Nat /\ (room >= 4 => CanRead(room) >= 3)
<1> DEFINE k == room \div 76
           free == room - k * 2
           can == (free * 3) \div 4
<1>1. k \in Nat /\ 76 * k <= room
  OBVIOUS
<1>2. free \in Nat /\ (room >= 4 => free >= 4)
  BY <1>1
<1>3. can \in Nat /\ (room >= 4 => can >= 3)
  BY <1>2
<1>4. can - (can % 3) \in Nat /\ (can >= 3 => can - (can % 3) >= 3)
  BY <1>3
<1> QED
  BY <1>3, <1>4 DEF CanRead

-----------------------------------------------------------------------------
\* The part of text or attachment that is copied fits, and is not empty as long
\* as there is something left and room for four characters.
LEMMA CopiedFits ==
    ASSUME NEW left \in Nat, smtp_size \in Nat, len \in Nat, len <= smtp_size
    PROVE  /\ Room \in Nat /\ Copied(left) \in Nat /\ Copied(left) <= left
           /\ Encoded(Copied(left)) \in Nat /\ Encoded(Copied(left)) <= Room
           /\ Copied(left) > 0 => Encoded(Copied(left)) >= 4
           /\ Room >= 4 /\ left > 0 => Copied(left) > 0
<1>1. Room \in Nat
  BY DEF Room
<1>2. CanRead(Room) \in Nat /\ (Room >= 4 => CanRead(Room) >= 3)
  BY <1>1, CanReadThree
<1>3. /\ Copied(left) \in Nat /\ Copied(left) <= left /\ Copied(left) <= CanRead(Room)
      /\ Room >= 4 /\ left > 0 => Copied(left) > 0
  BY <1>2 DEF Copied
<1> QED
  BY <1>1, <1>3, EncodingFits

\* The record of the parts stays a sequence of them, and ends in the new one.
LEMMA PartAppended ==
    ASSUME parts \in Seq(Parts), NEW p \in Parts
    PROVE  /\ Append(parts, p) \in Seq(Parts) /\ Append(parts, p) # <<>>
           /\ Append(parts, p)[Len(Append(parts, p))] = p
<1>1. /\ Append(parts, p) \in Seq(Parts) /\ Append(parts, p) # <<>>
      /\ Len(Append(parts, p)) = Len(parts) + 1
      /\ Append(parts, p)[Len(parts) + 1] = p
  BY AppendProperties
<1> QED
  BY <1>1

USE DEF HEAD, TEXT_HEAD, TEXT_BODY, ATTA_HEAD, ATTA_BODY, TAIL, NONE

\* A step of the main function, and entry and end of the callback.
LEMMA MainKeepsInv ==
    ASSUME SmtpInv, SetUp \/ PerformFails \/ Called \/ Return \/ UNCHANGED smtpVars
    PROVE  SmtpInv'
<1> USE SmtpAssumption DEF SmtpInv, SmtpTypeOK, Places, Flags, WithinBuffer, NothingYet, Behind,
                           Ended
<1>1. CASE SetUp
  BY <1>1 DEF SetUp, qurl_smtp_client_init, client
<1>2. CASE PerformFails
  BY <1>2 DEF PerformFails, client
<1>3. CASE Called
  BY <1>3 DEF Called, client
<1>4. CASE Return
  BY <1>4 DEF Return, client
<1>5. CASE UNCHANGED smtpVars
  BY <1>5 DEF smtpVars, client
<1> QED
  BY <1>1, <1>2, <1>3, <1>4, <1>5

\* The header is written, or its subject cannot be encoded.
LEMMA HeaderKeepsInv ==
    ASSUME SmtpInv, qurl_smtp_encode_mail_header
    PROVE  SmtpInv'
<1> USE SmtpAssumption
<1>1. parts' \in Seq(Parts)
  <2>1. Append(parts, "head") \in Seq(Parts)
    BY PartAppended DEF SmtpInv, SmtpTypeOK, Parts
  <2> QED
    BY <2>1 DEF SmtpInv, SmtpTypeOK, qurl_smtp_encode_mail_header, Stage, Wait,
       Write, client, Room
<1>2. Flags'
  BY DEF SmtpInv, SmtpTypeOK, Flags, qurl_smtp_encode_mail_header, Stage, Wait, Write,
     client, Room
<1>3. Places'
  BY DEF SmtpInv, SmtpTypeOK, Places, Behind, qurl_smtp_encode_mail_header, Stage,
     Wait, Write, client, Room
<1>4. WithinBuffer'
  BY DEF SmtpInv, SmtpTypeOK, Places, WithinBuffer, NothingYet,
     qurl_smtp_encode_mail_header, Stage, Wait, Write, client, Room
<1>5. NothingYet'
  BY DEF SmtpInv, SmtpTypeOK, Places, WithinBuffer, NothingYet, Behind,
     qurl_smtp_encode_mail_header, Stage, Wait, Write, client, Room
<1>6. Behind'
  BY DEF SmtpInv, SmtpTypeOK, Places, Behind, qurl_smtp_encode_mail_header, Stage,
     Wait, Write, client, Room
<1>7. Ended'
  BY DEF SmtpInv, SmtpTypeOK, Places, Ended, qurl_smtp_encode_mail_header, Stage,
     Wait, Write, client, Room
<1> QED
  BY <1>1, <1>2, <1>3, <1>4, <1>5, <1>6, <1>7 DEF SmtpInv, SmtpTypeOK

\* The header of the text is written, or waits.
LEMMA TextHeadKeepsInv ==
    ASSUME SmtpInv, qurl_smtp_encode_text_head
    PROVE  SmtpInv'
<1> USE SmtpAssumption
<1>1. parts' \in Seq(Parts)
  <2>1. Append(parts, "texthead") \in Seq(Parts)
    BY PartAppended DEF SmtpInv, SmtpTypeOK, Parts
  <2> QED
    BY <2>1 DEF SmtpInv, SmtpTypeOK, qurl_smtp_encode_text_head, Stage, Wait, Write,
       client, Room
<1>2. Flags'
  BY DEF SmtpInv, SmtpTypeOK, Flags, qurl_smtp_encode_text_head, Stage, Wait, Write,
     client, Room
<1>3. Places'
  BY DEF SmtpInv, SmtpTypeOK, Places, Behind, qurl_smtp_encode_text_head, Stage, Wait,
     Write, client, Room
<1>4. WithinBuffer'
  BY DEF SmtpInv, SmtpTypeOK, Places, WithinBuffer, NothingYet,
     qurl_smtp_encode_text_head, Stage, Wait, Write, client, Room
<1>5. NothingYet'
  BY DEF SmtpInv, SmtpTypeOK, Places, WithinBuffer, NothingYet, Behind,
     qurl_smtp_encode_text_head, Stage, Wait, Write, client, Room
<1>6. Behind'
  BY DEF SmtpInv, SmtpTypeOK, Places, Behind, qurl_smtp_encode_text_head, Stage, Wait,
     Write, client, Room
<1>7. Ended'
  BY DEF SmtpInv, SmtpTypeOK, Places, Ended, qurl_smtp_encode_text_head, Stage, Wait,
     Write, client, Room
<1> QED
  BY <1>1, <1>2, <1>3, <1>4, <1>5, <1>6, <1>7 DEF SmtpInv, SmtpTypeOK

\* The header of the attachment is written or waits, or the file is given up.
LEMMA AttaHeadKeepsInv ==
    ASSUME SmtpInv, qurl_smtp_encode_atta_head
    PROVE  SmtpInv'
<1> USE SmtpAssumption
<1>1. parts' \in Seq(Parts)
  <2>1. Append(parts, "attahead") \in Seq(Parts)
    BY PartAppended DEF SmtpInv, SmtpTypeOK, Parts
  <2> QED
    BY <2>1 DEF SmtpInv, SmtpTypeOK, qurl_smtp_encode_atta_head, Stage, Wait, Write,
       client, Room
<1>2. Flags'
  BY DEF SmtpInv, SmtpTypeOK, Flags, qurl_smtp_encode_atta_head, Stage, Wait, Write,
     client, Room
<1>3. Places'
  BY DEF SmtpInv, SmtpTypeOK, Places, Behind, qurl_smtp_encode_atta_head, Stage, Wait,
     Write, client, Room
<1>4. WithinBuffer'
  BY DEF SmtpInv, SmtpTypeOK, Places, WithinBuffer, NothingYet,
     qurl_smtp_encode_atta_head, Stage, Wait, Write, client, Room
<1>5. NothingYet'
  BY DEF SmtpInv, SmtpTypeOK, Places, WithinBuffer, NothingYet, Behind,
     qurl_smtp_encode_atta_head, Stage, Wait, Write, client, Room
<1>6. Behind'
  BY DEF SmtpInv, SmtpTypeOK, Places, Behind, qurl_smtp_encode_atta_head, Stage, Wait,
     Write, client, Room
<1>7. Ended'
  BY DEF SmtpInv, SmtpTypeOK, Places, Ended, qurl_smtp_encode_atta_head, Stage, Wait,
     Write, client, Room
<1> QED
  BY <1>1, <1>2, <1>3, <1>4, <1>5, <1>6, <1>7 DEF SmtpInv, SmtpTypeOK

\* The end of the mail is written, or waits.
LEMMA EndOfMailKeepsInv ==
    ASSUME SmtpInv, EndOfMail
    PROVE  SmtpInv'
<1> USE SmtpAssumption
<1>1. parts' \in Seq(Parts) /\ Ended'
  <2>1. /\ Append(parts, "tail") \in Seq(Parts) /\ Append(parts, "tail") # <<>>
        /\ Append(parts, "tail")[Len(Append(parts, "tail"))] = "tail"
    BY PartAppended DEF SmtpInv, SmtpTypeOK, Parts
  <2>2. CASE Room > TailRoom
    <3>1. parts' = Append(parts, "tail")
      BY <2>2 DEF EndOfMail, Write
    <3> QED
      BY <2>1, <3>1 DEF Ended
  <2>3. CASE ~(Room > TailRoom)
    BY <2>3 DEF SmtpInv, SmtpTypeOK, Ended, EndOfMail, Wait, client
  <2> QED
    BY <2>2, <2>3
<1>2. Flags'
  BY DEF SmtpInv, SmtpTypeOK, Flags, EndOfMail, Stage, Wait, Write, client, Room
<1>3. Places'
  BY DEF SmtpInv, SmtpTypeOK, Places, Behind, EndOfMail, Stage, Wait, Write, client, Room
<1>4. WithinBuffer'
  BY DEF SmtpInv, SmtpTypeOK, Places, WithinBuffer, NothingYet, EndOfMail, Stage,
     Wait, Write, client, Room
<1>5. NothingYet'
  BY DEF SmtpInv, SmtpTypeOK, Places, WithinBuffer, NothingYet, Behind, EndOfMail,
     Stage, Wait, Write, client, Room
<1>6. Behind'
  BY DEF SmtpInv, SmtpTypeOK, Places, Behind, EndOfMail, Stage, Wait, Write, client, Room
<1> QED
  BY <1>1, <1>2, <1>3, <1>4, <1>5, <1>6 DEF SmtpInv, SmtpTypeOK

\* A piece of the text is written.
LEMMA TextKeepsInv ==
    ASSUME SmtpInv, qurl_smtp_encode_text_body
    PROVE  SmtpInv'
<1> USE SmtpAssumption
<1> DEFINE n == Copied(TextLen - text_used)
<1>a. TextLen - text_used \in Nat /\ smtp_size \in Nat /\ len \in Nat /\ len <= smtp_size
  BY DEF SmtpInv, SmtpTypeOK, Places, WithinBuffer
<1>b. /\ Room \in Nat /\ n \in Nat /\ n <= TextLen - text_used
      /\ Encoded(n) \in Nat /\ Encoded(n) <= Room
      /\ n > 0 => Encoded(n) >= 4
      /\ Room >= 4 /\ TextLen - text_used > 0 => n > 0
  BY <1>a, CopiedFits
<1>c. Room = smtp_size - len
  BY DEF Room
<1> HIDE DEF n
<1>1. parts' \in Seq(Parts)
  <2>1. Append(parts, "text") \in Seq(Parts)
    BY PartAppended DEF SmtpInv, SmtpTypeOK, Parts
  <2> QED
    BY <2>1 DEF SmtpInv, SmtpTypeOK, qurl_smtp_encode_text_body, Stage, n
<1>2. Flags'
  BY DEF SmtpInv, SmtpTypeOK, Flags, qurl_smtp_encode_text_body, Stage, n
<1>3. Places' /\ Behind'
  <2>d. CASE TextLen # 0 /\ Room >= 4
    <3>1. /\ status = TEXT_BODY /\ at' = 3
          /\ text_used' = text_used + n /\ len' = len + Encoded(n)
          /\ status' = IF text_used' >= TextLen THEN ATTA_HEAD ELSE TEXT_BODY
          /\ UNCHANGED <<mpc, file_used, file_size, smtp_size, fits, fileLen, lost, mail>>
      BY <1>b, <2>d DEF qurl_smtp_encode_text_body, Stage, n
    <3>2. text_used' \in 0..TextLen /\ len' \in Nat /\ status' \in {TEXT_BODY, ATTA_HEAD}
      BY <1>a, <1>b, <3>1 DEF SmtpInv, SmtpTypeOK, Places
    <3>3. Places'
      BY <3>1, <3>2 DEF SmtpInv, SmtpTypeOK, Places
    <3>4. Behind'
      BY <3>1, <3>2 DEF SmtpInv, SmtpTypeOK, Places, Behind
    <3> QED
      BY <3>3, <3>4
  <2>e. CASE TextLen = 0 \/ ~(Room >= 4)
    <3>1. /\ status = TEXT_BODY /\ at' = 3
          /\ UNCHANGED <<len, text_used, mpc, file_used, file_size, smtp_size, fits, fileLen,
                         lost, mail>>
          /\ status' = IF TextLen = 0 THEN ATTA_HEAD ELSE TEXT_BODY
      BY <1>b, <2>e DEF qurl_smtp_encode_text_body, Stage
    <3>2. Places'
      BY <3>1 DEF SmtpInv, SmtpTypeOK, Places
    <3>3. Behind'
      BY <3>1 DEF SmtpInv, SmtpTypeOK, Places, Behind
    <3> QED
      BY <3>2, <3>3
  <2> QED
    BY <2>d, <2>e
<1>4. WithinBuffer'
  BY <1>a, <1>b, <1>c DEF SmtpInv, SmtpTypeOK, Places, WithinBuffer, NothingYet,
     qurl_smtp_encode_text_body, Stage, n
<1>5. NothingYet'
  BY <1>a, <1>b, <1>c DEF SmtpInv, SmtpTypeOK, Places, WithinBuffer, NothingYet,
     Behind, qurl_smtp_encode_text_body, Stage, n
<1>7. Ended'
  BY <1>a, <1>b, <1>c DEF SmtpInv, SmtpTypeOK, Places, Ended,
     qurl_smtp_encode_text_body, Stage, n
<1> QED
  BY <1>1, <1>2, <1>3, <1>4, <1>5, <1>7 DEF SmtpInv, SmtpTypeOK

\* A piece of the attachment is written, or the attachment is given up.
LEMMA AttachmentKeepsInv ==
    ASSUME SmtpInv, qurl_smtp_encode_atta_body
    PROVE  SmtpInv'
<1> USE SmtpAssumption
<1> DEFINE n == Copied(file_size - file_used)
<1>a. file_size - file_used \in Nat /\ smtp_size \in Nat /\ len \in Nat /\ len <= smtp_size
  BY DEF SmtpInv, SmtpTypeOK, Places, WithinBuffer
<1>b. /\ Room \in Nat /\ n \in Nat /\ n <= file_size - file_used
      /\ Encoded(n) \in Nat /\ Encoded(n) <= Room
      /\ n > 0 => Encoded(n) >= 4
      /\ Room >= 4 /\ file_size - file_used > 0 => n > 0
  BY <1>a, CopiedFits
<1>c. Room = smtp_size - len
  BY DEF Room
<1> HIDE DEF n
<1>1. parts' \in Seq(Parts)
  <2>1. Append(parts, "file") \in Seq(Parts)
    BY PartAppended DEF SmtpInv, SmtpTypeOK, Parts
  <2> QED
    BY <2>1 DEF SmtpInv, SmtpTypeOK, qurl_smtp_encode_atta_body, Stage, Wait, client, n
<1>2. Flags'
  BY DEF SmtpInv, SmtpTypeOK, Flags, qurl_smtp_encode_atta_body, Stage, Wait, client, n
<1>3. Places' /\ Behind'
  <2>d. CASE /\ status = ATTA_BODY /\ at' = 5
             /\ file_used' = file_used + n /\ len' = len + Encoded(n)
             /\ status' = IF file_used' >= file_size THEN TAIL ELSE ATTA_BODY
             /\ UNCHANGED <<mpc, text_used, file_size, smtp_size, fits, fileLen, lost, mail>>
    <3>1. file_used' \in 0..file_size /\ len' \in Nat /\ status' \in {ATTA_BODY, TAIL}
      BY <1>a, <1>b, <2>d DEF SmtpInv, SmtpTypeOK, Places
    <3>2. Places'
      BY <2>d, <3>1 DEF SmtpInv, SmtpTypeOK, Places
    <3>3. Behind'
      BY <2>d, <3>1 DEF SmtpInv, SmtpTypeOK, Places, Behind
    <3> QED
      BY <3>2, <3>3
  <2>e. CASE /\ status = ATTA_BODY /\ at' = 5 /\ status' \in {TAIL, ATTA_BODY}
             /\ UNCHANGED <<len, text_used, file_used, mpc, file_size, smtp_size, fits,
                            fileLen, mail>>
             /\ status' = TAIL => lost' \/ (n = 0 /\ Room >= 4)
    <3>1. Places'
      BY <2>e DEF SmtpInv, SmtpTypeOK, Places
    <3>2. status' = TAIL => lost' \/ file_used = file_size
      BY <1>a, <1>b, <2>e DEF SmtpInv, SmtpTypeOK, Places
    <3>3. Behind'
      BY <2>e, <3>2 DEF SmtpInv, SmtpTypeOK, Places, Behind
    <3> QED
      BY <3>1, <3>3
  <2>1. CASE ~(Room >= 4)
    BY <1>b, <2>e, <2>1 DEF qurl_smtp_encode_atta_body, Stage, Wait, client
  <2>2. CASE Room >= 4 /\ n = 0
    BY <1>b, <2>e, <2>2 DEF qurl_smtp_encode_atta_body, Stage, n
  <2>3. CASE Room >= 4 /\ n # 0
    <3>1. /\ status = ATTA_BODY /\ at' = 5
          /\ UNCHANGED <<mpc, text_used, file_size, smtp_size, fits, fileLen, mail>>
      BY <1>b, <2>3 DEF qurl_smtp_encode_atta_body, Stage, n
    <3>2. PICK ok \in BOOLEAN :
             IF ok /\ Encoded(n) <= Room
             THEN /\ file_used' = file_used + n
                  /\ len' = len + Encoded(n)
                  /\ parts' = Append(parts, "file")
                  /\ status' = IF file_used' >= file_size THEN TAIL ELSE ATTA_BODY
                  /\ UNCHANGED <<atta_fd, lost>>
             ELSE /\ status' = TAIL
                  /\ atta_fd' \in IF ok THEN {"closed"} ELSE {"closed", "twice"}
                  /\ lost' = (lost \/ ~ok)
                  /\ UNCHANGED <<len, file_used, parts>>
      BY <1>b, <2>3 DEF qurl_smtp_encode_atta_body, n
    <3>3. CASE ok
      BY <1>b, <2>d, <3>1, <3>2, <3>3
    <3>4. CASE ~ok
      <4>1. lost' /\ status' = TAIL /\ UNCHANGED <<len, file_used>>
        BY <3>2, <3>4
      <4> QED
        BY <2>e, <3>1, <4>1
    <3> QED
      BY <3>3, <3>4
  <2> QED
    BY <2>1, <2>2, <2>3
<1>4. WithinBuffer'
  BY <1>a, <1>b, <1>c DEF SmtpInv, SmtpTypeOK, Places, WithinBuffer, NothingYet,
     qurl_smtp_encode_atta_body, Stage, Wait, client, n
<1>5. NothingYet'
  BY <1>a, <1>b, <1>c DEF SmtpInv, SmtpTypeOK, Places, WithinBuffer, NothingYet,
     Behind, qurl_smtp_encode_atta_body, Stage, Wait, client, n
<1>7. Ended'
  BY <1>a, <1>b, <1>c DEF SmtpInv, SmtpTypeOK, Places, Ended,
     qurl_smtp_encode_atta_body, Stage, Wait, client, n
<1> QED
  BY <1>1, <1>2, <1>3, <1>4, <1>5, <1>7 DEF SmtpInv, SmtpTypeOK

-----------------------------------------------------------------------------
(* The order of the parts.                                                 *)

\* A step leaves the parts alone and the status where it is or further on, or it
\* writes the part the status stands for.
WritesPart(p) ==
    /\ p \in Parts /\ Place(p) = status /\ parts' = Append(parts, p)
    /\ status' > status \/ (status' = status /\ p \in {"text", "file"})

\* A step writes no part of the mail, or the one whose turn it is.
LEMMA PartsInTurn ==
    ASSUME SmtpInv, [SmtpNext]_smtpVars
    PROVE  \/ parts' = parts /\ status' >= status
           \/ \E p \in Parts : WritesPart(p)
<1>1. status \in 0 .. 6 /\ status >= status
  BY DEF SmtpInv, SmtpTypeOK, Places
<1>2. CASE UNCHANGED <<parts, status>>
  BY <1>1, <1>2
<1>3. CASE SetUp \/ PerformFails \/ Called \/ Return \/ SmtpDone \/ UNCHANGED smtpVars
  BY <1>2, <1>3 DEF SetUp, PerformFails, Called, Return, SmtpDone, smtpVars, client
<1>4. CASE qurl_smtp_encode_mail_header
  <2>1. CASE fits
    <3>1. WritesPart("head")
      BY <1>4, <2>1 DEF qurl_smtp_encode_mail_header, Stage, Write, WritesPart, Parts, Place
    <3> QED
      BY <3>1 DEF Parts
  <2> QED
    BY <1>2, <1>4, <2>1 DEF qurl_smtp_encode_mail_header, Wait, client
<1>5. CASE qurl_smtp_encode_text_head
  <2>1. CASE ~(Room < TextHeadRoom)
    <3>1. WritesPart("texthead")
      BY <1>5, <2>1 DEF qurl_smtp_encode_text_head, Stage, Write, WritesPart, Parts, Place
    <3> QED
      BY <3>1 DEF Parts
  <2> QED
    BY <1>2, <1>5, <2>1 DEF qurl_smtp_encode_text_head, Wait, client
<1>6. CASE qurl_smtp_encode_text_body
  <2>1. CASE parts' = Append(parts, "text") /\ status' \in {TEXT_BODY, ATTA_HEAD}
    <3>1. WritesPart("text")
      BY <1>6, <2>1 DEF qurl_smtp_encode_text_body, Stage, WritesPart, Parts, Place
    <3> QED
      BY <3>1 DEF Parts
  <2>2. CASE parts' = parts /\ status' \in {TEXT_BODY, ATTA_HEAD}
    BY <1>6, <2>2 DEF qurl_smtp_encode_text_body, Stage
  <2> QED
    BY <1>6, <2>1, <2>2 DEF qurl_smtp_encode_text_body, Stage
<1>7. CASE qurl_smtp_encode_atta_head
  <2>1. CASE parts' = Append(parts, "attahead") /\ status' = ATTA_BODY
    <3>1. WritesPart("attahead")
      BY <1>7, <2>1 DEF qurl_smtp_encode_atta_head, Stage, WritesPart, Parts, Place
    <3> QED
      BY <3>1 DEF Parts
  <2>2. CASE parts' = parts /\ status' \in {ATTA_HEAD, TAIL}
    BY <1>7, <2>2 DEF qurl_smtp_encode_atta_head, Stage
  <2> QED
    BY <1>7, <2>1, <2>2 DEF qurl_smtp_encode_atta_head, Stage, Write, Wait, client
<1>8. CASE qurl_smtp_encode_atta_body
  <2>1. CASE parts' = Append(parts, "file") /\ status' \in {ATTA_BODY, TAIL}
    <3>1. WritesPart("file")
      BY <1>8, <2>1 DEF qurl_smtp_encode_atta_body, Stage, WritesPart, Parts, Place
    <3> QED
      BY <3>1 DEF Parts
  <2>2. CASE parts' = parts /\ status' \in {ATTA_BODY, TAIL}
    BY <1>8, <2>2 DEF qurl_smtp_encode_atta_body, Stage
  <2> QED
    BY <1>8, <2>1, <2>2 DEF qurl_smtp_encode_atta_body, Stage, Wait, client
<1>9. CASE EndOfMail
  <2>1. CASE Room > TailRoom
    <3>1. WritesPart("tail")
      BY <1>9, <2>1 DEF EndOfMail, Stage, Write, WritesPart, Parts, Place
    <3> QED
      BY <3>1 DEF Parts
  <2> QED
    BY <1>2, <1>9, <2>1 DEF EndOfMail, Wait, client
<1> QED
  BY <1>3, <1>4, <1>5, <1>6, <1>7, <1>8, <1>9 DEF SmtpNext, qurl_smtp_upload_data_cb

\* What is appended in its turn is in order with the part before it.
LEMMA OrderStep ==
    ASSUME SmtpInv, SmtpInv', MailInOrder, LastInPlace, [SmtpNext]_smtpVars
    PROVE  (MailInOrder /\ LastInPlace)'
<1>1. /\ status \in 0 .. 6 /\ parts \in Seq(Parts) /\ Len(parts) \in Nat
      /\ \A i \in 1 .. Len(parts) : parts[i] \in Parts
      /\ \A p \in Parts : Place(p) \in 0 .. 5
      /\ \A p, q \in Parts : Place(p) = Place(q) => p = q
  <2>1. status \in 0 .. 6 /\ parts \in Seq(Parts)
    BY DEF SmtpInv, SmtpTypeOK, Places
  <2>2. Len(parts) \in Nat /\ \A i \in 1 .. Len(parts) : parts[i] \in Parts
    BY <2>1, LenProperties, ElementOfSeq
  <2>3. \A p \in Parts : Place(p) \in 0 .. 5
    BY DEF Parts, Place
  <2>4. \A p, q \in Parts : Place(p) = Place(q) => p = q
    BY DEF Parts, Place
  <2> QED
    BY <2>1, <2>2, <2>3, <2>4
<1>2. CASE parts' = parts /\ status' >= status
  <2>1. status' \in 0 .. 6
    BY DEF SmtpInv, SmtpTypeOK, Places
  <2> QED
    BY <1>1, <1>2, <2>1 DEF MailInOrder, LastInPlace
<1>3. ASSUME NEW p \in Parts, WritesPart(p)
      PROVE  (MailInOrder /\ LastInPlace)'
  <2>1. /\ Len(parts') = Len(parts) + 1 /\ parts'[Len(parts) + 1] = p
        /\ \A i \in 1 .. Len(parts) : parts'[i] = parts[i]
    BY <1>1, <1>3, AppendProperties DEF WritesPart
  <2>2. p \in {"text", "file"} => Place(p) \in {TEXT_BODY, ATTA_BODY}
    BY DEF Place
  <2>3. LastInPlace'
    BY <1>1, <1>3, <2>1, <2>2 DEF LastInPlace, WritesPart
  <2>4. Place(p) \in {TEXT_BODY, ATTA_BODY} => p \in {"text", "file"}
    BY DEF Parts, Place
  <2>5. parts # <<>> => \/ Place(parts[Len(parts)]) < Place(p)
                        \/ parts[Len(parts)] = p /\ p \in {"text", "file"}
    BY <1>1, <1>3, <2>4 DEF LastInPlace, WritesPart
  <2>6. ASSUME NEW i \in 1 .. (Len(parts') - 1)
        PROVE  \/ Place(parts'[i]) < Place(parts'[i + 1])
               \/ parts'[i] = parts'[i + 1] /\ parts'[i] \in {"text", "file"}
    <3>1. CASE i = Len(parts)
      BY <1>1, <2>1, <2>5, <3>1
    <3>2. CASE i \in 1 .. (Len(parts) - 1)
      BY <1>1, <2>1, <3>2 DEF MailInOrder
    <3> QED
      BY <1>1, <2>1, <3>1, <3>2
  <2> QED
    BY <2>3, <2>6 DEF MailInOrder
<1> QED
  BY <1>2, <1>3, PartsInTurn

-----------------------------------------------------------------------------
(* The theorems.                                                           *)

\* Every step of the callback and of its caller keeps SmtpInv.
THEOREM SmtpInvariant == SmtpSpec => []SmtpInv
<1>1. SmtpInit => SmtpInv
  <2> SUFFICES ASSUME SmtpInit PROVE SmtpInv
    OBVIOUS
  <2>1. <<>> \in Seq(Parts)
    BY EmptySeq
  <2>2. parts \in Seq(Parts)
    BY <2>1 DEF SmtpInit
  <2>3. Places /\ Flags
    <3>1. Places
      BY SmtpAssumption DEF SmtpInit, Places
    <3>2. Flags
      BY DEF SmtpInit, Flags
    <3> QED
      BY <3>1, <3>2
  <2>4. WithinBuffer /\ NothingYet /\ Behind /\ Ended
    BY DEF SmtpInit, WithinBuffer, NothingYet, Behind, Ended
  <2> QED
    BY <2>2, <2>3, <2>4 DEF SmtpInv, SmtpTypeOK
<1>2. SmtpInv /\ [SmtpNext]_smtpVars => SmtpInv'
  BY MainKeepsInv, HeaderKeepsInv, TextHeadKeepsInv, TextKeepsInv, AttaHeadKeepsInv,
     AttachmentKeepsInv, EndOfMailKeepsInv
     DEF SmtpNext, qurl_smtp_upload_data_cb, SmtpDone
<1> QED
  BY <1>1, <1>2, PTL DEF SmtpSpec

\* The callback never writes past the end of its buffer, for all sizes of the
\* buffer and all lengths of text and attachment.
THEOREM StaysWithinBuffer == SmtpSpec => []WithinBuffer
<1>1. SmtpInv => WithinBuffer
  BY DEF SmtpInv
<1> QED
  BY <1>1, SmtpInvariant, PTL

\* When the callback returns 0 the mail is complete, whatever the buffer sizes of
\* the calls were.
THEOREM MailIsComplete == SmtpSpec => []MailComplete
<1>1. SmtpInv => MailComplete
  BY DEF SmtpInv, Behind, Ended, SmtpTypeOK, Places, MailComplete
<1> QED
  BY <1>1, SmtpInvariant, PTL

\* The parts of the mail leave the callback in their order, each once but for the
\* pieces of text and attachment, wherever the calls' buffers end.
THEOREM MailIsInOrder == SmtpSpec => []MailInOrder
<1>1. SmtpInit => MailInOrder /\ LastInPlace
  BY DEF SmtpInit, MailInOrder, LastInPlace
<1>2. SmtpInv /\ SmtpInv' /\ MailInOrder /\ LastInPlace /\ [SmtpNext]_smtpVars
      => (MailInOrder /\ LastInPlace)'
  BY OrderStep
<1> QED
  BY <1>1, <1>2, SmtpInvariant, PTL DEF SmtpSpec
=============================================================================
