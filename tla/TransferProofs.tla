--------------------------- MODULE TransferProofs ---------------------------
(***************************************************************************)
(* The transfers over the qurl library: for all lengths of files, images,  *)
(* fields and blocks, what a program writes or sends is a gapless          *)
(* beginning of what it should be, and all of it where it says so.  The    *)
(* composition of the programs has what is proved of each.                 *)
(***************************************************************************)
EXTENDS MCTransfer, FtpProofs, SmtpProofs, SequenceTheorems, TLAPS

-----------------------------------------------------------------------------
(* Sequences of positions.                                                 *)

\* A function on 1 .. n is a sequence.
LEMMA FunctionIsSeq ==
    ASSUME NEW S, NEW n \in Nat, NEW f \in [1 .. n -> S]
    PROVE  f \in Seq(S) /\ Len(f) = n
<1>1. f \in Seq(S)
  BY SeqDef
<1>2. Len(f) \in Nat /\ 1 .. Len(f) = 1 .. n
  BY <1>1, LenProperties
<1>3. Len(f) = n
  BY <1>2
<1> QED
  BY <1>1, <1>3

\* A sequence of positions that is continued where it ends stays one.
LEMMA ContinuedInOrder ==
    ASSUME NEW S, NEW s \in Seq(S), NEW t \in Seq(S),
           s = [i \in 1 .. Len(s) |-> i - 1],
           \A i \in 1 .. Len(t) : t[i] = Len(s) + i - 1
    PROVE  /\ s \o t \in Seq(S) /\ Len(s \o t) = Len(s) + Len(t)
           /\ s \o t = [i \in 1 .. Len(s \o t) |-> i - 1]
<1> DEFINE c == s \o t
<1>1. Len(s) \in Nat /\ Len(t) \in Nat
  OBVIOUS
<1>2. /\ c \in Seq(S) /\ Len(c) = Len(s) + Len(t)
      /\ \A i \in 1 .. Len(s) + Len(t) : c[i] = IF i <= Len(s) THEN s[i] ELSE t[i - Len(s)]
  BY ConcatProperties
<1>3. c = [i \in 1 .. Len(c) |-> c[i]]
  BY <1>2, LenProperties
<1> HIDE DEF c
<1>4. ASSUME NEW i \in 1 .. Len(c) PROVE c[i] = i - 1
  <2>1. CASE i <= Len(s)
    <3>1. i \in 1 .. Len(s)
      BY <1>1, <1>2, <2>1
    <3> QED
      BY <1>2, <2>1, <3>1
  <2>2. CASE ~(i <= Len(s))
    <3>1. i - Len(s) \in 1 .. Len(t) /\ c[i] = t[i - Len(s)]
      BY <1>1, <1>2, <2>2
    <3>2. t[i - Len(s)] = Len(s) + (i - Len(s)) - 1
      BY <3>1
    <3> QED
      BY <1>1, <3>1, <3>2
  <2> QED
    BY <2>1, <2>2
<1>5. c = [i \in 1 .. Len(c) |-> i - 1]
  BY <1>3, <1>4
<1> QED
  BY <1>2, <1>5 DEF c

-----------------------------------------------------------------------------
(* The firmware update over HTTP.                                          *)

\* The HTTP update starts within its invariant.
LEMMA HttpFotaStart == HttpFotaInit => HttpFotaInv
<1> SUFFICES ASSUME HttpFotaInit PROVE HttpFotaInv
  OBVIOUS
<1>1. image = <<>> /\ <<>> \in Seq(-1 .. ImgLen - 1) /\ Len(<<>>) = 0
  BY DEF HttpFotaInit
<1>2. image = [i \in 1 .. Len(image) |-> i - 1]
  BY <1>1
<1>3. HttpFotaTypeOK
  <2>1. /\ fota_ptr \in BOOLEAN /\ fota_first \in BOOLEAN /\ fota_chunk \in BOOLEAN
        /\ strange \in BOOLEAN /\ unsure \in BOOLEAN /\ verbose \in BOOLEAN
    BY DEF HttpFotaInit
  <2>2. /\ dload_want_size \in 0 .. ImgLen /\ resume_dload_count \in 0 .. MaxResume + 1
        /\ next \in Nat
    BY HttpFotaAssumption DEF HttpFotaInit
  <2> QED
    BY <1>1, <2>1, <2>2 DEF HttpFotaInit, HttpFotaTypeOK
<1>4. Continues /\ FirstReply /\ ImageSound
  BY <1>1, <1>2, HttpFotaAssumption
     DEF HttpFotaInit, Continues, FirstReply, ImageSound, ImageInOrder, ImageWhole
<1> QED
  BY <1>3, <1>4 DEF HttpFotaInv

\* The request: what it is answered with is either what was asked for or strange.
LEMMA FotaRequestKeepsInv ==
    ASSUME HttpFotaInv, unirtos_fota_http_start
    PROVE  HttpFotaInv'
<1>1. /\ fota_pc = "loop" /\ fota_pc' \in {"deinit", "body"}
      /\ UNCHANGED <<fota_ptr, fota_first, fota_chunk, dload_want_size, resume_dload_count,
                     verbose, image, unsure>>
      /\ image \in Seq(-1 .. ImgLen - 1) /\ Len(image) \in Nat
  <2>1. image \in Seq(-1 .. ImgLen - 1) /\ Len(image) \in Nat
    BY LenProperties DEF HttpFotaInv, HttpFotaTypeOK
  <2> QED
    BY <2>1 DEF unirtos_fota_http_start, fotaState
<1>2. /\ strange' \in BOOLEAN /\ (~strange' => ~strange) /\ next' \in Nat
      /\ reply' \in {"none", "length", "chunked", "error"}
      /\ fota_pc' = "body" /\ ~strange' =>
            next' = Len(image) /\ (fota_first => reply' # "error")
  <2>1. CASE fota_pc' = "deinit" /\ UNCHANGED <<reply, next, strange>>
    BY <2>1 DEF HttpFotaInv, HttpFotaTypeOK
  <2>2. CASE /\ reply' \in {"length", "chunked", "error"}
             /\ next' \in {StartPos(Len(image)), 0}
             /\ strange' = \/ strange
                           \/ fota_first /\ (reply' = "error" \/ next' # StartPos(Len(image)))
    <3>1. next' \in {Len(image), 0} /\ next' \in Nat
      BY <1>1, <2>2 DEF StartPos
    <3>2. strange' \in BOOLEAN /\ (~strange' => ~strange)
      BY <2>2 DEF HttpFotaInv, HttpFotaTypeOK
    <3>3. CASE fota_first
      BY <2>2, <3>1, <3>2, <3>3 DEF StartPos
    <3>4. CASE ~fota_first
      <4>1. Len(image) = 0
        BY <3>4 DEF HttpFotaInv, FirstReply
      <4> QED
        BY <2>2, <3>1, <3>2, <3>4, <4>1
    <3> QED
      BY <3>3, <3>4
  <2> QED
    BY <2>1, <2>2 DEF unirtos_fota_http_start
<1>3. HttpFotaTypeOK'
  BY <1>1, <1>2 DEF HttpFotaInv, HttpFotaTypeOK
<1>4. Continues'
  BY <1>1, <1>2 DEF HttpFotaInv, Continues
<1>5. FirstReply'
  <2>1. ~fota_first => ~strange'
    BY DEF unirtos_fota_http_start, HttpFotaInv, FirstReply
  <2> QED
    BY <1>1, <2>1 DEF HttpFotaInv, FirstReply
<1>6. ImageSound'
  BY <1>1, <1>2 DEF HttpFotaInv, ImageSound, ImageInOrder, ImageWhole
<1> QED
  BY <1>3, <1>4, <1>5, <1>6 DEF HttpFotaInv

\* The bytes of a block.
LEMMA BlockBytes ==
    ASSUME HttpFotaTypeOK, NEW n \in Nat, next + n <= ImgLen
    PROVE  /\ BodyBlock(n) \in Seq(-1 .. ImgLen - 1) /\ Len(BodyBlock(n)) = n
           /\ reply # "error" => \A i \in 1 .. n : BodyBlock(n)[i] = next + i - 1
<1>1. next \in Nat /\ ImgLen \in Nat
  BY HttpFotaAssumption DEF HttpFotaTypeOK
<1>2. \A i \in 1 .. n : (IF reply = "error" THEN -1 ELSE next + i - 1) \in -1 .. ImgLen - 1
  BY <1>1
<1>3. BodyBlock(n) \in [1 .. n -> -1 .. ImgLen - 1]
  BY <1>2 DEF BodyBlock
<1>4. BodyBlock(n) \in Seq(-1 .. ImgLen - 1) /\ Len(BodyBlock(n)) = n
  BY <1>3, FunctionIsSeq
<1> QED
  BY <1>4 DEF BodyBlock

\* A block of the body: refused, lost or written behind the image.
LEMMA FotaBodyKeepsInv ==
    ASSUME HttpFotaInv, NEW n \in 1 .. FotaBlock, NEW room \in FreeSizes,
           http_read_body_cb(n, room)
    PROVE  HttpFotaInv'
<1>1. /\ fota_pc = "body" /\ fota_pc' \in {"deinit", "body"} /\ next + n <= ImgLen
      /\ UNCHANGED <<fota_ptr, resume_dload_count, verbose, reply, strange, unsure>>
      /\ ImgLen \in Nat /\ next \in Nat /\ n \in Nat /\ MaxResume \in Nat
  BY HttpFotaAssumption DEF http_read_body_cb, fotaState, HttpFotaInv, HttpFotaTypeOK
<1>2. CASE fota_pc' = "deinit" /\ UNCHANGED <<fotaState, next, image>>
  <2>1. HttpFotaTypeOK'
    BY <1>1, <1>2 DEF HttpFotaInv, HttpFotaTypeOK, fotaState
  <2>2. Continues' /\ FirstReply' /\ ImageSound'
    BY <1>1, <1>2 DEF HttpFotaInv, Continues, FirstReply, ImageSound, ImageInOrder, ImageWhole,
       fotaState
  <2> QED
    BY <2>1, <2>2 DEF HttpFotaInv
<1>3. CASE /\ ~(~fota_first /\ (reply = "error" \/ (reply = "length" /\ ImgLen - next > room)))
           /\ IF fota_first THEN UNCHANGED <<fota_chunk, dload_want_size>>
              ELSE /\ fota_chunk' = (reply = "chunked")
                   /\ dload_want_size' = IF reply = "length" THEN ImgLen - next ELSE 0
           /\ fota_first' = TRUE
           /\ \/ /\ image' = image \o BodyBlock(n)
                 /\ next' = next + n /\ UNCHANGED fota_pc
              \/ fota_pc' = "deinit" /\ UNCHANGED <<next, image>>
  <2>1. /\ fota_first' = TRUE /\ fota_chunk' \in BOOLEAN
        /\ ~strange => next = Len(image) /\ reply # "error" /\ Len(image) <= ImgLen
    BY <1>1, <1>3 DEF HttpFotaInv, HttpFotaTypeOK, Continues
  <2>2. dload_want_size' \in {0, ImgLen}
    <3>1. CASE fota_first
      BY <1>3, <3>1 DEF HttpFotaInv, FirstReply
    <3>2. CASE ~fota_first
      <4>1. Len(image) = 0
        BY <3>2 DEF HttpFotaInv, FirstReply
      <4>2. next = 0
        BY <2>1, <3>2, <4>1 DEF HttpFotaInv, FirstReply
      <4> QED
        BY <1>1, <1>3, <3>2, <4>2
    <3> QED
      BY <3>1, <3>2
  <2>3. /\ image' \in Seq(-1 .. ImgLen - 1) /\ next' \in Nat
        /\ ~strange => /\ Len(image') <= ImgLen
                       /\ image' = [i \in 1 .. Len(image') |-> i - 1]
                       /\ fota_pc' = "body" => next' = Len(image')
    <3>1. CASE UNCHANGED <<next, image>> /\ fota_pc' = "deinit"
      BY <1>1, <2>1, <3>1 DEF HttpFotaInv, HttpFotaTypeOK, ImageSound, ImageInOrder
    <3>2. CASE image' = image \o BodyBlock(n) /\ next' = next + n
      <4>1. /\ BodyBlock(n) \in Seq(-1 .. ImgLen - 1) /\ Len(BodyBlock(n)) = n
            /\ reply # "error" => \A i \in 1 .. n : BodyBlock(n)[i] = next + i - 1
        BY <1>1, BlockBytes DEF HttpFotaInv
      <4>2. image \in Seq(-1 .. ImgLen - 1) /\ (strange \/ image = [i \in 1 .. Len(image) |-> i - 1])
        BY DEF HttpFotaInv, HttpFotaTypeOK, ImageSound, ImageInOrder
      <4>3. image' \in Seq(-1 .. ImgLen - 1) /\ Len(image') = Len(image) + n
        BY <3>2, <4>1, <4>2, ConcatProperties
      <4>4. ASSUME ~strange PROVE image' = [i \in 1 .. Len(image') |-> i - 1]
        <5>1. \A i \in 1 .. Len(BodyBlock(n)) : BodyBlock(n)[i] = Len(image) + i - 1
          BY <2>1, <4>1, <4>4
        <5>2. image = [i \in 1 .. Len(image) |-> i - 1]
          BY <4>2, <4>4
        <5>3. image \o BodyBlock(n) = [i \in 1 .. Len(image \o BodyBlock(n)) |-> i - 1]
          BY <4>1, <4>2, <5>1, <5>2, ContinuedInOrder
        <5> QED
          BY <3>2, <5>3
      <4>5. ASSUME ~strange PROVE next' = Len(image') /\ Len(image') <= ImgLen
        <5>1. next = Len(image)
          BY <2>1, <4>5
        <5> QED
          BY <1>1, <3>2, <4>3, <5>1
      <4>6. next' \in Nat
        BY <1>1, <3>2
      <4> QED
        BY <4>3, <4>4, <4>5, <4>6
    <3> QED
      BY <1>3, <3>1, <3>2
  <2>4. HttpFotaTypeOK'
    BY <1>1, <2>1, <2>2, <2>3 DEF HttpFotaInv, HttpFotaTypeOK
  <2>5. Continues'
    BY <1>1, <2>1, <2>3 DEF Continues
  <2>6. FirstReply'
    BY <1>1, <2>1, <2>2 DEF HttpFotaInv, FirstReply
  <2>7. ImageSound'
    BY <1>1, <2>3 DEF ImageSound, ImageInOrder, ImageWhole
  <2> QED
    BY <2>4, <2>5, <2>6, <2>7 DEF HttpFotaInv
<1> QED
  BY <1>2, <1>3 DEF http_read_body_cb

\* The end of the loop: the image is whole or another request follows, if one may.
LEMMA FotaCheckKeepsInv ==
    ASSUME HttpFotaInv, CheckSize
    PROVE  HttpFotaInv'
<1>1. /\ fota_pc = "check" /\ fota_pc' \in {"loop", "verify"}
      /\ UNCHANGED <<fota_ptr, fota_first, fota_chunk, dload_want_size, verbose, reply, next,
                     image, strange>>
      /\ ImgLen \in Nat /\ MaxResume \in Nat /\ Len(image) \in Nat
      /\ resume_dload_count \in 0 .. MaxResume
  BY HttpFotaAssumption DEF CheckSize, HttpFotaInv, HttpFotaTypeOK, FirstReply
<1>2. /\ resume_dload_count' \in 0 .. MaxResume + 1
      /\ fota_pc' = "loop" => resume_dload_count' <= MaxResume
  BY <1>1 DEF CheckSize
<1>3. unsure' \in BOOLEAN
  BY DEF CheckSize, HttpFotaInv, HttpFotaTypeOK
<1>4. HttpFotaTypeOK'
  BY <1>1, <1>2, <1>3 DEF HttpFotaInv, HttpFotaTypeOK
<1>5. Continues'
  BY <1>1 DEF HttpFotaInv, Continues
<1>6. FirstReply'
  BY <1>1, <1>2 DEF HttpFotaInv, FirstReply
<1>7. ImageInOrder'
  BY <1>1 DEF HttpFotaInv, ImageSound, ImageInOrder
<1>8. ImageWhole'
  <2> SUFFICES ASSUME fota_pc' = "verify", ~strange, ~unsure', resume_dload_count' <= MaxResume,
                      dload_want_size # 0
               PROVE  Len(image) = ImgLen
    BY <1>1, <1>2 DEF ImageWhole
  <2>1. ~(dload_want_size > Len(image))
    BY <1>1, <1>2 DEF CheckSize
  <2>2. dload_want_size = ImgLen /\ Len(image) <= ImgLen
    BY DEF HttpFotaInv, FirstReply, Continues
  <2> QED
    BY <1>1, <2>1, <2>2
<1> QED
  BY <1>4, <1>5, <1>6, <1>7, <1>8 DEF HttpFotaInv, ImageSound

\* The other steps leave the download alone.  The verification is reached without a
\* check only before any reply.
LEMMA FotaQuietKeepsInv ==
    ASSUME HttpFotaInv,
           unir_fota_net_active \/ FotaInit \/ FotaPerform \/ VerifyImage \/ FotaDeinit
    PROVE  HttpFotaInv'
<1>1. /\ UNCHANGED <<fota_first, fota_chunk, dload_want_size, resume_dload_count, verbose,
                     reply, next, image, strange, unsure>>
      /\ fota_pc' \in {"init", "deinit", "loop", "verify", "check", "reset", "end"}
  BY DEF unir_fota_net_active, FotaInit, FotaPerform, VerifyImage, FotaDeinit, fotaState
<1>2. fota_ptr' \in BOOLEAN
  BY DEF unir_fota_net_active, FotaInit, FotaPerform, VerifyImage, FotaDeinit, fotaState,
     HttpFotaInv, HttpFotaTypeOK
<1>3. /\ fota_pc' \in {"init", "loop", "check"} => fota_pc \in {"net", "init", "body"}
      /\ fota_pc' = "reset" => fota_pc = "verify"
      /\ fota_pc' = "verify" => fota_pc = "init"
      /\ fota_pc' = "init" => fota_pc = "net"
      /\ fota_pc' # "net"
  BY DEF unir_fota_net_active, FotaInit, FotaPerform, VerifyImage, FotaDeinit
<1>4. HttpFotaTypeOK'
  BY <1>1, <1>2 DEF HttpFotaInv, HttpFotaTypeOK
<1>5. Continues' /\ FirstReply' /\ ImageInOrder'
  <2>1. Continues'
    BY <1>1, <1>3 DEF HttpFotaInv, Continues
  <2>2. FirstReply'
    BY <1>1, <1>3 DEF HttpFotaInv, FirstReply
  <2>3. ImageInOrder'
    BY <1>1 DEF HttpFotaInv, ImageSound, ImageInOrder
  <2> QED
    BY <2>1, <2>2, <2>3
<1>6. ImageWhole'
  BY <1>1, <1>3 DEF HttpFotaInv, FirstReply, ImageSound, ImageWhole
<1> QED
  BY <1>4, <1>5, <1>6 DEF HttpFotaInv, ImageSound

\* Every step keeps HttpFotaInv.
THEOREM HttpFotaInvariant == HttpFotaSpec => []HttpFotaInv
<1>1. HttpFotaInv /\ [HttpFotaNext]_fotaVars => HttpFotaInv'
  <2> SUFFICES ASSUME HttpFotaInv, [HttpFotaNext]_fotaVars PROVE HttpFotaInv'
    OBVIOUS
  <2>1. CASE unir_http_fota_demo_process
    BY <2>1, FotaRequestKeepsInv, FotaBodyKeepsInv, FotaCheckKeepsInv, FotaQuietKeepsInv
       DEF unir_http_fota_demo_process
  <2>2. CASE UNCHANGED fotaVars
    BY <2>2 DEF fotaVars, fotaState, HttpFotaInv, HttpFotaTypeOK, Continues, FirstReply,
       ImageSound, ImageInOrder, ImageWhole
  <2> QED
    BY <2>1, <2>2 DEF HttpFotaNext, FotaOver
<1> QED
  BY <1>1, HttpFotaStart, PTL DEF HttpFotaSpec

\* For every length of image and block and every limit on the requests: however the
\* download is interrupted, the image is a gapless beginning of the server's as long as
\* later replies are what was asked for, and the one verified is whole.
THEOREM HttpImageSound == HttpFotaSpec => []ImageSound
<1>1. HttpFotaInv => ImageSound
  BY DEF HttpFotaInv
<1> QED
  BY <1>1, HttpFotaInvariant, PTL

-----------------------------------------------------------------------------
(* The firmware update over FTP.                                           *)

\* The FTP update starts within its invariant.
LEMMA FtpFotaStart == FtpFotaInit => FtpFotaInv
<1> SUFFICES ASSUME FtpFotaInit PROVE FtpFotaInv
  OBVIOUS
<1>1. upd_image = <<>> /\ <<>> \in Seq(0 .. UpdLen + Growth - 1) /\ Len(<<>>) = 0
  BY DEF FtpFotaInit
<1>2. FtpFotaTypeOK
  <2>1. upd_fota_ptr \in BOOLEAN /\ skipped \in BOOLEAN
    BY DEF FtpFotaInit
  <2> QED
    BY <1>1, <2>1, FtpFotaAssumption DEF FtpFotaInit, FtpFotaTypeOK
<1>3. UpdInOrder /\ FtpImageWhole
  BY <1>1 DEF FtpFotaInit, UpdInOrder, FtpImageWhole
<1> QED
  BY <1>2, <1>3 DEF FtpFotaInv

\* A block is written whole behind the image, or ends the download: of a block that
\* reaches beyond the length asked for, nothing is left out.
LEMMA UpdBlockKeepsInv ==
    ASSUME FtpFotaInv, NEW n \in 1 .. UpdBlock, unir_fota_ftp_transmitter_cb(n)
    PROVE  FtpFotaInv'
<1>1. /\ upd_pc = "body" /\ upd_pc' \in {"body", "deinit"} /\ n \in Nat
      /\ UNCHANGED <<upd_fota_ptr, current_dl_len, sent, skipped>>
      /\ upd_came + n <= sent /\ upd_came' = upd_came + n
      /\ sent \in 0 .. UpdLen + Growth /\ upd_came \in Nat
      /\ upd_image \in Seq(0 .. UpdLen + Growth - 1) /\ Len(upd_image) \in Nat
      /\ upd_image = [i \in 1 .. Len(upd_image) |-> i - 1]
      /\ Len(upd_image) = upd_came /\ current_dl_offset = upd_came
      /\ UpdLen \in Nat /\ Growth \in Nat
  BY FtpFotaAssumption, LenProperties
     DEF unir_fota_ftp_transmitter_cb, FtpFotaInv, FtpFotaTypeOK, UpdInOrder
<1>2. /\ upd_image' \in Seq(0 .. UpdLen + Growth - 1)
      /\ upd_image' = [i \in 1 .. Len(upd_image') |-> i - 1]
      /\ current_dl_offset' \in 0 .. UpdLen + Growth
      /\ upd_pc' = "body" => Len(upd_image') = upd_came' /\ current_dl_offset' = upd_came'
  <2>1. CASE upd_pc' = "deinit" /\ UNCHANGED <<current_dl_offset, upd_image>>
    BY <1>1, <2>1
  <2>2. CASE /\ upd_image' = upd_image \o [i \in 1 .. n |-> upd_came + i - 1]
             /\ current_dl_offset' = current_dl_offset + n
    <3> DEFINE t == [i \in 1 .. n |-> upd_came + i - 1]
    <3>1. \A i \in 1 .. n : upd_came + i - 1 \in 0 .. UpdLen + Growth - 1
      BY <1>1
    <3>2. t \in [1 .. n -> 0 .. UpdLen + Growth - 1] /\ \A i \in 1 .. n : t[i] = upd_came + i - 1
      BY <3>1
    <3> HIDE DEF t
    <3>3. t \in Seq(0 .. UpdLen + Growth - 1) /\ Len(t) = n
      BY <1>1, <3>2, FunctionIsSeq
    <3>4. /\ upd_image \o t \in Seq(0 .. UpdLen + Growth - 1)
          /\ Len(upd_image \o t) = Len(upd_image) + Len(t)
          /\ upd_image \o t = [i \in 1 .. Len(upd_image \o t) |-> i - 1]
      <4>1. \A i \in 1 .. Len(t) : t[i] = Len(upd_image) + i - 1
        BY <1>1, <3>2, <3>3
      <4> DEFINE S == 0 .. UpdLen + Growth - 1
      <4>2. upd_image \in Seq(S) /\ t \in Seq(S) /\ upd_image = [i \in 1 .. Len(upd_image) |-> i - 1]
        BY <1>1, <3>3
      <4> HIDE DEF S
      <4>3. /\ upd_image \o t \in Seq(S)
            /\ Len(upd_image \o t) = Len(upd_image) + Len(t)
            /\ upd_image \o t = [i \in 1 .. Len(upd_image \o t) |-> i - 1]
        BY <4>1, <4>2, ContinuedInOrder
      <4> QED
        BY <4>3 DEF S
    <3>5. upd_image' = upd_image \o t
      BY <2>2 DEF t
    <3>6. /\ current_dl_offset' \in 0 .. UpdLen + Growth
          /\ current_dl_offset' = upd_came' /\ Len(upd_image) + n = upd_came'
      BY <1>1, <2>2
    <3> QED
      BY <3>3, <3>4, <3>5, <3>6
  <2> QED
    BY <2>1, <2>2 DEF unir_fota_ftp_transmitter_cb, WriteSize
<1>3. FtpFotaTypeOK'
  <2>1. /\ upd_pc' \in {"body", "deinit"}
        /\ UNCHANGED <<upd_fota_ptr, current_dl_len, sent, skipped>>
        /\ upd_came' \in 0 .. UpdLen + Growth
    BY <1>1
  <2>2. /\ current_dl_offset' \in 0 .. UpdLen + Growth
        /\ upd_image' \in Seq(0 .. UpdLen + Growth - 1)
    BY <1>2
  <2>3. FtpFotaTypeOK
    BY DEF FtpFotaInv
  <2> QED
    BY <2>1, <2>2, <2>3 DEF FtpFotaTypeOK
<1>4. UpdInOrder' /\ FtpImageWhole'
  BY <1>1, <1>2 DEF UpdInOrder, FtpImageWhole
<1> QED
  BY <1>3, <1>4 DEF FtpFotaInv

\* The other steps write nothing; the download is taken for a success only when all
\* that is sent has come.
LEMMA UpdOtherKeepsInv ==
    ASSUME FtpFotaInv,
           \/ upd_net_active \/ UpdInit \/ unir_fota_ftp_handle_new \/ unir_ftp_fota_get_file_size
           \/ \E room \in UpdRooms : unirtos_fota_get_partition_space(room)
           \/ unir_ftp_fota_get_file \/ UpdVerify \/ UpdDeinit
    PROVE  FtpFotaInv'
<1> USE DEF upd_net_active, UpdInit, unir_fota_ftp_handle_new, unir_ftp_fota_get_file_size,
            unirtos_fota_get_partition_space, unir_ftp_fota_get_file, UpdVerify, UpdDeinit
<1>1. /\ UNCHANGED <<upd_came, current_dl_offset, upd_image>>
      /\ upd_pc' \in {"init", "new", "size", "room", "body", "verify", "reset", "deinit", "end"}
  BY DEF updData
<1>2. upd_fota_ptr' \in BOOLEAN /\ skipped' \in BOOLEAN
  BY DEF FtpFotaInv, FtpFotaTypeOK
<1>3. /\ current_dl_len' \in {Unknown} \union 0 .. UpdLen
      /\ sent' \in 0 .. UpdLen + Growth
  BY FtpFotaAssumption DEF FtpFotaInv, FtpFotaTypeOK
<1>4. FtpFotaTypeOK'
  BY <1>1, <1>2, <1>3 DEF FtpFotaInv, FtpFotaTypeOK
<1>5. /\ upd_pc' \in {"init", "new", "size", "room"} => upd_pc \in {"net", "init", "new", "size"}
      /\ upd_pc' = "body" => sent' \in Nat /\ upd_pc = "room"
      /\ upd_pc' \in {"verify", "reset"} /\ ~skipped' =>
            /\ UNCHANGED sent
            /\ \/ upd_pc \in {"verify", "reset"} /\ ~skipped
               \/ upd_pc = "body" /\ upd_came = sent
  BY FtpFotaAssumption DEF FtpFotaInv, FtpFotaTypeOK
<1> HIDE DEF upd_net_active, UpdInit, unir_fota_ftp_handle_new, unir_ftp_fota_get_file_size,
            unirtos_fota_get_partition_space, unir_ftp_fota_get_file, UpdVerify, UpdDeinit
<1>6. UpdInOrder'
  BY <1>1, <1>5 DEF FtpFotaInv, UpdInOrder
<1>7. FtpImageWhole'
  <2>1. /\ upd_image = [i \in 1 .. Len(upd_image) |-> i - 1]
        /\ upd_pc = "body" => Len(upd_image) = upd_came
    BY DEF FtpFotaInv, UpdInOrder
  <2> QED
    BY <1>1, <1>5, <2>1 DEF FtpFotaInv, FtpImageWhole
<1> QED
  BY <1>4, <1>6, <1>7 DEF FtpFotaInv

\* Every step of the update over FTP keeps its invariant.
THEOREM FtpFotaInvariant == FtpFotaSpec => []FtpFotaInv
<1>1. FtpFotaInv /\ [FtpFotaNext]_updVars => FtpFotaInv'
  <2> SUFFICES ASSUME FtpFotaInv, [FtpFotaNext]_updVars PROVE FtpFotaInv'
    OBVIOUS
  <2>1. CASE unir_ftp_fota_demo_process
    BY <2>1, UpdBlockKeepsInv, UpdOtherKeepsInv DEF unir_ftp_fota_demo_process
  <2>2. CASE UNCHANGED updVars
    BY <2>2 DEF updVars, FtpFotaInv, FtpFotaTypeOK, UpdInOrder, FtpImageWhole
  <2> QED
    BY <2>1, <2>2 DEF FtpFotaNext, UpdOver
<1> QED
  BY <1>1, FtpFotaStart, PTL DEF FtpFotaSpec

\* For every length of the image announced, every length of the file sent and every
\* block: the image that is verified is byte for byte the file the server sent,
\* unless the download was skipped.
THEOREM FtpImageIsWhole == FtpFotaSpec => []FtpImageWhole
<1>1. FtpFotaInv => FtpImageWhole
  BY DEF FtpFotaInv
<1> QED
  BY <1>1, FtpFotaInvariant, PTL

-----------------------------------------------------------------------------
(* The HTTP forms.                                                         *)

\* The form demo starts within its invariant.
LEMMA FormStart == FormInit => FormInv
<1> SUFFICES ASSUME FormInit PROVE FormInv
  OBVIOUS
<1>1. part = <<>> /\ <<>> \in Seq(0..(FieldLen - 1)) /\ Len(<<>>) = 0
  BY DEF FormInit
<1>2. FormTypeOK
  <2>1. form_buf \in BOOLEAN
    BY DEF FormInit
  <2>2. 1 \in 1..Performs
    BY DEF Performs
  <2> QED
    BY <1>1, <2>1, <2>2, FormAssumption DEF FormInit, FormTypeOK
<1>3. IndexFollows /\ FieldInOrder
  BY <1>1 DEF FormInit, IndexFollows, FieldInOrder
<1> QED
  BY <1>2, <1>3 DEF FormInv

\* A piece of the field continues what was passed before, from wherever the request
\* began.
LEMMA FormPieceKeepsInv ==
    ASSUME FormInv, qurl_http_app_r_form_cb
    PROVE  FormInv'
<1>1. PICK size \in 1..FormBlock :
         /\ size <= FieldLen - Len(part)
         /\ part' = part \o FieldPart(r_index, Piece(size))
         /\ r_index' = NextIndex(r_index + Piece(size))
  BY DEF qurl_http_app_r_form_cb
<1>2. /\ form_pc = "perform" /\ Len(part) < FieldLen
      /\ UNCHANGED <<program, form_pc, form_tries, turn, form_buf, before>>
  BY DEF qurl_http_app_r_form_cb
<1>3. /\ FieldLen \in Nat \ {0} /\ size \in Nat /\ r_index \in 0..(FieldLen - 1)
      /\ part \in Seq(0..(FieldLen - 1)) /\ Len(part) \in Nat
  BY FormAssumption, LenProperties DEF FormInv, FormTypeOK
<1> DEFINE S == 0..(FieldLen - 1)
           n == Piece(size)
           t == FieldPart(r_index, n)
<1>4. n \in Nat /\ n <= size /\ n <= FieldLen - r_index
  BY <1>3 DEF Piece
<1>5. t \in Seq(S) /\ Len(t) = n /\ \A i \in 1..n : t[i] = r_index + i - 1
  <2>1. \A i \in 1..n : r_index + i - 1 \in S
    BY <1>3, <1>4
  <2> HIDE DEF n, S
  <2>2. t \in [1..n -> S] /\ \A i \in 1..n : t[i] = r_index + i - 1
    BY <2>1 DEF FieldPart
  <2> HIDE DEF t
  <2> QED
    BY <1>4, <2>2, FunctionIsSeq
<1>6. r_index' \in S
  BY <1>1, <1>3, <1>4 DEF NextIndex
<1>7. part' = part \o t /\ part \in Seq(S) /\ r_index' = NextIndex(r_index + n)
  BY <1>1, <1>3
<1> HIDE DEF S, t, n
<1>8. part' \in Seq(S) /\ Len(part') = Len(part) + n
  BY <1>5, <1>7, ConcatProperties
<1>9. FormTypeOK'
  <2>1. Len(part') <= FieldLen
    BY <1>1, <1>3, <1>4, <1>8
  <2>2. form_buf' \in BOOLEAN
    BY <1>2 DEF FormInv, FormTypeOK
  <2> QED
    BY <1>2, <1>6, <1>8, <2>1, <2>2 DEF FormInv, FormTypeOK, S, Performs
<1>10. /\ before \in Nat /\ before <= FieldLen /\ Begins \in 0..(FieldLen - 1)
       /\ Begins' = Begins /\ r_index = Around(Begins + Len(part))
       /\ Len(part) + n <= FieldLen
  BY <1>1, <1>2, <1>3, <1>4 DEF FormInv, FormTypeOK, IndexFollows, Begins
<1>11. r_index' = Around(Begins + Len(part'))
  BY <1>3, <1>4, <1>7, <1>8, <1>10 DEF Around, NextIndex
<1>12. \A i \in 1..Len(part') : part'[i] = Around(Begins + i - 1)
  <2> SUFFICES ASSUME NEW i \in 1..Len(part') PROVE part'[i] = Around(Begins + i - 1)
    OBVIOUS
  <2>1. part'[i] = IF i <= Len(part) THEN part[i] ELSE t[i - Len(part)]
    BY <1>5, <1>7, <1>8, ConcatProperties
  <2>2. CASE i <= Len(part)
    BY <1>3, <2>1, <2>2 DEF FormInv, FieldInOrder
  <2>3. CASE i > Len(part)
    <3>1. i - Len(part) \in 1..n
      BY <1>3, <1>4, <1>8, <2>3
    <3>2. part'[i] = r_index + (i - Len(part)) - 1
      BY <1>3, <1>5, <2>1, <2>3, <3>1
    <3> QED
      BY <1>3, <1>4, <1>8, <1>10, <2>3, <3>1, <3>2 DEF Around
  <2> QED
    BY <1>3, <2>2, <2>3
<1>13. IndexFollows' /\ FieldInOrder'
  <2>1. \A p : Around(p)' = Around(p)
    BY DEF Around
  <2> QED
    BY <1>2, <1>10, <1>11, <1>12, <2>1 DEF FormInv, IndexFollows, FieldInOrder
<1> QED
  BY <1>9, <1>13 DEF FormInv

\* The next request starts where this one stopped.
LEMMA FormEndKeepsInv ==
    ASSUME FormInv, FormEnds
    PROVE  FormInv'
<1>1. /\ form_pc = "perform" /\ UNCHANGED <<program, form_tries, r_index>>
      /\ FieldLen \in Nat \ {0} /\ Len(part) \in Nat /\ Len(part) <= FieldLen
      /\ part \in Seq(0..(FieldLen - 1)) /\ turn \in 1..Performs /\ Performs \in Nat
  BY FormAssumption, LenProperties DEF FormEnds, FormInv, FormTypeOK, Performs
<1>2. before \in 0..FieldLen /\ Performs <= 2 /\ (turn = 1 => before = 0)
  BY DEF FormInv, FormTypeOK, FieldInOrder, Performs
<1>3. CASE turn < Performs
  <2>1. turn' = turn + 1 /\ part' = <<>> /\ before' = Len(part) /\ UNCHANGED <<form_pc, form_buf>>
    BY <1>3 DEF FormEnds
  <2>2. <<>> \in Seq(0..(FieldLen - 1)) /\ Len(<<>>) = 0
    OBVIOUS
  <2>3. form_buf' \in BOOLEAN
    BY <2>1 DEF FormInv, FormTypeOK
  <2>4. turn' \in 1..Performs' /\ Performs' = Performs
    BY <1>1, <1>3, <2>1 DEF Performs
  <2>5. FormTypeOK'
    BY <1>1, <1>2, <2>1, <2>2, <2>3, <2>4 DEF FormInv, FormTypeOK
  <2>6. r_index' = Around(Begins' + 0)
    <3>1. turn = 1 /\ before = 0 /\ Begins = 0
      BY <1>1, <1>2, <1>3 DEF Begins
    <3>2. r_index = Around(Begins + Len(part))
      BY <1>1 DEF FormInv, IndexFollows
    <3> QED
      BY <1>1, <2>1, <3>1, <3>2 DEF Around, Begins
  <2>7. IndexFollows' /\ FieldInOrder'
    <3>1. turn' # 1 /\ \A p : Around(p)' = Around(p)
      BY <1>1, <2>1 DEF Around
    <3> QED
      BY <1>1, <2>1, <2>2, <2>6, <3>1 DEF IndexFollows, FieldInOrder
  <2> QED
    BY <2>5, <2>7 DEF FormInv
<1>4. CASE ~(turn < Performs)
  <2>1. form_pc' = "end" /\ form_buf' = FALSE /\ UNCHANGED <<turn, part, before>>
    BY <1>4 DEF FormEnds
  <2>2. FormTypeOK'
    BY <1>1, <1>2, <2>1 DEF FormInv, FormTypeOK, Performs
  <2>3. IndexFollows' /\ FieldInOrder'
    BY <1>2, <2>1 DEF FormInv, IndexFollows, FieldInOrder, Begins, Around
  <2> QED
    BY <2>2, <2>3 DEF FormInv
<1> QED
  BY <1>3, <1>4

\* Before the requests nothing of the field is passed.
LEMMA FormSetUpKeepsInv ==
    ASSUME FormInv, CheckNetwork \/ SetUpForm
    PROVE  FormInv'
<1>1. /\ form_pc \in {"network", "setup"} /\ UNCHANGED <<program, turn, r_index, part, before>>
      /\ form_pc' \in {"network", "setup", "perform", "end", "crashed"}
  BY DEF CheckNetwork, SetUpForm
<1>2. form_tries' \in 0..RegTries
  BY FormAssumption DEF CheckNetwork, SetUpForm, FormInv, FormTypeOK
<1>3. form_buf' \in BOOLEAN
  BY DEF CheckNetwork, SetUpForm, FormInv, FormTypeOK
<1>4. FormTypeOK'
  BY <1>1, <1>2, <1>3 DEF FormInv, FormTypeOK, Performs
<1>5. /\ part = <<>> /\ r_index = 0 /\ Len(<<>>) = 0 /\ turn = 1 /\ before = 0
      /\ Begins' = 0 /\ Around(0)' = 0
  BY <1>1, FormAssumption DEF FormInv, IndexFollows, FieldInOrder, Begins, Around
<1>6. IndexFollows' /\ FieldInOrder'
  BY <1>1, <1>5 DEF FormInv, IndexFollows, FieldInOrder
<1> QED
  BY <1>4, <1>6 DEF FormInv

\* Every step of the form programs keeps their invariant.
THEOREM FormInvariant == FormSpec => []FormInv
<1>1. FormInv /\ [FormNext]_formVars => FormInv'
  <2> SUFFICES ASSUME FormInv, [FormNext]_formVars PROVE FormInv'
    OBVIOUS
  <2>1. CASE qurl_http_app_post_form
    BY <2>1, FormSetUpKeepsInv, FormPieceKeepsInv, FormEndKeepsInv DEF qurl_http_app_post_form
  <2>2. CASE UNCHANGED formVars
    BY <2>2 DEF formVars, FormInv, FormTypeOK, IndexFollows, FieldInOrder, Performs, Begins,
       Around
  <2> QED
    BY <2>1, <2>2 DEF FormNext, FormDone
<1> QED
  BY <1>1, FormStart, PTL DEF FormSpec

\* For every length of the field and of the pieces: each request of either program passes
\* the field on in order, round its end, from where the request before stopped; it begins
\* at the first byte exactly when that one passed all of the field or nothing.
THEOREM FormFieldInOrder == FormSpec => []FieldInOrder
<1>1. FormInv => FieldInOrder
  BY DEF FormInv
<1> QED
  BY <1>1, FormInvariant, PTL

-----------------------------------------------------------------------------
(* The HTTP download.                                                      *)

\* Positions a, a + 1, ... that stay below m.
LEMMA PositionsAreSeq ==
    ASSUME NEW m \in Nat, NEW a \in Nat, NEW n \in Nat, a + n <= m
    PROVE  /\ Positions(a, n) \in Seq(0..(m - 1)) /\ Len(Positions(a, n)) = n
           /\ \A i \in 1..n : Positions(a, n)[i] = a + i - 1
<1> DEFINE S == 0..(m - 1)
<1>1. \A i \in 1..n : a + i - 1 \in S
  OBVIOUS
<1> HIDE DEF S
<1>2. Positions(a, n) \in [1..n -> S] /\ \A i \in 1..n : Positions(a, n)[i] = a + i - 1
  BY <1>1 DEF Positions
<1> QED
  BY <1>2, FunctionIsSeq DEF S

\* The download starts within its invariant.
LEMMA HttpStart == HttpInit => HttpInv
<1> SUFFICES ASSUME HttpInit PROVE HttpInv
  OBVIOUS
<1> DEFINE S == {Old} \cup 0..(BodyLen - 1)
<1>1. /\ head = <<>> /\ Len(<<>>) = 0 /\ <<>> \in Seq(0..(HeadLen - 1))
      /\ oldLen \in OldLens /\ oldLen \in Nat /\ offset = 0
  BY HttpAssumption DEF HttpInit
<1>2. /\ file \in [1..oldLen -> S] /\ \A i \in 1..oldLen : file[i] = Old
  BY DEF HttpInit
<1> HIDE DEF S
<1>3. file \in Seq(S) /\ Len(file) = oldLen
  BY <1>1, <1>2, FunctionIsSeq
<1>4. HttpTypeOK
  <2>1. foreignClose \in BOOLEAN
    BY DEF HttpInit
  <2> QED
    BY <1>1, <1>3, <2>1, HttpAssumption DEF HttpInit, HttpTypeOK, S
<1>5. AllSaved
  BY <1>1 DEF HttpInit, AllSaved
<1>6. SavedIsPrefix
  BY <1>1, <1>2, <1>3 DEF HttpInit, SavedIsPrefix, Most
<1> QED
  BY <1>4, <1>5, <1>6 DEF HttpInv

\* A step before the request that saves nothing.
LEMMA HttpBefore ==
    ASSUME HttpInv, http_pc \in {"start", "header"},
           http_pc' \in {"start", "header", "perform", "end"},
           UNCHANGED <<first_flag, chunk_encode, total_recv_cnt, resp, came, disk, http_result>>,
           need_save' \in 0..1, http_pc' \in {"start", "header"} => need_save' = 0,
           http_fd' \in {"zero", "invalid", "file"}, foreignClose' \in BOOLEAN,
           http_pc' # "end" => UNCHANGED foreignClose,
           http_pc' = "perform" /\ need_save' = 1 => http_fd' = "file",
           head' \in Seq(0..(HeadLen - 1)), head_index' \in 0..HeadLen, Len(head') <= HeadLen,
           http_pc' # "start", http_pc' = "header" => Len(head') = head_index'
    PROVE  HttpInv'
<1> USE DEF disk
<1>1. HttpTypeOK'
  BY DEF HttpInv, HttpTypeOK
<1>2. AllSaved'
  BY DEF HttpInv, HttpTypeOK, AllSaved
<1>3. SavedIsPrefix'
  <2>1. http_result = "none"
    BY DEF HttpInv, AllSaved
  <2> QED
    BY <2>1 DEF HttpInv, SavedIsPrefix
<1> QED
  BY <1>1, <1>2, <1>3 DEF HttpInv

\* Up to the request.
LEMMA HttpSetUpKeepsInv ==
    ASSUME HttpInv, \/ qurl_http_app_get \/ qurl_http_app_get_range
                    \/ qurl_http_app_get_upload_head \/ qurl_http_app_get_upload_file_head
                    \/ qurl_http_app_get_raw_head \/ qurl_http_app_r_raw_head_cb
    PROVE  HttpInv'
<1>1. /\ HeadLen \in Nat /\ head \in Seq(0..(HeadLen - 1)) /\ Len(head) <= HeadLen
      /\ head_index \in 0..HeadLen /\ need_save \in 0..1
      /\ http_fd \in {"zero", "invalid", "file"}
  BY HttpAssumption DEF HttpInv, HttpTypeOK
<1>2. foreignClose \in BOOLEAN
  BY DEF HttpInv, HttpTypeOK
<1>3. CASE \E of \in {1, 5} : StartGet(of)
  <2>1. PICK of \in {1, 5} : StartGet(of)
    BY <1>3
  <2>2. /\ http_pc = "start" /\ http_pc' \in {"perform", "end"} /\ need_save' \in 0..1
        /\ UNCHANGED <<first_flag, chunk_encode, total_recv_cnt, head_index, head, resp, came,
                       disk, http_result>>
        /\ http_fd' \in {"zero", "invalid", "file"}
        /\ http_pc' = "perform" => UNCHANGED foreignClose /\ http_fd' = "file"
    BY <1>1, <2>1 DEF StartGet, httpCtx, HttpExit
  <2>3. foreignClose' \in BOOLEAN
    BY <1>2, <2>1 DEF StartGet, HttpExit
  <2> QED
    BY <1>1, <2>2, <2>3, HttpBefore
<1>4. CASE \E of \in {3, 4} : StartWithHead(of)
  <2>1. PICK of \in {3, 4} : StartWithHead(of)
    BY <1>4
  <2>2. /\ http_pc = "start" /\ http_pc' = "perform" /\ head' = Positions(0, HeadLen)
        /\ UNCHANGED <<first_flag, chunk_encode, need_save, total_recv_cnt, http_fd, head_index,
                       resp, came, disk, foreignClose, http_result>>
    BY <2>1 DEF StartWithHead, httpCtx
  <2>3. head' \in Seq(0..(HeadLen - 1)) /\ Len(head') = HeadLen
    BY <1>1, <2>2, PositionsAreSeq
  <2>4. need_save = 0
    BY <2>2 DEF HttpInv, AllSaved
  <2> QED
    BY <1>1, <1>2, <2>2, <2>3, <2>4, HttpBefore
<1>5. CASE qurl_http_app_get_raw_head
  <2>1. /\ http_pc = "start" /\ http_pc' = "header"
        /\ UNCHANGED <<first_flag, chunk_encode, need_save, total_recv_cnt, http_fd, head_index,
                       head, resp, came, disk, foreignClose, http_result>>
    BY <1>5 DEF qurl_http_app_get_raw_head, httpCtx
  <2>2. need_save = 0 /\ Len(head) = head_index
    BY <2>1 DEF HttpInv, AllSaved
  <2> QED
    BY <1>1, <1>2, <2>1, <2>2, HttpBefore
<1>6. CASE qurl_http_app_r_raw_head_cb
  <2>1. /\ http_pc = "header"
        /\ UNCHANGED <<first_flag, chunk_encode, need_save, total_recv_cnt, http_fd,
                       resp, came, disk, foreignClose, http_result>>
    BY <1>6 DEF qurl_http_app_r_raw_head_cb, httpCtx
  <2>2. PICK size \in 1..HttpBlock :
           LET n == Least(size, HeadLen - head_index) IN
           /\ head' = head \o Positions(0, n)
           /\ head_index' = head_index + n
           /\ http_pc' = IF n = 0 THEN "perform" ELSE "header"
    BY <1>6 DEF qurl_http_app_r_raw_head_cb
  <2> DEFINE n == Least(size, HeadLen - head_index)
             S == 0..(HeadLen - 1)
             t == Positions(0, n)
  <2>3. n \in Nat /\ n <= HeadLen - head_index /\ n <= HeadLen
    BY <1>1, HttpAssumption DEF Least
  <2>4. /\ head' = head \o t /\ head_index' = head_index + n
        /\ http_pc' \in {"perform", "header"}
    BY <2>2
  <2>5. need_save = 0 /\ Len(head) = head_index
    BY <2>1 DEF HttpInv, AllSaved
  <2> HIDE DEF n
  <2>6. t \in Seq(S) /\ Len(t) = n
    BY <1>1, <2>3, PositionsAreSeq
  <2> HIDE DEF t, S
  <2>7. head \in Seq(S)
    BY <1>1 DEF S
  <2>8. head' \in Seq(S) /\ Len(head') = Len(head) + n
    BY <2>4, <2>6, <2>7, ConcatProperties
  <2>9. Len(head') = head_index' /\ head_index' \in 0..HeadLen
    BY <1>1, <2>3, <2>4, <2>5, <2>8
  <2>10. head' \in Seq(0..(HeadLen - 1)) /\ Len(head') <= HeadLen
    BY <1>1, <2>8, <2>9 DEF S
  <2> QED
    BY <1>1, <1>2, <2>1, <2>4, <2>5, <2>9, <2>10, HttpBefore
<1> QED
  BY <1>3, <1>4, <1>5, <1>6
     DEF qurl_http_app_get, qurl_http_app_get_range, qurl_http_app_get_upload_head,
         qurl_http_app_get_upload_file_head

\* Writing the next k bytes of the body where the last ended continues what was
\* written and leaves the old bytes behind it.
LEMMA WriteContinues ==
    ASSUME HttpInv, offset = came, NEW k \in Nat, came + k <= BodyLen
    PROVE  /\ Written(k) \in Seq({Old} \cup 0..(BodyLen - 1))
           /\ Len(Written(k)) = Most(oldLen, came + k)
           /\ \A i \in 1..Len(Written(k)) :
                 Written(k)[i] = IF i <= came + k THEN i - 1 ELSE Old
<1> DEFINE S == {Old} \cup 0..(BodyLen - 1)
           l == Most(Len(file), came + k)
<1>1. /\ file \in Seq(S) /\ Len(file) \in Nat /\ Len(file) = Most(oldLen, came)
      /\ \A i \in 1..Len(file) : file[i] = IF i <= came THEN i - 1 ELSE Old
      /\ came \in Nat /\ BodyLen \in Nat /\ oldLen \in Nat
  BY HttpAssumption DEF HttpInv, HttpTypeOK, SavedIsPrefix
<1>2. l \in Nat /\ l = Most(oldLen, came + k)
  BY <1>1 DEF Most
<1>3. \A i \in 1..l : (IF i \in came + 1..came + k THEN came + (i - came) - 1 ELSE file[i])
                      = IF i <= came + k THEN i - 1 ELSE Old
  BY <1>1, <1>2 DEF Most
<1>4. Written(k) = [i \in 1..l |-> IF i <= came + k THEN i - 1 ELSE Old]
  BY <1>3 DEF Written
<1>5. \A i \in 1..l : (IF i <= came + k THEN i - 1 ELSE Old) \in S
  BY <1>1, <1>2
<1> HIDE DEF S, l
<1>6. /\ Written(k) \in [1..l -> S]
      /\ \A i \in 1..l : Written(k)[i] = IF i <= came + k THEN i - 1 ELSE Old
  BY <1>4, <1>5
<1>7. Written(k) \in Seq(S) /\ Len(Written(k)) = l
  BY <1>2, <1>6, FunctionIsSeq
<1> QED
  BY <1>2, <1>6, <1>7 DEF S

\* A block that is refused or written in part ends the request.
LEMMA HttpBodyKeepsInv ==
    ASSUME HttpInv, qurl_http_app_w_cb
    PROVE  HttpInv'
<1>1. /\ http_pc = "perform" /\ http_result = "none"
      /\ UNCHANGED <<test, http_pc, head_index, head, resp, oldLen, foreignClose>>
      /\ offset = came /\ total_recv_cnt = came /\ came \in Nat /\ BodyLen \in Nat
      /\ need_save = 1 => http_fd = "file"
  BY HttpAssumption DEF qurl_http_app_w_cb, HttpInv, HttpTypeOK, AllSaved
<1>0. PICK n \in 1..HttpBlock : \E k \in 0..n :
         /\ came + n <= BodyLen /\ came' = came + n
         /\ IF need_save = 1
            THEN FreeWith(Len(Written(k))) >= 0 /\ qurl_http_demo_save_file(n, k)
            ELSE http_result' = "failed" /\ UNCHANGED <<httpCtx, file, offset>>
  BY DEF qurl_http_app_w_cb
<1>2. PICK k \in 0..n :
         /\ came + n <= BodyLen /\ came' = came + n
         /\ IF need_save = 1
            THEN FreeWith(Len(Written(k))) >= 0 /\ qurl_http_demo_save_file(n, k)
            ELSE http_result' = "failed" /\ UNCHANGED <<httpCtx, file, offset>>
  BY <1>0
<1>3. n \in Nat /\ k \in Nat /\ k <= n /\ came' \in 0..BodyLen /\ came + k <= BodyLen
  BY <1>1, <1>2
<1>4. CASE need_save # 1
  <2>1. http_result' = "failed" /\ UNCHANGED <<first_flag, chunk_encode, need_save,
                                               total_recv_cnt, http_fd, file, offset>>
    BY <1>2, <1>4 DEF httpCtx
  <2>2. HttpTypeOK'
    BY <1>1, <1>3, <2>1 DEF HttpInv, HttpTypeOK
  <2>3. AllSaved'
    BY <1>1, <1>4, <2>1 DEF HttpInv, AllSaved
  <2>4. SavedIsPrefix'
    BY <1>1, <2>1 DEF HttpInv, SavedIsPrefix
  <2> QED
    BY <2>2, <2>3, <2>4 DEF HttpInv
<1>5. CASE need_save = 1
  <2> DEFINE S == {Old} \cup 0..(BodyLen - 1)
  <2>1. qurl_http_demo_save_file(n, k) /\ UNCHANGED <<first_flag, need_save>>
    BY <1>2, <1>5 DEF qurl_http_demo_save_file
  <2>2. \/ file' = file /\ offset' = came
        \/ file' = Written(k) /\ offset' = came + k
    BY <1>1, <2>1 DEF qurl_http_demo_save_file
  <2>3. /\ file' \in Seq(S) /\ offset' \in 0..BodyLen /\ offset' >= came
        /\ Len(file') = Most(oldLen, offset')
        /\ \A i \in 1..Len(file') : file'[i] = IF i <= offset' THEN i - 1 ELSE Old
    <3>1. CASE file' = file /\ offset' = came
      BY <1>1, <1>3, <3>1 DEF HttpInv, HttpTypeOK, SavedIsPrefix
    <3>2. CASE file' = Written(k) /\ offset' = came + k
      <4>1. offset' \in 0..BodyLen /\ offset' >= came
        BY <1>1, <1>3, <3>2
      <4> QED
        BY <1>1, <1>3, <3>2, <4>1, WriteContinues
    <3> QED
      BY <2>2, <3>1, <3>2
  <2> HIDE DEF S
  <2>4. \/ /\ http_result' = "none" /\ offset' = came + k /\ k = n
           /\ total_recv_cnt' = came + n /\ UNCHANGED http_fd
        \/ /\ http_result' = "failed" /\ total_recv_cnt' = came
           /\ http_fd' \in {http_fd, "zero"}
    BY <1>1, <2>1 DEF qurl_http_demo_save_file
  <2>5. chunk_encode' \in 0..1
    BY <2>1 DEF qurl_http_demo_save_file, ChunkEncode, HttpInv, HttpTypeOK
  <2>6. HttpTypeOK'
    <3>1. total_recv_cnt' \in 0..BodyLen
      BY <1>1, <1>2, <1>3, <2>4
    <3>2. foreignClose' \in BOOLEAN
      BY <1>1 DEF HttpInv, HttpTypeOK
    <3>3. http_fd' \in {"zero", "invalid", "file"} /\ http_result' \in {"none", "ok", "failed"}
      BY <2>4 DEF HttpInv, HttpTypeOK
    <3>4. file' \in Seq({Old} \cup 0..(BodyLen - 1))
      BY <2>3 DEF S
    <3> QED
      BY <1>1, <1>3, <2>1, <2>3, <2>5, <3>1, <3>2, <3>3, <3>4 DEF HttpInv, HttpTypeOK
  <2>7. AllSaved'
    BY <1>1, <1>2, <1>5, <2>1, <2>4 DEF HttpInv, AllSaved
  <2>8. SavedIsPrefix'
    BY <1>1, <1>3, <2>3, <2>4 DEF SavedIsPrefix, Most
  <2> QED
    BY <2>6, <2>7, <2>8 DEF HttpInv
<1> QED
  BY <1>4, <1>5

\* The answer, and the end of the request: a success has all of the body.
LEMMA HttpEndKeepsInv ==
    ASSUME HttpInv, Answer \/ HttpEnds
    PROVE  HttpInv'
<1>1. CASE Answer
  <2>1. /\ http_pc = "perform" /\ resp' \in {"success", "chunked", "error"}
        /\ UNCHANGED <<http_pc, first_flag, chunk_encode, need_save, total_recv_cnt, http_fd,
                       head_index, head, came, file, offset, oldLen, foreignClose, http_result>>
    BY <1>1 DEF Answer, httpCtx, disk
  <2> QED
    BY <2>1 DEF HttpInv, HttpTypeOK, AllSaved, SavedIsPrefix
<1>2. CASE HttpEnds
  <2>1. /\ http_pc = "perform" /\ http_pc' = "end"
        /\ UNCHANGED <<first_flag, chunk_encode, need_save, total_recv_cnt, http_fd, head_index,
                       head, resp, came, file, offset, oldLen>>
        /\ http_result' \in {"failed", "ok"} /\ (http_result' = "ok" => http_result = "none")
    BY <1>2 DEF HttpEnds, HttpExit, httpCtx, disk
  <2>2. foreignClose \in BOOLEAN /\ ~foreignClose
    BY <2>1 DEF HttpInv, HttpTypeOK, AllSaved
  <2>3. foreignClose' \in BOOLEAN /\ (http_result' = "ok" => ~foreignClose')
    <3>1. CASE need_save = 1
      <4>1. foreignClose' = (foreignClose \/ http_fd = "zero")
        BY <1>2, <2>1, <3>1 DEF HttpEnds, HttpExit
      <4>2. http_result' = "ok" => http_fd = "file"
        BY <2>1, <3>1 DEF HttpInv, AllSaved
      <4> QED
        BY <2>2, <4>1, <4>2
    <3>2. CASE need_save # 1
      BY <1>2, <2>2, <3>2 DEF HttpEnds
    <3> QED
      BY <3>1, <3>2
  <2>4. HttpTypeOK'
    BY <2>1, <2>3 DEF HttpInv, HttpTypeOK
  <2>5. AllSaved'
    BY <2>1 DEF HttpInv, AllSaved
  <2>6. SavedIsPrefix'
    <3>1. http_result' = "ok" => offset = came
      BY <2>1 DEF HttpInv, AllSaved
    <3> QED
      BY <2>1, <2>3, <3>1 DEF HttpInv, SavedIsPrefix
  <2> QED
    BY <2>4, <2>5, <2>6 DEF HttpInv
<1> QED
  BY <1>1, <1>2

\* Every step of the download keeps its invariant.
THEOREM HttpInvariant == HttpSpec => []HttpInv
<1>1. HttpInv /\ [HttpNext]_httpVars => HttpInv'
  <2> SUFFICES ASSUME HttpInv, [HttpNext]_httpVars PROVE HttpInv'
    OBVIOUS
  <2>1. CASE unir_qurl_http_app_init
    BY <2>1, HttpSetUpKeepsInv, HttpBodyKeepsInv, HttpEndKeepsInv DEF unir_qurl_http_app_init
  <2>2. CASE UNCHANGED httpVars
    BY <2>2 DEF httpVars, httpCtx, disk, HttpInv, HttpTypeOK, AllSaved, SavedIsPrefix
  <2> QED
    BY <2>1, <2>2 DEF HttpNext, HttpDone
<1> QED
  BY <1>1, HttpStart, PTL DEF HttpSpec

\* For every length of the body and of the blocks, and wherever a write stops short:
\* what was written is a gapless beginning of the body, and all of it when the request
\* succeeded, at the beginning of the file; behind it is only what an earlier run left
\* in the file, which is not truncated.  After a success it is the file that is closed.
THEOREM HttpSavedIsPrefix == HttpSpec => []SavedIsPrefix
<1>1. HttpInv => SavedIsPrefix
  BY DEF HttpInv
<1> QED
  BY <1>1, HttpInvariant, PTL

-----------------------------------------------------------------------------
(* All of them together, as TLC runs them.                                 *)

\* Whichever program runs, the composed specification is one of each of them: what is
\* proved of one holds of the whole.  The two FTP programs share their variables, so
\* that it is one or the other of them.
THEOREM TransferRunsEach ==
    TransferSpec =>
        /\ GetSpec \/ PutSpec
        /\ HttpSpec /\ FormSpec /\ SmtpSpec /\ HttpFotaSpec /\ FtpFotaSpec
<1> DEFINE all == <<demo, putVars, httpVars, formVars, smtpVars, fotaVars, updVars>>
           Get == demo = "get"
<1>1. TransferInit =>
         /\ (Get /\ GetInit) \/ (~Get /\ PutInit)
         /\ HttpInit /\ FormInit /\ SmtpInit /\ HttpFotaInit /\ FtpFotaInit
  BY DEF TransferInit, FtpIdle, HttpIdle, FormIdle, SmtpIdle
<1>2. [TransferNext]_all =>
         /\ Get => Get' /\ [GetNext]_ftpVars
         /\ ~Get => (~Get)' /\ [PutNext]_putVars
  BY DEF TransferNext, OnlyFtp, OnlyHttp, OnlyForm, OnlySmtp, OnlyFota, OnlyUpd, putVars
<1>3. [TransferNext]_all =>
         /\ [HttpNext]_httpVars /\ [FormNext]_formVars /\ [SmtpNext]_smtpVars
         /\ [HttpFotaNext]_fotaVars /\ [FtpFotaNext]_updVars
  BY DEF TransferNext, OnlyFtp, OnlyHttp, OnlyForm, OnlySmtp, OnlyFota, OnlyUpd
<1> HIDE DEF Get, all
<1>4. TransferSpec => TransferInit /\ [][TransferNext]_all
  BY DEF TransferSpec, all
<1> QED
  BY <1>1, <1>2, <1>3, <1>4, PTL
  DEF GetSpec, PutSpec, HttpSpec, FormSpec, SmtpSpec, HttpFotaSpec, FtpFotaSpec

\* For all lengths, sizes and limits: the variables of all seven programs keep their
\* types, and no count of bytes exceeds what there is to transfer.
THEOREM TransferTypesCorrect == TransferSpec => []TransferTypesOK
<1>1. FtpTypeOK /\ HttpInv /\ FormInv /\ SmtpInv /\ HttpFotaInv /\ FtpFotaInv => TransferTypesOK
  BY DEF TransferTypesOK, HttpInv, FormInv, SmtpInv, HttpFotaInv, FtpFotaInv
<1> QED
  BY <1>1, TransferRunsEach, GetTypeCorrect, PutTypeCorrect, HttpInvariant, FormInvariant,
     SmtpInvariant, HttpFotaInvariant, FtpFotaInvariant, PTL

\* For all lengths, sizes and limits: every safety property TLC checks of the composed
\* specification holds, whichever of the programs runs.
THEOREM TransferSafe ==
    TransferSpec => [](/\ DownloadWhole /\ UploadWhole /\ LocalFileClosed /\ CleanRun
                       /\ SavedIsPrefix /\ FieldInOrder /\ ImageSound /\ FtpImageWhole
                       /\ WithinBuffer /\ MailInOrder /\ MailComplete)
<1>1. GetInv => DownloadWhole /\ UploadWhole /\ LocalFileClosed /\ CleanRun
  BY DEF GetInv, Downloading, UploadWhole, CleanSession, CleanRun
<1>2. PutInv => DownloadWhole /\ UploadWhole /\ LocalFileClosed /\ CleanRun
  BY DEF PutInv, Uploading, DownloadWhole, CleanSession, CleanRun
<1> QED
  BY <1>1, <1>2, TransferRunsEach, GetInvariant, PutInvariant, HttpSavedIsPrefix,
     FormFieldInOrder, HttpImageSound, FtpImageIsWhole, StaysWithinBuffer, MailIsInOrder,
     MailIsComplete, PTL
=============================================================================
