----------------------------- MODULE MCTransfer -----------------------------
(***************************************************************************)
(* The programs that transfer over the qurl library, for TLC.  They share  *)
(* nothing but the code some were copied from: demo says which one runs,   *)
(* and the variables of the others keep their first values.                *)
(***************************************************************************)
EXTENDS FtpGet, FtpPut, SmtpUpload, HttpGet, HttpForm, HttpFota, FtpFota

VARIABLE demo

\* Only a program that runs needs all of its initial states.
SmtpIdle == SmtpInit /\ fits /\ fileLen = CHOOSE n \in FileLens : TRUE
HttpIdle == HttpInit /\ test = (CHOOSE t \in Tests : TRUE) /\ oldLen = CHOOSE n \in OldLens : TRUE
FormIdle == FormInit /\ program = "post"
FtpIdle  == PutInit /\ ~testDir

TransferInit ==
    /\ HttpFotaInit /\ FtpFotaInit
    /\ \/ demo = "get" /\ GetInit /\ cut = FALSE /\ HttpIdle /\ FormIdle /\ SmtpIdle
       \/ demo = "put" /\ PutInit /\ HttpIdle /\ FormIdle /\ SmtpIdle
       \/ demo = "http" /\ FtpIdle /\ HttpInit /\ FormIdle /\ SmtpIdle
       \/ demo = "form" /\ FtpIdle /\ HttpIdle /\ FormInit /\ SmtpIdle
       \/ demo = "smtp" /\ FtpIdle /\ HttpIdle /\ FormIdle /\ SmtpInit
       \/ demo \in {"http fota", "ftp fota"} /\ FtpIdle /\ HttpIdle /\ FormIdle /\ SmtpIdle
    /\ demo # "http fota" => verbose

\* The programs that do not run stand still.
OnlyFtp  == UNCHANGED <<demo, httpVars, formVars, smtpVars, fotaVars, updVars>>
OnlyHttp == UNCHANGED <<demo, putVars, formVars, smtpVars, fotaVars, updVars>>
OnlyForm == UNCHANGED <<demo, putVars, httpVars, smtpVars, fotaVars, updVars>>
OnlySmtp == UNCHANGED <<demo, putVars, httpVars, formVars, fotaVars, updVars>>
OnlyFota == UNCHANGED <<demo, putVars, httpVars, formVars, smtpVars, updVars>>
OnlyUpd  == UNCHANGED <<demo, putVars, httpVars, formVars, smtpVars, fotaVars>>

TransferNext ==
    \/ demo = "get" /\ GetNext /\ OnlyFtp /\ UNCHANGED cut
    \/ demo = "put" /\ PutNext /\ OnlyFtp
    \/ demo = "http" /\ HttpNext /\ OnlyHttp
    \/ demo = "form" /\ FormNext /\ OnlyForm
    \/ demo = "smtp" /\ SmtpNext /\ OnlySmtp
    \/ demo = "http fota" /\ HttpFotaNext /\ OnlyFota
    \/ demo = "ftp fota" /\ FtpFotaNext /\ OnlyUpd

TransferSpec ==
    /\ TransferInit
    /\ [][TransferNext]_<<demo, putVars, httpVars, formVars, smtpVars, fotaVars, updVars>>

-----------------------------------------------------------------------------
\* Every variable of every program keeps its type.
TransferTypesOK ==
    FtpTypeOK /\ HttpTypeOK /\ FormTypeOK /\ SmtpTypeOK /\ HttpFotaTypeOK /\ FtpFotaTypeOK
=============================================================================
