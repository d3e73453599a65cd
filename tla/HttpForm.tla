------------------------------ MODULE HttpForm ------------------------------
(***************************************************************************)
(* The multipart form demos: network/network_protocol/http/post            *)
(* (http_post_demo.c), which performs its request twice, and               *)
(* .../post_form (http_post_form_demo.c), which performs it once.          *)
(*                                                                         *)
(* The third field of the form is passed by a callback that remembers how  *)
(* far it has come in r_index and starts again when all is passed.  The    *)
(* library asks for as many bytes as the field was announced to have, in   *)
(* pieces, and may fail at any point.  The first two fields are handed     *)
(* over whole and left out.  Library and server are external.              *)
(***************************************************************************)
EXTENDS Integers, Sequences

CONSTANTS
    FieldLen,       \* length of the third field
    FormBlock,      \* most bytes the library asks for at once
    RegTries        \* looks at the network registration (10)

ASSUME FormAssumption == FieldLen \in Nat \ {0} /\ FormBlock \in Nat /\ RegTries \in Nat \ {0}

VARIABLES
    program,        \* "post" or "post_form"
    form_pc,
    form_tries,     \* the loop counter of the registration check
    turn,           \* number of the request, from 1
    form_buf,       \* whether r_buff.buf_ptr is allocated
    r_index,
    part,           \* positions of the field passed in this request
    before          \* history: bytes of the field the request before this one passed

formVars == <<program, form_pc, form_tries, turn, form_buf, r_index, part, before>>

FieldPart(a, n) == [i \in 1..n |-> a + i - 1]

\* How often the request is performed.
Performs == IF program = "post" THEN 2 ELSE 1

FormInit ==
    /\ program \in {"post", "post_form"}
    /\ form_pc = IF program = "post" THEN "setup" ELSE "network"
    /\ form_tries = 0 /\ turn = 1 /\ form_buf = FALSE /\ r_index = 0
    /\ part = <<>> /\ before = 0

\* The registration check of http_post_form_demo.
CheckNetwork ==
    /\ form_pc = "network"
    /\ \/ form_pc' = "setup" /\ UNCHANGED form_tries
       \/ form_pc' = "end" /\ form_tries = RegTries - 1 /\ UNCHANGED form_tries
       \/ form_tries < RegTries - 1 /\ form_tries' = form_tries + 1 /\ UNCHANGED form_pc
    /\ UNCHANGED <<program, turn, form_buf, r_index, part, before>>

\* The form.  The memory for the third field is used unchecked.
SetUpForm ==
    /\ form_pc = "setup"
    /\ \/ form_pc' = "perform" /\ form_buf' = TRUE
       \/ form_pc' = "crashed" /\ UNCHANGED form_buf
    /\ UNCHANGED <<program, form_tries, turn, r_index, part, before>>

\* What a request for size bytes passes, and where the next one starts.
Piece(size) == IF FieldLen - r_index < size THEN FieldLen - r_index ELSE size
NextIndex(i) == IF i >= FieldLen THEN 0 ELSE i

\* Mutant: every piece is taken from the beginning of the field.
qurl_http_app_r_form_cb_from_start ==
    /\ form_pc = "perform" /\ Len(part) < FieldLen
    /\ \E size \in 1..FormBlock :
          /\ size <= FieldLen - Len(part)
          /\ part' = part \o FieldPart(0, Piece(size))
          /\ r_index' = NextIndex(r_index + Piece(size))
    /\ UNCHANGED <<program, form_pc, form_tries, turn, form_buf, before>>

\* The library asks for what is left of the announced length.
qurl_http_app_r_form_cb ==
    /\ form_pc = "perform" /\ Len(part) < FieldLen
    /\ \E size \in 1..FormBlock :
          /\ size <= FieldLen - Len(part)
          /\ part' = part \o FieldPart(r_index, Piece(size))
          /\ r_index' = NextIndex(r_index + Piece(size))
    /\ UNCHANGED <<program, form_pc, form_tries, turn, form_buf, before>>

\* A request ends, completed or not, and the next one begins.
FormEnds ==
    /\ form_pc = "perform"
    /\ IF turn < Performs
       THEN /\ turn' = turn + 1 /\ part' = <<>> /\ before' = Len(part)
            /\ UNCHANGED <<form_pc, form_buf>>
       ELSE form_pc' = "end" /\ form_buf' = FALSE /\ UNCHANGED <<turn, part, before>>
    /\ UNCHANGED <<program, form_tries, r_index>>

qurl_http_app_post_form == CheckNetwork \/ SetUpForm \/ qurl_http_app_r_form_cb \/ FormEnds

FormDone == form_pc \in {"end", "crashed"} /\ UNCHANGED formVars
FormNext == qurl_http_app_post_form \/ FormDone
FormSpec == FormInit /\ [][FormNext]_formVars

-----------------------------------------------------------------------------
FormTypeOK ==
    /\ program \in {"post", "post_form"}
    /\ form_pc \in {"network", "setup", "perform", "end", "crashed"}
    /\ form_tries \in 0..RegTries /\ turn \in 1..Performs /\ form_buf \in BOOLEAN
    /\ r_index \in 0..(FieldLen - 1) /\ before \in 0..FieldLen
    /\ part \in Seq(0..(FieldLen - 1)) /\ Len(part) <= FieldLen

\* Where a request begins: where the one before it stopped.
Begins == IF before = FieldLen THEN 0 ELSE before

\* The position p of the field when it is passed round and round.
Around(p) == IF p < FieldLen THEN p ELSE p - FieldLen

\* A request passes on what the request before it left off at, in order and round
\* the field's end, and never more than the announced length.  The second request
\* ("possibly for retry", http_post_demo.c:183) so sends the field from its first byte
\* exactly when the first one passed all of it or nothing; after one that was
\* broken off inside the field it sends the rest first and the beginning after it.
FieldInOrder ==
    /\ \A i \in 1..Len(part) : part[i] = Around(Begins + i - 1)
    /\ turn = 1 => before = 0

-----------------------------------------------------------------------------
\* What makes FieldInOrder inductive: the index is where the field goes on.
IndexFollows ==
    /\ form_pc \in {"network", "setup"} => part = <<>> /\ r_index = 0 /\ turn = 1
    /\ form_pc = "perform" => r_index = Around(Begins + Len(part))

FormInv == FormTypeOK /\ IndexFollows /\ FieldInOrder
=============================================================================
