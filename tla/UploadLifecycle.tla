-------------------------- MODULE UploadLifecycle --------------------------
(***************************************************************************)
(* What an attachment promises to the turns that use it, without copies,   *)
(* handlers or objects other than its derived text.  It is new once; it is *)
(* ready only by an admission, which gives it a text and names the text in *)
(* the row; a row names no text that is not there, until a removal takes   *)
(* it; and a removed attachment never comes back.  Attachment shows that   *)
(* AttachmentService keeps this promise although every handler saves a     *)
(* copy of the row that may be out of date.                                *)
(*                                                                         *)
(* What it does not promise shows as well: a late save may undo a refusal, *)
(* with any status but ready, and may forget the name of a text.           *)
(***************************************************************************)
VARIABLES status,   \* of the row, "gone" when there is none
          named,    \* the row names the derived text
          text,     \* the store has the derived text
          cut,      \* a removal has deleted it
          verdict   \* the last that was given

vars == <<status, named, text, cut, verdict>>

(* The statuses that say how far an attachment got, not what was found. *)
Working == {"uploaded", "scanning", "indexed"}
Live == status # "gone"
HasText == text \/ cut

Init == /\ status = "pending" /\ verdict = "none"
        /\ named = FALSE /\ text = FALSE /\ cut = FALSE

(* The row is saved with another status, and with or without the name. *)
Becomes(s) == /\ Live
              /\ status' = s
              /\ named' \in {n \in BOOLEAN : n => HasText}
              /\ UNCHANGED <<text, cut>>

WorksOn == \E s \in Working : Becomes(s) /\ UNCHANGED verdict
Refuse == Becomes("refused") /\ verdict' = "refused"
(* The pipeline, or a manager's restore, admits after it wrote the text. *)
Admit == Becomes("ready") /\ named' /\ verdict' = "ready"

Name == /\ Live /\ HasText /\ named' = TRUE
        /\ UNCHANGED <<status, text, cut, verdict>>
(* A text may be written at any time, even when the row has gone; a removal may
   take it before it takes the row, or again when it is repeated. *)
Write == /\ text' = TRUE
         /\ UNCHANGED <<status, named, cut, verdict>>
Cut == /\ text' = FALSE /\ cut' = TRUE
       /\ UNCHANGED <<status, named, verdict>>
Remove == /\ status' = "gone" /\ named' = FALSE
          /\ UNCHANGED <<text, cut, verdict>>

Next == WorksOn \/ Refuse \/ Admit \/ Name \/ Write \/ Cut \/ Remove
Spec == Init /\ [][Next]_vars
=============================================================================
