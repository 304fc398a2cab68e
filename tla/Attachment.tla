----------------------------- MODULE Attachment -----------------------------
(***************************************************************************)
(* One attachment of AttachmentService: its row in Postgres, its objects   *)
(* in the blob store, and the handlers that work on them: uploads (through *)
(* the API, in parts, or by the presigned ticket), the pipeline, restore,  *)
(* indexing, lazy reads, deletion and the retention sweeps.                *)
(*                                                                         *)
(* A handler reads the row once and later saves the whole of that copy.    *)
(* Nothing spans the row and the store: a step is one access to either.    *)
(*                                                                         *)
(* SaveUpserts, StampWhole, RowFirst, SaveEarly and DelMissing are wrong   *)
(* variants of a later definition; nothing uses them.                      *)
(***************************************************************************)
EXTENDS Naturals

CONSTANTS Clients,    \* handlers of requests and approvals
          Sweepers,   \* retention: the cron job, the sweeps of listings
          MaxCalls,   \* bound: requests begun
          MaxCrashes  \* bound: handlers lost or ended by an error

ASSUME AttachmentAssumption == MaxCalls \in Nat /\ MaxCrashes \in Nat

(* What is uploaded; the injection gate refuses what is flagged. *)
Contents == {"good", "flagged"}

VARIABLES row, blob, part, text,   \* the row, and three objects of the store
          ticketOver, expired,     \* the presigned ticket, the row's TTL
          parked,                  \* an approved index payload awaits execution
          handler,
          calls, crashes,
          verdict,                 \* the last verdict saved
          cut,                     \* a removal took the text
          stray                    \* see Overlap, LostKey, Crash, Swallow

vars == <<row, blob, part, text, ticketOver, expired, parked, handler,
          calls, crashes, verdict, cut, stray>>
objects == <<blob, part, text>>
clock == <<ticketOver, expired>>
history == <<verdict, cut, stray>>

Handlers == Clients \cup Sweepers
AcceptsUpload == {"pending", "uploaded"}
UsableForTurn == {"ready", "indexed"}
(* quarantined and rejected are one status here: nothing tells them apart but
   the reason, of which only injection_detected matters. *)
Statuses == {"gone", "refused", "scanning"} \cup AcceptsUpload \cup UsableForTurn
Row == [status : Statuses, key : BOOLEAN, injection : BOOLEAN]
NoRow == [status |-> "gone", key |-> FALSE, injection |-> FALSE]
Created == [NoRow EXCEPT !.status = "pending"]
Live == row.status # "gone"

Removing == {"parts", "blob", "text", "row"}
Places == Removing \cup {"idle", "part", "put", "gather", "join", "drop", "mark", "run",
                         "force", "mask", "write", "save", "parse", "cache", "stamp"}
Objects == Contents \cup {"none"}
Handler == [pc : Places, copy : Row, data : Objects]
Idle == [pc |-> "idle", copy |-> NoRow, data |-> "none"]

TypeOK == /\ row \in Row /\ blob \in Objects /\ part \in Objects /\ text \in Objects
          /\ ticketOver \in BOOLEAN /\ expired \in BOOLEAN /\ parked \in BOOLEAN
          /\ handler \in [Handlers -> Handler]
          /\ calls \in Nat /\ crashes \in Nat
          /\ verdict \in {"none", "ready", "refused"}
          /\ cut \in BOOLEAN /\ stray \in BOOLEAN

Init == /\ row = Created
        /\ blob = "none" /\ part = "none" /\ text = "none"
        /\ ticketOver = FALSE /\ expired = FALSE /\ parked = FALSE
        /\ handler = [h \in Handlers |-> Idle]
        /\ calls = 0 /\ crashes = 0
        /\ verdict = "none" /\ cut = FALSE /\ stray = FALSE

-----------------------------------------------------------------------------
(* How objects may be left behind.  A removal overlaps a handler that writes,
   a save drops the key of a text it did not know of, the handler that wrote a
   text ends before it saved the key (Crash), or the store says that it deleted
   what it did not (Swallow). *)
Busy == {h \in Handlers : handler[h].pc # "idle"}
Removers == {h \in Busy : handler[h].pc \in Removing}
Overlap == ~Live \/ Removers # {}
LostKey(copy) == row.key /\ ~copy.key

At(h, pc) == handler[h].pc = pc
Goto(h, pc) == handler' = [handler EXCEPT ![h].pc = pc]
Takes(h, pc, data) == handler' = [handler EXCEPT ![h] = [@ EXCEPT !.pc = pc, !.data = data]]
Ends(h) == handler' = [handler EXCEPT ![h] = Idle]

(* A request reads the row, checks it, and means to save copy. *)
Begin(h, pc, copy, data) ==
  /\ At(h, "idle") /\ calls < MaxCalls /\ Live
  /\ calls' = calls + 1
  /\ handler' = [handler EXCEPT ![h] = [pc |-> pc, copy |-> copy, data |-> data]]
  /\ UNCHANGED <<row, objects, clock, crashes, verdict, cut>>

With(status) == [row EXCEPT !.status = status]

Upload(h) == \E c \in Contents : /\ row.status \in AcceptsUpload
                                 /\ Begin(h, "put", With("uploaded"), c)
                                 /\ UNCHANGED <<parked, stray>>
Stage(h) == \E c \in Contents : /\ row.status \in AcceptsUpload
                                /\ Begin(h, "part", row, c)
                                /\ UNCHANGED <<parked, stray>>
Finalize(h) == /\ row.status \in AcceptsUpload
               /\ Begin(h, "gather", With("uploaded"), "none")
               /\ UNCHANGED <<parked, stray>>
Complete(h) == /\ row.status \in AcceptsUpload \cup {"scanning"}
               /\ Begin(h, IF row.status = "scanning" THEN "run" ELSE "mark",
                        With("scanning"), "none")
               /\ UNCHANGED <<parked, stray>>
Reingest(h) == /\ row.status \in UsableForTurn /\ ~expired
               /\ Begin(h, "mark", [With("scanning") EXCEPT !.injection = FALSE], "none")
               /\ UNCHANGED <<parked, stray>>
Restore(h) == /\ row.status = "refused" /\ row.injection
              /\ Begin(h, IF row.key THEN "mask" ELSE "force",
                       [With("ready") EXCEPT !.injection = FALSE], "none")
              /\ UNCHANGED <<parked, stray>>
Read(h) == /\ row.status \in UsableForTurn
           /\ Begin(h, "parse", row, "none")
           /\ UNCHANGED <<parked, stray>>

(* request_index reads the text; _mark_indexed takes the row as it is later. *)
RequestIndex(h) == /\ At(h, "idle") /\ calls < MaxCalls /\ ~parked
                   /\ row.status \in UsableForTurn /\ row.key /\ text # "none"
                   /\ parked' = TRUE /\ calls' = calls + 1
                   /\ UNCHANGED <<row, objects, clock, handler, crashes, history>>
MarkIndexed(h) == /\ parked /\ parked' = FALSE
                  /\ Begin(h, "save", With("indexed"), "none")
                  /\ UNCHANGED stray

(* The owner deletes; retention removes what it listed as reclaimable. *)
Delete(h) == /\ Begin(h, "parts", row, "none")
             /\ stray' = (stray \/ Busy \ Removers # {})
             /\ UNCHANGED parked
Reclaimable == expired \/ (row.status = "pending" /\ ticketOver)
Sweep(h) == /\ At(h, "idle") /\ Live /\ Reclaimable
            /\ handler' = [handler EXCEPT ![h] = [pc |-> "parts", copy |-> row, data |-> "none"]]
            /\ stray' = (stray \/ Busy \ Removers # {})
            /\ UNCHANGED <<row, objects, clock, parked, calls, crashes, verdict, cut>>

-----------------------------------------------------------------------------
(* Steps on the store. *)
StagePart(h) == /\ At(h, "part") /\ part' = handler[h].data /\ Ends(h)
                /\ stray' = (stray \/ Overlap)
                /\ UNCHANGED <<row, blob, text, clock, parked, calls, crashes, verdict, cut>>
Gather(h) == /\ At(h, "gather")
             /\ IF part = "none" THEN Ends(h)
                ELSE Takes(h, "join", part)
             /\ UNCHANGED <<row, objects, clock, parked, calls, crashes, history>>
Put(h) == /\ At(h, "put") \/ At(h, "join")
          /\ blob' = handler[h].data
          /\ Goto(h, IF At(h, "put") THEN "save" ELSE "drop")
          /\ stray' = (stray \/ Overlap)
          /\ UNCHANGED <<row, part, text, clock, parked, calls, crashes, verdict, cut>>
(* finalize removes the parts it counted; more may have been staged. *)
DropParts(h) == /\ At(h, "drop") /\ part' \in {part, "none"} /\ Goto(h, "save")
                /\ UNCHANGED <<row, blob, text, clock, parked, calls, crashes, history>>
WriteText(h) == /\ At(h, "write") \/ At(h, "cache")
                /\ text' = handler[h].data
                /\ Goto(h, IF At(h, "write") THEN "save" ELSE "stamp")
                /\ stray' = (stray \/ Overlap)
                /\ UNCHANGED <<row, blob, part, clock, parked, calls, crashes, verdict, cut>>
(* The client puts by itself while the ticket lasts, and asks nobody. *)
TicketPut == \E c \in Contents : /\ ~ticketOver /\ blob' = c
                                 /\ stray' = (stray \/ Overlap)
                                 /\ UNCHANGED <<row, part, text, clock, parked, handler,
                                                calls, crashes, verdict, cut>>

(* The pipeline: it admits, refuses for injection, or refuses for any of its
   other reasons, a missing object and an unexpected failure included. *)
SaveEarly(h) == /\ At(h, "run") /\ blob = "good" /\ Live
                /\ row' = [handler[h].copy EXCEPT !.status = "ready", !.key = TRUE]
                /\ handler' = [handler EXCEPT ![h] = [pc |-> "cache", copy |-> row', data |-> blob]]
                /\ verdict' = "ready"
                /\ UNCHANGED <<objects, clock, parked, calls, crashes, cut, stray>>
Admit(h) == /\ At(h, "run") /\ blob = "good"
            /\ handler' = [handler EXCEPT ![h] =
                 [pc |-> "write", data |-> blob,
                  copy |-> [status |-> "ready", key |-> TRUE, injection |-> FALSE]]]
            /\ UNCHANGED <<row, objects, clock, parked, calls, crashes, history>>
Refuse(h) == /\ At(h, "run")
             /\ \E injection \in {FALSE, blob = "flagged"} :
                  handler' = [handler EXCEPT ![h] =
                    [pc |-> "save", data |-> "none",
                     copy |-> [status |-> "refused", key |-> handler[h].copy.key,
                               injection |-> injection]]]
             /\ UNCHANGED <<row, objects, clock, parked, calls, crashes, history>>

(* A manager's restore masks the stored text, or runs the pipeline with the
   injection gate masking; anything else it refuses is an error. *)
Mask(h) == /\ At(h, "mask")
           /\ IF text = "none" THEN Ends(h)
              ELSE Takes(h, "write", text)
           /\ UNCHANGED <<row, objects, clock, parked, calls, crashes, history>>
ForceMask(h) == /\ At(h, "force")
            /\ \/ /\ blob \in {"good", "flagged"}
                  /\ handler' = [handler EXCEPT ![h] = [pc |-> "write", data |-> blob,
                                                         copy |-> [@.copy EXCEPT !.key = TRUE]]]
               \/ Ends(h)
            /\ UNCHANGED <<row, objects, clock, parked, calls, crashes, history>>
(* reparse_bytes: what it refuses leaves the row as it is. *)
Parse(h) == /\ At(h, "parse")
            /\ \/ /\ blob = "good"
                  /\ Takes(h, "cache", blob)
               \/ Ends(h)
            /\ UNCHANGED <<row, objects, clock, parked, calls, crashes, history>>

-----------------------------------------------------------------------------
(* Steps on the row.  save is an UPDATE that raises when no row matches. *)
Verdict(status) == IF status \in {"ready", "refused"} THEN status ELSE verdict
Saves(h) == /\ At(h, "save") \/ At(h, "mark")
            /\ IF At(h, "mark") THEN Goto(h, "run") ELSE Ends(h)
            /\ row' = handler[h].copy
            /\ verdict' = Verdict(handler[h].copy.status)
            /\ stray' = (stray \/ LostKey(handler[h].copy))
            /\ UNCHANGED <<objects, clock, parked, calls, crashes, cut>>
SaveRaises(h) == /\ At(h, "save") \/ At(h, "mark")
                 /\ ~Live /\ Ends(h)
                 /\ UNCHANGED <<row, objects, clock, parked, calls, crashes, history>>
SaveUpserts(h) == Saves(h)
Save(h) == \/ Live /\ Saves(h)
           \/ SaveRaises(h)

StampWhole(h) == /\ At(h, "stamp") /\ Live /\ Ends(h)
                 /\ row' = [handler[h].copy EXCEPT !.key = TRUE]
                 /\ UNCHANGED <<objects, clock, parked, calls, crashes, history>>
(* update_extraction_state names the columns it changes. *)
Stamp(h) == /\ At(h, "stamp") /\ Ends(h)
            /\ row' = IF Live THEN [row EXCEPT !.key = TRUE] ELSE row
            /\ UNCHANGED <<objects, clock, parked, calls, crashes, history>>

-----------------------------------------------------------------------------
(* Removal: parts, original, the text if the copy has its key, the row.
   Deleting what is not there is no error. *)
RowFirst(h) == /\ At(h, "parts") /\ part' = "none" /\ Goto(h, "blob")
               /\ row' = NoRow
               /\ UNCHANGED <<blob, text, clock, parked, calls, crashes, history>>
DelParts(h) == /\ At(h, "parts") /\ part' = "none" /\ Goto(h, "blob")
               /\ UNCHANGED <<row, blob, text, clock, parked, calls, crashes, history>>
DelMissing(h) == /\ At(h, "blob") /\ blob' = "none"
                 /\ IF blob = "none" THEN Ends(h)
                    ELSE Goto(h, IF handler[h].copy.key THEN "text" ELSE "row")
                 /\ UNCHANGED <<row, part, text, clock, parked, calls, crashes, history>>
DelBlob(h) == /\ At(h, "blob") /\ blob' = "none"
              /\ Goto(h, IF handler[h].copy.key THEN "text" ELSE "row")
              /\ UNCHANGED <<row, part, text, clock, parked, calls, crashes, history>>
DelText(h) == /\ At(h, "text") /\ text' = "none" /\ Goto(h, "row")
              /\ cut' = TRUE
              /\ UNCHANGED <<row, blob, part, clock, parked, calls, crashes, verdict, stray>>
DelRow(h) == /\ At(h, "row") /\ row' = NoRow /\ Ends(h)
             /\ UNCHANGED <<objects, clock, parked, calls, crashes, history>>

(* The MinIO adapter suppresses whatever goes wrong in a deletion. *)
Swallow(h) == /\ handler[h].pc \in {"parts", "blob", "text"}
              /\ Goto(h, CASE At(h, "parts") -> "blob"
                           [] At(h, "blob") /\ handler[h].copy.key -> "text"
                           [] OTHER -> "row")
              /\ stray' = TRUE
              /\ UNCHANGED <<row, objects, clock, parked, calls, crashes, verdict, cut>>

(* h has written a text and is about to name it in the row. *)
Names(h) == At(h, "stamp") \/ (At(h, "save") /\ handler[h].copy.key)

(* A worker dies, or a store or the database raises; the copy is lost. *)
Crash(h) == /\ h \in Busy /\ crashes < MaxCrashes
            /\ crashes' = crashes + 1 /\ Ends(h)
            /\ stray' = (stray \/ (Names(h) /\ ~row.key))
            /\ UNCHANGED <<row, objects, clock, parked, calls, verdict, cut>>

TicketEnds == /\ ~ticketOver /\ ticketOver' = TRUE
              /\ UNCHANGED <<row, objects, expired, parked, handler, calls, crashes, history>>
Expire == /\ ~expired /\ expired' = TRUE
          /\ UNCHANGED <<row, objects, ticketOver, parked, handler, calls, crashes, history>>

Requests(h) == \/ Upload(h) \/ Stage(h) \/ Finalize(h) \/ Complete(h) \/ Reingest(h)
               \/ Restore(h) \/ Read(h) \/ RequestIndex(h) \/ MarkIndexed(h) \/ Delete(h)
Steps(h) == \/ StagePart(h) \/ Gather(h) \/ Put(h) \/ DropParts(h) \/ WriteText(h)
            \/ Admit(h) \/ Refuse(h) \/ Mask(h) \/ ForceMask(h) \/ Parse(h)
            \/ Save(h) \/ Stamp(h)
            \/ DelParts(h) \/ DelBlob(h) \/ DelText(h) \/ DelRow(h)
            \/ Swallow(h)
Next == \/ \E h \in Clients : Requests(h)
        \/ \E h \in Sweepers : Sweep(h)
        \/ \E h \in Handlers : Steps(h) \/ Crash(h)
        \/ TicketPut \/ TicketEnds \/ Expire
Spec == Init /\ [][Next]_vars
(* Time passes and retention runs again and again; clients owe nothing. *)
FairSpec == /\ Spec /\ WF_vars(Expire)
            /\ \A h \in Sweepers : WF_vars(Sweep(h)) /\ WF_vars(Steps(h))

-----------------------------------------------------------------------------
(* The attachment keeps the promise of UploadLifecycle, whoever saves an old copy: the
   handlers that still hold one of a removed row, the pipeline above all, find
   nothing to update; it is ready only by an admission, and with a text. *)
U == INSTANCE UploadLifecycle WITH status <- row.status, named <- row.key, text <- text # "none"
UploadSpec == U!Spec

(* A row is ready only if the last verdict that was saved says so: uploads,
   lazy reads and indexing that finish late do not turn the refusal of a later
   scan into readiness. *)
VerdictStands == row.status = "ready" => verdict = "ready"

(* A row that names a derived text has one, however handlers crash between
   the store and the row, until a removal begins to take things away. *)
KeyHasText == row.key => text # "none" \/ cut

(* When the row is gone nothing of the attachment is left in the store but
   for the ways that stray records: removals that failed half-way and were
   repeated, by whomever, leave nothing. *)
NothingLeft == (~Live /\ ~stray) => blob = "none" /\ part = "none" /\ text = "none"

(* An expired attachment is reclaimed in the end, whatever failed on the way
   and whoever still works on it. *)
Reclaimed == <>~Live

-----------------------------------------------------------------------------
(* A copy is of a live row, and names a text only when it is there or is
   about to be written. *)
CopyOK(s) ==
  /\ s.pc # "idle" => s.copy.status # "gone"
  /\ s.pc \in {"write", "cache"} => s.data # "none"
  /\ s.pc \in {"mask", "write"} => s.copy.key
  /\ (s.pc = "stamp" \/ (s.copy.key /\ s.pc # "write")) => text # "none" \/ cut
(* A text that no row names is about to be named. *)
Unnamed == (Live /\ ~row.key /\ text # "none" /\ ~stray) => \E h \in Handlers : Names(h)
(* What a removal has passed stays away. *)
RemovalOK(s) ==
  ~stray => /\ s.pc \in {"blob", "text", "row"} => part = "none"
            /\ s.pc \in {"text", "row"} => blob = "none"
            /\ (s.pc = "row" \/ (s.pc \in Removing /\ ~s.copy.key)) => text = "none"

(* The inductive invariant. *)
IInv == /\ TypeOK /\ VerdictStands /\ KeyHasText /\ NothingLeft /\ Unnamed
        /\ \A h \in Handlers : CopyOK(handler[h]) /\ RemovalOK(handler[h])
=============================================================================
