-------------------------- MODULE AttachmentProofs --------------------------
(***************************************************************************)
(* Proofs about Attachment, for any clients and sweepers and however many  *)
(* requests and crashes: its invariant is inductive.  Steps that touch     *)
(* neither the row nor the store share the lemma Quiet, those that put     *)
(* objects the lemma Puts.  SaveMoves and UploadMoves say which moves of   *)
(* UploadLifecycle the steps make.                                         *)
(***************************************************************************)
EXTENDS Attachment, TLAPS

LEMMA Rows ==
  /\ NoRow \in Row /\ Created \in Row /\ Idle \in Handler
  /\ \A status \in Statuses : row \in Row => With(status) \in Row
  BY DEF NoRow, Created, AcceptsUpload, UsableForTurn, Row, Idle, Handler, With, Statuses, Places, Removing, Objects

LEMMA InitOK == Init => IInv
  <1> SUFFICES ASSUME Init PROVE IInv
    OBVIOUS
  <1> USE DEF Init
  <1>1. TypeOK
    BY Rows DEF TypeOK, Objects
  <1>2. VerdictStands /\ KeyHasText /\ NothingLeft /\ Unnamed
    BY DEF VerdictStands, KeyHasText, NothingLeft, Unnamed, Created, NoRow
  <1>3. \A h \in Handlers : CopyOK(handler[h]) /\ RemovalOK(handler[h])
    BY DEF CopyOK, RemovalOK, Idle, NoRow, Removing
  <1> QED
    BY <1>1, <1>2, <1>3 DEF IInv

(* h comes to stand at n; neither the row nor the store is touched. *)
LEMMA Quiet ==
  ASSUME IInv, TypeOK', NEW h \in Handlers, NEW n \in Handler,
         handler' = [handler EXCEPT ![h] = n],
         UNCHANGED <<row, objects, history>>,
         n.pc \notin Removing, CopyOK(n), ~Names(h) \/ ~Live
  PROVE  IInv'
  <1> USE DEF IInv, TypeOK, objects, history
  <1>1. handler'[h] = n /\ \A g \in Handlers \ {h} : handler'[g] = handler[g]
    OBVIOUS
  <1>2. VerdictStands' /\ KeyHasText' /\ NothingLeft'
    BY DEF VerdictStands, KeyHasText, NothingLeft, Live
  <1>3. Unnamed'
    BY <1>1 DEF Unnamed, Live, Names, At
  <1>4. ASSUME NEW g \in Handlers PROVE CopyOK(handler[g])' /\ RemovalOK(handler[g])'
    <2>1. CASE g = h
      BY <1>1, <2>1 DEF CopyOK, RemovalOK, Removing
    <2>2. CASE g # h
      BY <1>1, <2>2 DEF CopyOK, RemovalOK
    <2> QED
      BY <2>1, <2>2
  <1> QED
    BY <1>2, <1>3, <1>4

(* h, or the client by its ticket, puts parts or the original. *)
LEMMA Puts ==
  ASSUME IInv, TypeOK', UNCHANGED <<row, text, verdict, cut>>,
         stray' = (stray \/ Overlap),
         \A g \in Handlers : \/ handler'[g] = handler[g]
                             \/ /\ handler'[g].pc \notin Removing
                                /\ CopyOK(handler'[g]) /\ ~Names(g)
  PROVE  IInv'
  <1> USE DEF IInv, TypeOK
  <1>1. VerdictStands' /\ KeyHasText' /\ NothingLeft' /\ Unnamed'
    BY DEF VerdictStands, KeyHasText, NothingLeft, Unnamed, Live, Overlap, Names, At
  <1>2. ASSUME NEW g \in Handlers PROVE CopyOK(handler[g])' /\ RemovalOK(handler[g])'
    <2>1. CopyOK(handler[g])'
      BY DEF CopyOK
    <2>2. ASSUME ~stray' PROVE handler[g].pc \notin Removing
      BY <2>2 DEF Overlap, Removers, Busy, Removing
    <2>3. RemovalOK(handler[g])'
      BY <2>2 DEF RemovalOK, Removing
    <2> QED
      BY <2>1, <2>3
  <1> QED
    BY <1>1, <1>2

(* The types of the successor state. *)
LEMMA TypeStep == TypeOK /\ [Next]_vars => TypeOK'
  <1> SUFFICES ASSUME TypeOK, [Next]_vars PROVE TypeOK'
    OBVIOUS
  <1> USE DEF TypeOK, objects, clock, history
  <1>1. CASE UNCHANGED vars
    BY <1>1 DEF vars
  <1>2. ASSUME NEW h \in Clients, Requests(h) PROVE TypeOK'
    <2> HIDE DEF TypeOK
    <2>1. ASSUME NEW pc \in Places, NEW copy \in Row, NEW data \in Objects,
                 Begin(h, pc, copy, data), parked' \in BOOLEAN, stray' \in BOOLEAN
          PROVE  TypeOK'
      <3>1. [pc |-> pc, copy |-> copy, data |-> data] \in Handler
        BY DEF Handler
      <3> QED
        BY <2>1, <3>1 DEF TypeOK, Begin, Handlers
    <2>2. /\ row \in Row /\ parked \in BOOLEAN /\ stray \in BOOLEAN
          /\ \A status \in Statuses : With(status) \in Row
      BY Rows DEF TypeOK
    <2>3. /\ {"none", "good", "flagged"} \subseteq Objects /\ Contents \subseteq Objects
          /\ {"put", "part", "gather", "run", "mark", "mask", "force", "parse", "save", "parts"}
               \subseteq Places
          /\ {"uploaded", "scanning", "ready", "indexed"} \subseteq Statuses
      BY DEF Objects, Contents, Places, Removing, Statuses, AcceptsUpload, UsableForTurn
    <2>4. \A s \in Row : [s EXCEPT !.injection = FALSE] \in Row
      BY DEF Row
    <2>5. CASE Upload(h) \/ Stage(h) \/ Finalize(h)
      BY <2>1, <2>2, <2>3, <2>5 DEF Upload, Stage, Finalize
    <2>6. CASE Complete(h)
      BY <2>1, <2>2, <2>3, <2>6 DEF Complete
    <2>7. CASE Reingest(h)
      BY <2>1, <2>2, <2>3, <2>4, <2>7 DEF Reingest
    <2>8. CASE Restore(h)
      BY <2>1, <2>2, <2>3, <2>4, <2>8 DEF Restore
    <2>9. CASE Read(h) \/ MarkIndexed(h) \/ Delete(h)
      BY <2>1, <2>2, <2>3, <2>9 DEF Read, MarkIndexed, Delete
    <2>10. CASE RequestIndex(h)
      BY <2>10 DEF RequestIndex, TypeOK
    <2> QED
      BY <1>2, <2>5, <2>6, <2>7, <2>8, <2>9, <2>10 DEF Requests
  <1>3. ASSUME NEW h \in Sweepers, Sweep(h) PROVE TypeOK'
    <2>1. h \in Handlers /\ [pc |-> "parts", copy |-> row, data |-> "none"] \in Handler
      BY DEF Handlers, Handler, Places, Removing, Objects
    <2> QED
      BY <1>3, <2>1 DEF Sweep
  <1>4. ASSUME NEW h \in Handlers, Steps(h) PROVE TypeOK'
    <2>1. /\ handler[h] \in Handler /\ Idle \in Handler
          /\ \A pc \in Places : [handler[h] EXCEPT !.pc = pc] \in Handler
          /\ \A pc \in Places, data \in Objects :
               [handler[h] EXCEPT !.pc = pc, !.data = data] \in Handler
      BY Rows DEF Handler
    <2>2. /\ {"join", "save", "drop", "stamp", "write", "cache", "run", "blob", "text", "row"}
               \subseteq Places
          /\ {"none", "good", "flagged"} \subseteq Objects
      BY DEF Places, Removing, Objects, Contents
    <2>3. handler[h].copy \in Row /\ handler[h].data \in Objects
      BY <2>1 DEF Handler
    <2>0. /\ \A pc \in Places : Goto(h, pc) => handler' \in [Handlers -> Handler]
          /\ \A pc \in Places, data \in Objects :
               Takes(h, pc, data) => handler' \in [Handlers -> Handler]
          /\ Ends(h) => handler' \in [Handlers -> Handler]
      BY <2>1 DEF Goto, Takes, Ends
    <2>4. CASE StagePart(h) \/ Gather(h)
      BY <2>2, <2>3, <2>4, <2>0 DEF StagePart, Gather
    <2>12. CASE Put(h) \/ DropParts(h) \/ WriteText(h)
      BY <2>2, <2>3, <2>12, <2>0 DEF Put, DropParts, WriteText
    <2>5. CASE Admit(h)
      <3>1. [pc |-> "write", data |-> blob,
             copy |-> [status |-> "ready", key |-> TRUE, injection |-> FALSE]] \in Handler
        BY <2>2 DEF Handler, Row, Statuses, UsableForTurn
      <3> QED
        BY <2>5, <3>1 DEF Admit
    <2>6. CASE Refuse(h)
      <3>1. \A injection \in {FALSE, blob = "flagged"} :
              [pc |-> "save", data |-> "none",
               copy |-> [status |-> "refused", key |-> handler[h].copy.key,
                         injection |-> injection]] \in Handler
        BY <2>2, <2>3 DEF Handler, Row, Statuses
      <3> QED
        BY <2>6, <3>1 DEF Refuse
    <2>7. CASE Mask(h) \/ Parse(h)
      BY <2>2, <2>7, <2>0 DEF Mask, Parse
    <2>8. CASE ForceMask(h)
      <3>1. [pc |-> "write", data |-> blob,
             copy |-> [handler[h].copy EXCEPT !.key = TRUE]] \in Handler
        BY <2>1, <2>2, <2>3 DEF Handler, Row
      <3> QED
        BY <2>8, <2>0, <3>1 DEF ForceMask
    <2>9. CASE Save(h)
      BY <2>2, <2>3, <2>9, <2>0 DEF Save, Saves, SaveRaises, Verdict
    <2>10. CASE Stamp(h)
      BY <2>10, <2>0 DEF Stamp, Row
    <2>11. CASE DelParts(h) \/ DelBlob(h) \/ DelText(h) \/ DelRow(h)
      BY <2>2, <2>11, <2>0, Rows DEF DelParts, DelBlob, DelText, DelRow
    <2>13. CASE Swallow(h)
      BY <2>2, <2>13, <2>0 DEF Swallow
    <2> QED
      BY <1>4, <2>4, <2>5, <2>6, <2>7, <2>8, <2>9, <2>10, <2>11, <2>12, <2>13 DEF Steps
  <1>5. ASSUME NEW h \in Handlers, Crash(h) PROVE TypeOK'
    BY <1>5, Rows DEF Crash, Ends
  <1>6. CASE TicketPut \/ TicketEnds \/ Expire
    BY <1>6 DEF TicketPut, TicketEnds, Expire, Objects
  <1> QED
    BY <1>1, <1>2, <1>3, <1>4, <1>5, <1>6 DEF Next

-----------------------------------------------------------------------------
(* A request begins that is no deletion. *)
LEMMA Begins ==
  ASSUME IInv, TypeOK', NEW h \in Handlers,
         NEW pc \in Places \ Removing, NEW copy \in Row, NEW data \in Objects,
         Begin(h, pc, copy, data), UNCHANGED stray,
         pc \notin {"write", "cache", "stamp"}, pc = "mask" => copy.key,
         copy.status # "gone", copy.key => row.key
  PROVE  IInv'
  <1> DEFINE n == [pc |-> pc, copy |-> copy, data |-> data]
  <1>1. n \in Handler /\ CopyOK(n) /\ n.pc \notin Removing
    BY DEF Handler, CopyOK, IInv, KeyHasText
  <1>2. ~Names(h)
    BY DEF Begin, Names, At
  <1> QED
    BY <1>1, <1>2, Quiet DEF Begin, history

(* A removal begins, at the owner's wish or by retention. *)
LEMMA Removes ==
  ASSUME IInv, TypeOK', NEW h \in Handlers, At(h, "idle"), Live,
         handler' = [handler EXCEPT ![h] = [pc |-> "parts", copy |-> row, data |-> "none"]],
         stray' = (stray \/ Busy \ Removers # {}),
         UNCHANGED <<row, objects, verdict, cut>>
  PROVE  IInv'
  <1> USE DEF IInv, TypeOK, objects
  <1>1. ASSUME ~stray', ~row.key PROVE text = "none"
    <2>1. \A g \in Handlers : ~Names(g)
      BY <1>1 DEF Names, At, Busy, Removers, Removing
    <2> QED
      BY <1>1, <2>1 DEF Unnamed
  <1>2. VerdictStands' /\ KeyHasText' /\ NothingLeft' /\ Unnamed'
    BY <1>1 DEF VerdictStands, KeyHasText, NothingLeft, Unnamed, Live
  <1>3. ASSUME NEW g \in Handlers PROVE CopyOK(handler[g])' /\ RemovalOK(handler[g])'
    <2>1. CASE g = h
      BY <1>1, <2>1 DEF CopyOK, RemovalOK, KeyHasText, Live
    <2>2. CASE g # h
      BY <2>2 DEF CopyOK, RemovalOK
    <2> QED
      BY <2>1, <2>2
  <1> QED
    BY <1>2, <1>3

LEMMA RequestStep ==
  ASSUME IInv, TypeOK', NEW h \in Clients, Requests(h)
  PROVE  IInv'
  <1>1. h \in Handlers /\ row \in Row
    BY DEF Handlers, IInv, TypeOK
  <1>2. /\ {"none", "good", "flagged"} \subseteq Objects /\ Contents \subseteq Objects
        /\ {"put", "part", "gather", "run", "mark", "mask", "force", "parse", "save"}
             \subseteq Places \ Removing
    BY DEF Objects, Contents, Places, Removing
  <1>3. \A status \in {"uploaded", "scanning", "ready", "indexed"} :
          /\ With(status) \in Row /\ With(status).status = status
          /\ With(status).key = row.key
          /\ [With(status) EXCEPT !.injection = FALSE] \in Row
          /\ [With(status) EXCEPT !.injection = FALSE].status = status
          /\ [With(status) EXCEPT !.injection = FALSE].key = row.key
    BY <1>1 DEF With, Row, Statuses, AcceptsUpload, UsableForTurn
  <1>4. \A pc \in Places, copy \in Row, data \in Objects : Begin(h, pc, copy, data) => Live
    BY DEF Begin
  <1>5. CASE Upload(h) \/ Stage(h) \/ Finalize(h)
    BY <1>1, <1>2, <1>3, <1>5, Begins DEF Upload, Stage, Finalize, AcceptsUpload
  <1>6. CASE Complete(h)
    BY <1>1, <1>2, <1>3, <1>6, Begins DEF Complete
  <1>7. CASE Reingest(h)
    BY <1>1, <1>2, <1>3, <1>7, Begins DEF Reingest
  <1>8. CASE Restore(h)
    BY <1>1, <1>2, <1>3, <1>8, Begins DEF Restore
  <1>9. CASE Read(h)
    BY <1>1, <1>2, <1>9, Begins DEF Read, UsableForTurn
  <1>10. CASE MarkIndexed(h)
    BY <1>1, <1>2, <1>3, <1>10, Begins DEF MarkIndexed
  <1>11. CASE Delete(h)
    BY <1>1, <1>11, Removes DEF Delete, Begin
  <1>12. CASE RequestIndex(h)
    BY <1>1, <1>12 DEF RequestIndex, objects, history, IInv, VerdictStands, KeyHasText,
       NothingLeft, Unnamed, Live, Names, At, CopyOK, RemovalOK
  <1> QED
    BY <1>5, <1>6, <1>7, <1>8, <1>9, <1>10, <1>11, <1>12 DEF Requests

-----------------------------------------------------------------------------
(* Steps on the store that leave the row and the text alone. *)
LEMMA ObjectStep ==
  ASSUME IInv, TypeOK', NEW h \in Handlers,
         StagePart(h) \/ Gather(h) \/ Put(h) \/ DropParts(h)
  PROVE  IInv'
  <1> USE DEF IInv, TypeOK, objects, clock, history
  <1>1. handler[h] \in Handler /\ CopyOK(handler[h]) /\ CopyOK(Idle) /\ Idle \in Handler
    BY Rows DEF CopyOK, Idle, NoRow
  <1>2. CASE StagePart(h)
    BY <1>1, <1>2, Puts DEF StagePart, Ends, At, Names, Idle, Removing
  <1>3. CASE Gather(h)
    <2>1. CASE part = "none"
      BY <1>1, <1>3, <2>1, Quiet DEF Gather, Ends, At, Names, Idle, Removing
    <2>2. CASE part # "none"
      <3> DEFINE n == [handler[h] EXCEPT !.pc = "join", !.data = part]
      <3>1. n \in Handler /\ CopyOK(n) /\ n.pc \notin Removing
        BY <1>1, <1>3 DEF Gather, At, Handler, CopyOK, Places, Removing
      <3> QED
        BY <1>3, <2>2, <3>1, Quiet DEF Gather, Takes, At, Names
    <2> QED
      BY <2>1, <2>2
  <1>4. CASE Put(h)
    BY <1>1, <1>4, Puts DEF Put, Goto, At, Names, CopyOK, Handler, Removing
  <1>5. CASE DropParts(h)
    <2>1. /\ handler'[h] = [handler[h] EXCEPT !.pc = "save"]
          /\ \A g \in Handlers \ {h} : handler'[g] = handler[g]
      BY <1>5 DEF DropParts, Goto
    <2>2. VerdictStands' /\ KeyHasText' /\ NothingLeft'
      BY <1>5 DEF DropParts, VerdictStands, KeyHasText, NothingLeft, Live
    <2>3. Unnamed'
      BY <1>5, <2>1 DEF DropParts, Unnamed, Live, Names, At
    <2>4. ASSUME NEW g \in Handlers PROVE CopyOK(handler[g])' /\ RemovalOK(handler[g])'
      <3>1. CASE g = h
        BY <1>1, <1>5, <2>1, <3>1 DEF DropParts, At, Handler, CopyOK, RemovalOK, Removing
      <3>2. CASE g # h
        BY <1>5, <2>1, <3>2 DEF DropParts, CopyOK, RemovalOK
      <3> QED
        BY <3>1, <3>2
    <2> QED
      BY <2>2, <2>3, <2>4
  <1> QED
    BY <1>2, <1>3, <1>4, <1>5

(* The text is written: its writer is now the one who will name it. *)
LEMMA TextStep ==
  ASSUME IInv, TypeOK', NEW h \in Handlers, WriteText(h)
  PROVE  IInv'
  <1> USE DEF IInv, TypeOK, WriteText
  <1>1. /\ handler'[h] = [handler[h] EXCEPT !.pc = IF At(h, "write") THEN "save" ELSE "stamp"]
        /\ \A g \in Handlers \ {h} : handler'[g] = handler[g]
    BY DEF Goto
  <1>2. text' # "none" /\ handler[h] \in Handler
    BY DEF CopyOK, At
  <1>3. VerdictStands' /\ KeyHasText' /\ NothingLeft'
    BY <1>2 DEF VerdictStands, KeyHasText, NothingLeft, Live, Overlap
  <1>4. Names(h)'
    BY <1>1, <1>2 DEF CopyOK, Names, At, Handler
  <1>5. Unnamed'
    BY <1>4 DEF Unnamed
  <1>6. ASSUME ~stray', NEW g \in Handlers PROVE handler'[g].pc \notin Removing
    BY <1>1, <1>2, <1>6 DEF Overlap, Removers, Busy, Removing, At, Handler
  <1>7. ASSUME NEW g \in Handlers PROVE CopyOK(handler[g])' /\ RemovalOK(handler[g])'
    <2>1. RemovalOK(handler[g])'
      BY <1>6 DEF RemovalOK, Removing
    <2>2. CASE g = h
      BY <1>1, <1>2, <2>1, <2>2 DEF CopyOK, At, Handler
    <2>3. CASE g # h
      BY <1>1, <1>2, <2>1, <2>3 DEF CopyOK
    <2> QED
      BY <2>2, <2>3
  <1> QED
    BY <1>3, <1>5, <1>7

(* The pipeline, restore and lazy reads, between the store and the row. *)
LEMMA PipelineStep ==
  ASSUME IInv, TypeOK', NEW h \in Handlers,
         Admit(h) \/ Refuse(h) \/ Mask(h) \/ ForceMask(h) \/ Parse(h)
  PROVE  IInv'
  <1> USE DEF IInv, TypeOK, history
  <1>1. handler[h] \in Handler /\ CopyOK(handler[h]) /\ CopyOK(Idle) /\ Idle \in Handler
    BY Rows DEF CopyOK, Idle, NoRow
  <1>2. CASE Ends(h) /\ UNCHANGED <<row, objects, history>> /\ ~Names(h)
    BY <1>1, <1>2, Quiet DEF Ends, Idle, Removing
  <1>3. CASE Admit(h)
    <2> DEFINE n == [pc |-> "write", data |-> blob,
                     copy |-> [status |-> "ready", key |-> TRUE, injection |-> FALSE]]
    <2>1. n \in Handler /\ CopyOK(n) /\ n.pc \notin Removing
      BY <1>3 DEF Admit, Handler, CopyOK, Places, Removing, Row, Statuses, UsableForTurn
    <2> QED
      BY <1>3, <2>1, Quiet DEF Admit, Names, At
  <1>4. CASE Refuse(h)
    <2> DEFINE n(injection) == [pc |-> "save", data |-> "none",
                  copy |-> [status |-> "refused", key |-> handler[h].copy.key,
                            injection |-> injection]]
    <2>1. ASSUME NEW injection \in {FALSE, blob = "flagged"}
          PROVE n(injection) \in Handler /\ CopyOK(n(injection)) /\ n(injection).pc \notin Removing
      BY <1>1, <1>4 DEF Refuse, At, Handler, CopyOK, Places, Removing, Row, Statuses, Objects
    <2>2. PICK injection \in {FALSE, blob = "flagged"} :
            handler' = [handler EXCEPT ![h] = n(injection)]
      BY <1>4 DEF Refuse
    <2>3. UNCHANGED <<row, objects, history>> /\ ~Names(h)
      BY <1>4 DEF Refuse, Names, At
    <2> QED
      BY <2>1, <2>2, <2>3, Quiet
  <1>5. CASE Mask(h)
    <2>1. CASE text = "none"
      BY <1>2, <1>5, <2>1 DEF Mask, Names, At
    <2>2. CASE text # "none"
      <3> DEFINE n == [handler[h] EXCEPT !.pc = "write", !.data = text]
      <3>1. n \in Handler /\ CopyOK(n) /\ n.pc \notin Removing
        BY <1>1, <1>5, <2>2 DEF Mask, At, Handler, CopyOK, Places, Removing
      <3> QED
        BY <1>5, <2>2, <3>1, Quiet DEF Mask, Takes, Names, At
    <2> QED
      BY <2>1, <2>2
  <1>6. CASE ForceMask(h)
    <2>1. CASE Ends(h)
      BY <1>2, <1>6, <2>1 DEF ForceMask, Names, At
    <2>2. CASE ~Ends(h)
      <3> DEFINE n == [pc |-> "write", data |-> blob,
                       copy |-> [handler[h].copy EXCEPT !.key = TRUE]]
      <3>1. n \in Handler /\ CopyOK(n) /\ n.pc \notin Removing
        BY <1>1, <1>6, <2>2 DEF ForceMask, At, Handler, CopyOK, Places, Removing, Row
      <3> QED
        BY <1>6, <2>2, <3>1, Quiet DEF ForceMask, Names, At
    <2> QED
      BY <2>1, <2>2
  <1>7. CASE Parse(h)
    <2>1. CASE Ends(h)
      BY <1>2, <1>7, <2>1 DEF Parse, Names, At
    <2>2. CASE ~Ends(h)
      <3> DEFINE n == [handler[h] EXCEPT !.pc = "cache", !.data = blob]
      <3>1. n \in Handler /\ CopyOK(n) /\ n.pc \notin Removing
        BY <1>1, <1>7, <2>2 DEF Parse, At, Handler, CopyOK, Places, Removing
      <3> QED
        BY <1>7, <2>2, <3>1, Quiet DEF Parse, Takes, Names, At
    <2> QED
      BY <2>1, <2>2
  <1> QED
    BY <1>3, <1>4, <1>5, <1>6, <1>7

-----------------------------------------------------------------------------
(* Steps on the row. *)
LEMMA RowStep ==
  ASSUME IInv, TypeOK', NEW h \in Handlers, Save(h) \/ Stamp(h)
  PROVE  IInv'
  <1> USE DEF IInv, TypeOK, objects, history
  <1>1. /\ handler[h] \in Handler /\ CopyOK(handler[h])
        /\ Idle \in Handler /\ CopyOK(Idle) /\ RemovalOK(Idle)'
    BY Rows DEF CopyOK, RemovalOK, Idle, NoRow, Removing
  <1>2. CASE SaveRaises(h)
    BY <1>1, <1>2, Quiet DEF SaveRaises, Ends, Idle, Removing
  <1>3. CASE Live /\ Saves(h)
    <2> USE DEF Saves
    <2>1. /\ handler'[h] = IF At(h, "mark") THEN [handler[h] EXCEPT !.pc = "run"] ELSE Idle
          /\ \A g \in Handlers \ {h} : handler'[g] = handler[g]
      BY <1>3 DEF Goto, Ends
    <2>2. VerdictStands' /\ NothingLeft' /\ KeyHasText'
      BY <1>1, <1>3 DEF VerdictStands, NothingLeft, KeyHasText, Verdict, Live, CopyOK, At
    <2>3. Unnamed'
      <3> SUFFICES ASSUME ~row'.key, text # "none", ~stray'
                   PROVE  \E g \in Handlers : Names(g)'
        BY <1>3 DEF Unnamed
      <3>1. PICK g \in Handlers : Names(g)
        BY <1>3 DEF Unnamed, LostKey
      <3>2. g # h
        BY <1>3, <3>1 DEF Names, At
      <3> QED
        BY <2>1, <3>1, <3>2 DEF Names, At
    <2>4. ASSUME NEW g \in Handlers PROVE CopyOK(handler[g])' /\ RemovalOK(handler[g])'
      <3>1. CASE g = h
        BY <1>1, <1>3, <2>1, <3>1 DEF At, Handler, CopyOK, RemovalOK, Removing
      <3>2. CASE g # h
        BY <1>3, <2>1, <3>2 DEF CopyOK, RemovalOK
      <3> QED
        BY <3>1, <3>2
    <2> QED
      BY <2>2, <2>3, <2>4
  <1>4. CASE Stamp(h)
    <2> USE DEF Stamp
    <2>1. handler'[h] = Idle /\ \A g \in Handlers \ {h} : handler'[g] = handler[g]
      BY <1>4 DEF Ends
    <2>2. /\ row'.status = row.status
          /\ IF Live THEN row'.key = TRUE ELSE row' = row
      BY <1>4 DEF Row, Live
    <2>3. VerdictStands' /\ NothingLeft' /\ KeyHasText' /\ Unnamed'
      BY <1>1, <1>4, <2>2 DEF VerdictStands, NothingLeft, KeyHasText, Unnamed, Live, CopyOK, At
    <2>4. ASSUME NEW g \in Handlers PROVE CopyOK(handler[g])' /\ RemovalOK(handler[g])'
      <3>1. CASE g = h
        BY <1>1, <1>4, <2>1, <3>1 DEF CopyOK, Idle, NoRow
      <3>2. CASE g # h
        BY <1>4, <2>1, <3>2 DEF CopyOK, RemovalOK
      <3> QED
        BY <3>1, <3>2
    <2> QED
      BY <2>3, <2>4
  <1> QED
    BY <1>2, <1>3, <1>4 DEF Save

(* A removal takes the objects one by one, and the row last. *)
LEMMA RemovalStep ==
  ASSUME IInv, TypeOK', NEW h \in Handlers,
         DelParts(h) \/ DelBlob(h) \/ DelText(h) \/ DelRow(h)
  PROVE  IInv'
  <1> USE DEF IInv, TypeOK, objects, history
  <1>1. /\ handler[h] \in Handler /\ CopyOK(handler[h]) /\ RemovalOK(handler[h])
        /\ handler[h].pc \in Removing /\ ~Names(h)
    BY DEF DelParts, DelBlob, DelText, DelRow, At, Names, Removing
  <1>2. UNCHANGED stray /\ \A g \in Handlers \ {h} : handler'[g] = handler[g]
    BY DEF DelParts, DelBlob, DelText, DelRow, Goto, Ends
  <1>3. /\ part' \in {part, "none"} /\ blob' \in {blob, "none"} /\ text' \in {text, "none"}
        /\ text' = text \/ cut'
        /\ row' = row \/ (row' = NoRow /\ At(h, "row") /\ UNCHANGED objects)
        /\ verdict' = verdict /\ (cut => cut')
    BY DEF DelParts, DelBlob, DelText, DelRow
  <1>4. VerdictStands' /\ KeyHasText'
    BY <1>3 DEF VerdictStands, KeyHasText, NoRow
  <1>5. NothingLeft'
    BY <1>1, <1>2, <1>3 DEF NothingLeft, Live, NoRow, RemovalOK, Removing, At
  <1>6. Unnamed'
    BY <1>1, <1>2, <1>3 DEF Unnamed, Names, At, Live, NoRow
  <1>7. CopyOK(handler[h])' /\ RemovalOK(handler[h])'
    <2>1. CASE DelParts(h)
      BY <1>1, <2>1 DEF DelParts, Goto, At, Handler, CopyOK, RemovalOK, Removing
    <2>2. CASE DelBlob(h)
      BY <1>1, <2>2 DEF DelBlob, Goto, At, Handler, CopyOK, RemovalOK, Removing
    <2>3. CASE DelText(h)
      BY <1>1, <2>3 DEF DelText, Goto, At, Handler, CopyOK, RemovalOK, Removing
    <2>4. CASE DelRow(h)
      BY <1>1, <2>4 DEF DelRow, Ends, Idle, NoRow, CopyOK, RemovalOK, Removing
    <2> QED
      BY <2>1, <2>2, <2>3, <2>4
  <1>8. ASSUME NEW g \in Handlers, g # h PROVE CopyOK(handler[g])' /\ RemovalOK(handler[g])'
    BY <1>2, <1>3, <1>8 DEF CopyOK, RemovalOK
  <1> QED
    BY <1>4, <1>5, <1>6, <1>7, <1>8

(* The store drops nothing, and says it did. *)
LEMMA SwallowStep ==
  ASSUME IInv, TypeOK', NEW h \in Handlers, Swallow(h)
  PROVE  IInv'
  <1> USE DEF IInv, TypeOK, objects, Swallow
  <1>1. \A g \in Handlers : handler'[g] = handler[g] \/ handler'[g].pc \in {"blob", "text", "row"}
    BY DEF Goto
  <1>2. VerdictStands' /\ KeyHasText' /\ NothingLeft' /\ Unnamed'
    BY DEF VerdictStands, KeyHasText, NothingLeft, Unnamed, Live
  <1>3. ASSUME NEW g \in Handlers PROVE CopyOK(handler[g])' /\ RemovalOK(handler[g])'
    BY <1>1 DEF Goto, Handler, CopyOK, RemovalOK
  <1> QED
    BY <1>2, <1>3

(* A handler is lost.  The text it had written and not named is stray. *)
LEMMA CrashStep ==
  ASSUME IInv, TypeOK', NEW h \in Handlers, Crash(h)
  PROVE  IInv'
  <1> USE DEF IInv, TypeOK, objects, Crash
  <1>1. handler'[h] = Idle /\ \A g \in Handlers \ {h} : handler'[g] = handler[g]
    BY DEF Ends
  <1>2. VerdictStands' /\ KeyHasText' /\ NothingLeft'
    BY DEF VerdictStands, KeyHasText, NothingLeft, Live
  <1>3. Unnamed'
    BY <1>1 DEF Unnamed, Live, Names, At
  <1>4. ASSUME NEW g \in Handlers PROVE CopyOK(handler[g])' /\ RemovalOK(handler[g])'
    <2>1. CASE g = h
      BY <1>1, <2>1 DEF CopyOK, RemovalOK, Idle, NoRow, Removing
    <2>2. CASE g # h
      BY <1>1, <2>2 DEF CopyOK, RemovalOK
    <2> QED
      BY <2>1, <2>2
  <1> QED
    BY <1>2, <1>3, <1>4

(* Nothing that the invariant speaks of changes but the store's original. *)
LEMMA OtherStep ==
  ASSUME IInv, TypeOK', TicketPut \/ TicketEnds \/ Expire \/ UNCHANGED vars
  PROVE  IInv'
  <1>1. CASE TicketPut
    BY <1>1, Puts DEF TicketPut
  <1>2. CASE TicketEnds \/ Expire \/ UNCHANGED vars
    BY <1>2 DEF TicketEnds, Expire, vars, objects, history, clock, IInv, TypeOK, VerdictStands,
       KeyHasText, NothingLeft, Unnamed, Live, Names, At, CopyOK, RemovalOK
  <1> QED
    BY <1>1, <1>2

LEMMA IInvStep == IInv /\ [Next]_vars => IInv'
  <1> SUFFICES ASSUME IInv, [Next]_vars PROVE IInv'
    OBVIOUS
  <1>1. TypeOK'
    BY TypeStep DEF IInv
  <1>2. ASSUME NEW h \in Sweepers, Sweep(h) PROVE IInv'
    BY <1>1, <1>2, Removes DEF Sweep, Handlers
  <1>3. ASSUME NEW h \in Handlers, Steps(h) PROVE IInv'
    BY <1>1, <1>3, ObjectStep, TextStep, PipelineStep, RowStep, RemovalStep, SwallowStep DEF Steps
  <1> QED
    BY <1>1, <1>2, <1>3, RequestStep, CrashStep, OtherStep DEF Next

-----------------------------------------------------------------------------
(* The inductive invariant holds in every reachable state. *)
THEOREM InvariantHolds == Spec => []IInv
  <1> QED
    BY InitOK, IInvStep, PTL DEF Spec

(* A ready row has the last verdict of the scans behind it, whoever's copy of
   the row was saved in between. *)
THEOREM VerdictStandsAlways == Spec => []VerdictStands
  <1>1. IInv => VerdictStands
    BY DEF IInv
  <1> QED
    BY <1>1, InvariantHolds, PTL

(* A key in the row finds its text until a removal takes it. *)
THEOREM TextIsThere == Spec => []KeyHasText
  <1>1. IInv => KeyHasText
    BY DEF IInv
  <1> QED
    BY <1>1, InvariantHolds, PTL

(* A removed row leaves nothing behind but in the ways that stray names. *)
THEOREM NothingIsLeft == Spec => []NothingLeft
  <1>1. IInv => NothingLeft
    BY DEF IInv
  <1> QED
    BY <1>1, InvariantHolds, PTL

(* No handler that holds a copy of a removed row brings it back. *)
THEOREM GoneStays == Spec => [][~Live => ~Live']_vars
  <1>1. ASSUME [Next]_vars, ~Live PROVE ~Live'
    <2>1. CASE UNCHANGED vars
      BY <1>1, <2>1 DEF vars, Live
    <2>2. ASSUME NEW h \in Clients, Requests(h) PROVE ~Live'
      BY <1>1, <2>2 DEF Requests, Upload, Stage, Finalize, Complete, Reingest, Restore, Read,
         RequestIndex, MarkIndexed, Delete, Begin, Live
    <2>3. ASSUME NEW h \in Sweepers, Sweep(h) PROVE ~Live'
      BY <1>1, <2>3 DEF Sweep
    <2>4. ASSUME NEW h \in Handlers, Steps(h) \/ Crash(h) PROVE ~Live'
      BY <1>1, <2>4 DEF Steps, StagePart, Gather, Put, DropParts, WriteText, Admit, Refuse, Mask,
         ForceMask, Parse, Save, Saves, SaveRaises, Stamp, DelParts, DelBlob, DelText, DelRow,
         Swallow, Crash, Live, NoRow
    <2>5. CASE TicketPut \/ TicketEnds \/ Expire
      BY <1>1, <2>5 DEF TicketPut, TicketEnds, Expire, Live
    <2> QED
      BY <1>1, <2>1, <2>2, <2>3, <2>4, <2>5 DEF Next
  <1>2. [Next]_vars => [~Live => ~Live']_vars
    BY <1>1
  <1> QED
    BY <1>2, PTL DEF Spec

-----------------------------------------------------------------------------
(* Attachment implements UploadLifecycle.  What a handler will save follows from where it
   stands: only a copy that was admitted has the status ready, and it names the
   text that was written first; none has the status that an attachment is new by. *)
Saving(s) ==
  /\ s.pc \in {"put", "gather", "join", "drop"} => s.copy.status = "uploaded"
  /\ s.pc \in {"mark", "run"} => s.copy.status = "scanning"
  /\ s.pc \in {"force", "mask", "write"} => s.copy.status = "ready"
  /\ s.pc = "save" => /\ s.copy.status # "pending"
                      /\ s.copy.status = "ready" => s.copy.key
Copies == /\ \A h \in Handlers : Saving(handler[h])
          /\ row.status = "ready" => row.key

LEMMA CopiesKept == IInv /\ Copies /\ [Next]_vars => Copies'
  <1> SUFFICES ASSUME IInv, Copies, [Next]_vars PROVE Copies'
    OBVIOUS
  <1> USE DEF IInv, TypeOK, Copies
  <1>1. Saving(Idle)
    BY DEF Saving, Idle
  <1>2. ASSUME NEW h \in Handlers, NEW n, Saving(n), handler' = [handler EXCEPT ![h] = n],
               row' = row
        PROVE  Copies'
    BY <1>2
  <1>3. \A h \in Handlers : handler[h] \in Handler /\ Saving(handler[h]) /\ CopyOK(handler[h])
    OBVIOUS
  <1>4. ASSUME NEW h \in Clients, Requests(h) PROVE Copies'
    <2>1. h \in Handlers
      BY DEF Handlers
    <2>2. ASSUME NEW pc, NEW copy, NEW data, Begin(h, pc, copy, data),
                 Saving([pc |-> pc, copy |-> copy, data |-> data])
          PROVE  Copies'
      BY <1>2, <2>1, <2>2 DEF Begin
    <2>3. \A to \in Statuses : With(to).status = to
      BY DEF With, Row
    <2>4. {"uploaded", "scanning", "ready", "indexed"} \subseteq Statuses
      BY DEF Statuses, AcceptsUpload, UsableForTurn
    <2>5. CASE Upload(h) \/ Stage(h) \/ Finalize(h) \/ Complete(h)
      BY <2>2, <2>3, <2>4, <2>5 DEF Upload, Stage, Finalize, Complete, Saving
    <2>6. CASE Reingest(h) \/ Restore(h)
      <3>1. \A to \in Statuses : [With(to) EXCEPT !.injection = FALSE].status = to
        BY DEF With, Row
      <3> QED
        BY <2>2, <2>4, <2>6, <3>1 DEF Reingest, Restore, Saving
    <2>7. CASE Read(h) \/ MarkIndexed(h) \/ Delete(h)
      BY <2>2, <2>3, <2>4, <2>7 DEF Read, MarkIndexed, Delete, Saving
    <2>8. CASE RequestIndex(h)
      BY <2>8 DEF RequestIndex
    <2> QED
      BY <1>4, <2>5, <2>6, <2>7, <2>8 DEF Requests
  <1>5. ASSUME NEW h \in Sweepers, Sweep(h) PROVE Copies'
    <2>1. h \in Handlers /\ Saving([pc |-> "parts", copy |-> row, data |-> "none"])
      BY DEF Handlers, Saving
    <2> QED
      BY <1>2, <1>5, <2>1 DEF Sweep
  <1>6. ASSUME NEW h \in Handlers, Steps(h) \/ Crash(h) PROVE Copies'
    <2>1. \A to \in Places : Saving([handler[h] EXCEPT !.pc = to])
                               /\ row' = row /\ Goto(h, to) => Copies'
      BY <1>2 DEF Goto
    <2>2. ASSUME Ends(h), row' = row PROVE Copies'
      BY <1>1, <1>2, <2>2 DEF Ends
    <2>3. ASSUME NEW to, NEW data, Takes(h, to, data), row' = row,
                 Saving([[handler[h] EXCEPT !.pc = to] EXCEPT !.data = data])
          PROVE  Copies'
      BY <1>2, <2>3 DEF Takes
    <2>4. CASE StagePart(h) \/ Crash(h) \/ SaveRaises(h)
      BY <2>2, <2>4 DEF StagePart, Crash, SaveRaises
    <2>5. CASE Gather(h) \/ Mask(h) \/ Parse(h)
      BY <1>3, <2>2, <2>3, <2>5 DEF Gather, Mask, Parse, Saving, At, Handler
    <2>6. CASE Put(h) \/ DropParts(h) \/ WriteText(h)
      BY <1>3, <2>1, <2>6 DEF Put, DropParts, WriteText, Saving, At, Handler, Places, Removing, CopyOK
    <2>7. CASE Admit(h)
      BY <1>2, <2>7 DEF Admit, Saving
    <2>8. CASE Refuse(h)
      BY <1>2, <2>8 DEF Refuse, Saving
    <2>9. CASE ForceMask(h)
      BY <1>2, <1>3, <2>2, <2>9 DEF ForceMask, Saving, At, Handler, Row
    <2>10. CASE Saves(h)
      BY <1>1, <1>3, <2>10 DEF Saves, Saving, At, Goto, Ends, Handler
    <2>11. CASE Stamp(h)
      BY <1>1, <2>11 DEF Stamp, Ends, Row
    <2>12. CASE DelParts(h) \/ DelBlob(h) \/ DelText(h) \/ Swallow(h)
      BY <1>3, <2>1, <2>12 DEF DelParts, DelBlob, DelText, Swallow, Saving, Places, Removing, Handler, At
    <2>13. CASE DelRow(h)
      BY <1>1, <2>13 DEF DelRow, Ends, NoRow
    <2> QED
      BY <1>6, <2>4, <2>5, <2>6, <2>7, <2>8, <2>9, <2>10, <2>11, <2>12, <2>13 DEF Steps, Save
  <1>7. CASE TicketPut \/ TicketEnds \/ Expire \/ UNCHANGED vars
    BY <1>7 DEF TicketPut, TicketEnds, Expire, vars
  <1> QED
    BY <1>4, <1>5, <1>6, <1>7 DEF Next

(* A save makes one of the moves of the lifecycle, whatever happened to the row since the
   copy was read; all other steps move the text, or nothing the lifecycle sees. *)
LEMMA SaveMoves ==
  ASSUME IInv, Copies, NEW h \in Handlers, Save(h)
  PROVE  U!Next \/ UNCHANGED U!vars
  <1> DEFINE copy == handler[h].copy
  <1>1. CASE SaveRaises(h)
    BY <1>1 DEF SaveRaises, objects, history, U!vars
  <1>2. CASE Live /\ Saves(h)
    <2>1. /\ copy \in Row /\ copy.status \notin {"gone", "pending"}
          /\ copy.key => text # "none" \/ cut
          /\ copy.status = "ready" => copy.key
      BY <1>2 DEF Saves, At, IInv, TypeOK, Handler, CopyOK, Copies, Saving
    <2>2. U!Becomes(copy.status)
      BY <1>2, <2>1 DEF Saves, objects, Live, Row, U!Becomes, U!Live, U!HasText
    <2>3. verdict' = Verdict(copy.status) /\ row' = copy
      BY <1>2 DEF Saves
    <2>4. copy.status \in {"refused", "ready"} \cup U!Working
      BY <2>1 DEF Row, Statuses, AcceptsUpload, UsableForTurn, U!Working
    <2>5. CASE copy.status = "ready"
      BY <2>1, <2>2, <2>3, <2>5 DEF Verdict, U!Admit, U!Next
    <2>6. CASE copy.status = "refused"
      BY <2>2, <2>3, <2>6 DEF Verdict, U!Refuse, U!Next
    <2>7. CASE copy.status \in U!Working
      BY <2>2, <2>3, <2>7 DEF Verdict, U!WorksOn, U!Working, U!Next
    <2> QED
      BY <2>4, <2>5, <2>6, <2>7
  <1> QED
    BY <1>1, <1>2 DEF Save

LEMMA UploadMoves == IInv /\ Copies /\ [Next]_vars => [U!Next]_U!vars
  <1> SUFFICES ASSUME IInv, Copies, [Next]_vars PROVE U!Next \/ UNCHANGED U!vars
    OBVIOUS
  <1> DEFINE seen == <<row, text, cut, verdict>>
  <1>1. UNCHANGED seen => UNCHANGED U!vars
    BY DEF U!vars
  <1>2. ASSUME NEW h \in Clients, Requests(h) PROVE UNCHANGED seen
    BY <1>2 DEF Requests, Upload, Stage, Finalize, Complete, Reingest, Restore, Read,
       RequestIndex, MarkIndexed, Delete, Begin, objects, history
  <1>3. ASSUME NEW h \in Sweepers, Sweep(h) PROVE UNCHANGED seen
    BY <1>3 DEF Sweep, objects
  <1>4. ASSUME NEW h \in Handlers, WriteText(h) PROVE U!Next
    BY <1>4 DEF WriteText, At, IInv, CopyOK, U!Write, U!Next
  <1>5. ASSUME NEW h \in Handlers, Stamp(h) PROVE U!Next \/ UNCHANGED U!vars
    <2>1. CASE Live
      BY <1>5, <2>1 DEF Stamp, At, IInv, TypeOK, Row, CopyOK, objects, history, Live,
         U!Name, U!Next, U!Live, U!HasText
    <2>2. CASE ~Live
      BY <1>5, <2>2 DEF Stamp, objects, history, U!vars
    <2> QED
      BY <2>1, <2>2
  <1>6. ASSUME NEW h \in Handlers, DelText(h) PROVE U!Next
    BY <1>6 DEF DelText, U!Cut, U!Next
  <1>7. ASSUME NEW h \in Handlers, DelRow(h) PROVE U!Next
    BY <1>7 DEF DelRow, NoRow, objects, history, U!Remove, U!Next
  <1>8. ASSUME NEW h \in Handlers,
               \/ StagePart(h) \/ Gather(h) \/ Put(h) \/ DropParts(h)
               \/ Admit(h) \/ Refuse(h) \/ Mask(h) \/ ForceMask(h) \/ Parse(h)
               \/ DelParts(h) \/ DelBlob(h) \/ Swallow(h) \/ Crash(h)
        PROVE  UNCHANGED seen
    BY <1>8 DEF StagePart, Gather, Put, DropParts, Admit, Refuse, Mask, ForceMask, Parse,
       DelParts, DelBlob, Swallow, Crash, objects, history
  <1>9. CASE TicketPut \/ TicketEnds \/ Expire \/ UNCHANGED vars
    BY <1>1, <1>9 DEF TicketPut, TicketEnds, Expire, vars, objects, history
  <1> QED
    BY <1>1, <1>2, <1>3, <1>4, <1>5, <1>6, <1>7, <1>8, <1>9, SaveMoves DEF Next, Steps

(* The service keeps the promise of UploadLifecycle with any number of handlers that hold
   copies of the row, of crashes between store and row, and of repeated removals. *)
THEOREM ImplementsUpload == Spec => UploadSpec
  <1>1. Init => U!Init /\ Copies
    BY DEF Init, Created, NoRow, U!Init, Copies, Saving, Idle
  <1> QED
    BY <1>1, CopiesKept, UploadMoves, InvariantHolds, PTL DEF Spec, UploadSpec, U!Spec

(* A row that says ready names a text that is there, until a removal cuts it: a turn
   that trusts the status can read the document. *)
THEOREM ReadyHasText == Spec => [](row.status = "ready" => row.key /\ (text # "none" \/ cut))
  <1>1. Init => Copies
    BY DEF Init, Created, NoRow, Copies, Saving, Idle
  <1>2. IInv /\ Copies => (row.status = "ready" => row.key /\ (text # "none" \/ cut))
    BY DEF IInv, Copies, KeyHasText
  <1> QED
    BY <1>1, <1>2, CopiesKept, InvariantHolds, PTL DEF Spec
=============================================================================
