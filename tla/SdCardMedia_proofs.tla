------------------------- MODULE SdCardMedia_proofs -------------------------
(***************************************************************************)
(* Proofs about Block I/O over a slot whose card is swapped, for every     *)
(* number of cards and MediaIds, every last block and any faults.          *)
(***************************************************************************)
EXTENDS SdCardMedia, TLAPS

\* An operation in progress may count the MediaId up once more.
Pending(t) == IF At(t, "idle") THEN 0 ELSE 1

IdsInv == mediaId + Pending("io") + Pending("event") <= MaxId

(* Present media has the geometry its MediaId names, but while some thread *)
(* has read a new CSD and not yet published it: a callback may publish     *)
(* media in the middle of an initialization that began before it.          *)
GeometryInv ==
  mediaPresent /\ (\A t \in Threads : ~At(t, "identify")) => csdOf = named[mediaId]

\* A card brought up is the one whose CSD was read last.
CardInv == slot.card = "ready" => slot.medium = csdOf

\* An undisturbed transfer still has the medium that its checks saw.
TransferInv ==
  (At("io", "command") \/ At("io", "data")) /\ ~disturbed =>
    csdOf = named[req.id] /\ req.id \in 0 .. mediaId

\* Who got past bring-up or a command has seen a card.
EmptyInv ==
  /\ empty => ~slot.present
  /\ At("io", "identify") \/ At("io", "data") => ~empty

IInv == TypeOK /\ IdsInv /\ GeometryInv /\ CardInv /\ TransferInv /\ EmptyInv

-----------------------------------------------------------------------------
(* Where the threads are                                                   *)

LEMMA Moved ==
  ASSUME pc \in [Threads -> Steps], NEW t \in Threads, NEW l \in Steps, Goto(t, l)
  PROVE  /\ pc' \in [Threads -> Steps] /\ pc'[t] = l
         /\ \A u \in Threads : u # t => pc'[u] = pc[u]
  BY DEF Goto

LEMMA ThreadsAre == Threads = {"io", "event"} /\ {"io", "event"} \subseteq Threads
  BY DEF Threads

LEMMA PresenceIsBoolean ==
  ASSUME MediaAssumption PROVE DetectCardPresence \subseteq BOOLEAN
  BY DEF DetectCardPresence, Works

LEMMA InitIInv == Init => IInv
<1> SUFFICES ASSUME Init PROVE IInv
  OBVIOUS
<1> USE MediaAssumption DEF Init
<1>1. TypeOK
  <2>1. slot \in Slot /\ mediaId \in Ids /\ csdOf \in Media /\ source \in Media
    BY DEF Slot, Ids, Media
  <2>2. pc \in [Threads -> Steps] /\ named \in [Ids -> Media]
    BY DEF Threads, Steps, Ids, Media
  <2>3. req \in Request
    BY DEF Request, Ids
  <2> QED
    BY <2>1, <2>2, <2>3 DEF TypeOK, Statuses
<1>2. pc["io"] = "idle" /\ pc["event"] = "idle"
  BY ThreadsAre
<1>3. IdsInv
  BY <1>2 DEF IdsInv, Pending, At
<1>4. GeometryInv
  BY DEF GeometryInv, Ids
<1>5. CardInv /\ TransferInv /\ EmptyInv
  BY <1>2 DEF CardInv, TransferInv, EmptyInv, At
<1> QED
  BY <1>1, <1>3, <1>4, <1>5 DEF IInv

LEMMA DetectStep ==
  ASSUME IInv, NEW t \in Threads, InitializeDetect(t) PROVE IInv'
<1> USE MediaAssumption DEF IInv
<1>1. pc \in [Threads -> Steps] /\ t \in {"io", "event"}
  BY ThreadsAre DEF TypeOK
<1>2. /\ UNCHANGED <<slot, mediaId, csdOf, req, source, named, empty>>
      /\ disturbed' \in BOOLEAN /\ (~disturbed' => ~disturbed)
      /\ pc[t] = "detect"
  BY DEF InitializeDetect, Bus, TypeOK, At
<1>3. \/ mediaPresent' = mediaPresent /\ status' = status /\ Goto(t, "clear")
      \/ mediaPresent' = FALSE /\ status' \in {status, "NO_MEDIA"} /\ Goto(t, "idle")
  BY DEF InitializeDetect, Return, Absent
<1>4. PICK l \in {"clear", "idle"} :
        /\ Goto(t, l)
        /\ mediaPresent' \in {FALSE, mediaPresent} /\ status' \in {status, "NO_MEDIA"}
  BY <1>3
<1>5. /\ pc' \in [Threads -> Steps] /\ pc'[t] = l
      /\ \A u \in Threads : u # t => pc'[u] = pc[u]
  BY <1>1, <1>4, Moved DEF Steps
<1>6. TypeOK'
  BY <1>2, <1>4, <1>5 DEF TypeOK, Statuses
<1>7. IdsInv'
  BY <1>1, <1>2, <1>4, <1>5, ThreadsAre DEF IdsInv, Pending, At, TypeOK, Ids
<1>8. GeometryInv'
  BY <1>1, <1>2, <1>4, <1>5, ThreadsAre DEF GeometryInv, At
<1>9. (CardInv /\ TransferInv /\ EmptyInv)'
  BY <1>1, <1>2, <1>4, <1>5, ThreadsAre DEF CardInv, TransferInv, EmptyInv, At
<1> QED
  BY <1>6, <1>7, <1>8, <1>9

LEMMA ClearStep ==
  ASSUME IInv, NEW t \in Threads, InitializeClear(t) PROVE IInv'
<1> USE MediaAssumption DEF IInv
<1>1. pc \in [Threads -> Steps] /\ t \in {"io", "event"} /\ pc[t] = "clear"
  BY ThreadsAre DEF TypeOK, InitializeClear, At
<1>2. /\ UNCHANGED <<slot, mediaId, csdOf, named, req, status, source, disturbed, empty>>
      /\ mediaPresent' = FALSE /\ Goto(t, "bringUp")
  BY DEF InitializeClear, request, Absent
<1>3. /\ pc' \in [Threads -> Steps] /\ pc'[t] = "bringUp"
      /\ \A u \in Threads : u # t => pc'[u] = pc[u]
  BY <1>1, <1>2, Moved DEF Steps
<1>4. TypeOK'
  BY <1>2, <1>3 DEF TypeOK
<1>5. IdsInv'
  BY <1>1, <1>2, <1>3, ThreadsAre DEF IdsInv, Pending, At, TypeOK, Ids
<1>6. (GeometryInv /\ CardInv /\ TransferInv /\ EmptyInv)'
  BY <1>1, <1>2, <1>3, ThreadsAre
  DEF GeometryInv, CardInv, TransferInv, EmptyInv, At
<1> QED
  BY <1>4, <1>5, <1>6

\* The CSD is replaced by that of the card in the slot, and a transfer of the
\* other thread is disturbed.
LEMMA ModeStep ==
  ASSUME IInv, NEW t \in Threads, InitializeMode(t) PROVE IInv'
<1> USE MediaAssumption DEF IInv
<1>1. pc \in [Threads -> Steps] /\ t \in {"io", "event"} /\ pc[t] = "bringUp"
  BY ThreadsAre DEF TypeOK, InitializeMode, At
<1>2. /\ UNCHANGED <<mediaId, req, source, named, empty>>
      /\ disturbed' \in BOOLEAN /\ (~disturbed' => ~disturbed)
      /\ t = "event" /\ pc["io"] \in {"command", "data"} => disturbed'
  BY DEF InitializeMode, Bus, TypeOK
<1>3. slot \in Slot /\ csdOf \in Media
  BY DEF TypeOK
<1>4. CASE /\ slot.present
           /\ slot' = [slot EXCEPT !.card = "ready"] /\ csdOf' = slot.medium
           /\ Goto(t, "identify") /\ UNCHANGED <<mediaPresent, status>>
  <2>1. /\ pc' \in [Threads -> Steps] /\ pc'[t] = "identify"
        /\ \A u \in Threads : u # t => pc'[u] = pc[u]
    BY <1>1, <1>4, Moved DEF Steps
  <2>2. slot' \in Slot /\ csdOf' \in Media /\ slot'.medium = csdOf'
    BY <1>3, <1>4 DEF Slot
  <2>3. slot'.present = slot.present
    BY <1>3, <1>4 DEF Slot
  <2>4. TypeOK'
    BY <1>2, <1>4, <2>1, <2>2 DEF TypeOK
  <2>5. IdsInv'
    BY <1>1, <1>2, <2>1, ThreadsAre DEF IdsInv, Pending, At, TypeOK, Ids
  <2>6. (GeometryInv /\ CardInv)'
    BY <2>1, <2>2 DEF GeometryInv, CardInv, At
  <2>7. TransferInv'
    BY <1>1, <1>2, <2>1, ThreadsAre DEF TransferInv, At
  <2>8. EmptyInv'
    BY <1>1, <1>2, <1>4, <2>1, <2>3, ThreadsAre DEF EmptyInv, At
  <2> QED
    BY <2>4, <2>5, <2>6, <2>7, <2>8
<1>5. CASE /\ slot' \in LeftBehind
           /\ mediaPresent' = Absent /\ Return(t, "DEVICE_ERROR") /\ UNCHANGED csdOf
  <2>1. Goto(t, "idle") /\ status' \in {status, "DEVICE_ERROR"} /\ mediaPresent' = FALSE
    BY <1>5 DEF Return, Absent
  <2>2. /\ pc' \in [Threads -> Steps] /\ pc'[t] = "idle"
        /\ \A u \in Threads : u # t => pc'[u] = pc[u]
    BY <1>1, <2>1, Moved DEF Steps
  <2>3. /\ slot' \in Slot /\ slot'.present = slot.present
        /\ slot'.medium = slot.medium /\ slot'.card \in {slot.card, "reset", "halfway"}
    BY <1>3, <1>5 DEF Slot, LeftBehind
  <2>4. TypeOK'
    BY <1>2, <1>5, <2>1, <2>2, <2>3 DEF TypeOK, Statuses
  <2>5. IdsInv'
    BY <1>1, <1>2, <2>2, ThreadsAre DEF IdsInv, Pending, At, TypeOK, Ids
  <2>6. (GeometryInv /\ CardInv)'
    BY <1>5, <2>1, <2>3 DEF GeometryInv, CardInv
  <2>7. (TransferInv /\ EmptyInv)'
    BY <1>1, <1>2, <1>5, <2>2, <2>3, ThreadsAre DEF TransferInv, EmptyInv, At
  <2> QED
    BY <2>4, <2>5, <2>6, <2>7
<1> QED
  BY <1>4, <1>5 DEF InitializeMode, BroughtUp

\* A fresh MediaId names the medium whose CSD was read last.
LEMMA IdentifyStep ==
  ASSUME IInv, NEW t \in Threads, InitializeIdentify(t) PROVE IInv'
<1> USE MediaAssumption DEF IInv
<1>1. pc \in [Threads -> Steps] /\ t \in {"io", "event"} /\ pc[t] = "identify"
  BY ThreadsAre DEF TypeOK, InitializeIdentify, At
<1>2. UNCHANGED <<slot, csdOf, req, source, disturbed, empty>>
  BY DEF InitializeIdentify
<1>3. PICK s \in {"SUCCESS", "UNSUPPORTED"} : Return(t, s)
  BY DEF InitializeIdentify
<1>4. /\ pc' \in [Threads -> Steps] /\ pc'[t] = "idle"
      /\ \A u \in Threads : u # t => pc'[u] = pc[u]
  BY <1>1, <1>3, Moved DEF Steps, Return
<1>5. status' \in Statuses
  BY <1>3 DEF Return, TypeOK, Statuses
<1>6. (CardInv /\ EmptyInv)'
  BY <1>1, <1>2, <1>4, ThreadsAre DEF CardInv, EmptyInv, At
<1>7. CASE /\ mediaPresent' = TRUE /\ mediaId' = mediaId + 1
           /\ named' = [named EXCEPT ![mediaId'] = csdOf]
  <2>1. IdsInv'
    BY <1>1, <1>4, <1>7, ThreadsAre DEF IdsInv, Pending, At, TypeOK, Ids
  <2>2. mediaId' \in Ids
    BY <1>7, <2>1 DEF IdsInv, Pending, TypeOK, Ids
  <2>3. /\ named' \in [Ids -> Media] /\ named'[mediaId'] = csdOf
        /\ \A i \in Ids : i # mediaId' => named'[i] = named[i]
    BY <1>7, <2>2 DEF TypeOK
  <2>4. TypeOK'
    BY <1>2, <1>4, <1>5, <1>7, <2>2, <2>3 DEF TypeOK
  <2>5. GeometryInv'
    BY <1>2, <2>3 DEF GeometryInv
  <2>6. req \in Request /\ req.id \in Ids
    BY DEF TypeOK, Request
  <2>7. TransferInv'
    BY <1>1, <1>2, <1>4, <1>7, <2>2, <2>3, <2>6, ThreadsAre
    DEF TransferInv, At, TypeOK, Ids
  <2> QED
    BY <1>6, <2>1, <2>4, <2>5, <2>7
<1>8. CASE mediaPresent' = FALSE /\ UNCHANGED <<mediaId, named>>
  <2>1. TypeOK'
    BY <1>2, <1>4, <1>5, <1>8 DEF TypeOK
  <2>2. IdsInv'
    BY <1>1, <1>4, <1>8, ThreadsAre DEF IdsInv, Pending, At, TypeOK, Ids
  <2>3. (GeometryInv /\ TransferInv)'
    BY <1>1, <1>2, <1>4, <1>8, ThreadsAre DEF GeometryInv, TransferInv, At
  <2> QED
    BY <1>6, <2>1, <2>2, <2>3
<1> QED
  BY <1>7, <1>8 DEF InitializeIdentify, Absent, NextMediaId

-----------------------------------------------------------------------------
(* Block I/O                                                               *)

LEMMA TransferCallStep ==
  ASSUME IInv, NEW r \in Request, r.id \in 1 .. mediaId, CallTransfer(r) PROVE IInv'
<1> USE MediaAssumption DEF IInv
<1>1. /\ pc \in [Threads -> Steps] /\ pc["io"] = "idle" /\ pc["event"] = "idle"
      /\ mediaId + 2 <= MaxId
  BY DEF TypeOK, CallTransfer, Calls, IdsLeft, At
<1>2. /\ UNCHANGED <<slot, csdOf, mediaPresent, mediaId, named>>
      /\ req' = r /\ source' = 0 /\ disturbed' = FALSE /\ empty' = ~slot.present
  BY DEF CallTransfer, published
<1>3. PICK l \in {"command", "idle"} :
        /\ Goto("io", l) /\ (l = "command" => Refusal(r) = "none")
        /\ status' \in {status, Refusal(r)} /\ (l = "command" => status' = status)
        /\ (l = "idle" => Refusal(r) # "none")
  BY DEF CallTransfer, Return
<1>4. /\ pc' \in [Threads -> Steps] /\ pc'["io"] = l /\ pc'["event"] = "idle"
  BY <1>1, <1>3, Moved, ThreadsAre DEF Steps
<1>5. Refusal(r) \in {"NO_MEDIA", "MEDIA_CHANGED", "INVALID_PARAMETER", "none"}
  BY DEF Refusal
<1>6. status' \in Statuses
  BY <1>3, <1>5 DEF TypeOK, Statuses
<1>7. slot.present \in BOOLEAN /\ 0 \in Media
  BY DEF TypeOK, Slot, Media
<1>8. TypeOK'
  BY <1>2, <1>4, <1>6, <1>7 DEF TypeOK
<1>9. IdsInv'
  BY <1>1, <1>2, <1>4 DEF IdsInv, Pending, At, TypeOK, Ids
<1>10. l = "command" => mediaPresent /\ r.id = mediaId
  BY <1>3 DEF Refusal, MediaMatches
<1>11. mediaPresent => csdOf = named[mediaId]
  BY <1>1, ThreadsAre DEF GeometryInv, At
<1>12. TransferInv'
  BY <1>2, <1>3, <1>4, <1>10, <1>11 DEF TransferInv, At, TypeOK, Ids
<1>13. (GeometryInv /\ CardInv /\ EmptyInv)'
  BY <1>2, <1>3, <1>4, <1>11 DEF GeometryInv, CardInv, EmptyInv, At
<1> QED
  BY <1>8, <1>9, <1>12, <1>13

LEMMA CommandStep ==
  ASSUME IInv, TransferCommand PROVE IInv'
<1> USE MediaAssumption DEF IInv
<1>1. pc \in [Threads -> Steps] /\ pc["io"] = "command"
  BY DEF TypeOK, TransferCommand, At
<1>2. UNCHANGED <<slot, csdOf, mediaPresent, mediaId, named, req, status, source,
                  disturbed, empty>>
  BY DEF TransferCommand, published, request
<1>3. PICK l \in {"data", "failed"} : Goto("io", l) /\ (l = "data" => slot.present)
  BY DEF TransferCommand, TakesData
<1>4. /\ pc' \in [Threads -> Steps] /\ pc'["io"] = l /\ pc'["event"] = pc["event"]
  BY <1>1, <1>3, Moved, ThreadsAre DEF Steps
<1>5. TypeOK'
  BY <1>2, <1>4 DEF TypeOK
<1>6. IdsInv'
  BY <1>1, <1>2, <1>3, <1>4 DEF IdsInv, Pending, At
<1>7. (GeometryInv /\ CardInv /\ TransferInv /\ EmptyInv)'
  BY <1>1, <1>2, <1>3, <1>4, ThreadsAre
  DEF GeometryInv, CardInv, TransferInv, EmptyInv, At
<1> QED
  BY <1>5, <1>6, <1>7

LEMMA DataStep ==
  ASSUME IInv, TransferData PROVE IInv'
<1> USE MediaAssumption DEF IInv
<1>1. pc \in [Threads -> Steps] /\ pc["io"] = "data"
  BY DEF TypeOK, TransferData, At
<1>2. UNCHANGED <<slot, csdOf, mediaPresent, mediaId, named, req, disturbed, empty>>
  BY DEF TransferData, published
<1>3. PICK l \in {"idle", "failed"} :
        /\ Goto("io", l) /\ source' \in {source, slot.medium}
        /\ status' \in {status, "SUCCESS"}
  BY DEF TransferData, Return
<1>4. /\ pc' \in [Threads -> Steps] /\ pc'["io"] = l /\ pc'["event"] = pc["event"]
  BY <1>1, <1>3, Moved, ThreadsAre DEF Steps
<1>5. TypeOK'
  BY <1>2, <1>3, <1>4 DEF TypeOK, Slot, Statuses
<1>6. IdsInv'
  BY <1>1, <1>2, <1>3, <1>4 DEF IdsInv, Pending, At, TypeOK, Ids
<1>7. (GeometryInv /\ CardInv /\ TransferInv /\ EmptyInv)'
  BY <1>1, <1>2, <1>3, <1>4, ThreadsAre
  DEF GeometryInv, CardInv, TransferInv, EmptyInv, At
<1> QED
  BY <1>5, <1>6, <1>7

\* Media that is given up takes one of the ids left.
LEMMA GivenUp ==
  ASSUME IInv, NEW t \in Threads, pc[t] \notin {"idle", "identify"},
         Goto(t, "idle"),
         UNCHANGED <<slot, csdOf, named, req, source, empty>>, status' \in Statuses,
         disturbed' \in BOOLEAN, ~disturbed' => ~disturbed,
         \/ UNCHANGED <<mediaPresent, mediaId>>
         \/ mediaPresent' = FALSE /\ mediaId' = mediaId + 1
  PROVE  IInv'
<1> USE MediaAssumption DEF IInv
<1>1. pc \in [Threads -> Steps] /\ t \in {"io", "event"}
  BY ThreadsAre DEF TypeOK
<1>2. /\ pc' \in [Threads -> Steps] /\ pc'[t] = "idle"
      /\ \A u \in Threads : u # t => pc'[u] = pc[u]
  BY <1>1, Moved DEF Steps
<1>3. IdsInv'
  BY <1>1, <1>2, ThreadsAre DEF IdsInv, Pending, At, TypeOK, Ids
<1>4. mediaId' \in Ids
  BY <1>3 DEF IdsInv, Pending, TypeOK, Ids
<1>5. TypeOK'
  BY <1>2, <1>4 DEF TypeOK
<1>6. GeometryInv'
  BY <1>1, <1>2, ThreadsAre DEF GeometryInv, At
<1>7. TransferInv'
  BY <1>1, <1>2, <1>4, ThreadsAre DEF TransferInv, At, TypeOK, Ids
<1>8. (CardInv /\ EmptyInv)'
  BY <1>1, <1>2, ThreadsAre DEF CardInv, EmptyInv, At
<1> QED
  BY <1>3, <1>5, <1>6, <1>7, <1>8

LEMMA FailedStep ==
  ASSUME IInv, TransferFailed PROVE IInv'
<1>1. /\ pc["io"] = "failed" /\ Goto("io", "idle")
      /\ UNCHANGED <<slot, csdOf, named, req, source, disturbed, empty>>
      /\ status' \in {"DEVICE_ERROR", "NO_MEDIA"}
      /\ \/ UNCHANGED <<mediaPresent, mediaId>>
         \/ mediaPresent' = FALSE /\ mediaId' = mediaId + 1
  BY DEF TransferFailed, At, Return, NextMediaId
<1>2. disturbed' \in BOOLEAN /\ status' \in Statuses
  BY <1>1 DEF IInv, TypeOK, Statuses
<1> QED
  BY <1>1, <1>2, GivenUp, ThreadsAre

\* A call that changes nothing but where the caller is and its status.
LEMMA Called ==
  ASSUME IInv, Calls, NEW l \in {"idle", "detect"}, Goto("io", l), status' \in Statuses,
         UNCHANGED <<slot, csdOf, mediaPresent, mediaId, named, req, source>>,
         \/ disturbed' = FALSE /\ empty' = ~slot.present
         \/ UNCHANGED <<disturbed, empty>>
  PROVE  IInv'
<1> USE MediaAssumption DEF IInv
<1>1. /\ pc \in [Threads -> Steps] /\ pc["io"] = "idle" /\ pc["event"] = "idle"
      /\ mediaId + 2 <= MaxId
  BY DEF TypeOK, Calls, IdsLeft, At
<1>2. /\ pc' \in [Threads -> Steps] /\ pc'["io"] = l /\ pc'["event"] = "idle"
  BY <1>1, Moved, ThreadsAre DEF Steps
<1>3. empty' \in BOOLEAN /\ (empty' => ~slot.present)
  <2>1. slot.present \in BOOLEAN /\ empty \in BOOLEAN /\ (empty => ~slot.present)
    BY DEF TypeOK, Slot, EmptyInv
  <2>2. CASE empty' = ~slot.present
    BY <2>1, <2>2
  <2>3. CASE UNCHANGED empty
    BY <2>1, <2>3
  <2> QED
    BY <2>2, <2>3
<1>4. TypeOK'
  BY <1>2, <1>3 DEF TypeOK
<1>5. IdsInv'
  BY <1>1, <1>2 DEF IdsInv, Pending, At, TypeOK, Ids
<1>6. GeometryInv' /\ CardInv'
  BY <1>1, <1>2, ThreadsAre DEF GeometryInv, CardInv, At
<1>7. TransferInv'
  BY <1>2 DEF TransferInv, At
<1>8. EmptyInv'
  BY <1>2, <1>3 DEF EmptyInv, At
<1> QED
  BY <1>4, <1>5, <1>6, <1>7, <1>8

LEMMA ResetStep ==
  ASSUME IInv, NEW extended \in BOOLEAN, CallReset(extended) PROVE IInv'
<1>1. PICK l \in {"idle", "detect"} :
        Goto("io", l) /\ status' \in {status, "NO_MEDIA", "SUCCESS"}
  BY DEF CallReset, Return
<1>2. status' \in Statuses
  BY <1>1 DEF IInv, TypeOK, Statuses
<1>3. /\ UNCHANGED <<slot, csdOf, mediaPresent, mediaId, named, req, source>>
      /\ disturbed' = FALSE /\ empty' = ~slot.present /\ Calls
  BY DEF CallReset, published
<1> QED
  BY <1>1, <1>2, <1>3, Called

LEMMA FlushStep ==
  ASSUME IInv, CallFlush PROVE IInv'
<1>1. /\ UNCHANGED <<slot, csdOf, mediaPresent, mediaId, named, req, source, disturbed, empty>>
      /\ Goto("io", "idle") /\ status' \in {"SUCCESS", "NO_MEDIA"} /\ Calls
  BY DEF CallFlush, published, Return
<1>2. status' \in Statuses
  BY <1>1 DEF Statuses
<1> QED
  BY <1>1, <1>2, Called

-----------------------------------------------------------------------------
(* The callbacks and the slot                                              *)

LEMMA EventStep ==
  ASSUME IInv, NEW l \in {"hotplug", "timer"}, EventFires(l) PROVE IInv'
<1> USE MediaAssumption DEF IInv
<1>1. /\ pc \in [Threads -> Steps] /\ pc["event"] = "idle" /\ mediaId + 2 <= MaxId
      /\ Goto("event", l)
  BY DEF TypeOK, EventFires, IdsLeft, At
<1>2. UNCHANGED <<slot, csdOf, mediaPresent, mediaId, named, req, status, source,
                  disturbed, empty>>
  BY DEF EventFires, published, request
<1>3. /\ pc' \in [Threads -> Steps] /\ pc'["event"] = l /\ pc'["io"] = pc["io"]
  BY <1>1, Moved, ThreadsAre DEF Steps
<1>4. TypeOK'
  BY <1>2, <1>3 DEF TypeOK
<1>5. IdsInv'
  BY <1>1, <1>2, <1>3 DEF IdsInv, Pending, At, TypeOK, Ids
<1>6. (GeometryInv /\ CardInv /\ TransferInv /\ EmptyInv)'
  BY <1>1, <1>2, <1>3, ThreadsAre DEF GeometryInv, CardInv, TransferInv, EmptyInv, At
<1> QED
  BY <1>4, <1>5, <1>6

LEMMA HotplugStep ==
  ASSUME IInv, Hotplug PROVE IInv'
<1> USE MediaAssumption DEF IInv
<1>1. /\ pc \in [Threads -> Steps] /\ pc["event"] = "hotplug"
      /\ UNCHANGED <<slot, csdOf, named, req, status, source, empty>>
      /\ disturbed' \in BOOLEAN /\ (~disturbed' => ~disturbed)
  BY DEF TypeOK, Hotplug, Bus, At
<1>2. CASE Goto("event", "detect") /\ UNCHANGED <<mediaPresent, mediaId>>
  <2>1. /\ pc' \in [Threads -> Steps] /\ pc'["event"] = "detect" /\ pc'["io"] = pc["io"]
    BY <1>1, <1>2, Moved, ThreadsAre DEF Steps
  <2>2. TypeOK'
    BY <1>1, <1>2, <2>1 DEF TypeOK
  <2>3. IdsInv'
    BY <1>1, <1>2, <2>1 DEF IdsInv, Pending, At, TypeOK, Ids
  <2>4. (GeometryInv /\ CardInv /\ TransferInv /\ EmptyInv)'
    BY <1>1, <1>2, <2>1, ThreadsAre
    DEF GeometryInv, CardInv, TransferInv, EmptyInv, At
  <2> QED
    BY <2>2, <2>3, <2>4
<1>3. CASE /\ Goto("event", "idle")
           /\ \/ UNCHANGED <<mediaPresent, mediaId>>
              \/ mediaPresent' = FALSE /\ mediaId' = mediaId + 1
  <2>1. status' \in Statuses
    BY <1>1 DEF TypeOK
  <2> QED
    BY <1>1, <1>3, <2>1, GivenUp, ThreadsAre
<1> QED
  BY <1>2, <1>3 DEF Hotplug, NextMediaId

LEMMA TimerStep ==
  ASSUME IInv, Timer PROVE IInv'
<1>1. /\ pc["event"] = "timer" /\ Goto("event", "idle")
      /\ UNCHANGED <<slot, csdOf, named, req, status, source, empty>>
  BY DEF Timer, At
<1>2. \/ UNCHANGED <<mediaPresent, mediaId>>
      \/ mediaPresent' = FALSE /\ mediaId' = mediaId + 1
  BY DEF Timer, CheckCardStatus, NextMediaId
<1>3. disturbed' \in BOOLEAN /\ (~disturbed' => ~disturbed)
  <2>1. CASE Bus("event")
    BY <2>1 DEF Bus, IInv, TypeOK
  <2>2. CASE disturbed' = disturbed
    BY <2>2 DEF IInv, TypeOK
  <2> QED
    BY <2>1, <2>2 DEF Timer, CheckCardStatus
<1>4. status' \in Statuses
  BY <1>1 DEF IInv, TypeOK
<1> QED
  BY <1>1, <1>2, <1>3, <1>4, GivenUp, ThreadsAre

LEMMA SlotStep ==
  ASSUME IInv, Remove \/ (\E m \in Media : Insert(m)) PROVE IInv'
<1> USE MediaAssumption DEF IInv
<1>1. UNCHANGED <<csdOf, pc, mediaPresent, mediaId, named, req, status, source, disturbed>>
  BY DEF Remove, Insert, published, request
<1>2. slot' \in Slot
  <2>1. CASE Remove
    BY <2>1 DEF Remove, Removed, TypeOK, Slot
  <2>2. CASE \E m \in Media : Insert(m)
    BY <2>2 DEF Insert, Inserted, Slot
  <2> QED
    BY <2>1, <2>2
<1>3. empty' \in BOOLEAN /\ (empty' => ~slot'.present /\ empty)
  <2>1. empty \in BOOLEAN /\ slot \in Slot
    BY DEF TypeOK
  <2>2. CASE Remove
    <3>1. slot' = [present |-> FALSE, medium |-> slot.medium, card |-> "fresh"] /\ empty' = empty
      BY <2>2 DEF Remove, Removed, request
    <3>2. slot'.present = FALSE
      BY <2>1, <3>1 DEF Slot
    <3>3. empty => ~slot.present
      BY DEF EmptyInv
    <3> QED
      BY <2>1, <3>1, <3>2, <3>3
  <2>3. CASE \E m \in Media : Insert(m)
    BY <2>3 DEF Insert
  <2> QED
    BY <2>2, <2>3
<1>4. slot'.card = "ready" => slot'.card = slot.card /\ slot'.medium = slot.medium
  <2>1. CASE Remove
    BY <2>1 DEF Remove, Removed, TypeOK, Slot
  <2>2. CASE \E m \in Media : Insert(m)
    BY <2>2 DEF Insert, Inserted
  <2> QED
    BY <2>1, <2>2
<1>5. TypeOK'
  BY <1>1, <1>2, <1>3 DEF TypeOK
<1>6. IdsInv' /\ GeometryInv' /\ TransferInv'
  BY <1>1 DEF IdsInv, Pending, GeometryInv, TransferInv, At
<1>7. CardInv'
  BY <1>1, <1>4 DEF CardInv
<1>8. EmptyInv'
  BY <1>1, <1>3 DEF EmptyInv, At
<1> QED
  BY <1>5, <1>6, <1>7, <1>8

-----------------------------------------------------------------------------
(* Theorems                                                                *)

\* The calls of Next are requests of the type.
LEMMA NextTransfer ==
  ASSUME TypeOK, Next
  PROVE  \/ \E t \in Threads : InitializeDetect(t) \/ InitializeClear(t)
                               \/ InitializeMode(t) \/ InitializeIdentify(t)
         \/ \E r \in Request : r.id \in 1 .. mediaId /\ CallTransfer(r)
         \/ TransferCommand \/ TransferData \/ TransferFailed \/ CallFlush
         \/ \E extended \in BOOLEAN : CallReset(extended)
         \/ \E l \in {"hotplug", "timer"} : EventFires(l)
         \/ Hotplug \/ Timer \/ Remove \/ \E m \in Media : Insert(m)
<1>1. ASSUME NEW op \in {"read", "write"}, NEW id \in 1 .. mediaId,
             NEW lba \in 0 .. LastBlock + 1, NEW count \in 1 .. 2
      PROVE  [op |-> op, id |-> id, lba |-> lba, count |-> count] \in Request
  BY MediaAssumption DEF TypeOK, Ids, Request
<1> DEFINE Made(op, id, lba, count) == [op |-> op, id |-> id, lba |-> lba, count |-> count]
<1>2. ASSUME NEW op \in {"read", "write"}, NEW id \in 1 .. mediaId,
             NEW lba \in 0 .. LastBlock + 1, NEW count \in 1 .. 2,
             CallTransfer(Made(op, id, lba, count))
      PROVE  \E r \in Request : r.id \in 1 .. mediaId /\ CallTransfer(r)
  <2>1. Made(op, id, lba, count) \in Request /\ Made(op, id, lba, count).id = id
    BY <1>1
  <2> HIDE DEF Made
  <2> QED
    BY <1>2, <2>1
<1> QED
  BY <1>2 DEF Next

LEMMA NextIInv == IInv /\ [Next]_vars => IInv'
<1> SUFFICES ASSUME IInv, [Next]_vars PROVE IInv'
  OBVIOUS
<1>1. CASE Next
  <2>1. TypeOK
    BY DEF IInv
  <2> QED
    BY <1>1, <2>1, NextTransfer, DetectStep, ClearStep, ModeStep, IdentifyStep,
       TransferCallStep, CommandStep, DataStep, FailedStep, ResetStep, FlushStep,
       EventStep, HotplugStep, TimerStep, SlotStep
<1>2. CASE UNCHANGED vars
  BY <1>2 DEF vars, IInv, TypeOK, IdsInv, Pending, GeometryInv, CardInv, TransferInv,
     EmptyInv, At
<1> QED
  BY <1>1, <1>2

\* The invariant the other proofs rest on: ids left for each thread, the CSD
\* of the media published, and the medium of the transfer in progress.
THEOREM InductiveInvariant == Spec => []IInv
<1> QED
  BY InitIInv, NextIInv, PTL DEF Spec

\* Every variable of SdCardMedia.c keeps its type.
THEOREM TypeCorrect == Spec => []TypeOK
<1>1. IInv => TypeOK
  BY DEF IInv
<1> QED
  BY <1>1, InductiveInvariant, PTL

(* Present media has the geometry of the medium its MediaId names, with    *)
(* however many cards and callbacks.                                       *)
THEOREM GeometryCorrect == Spec => []GeometryIsOfNamedMedium
<1>1. IInv => GeometryIsOfNamedMedium
  BY DEF IInv, GeometryInv, GeometryIsOfNamedMedium, At
<1> QED
  BY <1>1, InductiveInvariant, PTL

\* The caller of Block I/O is moved only by its own operations.
LEMMA CallerMoves ==
  ASSUME TypeOK, Next, pc'["io"] # pc["io"]
  PROVE  \/ InitializeDetect("io") \/ InitializeClear("io")
         \/ InitializeMode("io") \/ InitializeIdentify("io")
         \/ \E r \in Request : CallTransfer(r)
         \/ TransferCommand \/ TransferData \/ TransferFailed \/ CallFlush
         \/ \E extended \in BOOLEAN : CallReset(extended)
<1>1. ASSUME NEW l, Goto("event", l) PROVE FALSE
  BY <1>1, ThreadsAre DEF Goto, TypeOK
<1>2. ~InitializeDetect("event")
  BY <1>1 DEF InitializeDetect, Return
<1>3. ~InitializeClear("event") /\ ~Timer
  BY <1>1 DEF InitializeClear, Timer
<1>4. ~InitializeMode("event")
  BY <1>1 DEF InitializeMode, Return
<1>5. ~InitializeIdentify("event")
  BY <1>1 DEF InitializeIdentify, Return
<1>6. ~Hotplug /\ \A l : ~EventFires(l)
  BY <1>1 DEF Hotplug, EventFires
<1>7. ~Remove /\ \A m : ~Insert(m)
  BY DEF Remove, Insert
<1> QED
  BY <1>2, <1>3, <1>4, <1>5, <1>6, <1>7, NextTransfer, ThreadsAre

(* A read that succeeds got its data from the medium its MediaId names,    *)
(* however often cards are swapped, unless an event came between.          *)
THEOREM ReadCorrect == Spec => ReadIsOfNamedMedium
<1> DEFINE Own == At("io", "data") /\ pc'["io"] = "idle" /\ req.op = "read" /\ ~disturbed
                    /\ slot.card # "halfway" => source' = named[req.id]
<1>1. ASSUME IInv, Next PROVE Own
  <2> SUFFICES ASSUME pc["io"] = "data", pc'["io"] = "idle", req.op = "read", ~disturbed,
                      slot.card # "halfway"
               PROVE  source' = named[req.id]
    BY DEF At
  <2>1. TransferData
    BY <1>1, CallerMoves
    DEF IInv, InitializeDetect, InitializeClear, InitializeMode, InitializeIdentify,
        CallTransfer, TransferCommand, TransferFailed, CallFlush, CallReset, Calls, At
  <2>2. ~Goto("io", "failed")
    BY <1>1, Moved, ThreadsAre DEF IInv, TypeOK, Steps
  <2>3. slot.card = "ready" /\ source' = slot.medium
    BY <1>1, <2>1, <2>2 DEF TransferData, TakesData
  <2> QED
    BY <1>1, <2>3 DEF IInv, CardInv, TransferInv, At
<1>2. IInv /\ [Next]_vars => [Own]_vars
  BY <1>1 DEF vars
<1> QED
  BY <1>2, InductiveInvariant, PTL DEF Spec, ReadIsOfNamedMedium

(* A transfer past its checks, and a Reset with extended verification, on  *)
(* a slot that was empty since it began fails and leaves the media absent. *)
THEOREM AbsenceReported == Spec => AbsenceIsReported
<1> DEFINE Told == ~At("io", "idle") /\ pc'["io"] = "idle" /\ empty /\ ~disturbed =>
                     status' # "SUCCESS" /\ ~mediaPresent'
<1>1. ASSUME IInv, Next PROVE Told
  <2> SUFFICES ASSUME pc["io"] # "idle", pc'["io"] = "idle", empty, ~disturbed
               PROVE  status' # "SUCCESS" /\ ~mediaPresent'
    BY DEF At
  <2>1. ~slot.present /\ pc["io"] # "identify" /\ pc["io"] # "data"
    BY <1>1 DEF IInv, EmptyInv, At
  <2>2. \A l \in Steps : Goto("io", l) => l = "idle"
    BY <1>1, Moved, ThreadsAre DEF IInv, TypeOK
  <2>3. CASE InitializeDetect("io")
    BY <2>2, <2>3 DEF InitializeDetect, Return, Absent, Steps
  <2>4. CASE InitializeClear("io")
    BY <2>2, <2>4 DEF InitializeClear, Steps
  <2>5. CASE InitializeMode("io")
    BY <2>1, <2>5 DEF InitializeMode, BroughtUp, Return, Absent
  <2>6. CASE TransferFailed
    <3>1. DetectCardPresence = {FALSE}
      BY <2>1 DEF DetectCardPresence, Answers
    <3> QED
      BY <2>6, <3>1 DEF TransferFailed, CardStillThere, Return
  <2>7. CASE TransferCommand
    BY <2>2, <2>7 DEF TransferCommand, Steps
  <2> QED
    BY <1>1, <2>1, <2>3, <2>4, <2>5, <2>6, <2>7, CallerMoves
    DEF IInv, InitializeIdentify, CallTransfer, TransferData, CallFlush, CallReset,
        Calls, At
<1>2. IInv /\ [Next]_vars => [Told]_vars
  BY <1>1 DEF vars, At
<1> QED
  BY <1>2, InductiveInvariant, PTL DEF Spec, AbsenceIsReported

(* Once media is absent, every call to Block I/O returns at once, and only *)
(* an event brings a card back.                                            *)
THEOREM AbsenceLasts == Spec => OnlyEventsBringBack
<1> DEFINE Stays == At("io", "idle") /\ ~mediaPresent =>
                      pc'["io"] = "idle" /\ (mediaPresent' => ~At("event", "idle"))
<1>1. ASSUME IInv, Next PROVE Stays
  <2> SUFFICES ASSUME pc["io"] = "idle", ~mediaPresent
               PROVE  pc'["io"] = "idle" /\ (mediaPresent' => pc["event"] # "idle")
    BY DEF At
  <2>1. ASSUME NEW t \in Threads,
               InitializeDetect(t) \/ InitializeClear(t) \/ InitializeMode(t)
               \/ InitializeIdentify(t)
        PROVE  pc[t] # "idle"
    BY <2>1 DEF InitializeDetect, InitializeClear, InitializeMode, InitializeIdentify, At
  <2>2. ASSUME NEW r, CallTransfer(r) PROVE pc'["io"] = "idle" /\ ~mediaPresent'
    <3>1. Goto("io", "idle")
      BY <2>2 DEF CallTransfer, Refusal, Return
    <3> QED
      BY <1>1, <2>2, <3>1, Moved, ThreadsAre
      DEF CallTransfer, published, IInv, TypeOK, Steps
  <2>3. ASSUME NEW extended, CallReset(extended) PROVE pc'["io"] = "idle" /\ ~mediaPresent'
    <3>1. Goto("io", "idle")
      BY <2>3 DEF CallReset, ResetRefused, Return
    <3> QED
      BY <1>1, <2>3, <3>1, Moved, ThreadsAre
      DEF CallReset, published, IInv, TypeOK, Steps
  <2>4. pc'["io"] = "idle"
    <3>1. CASE CallFlush
      BY <1>1, <3>1, Moved, ThreadsAre DEF CallFlush, Return, IInv, TypeOK, Steps
    <3> QED
      BY <1>1, <2>1, <2>2, <2>3, <3>1, CallerMoves, ThreadsAre
      DEF IInv, TransferCommand, TransferData, TransferFailed, At
  <2>5. ASSUME mediaPresent', pc["event"] = "idle" PROVE FALSE
    <3>1. ~(TransferCommand \/ TransferData \/ TransferFailed \/ Hotplug \/ Timer)
      BY <2>5 DEF TransferCommand, TransferData, TransferFailed, Hotplug, Timer, At
    <3>2. ~(CallFlush \/ Remove \/ \E m \in Media : Insert(m))
      BY <2>5 DEF CallFlush, Remove, Insert, published
    <3>3. \A l : ~EventFires(l)
      BY <2>5 DEF EventFires, published
    <3> QED
      BY <1>1, <2>1, <2>2, <2>3, <2>5, <3>1, <3>2, <3>3, NextTransfer, ThreadsAre
      DEF IInv
  <2> QED
    BY <2>4, <2>5
<1>2. IInv /\ [Next]_vars => [Stays]_vars
  BY <1>1 DEF vars
<1> QED
  BY <1>2, InductiveInvariant, PTL DEF Spec, OnlyEventsBringBack

-----------------------------------------------------------------------------
(* The contract of removable media                                         *)

\* What the steps that the contract tells apart have in common: the event
\* thread, or the caller of Block I/O, stays where it is.
LEMMA AroundMaps ==
  ASSUME UNCHANGED <<mediaPresent, mediaId, named, req, status, source>>,
         Doing' = Doing, pc'["event"] = pc["event"], empty' => empty
  PROVE  Contract!Around
  BY DEF Contract!Around, Contract!media, At

LEMMA EventMaps ==
  ASSUME pc'["io"] = pc["io"], UNCHANGED <<req, status, source, empty>>,
         \/ pc["event"] # "idle" \/ pc'["event"] # "idle",
         \/ UNCHANGED <<mediaPresent, mediaId, named>>
         \/ /\ pc["event"] # "idle" /\ UNCHANGED named
            /\ mediaPresent' = FALSE /\ mediaId' \in {mediaId, mediaId + 1}
         \/ /\ pc["event"] # "idle" /\ csdOf \in Media
            /\ mediaPresent' = TRUE /\ mediaId' = mediaId + 1
            /\ named' = [named EXCEPT ![mediaId'] = csdOf]
  PROVE  Contract!Event
<1>1. Doing' = Doing
  BY DEF Doing, At
<1>2. UNCHANGED <<Doing, req, (status = "SUCCESS"), source, empty>>
  BY <1>1
<1>3. CASE UNCHANGED <<mediaPresent, mediaId, named>>
  BY <1>2, <1>3 DEF Contract!Event, Contract!media, At
<1>4. CASE /\ pc["event"] # "idle" /\ UNCHANGED named
           /\ mediaPresent' = FALSE /\ mediaId' \in {mediaId, mediaId + 1}
  BY <1>2, <1>4 DEF Contract!Event, Contract!Withdrawn, At
<1>5. CASE /\ pc["event"] # "idle" /\ csdOf \in Media
           /\ mediaPresent' = TRUE /\ mediaId' = mediaId + 1
           /\ named' = [named EXCEPT ![mediaId'] = csdOf]
  <2>1. Contract!Published
    BY <1>5 DEF Contract!Published
  <2> QED
    BY <1>2, <1>5, <2>1 DEF Contract!Event, At
<1> QED
  BY <1>3, <1>4, <1>5

LEMMA FinishMaps ==
  ASSUME pc'["io"] = "idle"
  PROVE  /\ status' = "SUCCESS" => Contract!Finish(TRUE)
         /\ status' # "SUCCESS" => Contract!Finish(FALSE)
  BY DEF Contract!Finish, Doing, At

\* The caller is in a Reset.
LEMMA Resetting ==
  ASSUME pc["io"] \in {"detect", "clear", "bringUp", "identify"}
  PROVE  Doing = "reset"
  BY DEF Doing, At

LEMMA ResetMaps ==
  ASSUME pc["io"] \in {"detect", "clear", "bringUp", "identify"},
         UNCHANGED <<req, source, empty>>, pc'["event"] = pc["event"],
         \/ /\ mediaPresent' = FALSE /\ mediaId' = mediaId /\ UNCHANGED named
            /\ \/ pc'["io"] = "bringUp" /\ status' = status
               \/ pc'["io"] = "idle" /\ status' # "SUCCESS"
         \/ /\ mediaPresent' = TRUE /\ mediaId' = mediaId + 1
            /\ csdOf \in Media /\ named' = [named EXCEPT ![mediaId'] = csdOf]
            /\ pc'["io"] = "idle" /\ status' = "SUCCESS" /\ ~empty
  PROVE  Contract!Reset
<1>1. Doing = "reset"
  BY Resetting
<1>2. UNCHANGED <<req, source, empty, ~At("event", "idle")>>
  BY DEF At
<1>3. CASE /\ mediaPresent' = FALSE /\ mediaId' = mediaId /\ UNCHANGED named
           /\ pc'["io"] = "bringUp" /\ status' = status
  <2>1. Doing' = "reset"
    BY <1>3 DEF Doing, At
  <2>2. Contract!Withdrawn
    BY <1>3 DEF Contract!Withdrawn
  <2>3. UNCHANGED <<Doing, (status = "SUCCESS")>>
    BY <1>1, <1>3, <2>1
  <2> QED
    BY <1>1, <1>2, <2>2, <2>3 DEF Contract!Reset
<1>4. CASE /\ mediaPresent' = FALSE /\ mediaId' = mediaId /\ UNCHANGED named
           /\ pc'["io"] = "idle" /\ status' # "SUCCESS"
  <2>1. Contract!Withdrawn /\ Contract!Finish(FALSE)
    BY <1>4, FinishMaps DEF Contract!Withdrawn
  <2> QED
    BY <1>1, <1>2, <2>1 DEF Contract!Reset
<1>5. CASE /\ mediaPresent' = TRUE /\ mediaId' = mediaId + 1
           /\ csdOf \in Media /\ named' = [named EXCEPT ![mediaId'] = csdOf]
           /\ pc'["io"] = "idle" /\ status' = "SUCCESS" /\ ~empty
  <2>1. Contract!Published /\ Contract!Finish(TRUE)
    BY <1>5, FinishMaps DEF Contract!Published
  <2> QED
    BY <1>1, <1>2, <1>5, <2>1 DEF Contract!Reset
<1> QED
  BY <1>3, <1>4, <1>5

LEMMA CallMaps ==
  ASSUME pc["io"] = "idle", pc'["event"] = pc["event"],
         UNCHANGED <<mediaPresent, mediaId, named>>,
         \/ pc'["io"] = "idle" /\ (status' = "SUCCESS" => mediaPresent)
         \/ /\ mediaPresent /\ status' = status
            /\ \/ pc'["io"] = "command" /\ req'.id = mediaId
               \/ pc'["io"] = "detect"
  PROVE  Contract!Call
<1>1. Doing = "nothing"
  BY DEF Doing, At
<1>2. UNCHANGED <<mediaPresent, mediaId, named, ~At("event", "idle")>>
  BY DEF At
<1>3. CASE pc'["io"] = "idle" /\ (status' = "SUCCESS" => mediaPresent)
  BY <1>1, <1>2, <1>3, FinishMaps DEF Contract!Call, Contract!media
<1>4. CASE /\ mediaPresent /\ status' = status
           /\ pc'["io"] = "command" /\ req'.id = mediaId
  <2>1. Doing' = "transfer"
    BY <1>4 DEF Doing, At
  <2> QED
    BY <1>1, <1>2, <1>4, <2>1 DEF Contract!Call, Contract!media
<1>5. CASE mediaPresent /\ status' = status /\ pc'["io"] = "detect"
  <2>1. Doing' = "reset"
    BY <1>5 DEF Doing, At
  <2> QED
    BY <1>1, <1>2, <1>5, <2>1 DEF Contract!Call, Contract!media
<1> QED
  BY <1>3, <1>4, <1>5

(* Each operation is one the contract allows.                              *)
LEMMA InitializeMaps ==
  ASSUME IInv, NEW t \in Threads,
         InitializeDetect(t) \/ InitializeClear(t)
         \/ InitializeMode(t) \/ InitializeIdentify(t)
  PROVE  Contract!Next
<1>0. pc \in [Threads -> Steps] /\ t \in {"io", "event"} /\ csdOf \in Media
  BY ThreadsAre DEF IInv, TypeOK
<1>1. UNCHANGED <<req, source, empty>>
  BY DEF InitializeDetect, InitializeClear, InitializeMode, InitializeIdentify, request
<1>2. PICK l \in {"clear", "bringUp", "identify", "idle"} : Goto(t, l)
  BY DEF InitializeDetect, InitializeClear, InitializeMode, InitializeIdentify, Return
<1>3. /\ pc'[t] = l
      /\ \A u \in Threads : u # t => pc'[u] = pc[u]
  BY <1>0, <1>2, Moved DEF Steps
<1>4. \A k \in Steps : Goto(t, k) => k = l
  BY <1>0, <1>3, Moved
<1>5. pc[t] \in {"detect", "clear", "bringUp", "identify"}
  BY DEF InitializeDetect, InitializeClear, InitializeMode, InitializeIdentify, At
<1>6. CASE /\ l \in {"clear", "identify"} /\ pc[t] \in {"detect", "bringUp"}
           /\ UNCHANGED <<mediaPresent, mediaId, named, status>>
  <2>1. CASE t = "io"
    <3>1. pc'["event"] = pc["event"] /\ Doing = "reset" /\ Doing' = "reset"
      BY <1>3, <1>5, <1>6, <2>1, ThreadsAre DEF Doing, At
    <3> QED
      BY <1>1, <1>6, <3>1, AroundMaps DEF Contract!Next
  <2>2. CASE t = "event"
    <3>1. pc'["io"] = pc["io"] /\ pc["event"] # "idle"
      BY <1>3, <1>5, <2>2, ThreadsAre
    <3> QED
      BY <1>1, <1>6, <3>1, EventMaps DEF Contract!Next
  <2> QED
    BY <1>0, <2>1, <2>2
<1>7. CASE /\ mediaPresent' = FALSE /\ mediaId' = mediaId /\ UNCHANGED named
           /\ t = "event" => status' = status
           /\ \/ l = "bringUp" /\ status' = status
              \/ l = "idle" /\ (t = "io" => status' # "SUCCESS")
  <2>1. CASE t = "io"
    <3>1. pc'["event"] = pc["event"] /\ pc'["io"] = l
      BY <1>3, <2>1, ThreadsAre
    <3> QED
      BY <1>1, <1>5, <1>7, <2>1, <3>1, ResetMaps DEF Contract!Next
  <2>2. CASE t = "event"
    <3>1. pc'["io"] = pc["io"] /\ pc["event"] # "idle"
      BY <1>3, <1>5, <2>2, ThreadsAre
    <3> QED
      BY <1>1, <1>7, <2>2, <3>1, EventMaps DEF Contract!Next
  <2> QED
    BY <1>0, <2>1, <2>2
<1>8. CASE /\ mediaPresent' = TRUE /\ mediaId' = mediaId + 1
           /\ named' = [named EXCEPT ![mediaId'] = csdOf]
           /\ At(t, "identify") /\ Return(t, "SUCCESS")
  <2>1. l = "idle" /\ status' = (IF t = "io" THEN "SUCCESS" ELSE status)
    BY <1>4, <1>8 DEF Return, Steps
  <2>2. CASE t = "io"
    <3>1. pc'["event"] = pc["event"] /\ pc'["io"] = "idle" /\ ~empty
      BY <1>3, <1>8, <2>1, <2>2, ThreadsAre DEF IInv, EmptyInv
    <3> QED
      BY <1>0, <1>1, <1>5, <1>8, <2>1, <2>2, <3>1, ResetMaps DEF Contract!Next
  <2>3. CASE t = "event"
    <3>1. pc'["io"] = pc["io"] /\ pc["event"] # "idle"
      BY <1>3, <1>5, <2>3, ThreadsAre
    <3> QED
      BY <1>0, <1>1, <1>8, <2>1, <2>3, <3>1, EventMaps DEF Contract!Next
  <2> QED
    BY <1>0, <2>2, <2>3
<1>9. ASSUME NEW st \in {"NO_MEDIA", "DEVICE_ERROR", "UNSUPPORTED"}, Return(t, st)
      PROVE  /\ l = "idle" /\ (t = "event" => status' = status)
             /\ t = "io" => status' # "SUCCESS"
  BY <1>4, <1>9 DEF Return, Steps
<1>10. CASE InitializeDetect(t)
  BY <1>4, <1>6, <1>7, <1>9, <1>10 DEF InitializeDetect, Absent, Steps, At
<1>11. CASE InitializeClear(t)
  BY <1>4, <1>7, <1>11 DEF InitializeClear, Absent, request, Steps
<1>12. CASE InitializeMode(t)
  BY <1>4, <1>6, <1>7, <1>9, <1>12 DEF InitializeMode, Absent, Steps, At
<1>13. CASE InitializeIdentify(t)
  BY <1>7, <1>8, <1>9, <1>13 DEF InitializeIdentify, Absent, NextMediaId
<1> QED
  BY <1>10, <1>11, <1>12, <1>13

LEMMA TransferMaps ==
  ASSUME IInv, TransferCommand \/ TransferData \/ TransferFailed
  PROVE  Contract!Next
<1>0. pc \in [Threads -> Steps] /\ pc["io"] \in {"command", "data", "failed"}
  BY DEF IInv, TypeOK, TransferCommand, TransferData, TransferFailed, At
<1>1. Doing = "transfer" /\ UNCHANGED <<req, empty>>
  BY <1>0
  DEF Doing, TransferCommand, TransferData, TransferFailed, At, published, request
<1>2. PICK l \in {"data", "failed", "idle"} : Goto("io", l)
  BY DEF TransferCommand, TransferData, TransferFailed, Return
<1>3. pc'["io"] = l /\ pc'["event"] = pc["event"]
  BY <1>0, <1>2, Moved, ThreadsAre DEF Steps
<1>4. \A k \in Steps : Goto("io", k) => k = l
  BY <1>0, <1>3, Moved, ThreadsAre
<1>5. UNCHANGED ~At("event", "idle")
  BY <1>3 DEF At
<1>6. CASE /\ l # "idle" /\ UNCHANGED <<mediaPresent, mediaId, named, status, source>>
  <2>1. Doing' = "transfer"
    BY <1>3, <1>6 DEF Doing, At
  <2> QED
    BY <1>1, <1>3, <1>6, <2>1, AroundMaps DEF Contract!Next
<1>7. CASE TransferCommand
  BY <1>4, <1>6, <1>7 DEF TransferCommand, published, request, Steps
<1>8. CASE TransferData
  <2>1. UNCHANGED <<mediaPresent, mediaId, named>> /\ pc["io"] = "data"
    BY <1>8 DEF TransferData, published, At
  <2>2. CASE l = "failed"
    BY <1>4, <1>6, <1>8, <2>1, <2>2 DEF TransferData, Return, Steps
  <2>3. CASE l = "idle"
    <3>1. source' = slot.medium /\ status' = "SUCCESS"
      BY <1>4, <1>8, <2>3 DEF TransferData, Return, Steps
    <3>2. Contract!Finish(TRUE)
      BY <1>3, <2>3, <3>1, FinishMaps
    <3>3. ~empty
      BY <2>1 DEF IInv, EmptyInv, At
    <3>4. req.op = "read" /\ ~(disturbed \/ slot.card = "halfway") =>
            source' = named[req.id]
      <4> SUFFICES ASSUME req.op = "read", ~disturbed, slot.card # "halfway"
                   PROVE  slot.medium = named[req.id]
        BY <3>1
      <4>1. slot.card = "ready"
        BY <1>4, <1>8, <2>3 DEF TransferData, TakesData, Steps
      <4> QED
        BY <2>1, <4>1 DEF IInv, CardInv, TransferInv, At
    <3>5. Contract!TransferEnds
      BY <1>1, <1>5, <2>1, <3>2, <3>3, <3>4 DEF Contract!TransferEnds, Contract!media
    <3> QED
      BY <3>5 DEF Contract!Next
  <2> QED
    BY <1>2, <1>4, <1>8, <2>2, <2>3 DEF TransferData, Return, Steps
<1>9. CASE TransferFailed
  <2>1. l = "idle" /\ status' # "SUCCESS" /\ UNCHANGED named
    BY <1>4, <1>9 DEF TransferFailed, Return, Steps
  <2>2. Contract!Finish(FALSE)
    BY <1>3, <2>1, FinishMaps
  <2>3. CASE TRUE \in CardStillThere /\ UNCHANGED <<mediaPresent, mediaId>>
    <3>1. ~empty
      BY <2>3 DEF CardStillThere, DetectCardPresence, Answers, IInv, EmptyInv
    <3>2. Contract!TransferEnds
      BY <1>1, <1>5, <2>1, <2>2, <2>3, <3>1 DEF Contract!TransferEnds, Contract!media
    <3> QED
      BY <3>2 DEF Contract!Next
  <2>4. CASE mediaPresent' = FALSE /\ mediaId' = mediaId + 1
    <3>1. Contract!Withdrawn
      BY <2>1, <2>4 DEF Contract!Withdrawn
    <3>2. Contract!TransferEnds
      BY <1>1, <1>5, <2>2, <3>1 DEF Contract!TransferEnds
    <3> QED
      BY <3>2 DEF Contract!Next
  <2> QED
    BY <1>9, <2>3, <2>4 DEF TransferFailed, NextMediaId
<1> QED
  BY <1>7, <1>8, <1>9

LEMMA CallsMap ==
  ASSUME IInv,
         \/ \E r \in Request : CallTransfer(r)
         \/ CallFlush
         \/ \E extended \in BOOLEAN : CallReset(extended)
  PROVE  Contract!Next
<1>0. pc \in [Threads -> Steps] /\ pc["io"] = "idle"
  BY DEF IInv, TypeOK, CallTransfer, CallFlush, CallReset, Calls, At
<1>1. UNCHANGED <<mediaPresent, mediaId, named>>
  BY DEF CallTransfer, CallFlush, CallReset, published
<1>2. PICK l \in {"command", "detect", "idle"} : Goto("io", l)
  BY DEF CallTransfer, CallFlush, CallReset, Return
<1>3. pc'["io"] = l /\ pc'["event"] = pc["event"]
  BY <1>0, <1>2, Moved, ThreadsAre DEF Steps
<1>4. \A k \in Steps : Goto("io", k) => k = l
  BY <1>0, <1>3, Moved, ThreadsAre
<1>5. CASE \E r \in Request : CallTransfer(r)
  <2>1. PICK r \in Request : CallTransfer(r)
    BY <1>5
  <2>2. CASE Refusal(r) = "none" /\ Goto("io", "command") /\ UNCHANGED status
    <3>1. l = "command" /\ mediaPresent /\ r.id = mediaId /\ req' = r
      BY <1>4, <2>1, <2>2 DEF Refusal, MediaMatches, Steps, CallTransfer
    <3> QED
      BY <1>0, <1>1, <1>3, <2>2, <3>1, CallMaps DEF Contract!Next
  <2>3. CASE Refusal(r) # "none" /\ Return("io", Refusal(r))
    <3>1. l = "idle" /\ status' # "SUCCESS"
      BY <1>4, <2>3 DEF Refusal, Return, Steps
    <3> QED
      BY <1>0, <1>1, <1>3, <3>1, CallMaps DEF Contract!Next
  <2> QED
    BY <2>1, <2>2, <2>3 DEF CallTransfer
<1>6. CASE CallFlush
  <2>1. l = "idle" /\ (status' = "SUCCESS" => mediaPresent)
    BY <1>4, <1>6 DEF CallFlush, Return, Steps
  <2> QED
    BY <1>0, <1>1, <1>3, <2>1, CallMaps DEF Contract!Next
<1>7. CASE \E extended \in BOOLEAN : CallReset(extended)
  <2>1. \/ l = "idle" /\ (status' = "SUCCESS" => mediaPresent)
        \/ l = "detect" /\ mediaPresent /\ status' = status
    BY <1>4, <1>7 DEF CallReset, ResetRefused, Return, Steps
  <2> QED
    BY <1>0, <1>1, <1>3, <2>1, CallMaps DEF Contract!Next
<1> QED
  BY <1>5, <1>6, <1>7

LEMMA CallbacksMap ==
  ASSUME IInv,
         \/ \E l \in {"hotplug", "timer"} : EventFires(l)
         \/ Hotplug \/ Timer
  PROVE  Contract!Next
<1>0. pc \in [Threads -> Steps]
  BY DEF IInv, TypeOK
<1>1. UNCHANGED <<named, req, status, source, empty>>
  BY DEF EventFires, Hotplug, Timer, published, request
<1>2. PICK l \in Steps : Goto("event", l) /\ (l = "idle" => pc["event"] # "idle")
  BY DEF EventFires, Hotplug, Timer, Steps, At
<1>3. pc'["event"] = l /\ pc'["io"] = pc["io"]
  BY <1>0, <1>2, Moved, ThreadsAre
<1>4. \/ UNCHANGED <<mediaPresent, mediaId>>
      \/ pc["event"] # "idle" /\ mediaPresent' = FALSE /\ mediaId' = mediaId + 1
  BY DEF EventFires, Hotplug, Timer, CheckCardStatus, NextMediaId, published, At
<1> QED
  BY <1>1, <1>2, <1>3, <1>4, EventMaps DEF Contract!Next

LEMMA SlotMaps ==
  ASSUME IInv, Remove \/ \E m \in Media : Insert(m) PROVE Contract!Next
<1>1. UNCHANGED <<pc, mediaPresent, mediaId, named, req, status, source>>
  BY DEF Remove, Insert, published, request
<1>2. empty' => empty
  BY DEF Remove, Insert, request
<1>3. Doing' = Doing
  BY <1>1 DEF Doing, At
<1> QED
  BY <1>1, <1>2, <1>3, AroundMaps DEF Contract!Next

(* However transfers, Resets, callbacks and swaps of the card interleave,  *)
(* SdCardMedia.c keeps the contract of removable media: it takes requests  *)
(* only under the MediaId of the media present, its reads are of the       *)
(* medium that id names, and absent media comes back only by an event.     *)
THEOREM RemovableMediaImplemented == Spec => ImplementsRemovableMedia
<1>1. Init => Contract!Init
  <2> SUFFICES ASSUME Init PROVE Contract!Init
    OBVIOUS
  <2>1. mediaPresent \in BOOLEAN /\ mediaId \in Ids /\ named \in [Ids -> Media] /\ source \in Media
    BY InitIInv DEF IInv, TypeOK
  <2>2. Doing = "nothing"
    BY ThreadsAre DEF Init, Doing, At
  <2>3. {disturbed \/ slot.card = "halfway", empty, ~At("event", "idle")} \subseteq BOOLEAN
    BY DEF Init
  <2> QED
    BY <2>1, <2>2, <2>3 DEF Contract!Init
<1>2. IInv /\ [Next]_vars => [Contract!Next]_Contract!vars
  <2>1. CASE IInv /\ Next
    <3>1. TypeOK
      BY <2>1 DEF IInv
    <3> QED
      BY <2>1, <3>1, NextTransfer, InitializeMaps, TransferMaps, CallsMap, CallbacksMap,
         SlotMaps
  <2>2. CASE UNCHANGED vars
    BY <2>2 DEF vars, Contract!vars, Contract!media, Doing, At
  <2> QED
    BY <2>1, <2>2
<1> QED
  BY <1>1, <1>2, InductiveInvariant, PTL DEF Spec, ImplementsRemovableMedia, Contract!Spec
=============================================================================
