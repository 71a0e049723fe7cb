----------------------------- MODULE SdCardMedia -----------------------------
(***************************************************************************)
(* Block I/O of a published card in SPI mode (SdCardMedia.c) over a slot   *)
(* whose card is removed, inserted and swapped at any moment, with the two *)
(* callbacks of the driver, SdCardHotplugNotification and                  *)
(* SdCardTimerCallback.                                                    *)
(*                                                                         *)
(* The mode is fixed: without a controller handle no fallback changes it   *)
(* (SdCardDxe, ModeIsFixed).  The CSD is recorded, since without it no     *)
(* card is ever published (SdCardDxe, NothingPublishedWithoutCsd).  The    *)
(* transport is what CardSlot defines, the contract of which SdCardSpi     *)
(* implements (BlockTransport): data moves only for a card that was        *)
(* brought up, which a card just inserted is not.                          *)
(*                                                                         *)
(* An event runs above the level of a Block I/O caller, so when it fires   *)
(* during a call, it runs to its end before the call goes on.  Nothing in  *)
(* the driver registers the callbacks yet: as built, no event fires.       *)
(***************************************************************************)
EXTENDS CardSlot

CONSTANTS
  Faulty,        \* may a card in the slot fail to answer or to transfer?
  LastBlock,     \* BlockMedia.LastBlock
  MaxId          \* bound on MediaId

ASSUME MediaAssumption ==
  /\ {FreshAnswers, Faulty} \subseteq BOOLEAN
  /\ LastBlock \in Nat /\ MaxMedia \in Nat \ {0} /\ MaxId \in Nat \ {0}

Threads == {"io", "event"}
Ids     == 0 .. MaxId

Request == [op : {"read", "write"}, id : Ids, lba : Nat, count : Nat \ {0}]

VARIABLES
  mediaPresent, mediaId,  \* BlockMedia.MediaPresent, BlockMedia.MediaId
  csdOf,                  \* the medium whose CSD is in the private structure
  pc,                     \* where each thread is
  req,                    \* the Block I/O request in progress
  status,                 \* status of the Block I/O call that returned last
  source,                 \* history: the medium that request got its data from
  disturbed,              \* did an event use the bus during its transfer?
  named,                  \* history: MediaId -> medium published under it
  empty                   \* history: was the slot empty since the call began?

vars == <<slot, mediaPresent, mediaId, csdOf, pc, req, status, source,
          disturbed, named, empty>>

published == <<mediaPresent, mediaId, named>>
request   == <<req, status, source, disturbed, empty>>

At(t, l)   == pc[t] = l
Goto(t, l) == pc' = [pc EXCEPT ![t] = l]

\* An event runs to its end first.
Runs(t) == t = "event" \/ At("event", "idle")

\* A call returns.  Nobody sees what an event's call returned.
Return(t, st) ==
  /\ Goto(t, "idle")
  /\ status' = IF t = "io" THEN st ELSE status

\* An event that uses the bus gets between the checks of a transfer, its
\* command and its data.
Bus(t) ==
  disturbed' = (disturbed \/ (t = "event" /\ pc["io"] \in {"command", "data"}))

Works == IF Faulty THEN BOOLEAN ELSE {TRUE}

-----------------------------------------------------------------------------
(* SdCardInitialize, called by Reset and by the hotplug notification       *)

\* Mutant: a failed initialization leaves the media as it was.
AbsentKept == mediaPresent

\* BlockMedia.MediaPresent of media that is being initialized, or was not.
Absent == FALSE

\* May CMD13 be answered?
DetectCardPresence ==
  IF Answers THEN Works ELSE {FALSE}

InitializeDetect(t) ==
  /\ Runs(t) /\ At(t, "detect")
  /\ Bus(t)
  /\ \/ /\ TRUE \in DetectCardPresence
        /\ Goto(t, "clear")
        /\ UNCHANGED <<mediaPresent, status>>
     \/ /\ FALSE \in DetectCardPresence
        /\ mediaPresent' = Absent
        /\ Return(t, "NO_MEDIA")
  /\ UNCHANGED <<slot, mediaId, csdOf, req, source, named, empty>>

\* SdCardInitializeSpi first marks the media absent ...
InitializeClear(t) ==
  /\ Runs(t) /\ At(t, "clear")
  /\ mediaPresent' = Absent
  /\ Goto(t, "bringUp")
  /\ UNCHANGED <<slot, mediaId, csdOf, named, request>>

(* ... and then brings up whichever card is in the slot.  No fallback      *)
(* follows a failure.                                                      *)
InitializeMode(t) ==
  /\ Runs(t) /\ At(t, "bringUp")
  /\ Bus(t)
  /\ \/ /\ BroughtUp
        /\ csdOf' = slot.medium
        /\ Goto(t, "identify")
        /\ UNCHANGED <<mediaPresent, status>>
     \/ /\ ~slot.present \/ Faulty
        /\ slot' \in LeftBehind
        /\ mediaPresent' = Absent
        /\ Return(t, "DEVICE_ERROR")
        /\ UNCHANGED csdOf
  /\ UNCHANGED <<mediaId, req, source, named, empty>>

\* Mutant: a card keeps the MediaId of the one before.
SameMediaId(id) == id

\* Mutant: the MediaId is counted down.
LastMediaId(id) == id - 1

NextMediaId(id) == id + 1

InitializeIdentify(t) ==
  /\ Runs(t) /\ At(t, "identify")
  /\ \/ /\ mediaPresent' = TRUE
        /\ mediaId' = NextMediaId(mediaId)
        /\ named' = [named EXCEPT ![mediaId'] = csdOf]
        /\ Return(t, "SUCCESS")
     \/ /\ FALSE \in Works      \* a CSD of unknown structure
        /\ mediaPresent' = Absent
        /\ Return(t, "UNSUPPORTED")
        /\ UNCHANGED <<mediaId, named>>
  /\ UNCHANGED <<slot, csdOf, req, source, disturbed, empty>>
-----------------------------------------------------------------------------
(* Block I/O                                                               *)

\* Bound: calls and events stop when MediaId may reach MaxId.
IdsLeft == mediaId + 2 <= MaxId

Calls == At("io", "idle") /\ At("event", "idle") /\ IdsLeft

\* Mutant: the MediaId of a request is not compared.
MediaUnchanged(id) == TRUE

MediaMatches(id) == id = mediaId

(* The checks of ReadBlocks and WriteBlocks.  Of a request only the first  *)
(* block is compared with LastBlock.                                       *)
Refusal(r) ==
  IF ~mediaPresent            THEN "NO_MEDIA"
  ELSE IF ~MediaMatches(r.id) THEN "MEDIA_CHANGED"
  ELSE IF r.lba > LastBlock   THEN "INVALID_PARAMETER"
  ELSE "none"

CallTransfer(r) ==
  /\ Calls
  /\ req' = r /\ disturbed' = FALSE /\ empty' = ~slot.present
  /\ source' = 0
  /\ IF Refusal(r) = "none" THEN Goto("io", "command") /\ UNCHANGED status
                            ELSE Return("io", Refusal(r))
  /\ UNCHANGED <<slot, csdOf, published>>

\* The command of a transfer is accepted by a card that takes data.
TransferCommand ==
  /\ Runs("io") /\ At("io", "command")
  /\ \/ TakesData /\ Goto("io", "data")
     \/ /\ FALSE \in Works \/ ~TakesData
        /\ Goto("io", "failed")
  /\ UNCHANGED <<slot, csdOf, published, request>>

(* The data.  Traffic of an event in between may make anything of it; the  *)
(* status of a multi-block write is that of the wait that ends it.         *)
TransferData ==
  /\ Runs("io") /\ At("io", "data")
  /\ \/ /\ disturbed \/ TakesData \/ (req.op = "write" /\ req.count > 1)
        /\ source' = slot.medium
        /\ Return("io", "SUCCESS")
     \/ /\ disturbed \/ FALSE \in Works \/ ~TakesData
        /\ Goto("io", "failed")
        /\ UNCHANGED <<source, status>>
  /\ UNCHANGED <<slot, csdOf, published, req, disturbed, empty>>

\* Mutant: a failed transfer does not look for the card.
AbsentUnnoticed == {TRUE}

CardStillThere == DetectCardPresence

\* A failed transfer asks whether the card is still there.
TransferFailed ==
  /\ Runs("io") /\ At("io", "failed")
  /\ \/ /\ TRUE \in CardStillThere
        /\ Return("io", "DEVICE_ERROR")
        /\ UNCHANGED <<mediaPresent, mediaId>>
     \/ /\ FALSE \in CardStillThere
        /\ mediaPresent' = FALSE
        /\ mediaId' = NextMediaId(mediaId)
        /\ Return("io", "NO_MEDIA")
  /\ UNCHANGED <<slot, csdOf, named, req, source, disturbed, empty>>

\* Mutant: Reset does not ask for the media first.
ResetAnyway == FALSE

ResetRefused == ~mediaPresent

\* Reset, which reinitializes the card if extended verification is asked.
CallReset(extended) ==
  /\ Calls
  /\ empty' = ~slot.present /\ disturbed' = FALSE
  /\ IF ResetRefused  THEN Return("io", "NO_MEDIA")
     ELSE IF extended THEN Goto("io", "detect") /\ UNCHANGED status
                      ELSE Return("io", "SUCCESS")
  /\ UNCHANGED <<slot, csdOf, published, req, source>>

\* FlushBlocks does not look at the card.
CallFlush ==
  /\ Calls
  /\ Return("io", IF mediaPresent THEN "SUCCESS" ELSE "NO_MEDIA")
  /\ UNCHANGED <<slot, csdOf, published, req, source, disturbed, empty>>

-----------------------------------------------------------------------------
(* The callbacks                                                           *)

EventFires(l) ==
  /\ At("event", "idle") /\ IdsLeft
  /\ Goto("event", l)
  /\ UNCHANGED <<slot, csdOf, published, request>>

(* SdCardHotplugNotification: of three looks at the card the last counts.  *)
Hotplug ==
  /\ At("event", "hotplug")
  /\ Bus("event")
  /\ \E there \in DetectCardPresence :
       \/ /\ there /\ ~mediaPresent
          /\ Goto("event", "detect")
          /\ UNCHANGED <<mediaPresent, mediaId>>
       \/ /\ ~there /\ mediaPresent
          /\ mediaPresent' = FALSE
          /\ mediaId' = NextMediaId(mediaId)
          /\ Goto("event", "idle")
       \/ /\ there <=> mediaPresent
          /\ Goto("event", "idle")
          /\ UNCHANGED <<mediaPresent, mediaId>>
  /\ UNCHANGED <<slot, csdOf, named, req, status, source, empty>>

CheckCardStatus ==
  /\ Bus("event")
  /\ \/ TRUE \in DetectCardPresence /\ UNCHANGED <<mediaPresent, mediaId>>
     \/ /\ FALSE \in DetectCardPresence
        /\ mediaPresent' = FALSE
        /\ mediaId' = NextMediaId(mediaId)

\* SdCardTimerCallback.
Timer ==
  /\ At("event", "timer")
  /\ Goto("event", "idle")
  /\ \/ mediaPresent  /\ CheckCardStatus
     \/ ~mediaPresent /\ UNCHANGED <<mediaPresent, mediaId, disturbed>>
  /\ UNCHANGED <<slot, csdOf, named, req, status, source, empty>>

-----------------------------------------------------------------------------
(* The slot                                                                *)

Remove ==
  /\ Removed
  /\ UNCHANGED <<csdOf, pc, published, request>>

Insert(m) ==
  /\ Inserted(m)
  /\ empty' = FALSE
  /\ UNCHANGED <<csdOf, pc, published, req, status, source, disturbed>>

-----------------------------------------------------------------------------
\* Start has published medium 0 under MediaId 1.
Init ==
  /\ slot = [present |-> TRUE, medium |-> 0, card |-> "ready"]
  /\ mediaPresent = TRUE /\ mediaId = 1 /\ csdOf = 0
  /\ pc = [t \in Threads |-> "idle"]
  /\ req = [op |-> "read", id |-> 1, lba |-> 0, count |-> 1]
  /\ status = "SUCCESS" /\ source = 0 /\ disturbed = FALSE
  /\ named = [i \in Ids |-> 0] /\ empty = FALSE

Next ==
  \/ \E t \in Threads : InitializeDetect(t) \/ InitializeClear(t)
                        \/ InitializeMode(t) \/ InitializeIdentify(t)
  \/ \E op \in {"read", "write"}, id \in 1 .. mediaId,
        lba \in 0 .. LastBlock + 1, count \in 1 .. 2 :
       CallTransfer([op |-> op, id |-> id, lba |-> lba, count |-> count])
  \/ TransferCommand \/ TransferData \/ TransferFailed \/ CallFlush
  \/ \E extended \in BOOLEAN : CallReset(extended)
  \/ EventFires("hotplug") \/ EventFires("timer") \/ Hotplug \/ Timer
  \/ Remove \/ \E m \in Media : Insert(m)

Spec == Init /\ [][Next]_vars

-----------------------------------------------------------------------------
(* Properties                                                              *)

Steps == {"idle", "detect", "clear", "bringUp", "identify", "command", "data",
          "failed", "hotplug", "timer"}

Statuses == {"SUCCESS", "NO_MEDIA", "MEDIA_CHANGED", "INVALID_PARAMETER",
             "DEVICE_ERROR", "UNSUPPORTED"}

\* Every variable has its type.
TypeOK ==
  /\ slot \in Slot /\ mediaPresent \in BOOLEAN /\ mediaId \in Ids
  /\ csdOf \in Media /\ pc \in [Threads -> Steps]
  /\ req \in Request /\ status \in Statuses /\ source \in Media
  /\ disturbed \in BOOLEAN /\ empty \in BOOLEAN /\ named \in [Ids -> Media]

(* A read that succeeds under a MediaId got its data from the medium that  *)
(* was published under it, wherever cards were swapped, noticed or not,    *)
(* unless an event used the bus between its checks and its data, or its    *)
(* bring-up of another card failed before a Reset published the first.     *)
ReadIsOfNamedMedium ==
  [][At("io", "data") /\ pc'["io"] = "idle" /\ req.op = "read" /\ ~disturbed
       /\ slot.card # "halfway" => source' = named[req.id]]_vars

(* Present media has the geometry of the medium its MediaId names.         *)
GeometryIsOfNamedMedium ==
  mediaPresent /\ (\A t \in Threads : At(t, "idle")) => csdOf = named[mediaId]

(* A call that looks at the card, which a transfer past its checks and a   *)
(* Reset with extended verification do, fails if the slot was empty since  *)
(* it began, and leaves the media absent: no call after it takes the media *)
(* for present.  (The others do not look: on an empty slot FlushBlocks and *)
(* a Reset without verification succeed, and a transfer that is refused,   *)
(* for its MediaId or its first block, leaves the media present.)          *)
AbsenceIsReported ==
  [][~At("io", "idle") /\ pc'["io"] = "idle" /\ empty /\ ~disturbed =>
       status' # "SUCCESS" /\ ~mediaPresent']_vars

(* Once media is absent, every call to Block I/O, Reset included, returns  *)
(* at once: only an event brings a card back, and as built none fires.     *)
OnlyEventsBringBack ==
  [][At("io", "idle") /\ ~mediaPresent =>
       pc'["io"] = "idle" /\ (mediaPresent' => ~At("event", "idle"))]_vars

\* The request in progress as its caller sees it.
Doing ==
  IF At("io", "idle") THEN "nothing"
  ELSE IF pc["io"] \in {"command", "data", "failed"} THEN "transfer"
  ELSE "reset"

Contract ==
  INSTANCE RemovableMedia
  WITH present <- mediaPresent, id <- mediaId, name <- named, doing <- Doing,
       request <- req, ok <- status = "SUCCESS",
       cut <- disturbed \/ slot.card = "halfway", notified <- ~At("event", "idle")

(* Transfers, Reset and both callbacks, interleaved with each other and    *)
(* with a slot whose card is swapped at any moment, keep the contract of   *)
(* removable media.                                                        *)
ImplementsRemovableMedia == Contract!Spec
=============================================================================
