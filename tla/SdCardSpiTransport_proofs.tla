---------------------- MODULE SdCardSpiTransport_proofs ----------------------
(***************************************************************************)
(* The SPI transport implements the contract that Block I/O is modelled    *)
(* over (BlockTransport), for every card, delay, retry and swap.           *)
(***************************************************************************)
EXTENDS SdCardSpi_proofs

(* A card that was brought up is never idle again while the driver counts  *)
(* on it, and only such a card is transferred to.                          *)
Fit ==
  /\ pc \in {"command", "block", "stop"} => ready
  /\ Works /\ ready => card.mode # "idle"

FitInv == IInv /\ Fit

-----------------------------------------------------------------------------
(* The slot and the requests as the contract sees them                     *)

BringUpPCs == {"clocks"} \union InitPCs

LEMMA SeenFields ==
  /\ SlotSeen.present = card.present /\ SlotSeen.medium = card.medium
  /\ SlotSeen.card = IF card.mode = "sd" THEN "fresh"
                     ELSE IF card.mode = "idle" THEN "reset"
                     ELSE IF ready THEN "ready" ELSE "halfway"
  BY DEF SlotSeen

LEMMA Asked ==
  /\ pc = "idle" => RequestSeen = "nothing"
  /\ pc = "command" => RequestSeen = "command"
  /\ pc = "block" => RequestSeen = "data"
  /\ pc = "stop" /\ req.op = "write" => RequestSeen = "end"
  /\ pc = "stop" /\ req.op # "write" => RequestSeen = "nothing"
  /\ pc \in BringUpPCs => RequestSeen = "bringUp"
  BY DEF RequestSeen, BringUpPCs, InitPCs

LEMMA AskedNext ==
  /\ pc' = "idle" => RequestSeen' = "nothing"
  /\ pc' = "command" => RequestSeen' = "command"
  /\ pc' = "block" => RequestSeen' = "data"
  /\ pc' = "stop" /\ req'.op = "write" => RequestSeen' = "end"
  /\ pc' = "stop" /\ req'.op # "write" => RequestSeen' = "nothing"
  /\ pc' \in BringUpPCs => RequestSeen' = "bringUp"
  BY DEF RequestSeen, BringUpPCs, InitPCs

LEMMA Begins ==
  ASSUME NEW d, d # "nothing", RequestSeen' = d PROVE Transport!Begin(d)
  BY DEF Transport!Begin

LEMMA Finishes ==
  ASSUME RequestSeen' = "nothing"
  PROVE  /\ status' = "SUCCESS" => Transport!Finish(TRUE)
         /\ status' # "SUCCESS" => Transport!Finish(FALSE)
  BY DEF Transport!Finish

\* A card that hears the driver and was brought up takes data.
LEMMA FitTakesData ==
  ASSUME FitInv, Works, NEW c, c # "CMD0", Hears(c), ready
  PROVE  Transport!TakesData
<1>1. card.present /\ card.mode # "sd" /\ card.mode # "idle"
  BY DEF FitInv, Fit, Hears
<1> QED
  BY <1>1, SeenFields DEF Transport!TakesData

\* A step that does not touch the card's mode is not seen.
LEMMA Unseen ==
  ASSUME card'.present = card.present, card'.medium = card.medium,
         card'.mode = card.mode, UNCHANGED ready
  PROVE  UNCHANGED SlotSeen
  BY DEF SlotSeen

\* What a command of an initialization leaves of the card.
LEMMA Left ==
  ASSUME IInv, Same(card'), ready' = FALSE,
         card'.mode = card.mode \/ card'.mode \in {"idle", "ready"}
  PROVE  SlotSeen' \in Transport!LeftBehind
<1>1. CASE ~card.present
  <2>1. card' = card /\ card.mode = "sd"
    BY <1>1 DEF Same, IInv, Absent
  <2>2. SlotSeen' = SlotSeen
    BY <2>1 DEF SlotSeen
  <2> QED
    BY <1>1, <2>2, SeenFields DEF Transport!LeftBehind
<1>2. CASE card.present
  <2> DEFINE c == IF card'.mode = "sd" THEN "fresh"
                  ELSE IF card'.mode = "idle" THEN "reset" ELSE "halfway"
  <2>1. SlotSeen' = [present |-> card.present, medium |-> card.medium, card |-> c]
    BY DEF SlotSeen, Same
  <2>2. SlotSeen' = [SlotSeen EXCEPT !.card = c]
    BY <2>1 DEF SlotSeen
  <2>3. c \in {SlotSeen.card, "reset", "halfway"}
    BY SeenFields
  <2> QED
    BY <1>2, <2>2, <2>3, SeenFields DEF Transport!LeftBehind
<1> QED
  BY <1>1, <1>2, InvFacts, CardFields

-----------------------------------------------------------------------------
(* Bringing a card up                                                      *)

Went(places) == pc' \in places \/ (pc' = "idle" /\ status' # "SUCCESS")

LEMMA BringUpGoesOn ==
  ASSUME IInv, pc \in BringUpPCs, Went(BringUpPCs), Same(card'), ready' = FALSE,
         card'.mode = card.mode \/ card'.mode \in {"idle", "ready"}
  PROVE  Transport!BringUp
<1>1. RequestSeen = "bringUp" /\ SlotSeen' \in Transport!LeftBehind
  BY Asked, Left
<1>2. CASE pc' \in BringUpPCs
  <2>1. Transport!Begin("bringUp")
    BY <1>2, AskedNext, Begins
  <2> QED
    BY <1>1, <2>1 DEF Transport!BringUp
<1>3. CASE pc' = "idle" /\ status' # "SUCCESS"
  <2>1. Transport!Finish(FALSE)
    BY <1>3, AskedNext, Finishes
  <2> QED
    BY <1>1, <2>1 DEF Transport!BringUp
<1> QED
  BY <1>2, <1>3 DEF Went

\* What a command may leave of the card's mode.
LEMMA ModeLeft ==
  ASSUME IInv, Works, NEW c, NEW r, NEW after \in Card, after.medium = card.medium,
         after.present = card.present, after.kind = card.kind,
         NEW x \in Exchange(c, r, after)
  PROVE  Same(x.card) /\ x.card.mode \in {card.mode, after.mode}
  BY InvFacts, Answered

LEMMA ClocksSeen ==
  ASSUME IInv, InitClocks PROVE Transport!BringUp
<1>1. pc = "clocks" /\ pc' = "cmd0" /\ ready' = FALSE /\ card' = card
  BY DEF InitClocks, Goto
<1>2. Same(card')
  BY <1>1, InvFacts DEF Same
<1> QED
  BY <1>1, <1>2, BringUpGoesOn DEF Went, BringUpPCs, InitPCs

LEMMA CommandSeen ==
  ASSUME IInv, Works, NEW c, NEW r, NEW after \in Card, after.medium = card.medium,
         after.present = card.present, after.kind = card.kind,
         after.mode \in {card.mode, "idle", "ready"}, NEW accepted, NEW next \in InitPCs,
         pc \in InitPCs, InitCommand(c, r, after, accepted, next), UNCHANGED ready
  PROVE  Transport!BringUp
<1>1. PICK x \in Exchange(c, r, after) :
        /\ card' = x.card
        /\ IF x.st = "SUCCESS" /\ x.r1 \in accepted
           THEN Goto(next) ELSE Return("DEVICE_ERROR")
  BY DEF InitCommand
<1>2. Same(card') /\ card'.mode \in {card.mode, "idle", "ready"}
  BY <1>1, ModeLeft
<1>3. Went(BringUpPCs)
  BY <1>1 DEF Went, Goto, Return, BringUpPCs
<1> QED
  BY <1>2, <1>3, InvFacts, BringUpGoesOn DEF BringUpPCs

LEMMA ResetSeen ==
  ASSUME IInv, InitReset, Works PROVE Transport!BringUp
<1> DEFINE after == [Quiet(card) EXCEPT !.mode = "idle"]
<1>1. pc = "cmd0" /\ UNCHANGED ready /\ InitCommand("CMD0", "idle", after, {"idle"}, "cmd8")
  BY DEF InitReset, driverVars
<1>2. after \in Card /\ after.medium = card.medium /\ after.present = card.present
        /\ after.kind = card.kind /\ after.mode = "idle"
  BY InvFacts, QuietCard DEF Card
<1> HIDE DEF after
<1> QED
  BY <1>1, <1>2, CommandSeen DEF InitPCs

LEMMA BlockLengthSeen ==
  ASSUME IInv, InitBlockLength, Works PROVE Transport!BringUp
<1>1. pc = "cmd16" /\ UNCHANGED ready /\ InitCommand("CMD16", R1Now, card, {"ready"}, "cmd9")
  BY DEF InitBlockLength, driverVars
<1> QED
  BY <1>1, InvFacts, CommandSeen DEF InitPCs

LEMMA VersionSeen ==
  ASSUME IInv, InitVersion, Works PROVE Transport!BringUp
<1> DEFINE r == IF card.kind = "V1" THEN "illegal"
                ELSE IF ChecksCrc /\ ~Cmd8IsExact THEN "crc" ELSE "idle"
<1>1. pc = "cmd8" /\ UNCHANGED ready
  BY DEF InitVersion
<1>2. PICK x \in Exchange("CMD8", r, card) :
        /\ card' = x.card
        /\ IF x.st = "SUCCESS" /\ x.r1 = "idle"
           THEN \E seen \in PatternSeen(x.delay) :
                  IF seen THEN Goto("acmd41") ELSE Return("DEVICE_ERROR")
           ELSE Goto("acmd41")
  BY DEF InitVersion
<1> HIDE DEF r
<1>3. Same(card') /\ card'.mode = card.mode
  BY <1>2, InvFacts, ModeLeft
<1>4. Went(BringUpPCs)
  BY <1>2 DEF Went, Goto, Return, BringUpPCs, InitPCs
<1> QED
  BY <1>1, <1>3, <1>4, InvFacts, BringUpGoesOn DEF BringUpPCs, InitPCs

LEMMA OpCondSeen ==
  ASSUME IInv, InitOpCond, Works PROVE Transport!BringUp
<1> DEFINE up == [card EXCEPT !.mode = "ready"]
<1>1. pc = "acmd41" /\ UNCHANGED ready
  BY DEF InitOpCond
<1>2. PICK accepted \in {x.st = "SUCCESS" : x \in Exchange("CMD55", R1Now, card)} :
        LET hcs == accepted /\ cardType = "SC"
            answers == Exchange("ACMD41", "idle", card) \union
              (IF card.kind = "HC" /\ ~hcs THEN {} ELSE Exchange("ACMD41", "ready", up))
        IN \E y \in answers :
             /\ card' = y.card
             /\ \/ Return("TIMEOUT")
                \/ Goto(IF cardType = "SC" THEN "cmd58" ELSE "cmd16")
                \/ Goto("acmd41")
  BY DEF InitOpCond
<1>3. PICK y \in Exchange("ACMD41", "idle", card) \union Exchange("ACMD41", "ready", up) :
        /\ card' = y.card
        /\ \/ Return("TIMEOUT")
           \/ Goto(IF cardType = "SC" THEN "cmd58" ELSE "cmd16")
           \/ Goto("acmd41")
  BY <1>2
<1>4. up \in Card /\ up.medium = card.medium /\ up.present = card.present
        /\ up.kind = card.kind /\ up.mode = "ready"
  BY InvFacts DEF Card
<1> HIDE DEF up
<1>5. Same(card') /\ card'.mode \in {card.mode, "ready"}
  BY <1>3, <1>4, InvFacts, ModeLeft
<1>6. Went(BringUpPCs)
  BY <1>3 DEF Went, Goto, Return, BringUpPCs, InitPCs
<1> QED
  BY <1>1, <1>5, <1>6, InvFacts, BringUpGoesOn DEF BringUpPCs, InitPCs

LEMMA CapacitySeen ==
  ASSUME IInv, InitCapacity, Works PROVE Transport!BringUp
<1>1. pc = "cmd58" /\ UNCHANGED ready
  BY DEF InitCapacity
<1>2. PICK x \in Exchange("CMD58", R1Now, card) :
        /\ card' = x.card
        /\ IF x.st = "SUCCESS" /\ x.r1 \in {"ready", "idle"}
           THEN \E ccs \in CapacityBit(x.delay) : Goto(IF ccs THEN "cmd9" ELSE "cmd16")
           ELSE Return("DEVICE_ERROR")
  BY DEF InitCapacity
<1>3. Same(card') /\ card'.mode = card.mode
  BY <1>2, InvFacts, ModeLeft
<1>4. Went(BringUpPCs)
  BY <1>2 DEF Went, Goto, Return, BringUpPCs, InitPCs
<1> QED
  BY <1>1, <1>3, <1>4, InvFacts, BringUpGoesOn DEF BringUpPCs, InitPCs

LEMMA CsdSeen ==
  ASSUME IInv, InitCsd, Works PROVE Transport!BringUp
<1> DEFINE on == [card EXCEPT !.sending = CsdBlock]
<1>1. pc = "cmd9" /\ UNCHANGED ready
  BY DEF InitCsd, driverVars
<1>2. PICK x \in Exchange("CMD9", R1Now, on) :
        /\ card' = x.card
        /\ IF x.st = "SUCCESS" /\ x.r1 \in {"ready", "idle"}
           THEN Goto("csd") ELSE Return("DEVICE_ERROR")
  BY DEF InitCsd
<1>3. on \in Card /\ on.medium = card.medium /\ on.present = card.present
        /\ on.kind = card.kind /\ on.mode = card.mode
  BY InvFacts DEF Card
<1> HIDE DEF on
<1>4. Same(card') /\ card'.mode = card.mode
  BY <1>2, <1>3, InvFacts, ModeLeft
<1>5. Went(BringUpPCs)
  BY <1>2 DEF Went, Goto, Return, BringUpPCs, InitPCs
<1> QED
  BY <1>1, <1>4, <1>5, InvFacts, BringUpGoesOn DEF BringUpPCs, InitPCs

\* The CSD ends a bring-up: the card that sent it is ready.
LEMMA ReadCsdSeen ==
  ASSUME IInv, InitReadCsd, UNCHANGED bus, Works PROVE Transport!BringUp
<1>1. pc = "csd"
  BY DEF InitReadCsd
<1>2. PICK x \in Received :
        card' = x.card /\ Return(x.st) /\ ready' = (x.st = "SUCCESS")
  BY DEF InitReadCsd
<1>3. Same(card') /\ card'.mode = card.mode /\ pc' = "idle" /\ status' = x.st
  BY <1>2, InvFacts, ReceivedBlock DEF Return
<1>4. CASE x.st = "SUCCESS"
  <2>1. Hears("data")
    BY <1>2, <1>4, InvFacts, ReceivedBlock DEF Works, Sound
  <2>2. card.present /\ card.mode = "ready" /\ ready'
    BY <1>1, <1>2, <1>4, <2>1, InvFacts, CardFields DEF Hears, IInv, Bringing
  <2>3. SlotSeen' = [present |-> card.present, medium |-> card.medium, card |-> "ready"]
    BY <1>3, <2>2 DEF SlotSeen, Same
  <2>4. SlotSeen' = [SlotSeen EXCEPT !.card = "ready"]
    BY <2>3 DEF SlotSeen
  <2>5. Transport!BroughtUp
    BY <2>2, <2>4, SeenFields DEF Transport!BroughtUp
  <2>6. Transport!Finish(TRUE) /\ RequestSeen = "bringUp"
    BY <1>1, <1>3, <1>4, Asked, AskedNext, Finishes DEF BringUpPCs, InitPCs
  <2> QED
    BY <2>5, <2>6 DEF Transport!BringUp
<1>5. CASE x.st # "SUCCESS"
  <2>1. ready' = FALSE /\ Went(BringUpPCs)
    BY <1>2, <1>3, <1>5 DEF Went
  <2> QED
    BY <1>1, <1>3, <2>1, BringUpGoesOn DEF BringUpPCs, InitPCs
<1> QED
  BY <1>4, <1>5

-----------------------------------------------------------------------------
(* Requests of Block I/O                                                   *)

\* A presence request is answered by a card that was reset before.
LEMMA DetectSeen ==
  ASSUME IInv, Detect, Works PROVE Transport!Detect
<1>1. pc = "idle"
  BY DEF Detect
<1>2. PICK x \in Exchange("CMD13", R1Now, card) :
        /\ card' = x.card
        /\ IF x.st = "SUCCESS" THEN Goto("clocks") /\ UNCHANGED ready
           ELSE Return("NO_MEDIA") /\ ready' = FALSE
  BY DEF Detect
<1>3. Same(card') /\ card'.mode = card.mode /\ RequestSeen = "nothing"
  BY <1>1, <1>2, InvFacts, ModeLeft, Asked
<1>4. CASE x.st = "SUCCESS"
  <2>1. Transport!Begin("bringUp")
    BY <1>2, <1>4, AskedNext, Begins DEF Goto, BringUpPCs
  <2>2. UNCHANGED SlotSeen
    BY <1>2, <1>3, <1>4, Unseen DEF Same
  <2>3. Hears("CMD13")
    BY <1>4, ExchangeSucceeds
  <2>4. Transport!Answers
    BY <2>3, SeenFields DEF Hears, Transport!Answers
  <2> QED
    BY <1>3, <2>1, <2>2, <2>4 DEF Transport!Detect
<1>5. CASE x.st # "SUCCESS"
  <2>1. pc' = "idle" /\ status' # "SUCCESS" /\ ready' = FALSE
    BY <1>2, <1>5 DEF Return
  <2>2. SlotSeen' \in Transport!LeftBehind
    BY <1>3, <2>1, Left
  <2>3. Transport!Finish(FALSE)
    BY <2>1, AskedNext, Finishes
  <2> QED
    BY <1>3, <2>2, <2>3 DEF Transport!Detect
<1> QED
  BY <1>4, <1>5

LEMMA CallSeen ==
  ASSUME NEW op, NEW lba, NEW count, CallTransfer(op, lba, count)
  PROVE  Transport!Transfer
<1>1. pc = "idle" /\ pc' = "command" /\ UNCHANGED <<card, ready>>
  BY DEF CallTransfer, Goto
<1>2. UNCHANGED SlotSeen
  BY <1>1, Unseen
<1>3. RequestSeen = "nothing" /\ Transport!Begin("command")
  BY <1>1, Asked, AskedNext, Begins
<1> QED
  BY <1>2, <1>3 DEF Transport!Transfer

LEMMA TransferCommandSeen ==
  ASSUME FitInv, TransferCommand, Works PROVE Transport!Command
<1>1. /\ pc = "command" /\ pc' \in {"block", "idle"} /\ UNCHANGED ready
      /\ Same(card') /\ card'.mode = card.mode
      /\ pc' = "block" => Hears(TransferCode)
  BY CommandStep DEF FitInv
<1>2. UNCHANGED SlotSeen /\ RequestSeen = "command"
  BY <1>1, Unseen, Asked DEF Same
<1>3. CASE pc' = "block"
  <2>1. ready /\ TransferCode # "CMD0"
    BY <1>1, TransferFacts DEF FitInv, Fit
  <2>2. Transport!TakesData
    BY <1>1, <1>3, <2>1, FitTakesData
  <2>3. Transport!Begin("data")
    BY <1>3, AskedNext, Begins
  <2> QED
    BY <1>2, <2>2, <2>3 DEF Transport!Command
<1>4. CASE pc' = "idle"
  <2>1. status' # "SUCCESS"
    BY <1>4 DEF TransferCommand, Goto, Return
  <2>2. Transport!Finish(FALSE)
    BY <1>4, <2>1, AskedNext, Finishes
  <2> QED
    BY <1>2, <2>2 DEF Transport!Command
<1> QED
  BY <1>1, <1>3, <1>4

\* A block that succeeds was moved by a card that hears the driver.
LEMMA BlockSeen ==
  ASSUME FitInv, TransferBlock, UNCHANGED bus, Works PROVE Transport!Data
<1>1. /\ pc = "block" /\ pc' \in {"block", "stop", "idle"} /\ UNCHANGED <<ready, req>>
      /\ Same(card') /\ card'.mode = card.mode
  BY BlockStep DEF FitInv
<1>2. UNCHANGED SlotSeen /\ RequestSeen = "data"
  BY <1>1, Unseen, Asked DEF Same
<1>3. status' = "SUCCESS" => Transport!TakesData
  <2>1. PICK x \in IF req.op = "read" THEN Received ELSE Written : status' = x.st
    BY BlockStep DEF FitInv
  <2>2. ASSUME status' = "SUCCESS" PROVE Hears("data")
    BY <2>1, <2>2, ReceivedBlock, WrittenWorks, InvFacts DEF FitInv, Works, Sound
  <2>3. ready
    BY <1>1 DEF FitInv, Fit
  <2> QED
    BY <2>2, <2>3, FitTakesData
<1>4. CASE pc' = "block" \/ (pc' = "stop" /\ req.op = "write")
  <2>1. Transport!Begin("data") \/ Transport!Begin("end")
    BY <1>1, <1>4, AskedNext, Begins
  <2> QED
    BY <1>2, <2>1 DEF Transport!Data
<1>5. CASE pc' = "idle" \/ (pc' = "stop" /\ req.op # "write")
  <2>1. /\ status' = "SUCCESS" => Transport!Finish(TRUE)
        /\ status' # "SUCCESS" => Transport!Finish(FALSE)
    BY <1>1, <1>5, AskedNext, Finishes
  <2>2. \E good \in BOOLEAN : Transport!Finish(good) /\ (good => Transport!TakesData)
    BY <1>3, <2>1
  <2> QED
    BY <1>2, <2>2 DEF Transport!Data
<1> QED
  BY <1>1, <1>4, <1>5

LEMMA StopWriteSeen ==
  ASSUME IInv, StopWrite PROVE Transport!EndOfWrite
<1>1. /\ pc = "stop" /\ req.op = "write" /\ pc' = "idle" /\ UNCHANGED ready
      /\ card' = StopTokenSent \/ card' = card
  BY DEF StopWrite, NotBusy, Return, driverVars
<1>2. Same(card') /\ card'.mode = card.mode
  BY <1>1, StopTokenCard, InvFacts DEF Same
<1>3. UNCHANGED SlotSeen /\ RequestSeen = "end"
  BY <1>1, <1>2, Unseen, Asked DEF Same
<1>4. /\ status' = "SUCCESS" => Transport!Finish(TRUE)
      /\ status' # "SUCCESS" => Transport!Finish(FALSE)
  BY <1>1, AskedNext, Finishes
<1>5. \E good \in BOOLEAN : Transport!Finish(good)
  BY <1>4
<1> QED
  BY <1>3, <1>5 DEF Transport!EndOfWrite

\* The command after a failed read is not seen.
LEMMA StopReadUnseen ==
  ASSUME IInv, StopRead, UNCHANGED bus, Works PROVE UNCHANGED Transport!vars
<1>1. /\ pc = "stop" /\ req.op = "read" /\ pc' = "idle"
      /\ UNCHANGED <<ready, status>>
  BY DEF StopRead, Goto, driverVars
<1>2. Same(card') /\ card'.mode = card.mode
  <2>1. CASE UNCHANGED card
    BY <2>1, InvFacts DEF Same
  <2>2. ASSUME NEW x \in Exchange("CMD12", "ready", Quiet(card)), card' = x.card
        PROVE  Same(card') /\ card'.mode = card.mode
    BY <2>2, QuietCard, InvFacts, ModeLeft
  <2> QED
    BY <2>1, <2>2 DEF StopRead
<1>3. UNCHANGED SlotSeen
  BY <1>1, <1>2, Unseen DEF Same
<1>4. RequestSeen = "nothing" /\ RequestSeen' = "nothing"
  BY <1>1, Asked, AskedNext
<1>5. UNCHANGED (RequestSeen = "nothing" /\ status = "SUCCESS")
  BY <1>1, <1>4
<1>6. UNCHANGED Sound
  BY DEF Sound
<1> QED
  BY <1>3, <1>4, <1>5, <1>6 DEF Transport!vars

LEMMA SlotStepSeen ==
  ASSUME IInv, Slot PROVE Transport!Swap
<1>1. UNCHANGED <<ready, pc, status, req>>
  BY DEF Slot, Remove, Insert, driverVars
<1>2. UNCHANGED RequestSeen /\ UNCHANGED (RequestSeen = "nothing" /\ status = "SUCCESS")
  BY <1>1 DEF RequestSeen
<1>3. CASE Remove
  <2>1. /\ card.present /\ card' = [Quiet(card) EXCEPT !.present = FALSE, !.mode = "sd"]
    BY <1>3 DEF Remove
  <2>2. Quiet(card) \in Card /\ Quiet(card).medium = card.medium
    BY InvFacts, QuietCard
  <2>3. card'.present = FALSE /\ card'.mode = "sd" /\ card'.medium = card.medium
    BY <2>1, <2>2 DEF Card
  <2>4. SlotSeen' = [present |-> FALSE, medium |-> card.medium, card |-> "fresh"]
    BY <2>3 DEF SlotSeen
  <2>5. Transport!Removed
    BY <2>1, <2>4, SeenFields DEF Transport!Removed
  <2> QED
    BY <1>2, <2>5 DEF Transport!Swap
<1>4. ASSUME NEW kind \in Kinds, Insert(kind) PROVE Transport!Swap
  <2>1. /\ ~card.present /\ card.medium < MaxMedia
        /\ card' = [card EXCEPT !.medium = @ + 1, !.present = TRUE, !.kind = kind]
    BY <1>4 DEF Insert
  <2>2. card \in Card /\ card.mode = "sd" /\ card.medium \in 0 .. MaxMedia
    BY <2>1, InvFacts, CardFields DEF IInv, Absent
  <2>3. card'.present = TRUE /\ card'.mode = "sd" /\ card'.medium = card.medium + 1
    BY <2>1, <2>2 DEF Card
  <2>4. card.medium + 1 \in Transport!Media
    BY <2>1, <2>2, SpiAssumption DEF Transport!Media
  <2>5. SlotSeen' = [present |-> TRUE, medium |-> card.medium + 1, card |-> "fresh"]
    BY <2>3 DEF SlotSeen
  <2>6. Transport!Inserted(card.medium + 1)
    BY <2>1, <2>4, <2>5, SeenFields DEF Transport!Inserted
  <2> QED
    BY <1>2, <2>4, <2>6 DEF Transport!Swap
<1> QED
  BY <1>3, <1>4 DEF Slot

-----------------------------------------------------------------------------
(* The inductive invariant                                                 *)

LEMMA InitSeen == Init => FitInv /\ Transport!Init
<1> SUFFICES ASSUME Init PROVE FitInv /\ Transport!Init
  OBVIOUS
<1>1. IInv /\ pc = "idle" /\ ready = FALSE
  BY InitIInv DEF Init
<1>2. Fit
  BY <1>1 DEF Fit
<1>3. card.present \in BOOLEAN /\ card.medium \in 0 .. MaxMedia
  BY <1>1, InvFacts, CardFields
<1>4. SlotSeen \in Transport!Slot
  BY <1>1, <1>3 DEF SlotSeen, Transport!Slot, Transport!Media
<1>5. SlotSeen.card # "ready" /\ RequestSeen = "nothing"
  BY <1>1, SeenFields, Asked
<1>6. Sound \in BOOLEAN
        /\ (RequestSeen = "nothing" /\ status = "SUCCESS") \in BOOLEAN
  BY DEF Sound
<1> QED
  BY <1>1, <1>2, <1>4, <1>5, <1>6 DEF FitInv, Transport!Init

\* Nothing is ready while a card is brought up.
LEMMA FitBringUp ==
  ASSUME IInv, \/ InitClocks \/ InitReset \/ InitVersion \/ InitOpCond
               \/ InitCapacity \/ InitBlockLength \/ InitCsd
  PROVE  Fit'
<1>1. pc' \notin {"command", "block", "stop"}
  BY DEF InitClocks, InitReset, InitVersion, InitOpCond, InitCapacity, InitBlockLength,
         InitCsd, InitCommand, Goto, Return
<1>2. ready' = FALSE
  BY InvFacts DEF InitClocks, InitReset, InitVersion, InitOpCond, InitCapacity,
                  InitBlockLength, InitCsd, driverVars, InitPCs
<1> QED
  BY <1>1, <1>2 DEF Fit

\* The card whose CSD was read has left the idle state.
LEMMA FitReadCsd ==
  ASSUME IInv, InitReadCsd, UNCHANGED bus PROVE Fit'
<1>1. pc = "csd" /\ pc' = "idle"
  BY DEF InitReadCsd, Return
<1>2. ASSUME Works, ready' PROVE card'.mode # "idle"
  BY <1>1, <1>2, CsdFacts DEF IInv, Bringing, Works, Sound
<1> QED
  BY <1>1, <1>2 DEF Fit, Works, Sound

\* Nothing else makes a card ready or idle.
LEMMA FitKept ==
  ASSUME Fit, UNCHANGED bus, ready' => ready,
         Works => card'.mode = card.mode \/ card'.mode = "sd",
         pc' \in {"command", "block", "stop"} => ready'
  PROVE  Fit'
  BY DEF Fit, Works, Sound

LEMMA FitStep ==
  ASSUME FitInv, [Next]_vars PROVE FitInv'
<1> USE DEF FitInv
<1>1. IInv'
  BY NextIInv
<1>2. CASE UNCHANGED vars
  BY <1>1, <1>2 DEF vars, Fit, Works, Sound
<1>3. CASE DriverStep /\ UNCHANGED bus
  <2>1. CASE TransferCommand \/ TransferBlock
    <3>1. /\ UNCHANGED ready /\ pc \in {"command", "block"}
          /\ Works => card'.mode = card.mode
      BY <1>3, <2>1, CommandStep, BlockStep
    <3> QED
      BY <1>1, <1>3, <3>1, FitKept DEF Fit
  <2>2. CASE StopWrite \/ StopRead
    <3>1. UNCHANGED ready /\ pc' = "idle" /\ pc = "stop"
      BY <2>2 DEF StopWrite, StopRead, driverVars, Goto, Return
    <3>2. Works => card'.mode = card.mode
      <4>1. CASE StopWrite
        BY <4>1, StopTokenCard DEF StopWrite
      <4>2. CASE StopRead
        <5>1. ASSUME NEW x \in Exchange("CMD12", "ready", Quiet(card)), card' = x.card
              PROVE  Works => card'.mode = card.mode
          BY <5>1, QuietCard, InvFacts, ModeLeft
        <5> QED
          BY <4>2, <5>1 DEF StopRead
      <4> QED
        BY <2>2, <4>1, <4>2
    <3> QED
      BY <1>1, <1>3, <3>1, <3>2, FitKept
  <2> QED
    BY <1>1, <1>3, <2>1, <2>2, FitBringUp, FitReadCsd DEF DriverStep
<1>4. CASE Call /\ UNCHANGED bus
  <2>1. CASE Detect
    <3>1. PICK x \in Exchange("CMD13", R1Now, card) :
            /\ card' = x.card
            /\ IF x.st = "SUCCESS" THEN Goto("clocks") /\ UNCHANGED ready
               ELSE Return("NO_MEDIA") /\ ready' = FALSE
      BY <2>1 DEF Detect
    <3>2. Works => card'.mode = card.mode
      BY <3>1, InvFacts, ModeLeft
    <3>3. pc' \in {"clocks", "idle"} /\ (ready' => ready)
      BY <3>1 DEF Goto, Return
    <3> QED
      BY <1>1, <1>4, <3>2, <3>3, FitKept
  <2>2. ASSUME NEW op, NEW lba, NEW count, CallTransfer(op, lba, count) PROVE FitInv'
    <3>1. ready /\ UNCHANGED <<card, ready>>
      BY <2>2 DEF CallTransfer
    <3> QED
      BY <1>1, <1>4, <3>1, FitKept
  <2> QED
    BY <1>4, <2>1, <2>2 DEF Call
<1>5. CASE Slot /\ UNCHANGED bus
  <2>1. UNCHANGED <<ready, pc>> /\ card'.mode = "sd"
    <3>1. UNCHANGED <<driverVars, pc>> /\ card'.mode = "sd"
      BY <1>5, InvFacts, RemoveCard, InsertCard DEF Slot
    <3> QED
      BY <3>1 DEF driverVars
  <2> QED
    BY <1>1, <1>5, <2>1, FitKept DEF Fit
<1> QED
  BY <1>2, <1>3, <1>4, <1>5 DEF Next

-----------------------------------------------------------------------------
(* The refinement                                                          *)

\* Every step of a bus that works is one of the contract, or unseen by it.
LEMMA WorkingSeen ==
  ASSUME FitInv, Next, Works PROVE [Transport!Next]_(Transport!vars)
<1>1. UNCHANGED bus /\ UNCHANGED Sound /\ Sound
  BY DEF Next, Works, Sound
<1>2. CASE DriverStep
  <2>1. CASE \/ InitClocks \/ InitReset \/ InitVersion \/ InitOpCond
             \/ InitCapacity \/ InitBlockLength \/ InitCsd \/ InitReadCsd
    <3>1. Transport!BringUp
      BY <1>1, <2>1, ClocksSeen, ResetSeen, VersionSeen, OpCondSeen, CapacitySeen,
         BlockLengthSeen, CsdSeen, ReadCsdSeen DEF FitInv
    <3> QED
      BY <1>1, <3>1 DEF Transport!Next
  <2>2. CASE TransferCommand \/ TransferBlock \/ StopWrite
    <3>1. Transport!Command \/ Transport!Data \/ Transport!EndOfWrite
      BY <1>1, <2>2, TransferCommandSeen, BlockSeen, StopWriteSeen DEF FitInv
    <3> QED
      BY <1>1, <3>1 DEF Transport!Next
  <2>3. CASE StopRead
    BY <1>1, <2>3, StopReadUnseen DEF FitInv
  <2> QED
    BY <1>2, <2>1, <2>2, <2>3 DEF DriverStep
<1>3. CASE Call
  <2>1. Transport!Detect \/ Transport!Transfer
    BY <1>3, DetectSeen, CallSeen DEF Call, FitInv
  <2> QED
    BY <1>1, <2>1 DEF Transport!Next
<1>4. CASE Slot
  <2>1. Transport!Swap
    BY <1>4, SlotStepSeen DEF FitInv
  <2> QED
    BY <1>1, <2>1 DEF Transport!Next
<1> QED
  BY <1>2, <1>3, <1>4 DEF Next

LEMMA NextSeen ==
  ASSUME FitInv, [Next]_vars PROVE [Transport!Next]_(Transport!vars)
<1>1. CASE UNCHANGED vars
  <2>1. UNCHANGED <<SlotSeen, RequestSeen>>
    BY <1>1 DEF vars, SlotSeen, RequestSeen
  <2>2. UNCHANGED Sound /\ UNCHANGED (RequestSeen = "nothing" /\ status = "SUCCESS")
    BY <1>1, <2>1 DEF vars, Sound
  <2> QED
    BY <2>1, <2>2 DEF Transport!vars
<1>2. CASE Next /\ Works
  BY <1>2, WorkingSeen
<1>3. CASE Next /\ ~Works
  <2>1. ~Sound /\ UNCHANGED Sound
    BY <1>3 DEF Next, Works, Sound
  <2> QED
    BY <2>1 DEF Transport!Next
<1> QED
  BY <1>1, <1>2, <1>3

(* The SPI transport keeps the contract of a transport as long as its bus  *)
(* works: across swaps, lost commands and failed bring-ups, only a card    *)
(* that was brought up takes a command or moves data.                      *)
THEOREM TransportImplemented == Spec => ImplementsTransport
<1>1. Init => FitInv
  BY InitSeen
<1>2. FitInv /\ [Next]_vars => FitInv'
  BY FitStep
<1>3. Init => Transport!Init
  BY InitSeen
<1>4. FitInv /\ [Next]_vars => [Transport!Next]_(Transport!vars)
  BY NextSeen
<1> QED
  BY <1>1, <1>2, <1>3, <1>4, PTL DEF Spec, ImplementsTransport, Transport!Spec
=============================================================================
