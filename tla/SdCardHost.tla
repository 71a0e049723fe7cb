----------------------------- MODULE SdCardHost -----------------------------
(***************************************************************************)
(* The MMC host transport of the driver (HostIo.c) against a host          *)
(* controller and a card in its slot: the commands of SdCardInitializeHost,*)
(* the transfers of Block I/O in host mode with their bounce buffers, and  *)
(* the operations nothing in the driver calls yet (card status, bus width, *)
(* UHS mode, boot partition, power off, error recovery).                   *)
(*                                                                         *)
(* A response is the set of its bits that are set.  Of bits 8 to 14 of an  *)
(* R1 the driver looks at none, and they are left out.                     *)
(*                                                                         *)
(* SdCardInitialize reaches this transport only if the card was detected,  *)
(* which as built is asked over SPI (SdCardDxe, CardIsDetected): what is   *)
(* shown here is what holds of the transport once it is reached.           *)
(***************************************************************************)
EXTENDS Integers, FiniteSets, DriverLib

CONSTANTS
  Kinds,        \* kinds of cards that may be inserted
  Csd,          \* Kinds -> the CSD register of a card of that kind
  Shift,        \* 8 if the controller drops the CRC byte of an R2, or 0
  Controllers,  \* controllers that go "byCommand", or "byType"
  Inquiries,    \* may an ACMD41 without voltages start a card?
  Rcas,         \* relative addresses a card may choose, as sets of bits
  Refusals,     \* error bits of a card that refuses a transfer
  Faulty,       \* may a command or its response be lost?
  Lbas,         \* first blocks of a transfer
  IoAlign,      \* BlockMedia.IoAlign (4)
  PoolAlign,    \* alignment of AllocatePool (8)
  Addresses,    \* number of values of a command argument (2^32)
  MaxMedia,     \* bound on the cards inserted in a run
  Retries       \* bound of the ACMD41 loop (100)

\* Error bits of an R1 in the SD specification.
R1Errors == {31, 30, 29, 28, 27, 26, 24, 23, 22, 21, 20, 19, 16, 15, 3}

ASSUME HostAssumption ==
  /\ Kinds \subseteq {"V1", "SC", "HC"} /\ Kinds # {}
  /\ \A kind \in Kinds : Csd[kind] \in [0 .. 127 -> {0, 1}]
  /\ Shift \in {0, 8}
  /\ Controllers \subseteq {"byCommand", "byType"}
  /\ Controllers # {} /\ Inquiries \subseteq BOOLEAN /\ Inquiries # {}
  /\ Rcas \subseteq SUBSET (16 .. 31) /\ Rcas # {} /\ {} \notin Rcas
  /\ Refusals \subseteq R1Errors /\ Faulty \in BOOLEAN
  /\ Lbas \subseteq Nat
  /\ {IoAlign, PoolAlign, Addresses, MaxMedia, Retries} \subseteq Nat \ {0}

NoBlock == -1
Types   == {"UNKNOWN", "V1", "SC", "HC"}
Bits    == SUBSET (0 .. 31)

Statuses == {"SUCCESS", "CRC_ERROR", "DEVICE_ERROR", "TIMEOUT", "UNSUPPORTED",
             "INVALID_PARAMETER", "NOT_READY", "NO_MEDIA", "OUT_OF_RESOURCES"}

(***************************************************************************)
(* The card: its state in the SD specification, its relative address, has  *)
(* it been told that an application command follows, has it an illegal     *)
(* command to report, and the block an accepted transfer has it send or    *)
(* wait for.                                                               *)
(***************************************************************************)
Card == [medium : 0 .. MaxMedia, present : BOOLEAN, kind : Kinds,
         state : {"idle", "ready", "ident", "stby", "tran", "data", "rcv"},
         rca : Rcas \union {{}}, app : BOOLEAN, illegal : BOOLEAN,
         open : {NoBlock} \union Nat, stream : BOOLEAN]

Request == [op : {"read", "write"}, lba : Nat, count : Nat \ {0}, buffer : Nat]

NoRequest == [op |-> "read", lba |-> 0, count |-> 1, buffer |-> 0]

VARIABLES
  controller, starts, \* the controller and the cards of this behaviour
  card,
  cardType, rca,      \* Private->CardType, Private->Rca
  csdOf, blocks,      \* the medium whose CSD was parsed, its size by HostIo.c
  ready, published,   \* MediaPresent; the medium it was set for, its size
  disturbed,          \* history: was it powered off or recovered since?
  caller,             \* who called SdCardInitializeHost
  pc, status,         \* where the driver is, its Status
  retry,              \* SdCardInitializeHost: Retry
  req, bounce, resp,  \* a transfer, its bounce buffer (0 if none), Response
  pool                \* addresses of the pool blocks allocated

vars == <<controller, starts, card, cardType, rca, csdOf, blocks, ready,
          published, disturbed, caller, pc, status, retry, req, bounce, resp,
          pool>>

world     == <<controller, starts>>
private   == <<cardType, rca, csdOf, blocks>>
media     == <<ready, published, disturbed>>
transfer  == <<req, bounce, resp, pool>>

Goto(l) == pc' = l

-----------------------------------------------------------------------------
(* Error mapping                                                           *)

\* The bits of an R1 of the SPI mode are looked for in the low byte.
SdCardMapSdErrorToEfiStatus(r) ==
  IF r \intersect 0 .. 7 = {}          THEN "SUCCESS"
  ELSE IF 3 \in r                      THEN "CRC_ERROR"
  ELSE IF 2 \in r                      THEN "UNSUPPORTED"
  ELSE IF r \intersect {5, 6} # {}     THEN "INVALID_PARAMETER"
  ELSE IF r \intersect {1, 4} # {}     THEN "DEVICE_ERROR"
  ELSE IF 0 \in r                      THEN "NOT_READY"
                                       ELSE "DEVICE_ERROR"

CheckSdErrorResponse(r) ==
  IF r \intersect 15 .. 23 # {} THEN SdCardMapSdErrorToEfiStatus(r) ELSE "SUCCESS"

-----------------------------------------------------------------------------
(* The card and the controller                                             *)

Reply(r, after) == [resp |-> r, card |-> [after EXCEPT !.app = FALSE]]

\* An R1 reports, once, that the command before was illegal.
R1(bits, after) ==
  Reply(bits \union (IF card.illegal THEN {22} ELSE {}),
        [after EXCEPT !.illegal = FALSE])

To(state) == [card EXCEPT !.state = state, !.open = NoBlock, !.stream = FALSE]

CapacityOf(kind) == SdCardParseCsdRegister(Csd[kind]).blocks

\* The block a card finds at an address, NoBlock if there is none.
BlockAt(address) ==
  LET b == IF card.kind = "HC" THEN address ELSE address \div 512
  IN IF b < CapacityOf(card.kind) THEN b ELSE NoBlock

Outcome(st, r, after) == [st |-> st, resp |-> r, card |-> after]

\* A command that is not delivered, or whose response is not.
Lost(replies) ==
  IF Faulty THEN {Outcome("TIMEOUT", {}, card)} \union
                 {Outcome("TIMEOUT", {}, x.card) : x \in replies}
            ELSE {}

(* SdCardSendCommandHost: what a command may come to that a card answers   *)
(* by one of "replies", if it is addressed by it and if the command is     *)
(* legal in its state.  CommandType is left 0, which is a broadcast that   *)
(* has no response: a controller that goes by it reports success and       *)
(* zeros, whatever the card says.                                          *)
SdCardSendCommandHost(addressed, legal, replies) ==
  LET made == IF card.present /\ addressed /\ legal THEN replies ELSE {}
      deaf == IF card.present /\ addressed /\ ~legal
              THEN [card EXCEPT !.illegal = TRUE, !.app = FALSE] ELSE card
  IN  Lost(made) \union
      (IF controller = "byType"
       THEN {Outcome("SUCCESS", {}, x) :
               x \in IF made = {} THEN {deaf} ELSE {y.card : y \in made}}
       ELSE IF made = {} THEN {Outcome("TIMEOUT", {}, deaf)}
       ELSE {Outcome(CheckSdErrorResponse(x.resp), x.resp, x.card) : x \in made})

\* CMD0 has no response: the controller cannot tell that no card is there.
GoIdle ==
  LET reset == IF card.present
               THEN [To("idle") EXCEPT !.rca = {}, !.illegal = FALSE, !.app = FALSE]
               ELSE card
  IN {Outcome("SUCCESS", {}, reset)} \union Lost({Reply({}, reset)})

\* CMD55 to the relative address a, whose R1 has the APP_CMD bit.
AppCmd(a) ==
  SdCardSendCommandHost(card.rca = a, card.state \notin {"ready", "ident"},
    {[R1({5}, card) EXCEPT !.card.app = TRUE]})

-----------------------------------------------------------------------------
(* SdCardInitializeHost                                                    *)

\* Mutant: a failed initialization leaves the media as it was.
MediaKept(st) == st = "SUCCESS" \/ ready

MediaPresent(st) == st = "SUCCESS"

(* The call returns.  SdCardInitialize then sets MediaPresent (with the    *)
(* LastBlock of the CSD, if it was recorded: SdCardDxe), any fallback      *)
(* having failed too; ErrorRecoveryHost leaves BlockMedia alone.           *)
Returned(st) ==
  /\ Goto("idle") /\ status' = st
  /\ IF caller = "initialize"
     THEN /\ ready' = MediaPresent(st)
          /\ published' = IF st = "SUCCESS"
                          THEN [medium |-> card.medium, blocks |-> CapacityOf(card.kind)]
                          ELSE published
          /\ disturbed' = (disturbed /\ st # "SUCCESS")
     ELSE UNCHANGED media

\* A command whose outcome is x: go on at l, or give up.
Then(x, l) ==
  /\ card' = x.card
  /\ IF x.st = "SUCCESS" THEN Goto(l) /\ status' = x.st /\ UNCHANGED media
                         ELSE Returned(x.st)

CallInitialize ==
  /\ pc = "idle"
  /\ caller' = "initialize" /\ Goto("cmd0")
  /\ UNCHANGED <<world, card, private, media, status, retry, transfer>>

InitReset ==
  /\ pc = "cmd0"
  /\ \E x \in GoIdle : Then(x, "cmd8")
  /\ UNCHANGED <<world, private, caller, retry, transfer>>

Pattern == {1, 3, 5, 7, 8}    \* 0x1AA

\* An error stands for a card of version 1.
InitVersion ==
  /\ pc = "cmd8"
  /\ \E x \in SdCardSendCommandHost(TRUE, card.state = "idle" /\ card.kind # "V1",
                                    {Reply(Pattern, card)}) :
       /\ card' = x.card
       /\ IF x.st = "SUCCESS" /\ x.resp # Pattern
          THEN Returned("UNSUPPORTED") /\ UNCHANGED cardType
          ELSE /\ cardType' = IF x.st = "SUCCESS" THEN "SC" ELSE "V1"
               /\ Goto("cmd55") /\ status' = x.st /\ UNCHANGED media
  /\ retry' = Retries
  /\ UNCHANGED <<world, rca, csdOf, blocks, caller, transfer>>

InitAppCmd ==
  /\ pc = "cmd55"
  /\ \E x \in AppCmd({}) : Then(x, "acmd41")
  /\ UNCHANGED <<world, private, caller, retry, transfer>>

\* Mutants: the loop counts up, or starts over.
RetriesUp(n)        == n + 1
RetriesStartOver(n) == IF n = 1 THEN Retries ELSE n - 1

RetriesLeft(n) == n - 1

\* Mutant: the capacity bit is not looked at.
TypeKept(ocr) == cardType

TypeOfOcr(ocr) == IF 30 \in ocr THEN "HC" ELSE cardType

(* ACMD41.  It asks for no voltage, which is an inquiry that starts no     *)
(* card of the SD specification.  The OCR has its voltages where an R1     *)
(* has errors, and passes for its low byte, which is zero.                 *)
InitOpCond ==
  LET voltages == 15 .. 23
      starting == starts /\ (card.kind = "HC" => cardType = "SC")
      busy     == {Reply(voltages, card)}
      up       == IF starting
                  THEN {Reply(voltages \union {31} \union
                              (IF card.kind = "HC" THEN {30} ELSE {}), To("ready"))}
                  ELSE {}
  IN
  /\ pc = "acmd41"
  /\ \E x \in SdCardSendCommandHost(TRUE, card.app /\ card.state = "idle", busy \union up) :
       \/ /\ x.st # "SUCCESS"
          /\ Then(x, "idle") /\ retry' = 0 /\ UNCHANGED cardType
       \/ /\ x.st = "SUCCESS" /\ 31 \in x.resp
          /\ Then(x, "cmd2") /\ retry' = 0 /\ cardType' = TypeOfOcr(x.resp)
       \/ /\ x.st = "SUCCESS" /\ 31 \notin x.resp
          /\ card' = x.card /\ UNCHANGED cardType
          /\ retry' = RetriesLeft(retry)
          /\ IF retry' = 0 THEN Returned("TIMEOUT")
             ELSE Goto("cmd55") /\ status' = x.st /\ UNCHANGED media
  /\ UNCHANGED <<world, rca, csdOf, blocks, caller, transfer>>

\* SdCardReadRegister looks for no error in an R2.
InitCid ==
  /\ pc = "cmd2"
  /\ \E x \in SdCardSendCommandHost(TRUE, card.state = "ready", {Reply({}, To("ident"))}) :
       Then(x, "cmd3")
  /\ UNCHANGED <<world, private, caller, retry, transfer>>

InitAddress ==
  /\ pc = "cmd3"
  /\ \E x \in SdCardSendCommandHost(TRUE, card.state \in {"ident", "stby"},
                {Reply(a, [To("stby") EXCEPT !.rca = a]) : a \in Rcas}) :
       LET a == x.resp \intersect 16 .. 31 IN
       /\ Then([x EXCEPT !.st = IF @ = "SUCCESS" /\ a = {} THEN "DEVICE_ERROR" ELSE @],
               "cmd9")
       /\ rca' = IF x.st = "SUCCESS" /\ a # {} THEN a ELSE rca
  /\ UNCHANGED <<world, cardType, csdOf, blocks, caller, retry, transfer>>

CsdRead == IF controller = "byType" THEN [b \in 0 .. 127 |-> 0] ELSE Csd[card.kind]

InitCsd ==
  /\ pc = "cmd9"
  /\ \E x \in SdCardSendCommandHost(card.rca = rca, card.state = "stby", {Reply({}, card)}) :
       LET csd == ParseCsdRegister(CsdRead, Shift)
           st  == IF x.st = "SUCCESS" THEN csd.st ELSE x.st
       IN /\ Then([x EXCEPT !.st = st], "cmd7")
          /\ IF st = "SUCCESS" THEN csdOf' = card.medium /\ blocks' = csd.blocks
                               ELSE UNCHANGED <<csdOf, blocks>>
  /\ UNCHANGED <<world, cardType, rca, caller, retry, transfer>>

InitSelect ==
  /\ pc = "cmd7"
  /\ \E x \in SdCardSendCommandHost(card.rca = rca, card.state = "stby", {R1({}, To("tran"))}) :
       IF x.st = "SUCCESS" /\ cardType = "HC"
       THEN card' = x.card /\ Returned("SUCCESS")
       ELSE Then(x, "cmd16")
  /\ UNCHANGED <<world, private, caller, retry, transfer>>

InitBlockLength ==
  /\ pc = "cmd16"
  /\ \E x \in SdCardSendCommandHost(TRUE, card.state = "tran", {R1({}, card)}) :
       card' = x.card /\ Returned(x.st)
  /\ UNCHANGED <<world, private, caller, retry, transfer>>

-----------------------------------------------------------------------------
(* Block I/O: SdCardMediaReadBlocks, SdCardMediaWriteBlocks and            *)
(* SdCardExecuteReadWriteHost                                              *)

CallTransfer(r) ==
  /\ pc = "idle" /\ ready /\ r.lba < published.blocks
  /\ \/ /\ SdCardIsBufferAligned(r.buffer, IoAlign)
        /\ bounce' = 0 /\ pool' = pool
        /\ req' = r /\ Goto("command") /\ UNCHANGED status
     \/ /\ ~SdCardIsBufferAligned(r.buffer, IoAlign)
        /\ bounce' = BounceBufferIn(PoolAlign, IoAlign)
        /\ pool' = pool \union {PoolAlign}
        /\ req' = r /\ Goto("command") /\ UNCHANGED status
     \/ /\ ~SdCardIsBufferAligned(r.buffer, IoAlign)
        /\ Goto("idle") /\ status' = "OUT_OF_RESOURCES"
        /\ UNCHANGED <<req, bounce, pool>>
  /\ UNCHANGED <<world, card, private, media, caller, resp, retry>>

\* Mutant: every card is addressed by blocks.
AddressInBlocks(lba) == lba % Addresses

Address(lba) ==
  IF cardType = "HC" THEN lba % Addresses ELSE (lba * 512) % Addresses

\* The command moves no data: the packet has no buffer.
TransferCommand ==
  LET b  == BlockAt(Address(req.lba))
      on == [To(IF req.op = "read" THEN "data" ELSE "rcv")
               EXCEPT !.open = b, !.stream = req.count > 1]
      replies == {R1({e}, card) : e \in Refusals} \union
                 {IF b = NoBlock THEN R1({31}, card) ELSE R1({}, on)}
  IN
  /\ pc = "command"
  /\ \E x \in SdCardSendCommandHost(TRUE, card.state = "tran", replies) :
       /\ card' = x.card /\ status' = x.st /\ resp' = x.resp
       /\ Goto(IF x.st = "SUCCESS" /\ req.count > 1 /\ req.op = "read"
               THEN "cmd12" ELSE "finish")
  /\ UNCHANGED <<world, private, media, caller, retry, req, bounce, pool>>

\* CMD12, whose status becomes that of the read.
TransferStop ==
  /\ pc = "cmd12"
  /\ \E x \in SdCardSendCommandHost(TRUE, card.state \in {"data", "rcv"},
                                    {R1({}, To("tran"))}) :
       card' = x.card /\ status' = x.st /\ resp' = x.resp
  /\ Goto("finish")
  /\ UNCHANGED <<world, private, media, caller, retry, req, bounce, pool>>

\* Mutant: only a transfer that succeeds frees its bounce buffer.
FreedOnSuccess(buffer) == IF status = "SUCCESS" THEN {buffer} ELSE {}

\* The pool block that FreePool is given, if there is a bounce buffer.
SdCardFreeBounceBuffer(buffer) == {buffer}

(* A transfer that failed asks over SPI whether the card is still there,   *)
(* and in host mode nothing answers.                                       *)
TransferFinish ==
  /\ pc = "finish"
  /\ pool' = pool \ SdCardFreeBounceBuffer(bounce)
  /\ bounce' = 0 /\ resp' = {} /\ req' = NoRequest
  /\ Goto("idle")
  /\ IF status = "SUCCESS" THEN UNCHANGED <<status, media>>
     ELSE /\ status' = "NO_MEDIA" /\ ready' = FALSE
          /\ UNCHANGED <<published, disturbed>>
  /\ UNCHANGED <<world, card, private, caller, retry>>

-----------------------------------------------------------------------------
(* Operations that nothing in the driver calls                             *)

\* A call that sends one command; "failed" tells from the response.
Single(outcomes, failed(_)) ==
  /\ pc = "idle"
  /\ \E x \in outcomes :
       /\ card' = x.card
       /\ status' = IF x.st = "SUCCESS" /\ failed(x.resp) THEN "DEVICE_ERROR" ELSE x.st
  /\ UNCHANGED <<world, private, caller, pc, retry, transfer>>

\* CMD13, which after a CMD55 asks for the SD status and its data.
GetCardStatusHost ==
  /\ Single(SdCardSendCommandHost(card.rca = rca, card.state \in {"stby", "tran", "data", "rcv"},
              {R1({}, IF card.app /\ card.state = "tran" THEN To("data") ELSE card)}),
            LAMBDA r : FALSE)
  /\ UNCHANGED media

\* CMD6, which after a CMD55 sets the bus width.
SwitchFunction ==
  SdCardSendCommandHost(TRUE, card.state = "tran",
    {R1({e}, card) : e \in Refusals} \union
    {IF card.app THEN R1({5}, card) ELSE R1({}, To("data"))})

SetUhsMode ==
  Single(SwitchFunction, LAMBDA r : r \intersect 28 .. 31 # {}) /\ UNCHANGED media

SwitchToBootPartition ==
  Single(SwitchFunction, LAMBDA r : r \intersect 0 .. 3 # {}) /\ UNCHANGED media

\* SetPowerState(POWER_OFF).  Block I/O is not told.
PowerOff ==
  /\ Single(GoIdle, LAMBDA r : FALSE)
  /\ disturbed' = TRUE /\ UNCHANGED <<ready, published>>

\* SetBusWidthHost: CMD55, then ACMD6.
SetBusWidthHost ==
  /\ pc = "idle"
  /\ \E x \in AppCmd(rca) :
       /\ card' = x.card /\ status' = x.st
       /\ Goto(IF x.st = "SUCCESS" THEN "width" ELSE "idle")
  /\ UNCHANGED <<world, private, media, caller, retry, transfer>>

SetBusWidth ==
  /\ pc = "width"
  /\ \E x \in SwitchFunction :
       card' = x.card /\ status' = x.st
  /\ Goto("idle")
  /\ UNCHANGED <<world, private, media, caller, retry, transfer>>

ErrorRecoveryHost ==
  /\ pc = "idle"
  /\ caller' = "recovery" /\ disturbed' = TRUE
  /\ \E x \in GoIdle :
       /\ card' = x.card /\ status' = x.st
       /\ Goto(IF x.st = "SUCCESS" THEN "cmd0" ELSE "idle")
  /\ UNCHANGED <<world, private, ready, published, retry, transfer>>

-----------------------------------------------------------------------------
(* The slot                                                                *)

driver == <<world, private, media, caller, pc, status, retry, transfer>>

\* The card has sent a block, or a status, that nobody took.
CardSent ==
  /\ card.present /\ card.state = "data" /\ ~card.stream
  /\ card' = To("tran")
  /\ UNCHANGED driver

Remove ==
  /\ card.present
  /\ card' = [To("idle") EXCEPT !.present = FALSE, !.rca = {}, !.app = FALSE,
                                !.illegal = FALSE]
  /\ UNCHANGED driver

Insert(kind) ==
  /\ ~card.present /\ card.medium < MaxMedia
  /\ card' = [card EXCEPT !.medium = @ + 1, !.present = TRUE, !.kind = kind]
  /\ UNCHANGED driver

-----------------------------------------------------------------------------
\* The firmware may have left a card selected.
Init ==
  /\ controller \in Controllers /\ starts \in Inquiries
  /\ card \in [medium : {0}, present : BOOLEAN, kind : Kinds, state : {"idle", "tran"},
               rca : Rcas \union {{}}, app : {FALSE}, illegal : {FALSE},
               open : {NoBlock}, stream : {FALSE}]
  /\ (card.state = "tran" <=> card.rca # {})
  /\ card.present \/ card.state = "idle"
  /\ cardType = "UNKNOWN" /\ rca = {} /\ csdOf = 0 /\ blocks = 0
  /\ ready = FALSE /\ published = [medium |-> 0, blocks |-> 0] /\ disturbed = FALSE
  /\ caller = "initialize" /\ pc = "idle" /\ status = "SUCCESS"
  /\ retry = 0 /\ req = NoRequest /\ bounce = 0 /\ resp = {} /\ pool = {}

DriverStep ==
  \/ InitReset \/ InitVersion \/ InitAppCmd \/ InitOpCond \/ InitCid
  \/ InitAddress \/ InitCsd \/ InitSelect \/ InitBlockLength
  \/ TransferCommand \/ TransferStop \/ TransferFinish \/ SetBusWidth

Call ==
  \/ CallInitialize \/ ErrorRecoveryHost \/ GetCardStatusHost
  \/ SetUhsMode \/ SwitchToBootPartition \/ SetBusWidthHost \/ PowerOff
  \/ \E op \in {"read", "write"}, lba \in Lbas, count \in 1 .. 2, buffer \in 0 .. 1 :
       CallTransfer([op |-> op, lba |-> lba, count |-> count, buffer |-> buffer])

Next == DriverStep \/ Call \/ CardSent \/ Remove \/ \E kind \in Kinds : Insert(kind)

Spec == Init /\ [][Next]_vars

\* A call in progress has the processor.
FairSpec == Spec /\ WF_vars(DriverStep)

-----------------------------------------------------------------------------
(* Properties                                                              *)

PCs == {"idle", "cmd0", "cmd8", "cmd55", "acmd41", "cmd2", "cmd3", "cmd9", "cmd7",
        "cmd16", "command", "cmd12", "finish", "width"}

\* Every variable has its type.
TypeOK ==
  /\ controller \in Controllers /\ starts \in Inquiries
  /\ card \in Card /\ cardType \in Types /\ rca \in Rcas \union {{}}
  /\ csdOf \in 0 .. MaxMedia /\ blocks \in Nat
  /\ ready \in BOOLEAN /\ published \in [medium : 0 .. MaxMedia, blocks : Nat]
  /\ disturbed \in BOOLEAN /\ caller \in {"initialize", "recovery"}
  /\ pc \in PCs /\ status \in Statuses /\ resp \in Bits
  /\ retry \in 0 .. Retries /\ req \in Request
  /\ bounce \in Nat /\ pool \subseteq Nat

\* The card is one the driver can address.
Known == card.rca = rca /\ (cardType = "HC" <=> card.kind = "HC")

(* An initialization that succeeds leaves a selected card whose relative   *)
(* address and kind the driver knows and whose CSD it parsed, although     *)
(* commands and responses get lost, cards are swapped between any two      *)
(* commands, and most errors a card reports are not looked at.             *)
InitializedIsSelected ==
  [][pc' = "idle" /\ pc \in {"cmd7", "cmd16"} /\ status' = "SUCCESS" =>
       (Known /\ card.state = "tran" /\ card.medium = csdOf)']_vars

(* While media is present and its card was not swapped, powered off or     *)
(* recovered, that card is selected under the address the driver knows,    *)
(* whatever calls failed in between.                                       *)
ReadyCardIsSelected ==
  pc = "idle" /\ ready /\ ~disturbed /\ card.present /\ card.medium = published.medium =>
    Known /\ card.state \in {"tran", "data", "rcv"}

(* A transfer command opens the block asked for, of the medium published:  *)
(* no card but the one brought up takes it, unless a recovery nobody told  *)
(* Block I/O of brought up another.                                        *)
TransferOpensRequestedBlock ==
  [][pc = "command" /\ card'.open \notin {NoBlock, card.open} =>
       card'.open = req.lba /\ (~disturbed => card'.medium = published.medium)]_vars

(* Whatever way a transfer ends, it has freed its bounce buffer, which is  *)
(* freed by the aligned address and not by the one that was allocated.     *)
BuffersAreFreed == pc = "idle" => pool = {}

\* How many steps a call has left, at most.
StepsLeft ==
  CASE pc = "idle"    -> 0
    [] pc \in {"cmd16", "finish", "width"} -> 1
    [] pc \in {"cmd7", "cmd12"}            -> 2
    [] pc \in {"cmd9", "command"}          -> 3
    [] pc = "cmd3"    -> 4
    [] pc = "cmd2"    -> 5
    [] pc = "acmd41"  -> 2 * retry + 4
    [] pc = "cmd55"   -> 2 * retry + 5
    [] pc = "cmd8"    -> 2 * Retries + 6
    [] pc = "cmd0"    -> 2 * Retries + 7

(* A call takes at most 2 * Retries + 7 steps, each of one command, and    *)
(* each brings it closer to its end: neither what a card answers nor a     *)
(* card put in or taken out gives it more to do.                           *)
CallsAreBounded ==
  [][IF pc = "idle" THEN StepsLeft' \in 0 .. 2 * Retries + 7
     ELSE StepsLeft' \in 0 .. StepsLeft - 1 \/ UNCHANGED driver]_vars

\* Every call returns, with any controller and any card.
CallsReturn == pc # "idle" ~> pc = "idle"

-----------------------------------------------------------------------------
(* What the documentation promises and the code does not do                *)

(* HostIo.c:417: "Parses the CSD register and extracts card information."  *)
(* The capacity is that of the card.                                       *)
GeometryIsOfCard ==
  [][pc = "cmd9" /\ pc' = "cmd7" => blocks' = CapacityOf(card.kind)]_vars
=============================================================================
