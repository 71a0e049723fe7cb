----------------------------- MODULE SdCardSpi -----------------------------
(***************************************************************************)
(* The SPI transport of the driver (SpiIo.c, SpiLib.c) against a card in a *)
(* slot: presence detection, the initialization sequence of                *)
(* SdCardInitializeSpi and the transfers of SdCardExecuteReadWriteSpi.     *)
(*                                                                         *)
(* Bytes are counted, not modelled.  The driver sends a command and reads  *)
(* exactly Window further bytes in the same transaction.  A card answers   *)
(* after "delay" filler bytes, so the driver sees the answer only if       *)
(* delay < Window, and whatever follows the answer inside the window is    *)
(* dropped: of a register sent after it, the first byte the driver reads   *)
(* is byte Window-1-delay; of a data block whose start token comes "gap"   *)
(* bytes after the answer, the token is lost if delay+1+gap < Window.      *)
(* CRCs are computed, from frames and blocks of a few bytes.               *)
(*                                                                         *)
(* The bus is one of four.  On a clean one every byte arrives.  On a lossy *)
(* one what is disturbed is missed, refused or damaged: a command or its   *)
(* answer, a start or stop token, the bytes of a register or of a block.   *)
(* On a noisy one it may also be taken for something else: a command for   *)
(* another command or another address, an answer for another answer, and   *)
(* bytes nobody sent for an answer.  On a failing one transactions fail:   *)
(* SpiTransferBuffer returns an error most callers ignore, and leaves what *)
(* it should read as it was, which for a local variable is anything.       *)
(* CMD59 is never sent, so a card in SPI mode checks the CRC of no command *)
(* (but CMD8) and of no block: what is damaged on its way is taken.        *)
(*                                                                         *)
(* A successful SdCardInitializeSpi is followed by the identification of   *)
(* SdCardMedia.c from the CSD that was read (which the driver, as built,   *)
(* does not record: SdCardDxe, RecordsCsd).                                *)
(***************************************************************************)
EXTENDS Integers, Sequences, DriverLib

CONSTANTS
  Kinds,        \* kinds of cards that may be inserted
  Delays,       \* filler bytes before an answer (0..8 for SD cards)
  Gaps,         \* filler bytes between an answer and its data
  Buses,        \* the buses there may be: "clean", "lossy", "noisy", "failing"
  ChecksCrc,    \* do cards check the CRC of CMD0 and CMD8, as they should?
  Window,       \* bytes read after a command (8)
  BlockBytes,   \* SD_BLOCK_SIZE (512)
  Addresses,    \* number of values of a command argument (2^32)
  Capacity,     \* blocks of a card
  MaxCount,     \* bound on the blocks of one request
  MaxMedia,     \* bound on the cards inserted in a run
  Retries       \* bound of the ACMD41 loop (100)

ASSUME SpiAssumption ==
  /\ Kinds \subseteq {"V1", "SC", "HC"} /\ Kinds # {}
  /\ Delays \subseteq Nat /\ Delays # {} /\ Gaps \subseteq Nat /\ Gaps # {}
  /\ Buses \subseteq {"clean", "lossy", "noisy", "failing"} /\ Buses # {}
  /\ ChecksCrc \in BOOLEAN
  /\ {Window, BlockBytes, Addresses, Capacity, MaxCount, MaxMedia, Retries}
       \subseteq Nat \ {0}

Statuses == {"SUCCESS", "CRC_ERROR", "DEVICE_ERROR", "TIMEOUT", "UNSUPPORTED",
             "NO_MEDIA"}
Commands == {"CMD0", "CMD8", "CMD9", "CMD12", "CMD13", "CMD16", "CMD17",
             "CMD18", "CMD24", "CMD25", "CMD55", "CMD58", "ACMD41"}

\* R1 answers: idle bit, none, illegal command, CRC error, other error bits.
Answers  == {"idle", "ready", "illegal", "crc", "reject"}

NoBlock  == -1    \* no data phase
CsdBlock == -2    \* the data phase of CMD9
Garbage  == -3    \* what the driver takes for a block and no card sent

(***************************************************************************)
(* The card in the slot.  A card powers up in SD mode and ignores SPI      *)
(* until CMD0.  sending and receiving are the next block of an open data   *)
(* phase, stream tells CMD18 and CMD25 from CMD17 and CMD24.               *)
(***************************************************************************)
Card == [medium : 0 .. MaxMedia, present : BOOLEAN, kind : Kinds,
         mode : {"sd", "idle", "ready"}, sending : {NoBlock, CsdBlock} \union Nat,
         receiving : {NoBlock} \union Nat, stream : BOOLEAN]

Request == [op : {"read", "write"}, lba : Nat, count : Nat \ {0},
            medium : 0 .. MaxMedia, quiet : BOOLEAN]

NoRequest == [op |-> "read", lba |-> 0, count |-> 1, medium |-> 0, quiet |-> FALSE]

VARIABLES
  bus,        \* the bus of this behaviour
  card,
  selected,   \* is the chip select asserted?
  cardType,   \* Private->CardType
  pc, status, \* where the driver is; status of the call that returned last
  lost,       \* is the next token missed? (in a write: or was an earlier one)
  spoiled,    \* history: has a start token of the transfer been missed, or a
              \* block been damaged on its way to the card?
  retry,      \* SdCardInitializeSpi: Retry
  ready,      \* did the last initialization succeed? (MediaPresent)
  done,       \* SdCardExecuteReadWriteSpi: i
  req,        \* the transfer: parameters, and history of what held at its call
  moved       \* <<medium, block>> the transfer has read or stored so far

vars == <<bus, card, selected, cardType, pc, status, lost, spoiled, retry,
          ready, done, req, moved>>

driverVars == <<selected, cardType, spoiled, retry, ready, done, req, moved>>
-----------------------------------------------------------------------------
(* CRCs                                                                    *)

CardCrc7(bits)  == Remainder(<<0, 0, 0, 1, 0, 0, 1>>, bits) \o <<1>>
CardCrc16(bits) == Remainder(Bits8(16) \o Bits8(33), bits)

ExactFrame(f) == SubSeq(f, 41, 48) = CardCrc7(SubSeq(f, 1, 40))

Cmd0IsExact == ExactFrame(SdCardPackCommand(0, <<0, 0, 0, 0>>))
Cmd8IsExact == ExactFrame(SdCardPackCommand(8, <<0, 0, 1, 170>>))

\* A few blocks of three bytes, and what noise may add to one: bursts of up
\* to four bits and pairs of bits.
Blocks == {Bits8(0) \o Bits8(0) \o Bits8(0), Bits8(254) \o Bits8(1) \o Bits8(90)}
Pair(j, k)  == [i \in 1 .. 24 |-> IF i \in {j, k} THEN 1 ELSE 0]
Burst(j, b) == [i \in 1 .. 24 |-> IF i = j \/ (i - j \in 1 .. 3 /\ b[i - j] = 1) THEN 1 ELSE 0]
Errors == {Pair(j, k) : j \in 1 .. 24, k \in 1 .. 24}
            \union {Burst(j, b) : j \in 1 .. 24, b \in [1 .. 3 -> {0, 1}]}

\* Mutant: the CRC of a block is not compared.
CrcIgnored(bits, crc) == TRUE

\* SdCardReadDataBlockSpi compares the CRC it receives.
CrcMatches(bits, crc) == SdCardCalculateCrc16(bits) = crc

BlocksPass    == \A d \in Blocks : CrcMatches(d, CardCrc16(d))
ErrorsPass    == \E d \in Blocks, e \in Errors :
                   CrcMatches(XorBits(d, e), CardCrc16(d))

-----------------------------------------------------------------------------
(* The card                                                                *)

\* In SD mode a card takes CMD0 only, and only with its CRC.
Hears(c) ==
  /\ selected /\ card.present
  /\ card.mode # "sd" \/ (c = "CMD0" /\ (ChecksCrc => Cmd0IsExact))

\* Data is on the wire where the driver looks for an answer.
Streaming(c) == card.sending # NoBlock /\ c \notin {"CMD0", "CMD12"}

R1Now == IF card.mode = "ready" THEN "ready" ELSE "idle"

Quiet(c) == [c EXCEPT !.sending = NoBlock, !.receiving = NoBlock,
                      !.stream = FALSE]

\* The card that sends, or takes, block b next, and maybe more.
Sends(b, more) == [card EXCEPT !.sending = b, !.stream = more]
Takes(b, more) == [card EXCEPT !.receiving = b, !.stream = more]

\* The block a card finds at an address, NoBlock if there is none.
BlockAt(address) ==
  IF card.kind = "HC"
  THEN IF address < Capacity THEN address ELSE NoBlock
  ELSE IF address % BlockBytes = 0 /\ address \div BlockBytes < Capacity
       THEN address \div BlockBytes ELSE NoBlock

\* The next block of a data phase after block b.
Following(b) ==
  IF card.stream /\ b >= 0 /\ b + 1 < Capacity THEN b + 1 ELSE NoBlock

-----------------------------------------------------------------------------
(* SdCardSendCommandSpi                                                    *)

Seen(d, r) ==
  IF d >= Window            THEN "TIMEOUT"
  ELSE IF r = "illegal"     THEN "UNSUPPORTED"
  ELSE IF r = "crc"         THEN "CRC_ERROR" ELSE "SUCCESS"

Outcome(st, r, d, after) == [st |-> st, r1 |-> r, delay |-> d, card |-> after]

Disturbs == bus \in {"lossy", "noisy"}

(* What a card that hears the driver may do when it takes a command for    *)
(* another, or for the same command at another address.                    *)
Mistaken ==
  IF ~Hears("data") THEN {}
  ELSE {Quiet(card)}
       \union (IF ChecksCrc THEN {} ELSE {[Quiet(card) EXCEPT !.mode = "idle"]})
       \union (IF card.mode # "ready" THEN {} ELSE
                 {Sends(b, s) : b \in 0 .. Capacity - 1, s \in BOOLEAN} \union
                 {Takes(b, s) : b \in 0 .. Capacity - 1, s \in BOOLEAN})

(* What a command may come to when it, or its answer, is taken for         *)
(* another.  (No caller tells one error from another.)                     *)
Altered(afters) ==
  IF bus # "noisy" THEN {}
  ELSE LET thens == afters \union Mistaken
       IN  {Outcome("SUCCESS", any, 0, then) :
              any \in {"idle", "ready", "reject"}, then \in thens}
           \union {Outcome("UNSUPPORTED", "reject", 0, then) : then \in thens}

\* What the bus may make of an exchange.
Disturbed(r, after) ==
  Altered({card, after}) \union
  (IF Disturbs
   THEN {Outcome("TIMEOUT", r, 0, card), Outcome("TIMEOUT", r, 0, after),
         Outcome("CRC_ERROR", r, 0, card), Outcome("UNSUPPORTED", r, 0, card)}
   ELSE IF bus = "failing"
   THEN {Outcome("DEVICE_ERROR", r, 0, card), Outcome("DEVICE_ERROR", r, 0, after)}
   ELSE {})

(* A card that waits for data takes a byte of an argument, or a disturbed  *)
(* one, that looks like a start token for one, and what follows for data.  *)
Unheard(c) ==
  {card} \union
  (IF Hears(c) /\ card.receiving # NoBlock
        /\ (Disturbs \/ c \in {"CMD17", "CMD18", "CMD24", "CMD25"})
   THEN {[card EXCEPT !.receiving = Following(card.receiving)]} ELSE {})

(* What sending command c may come to, when the card would answer r and be *)
(* "after" then.  A card that waits for data answers no command but CMD0.  *)
Exchange(c, r, after) ==
  IF ~Hears(c) \/ (card.receiving # NoBlock /\ c # "CMD0")
  THEN {Outcome("TIMEOUT", "reject", 0, then) : then \in Unheard(c)}
       \union Altered({card})
  ELSE IF Streaming(c)
  THEN {Outcome(st, any, 0, then) :
          st \in {"SUCCESS", "CRC_ERROR", "UNSUPPORTED", "TIMEOUT"},
          any \in {"idle", "ready", "reject"},
          then \in IF card.stream THEN {card} ELSE {card, Quiet(card)}}
       \union Altered({card})
  ELSE {Outcome(Seen(d, r), r, d, after) : d \in Delays}
       \union Disturbed(r, after)

\* A token may be missed where bytes are disturbed.
Missed == IF Disturbs THEN BOOLEAN ELSE {FALSE}

\* The start token a card sends after an answer delayed by d.
TokenLost(d) ==
  {d + 1 + g < Window : g \in Gaps} \union (IF Disturbs THEN {TRUE} ELSE {})

\* What the driver reads of a register, when no CRC protects it; of bytes a
\* failing bus did not transfer, what its buffer held before.
Read(values) == IF bus \in {"noisy", "failing"} THEN BOOLEAN ELSE values

Goto(l)    == pc' = l /\ UNCHANGED status
Return(st) == pc' = "idle" /\ status' = st

-----------------------------------------------------------------------------
(* SdCardInitialize in SPI mode: presence, then SdCardInitializeSpi        *)

\* DetectCardPresence: does the card answer CMD13?  Of the transfer before
\* nothing is remembered.
Detect ==
  /\ pc = "idle"
  /\ req' = NoRequest /\ moved' = <<>> /\ done' = 0
  /\ lost' = FALSE /\ spoiled' = FALSE
  /\ \E x \in Exchange("CMD13", R1Now, card) :
       /\ card' = x.card
       /\ IF x.st = "SUCCESS"
          THEN Goto("clocks") /\ UNCHANGED ready
          ELSE Return("NO_MEDIA") /\ ready' = FALSE
  /\ UNCHANGED <<selected, cardType, retry>>

(* The flags are cleared, the dummy clocks sent, the card selected, the    *)
(* status of which is ignored.                                             *)
InitClocks ==
  /\ pc = "clocks"
  /\ ready' = FALSE
  /\ selected' \in IF bus = "failing" THEN BOOLEAN ELSE {TRUE}
  /\ Goto("cmd0")
  /\ UNCHANGED <<card, cardType, lost, spoiled, retry, done, req, moved>>

\* Send c, which the card answers by r, and give up unless r is accepted.
InitCommand(c, r, after, accepted, next) ==
  \E x \in Exchange(c, r, after) :
    /\ card' = x.card
    /\ IF x.st = "SUCCESS" /\ x.r1 \in accepted
       THEN Goto(next) ELSE Return("DEVICE_ERROR")

InitReset ==
  /\ pc = "cmd0"
  /\ InitCommand("CMD0", "idle", [Quiet(card) EXCEPT !.mode = "idle"],
                 {"idle"}, "cmd8")
  /\ UNCHANGED <<driverVars, lost>>

\* The echoed pattern is the last byte of R7.
PatternSeen(d) ==
  Read({Window - 1 - d = 0} \union (IF bus = "lossy" THEN {FALSE} ELSE {}))

InitVersion ==
  /\ pc = "cmd8"
  /\ \E x \in Exchange("CMD8", IF card.kind = "V1" THEN "illegal"
                              ELSE IF ChecksCrc /\ ~Cmd8IsExact THEN "crc"
                              ELSE "idle", card) :
       /\ card' = x.card
       /\ IF x.st = "SUCCESS" /\ x.r1 = "idle"
          THEN /\ cardType' = "SC"
               /\ \E seen \in PatternSeen(x.delay) :
                    IF seen THEN Goto("acmd41") ELSE Return("DEVICE_ERROR")
          ELSE cardType' = "V1" /\ Goto("acmd41")
  /\ retry' = Retries
  /\ UNCHANGED <<selected, lost, spoiled, ready, done, req, moved>>

\* Mutants: the loop counts up, or starts over.
RetriesUp(n)        == n + 1
RetriesStartOver(n) == IF n = 1 THEN Retries ELSE n - 1

RetriesLeft(n) == n - 1

\* Mutant: any answer to ACMD41 ends the loop.
OpCondAnswered(r) == TRUE

OpCondDone(r) == r # "idle"

(* CMD55 and ACMD41, whose HCS argument a high capacity card needs before  *)
(* it ever leaves the idle state.                                          *)
InitOpCond ==
  /\ pc = "acmd41"
  /\ \E accepted \in {x.st = "SUCCESS" : x \in Exchange("CMD55", R1Now, card)} :
       LET hcs == accepted /\ cardType = "SC"
           answers == Exchange("ACMD41", "idle", card) \union
             (IF card.kind = "HC" /\ ~hcs THEN {}
              ELSE Exchange("ACMD41", "ready", [card EXCEPT !.mode = "ready"]))
       IN \E y \in answers :
            /\ card' = y.card
            /\ \/ /\ y.st # "SUCCESS"
                  /\ Return("TIMEOUT") /\ retry' = 0
               \/ /\ y.st = "SUCCESS" /\ OpCondDone(y.r1)
                  /\ Goto(IF cardType = "SC" THEN "cmd58" ELSE "cmd16")
                  /\ retry' = 0
               \/ /\ y.st = "SUCCESS" /\ ~OpCondDone(y.r1)
                  /\ retry' = RetriesLeft(retry)
                  /\ IF retry' <= 0 THEN Return("TIMEOUT") ELSE Goto("acmd41")
  /\ UNCHANGED <<selected, cardType, lost, spoiled, ready, done, req, moved>>

(* What the driver takes for the capacity bit, bit 6 of the first byte it  *)
(* reads: that of the OCR, damaged or not, of a later OCR byte, or of a    *)
(* filler byte.                                                            *)
CapacityBit(d) ==
  Read(IF bus = "lossy"            THEN BOOLEAN
       ELSE IF d + 1 = Window      THEN {card.kind = "HC"}
       ELSE IF d + 1 >= Window - 3 THEN BOOLEAN
       ELSE {TRUE})

InitCapacity ==
  /\ pc = "cmd58"
  /\ \E x \in Exchange("CMD58", R1Now, card) :
       /\ card' = x.card
       /\ IF x.st = "SUCCESS" /\ x.r1 \in {"ready", "idle"}
          THEN \E ccs \in CapacityBit(x.delay) :
                 /\ cardType' = IF ccs THEN "HC" ELSE cardType
                 /\ Goto(IF ccs THEN "cmd9" ELSE "cmd16")
          ELSE Return("DEVICE_ERROR") /\ UNCHANGED cardType
  /\ UNCHANGED <<selected, lost, spoiled, retry, ready, done, req, moved>>

InitBlockLength ==
  /\ pc = "cmd16"
  /\ InitCommand("CMD16", R1Now, card, {"ready"}, "cmd9")
  /\ UNCHANGED <<driverVars, lost>>

InitCsd ==
  /\ pc = "cmd9"
  /\ \E x \in Exchange("CMD9", R1Now, [card EXCEPT !.sending = CsdBlock]) :
       /\ card' = x.card
       /\ IF x.st = "SUCCESS" /\ x.r1 \in {"ready", "idle"}
          THEN Goto("csd") ELSE Return("DEVICE_ERROR")
       /\ lost' \in TokenLost(x.delay)
  /\ UNCHANGED driverVars

-----------------------------------------------------------------------------
(* Data phases                                                             *)

Block(st, got, after) == [st |-> st, got |-> got, card |-> after]

\* A data phase as long as the driver expects: of a CSD, or of a block.
Expected(b) == b = CsdBlock <=> pc = "csd"

(* SdCardReadDataBlockSpi.  Without the start token it scans the data for  *)
(* a byte that looks like one, and finds that of the next block, if the    *)
(* card sends a next block.  Of bytes that are not a block of its length   *)
(* the CRC is taken not to match.                                          *)
Received ==
  LET b    == card.sending
      over == [card EXCEPT !.sending = Following(b)]
      next == Following(b)
      past == [card EXCEPT !.sending = Following(next)]
      mismatches == {Block("CRC_ERROR", <<>>, over)} \union
                    (IF bus = "noisy" THEN {Block("CRC_ERROR", <<>>, card)} ELSE {})
  IN  IF ~Hears("data") \/ b = NoBlock
      THEN {Block("TIMEOUT", <<>>, card)} \union
           (IF bus \in {"noisy", "failing"}
            THEN {Block("CRC_ERROR", <<>>, card)} ELSE {}) \union
           (IF bus = "failing" THEN {Block("SUCCESS", <<Garbage>>, card)} ELSE {})
      ELSE IF bus = "failing"
      THEN {Block(st, <<>>, after) : st \in {"CRC_ERROR", "TIMEOUT"},
                                     after \in {card, over}}
           \union {Block("SUCCESS", <<any>>, after) : any \in {b, Garbage},
                                                     after \in {card, over}}
      ELSE IF lost
      THEN mismatches \union
           (IF next = NoBlock THEN {Block("TIMEOUT", <<>>, over)}
            ELSE {Block("CRC_ERROR", <<>>, past)} \union
                 (IF Expected(next) THEN {Block("SUCCESS", <<next>>, past)} ELSE {}))
      ELSE {IF BlocksPass /\ Expected(b) THEN Block("SUCCESS", <<b>>, over)
                                         ELSE Block("CRC_ERROR", <<>>, over)} \union
           (IF Disturbs
            THEN mismatches \union
                 (IF ErrorsPass THEN {Block("SUCCESS", <<Garbage>>, over)} ELSE {})
            ELSE {})

(* SdCardWriteDataBlockSpi.  A card that takes no data leaves the line     *)
(* high, which is no acceptance; one that sends may seem to accept.  A     *)
(* card that missed the start token takes none, or takes a byte of the     *)
(* data for it and still waits for bytes when it should answer: it stores  *)
(* its block from what comes next.  The CRC of the block it never checks.  *)
Written ==
  LET b    == card.receiving
      over == [card EXCEPT !.receiving = Following(b)]
  IN  IF bus \in {"noisy", "failing"}
      THEN {Block(st, <<>>, card) : st \in {"SUCCESS", "DEVICE_ERROR", "TIMEOUT"}}
           \union (IF Hears("data") /\ b # NoBlock
                   THEN {Block(st, got, over) : got \in {<<>>, <<b>>},
                           st \in {"SUCCESS", "DEVICE_ERROR", "TIMEOUT"}} ELSE {})
      ELSE IF ~Hears("data") \/ b = NoBlock
      THEN {Block("DEVICE_ERROR", <<>>, card)} \union
           (IF Hears("data") /\ card.sending # NoBlock
            THEN {Block("SUCCESS", <<>>, card), Block("TIMEOUT", <<>>, card)}
            ELSE {})
      ELSE IF lost
      THEN {Block("DEVICE_ERROR", <<>>, card), Block("DEVICE_ERROR", <<b>>, over)}
      ELSE {Block("SUCCESS", <<b>>, over), Block("TIMEOUT", <<b>>, over)} \union
           (IF bus = "lossy"
            THEN {Block("DEVICE_ERROR", got, over) : got \in {<<>>, <<b>>}} ELSE {})

\* Mutant: identification leaves the type that initialization found.
TypeKept(high) == cardType

\* The type identification concludes from the structure of the CSD.
TypeOfCsd(high) == IF high THEN "HC" ELSE IF cardType = "SC" THEN "SC" ELSE "V1"

\* The CSD is read, parsed, and parsed again by the identification.
InitReadCsd ==
  /\ pc = "csd"
  /\ \E x \in Received :
       /\ card' = x.card
       /\ Return(x.st)
       /\ ready' = (x.st = "SUCCESS")
       /\ IF x.st = "SUCCESS"
          THEN \E high \in IF x.got = <<CsdBlock>> THEN {card.kind = "HC"} ELSE BOOLEAN :
                 cardType' = TypeOfCsd(high)
          ELSE UNCHANGED cardType
  /\ UNCHANGED <<selected, lost, spoiled, retry, done, req, moved>>

-----------------------------------------------------------------------------
(* SdCardExecuteReadWriteSpi.  Block I/O has checked that media is present *)
(* and that the first block, not the last, is on the card.                 *)

CallTransfer(op, lba, count) ==
  /\ pc = "idle" /\ ready
  /\ req' = [op |-> op, lba |-> lba, count |-> count, medium |-> card.medium,
             quiet |-> card.sending = NoBlock]
  /\ moved' = <<>> /\ done' = 0 /\ spoiled' = FALSE
  /\ Goto("command")
  /\ UNCHANGED <<card, selected, cardType, lost, retry, ready>>

\* Mutant: every card is addressed by blocks.
AddressInBlocks(lba) == lba % Addresses

\* The command argument: a block number or, in 32 bits, a byte address.
Address(lba) ==
  IF cardType = "HC" THEN lba % Addresses ELSE (lba * BlockBytes) % Addresses

TransferCode ==
  IF req.op = "write" THEN (IF req.count > 1 THEN "CMD25" ELSE "CMD24")
                      ELSE (IF req.count > 1 THEN "CMD18" ELSE "CMD17")

(* An error answer other than CRC error and illegal command counts as an   *)
(* acceptance here.                                                        *)
TransferCommand ==
  LET b  == BlockAt(Address(req.lba))
      r  == IF card.mode # "ready" THEN "illegal"
            ELSE IF b = NoBlock THEN "reject" ELSE "ready"
      on == IF r # "ready" THEN card
            ELSE IF req.op = "read"
            THEN Sends(b, req.count > 1) ELSE Takes(b, req.count > 1)
  IN
  /\ pc = "command"
  /\ \E x \in Exchange(TransferCode, r, on) :
       /\ card' = x.card
       /\ IF x.st = "SUCCESS" THEN Goto("block") ELSE Return("DEVICE_ERROR")
       /\ lost' \in IF req.op = "read" THEN TokenLost(x.delay) ELSE Missed
  /\ UNCHANGED driverVars

\* Mutant: a failed block does not end the loop.
MoreBlocksAnyway(st) == done' < req.count

MoreBlocks(st) == st = "SUCCESS" /\ done' < req.count

TransferBlock ==
  /\ pc = "block"
  /\ done' = done + 1
  /\ \E x \in IF req.op = "read" THEN Received ELSE Written :
       /\ card' = x.card
       /\ status' = x.st
       /\ moved' = moved \o
                   [k \in 1 .. Len(x.got) |-> <<card.medium, x.got[k]>>]
       /\ pc' = IF MoreBlocks(x.st) THEN "block"
                ELSE IF req.count > 1 THEN "stop" ELSE "idle"
  /\ lost' \in IF lost /\ req.op = "write" THEN {TRUE} ELSE Missed
  /\ spoiled' \in {spoiled \/ lost} \union
                  (IF Disturbs /\ req.op = "write" THEN {TRUE} ELSE {})
  /\ UNCHANGED <<selected, cardType, retry, ready, req>>

\* Mutant: the stop token is not sent.
StopTokenUnsent == card

StopTokenSent ==
  IF Hears("data") /\ card.receiving # NoBlock THEN Quiet(card) ELSE card

\* SdCardWaitNotBusySpi: an empty slot is not busy.
NotBusy ==
  {"SUCCESS"} \union
  (IF Hears("data") \/ bus = "failing" THEN {"TIMEOUT"} ELSE {})

(* The end of a multi-block write, whose status is that of the wait.  The  *)
(* stop token may be missed, or come while the card still takes a block.   *)
StopWrite ==
  /\ pc = "stop" /\ req.op = "write"
  /\ card' \in {StopTokenSent} \union
              (IF lost \/ bus \in {"noisy", "failing"} THEN {card} ELSE {})
  /\ \E st \in NotBusy : Return(st)
  /\ UNCHANGED <<driverVars, lost>>

\* CMD12 follows a multi-block read only if the read failed.
StopRead ==
  /\ pc = "stop" /\ req.op = "read"
  /\ Goto("idle")
  /\ IF status = "SUCCESS"
     THEN UNCHANGED card
     ELSE \E x \in Exchange("CMD12", "ready", Quiet(card)) : card' = x.card
  /\ UNCHANGED <<driverVars, lost>>

-----------------------------------------------------------------------------
(* The slot: cards come and go at any time.                                *)

Remove ==
  /\ card.present
  /\ card' = [Quiet(card) EXCEPT !.present = FALSE, !.mode = "sd"]
  /\ UNCHANGED <<driverVars, pc, status, lost>>

Insert(kind) ==
  /\ ~card.present /\ card.medium < MaxMedia
  /\ card' = [card EXCEPT !.medium = @ + 1, !.present = TRUE, !.kind = kind]
  /\ UNCHANGED <<driverVars, pc, status, lost>>

(* The firmware may have left a card in any state and selected.            *)
Init ==
  /\ bus \in Buses
  /\ card \in [medium : {0}, present : BOOLEAN, kind : Kinds,
               mode : {"sd", "idle", "ready"}, sending : {NoBlock},
               receiving : {NoBlock}, stream : {FALSE}]
  /\ card.present \/ card.mode = "sd"
  /\ selected \in BOOLEAN
  /\ cardType = "UNKNOWN" /\ pc = "idle" /\ status = "SUCCESS"
  /\ lost = FALSE /\ spoiled = FALSE /\ retry = 0 /\ ready = FALSE /\ done = 0
  /\ req = NoRequest /\ moved = <<>>

DriverStep ==
  \/ InitClocks \/ InitReset \/ InitVersion \/ InitOpCond \/ InitCapacity
  \/ InitBlockLength \/ InitCsd \/ InitReadCsd
  \/ TransferCommand \/ TransferBlock \/ StopWrite \/ StopRead

Call ==
  \/ Detect
  \/ \E op \in {"read", "write"}, lba \in 0 .. Capacity - 1,
        count \in 1 .. MaxCount : CallTransfer(op, lba, count)

Slot == Remove \/ \E kind \in Kinds : Insert(kind)

Next == (DriverStep \/ Call \/ Slot) /\ UNCHANGED bus

Spec == Init /\ [][Next]_vars

\* A call in progress has the processor.
FairSpec == Spec /\ WF_vars(DriverStep /\ UNCHANGED bus)

-----------------------------------------------------------------------------
(* Properties                                                              *)

PCs == {"idle", "clocks", "cmd0", "cmd8", "acmd41", "cmd58", "cmd16", "cmd9",
        "csd", "command", "block", "stop"}

\* Every variable has its type.
TypeOK ==
  /\ bus \in Buses /\ card \in Card /\ selected \in BOOLEAN
  /\ cardType \in {"UNKNOWN", "V1", "SC", "HC"}
  /\ pc \in PCs /\ status \in Statuses
  /\ lost \in BOOLEAN /\ spoiled \in BOOLEAN /\ retry \in 0 .. Retries
  /\ ready \in BOOLEAN /\ done \in Nat /\ req \in Request
  /\ moved \in Seq((0 .. MaxMedia) \X ({Garbage, CsdBlock} \union Nat))

\* The blocks a request asks for, of the card it was made for.
Requested == [k \in 1 .. req.count |-> <<req.medium, req.lba + k - 1>>]

\* Nothing on the bus is taken for something else.
Sound == bus \in {"clean", "lossy"}

\* Nor had the card been left sending when the request was made.
Orderly == Sound /\ req.quiet

TransferEnds == pc \in {"block", "stop"} /\ pc' = "idle"

ReadSucceeds == TransferEnds /\ status' = "SUCCESS" /\ req.op = "read"

(* A read that reports success and missed no start token returned the      *)
(* requested blocks, in order and all from the card in the slot when it    *)
(* was called, although cards may be swapped at any block, answers may     *)
(* come late or be lost, and the length of a request is never checked      *)
(* against the capacity.                                                   *)
ReadIsExact ==
  [][ReadSucceeds /\ Orderly /\ ~spoiled' => moved' = Requested]_vars

(* Whatever is missed, damaged, taken for something else or swapped: a     *)
(* read that reports success returned as many whole blocks as were asked,  *)
(* each as the card in the slot at the call sent it, in the order of the   *)
(* card.  What may be wrong is where they are from.                        *)
ReadIsIntact ==
  [][ReadSucceeds /\ bus # "failing" =>
       /\ Len(moved') = req.count
       /\ \A k \in 1 .. Len(moved') :
            /\ moved'[k][1] = req.medium /\ moved'[k][2] \in 0 .. Capacity - 1
            /\ k > 1 => moved'[k - 1][2] < moved'[k][2]]_vars

(* A single-block read that reports success returned its block even if its *)
(* start token was missed, and a single-block write stored something, and  *)
(* at its place.  (Whether that is the data it was given, nobody checks.)  *)
SingleBlockIsExact ==
  [][TransferEnds /\ status' = "SUCCESS" /\ req.count = 1 /\ Orderly =>
       moved' = Requested]_vars

(* Whatever a write reports, whenever it stops and whichever tokens and    *)
(* answers are missed: the blocks it stored on are a prefix of those it    *)
(* was to store on, none skipped, misplaced or of another card.            *)
WritesStoreAPrefix ==
  pc \in {"block", "stop"} /\ req.op = "write" /\ Orderly =>
    \A k \in 1 .. Len(moved) : k <= req.count /\ moved[k] = Requested[k]

(* Once its command was accepted, and unless the card missed one of its    *)
(* tokens, no write returns with the card still waiting for data, which    *)
(* would make it deaf to all but CMD0: no damaged, refused or unanswered   *)
(* block leaves it so, and no swap.  (The code does nothing for a card     *)
(* that missed a token: that one stays waiting.)                           *)
WriteReleasesCard ==
  [][TransferEnds /\ req.op = "write" /\ Sound /\ ~lost =>
       card'.receiving = NoBlock]_vars

(* A successful initialization leaves a selected card in the ready state,  *)
(* although CMD58 and CMD9 accept the answer of an idle one, although      *)
(* commands and answers are missed, and although cards are swapped under   *)
(* it.  (An answer to ACMD41 that noise made is believed.)                 *)
InitializedIsReady ==
  [][pc = "csd" /\ ready' /\ Sound => card'.mode = "ready" /\ selected']_vars

(* However early a card answered, whatever byte the driver took for its    *)
(* OCR, whatever noise did to its bring-up and to the commands since, and  *)
(* whoever was swapped for it: a card that hears the command of a transfer *)
(* finds at the address in it the block that was asked.                    *)
AddressedByItsUnit ==
  pc = "command" /\ Hears(TransferCode) /\ bus # "failing" =>
    BlockAt(Address(req.lba)) = req.lba

(* The slot and the requests as Block I/O sees them.  A card is ready as   *)
(* long as the last bring-up was its own and succeeded.                    *)
SlotSeen ==
  [present |-> card.present, medium |-> card.medium,
   card |-> IF card.mode = "sd" THEN "fresh"
            ELSE IF card.mode = "idle" THEN "reset"
            ELSE IF ready THEN "ready" ELSE "halfway"]

RequestSeen ==
  IF pc = "idle" THEN "nothing"
  ELSE IF pc = "command" THEN "command"
  ELSE IF pc = "block" THEN "data"
  ELSE IF pc = "stop" THEN (IF req.op = "write" THEN "end" ELSE "nothing")
  ELSE "bringUp"

Transport ==
  INSTANCE BlockTransport
  WITH FreshAnswers <- FALSE, slot <- SlotSeen, works <- Sound,
       doing <- RequestSeen, ok <- RequestSeen = "nothing" /\ status = "SUCCESS"

(* The command sequences keep the contract SdCardMedia is built on: across *)
(* swaps and lost commands, a card put in stays deaf until it was brought  *)
(* up, and data moves only for a card that was.                            *)
ImplementsTransport == Transport!Spec

\* How many steps a call has left, at most.
StepsLeft ==
  CASE pc = "idle"    -> 0
    [] pc \in {"csd", "stop"} -> 1
    [] pc = "cmd9"    -> 2
    [] pc = "cmd16"   -> 3
    [] pc = "cmd58"   -> 4
    [] pc = "acmd41"  -> retry + 4
    [] pc = "cmd8"    -> Retries + 5
    [] pc = "cmd0"    -> Retries + 6
    [] pc = "clocks"  -> Retries + 7
    [] pc = "block"   -> req.count - done + 1
    [] pc = "command" -> req.count + 2

(* Whatever the card and the bus do, a call takes at most Retries + 7      *)
(* steps to bring a card up and two more than its blocks to move them, and *)
(* each step brings it closer to its end: no card put in or taken out      *)
(* gives it more to do, and a failed block does not make it try again.     *)
CallsAreBounded ==
  [][IF pc = "idle" THEN StepsLeft' \in {0, Retries + 7, req'.count + 2}
     ELSE \/ StepsLeft' \in 0 .. StepsLeft - 1
          \/ UNCHANGED <<driverVars, pc, status, lost>>]_vars

\* Every call returns: no card and no bus keeps the driver in a loop.
CallsReturn == pc # "idle" ~> pc = "idle"

-----------------------------------------------------------------------------
(* What the documentation promises and the code does not do                *)

(* SpiIo.h:112: "@retval EFI_SUCCESS The data was transferred correctly",  *)
(* of a multi-block write too.                                             *)
WriteIsStored ==
  [][TransferEnds /\ status' = "SUCCESS" /\ req.op = "write" /\ Orderly =>
       moved' = Requested]_vars

(* The same sentence of a read on a clean bus, of a card that keeps its    *)
(* start token back for less time than the answer window is long.          *)
ReadIsAsAsked ==
  [][bus = "clean" /\ ReadSucceeds /\ Orderly => moved' = Requested]_vars

(* templates/specs.json:338: "Send CMD8(arg=0x000001AA, crc=0x87)." and    *)
(* DriverLib.c:15, "Polynomial: x^7 + x^3 + 1 (0x89)": a version 2 card on *)
(* a clean bus, that checks the CRC of CMD8, is recognized.                *)
VersionIsRecognized ==
  [][bus = "clean" /\ pc = "cmd8" /\ Hears("CMD8") /\ card.kind # "V1" =>
       cardType' = "SC"]_vars
=============================================================================
