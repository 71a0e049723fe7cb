-------------------------- MODULE SdCardSpi_proofs --------------------------
(***************************************************************************)
(* Proofs about the SPI transport, for every card, delay, gap and size of  *)
(* a block, with any swaps and retries, each on the buses it names.        *)
(***************************************************************************)
EXTENDS SdCardSpi, DriverLib_proofs

Works == Sound

Types == {"UNKNOWN", "V1", "SC", "HC"}

\* The ACMD41 loop is entered with retries left.
Typed == TypeOK /\ (pc = "acmd41" => retry # 0)

\* No card, no conversation.
Absent ==
  ~card.present => card.mode = "sd" /\ card.sending = NoBlock /\ card.receiving = NoBlock

(* After CMD0 the card sends nothing until CMD9, and after ACMD41 a card   *)
(* that still hears the driver has left the idle state.                    *)
Bringing ==
  Works =>
    /\ pc \in {"cmd8", "acmd41", "cmd58", "cmd16", "cmd9"} => card.sending = NoBlock
    /\ pc \in {"cmd58", "cmd16", "cmd9", "csd"} => card.mode # "idle"

\* A card that hears the driver is the one that was identified, on noise too.
Identified ==
  /\ ready => pc \in {"idle", "clocks", "command", "block", "stop"}
  /\ pc = "command" => ready /\ req.lba \in 0 .. Capacity - 1
  /\ bus # "failing" /\ ready /\ card.mode # "sd" => (cardType = "HC" <=> card.kind = "HC")

(* A card that waits for the data of a write hears the driver, and knows   *)
(* how many blocks will come.                                              *)
Waiting ==
  Works =>
    /\ pc = "command" =>
         /\ done = 0 /\ moved = <<>>
         /\ card.mode # "sd" => card.medium = req.medium
         /\ req.quiet => card.sending = NoBlock
    /\ pc = "block" => done < req.count
    /\ pc = "stop" => req.count > 1
    /\ pc \in {"block", "stop"} /\ req.op = "write" /\ card.receiving # NoBlock =>
         /\ selected /\ card.present /\ card.mode # "sd"
         /\ card.stream <=> req.count > 1

(* What a write has stored is a prefix of what was asked, and the card     *)
(* waits for the block that comes next.                                    *)
Storing ==
  pc \in {"block", "stop"} /\ req.op = "write" /\ Orderly =>
    /\ \A k \in 1 .. Len(moved) : k <= req.count /\ moved[k] = <<req.medium, req.lba + k - 1>>
    /\ pc = "block" =>
         /\ Len(moved) = done /\ card.sending = NoBlock
         /\ card.receiving # NoBlock =>
              card.medium = req.medium /\ card.receiving = req.lba + done

\* No address of a block of a card wraps in the argument of a command.
AddressesSuffice == \A b \in 0 .. Capacity - 1 : b < Addresses /\ b * BlockBytes < Addresses

IInv == Typed /\ Absent /\ Bringing /\ Identified /\ Waiting

-----------------------------------------------------------------------------
(* The card                                                                *)

LEMMA CardFields ==
  ASSUME card \in Card
  PROVE  /\ card.medium \in 0 .. MaxMedia /\ card.present \in BOOLEAN
         /\ card.kind \in Kinds /\ card.mode \in {"sd", "idle", "ready"}
         /\ card.sending \in {NoBlock, CsdBlock} \union Nat
         /\ card.receiving \in {NoBlock} \union Nat /\ card.stream \in BOOLEAN
  BY DEF Card

LEMMA QuietCard ==
  ASSUME NEW c \in Card
  PROVE  /\ Quiet(c) \in Card /\ Quiet(c).medium = c.medium
         /\ Quiet(c).present = c.present /\ Quiet(c).kind = c.kind
         /\ Quiet(c).mode = c.mode /\ Quiet(c).sending = NoBlock
         /\ Quiet(c).receiving = NoBlock
  BY DEF Quiet, Card

LEMMA FollowingBlock ==
  ASSUME card \in Card, NEW b \in Int
  PROVE  /\ Following(b) \in {NoBlock} \union Nat
         /\ Following(b) # NoBlock => card.stream /\ Following(b) = b + 1
<1>1. CASE card.stream /\ b >= 0 /\ b + 1 < Capacity
  BY <1>1 DEF Following
<1>2. CASE ~(card.stream /\ b >= 0 /\ b + 1 < Capacity)
  BY <1>2 DEF Following
<1> QED
  BY <1>1, <1>2

LEMMA SeenStatus ==
  ASSUME NEW d, NEW r
  PROVE  /\ Seen(d, r) \in {"SUCCESS", "TIMEOUT", "UNSUPPORTED", "CRC_ERROR"}
         /\ Seen(d, r) = "SUCCESS" => r \notin {"illegal", "crc"}
  BY DEF Seen

\* The card c is the card in the slot.
Same(c) ==
  /\ c \in Card /\ c.medium = card.medium /\ c.present = card.present
  /\ c.kind = card.kind
  /\ ~card.present => c = card

Taken == [card EXCEPT !.receiving = Following(card.receiving)]

\* The card after a block it took.
LEMMA TakenOn ==
  ASSUME card \in Card, card.receiving # NoBlock
  PROVE  /\ Taken \in Card /\ Taken.medium = card.medium /\ Taken.present = card.present
         /\ Taken.kind = card.kind /\ Taken.mode = card.mode
         /\ Taken.sending = card.sending /\ Taken.stream = card.stream
         /\ Taken.receiving = Following(card.receiving)
<1>1. Following(card.receiving) \in {NoBlock} \union Nat
  BY FollowingBlock DEF Card, NoBlock
<1> QED
  BY <1>1 DEF Card, Taken

\* A command taken for another leaves the card in the slot, and in SPI mode.
LEMMA MistakenCard ==
  ASSUME card \in Card, NEW m \in Mistaken
  PROVE  /\ Same(m) /\ card.present /\ card.mode # "sd"
         /\ m.mode = card.mode \/ m.mode = "idle"
<1>1. Hears("data") /\ card.present /\ card.mode # "sd"
  <2>1. ~Hears("data") => Mistaken = {}
    BY DEF Mistaken
  <2> QED
    BY <2>1 DEF Hears
<1>2. \/ m = Quiet(card) \/ m = [Quiet(card) EXCEPT !.mode = "idle"]
      \/ m \in {Sends(b, t) : b \in 0 .. Capacity - 1, t \in BOOLEAN}
      \/ m \in {Takes(b, t) : b \in 0 .. Capacity - 1, t \in BOOLEAN}
  BY <1>1 DEF Mistaken
<1>3. CASE m = Quiet(card)
  BY <1>1, <1>3, QuietCard DEF Same
<1>4. CASE m = [Quiet(card) EXCEPT !.mode = "idle"]
  <2>1. /\ m \in Card /\ m.medium = card.medium /\ m.present = card.present
        /\ m.kind = card.kind /\ m.mode = "idle"
    BY <1>4, QuietCard DEF Card
  <2> QED
    BY <1>1, <2>1 DEF Same
<1>5. ASSUME NEW b \in 0 .. Capacity - 1, NEW t \in BOOLEAN, m = Sends(b, t) \/ m = Takes(b, t)
      PROVE  Same(m) /\ m.mode = card.mode
  <2>1. b \in Nat
    BY SpiAssumption
  <2>2. /\ m \in Card /\ m.medium = card.medium /\ m.present = card.present
        /\ m.kind = card.kind /\ m.mode = card.mode
    BY <1>5, <2>1 DEF Card, Sends, Takes
  <2> QED
    BY <1>1, <2>2 DEF Same
<1>6. ASSUME m \in {Sends(b, t) : b \in 0 .. Capacity - 1, t \in BOOLEAN}
      PROVE  Same(m) /\ m.mode = card.mode
  <2>1. PICK b \in 0 .. Capacity - 1, t \in BOOLEAN : m = Sends(b, t)
    BY <1>6
  <2> QED
    BY <1>5, <2>1
<1>7. ASSUME m \in {Takes(b, t) : b \in 0 .. Capacity - 1, t \in BOOLEAN}
      PROVE  Same(m) /\ m.mode = card.mode
  <2>1. PICK b \in 0 .. Capacity - 1, t \in BOOLEAN : m = Takes(b, t)
    BY <1>7
  <2> QED
    BY <1>5, <2>1
<1> QED
  BY <1>1, <1>2, <1>3, <1>4, <1>6, <1>7

LEMMA UnheardCard ==
  ASSUME NEW c, NEW m \in Unheard(c)
  PROVE  m = card \/ (m = Taken /\ Hears(c) /\ card.receiving # NoBlock)
  BY DEF Unheard, Taken

LEMMA AlteredOutcome ==
  ASSUME NEW afters, NEW x \in Altered(afters)
  PROVE  /\ bus = "noisy" /\ x.card \in afters \union Mistaken /\ x.delay = 0
         /\ x.st \in {"SUCCESS", "UNSUPPORTED"}
<1> DEFINE thens == afters \union Mistaken
<1>1. /\ bus = "noisy"
      /\ \/ x \in {Outcome("SUCCESS", any, 0, then) :
                     any \in {"idle", "ready", "reject"}, then \in thens}
         \/ x \in {Outcome("UNSUPPORTED", "reject", 0, then) : then \in thens}
  BY DEF Altered
<1> HIDE DEF thens
<1>2. \E st \in {"SUCCESS", "UNSUPPORTED"}, any \in {"idle", "ready", "reject"},
         then \in thens : x = Outcome(st, any, 0, then)
  <2>1. CASE x \in {Outcome("SUCCESS", any, 0, then) :
                      any \in {"idle", "ready", "reject"}, then \in thens}
    BY <2>1
  <2>2. CASE x \in {Outcome("UNSUPPORTED", "reject", 0, then) : then \in thens}
    BY <2>2
  <2> QED
    BY <1>1, <2>1, <2>2
<1> QED
  BY <1>1, <1>2 DEF Outcome, thens

Errors4 == {"TIMEOUT", "UNSUPPORTED", "CRC_ERROR", "DEVICE_ERROR"}

\* What a command may come to.
LEMMA Exchanged ==
  ASSUME NEW c, NEW r, NEW after, NEW x \in Exchange(c, r, after)
  PROVE  /\ \/ x.card = card \/ x.card \in Mistaken
            \/ x.card = Taken /\ Hears(c) /\ card.receiving # NoBlock
            \/ x.card \in {after, Quiet(card)} /\ Hears(c)
         /\ x.st \in {"SUCCESS"} \union Errors4
         /\ x.delay \in Nat
         /\ Works =>
              \/ x.card = card \/ x.card = after \/ (Streaming(c) /\ x.card = Quiet(card))
              \/ x.card = Taken /\ card.receiving # NoBlock
         /\ Works /\ x.st = "SUCCESS" =>
              /\ Hears(c) /\ (card.receiving = NoBlock \/ c = "CMD0")
              /\ \/ Streaming(c) /\ (x.card = card \/ x.card = Quiet(card))
                 \/ ~Streaming(c) /\ x.card = after /\ x.r1 = r /\ r \notin {"illegal", "crc"}
<1>0. ASSUME NEW afters, x \in Altered(afters), afters \subseteq {card, after},
             after \in afters => Hears(c)
      PROVE  /\ ~Works /\ x.st \in {"SUCCESS"} \union Errors4 /\ x.delay \in Nat
             /\ x.card = card \/ x.card \in Mistaken \/ (x.card = after /\ Hears(c))
  <2>1. /\ bus = "noisy" /\ x.card \in afters \union Mistaken /\ x.delay = 0
        /\ x.st \in {"SUCCESS", "UNSUPPORTED"}
    BY <1>0, AlteredOutcome
  <2> QED
    BY <1>0, <2>1 DEF Works, Sound, Errors4
<1>1. CASE ~Hears(c) \/ (card.receiving # NoBlock /\ c # "CMD0")
  <2>1. \/ \E then \in Unheard(c) : x = Outcome("TIMEOUT", "reject", 0, then)
        \/ x \in Altered({card})
    BY <1>1 DEF Exchange
  <2>2. ASSUME NEW then \in Unheard(c), x = Outcome("TIMEOUT", "reject", 0, then)
        PROVE  x.card = then /\ x.st = "TIMEOUT" /\ x.delay = 0
    BY <2>2 DEF Outcome
  <2>3. CASE x \in Altered({card})
    <3>1. x.card = card \/ x.card \in Mistaken
      BY <2>3, AlteredOutcome
    <3>2. ~Works /\ x.st \in {"SUCCESS"} \union Errors4 /\ x.delay \in Nat
      BY <2>3, AlteredOutcome DEF Works, Sound, Errors4
    <3> QED
      BY <3>1, <3>2
  <2> QED
    BY <2>1, <2>2, <2>3, UnheardCard DEF Errors4
<1>2. CASE Hears(c) /\ (card.receiving = NoBlock \/ c = "CMD0") /\ Streaming(c)
  <2>1. \/ \E st \in {"SUCCESS", "CRC_ERROR", "UNSUPPORTED", "TIMEOUT"},
              any \in {"idle", "ready", "reject"},
              then \in IF card.stream THEN {card} ELSE {card, Quiet(card)} :
                x = Outcome(st, any, 0, then)
        \/ x \in Altered({card})
    BY <1>2 DEF Exchange
  <2>2. CASE x \in Altered({card})
    <3>1. x.card = card \/ x.card \in Mistaken
      BY <2>2, AlteredOutcome
    <3>2. ~Works /\ x.st \in {"SUCCESS"} \union Errors4 /\ x.delay \in Nat
      BY <2>2, AlteredOutcome DEF Works, Sound, Errors4
    <3> QED
      BY <3>1, <3>2
  <2>3. ASSUME NEW st \in {"SUCCESS", "CRC_ERROR", "UNSUPPORTED", "TIMEOUT"},
               NEW any \in {"idle", "ready", "reject"},
               NEW then \in IF card.stream THEN {card} ELSE {card, Quiet(card)},
               x = Outcome(st, any, 0, then)
        PROVE  (x.card = card \/ x.card = Quiet(card)) /\ x.st = st /\ x.delay = 0
    <3>1. then = card \/ then = Quiet(card)
      OBVIOUS
    <3> QED
      BY <2>3, <3>1 DEF Outcome
  <2> QED
    BY <1>2, <2>1, <2>2, <2>3 DEF Errors4
<1>3. CASE Hears(c) /\ (card.receiving = NoBlock \/ c = "CMD0") /\ ~Streaming(c)
  <2>1. x \in {Outcome(Seen(d, r), r, d, after) : d \in Delays} \/ x \in Disturbed(r, after)
    BY <1>3 DEF Exchange
  <2>2. CASE x \in {Outcome(Seen(d, r), r, d, after) : d \in Delays}
    <3>1. PICK d \in Delays : x = Outcome(Seen(d, r), r, d, after)
      BY <2>2
    <3>2. d \in Nat
      BY SpiAssumption
    <3>3. /\ x.card = after /\ x.st = Seen(d, r) /\ x.delay = d /\ x.r1 = r
      BY <3>1 DEF Outcome
    <3> QED
      BY <1>3, <3>2, <3>3, SeenStatus DEF Errors4
  <2>3. CASE x \in Disturbed(r, after)
    <3>1. \/ x \in Altered({card, after})
          \/ \E st \in Errors4, then \in {card, after} : x = Outcome(st, r, 0, then)
      BY <2>3 DEF Disturbed, Errors4
    <3>2. CASE x \in Altered({card, after})
      <4>1. x.card = card \/ x.card = after \/ x.card \in Mistaken
        BY <3>2, AlteredOutcome
      <4>2. ~Works /\ x.st \in {"SUCCESS"} \union Errors4 /\ x.delay \in Nat
        BY <3>2, AlteredOutcome DEF Works, Sound, Errors4
      <4> QED
        BY <1>3, <4>1, <4>2
    <3>3. ASSUME NEW st \in Errors4, NEW then \in {card, after}, x = Outcome(st, r, 0, then)
          PROVE  x.card \in {card, after} /\ x.st \in Errors4 /\ x.delay = 0
      BY <3>3 DEF Outcome
    <3>4. "SUCCESS" \notin Errors4
      BY DEF Errors4
    <3> QED
      BY <1>3, <3>1, <3>2, <3>3, <3>4
  <2> QED
    BY <2>1, <2>2, <2>3
<1> QED
  BY <1>1, <1>2, <1>3

\* A command that succeeds finds no block on its way to the card.
LEMMA ExchangeSucceeds ==
  ASSUME NEW c, NEW r, NEW after, NEW x \in Exchange(c, r, after), x.st = "SUCCESS", Works
  PROVE  /\ Hears(c) /\ (card.receiving = NoBlock \/ c = "CMD0")
         /\ \/ Streaming(c) /\ (x.card = card \/ x.card = Quiet(card))
            \/ ~Streaming(c) /\ x.card = after /\ x.r1 = r /\ r \notin {"illegal", "crc"}
  BY Exchanged

\* A card that is in SD mode stays in it.
StaysDeaf(c) == card.mode = "sd" => c.mode = "sd"

LEMMA Answered ==
  ASSUME card \in Card, NEW c, NEW r, NEW after \in Card, after.medium = card.medium,
         after.present = card.present, after.kind = card.kind,
         NEW x \in Exchange(c, r, after)
  PROVE  /\ Same(x.card) /\ x.st \in Statuses /\ x.delay \in Nat
         /\ StaysDeaf(after) => StaysDeaf(x.card)
         /\ x.card.mode \in {card.mode, after.mode, "idle"}
         /\ Works => x.card.mode \in {card.mode, after.mode}
<1>1. x.card \in Mistaken => Same(x.card) /\ card.mode # "sd" /\ x.card.mode \in {card.mode, "idle"}
  BY MistakenCard
<1>2. ASSUME x.card \notin Mistaken
      PROVE  /\ x.card \in Card /\ x.card.medium = card.medium
             /\ x.card.present = card.present /\ x.card.kind = card.kind
             /\ x.card = card \/ card.present
             /\ x.card.mode \in {card.mode, after.mode}
  BY <1>2, Exchanged, QuietCard, TakenOn DEF Hears
<1>3. Works => x.card.mode \in {card.mode, after.mode}
  <2>1. ASSUME Works
        PROVE  \/ x.card = card \/ x.card = after \/ x.card = Quiet(card)
               \/ x.card = Taken /\ card.receiving # NoBlock
    BY <2>1, Exchanged
  <2> QED
    BY <2>1, QuietCard, TakenOn
<1>4. x.st \in Statuses /\ x.delay \in Nat
  BY Exchanged DEF Statuses, Errors4
<1> QED
  BY <1>1, <1>2, <1>3, <1>4 DEF Same, StaysDeaf

\* A command that changes no card by itself.
LEMMA Inquired ==
  ASSUME card \in Card, NEW c, NEW r, NEW x \in Exchange(c, r, card)
  PROVE  /\ Same(x.card) /\ x.st \in Statuses /\ x.delay \in Nat
         /\ StaysDeaf(x.card)
         /\ Works => x.card.mode = card.mode
         /\ Works => x.card.sending \in {card.sending, NoBlock}
<1>1. /\ Same(x.card) /\ x.st \in Statuses /\ x.delay \in Nat
      /\ StaysDeaf(card) => StaysDeaf(x.card)
      /\ Works => x.card.mode \in {card.mode}
  BY Answered
<1>2. ASSUME Works
      PROVE  \/ x.card = card \/ x.card = Quiet(card)
             \/ x.card = Taken /\ card.receiving # NoBlock
  BY <1>2, Exchanged
<1> QED
  BY <1>1, <1>2, QuietCard, TakenOn DEF StaysDeaf

LEMMA TokenBoolean ==
  ASSUME NEW d \in Nat, NEW t \in TokenLost(d) PROVE t \in BOOLEAN
<1>1. CASE t \in {d + 1 + g < Window : g \in Gaps}
  <2>1. PICK g \in Gaps : t = (d + 1 + g < Window)
    BY <1>1
  <2> QED
    BY <2>1
<1>2. CASE t = TRUE
  BY <1>2
<1> QED
  BY <1>1, <1>2 DEF TokenLost

LEMMA MissedBoolean == Missed \subseteq BOOLEAN
  BY DEF Missed

LEMMA ReadBoolean ==
  ASSUME NEW s, s \subseteq BOOLEAN PROVE Read(s) \subseteq BOOLEAN
  BY DEF Read

-----------------------------------------------------------------------------
(* Bringing a card up                                                      *)

InitPCs == {"cmd0", "cmd8", "acmd41", "cmd58", "cmd16", "cmd9", "csd"}

\* Outside of transfers the invariant is about the card and the place.
LEMMA InitStep ==
  ASSUME IInv, pc \in InitPCs, pc' \in InitPCs \union {"idle"}, ready' = FALSE,
         UNCHANGED <<bus, done, req, moved, spoiled>>, Same(card'), selected' \in BOOLEAN,
         cardType' \in Types, status' \in Statuses, lost' \in BOOLEAN,
         retry' \in 0 .. Retries, pc' = "acmd41" => retry' # 0, Bringing'
  PROVE  IInv'
<1>1. Typed'
  <2>1. TypeOK'
    BY DEF IInv, Typed, TypeOK, Same, InitPCs, PCs, Types
  <2> QED
    BY <2>1 DEF Typed
<1>2. Absent'
  BY DEF IInv, Absent, Same
<1>3. Identified'
  BY DEF Identified, InitPCs
<1>4. Waiting'
  BY DEF Waiting, InitPCs
<1> QED
  BY <1>1, <1>2, <1>3, <1>4 DEF IInv

LEMMA InvFacts ==
  ASSUME IInv
  PROVE  /\ card \in Card /\ selected \in BOOLEAN /\ cardType \in Types
         /\ status \in Statuses /\ lost \in BOOLEAN /\ retry \in 0 .. Retries
         /\ ready \in BOOLEAN
         /\ pc \in InitPCs => ready = FALSE
  BY DEF IInv, Typed, TypeOK, Identified, Types, InitPCs

LEMMA KeptReset ==
  ASSUME IInv, InitReset, UNCHANGED bus PROVE IInv'
<1> DEFINE after == [Quiet(card) EXCEPT !.mode = "idle"]
<1>1. /\ pc = "cmd0"
      /\ UNCHANGED <<selected, cardType, retry, ready, done, req, moved, spoiled, lost>>
  BY DEF InitReset, driverVars
<1>2. PICK x \in Exchange("CMD0", "idle", after) :
        /\ card' = x.card
        /\ IF x.st = "SUCCESS" /\ x.r1 \in {"idle"}
           THEN Goto("cmd8") ELSE Return("DEVICE_ERROR")
  BY DEF InitReset, InitCommand
<1>3. after \in Card /\ after.medium = card.medium /\ after.present = card.present
        /\ after.kind = card.kind /\ after.sending = NoBlock
  BY InvFacts, QuietCard DEF Card
<1>4. Same(x.card) /\ x.st \in Statuses
  BY <1>2, <1>3, Answered, InvFacts
<1>5. ASSUME Works, pc' = "cmd8" PROVE card'.sending = NoBlock
  <2>1. x.st = "SUCCESS"
    BY <1>2, <1>5 DEF Return
  <2>2. ~Streaming("CMD0")
    BY DEF Streaming
  <2>3. ASSUME x.st = "SUCCESS" PROVE x.card = after
    BY <1>2, <1>5, <2>2, <2>3, ExchangeSucceeds
  <2> QED
    BY <1>2, <1>3, <1>5, <2>1, <2>3
<1>6. pc' \in {"cmd8", "idle"} /\ status' \in Statuses
  BY <1>2, InvFacts DEF Goto, Return, Statuses
<1>7. Bringing'
  BY <1>5, <1>6 DEF Bringing, Works, Sound
<1> QED
  BY <1>1, <1>2, <1>4, <1>6, <1>7, InitStep, InvFacts DEF InitPCs

\* Nothing is on the wire and the card's mode is kept.
LEMMA Silent ==
  ASSUME card \in Card, card.sending = NoBlock, NEW c, NEW r, NEW x \in Exchange(c, r, card)
  PROVE  Works => x.card.sending = NoBlock /\ x.card.mode = card.mode
  BY Inquired

LEMMA KeptVersion ==
  ASSUME IInv, InitVersion, UNCHANGED bus PROVE IInv'
<1> DEFINE r == IF card.kind = "V1" THEN "illegal"
                ELSE IF ChecksCrc /\ ~Cmd8IsExact THEN "crc" ELSE "idle"
<1>1. /\ pc = "cmd8" /\ retry' = Retries
      /\ UNCHANGED <<selected, lost, spoiled, ready, done, req, moved>>
  BY DEF InitVersion
<1>2. PICK x \in Exchange("CMD8", r, card) :
        /\ card' = x.card
        /\ IF x.st = "SUCCESS" /\ x.r1 = "idle"
           THEN /\ cardType' = "SC"
                /\ \E seen \in PatternSeen(x.delay) :
                     IF seen THEN Goto("acmd41") ELSE Return("DEVICE_ERROR")
           ELSE cardType' = "V1" /\ Goto("acmd41")
  BY DEF InitVersion
<1> HIDE DEF r
<1>3. Same(x.card)
  BY InvFacts, Inquired
<1>4. cardType' \in Types /\ pc' \in {"acmd41", "idle"} /\ status' \in Statuses
  BY <1>2, InvFacts DEF Goto, Return, Types, Statuses
<1>5. Bringing'
  <2>1. Works => card.sending = NoBlock
    BY <1>1 DEF IInv, Bringing
  <2>2. Works => card'.sending = NoBlock
    BY <1>2, <2>1, InvFacts, Silent
  <2> QED
    BY <1>4, <2>2 DEF Bringing, Works, Sound
<1>6. Retries \in Nat \ {0}
  BY SpiAssumption
<1> QED
  BY <1>1, <1>2, <1>3, <1>4, <1>5, <1>6, InitStep, InvFacts DEF InitPCs

\* An answer that ends the ACMD41 loop is that of a card in the ready state.
LEMMA KeptOpCond ==
  ASSUME IInv, InitOpCond, UNCHANGED bus PROVE IInv'
<1> DEFINE up == [card EXCEPT !.mode = "ready"]
<1>1. /\ pc = "acmd41"
      /\ UNCHANGED <<selected, cardType, lost, spoiled, ready, done, req, moved>>
  BY DEF InitOpCond
<1>2. PICK y \in Exchange("ACMD41", "idle", card) \union Exchange("ACMD41", "ready", up) :
        /\ card' = y.card
        /\ \/ /\ y.st # "SUCCESS"
              /\ Return("TIMEOUT") /\ retry' = 0
           \/ /\ y.st = "SUCCESS" /\ OpCondDone(y.r1)
              /\ Goto(IF cardType = "SC" THEN "cmd58" ELSE "cmd16")
              /\ retry' = 0
           \/ /\ y.st = "SUCCESS" /\ ~OpCondDone(y.r1)
              /\ retry' = RetriesLeft(retry)
              /\ IF retry' <= 0 THEN Return("TIMEOUT") ELSE Goto("acmd41")
  <2>1. PICK accepted \in {x.st = "SUCCESS" : x \in Exchange("CMD55", R1Now, card)} :
          LET hcs == accepted /\ cardType = "SC"
              answers == Exchange("ACMD41", "idle", card) \union
                (IF card.kind = "HC" /\ ~hcs THEN {} ELSE Exchange("ACMD41", "ready", up))
          IN \E y \in answers :
               /\ card' = y.card
               /\ \/ /\ y.st # "SUCCESS"
                     /\ Return("TIMEOUT") /\ retry' = 0
                  \/ /\ y.st = "SUCCESS" /\ OpCondDone(y.r1)
                     /\ Goto(IF cardType = "SC" THEN "cmd58" ELSE "cmd16")
                     /\ retry' = 0
                  \/ /\ y.st = "SUCCESS" /\ ~OpCondDone(y.r1)
                     /\ retry' = RetriesLeft(retry)
                     /\ IF retry' <= 0 THEN Return("TIMEOUT") ELSE Goto("acmd41")
    BY DEF InitOpCond
  <2> QED
    BY <2>1
<1>3. up \in Card /\ up.medium = card.medium /\ up.present = card.present
        /\ up.kind = card.kind /\ up.mode = "ready" /\ up.sending = card.sending
  BY InvFacts DEF Card
<1> HIDE DEF up
<1>4. Same(y.card)
  BY <1>2, <1>3, Answered, InvFacts
<1>5. retry \in Nat \ {0} /\ retry <= Retries
  BY <1>1, SpiAssumption DEF IInv, Typed, TypeOK
<1>6. /\ pc' \in {"idle", "cmd58", "cmd16", "acmd41"} /\ status' \in Statuses
      /\ retry' \in 0 .. Retries
      /\ pc' = "acmd41" => retry' # 0
      /\ pc' \in {"cmd58", "cmd16"} => y.st = "SUCCESS" /\ y.r1 # "idle"
  <2>1. CASE y.st # "SUCCESS"
    BY <1>2, <2>1, SpiAssumption DEF Return, Statuses
  <2>2. CASE y.st = "SUCCESS" /\ OpCondDone(y.r1)
    BY <1>2, <2>2, InvFacts, SpiAssumption DEF Goto, OpCondDone
  <2>3. CASE y.st = "SUCCESS" /\ ~OpCondDone(y.r1)
    <3>1. retry' = retry - 1
      BY <1>2, <2>3 DEF RetriesLeft
    <3>2. IF retry' <= 0 THEN Return("TIMEOUT") ELSE Goto("acmd41")
      BY <1>2, <2>3
    <3> QED
      BY <1>5, <3>1, <3>2, InvFacts, SpiAssumption DEF Goto, Return, Statuses
  <2> QED
    BY <2>1, <2>2, <2>3
<1>7. ASSUME Works PROVE card.sending = NoBlock
  BY <1>1, <1>7 DEF IInv, Bringing
<1>8. ASSUME Works PROVE card'.sending = NoBlock
  <2>1. \/ y.card = card \/ y.card = up \/ y.card = Quiet(card)
        \/ y.card = Taken /\ card.receiving # NoBlock
    BY <1>2, <1>8, Exchanged
  <2> QED
    BY <1>2, <1>3, <1>7, <1>8, <2>1, QuietCard, TakenOn, InvFacts
<1>9. ASSUME Works, y.st = "SUCCESS", y.r1 # "idle" PROVE card'.mode # "idle"
  <2>1. ~Streaming("ACMD41")
    BY <1>7, <1>9 DEF Streaming
  <2>2. y \notin Exchange("ACMD41", "idle", card)
    BY <1>9, <2>1, ExchangeSucceeds
  <2>3. y.card = up
    BY <1>2, <1>9, <2>1, <2>2, ExchangeSucceeds
  <2> QED
    BY <1>2, <1>3, <2>3
<1>10. Bringing'
  BY <1>6, <1>8, <1>9 DEF Bringing, Works, Sound
<1> QED
  BY <1>1, <1>2, <1>4, <1>6, <1>10, InitStep, InvFacts DEF InitPCs

LEMMA KeptCapacity ==
  ASSUME IInv, InitCapacity, UNCHANGED bus PROVE IInv'
<1>1. pc = "cmd58" /\ UNCHANGED <<selected, lost, spoiled, retry, ready, done, req, moved>>
  BY DEF InitCapacity
<1>2. PICK x \in Exchange("CMD58", R1Now, card) :
        /\ card' = x.card
        /\ IF x.st = "SUCCESS" /\ x.r1 \in {"ready", "idle"}
           THEN \E ccs \in CapacityBit(x.delay) :
                  /\ cardType' = IF ccs THEN "HC" ELSE cardType
                  /\ Goto(IF ccs THEN "cmd9" ELSE "cmd16")
           ELSE Return("DEVICE_ERROR") /\ UNCHANGED cardType
  BY DEF InitCapacity
<1>3. Same(x.card)
  BY <1>2, InvFacts, Inquired
<1>4. cardType' \in Types /\ pc' \in {"cmd9", "cmd16", "idle"} /\ status' \in Statuses
  BY <1>2, InvFacts DEF Goto, Return, Types, Statuses
<1>5. Bringing'
  <2>1. Works => card.sending = NoBlock /\ card.mode # "idle"
    BY <1>1 DEF IInv, Bringing
  <2>2. Works => card'.sending = NoBlock /\ card'.mode # "idle"
    BY <1>2, <2>1, InvFacts, Silent
  <2> QED
    BY <1>4, <2>2 DEF Bringing, Works, Sound
<1> QED
  BY <1>1, <1>2, <1>3, <1>4, <1>5, InitStep, InvFacts DEF InitPCs

LEMMA KeptBlockLength ==
  ASSUME IInv, InitBlockLength, UNCHANGED bus PROVE IInv'
<1>1. pc = "cmd16" /\ UNCHANGED <<selected, cardType, retry, ready, done, req, moved, spoiled, lost>>
  BY DEF InitBlockLength, driverVars
<1>2. PICK x \in Exchange("CMD16", R1Now, card) :
        /\ card' = x.card
        /\ IF x.st = "SUCCESS" /\ x.r1 \in {"ready"}
           THEN Goto("cmd9") ELSE Return("DEVICE_ERROR")
  BY DEF InitBlockLength, InitCommand
<1>3. Same(x.card)
  BY <1>2, InvFacts, Inquired
<1>4. pc' \in {"cmd9", "idle"} /\ status' \in Statuses
  BY <1>2, InvFacts DEF Goto, Return, Statuses
<1>5. Bringing'
  <2>1. Works => card.sending = NoBlock /\ card.mode # "idle"
    BY <1>1 DEF IInv, Bringing
  <2>2. Works => card'.sending = NoBlock /\ card'.mode # "idle"
    BY <1>2, <2>1, InvFacts, Silent
  <2> QED
    BY <1>4, <2>2 DEF Bringing, Works, Sound
<1> QED
  BY <1>1, <1>2, <1>3, <1>4, <1>5, InitStep, InvFacts DEF InitPCs

LEMMA KeptCsd ==
  ASSUME IInv, InitCsd, UNCHANGED bus PROVE IInv'
<1> DEFINE on == [card EXCEPT !.sending = CsdBlock]
<1>1. pc = "cmd9" /\ UNCHANGED <<selected, cardType, retry, ready, done, req, moved, spoiled>>
  BY DEF InitCsd, driverVars
<1>2. PICK x \in Exchange("CMD9", R1Now, on) :
        /\ card' = x.card
        /\ IF x.st = "SUCCESS" /\ x.r1 \in {"ready", "idle"}
           THEN Goto("csd") ELSE Return("DEVICE_ERROR")
        /\ lost' \in TokenLost(x.delay)
  BY DEF InitCsd
<1>3. on \in Card /\ on.medium = card.medium /\ on.present = card.present
        /\ on.kind = card.kind /\ on.mode = card.mode
  BY InvFacts DEF Card
<1> HIDE DEF on
<1>4. Same(x.card) /\ x.delay \in Nat
  BY <1>2, <1>3, Answered, InvFacts
<1>5. lost' \in BOOLEAN /\ pc' \in {"csd", "idle"} /\ status' \in Statuses
  BY <1>2, <1>4, TokenBoolean, InvFacts DEF Goto, Return, Statuses
<1>6. Works => card'.mode = card.mode
  BY <1>2, <1>3, Answered, InvFacts
<1>7. Bringing'
  BY <1>1, <1>5, <1>6 DEF IInv, Bringing, Works, Sound
<1> QED
  BY <1>1, <1>2, <1>4, <1>5, <1>7, InitStep, InvFacts DEF InitPCs

-----------------------------------------------------------------------------
(* CRCs                                                                    *)

LEMMA BlocksType == Blocks \subseteq Registers(24)
<1>1. ASSUME NEW a \in Registers(8), NEW b \in Registers(8), NEW c \in Registers(8)
      PROVE  a \o b \o c \in Registers(24)
  <2>1. \A k, m, n \in Nat : \A x \in Registers(k), y \in Registers(m) :
          n = k + m => x \o y \in Registers(n)
    BY Concatenated
  <2>2. 8 \in Nat /\ 16 \in Nat /\ 24 \in Nat /\ 16 = 8 + 8 /\ 24 = 16 + 8
    OBVIOUS
  <2>3. a \o b \in Registers(16)
    BY <2>1, <2>2, Zenon
  <2> QED
    BY <2>1, <2>2, <2>3, Zenon
<1>2. Bits8(0) \in Registers(8) /\ Bits8(254) \in Registers(8) /\ Bits8(1) \in Registers(8)
        /\ Bits8(90) \in Registers(8)
  BY Bits8Type
<1>3. /\ Bits8(0) \o Bits8(0) \o Bits8(0) \in Registers(24)
      /\ Bits8(254) \o Bits8(1) \o Bits8(90) \in Registers(24)
  BY <1>1, <1>2, Zenon
<1> QED
  BY <1>3 DEF Blocks

\* A block with the CRC of the SD specification passes the driver's check.
THEOREM CrcAccepts == BlocksPass
<1> SUFFICES ASSUME NEW d \in Blocks PROVE SdCardCalculateCrc16(d) = Remainder(Poly16, d)
  BY DEF BlocksPass, CrcMatches, CardCrc16, Poly16
<1>1. \A L \in Nat : \A b \in Registers(L) :
        L % 8 = 0 => SdCardCalculateCrc16(b) = Remainder(Poly16, b)
  BY Crc16IsRemainder
<1>2. 24 \in Nat /\ 24 % 8 = 0 /\ d \in Registers(24)
  BY BlocksType
<1> QED
  BY <1>1, <1>2, Zenon

\* Whatever noise adds to a block, the driver's CRC is not that of the card.
THEOREM CrcDetects == ~ErrorsPass
<1> SUFFICES ASSUME NEW d \in Blocks, NEW e \in Errors
             PROVE  SdCardCalculateCrc16(XorBits(d, e)) # Remainder(Poly16, d)
  BY DEF ErrorsPass, CrcMatches, CardCrc16, Poly16
<1>1. 24 \in Nat /\ 24 % 8 = 0 /\ d \in Registers(24)
  BY BlocksType
<1>2. CASE \E j, k \in 1 .. 24 : e = Pair(j, k)
  <2>1. PICK j \in 1 .. 24, k \in 1 .. 24 : e = Pair(j, k)
    BY <1>2
  <2>2. PICK f \in 1 .. 24, l \in 1 .. 24 : {f, l} = {j, k} /\ l - f \in 0 .. 23
    OBVIOUS
  <2>3. e = [i \in 1 .. 24 |-> IF i \in {f, l} THEN 1 ELSE 0]
    BY <2>1, <2>2 DEF Pair
  <2>0. e \in Registers(24)
    BY <2>3 DEF Registers, Bit
  <2>4. e[f] = 1 /\ e[l] = 1 /\ \A i \in 1 .. 24 : i \notin {f, l} => e[i] = 0
    BY <2>3
  <2>5. \A L \in Nat : \A a \in Registers(L), x \in Registers(L) : \A p, q \in 1 .. L :
          L % 8 = 0 /\ q - p \in 0 .. 23 /\ x[p] = 1 /\ x[q] = 1
            /\ (\A i \in 1 .. L : i \notin {p, q} => x[i] = 0)
            => SdCardCalculateCrc16(XorBits(a, x)) # Remainder(Poly16, a)
    BY PairsAreSeen
  <2>6. \A p, q \in 1 .. 24 :
          q - p \in 0 .. 23 /\ e[p] = 1 /\ e[q] = 1
            /\ (\A i \in 1 .. 24 : i \notin {p, q} => e[i] = 0)
            => SdCardCalculateCrc16(XorBits(d, e)) # Remainder(Poly16, d)
    BY <1>1, <2>0, <2>5, Zenon
  <2> QED
    BY <2>2, <2>4, <2>6
<1>3. CASE \E j \in 1 .. 24, b \in [1 .. 3 -> {0, 1}] : e = Burst(j, b)
  <2>1. PICK j \in 1 .. 24, b \in [1 .. 3 -> {0, 1}] : e = Burst(j, b)
    BY <1>3
  <2>0. e \in Registers(24)
    BY <2>1 DEF Burst, Registers, Bit
  <2>2. e[j] = 1 /\ \A i \in 1 .. 24 : e[i] # 0 => i \in j .. j + 15
    BY <2>1 DEF Burst
  <2>3. \A L \in Nat : \A a \in Registers(L), x \in Registers(L) : \A p \in 1 .. L :
          L % 8 = 0 /\ x[p] = 1 /\ (\A i \in 1 .. L : x[i] # 0 => i \in p .. p + 15)
            => SdCardCalculateCrc16(XorBits(a, x)) # Remainder(Poly16, a)
    BY BurstsAreSeen
  <2> QED
    BY <1>1, <2>0, <2>2, <2>3, Zenon
<1> QED
  BY <1>2, <1>3 DEF Errors

-----------------------------------------------------------------------------
(* Blocks                                                                  *)

Values == {Garbage, CsdBlock} \union Nat

\* One block or none.
Got(s) == s = <<>> \/ \E v \in Values : s = <<v>>

LEMMA BlockFields ==
  ASSUME NEW st, NEW got, NEW c
  PROVE  Block(st, got, c).st = st /\ Block(st, got, c).got = got /\ Block(st, got, c).card = c
  BY DEF Block

\* The card after a block it sent.
LEMMA SentOn ==
  ASSUME card \in Card, NEW b \in {NoBlock, CsdBlock} \union Nat
  PROVE  LET over == [card EXCEPT !.sending = Following(b)] IN
         /\ over \in Card /\ over.medium = card.medium /\ over.present = card.present
         /\ over.kind = card.kind /\ over.mode = card.mode
         /\ over.receiving = card.receiving /\ over.stream = card.stream
<1>1. Following(b) \in {NoBlock} \union Nat
  BY FollowingBlock DEF NoBlock, CsdBlock
<1> QED
  BY <1>1 DEF Card

LEMMA ReceivedBlock ==
  ASSUME card \in Card, NEW x \in Received
  PROVE  /\ Same(x.card) /\ x.st \in {"SUCCESS", "CRC_ERROR", "TIMEOUT"} /\ Got(x.got)
         /\ x.card.mode = card.mode /\ x.card.receiving = card.receiving
         /\ x.card.stream = card.stream
         /\ bus # "failing" /\ x.st = "SUCCESS" =>
              /\ Hears("data") /\ card.sending # NoBlock
              /\ \/ /\ ~lost /\ Expected(card.sending) /\ x.got = <<card.sending>>
                    /\ x.card = [card EXCEPT !.sending = Following(card.sending)]
                 \/ LET next == Following(card.sending)
                    IN  /\ lost /\ next # NoBlock /\ Expected(next) /\ x.got = <<next>>
                        /\ x.card = [card EXCEPT !.sending = Following(next)]
<1> DEFINE b == card.sending
           next == Following(b)
           over == [card EXCEPT !.sending = next]
           past == [card EXCEPT !.sending = Following(next)]
<1>1. b \in {NoBlock, CsdBlock} \union Nat /\ next \in {NoBlock} \union Nat
  BY CardFields, FollowingBlock DEF NoBlock, CsdBlock
<1>2. CASE ~Hears("data") \/ b = NoBlock
  <2>1. \/ x = Block("TIMEOUT", <<>>, card) \/ x = Block("CRC_ERROR", <<>>, card)
        \/ bus = "failing" /\ x = Block("SUCCESS", <<Garbage>>, card)
    BY <1>2 DEF Received
  <2> QED
    BY <1>1, <2>1, BlockFields DEF Same, Got, Values
<1>3. CASE Hears("data") /\ b # NoBlock
  <2>1. /\ x.card \in {card, over, past} /\ x.st \in {"SUCCESS", "CRC_ERROR", "TIMEOUT"}
        /\ (x.got = <<>> \/ x.got = <<Garbage>> \/ x.got = <<b>>
              \/ (next # NoBlock /\ x.got = <<next>>))
        /\ bus # "failing" /\ x.st = "SUCCESS" =>
             \/ ~lost /\ Expected(b) /\ x.got = <<b>> /\ x.card = over
             \/ lost /\ next # NoBlock /\ Expected(next) /\ x.got = <<next>> /\ x.card = past
    <3>1. CASE bus = "failing"
      <4>1. \/ x \in {Block(st, <<>>, after) : st \in {"CRC_ERROR", "TIMEOUT"},
                                               after \in {card, over}}
            \/ x \in {Block("SUCCESS", <<any>>, after) : any \in {b, Garbage},
                                                         after \in {card, over}}
        BY <1>3, <3>1 DEF Received
      <4>2. CASE x \in {Block(st, <<>>, after) : st \in {"CRC_ERROR", "TIMEOUT"},
                                                 after \in {card, over}}
        <5>1. PICK st \in {"CRC_ERROR", "TIMEOUT"}, after \in {card, over} :
                x = Block(st, <<>>, after)
          BY <4>2
        <5> HIDE DEF over, past
        <5> QED
          BY <3>1, <5>1, BlockFields
      <4>3. CASE x \in {Block("SUCCESS", <<any>>, after) : any \in {b, Garbage},
                                                           after \in {card, over}}
        <5>1. PICK any \in {b, Garbage}, after \in {card, over} :
                x = Block("SUCCESS", <<any>>, after)
          BY <4>3
        <5> HIDE DEF over, past, b
        <5> QED
          BY <3>1, <5>1, BlockFields
      <4> QED
        BY <4>1, <4>2, <4>3
    <3>2. CASE bus # "failing" /\ lost
      <4>1. \/ x = Block("CRC_ERROR", <<>>, over) \/ x = Block("CRC_ERROR", <<>>, card)
            \/ x = Block("CRC_ERROR", <<>>, past) \/ x = Block("TIMEOUT", <<>>, over)
            \/ next # NoBlock /\ Expected(next) /\ x = Block("SUCCESS", <<next>>, past)
        BY <1>3, <3>2 DEF Received
      <4> HIDE DEF over, past, next
      <4> QED
        BY <3>2, <4>1, BlockFields
    <3>3. CASE bus # "failing" /\ ~lost
      <4>1. \/ x = Block("CRC_ERROR", <<>>, over) \/ x = Block("CRC_ERROR", <<>>, card)
            \/ Expected(b) /\ x = Block("SUCCESS", <<b>>, over)
        BY <1>3, <3>3, CrcDetects DEF Received
      <4> HIDE DEF over, past, b
      <4> QED
        BY <3>3, <4>1, BlockFields
    <3> QED
      BY <3>1, <3>2, <3>3
  <2>2. Got(x.got)
    BY <1>1, <1>3, <2>1 DEF Got, Values
  <2>3. \A c \in {card, over, past} :
          /\ c \in Card /\ c.medium = card.medium /\ c.present = card.present
          /\ c.kind = card.kind /\ c.mode = card.mode
          /\ c.receiving = card.receiving /\ c.stream = card.stream
    <3>1. /\ over \in Card /\ over.medium = card.medium /\ over.present = card.present
          /\ over.kind = card.kind /\ over.mode = card.mode
          /\ over.receiving = card.receiving /\ over.stream = card.stream
      BY <1>1, SentOn
    <3>2. /\ past \in Card /\ past.medium = card.medium /\ past.present = card.present
          /\ past.kind = card.kind /\ past.mode = card.mode
          /\ past.receiving = card.receiving /\ past.stream = card.stream
      BY <1>1, SentOn
    <3> HIDE DEF over, past, next, b
    <3> QED
      BY <3>1, <3>2
  <2>4. card.present
    BY <1>3 DEF Hears
  <2>5. bus # "failing" /\ x.st = "SUCCESS" =>
          \/ ~lost /\ Expected(b) /\ x.got = <<b>> /\ x.card = over
          \/ lost /\ next # NoBlock /\ Expected(next) /\ x.got = <<next>> /\ x.card = past
    BY <2>1
  <2>6. Same(x.card) /\ x.card.mode = card.mode /\ x.card.receiving = card.receiving
          /\ x.card.stream = card.stream
    <3> HIDE DEF over, past, next, b
    <3> QED
      BY <2>1, <2>3, <2>4 DEF Same
  <2> QED
    BY <1>3, <2>1, <2>2, <2>5, <2>6
<1> QED
  BY <1>2, <1>3

\* Where nothing is taken for something else.
LEMMA WrittenWorks ==
  ASSUME card \in Card, NEW x \in Written, bus \notin {"noisy", "failing"}
  PROVE  \/ /\ Hears("data") /\ card.receiving # NoBlock
            /\ \/ /\ x.card = Taken /\ x.st \in {"SUCCESS", "TIMEOUT", "DEVICE_ERROR"}
                  /\ \/ x.got = <<card.receiving>>
                     \/ x.got = <<>> /\ x.st = "DEVICE_ERROR"
               \/ lost /\ x.card = card /\ x.got = <<>> /\ x.st = "DEVICE_ERROR"
            /\ lost => x.st = "DEVICE_ERROR"
         \/ /\ ~(Hears("data") /\ card.receiving # NoBlock) /\ x.card = card /\ x.got = <<>>
            /\ x.st \in {"SUCCESS", "TIMEOUT", "DEVICE_ERROR"}
            /\ x.st = "SUCCESS" => Hears("data") /\ card.sending # NoBlock
<1> DEFINE b == card.receiving
<1>1. CASE Hears("data") /\ b # NoBlock
  <2>1. CASE ~lost
    <3>1. \/ x = Block("SUCCESS", <<b>>, Taken) \/ x = Block("TIMEOUT", <<b>>, Taken)
          \/ x = Block("DEVICE_ERROR", <<>>, Taken) \/ x = Block("DEVICE_ERROR", <<b>>, Taken)
      BY <1>1, <2>1 DEF Written, Taken
    <3> HIDE DEF b
    <3>2. (x.got = <<b>> \/ (x.got = <<>> /\ x.st = "DEVICE_ERROR")) /\ x.card = Taken
            /\ x.st \in {"SUCCESS", "TIMEOUT", "DEVICE_ERROR"}
      BY <3>1, BlockFields
    <3> QED
      BY <1>1, <2>1, <3>2 DEF b
  <2>2. CASE lost
    <3>1. \/ x = Block("DEVICE_ERROR", <<>>, card) \/ x = Block("DEVICE_ERROR", <<b>>, Taken)
      BY <1>1, <2>2 DEF Written, Taken
    <3> QED
      BY <1>1, <2>2, <3>1, BlockFields
  <2> QED
    BY <2>1, <2>2
<1>2. CASE ~(Hears("data") /\ b # NoBlock)
  <2>1. \/ x = Block("DEVICE_ERROR", <<>>, card)
        \/ /\ Hears("data") /\ card.sending # NoBlock
           /\ x = Block("SUCCESS", <<>>, card) \/ x = Block("TIMEOUT", <<>>, card)
    BY <1>2 DEF Written
  <2> QED
    BY <1>2, <2>1, BlockFields
<1> QED
  BY <1>1, <1>2

LEMMA WrittenBlock ==
  ASSUME card \in Card, NEW x \in Written
  PROVE  /\ Same(x.card) /\ x.st \in Statuses /\ Got(x.got) /\ x.card.mode = card.mode
         /\ x.card.sending = card.sending /\ x.card.stream = card.stream
<1> DEFINE b == card.receiving
<1>1. /\ x.card = card \/ (Hears("data") /\ b # NoBlock /\ x.card = Taken)
      /\ x.st \in Statuses /\ (x.got = <<>> \/ (b # NoBlock /\ x.got = <<b>>))
  <2>1. CASE bus \notin {"noisy", "failing"}
    BY <2>1, WrittenWorks DEF Statuses
  <2>2. CASE bus \in {"noisy", "failing"}
    <3>1. \/ x \in {Block(st, <<>>, card) : st \in {"SUCCESS", "DEVICE_ERROR", "TIMEOUT"}}
          \/ /\ Hears("data") /\ b # NoBlock
             /\ x \in {Block(st, got, Taken) : got \in {<<>>, <<b>>},
                         st \in {"SUCCESS", "DEVICE_ERROR", "TIMEOUT"}}
      BY <2>2 DEF Written, Taken
    <3> HIDE DEF b
    <3> QED
      BY <3>1, BlockFields DEF Statuses
  <2> QED
    BY <2>1, <2>2
<1>2. Got(x.got)
  BY <1>1, CardFields DEF Got, Values
<1> QED
  BY <1>1, <1>2, TakenOn DEF Same, Hears

LEMMA KeptReadCsd ==
  ASSUME IInv, InitReadCsd, UNCHANGED bus PROVE IInv'
<1>1. pc = "csd" /\ UNCHANGED <<selected, lost, spoiled, retry, done, req, moved>>
  BY DEF InitReadCsd
<1>2. PICK x \in Received :
        /\ card' = x.card /\ Return(x.st) /\ ready' = (x.st = "SUCCESS")
        /\ IF x.st = "SUCCESS"
           THEN \E high \in IF x.got = <<CsdBlock>> THEN {card.kind = "HC"} ELSE BOOLEAN :
                  cardType' = TypeOfCsd(high)
           ELSE UNCHANGED cardType
  BY DEF InitReadCsd
<1>3. Same(card') /\ x.st \in Statuses /\ ready' \in BOOLEAN
  BY <1>2, InvFacts, ReceivedBlock DEF Statuses
<1>4. pc' = "idle" /\ status' = x.st /\ cardType' \in Types
  BY <1>2, InvFacts DEF Return, TypeOfCsd, Types
<1>5. Typed'
  BY <1>1, <1>3, <1>4, InvFacts DEF IInv, Typed, TypeOK, Same, PCs, Types
<1>6. Absent'
  BY <1>3 DEF IInv, Absent, Same
<1>7. Bringing' /\ Waiting'
  BY <1>4 DEF Bringing, Waiting
<1>8. Identified'
  <2>1. ASSUME bus # "failing", ready' PROVE cardType' = "HC" <=> card'.kind = "HC"
    <3>1. x.st = "SUCCESS"
      BY <1>2, <2>1
    <3>2. x.got = <<CsdBlock>>
      <4>1. \/ Expected(card.sending) /\ x.got = <<card.sending>>
            \/ LET next == Following(card.sending)
               IN  next # NoBlock /\ Expected(next) /\ x.got = <<next>>
        BY <2>1, <3>1, ReceivedBlock, InvFacts
      <4> QED
        BY <1>1, <4>1 DEF Expected
    <3>3. cardType' = TypeOfCsd(card.kind = "HC")
      BY <1>2, <3>1, <3>2
    <3> QED
      BY <1>3, <3>3 DEF TypeOfCsd, Same
  <2> QED
    BY <1>4, <2>1 DEF Identified
<1> QED
  BY <1>5, <1>6, <1>7, <1>8 DEF IInv

\* Between initialization and transfers.
LEMMA KeptDetect ==
  ASSUME IInv, Detect, UNCHANGED bus PROVE IInv'
<1>1. /\ pc = "idle" /\ req' = NoRequest /\ moved' = <<>> /\ done' = 0 /\ lost' = FALSE
      /\ spoiled' = FALSE
      /\ UNCHANGED <<selected, cardType, retry>>
  BY DEF Detect
<1>2. PICK x \in Exchange("CMD13", R1Now, card) :
        /\ card' = x.card
        /\ IF x.st = "SUCCESS" THEN Goto("clocks") /\ UNCHANGED ready
           ELSE Return("NO_MEDIA") /\ ready' = FALSE
  BY DEF Detect
<1>3. Same(card') /\ StaysDeaf(card')
  BY <1>2, InvFacts, Inquired
<1>4. pc' \in {"clocks", "idle"} /\ status' \in Statuses /\ ready' \in {ready, FALSE}
  BY <1>2, InvFacts DEF Goto, Return, Statuses
<1>5. NoRequest \in Request
  BY SpiAssumption DEF NoRequest, Request
<1>6. Typed'
  <2>1. moved' \in Seq((0 .. MaxMedia) \X ({Garbage, CsdBlock} \union Nat))
    BY <1>1
  <2>2. ready' \in BOOLEAN
    BY <1>4, InvFacts
  <2> QED
    BY <1>1, <1>3, <1>4, <1>5, <2>1, <2>2, InvFacts DEF IInv, Typed, TypeOK, Same, PCs, Types
<1>7. Absent'
  BY <1>3 DEF IInv, Absent, Same
<1>8. Bringing' /\ Waiting'
  BY <1>4 DEF Bringing, Waiting
<1>9. Identified'
  <2>1. ASSUME bus # "failing", ready', card'.mode # "sd"
        PROVE  cardType' = "HC" <=> card'.kind = "HC"
    <3>1. ready
      BY <1>4, <2>1, InvFacts
    <3>2. cardType = "HC" <=> card.kind = "HC"
      BY <1>3, <2>1, <3>1 DEF IInv, Identified, StaysDeaf
    <3> QED
      BY <1>1, <1>3, <3>2 DEF Same
  <2> QED
    BY <1>4, <2>1 DEF Identified
<1> QED
  BY <1>6, <1>7, <1>8, <1>9 DEF IInv

LEMMA KeptClocks ==
  ASSUME IInv, InitClocks, UNCHANGED bus PROVE IInv'
<1>1. /\ pc = "clocks" /\ pc' = "cmd0" /\ ready' = FALSE /\ selected' \in BOOLEAN
      /\ UNCHANGED <<card, cardType, status, lost, spoiled, retry, done, req, moved>>
  BY DEF InitClocks, Goto
<1>2. Typed'
  BY <1>1 DEF IInv, Typed, TypeOK, PCs
<1>3. Absent' /\ Bringing' /\ Identified' /\ Waiting'
  BY <1>1 DEF IInv, Absent, Bringing, Identified, Waiting
<1> QED
  BY <1>2, <1>3 DEF IInv

-----------------------------------------------------------------------------
(* Transfers                                                               *)

LEMMA KeptCall ==
  ASSUME IInv, NEW op \in {"read", "write"}, NEW lba \in 0 .. Capacity - 1,
         NEW count \in 1 .. MaxCount, CallTransfer(op, lba, count), UNCHANGED bus
  PROVE  IInv'
<1>1. /\ pc = "idle" /\ ready /\ pc' = "command" /\ moved' = <<>> /\ done' = 0
      /\ spoiled' = FALSE
      /\ UNCHANGED <<card, selected, cardType, lost, retry, ready, status>>
  BY DEF CallTransfer, Goto
<1>2. req' = [op |-> op, lba |-> lba, count |-> count, medium |-> card.medium,
              quiet |-> (card.sending = NoBlock)]
  BY DEF CallTransfer
<1>3. req' \in Request
  <2>1. (card.sending = NoBlock) \in BOOLEAN /\ card.medium \in 0 .. MaxMedia
    BY InvFacts, CardFields
  <2>2. lba \in Nat /\ count \in Nat \ {0}
    BY SpiAssumption
  <2> QED
    BY <1>2, <2>1, <2>2 DEF Request
<1>4. Typed'
  <2>1. moved' \in Seq((0 .. MaxMedia) \X ({Garbage, CsdBlock} \union Nat))
    BY <1>1
  <2>2. done' \in Nat
    BY <1>1
  <2> QED
    BY <1>1, <1>3, <2>1, <2>2 DEF IInv, Typed, TypeOK, PCs
<1>5. /\ req'.lba = lba /\ req'.medium = card.medium
      /\ req'.quiet = (card.sending = NoBlock)
  BY <1>2
<1>6. Absent' /\ Bringing' /\ Identified' /\ Waiting'
  BY <1>1, <1>5 DEF IInv, Absent, Bringing, Identified, Waiting
<1> QED
  BY <1>4, <1>5, <1>6 DEF IInv

\* The card when a transfer command was accepted.
Accepted ==
  LET b  == BlockAt(Address(req.lba))
      r  == IF card.mode # "ready" THEN "illegal"
            ELSE IF b = NoBlock THEN "reject" ELSE "ready"
  IN IF r # "ready" THEN card
     ELSE IF req.op = "read"
     THEN [card EXCEPT !.sending = b,   !.stream = req.count > 1]
     ELSE [card EXCEPT !.receiving = b, !.stream = req.count > 1]

LEMMA DivNat ==
  ASSUME NEW a \in Nat, NEW b \in Nat \ {0} PROVE a \div b \in Nat
  OBVIOUS

LEMMA BlockType ==
  ASSUME NEW a \in Nat PROVE BlockAt(a) \in {NoBlock} \union Nat
<1>1. a \div BlockBytes \in Nat
  BY SpiAssumption, DivNat
<1> QED
  BY <1>1 DEF BlockAt

LEMMA AddressType ==
  ASSUME NEW lba \in Nat PROVE Address(lba) \in Nat
<1>1. lba * BlockBytes \in Nat /\ Addresses \in Nat \ {0}
  BY SpiAssumption
<1>2. \A n \in Nat : n % Addresses \in Nat
  BY <1>1
<1> QED
  BY <1>1, <1>2 DEF Address

LEMMA AcceptedCard ==
  ASSUME card \in Card, req \in Request
  PROVE  /\ Accepted \in Card /\ Accepted.medium = card.medium
         /\ Accepted.present = card.present /\ Accepted.kind = card.kind
         /\ Accepted.mode = card.mode
         /\ \/ Accepted = card
            \/ /\ req.op = "read" /\ Accepted.receiving = card.receiving
            \/ /\ req.op = "write" /\ Accepted.sending = card.sending
               /\ Accepted.receiving = BlockAt(Address(req.lba))
               /\ Accepted.stream = (req.count > 1)
<1> DEFINE b == BlockAt(Address(req.lba))
<1>1. b \in {NoBlock} \union Nat
  <2>1. req.lba \in Nat
    BY DEF Request
  <2> QED
    BY <2>1, AddressType, BlockType
<1>2. (req.count > 1) \in BOOLEAN /\ req.op \in {"read", "write"}
  <2>1. PICK n \in Nat : n = req.count
    BY DEF Request
  <2> QED
    BY <2>1 DEF Request
<1>3. CASE card.mode = "ready" /\ b # NoBlock /\ req.op = "read"
  <2>1. Accepted = [card EXCEPT !.sending = b, !.stream = req.count > 1]
    BY <1>3 DEF Accepted
  <2> HIDE DEF b
  <2> QED
    BY <1>1, <1>2, <1>3, <2>1 DEF Card
<1>4. CASE card.mode = "ready" /\ b # NoBlock /\ req.op = "write"
  <2>1. Accepted = [card EXCEPT !.receiving = b, !.stream = req.count > 1]
    BY <1>4 DEF Accepted
  <2> QED
    BY <1>1, <1>2, <1>4, <2>1 DEF Card
<1>5. CASE card.mode # "ready" \/ b = NoBlock
  BY <1>5 DEF Accepted
<1> QED
  BY <1>2, <1>3, <1>4, <1>5

LEMMA TransferFacts ==
  ASSUME IInv
  PROVE  /\ req \in Request /\ done \in Nat
         /\ moved \in Seq((0 .. MaxMedia) \X ({Garbage, CsdBlock} \union Nat))
         /\ TransferCode \in Commands \ {"CMD0", "CMD12"}
  BY DEF IInv, Typed, TypeOK, TransferCode, Commands

\* What a transfer command leads to.
LEMMA CommandStep ==
  ASSUME IInv, TransferCommand
  PROVE  /\ pc = "command" /\ pc' \in {"block", "idle"}
         /\ UNCHANGED <<selected, cardType, retry, ready, done, req, moved, spoiled>>
         /\ Same(card') /\ StaysDeaf(card')
         /\ status' \in Statuses /\ lost' \in BOOLEAN
         /\ Works => card'.mode = card.mode
         /\ Works /\ pc' = "block" =>
              /\ Hears(TransferCode) /\ card.receiving = NoBlock
              /\ \/ card.sending # NoBlock /\ card' \in {card, Quiet(card)}
                 \/ card.sending = NoBlock /\ card' = Accepted
<1> DEFINE r == IF card.mode # "ready" THEN "illegal"
                ELSE IF BlockAt(Address(req.lba)) = NoBlock THEN "reject" ELSE "ready"
<1>1. pc = "command" /\ UNCHANGED <<selected, cardType, retry, ready, done, req, moved, spoiled>>
  BY DEF TransferCommand, driverVars
<1>2. PICK x \in Exchange(TransferCode, r, Accepted) :
        /\ card' = x.card
        /\ IF x.st = "SUCCESS" THEN Goto("block") ELSE Return("DEVICE_ERROR")
        /\ lost' \in IF req.op = "read" THEN TokenLost(x.delay) ELSE Missed
  BY DEF TransferCommand, Accepted, Sends, Takes
<1> HIDE DEF r
<1>3. Same(card') /\ x.delay \in Nat
  BY <1>2, InvFacts, TransferFacts, AcceptedCard, Answered
<1>4. StaysDeaf(card') /\ (Works => card'.mode = card.mode)
  BY <1>2, InvFacts, TransferFacts, AcceptedCard, Answered DEF StaysDeaf
<1>5. lost' \in BOOLEAN
  BY <1>2, <1>3, TokenBoolean, MissedBoolean
<1>6. pc' \in {"block", "idle"} /\ status' \in Statuses
  BY <1>2, InvFacts DEF Goto, Return, Statuses
<1>7. ASSUME Works, pc' = "block"
      PROVE  /\ Hears(TransferCode) /\ card.receiving = NoBlock
             /\ \/ card.sending # NoBlock /\ card' \in {card, Quiet(card)}
                \/ card.sending = NoBlock /\ card' = Accepted
  <2>1. x.st = "SUCCESS"
    BY <1>2, <1>7 DEF Return
  <2>2. TransferCode # "CMD0" /\ (Streaming(TransferCode) <=> card.sending # NoBlock)
    BY TransferFacts DEF Streaming, Commands
  <2> QED
    BY <1>2, <1>7, <2>1, <2>2, ExchangeSucceeds
<1> QED
  BY <1>1, <1>2, <1>3, <1>4, <1>5, <1>6, <1>7

\* Identification lasts as long as the card and its type.
LEMMA IdentifiedKept ==
  ASSUME Identified, UNCHANGED <<bus, cardType, ready>>, card'.kind = card.kind,
         StaysDeaf(card'),
         pc' \in {"idle", "clocks", "block", "stop"} \/ UNCHANGED <<pc, req>>
  PROVE  Identified'
  BY DEF Identified, StaysDeaf

LEMMA KeptCommand ==
  ASSUME IInv, TransferCommand, UNCHANGED bus PROVE IInv'
<1>1. Typed'
  BY CommandStep, InvFacts DEF IInv, Typed, TypeOK, Same, PCs, Types
<1>2. Absent'
  BY CommandStep DEF IInv, Absent, Same
<1>3. Bringing'
  BY CommandStep DEF Bringing
<1>4. Identified'
  BY CommandStep, IdentifiedKept DEF IInv, Same
<1>5. Waiting'
  <2>1. ASSUME Works, pc' = "block" PROVE done' < req'.count
    <3>1. req.count \in Nat \ {0}
      BY TransferFacts DEF Request
    <3>2. done = 0
      BY <2>1, CommandStep DEF IInv, Waiting
    <3> QED
      BY <3>1, <3>2, CommandStep
  <2>2. ASSUME Works, pc' = "block", req'.op = "write", card'.receiving # NoBlock
        PROVE  /\ selected' /\ card'.present /\ card'.mode # "sd"
               /\ card'.stream <=> req'.count > 1
    <3>1. req' = req /\ selected' = selected /\ Same(card') /\ card'.mode = card.mode
      BY <2>2, CommandStep
    <3>2. Hears(TransferCode) /\ TransferCode # "CMD0"
      BY <2>2, CommandStep, TransferFacts
    <3>3. card' = Accepted /\ card.receiving = NoBlock
      BY <2>2, CommandStep, QuietCard, InvFacts
    <3>4. card'.stream = (req.count > 1)
      BY <2>2, <3>1, <3>3, AcceptedCard, InvFacts, TransferFacts
    <3> QED
      BY <3>1, <3>2, <3>4 DEF Hears, Same
  <2> QED
    BY <2>1, <2>2, CommandStep DEF Waiting, Works, Sound
<1> QED
  BY <1>1, <1>2, <1>3, <1>4, <1>5 DEF IInv

\* What a block leads to.
LEMMA BlockStep ==
  ASSUME IInv, TransferBlock, UNCHANGED bus
  PROVE  /\ pc = "block" /\ done' = done + 1
         /\ UNCHANGED <<selected, cardType, retry, ready, req>>
         /\ Same(card') /\ card'.mode = card.mode /\ status' \in Statuses
         /\ lost' \in BOOLEAN /\ spoiled' \in BOOLEAN
         /\ req.op = "read" => spoiled' = (spoiled \/ lost)
         /\ pc' \in {"block", "stop", "idle"}
         /\ pc' = "block" => status' = "SUCCESS" /\ done' < req.count
         /\ pc' = "idle" => ~(req.count > 1)
         /\ pc' = "stop" => req.count > 1
         /\ req.op = "write" => card'.sending = card.sending /\ card'.stream = card.stream
         /\ \E x \in IF req.op = "read" THEN Received ELSE Written :
              /\ card' = x.card /\ status' = x.st /\ Got(x.got)
              /\ moved' = moved \o [k \in 1 .. Len(x.got) |-> <<card.medium, x.got[k]>>]
<1>1. pc = "block" /\ done' = done + 1 /\ UNCHANGED <<selected, cardType, retry, ready, req>>
        /\ lost' \in BOOLEAN
  BY MissedBoolean DEF TransferBlock
<1>5. spoiled' \in BOOLEAN /\ (req.op = "read" => spoiled' = (spoiled \/ lost))
  <2>1. spoiled \in BOOLEAN /\ lost \in BOOLEAN
    BY DEF IInv, Typed, TypeOK
  <2>2. spoiled' = (spoiled \/ lost) \/ (req.op = "write" /\ spoiled' = TRUE)
    BY DEF TransferBlock
  <2> QED
    BY <2>1, <2>2
<1>2. PICK x \in IF req.op = "read" THEN Received ELSE Written :
        /\ card' = x.card
        /\ status' = x.st
        /\ moved' = moved \o [k \in 1 .. Len(x.got) |-> <<card.medium, x.got[k]>>]
        /\ pc' = IF MoreBlocks(x.st) THEN "block"
                 ELSE IF req.count > 1 THEN "stop" ELSE "idle"
  BY DEF TransferBlock
<1>3. /\ Same(x.card) /\ x.card.mode = card.mode /\ x.st \in Statuses /\ Got(x.got)
      /\ req.op = "write" => x.card.sending = card.sending /\ x.card.stream = card.stream
  <2>1. CASE req.op = "read"
    BY <1>2, <2>1, ReceivedBlock, InvFacts DEF Statuses
  <2>2. CASE req.op # "read"
    BY <1>2, <2>2, WrittenBlock, InvFacts
  <2> QED
    BY <2>1, <2>2
<1>4. /\ pc' \in {"block", "stop", "idle"}
      /\ pc' = "block" => x.st = "SUCCESS" /\ done' < req.count
      /\ pc' = "idle" => ~(req.count > 1)
      /\ pc' = "stop" => req.count > 1
  BY <1>2 DEF MoreBlocks
<1> QED
  BY <1>1, <1>2, <1>3, <1>4, <1>5

LEMMA MovedOn ==
  ASSUME IInv, NEW s, Got(s)
  PROVE  [k \in 1 .. Len(s) |-> <<card.medium, s[k]>>]
           \in Seq((0 .. MaxMedia) \X ({Garbage, CsdBlock} \union Nat))
<1>1. card.medium \in 0 .. MaxMedia
  BY InvFacts, CardFields
<1>2. CASE s = <<>>
  <2>1. [k \in 1 .. Len(s) |-> <<card.medium, s[k]>>] = <<>>
    BY <1>2
  <2> QED
    BY <2>1
<1>3. ASSUME NEW v \in Values, s = <<v>>
      PROVE  [k \in 1 .. Len(s) |-> <<card.medium, s[k]>>]
               \in Seq((0 .. MaxMedia) \X ({Garbage, CsdBlock} \union Nat))
  <2>1. Len(s) = 1 /\ s[1] = v
    BY <1>3
  <2>2. <<card.medium, v>> \in (0 .. MaxMedia) \X ({Garbage, CsdBlock} \union Nat)
    BY <1>1 DEF Values
  <2>3. [k \in 1 .. Len(s) |-> <<card.medium, s[k]>>]
          \in [1 .. 1 -> (0 .. MaxMedia) \X ({Garbage, CsdBlock} \union Nat)]
    BY <2>1, <2>2
  <2> QED
    BY <2>3
<1> QED
  BY <1>2, <1>3 DEF Got

LEMMA KeptBlock ==
  ASSUME IInv, TransferBlock, UNCHANGED bus PROVE IInv'
<1>1. Typed'
  <2>1. moved' \in Seq((0 .. MaxMedia) \X ({Garbage, CsdBlock} \union Nat))
    <3> DEFINE A == (0 .. MaxMedia) \X ({Garbage, CsdBlock} \union Nat)
    <3>1. PICK got : Got(got) /\ moved' = moved \o [k \in 1 .. Len(got) |-> <<card.medium, got[k]>>]
      BY BlockStep
    <3>2. moved \in Seq(A) /\ [k \in 1 .. Len(got) |-> <<card.medium, got[k]>>] \in Seq(A)
      BY <3>1, MovedOn, TransferFacts
    <3> HIDE DEF A
    <3>3. \A s, t \in Seq(A) : s \o t \in Seq(A)
      OBVIOUS
    <3>4. moved' \in Seq(A)
      BY <3>1, <3>2, <3>3
    <3> QED
      BY <3>4 DEF A
  <2>2. done' \in Nat
    BY BlockStep, TransferFacts
  <2> QED
    BY <2>1, <2>2, BlockStep, InvFacts DEF IInv, Typed, TypeOK, Same, PCs, Types
<1>2. Absent'
  BY BlockStep DEF IInv, Absent, Same
<1>3. Bringing'
  BY BlockStep DEF Bringing
<1>4. Identified'
  BY BlockStep, IdentifiedKept DEF IInv, Same, StaysDeaf
<1>5. Waiting'
  <2>1. ASSUME Works, req.op = "write", card'.receiving # NoBlock
        PROVE  /\ selected' /\ card'.present /\ card'.mode # "sd"
               /\ card'.stream <=> req'.count > 1
    <3>1. PICK x \in Written : card' = x.card
      BY <2>1, BlockStep
    <3>2. card.receiving # NoBlock
      BY <2>1, <3>1, WrittenWorks, InvFacts DEF Works, Sound
    <3>3. /\ selected /\ card.present /\ card.mode # "sd"
          /\ card.stream <=> req.count > 1
      BY <2>1, <3>2, BlockStep DEF IInv, Waiting
    <3> QED
      BY <2>1, <3>3, BlockStep DEF Same
  <2> QED
    BY <2>1, BlockStep DEF Waiting, Works, Sound
<1> QED
  BY <1>1, <1>2, <1>3, <1>4, <1>5 DEF IInv

LEMMA StopTokenCard ==
  ASSUME IInv
  PROVE  Same(StopTokenSent) /\ StopTokenSent.mode = card.mode
<1>1. StopTokenSent = card \/ (card.present /\ StopTokenSent = Quiet(card))
  BY DEF StopTokenSent, Hears
<1> QED
  BY <1>1, InvFacts, QuietCard DEF Same

\* The end of a transfer of several blocks.
LEMMA KeptEnd ==
  ASSUME IInv, pc = "stop", pc' = "idle", Same(card'), StaysDeaf(card'),
         status' \in Statuses, UNCHANGED <<bus, driverVars, lost>>
  PROVE  IInv'
<1>1. UNCHANGED <<selected, cardType, retry, ready, done, req, moved, spoiled>>
  BY DEF driverVars
<1>2. Typed'
  BY <1>1 DEF IInv, Typed, TypeOK, Same, PCs
<1>3. Absent'
  BY DEF IInv, Absent, Same
<1>4. Bringing' /\ Waiting'
  BY DEF Bringing, Waiting
<1>5. Identified'
  BY <1>1, IdentifiedKept DEF IInv, Same
<1> QED
  BY <1>2, <1>3, <1>4, <1>5 DEF IInv

LEMMA KeptStopWrite ==
  ASSUME IInv, StopWrite, UNCHANGED bus PROVE IInv'
<1>1. /\ pc = "stop" /\ pc' = "idle" /\ UNCHANGED <<driverVars, lost>>
      /\ card' = StopTokenSent \/ card' = card
      /\ status' \in {"SUCCESS", "TIMEOUT"}
  BY DEF StopWrite, NotBusy, Return
<1>2. Same(card') /\ StaysDeaf(card')
  BY <1>1, StopTokenCard, InvFacts DEF Same, StaysDeaf
<1> QED
  BY <1>1, <1>2, KeptEnd DEF Statuses

LEMMA KeptStopRead ==
  ASSUME IInv, StopRead, UNCHANGED bus PROVE IInv'
<1>1. pc = "stop" /\ pc' = "idle" /\ status' = status /\ UNCHANGED <<driverVars, lost>>
  BY DEF StopRead, Goto
<1>2. Same(card') /\ StaysDeaf(card')
  <2>1. CASE UNCHANGED card
    BY <2>1, InvFacts DEF Same, StaysDeaf
  <2>2. ASSUME NEW x \in Exchange("CMD12", "ready", Quiet(card)), card' = x.card
        PROVE  Same(card') /\ StaysDeaf(card')
    BY <2>2, QuietCard, InvFacts, Answered DEF StaysDeaf
  <2> QED
    BY <2>1, <2>2 DEF StopRead
<1> QED
  BY <1>1, <1>2, KeptEnd, InvFacts

-----------------------------------------------------------------------------
(* The slot                                                                *)

\* A card that is taken out or put in does not hear the driver.
LEMMA KeptSlot ==
  ASSUME IInv, UNCHANGED <<bus, driverVars, pc, status, lost>>, card' \in Card,
         card'.mode = "sd", card'.sending = NoBlock, card'.receiving = NoBlock
  PROVE  IInv'
<1>1. UNCHANGED <<selected, cardType, retry, ready, done, req, moved, spoiled>>
  BY DEF driverVars
<1>2. Typed'
  BY <1>1 DEF IInv, Typed, TypeOK
<1>3. Absent' /\ Bringing'
  BY DEF Absent, IInv, Bringing, Works, Sound
<1>4. Identified'
  BY <1>1 DEF IInv, Identified
<1>5. Waiting'
  BY <1>1 DEF IInv, Waiting, Works, Sound
<1> QED
  BY <1>2, <1>3, <1>4, <1>5 DEF IInv

LEMMA RemoveCard ==
  ASSUME card \in Card, Remove
  PROVE  /\ UNCHANGED <<driverVars, pc, status, lost>> /\ card' \in Card
         /\ card'.mode = "sd" /\ card'.sending = NoBlock /\ card'.receiving = NoBlock
<1>1. card' = [Quiet(card) EXCEPT !.present = FALSE, !.mode = "sd"]
        /\ UNCHANGED <<driverVars, pc, status, lost>>
  BY DEF Remove
<1> QED
  BY <1>1, QuietCard DEF Card

LEMMA InsertCard ==
  ASSUME IInv, NEW kind \in Kinds, Insert(kind)
  PROVE  /\ UNCHANGED <<driverVars, pc, status, lost>> /\ card' \in Card
         /\ card'.mode = "sd" /\ card'.sending = NoBlock /\ card'.receiving = NoBlock
<1>1. /\ ~card.present /\ card.medium < MaxMedia
      /\ card' = [card EXCEPT !.medium = @ + 1, !.present = TRUE, !.kind = kind]
      /\ UNCHANGED <<driverVars, pc, status, lost>>
  BY DEF Insert
<1>2. card \in Card /\ card.mode = "sd" /\ card.sending = NoBlock /\ card.receiving = NoBlock
  BY <1>1, InvFacts DEF IInv, Absent
<1>3. card.medium + 1 \in 0 .. MaxMedia
  BY <1>1, <1>2, CardFields, SpiAssumption
<1> QED
  BY <1>1, <1>2, <1>3 DEF Card

-----------------------------------------------------------------------------
(* The inductive invariant                                                 *)

LEMMA InitIInv == Init => IInv
<1> SUFFICES ASSUME Init PROVE IInv
  OBVIOUS
<1>1. /\ pc = "idle" /\ ready = FALSE /\ retry = 0 /\ moved = <<>> /\ req = NoRequest
      /\ spoiled = FALSE
      /\ card \in Card /\ card.sending = NoBlock /\ card.receiving = NoBlock
      /\ card.present \/ card.mode = "sd"
  <2>1. card \in [medium : {0}, present : BOOLEAN, kind : Kinds,
                 mode : {"sd", "idle", "ready"}, sending : {NoBlock},
                 receiving : {NoBlock}, stream : {FALSE}]
    BY DEF Init
  <2>2. 0 \in 0 .. MaxMedia
    BY SpiAssumption
  <2>3. card \in Card /\ card.sending = NoBlock /\ card.receiving = NoBlock
    BY <2>1, <2>2 DEF Card
  <2> QED
    BY <2>3 DEF Init
<1>2. NoRequest \in Request
  BY SpiAssumption DEF NoRequest, Request
<1>3. moved \in Seq((0 .. MaxMedia) \X ({Garbage, CsdBlock} \union Nat))
  BY <1>1
<1>4. Typed
  <2>1. bus \in Buses /\ selected \in BOOLEAN /\ cardType = "UNKNOWN" /\ done = 0
          /\ status = "SUCCESS" /\ lost = FALSE
    BY DEF Init
  <2>2. 0 \in 0 .. Retries
    BY SpiAssumption
  <2> QED
    BY <1>1, <1>2, <1>3, <2>1, <2>2 DEF Typed, TypeOK, PCs, Statuses
<1>5. Absent /\ Bringing /\ Identified /\ Waiting
  BY <1>1 DEF Absent, Bringing, Identified, Waiting
<1> QED
  BY <1>4, <1>5 DEF IInv

LEMMA NextIInv ==
  ASSUME IInv, [Next]_vars PROVE IInv'
<1>1. CASE UNCHANGED vars
  <2>1. UNCHANGED <<bus, card, selected, cardType, pc, status, lost, spoiled, retry,
                    ready, done, req, moved>>
    BY <1>1 DEF vars
  <2>2. Typed'
    BY <2>1 DEF IInv, Typed, TypeOK
  <2>3. Absent' /\ Bringing' /\ Identified' /\ Waiting'
    BY <2>1 DEF IInv, Absent, Bringing, Identified, Waiting, Works, Sound
  <2> QED
    BY <2>2, <2>3 DEF IInv
<1>2. CASE DriverStep /\ UNCHANGED bus
  BY <1>2, KeptClocks, KeptReset, KeptVersion, KeptOpCond, KeptCapacity, KeptBlockLength,
     KeptCsd, KeptReadCsd, KeptCommand, KeptBlock, KeptStopWrite, KeptStopRead
     DEF DriverStep
<1>3. CASE Call /\ UNCHANGED bus
  BY <1>3, KeptDetect, KeptCall DEF Call
<1>4. CASE Slot /\ UNCHANGED bus
  <2>1. CASE Remove
    BY <1>4, <2>1, RemoveCard, InvFacts, KeptSlot
  <2>2. ASSUME NEW kind \in Kinds, Insert(kind) PROVE IInv'
    BY <1>4, <2>2, InsertCard, KeptSlot
  <2> QED
    BY <1>4, <2>1, <2>2 DEF Slot
<1> QED
  BY <1>1, <1>2, <1>3, <1>4 DEF Next

\* The invariant the other proofs rest on: types, what the driver knows of the
\* card, and what a card that waits for data was sent.
THEOREM InductiveInvariant == Spec => []IInv
<1>1. IInv /\ [Next]_vars => IInv'
  BY NextIInv
<1> QED
  BY InitIInv, <1>1, PTL DEF Spec

(* Every variable of the transport keeps its type, whatever the card, the  *)
(* bus and the slot do.                                                    *)
THEOREM TypeCorrect == Spec => []TypeOK
<1>1. IInv => TypeOK
  BY DEF IInv, Typed
<1> QED
  BY <1>1, InductiveInvariant, PTL

-----------------------------------------------------------------------------
(* Initialization                                                          *)

\* Only the last step of an initialization makes the card ready.
LEMMA ReadyStep ==
  ASSUME IInv, [Next]_vars, pc = "csd", ready'
  PROVE  InitReadCsd /\ UNCHANGED bus
<1>1. ready = FALSE
  BY InvFacts DEF InitPCs
<1>2. ~UNCHANGED vars
  BY <1>1 DEF vars
<1>3. Next
  BY <1>2
<1>4. ~Call
  BY DEF Call, Detect, CallTransfer
<1>5. ~Slot
  BY <1>1 DEF Slot, Remove, Insert, driverVars
<1>6. DriverStep => InitReadCsd
  BY DEF DriverStep, InitClocks, InitReset, InitVersion, InitOpCond, InitCapacity,
         InitBlockLength, InitCsd, TransferCommand, TransferBlock, StopWrite, StopRead
<1> QED
  BY <1>3, <1>4, <1>5, <1>6 DEF Next

LEMMA CsdFacts ==
  ASSUME IInv, InitReadCsd, ready', bus # "failing"
  PROVE  Hears("data") /\ card'.mode = card.mode /\ UNCHANGED selected
<1>1. PICK x \in Received : card' = x.card /\ ready' = (x.st = "SUCCESS")
  BY DEF InitReadCsd
<1>2. x.st = "SUCCESS"
  BY <1>1
<1>3. Hears("data") /\ card'.mode = card.mode
  BY <1>1, <1>2, ReceivedBlock, InvFacts
<1> QED
  BY <1>3 DEF InitReadCsd

(* A successful initialization leaves a selected card in the ready state,  *)
(* though CMD58 and CMD9 accept the answer of an idle one: what ends the   *)
(* ACMD41 loop is an answer only a ready card gives, and a card put in     *)
(* later does not hear the driver.  Commands and answers may be missed.    *)
THEOREM InitializedReady == Spec => InitializedIsReady
<1> DEFINE A == pc = "csd" /\ ready' /\ Sound => card'.mode = "ready" /\ selected'
<1>1. ASSUME IInv, [Next]_vars, pc = "csd", ready', Works
      PROVE  card'.mode = "ready" /\ selected'
  <2>1. InitReadCsd /\ UNCHANGED bus
    BY <1>1, ReadyStep
  <2>2. Hears("data") /\ card'.mode = card.mode /\ UNCHANGED selected
    BY <1>1, <2>1, CsdFacts DEF Works, Sound
  <2>3. card.mode # "idle" /\ card.mode \in {"sd", "idle", "ready"}
    BY <1>1, InvFacts, CardFields DEF IInv, Bringing
  <2> QED
    BY <2>2, <2>3 DEF Hears
<1>2. IInv /\ [Next]_vars => [A]_vars
  BY <1>1 DEF Works
<1> QED
  BY <1>2, InductiveInvariant, PTL DEF Spec, InitializedIsReady

-----------------------------------------------------------------------------
(* Writes                                                                  *)

\* Which steps end a transfer.
LEMMA EndingStep ==
  ASSUME [Next]_vars, TransferEnds, req.op = "write"
  PROVE  (TransferBlock \/ StopWrite) /\ UNCHANGED bus
<1>1. pc \in {"block", "stop"} /\ pc' = "idle"
  BY DEF TransferEnds
<1>2. Next
  BY <1>1 DEF vars
<1>3. ~Call
  BY <1>1 DEF Call, Detect, CallTransfer
<1>4. ~Slot
  BY <1>1 DEF Slot, Remove, Insert
<1>5. DriverStep => TransferBlock \/ StopWrite
  BY <1>1 DEF DriverStep, InitClocks, InitReset, InitVersion, InitOpCond, InitCapacity,
     InitBlockLength, InitCsd, InitReadCsd, TransferCommand, StopRead
<1> QED
  BY <1>2, <1>3, <1>4, <1>5 DEF Next

\* A card that waits for the data of a write hears the driver.
LEMMA WaitingHears ==
  ASSUME IInv, Works, pc \in {"block", "stop"}, req.op = "write", card.receiving # NoBlock
  PROVE  Hears("data") /\ (card.stream <=> req.count > 1)
  BY DEF IInv, Waiting, Hears

(* A write whose tokens the card all heard leaves no card waiting for      *)
(* data, whatever was damaged, refused or swapped: a card that took a      *)
(* block knows whether it was the last, and one that expects more hears    *)
(* the stop token.                                                         *)
THEOREM WriteReleases == Spec => WriteReleasesCard
<1> DEFINE A == TransferEnds /\ req.op = "write" /\ Sound /\ ~lost => card'.receiving = NoBlock
<1>1. ASSUME IInv, [Next]_vars, TransferEnds, req.op = "write", Works, ~lost
      PROVE  card'.receiving = NoBlock
  <2>1. pc \in {"block", "stop"} /\ pc' = "idle"
    BY <1>1 DEF TransferEnds
  <2>2. CASE TransferBlock /\ UNCHANGED bus
    <3>1. ~(req.count > 1)
      BY <1>1, <2>1, <2>2, BlockStep
    <3>2. PICK x \in Written : card' = x.card
      BY <1>1, <2>2, BlockStep
    <3>3. CASE card.receiving = NoBlock
      <4>1. x.card = card
        BY <1>1, <3>2, <3>3, WrittenWorks, InvFacts DEF Works, Sound
      <4> QED
        BY <3>2, <3>3, <4>1
    <3>4. CASE card.receiving # NoBlock
      <4>1. Hears("data") /\ ~card.stream
        BY <1>1, <2>1, <3>1, <3>4, WaitingHears
      <4>2. x.card = Taken
        BY <1>1, <3>2, <3>4, <4>1, WrittenWorks, InvFacts DEF Works, Sound
      <4>3. Following(card.receiving) = NoBlock
        BY <4>1 DEF Following
      <4> QED
        BY <1>1, <3>2, <3>4, <4>2, <4>3, TakenOn, InvFacts
    <3> QED
      BY <3>3, <3>4
  <2>3. CASE StopWrite
    <3>1. card' = StopTokenSent /\ pc = "stop"
      BY <1>1, <2>3 DEF StopWrite, Works, Sound
    <3>2. CASE card.receiving = NoBlock
      BY <3>1, <3>2 DEF StopTokenSent
    <3>3. CASE card.receiving # NoBlock
      <4>1. Hears("data")
        BY <1>1, <3>1, <3>3, WaitingHears
      <4> QED
        BY <3>1, <3>3, <4>1, QuietCard, InvFacts, <1>1 DEF StopTokenSent
    <3> QED
      BY <3>2, <3>3
  <2> QED
    BY <1>1, <2>2, <2>3, EndingStep
<1>2. IInv /\ [Next]_vars => [A]_vars
  BY <1>1 DEF Works
<1> QED
  BY <1>2, InductiveInvariant, PTL DEF Spec, WriteReleasesCard

LEMMA MulDiv ==
  ASSUME NEW q \in Nat, NEW b \in Nat \ {0}
  PROVE  (q * b) % b = 0 /\ (q * b) \div b = q
  OBVIOUS

LEMMA ModSmall ==
  ASSUME NEW a \in Nat, NEW n \in Nat \ {0}, a < n PROVE a % n = a
  OBVIOUS

\* A card that is addressed the way it expects finds the block meant.
LEMMA AddressedBlock ==
  ASSUME AddressesSuffice, NEW lba \in 0 .. Capacity - 1, cardType = "HC" <=> card.kind = "HC"
  PROVE  BlockAt(Address(lba)) = lba
<1>1. /\ Capacity \in Nat \ {0} /\ BlockBytes \in Nat \ {0} /\ Addresses \in Nat \ {0}
      /\ lba \in Nat /\ lba < Capacity
  BY SpiAssumption
<1>2. lba % Addresses = lba
  BY <1>1, ModSmall DEF AddressesSuffice
<1>3. lba * BlockBytes \in Nat /\ lba * BlockBytes < Addresses
  BY <1>1 DEF AddressesSuffice
<1>4. (lba * BlockBytes) % Addresses = lba * BlockBytes
  BY <1>1, <1>3, ModSmall
<1>5. (lba * BlockBytes) % BlockBytes = 0 /\ (lba * BlockBytes) \div BlockBytes = lba
  BY <1>1, MulDiv
<1>6. CASE card.kind = "HC"
  BY <1>1, <1>2, <1>6 DEF Address, BlockAt
<1>7. CASE card.kind # "HC"
  BY <1>1, <1>4, <1>5, <1>7 DEF Address, BlockAt
<1> QED
  BY <1>6, <1>7

(* On any bus but a failing one, a card that hears the command of a        *)
(* transfer finds the block that was asked at the address in it: whatever  *)
(* the bring-up took for the OCR, the CSD settles how it is addressed, and *)
(* a card put in since hears nothing.                                      *)
THEOREM AddressedByUnit ==
  ASSUME AddressesSuffice PROVE Spec => []AddressedByItsUnit
<1>1. ASSUME IInv, pc = "command", Hears(TransferCode), bus # "failing"
      PROVE  BlockAt(Address(req.lba)) = req.lba
  <2>1. ready /\ req.lba \in 0 .. Capacity - 1
    BY <1>1 DEF IInv, Identified
  <2>2. card.mode # "sd"
    BY <1>1 DEF Hears, TransferCode
  <2>3. cardType = "HC" <=> card.kind = "HC"
    BY <1>1, <2>1, <2>2 DEF IInv, Identified
  <2> QED
    BY <2>1, <2>3, AddressedBlock
<1>2. IInv => AddressedByItsUnit
  BY <1>1 DEF AddressedByItsUnit
<1> QED
  BY <1>2, InductiveInvariant, PTL

\* The blocks of a sequence are those of the request, in order.
Stored(s) ==
  \A k \in 1 .. Len(s) : k <= req.count /\ s[k] = <<req.medium, req.lba + k - 1>>

LEMMA StoringCommand ==
  ASSUME AddressesSuffice, IInv, TransferCommand, UNCHANGED bus PROVE Storing'
<1> SUFFICES ASSUME pc' = "block", req.op = "write", Works, req.quiet
             PROVE  /\ moved' = <<>> /\ done' = 0 /\ card'.sending = NoBlock
                    /\ card'.receiving # NoBlock =>
                         card'.medium = req.medium /\ card'.receiving = req.lba
  <2>1. pc' # "stop" /\ req' = req /\ (pc' = "block" \/ pc' = "idle")
    BY CommandStep
  <2>2. req.lba \in Nat
    BY TransferFacts DEF Request
  <2> QED
    BY <2>1, <2>2 DEF Storing, Orderly, Works, Sound
<1>1. /\ moved = <<>> /\ done = 0 /\ req.lba \in 0 .. Capacity - 1
      /\ card.mode # "sd" => card.medium = req.medium
      /\ card.sending = NoBlock
  BY CommandStep DEF IInv, Waiting, Identified
<1>2. moved' = <<>> /\ done' = 0
  BY <1>1, CommandStep
<1>3. card' = Accepted /\ card.receiving = NoBlock /\ card.mode # "sd"
  BY <1>1, CommandStep, TransferFacts DEF Hears
<1>4. card'.sending = NoBlock
  BY <1>1, <1>3, AcceptedCard, InvFacts, TransferFacts
<1>5. ASSUME card'.receiving # NoBlock
      PROVE  card'.medium = req.medium /\ card'.receiving = req.lba
  <2>1. card'.receiving = BlockAt(Address(req.lba))
    BY <1>3, <1>5, AcceptedCard, InvFacts, TransferFacts
  <2>2. cardType = "HC" <=> card.kind = "HC"
    BY <1>3, CommandStep DEF IInv, Identified, Works, Sound
  <2>3. BlockAt(Address(req.lba)) = req.lba
    BY <1>1, <2>2, AddressedBlock
  <2>4. card'.medium = card.medium
    BY CommandStep DEF Same
  <2> QED
    BY <1>1, <1>3, <2>1, <2>3, <2>4
<1> QED
  BY <1>2, <1>4, <1>5

\* One block more is stored where it belongs, or none.
LEMMA StoredOn ==
  ASSUME IInv, Stored(moved), Len(moved) = done, done < req.count,
         NEW t, t = <<req.medium, req.lba + done>>
  PROVE  Stored(moved \o <<t>>) /\ Len(moved \o <<t>>) = done + 1
<1>1. PICK n \in Nat : n = req.count
  BY TransferFacts DEF Request
<1>2. req.lba \in Nat /\ done \in Nat
  BY TransferFacts DEF Request
<1>3. Len(moved \o <<t>>) = done + 1
  BY <1>2, TransferFacts
<1>4. ASSUME NEW k \in 1 .. done + 1
      PROVE  k <= req.count /\ (moved \o <<t>>)[k] = <<req.medium, req.lba + k - 1>>
  <2>1. CASE k <= done
    <3>1. (moved \o <<t>>)[k] = moved[k]
      BY <1>2, <2>1, TransferFacts
    <3> QED
      BY <1>2, <2>1, <3>1 DEF Stored
  <2>2. CASE k = done + 1
    <3>1. (moved \o <<t>>)[k] = t
      BY <1>2, <2>2, TransferFacts
    <3> QED
      BY <1>1, <1>2, <2>2, <3>1
  <2> QED
    BY <1>2, <2>1, <2>2
<1> QED
  BY <1>3, <1>4 DEF Stored

LEMMA BlockStored ==
  ASSUME IInv, Storing, TransferBlock, UNCHANGED bus, req.op = "write", Works, req.quiet
  PROVE  /\ Stored(moved')
         /\ status' = "SUCCESS" =>
              /\ Len(moved') = done' /\ card'.sending = NoBlock
              /\ card'.receiving # NoBlock =>
                   card'.medium = req.medium /\ card'.receiving = req.lba + done'
<1>1. pc = "block" /\ done' = done + 1
  BY BlockStep
<1>2. /\ Stored(moved) /\ Len(moved) = done /\ card.sending = NoBlock
      /\ card.receiving # NoBlock =>
           card.medium = req.medium /\ card.receiving = req.lba + done
  BY <1>1 DEF Storing, Orderly, Works, Sound, Stored
<1>3. done < req.count
  BY <1>1 DEF IInv, Waiting
<1>4. PICK x \in Written :
        /\ card' = x.card /\ status' = x.st /\ Got(x.got)
        /\ moved' = moved \o [k \in 1 .. Len(x.got) |-> <<card.medium, x.got[k]>>]
  BY BlockStep
<1>5. card'.sending = NoBlock /\ card'.medium = card.medium
  BY <1>2, BlockStep DEF Same
<1>6. CASE x.got = <<>>
  <2>1. [k \in 1 .. Len(x.got) |-> <<card.medium, x.got[k]>>] = <<>>
    BY <1>6
  <2>2. moved' = moved
    <3> DEFINE A == (0 .. MaxMedia) \X ({Garbage, CsdBlock} \union Nat)
    <3>1. moved \in Seq(A)
      BY TransferFacts
    <3> HIDE DEF A
    <3>2. moved \o <<>> = moved
      BY <3>1
    <3> QED
      BY <1>4, <2>1, <3>2
  <2>3. x.st # "SUCCESS"
    <3>1. \A b : <<b>> # <<>>
      OBVIOUS
    <3>2. card \in Card /\ x.got # <<card.receiving>>
      BY <1>6, <3>1, InvFacts
    <3> QED
      BY <1>2, <3>2, WrittenWorks DEF Works, Sound
  <2> QED
    BY <1>2, <1>4, <2>2, <2>3
<1>7. CASE x.got # <<>>
  <2>1. /\ x.got = <<card.receiving>> /\ card.receiving # NoBlock /\ x.card = Taken
    BY <1>7, WrittenWorks, InvFacts DEF Works, Sound
  <2> DEFINE t == <<card.medium, card.receiving>>
  <2>2. [k \in 1 .. Len(x.got) |-> <<card.medium, x.got[k]>>] = <<t>>
    BY <2>1
  <2>3. moved' = moved \o <<t>>
    BY <1>4, <2>2
  <2>4. Stored(moved') /\ Len(moved') = done'
    BY <1>1, <1>2, <1>3, <2>1, <2>3, StoredOn
  <2>5. card'.receiving = Following(card.receiving)
    BY <1>4, <2>1, TakenOn, InvFacts
  <2>6. ASSUME card'.receiving # NoBlock PROVE card'.receiving = req.lba + done'
    <3>1. card.receiving \in Int /\ done \in Nat /\ req.lba \in Nat
      BY InvFacts, CardFields, TransferFacts DEF NoBlock, Request
    <3>2. card'.receiving = card.receiving + 1
      BY <2>5, <2>6, <3>1, FollowingBlock, InvFacts
    <3> QED
      BY <1>1, <1>2, <2>1, <3>1, <3>2
  <2> QED
    BY <1>2, <1>5, <2>1, <2>4, <2>6
<1> QED
  BY <1>6, <1>7

LEMMA StoringBlock ==
  ASSUME IInv, Storing, TransferBlock, UNCHANGED bus PROVE Storing'
<1>1. req' = req /\ (pc' = "block" => status' = "SUCCESS")
  BY BlockStep
<1> QED
  BY <1>1, BlockStored DEF Storing, Orderly, Works, Sound, Stored

LEMMA StoringSlot ==
  ASSUME Storing, UNCHANGED <<bus, driverVars, pc>>, card'.sending = NoBlock,
         card'.receiving = NoBlock
  PROVE  Storing'
<1>1. UNCHANGED <<done, req, moved>>
  BY DEF driverVars
<1> QED
  BY <1>1 DEF Storing, Orderly, Sound

LEMMA NextStoring ==
  ASSUME AddressesSuffice, IInv, Storing, [Next]_vars PROVE Storing'
<1>1. CASE UNCHANGED vars
  BY <1>1 DEF vars, Storing, Orderly, Sound
<1>2. CASE DriverStep /\ UNCHANGED bus
  <2>1. CASE TransferCommand
    BY <1>2, <2>1, StoringCommand
  <2>2. CASE TransferBlock
    BY <1>2, <2>2, StoringBlock
  <2>3. CASE StopWrite \/ StopRead
    BY <2>3 DEF StopWrite, StopRead, Return, Goto, Storing
  <2>4. CASE InitClocks \/ InitReset \/ InitVersion
    BY <2>4 DEF InitClocks, InitReset, InitVersion, InitCommand, Return, Goto, Storing
  <2>5. CASE InitOpCond \/ InitCapacity \/ InitBlockLength
    <3>1. pc' \in {"idle", "cmd58", "cmd16", "acmd41", "cmd9"}
      BY <2>5 DEF InitOpCond, InitCapacity, InitBlockLength, InitCommand, Return, Goto
    <3> QED
      BY <3>1 DEF Storing
  <2>6. CASE InitCsd \/ InitReadCsd
    <3>1. pc' \in {"idle", "csd"}
      BY <2>6 DEF InitCsd, InitReadCsd, Return, Goto
    <3> QED
      BY <3>1 DEF Storing
  <2> QED
    BY <1>2, <2>1, <2>2, <2>3, <2>4, <2>5, <2>6 DEF DriverStep
<1>3. CASE Call
  <2>1. pc' \in {"idle", "clocks", "command"}
    BY <1>3 DEF Call, Detect, CallTransfer, Return, Goto
  <2> QED
    BY <2>1 DEF Storing
<1>4. CASE Slot /\ UNCHANGED bus
  <2>1. CASE Remove
    BY <1>4, <2>1, RemoveCard, InvFacts, StoringSlot
  <2>2. ASSUME NEW kind \in Kinds, Insert(kind) PROVE Storing'
    BY <1>4, <2>2, InsertCard, StoringSlot
  <2> QED
    BY <1>4, <2>1, <2>2 DEF Slot
<1> QED
  BY <1>1, <1>2, <1>3, <1>4 DEF Next

(* Whenever a write stops, and whatever was missed on the way, the blocks  *)
(* it has stored on are a prefix of those asked, on the card it was asked  *)
(* of.                                                                     *)
THEOREM WritesPrefix ==
  ASSUME AddressesSuffice PROVE Spec => []WritesStoreAPrefix
<1>1. Init => Storing
  BY DEF Init, Storing
<1>2. IInv /\ Storing /\ [Next]_vars => Storing'
  BY NextStoring
<1>3. IInv /\ Storing => WritesStoreAPrefix
  <2> SUFFICES ASSUME IInv, Storing, pc \in {"block", "stop"}, req.op = "write", Orderly,
                      NEW k \in 1 .. Len(moved)
               PROVE  k <= req.count /\ moved[k] = Requested[k]
    BY DEF WritesStoreAPrefix
  <2>1. k <= req.count /\ moved[k] = <<req.medium, req.lba + k - 1>>
    BY DEF Storing
  <2>2. PICK n \in Nat : n = req.count
    BY TransferFacts DEF Request
  <2>3. k \in 1 .. req.count
    BY <2>1, <2>2, TransferFacts
  <2> QED
    BY <2>1, <2>3 DEF Requested
<1> QED
  BY <1>1, <1>2, <1>3, InductiveInvariant, PTL DEF Spec

-----------------------------------------------------------------------------
(* Exact transfers                                                         *)

\* The reads that are exact: so far no start token was missed, or there is
\* only one block.
ExactRead == req.op = "read" /\ Orderly /\ (~spoiled \/ req.count = 1)

\* The card sends the block that comes next, and knows whether it is the last.
Reading ==
  ExactRead =>
    /\ pc = "block" =>
         /\ Stored(moved) /\ Len(moved) = done
         /\ card.sending # NoBlock =>
              /\ card.medium = req.medium /\ card.sending = req.lba + done
              /\ card.stream <=> req.count > 1
    /\ pc = "stop" /\ status = "SUCCESS" => Stored(moved) /\ Len(moved) = req.count

\* What an accepted read has the card send.
LEMMA AcceptedRead ==
  ASSUME card \in Card, req \in Request, req.op = "read", card.sending = NoBlock,
         Accepted.sending # NoBlock
  PROVE  /\ Accepted.sending = BlockAt(Address(req.lba))
         /\ Accepted.stream <=> req.count > 1
<1> DEFINE b == BlockAt(Address(req.lba))
<1>1. Accepted # card
  OBVIOUS
<1>2. Accepted = [card EXCEPT !.sending = b, !.stream = req.count > 1]
  BY <1>1 DEF Accepted
<1> HIDE DEF b
<1> QED
  BY <1>2 DEF Card, b

LEMMA ReadingCommand ==
  ASSUME AddressesSuffice, IInv, TransferCommand, UNCHANGED bus PROVE Reading'
<1> SUFFICES ASSUME pc' = "block", req.op = "read", Works, req.quiet
             PROVE  /\ moved' = <<>> /\ done' = 0
                    /\ card'.sending # NoBlock =>
                         /\ card'.medium = req.medium /\ card'.sending = req.lba
                         /\ card'.stream <=> req.count > 1
  <2>1. pc' # "stop" /\ req' = req /\ (pc' = "block" \/ pc' = "idle")
    BY CommandStep
  <2>2. req.lba \in Nat
    BY TransferFacts DEF Request
  <2> QED
    BY <2>1, <2>2 DEF Reading, ExactRead, Orderly, Works, Sound, Stored
<1>1. /\ moved = <<>> /\ done = 0 /\ req.lba \in 0 .. Capacity - 1
      /\ card.mode # "sd" => card.medium = req.medium
      /\ card.sending = NoBlock
  BY CommandStep DEF IInv, Waiting, Identified
<1>2. moved' = <<>> /\ done' = 0
  BY <1>1, CommandStep
<1>3. card' = Accepted /\ card.mode # "sd"
  BY <1>1, CommandStep, TransferFacts DEF Hears
<1>4. ASSUME card'.sending # NoBlock
      PROVE  /\ card'.medium = req.medium /\ card'.sending = req.lba
             /\ card'.stream <=> req.count > 1
  <2>1. card'.sending = BlockAt(Address(req.lba)) /\ (card'.stream <=> req.count > 1)
    BY <1>1, <1>3, <1>4, AcceptedRead, InvFacts, TransferFacts
  <2>2. cardType = "HC" <=> card.kind = "HC"
    BY <1>3, CommandStep DEF IInv, Identified, Works, Sound
  <2>3. BlockAt(Address(req.lba)) = req.lba
    BY <1>1, <2>2, AddressedBlock
  <2>4. card'.medium = card.medium
    BY CommandStep DEF Same
  <2> QED
    BY <1>1, <1>3, <2>1, <2>3, <2>4
<1> QED
  BY <1>2, <1>4

LEMMA BlockRead ==
  ASSUME IInv, Reading, ExactRead, TransferBlock, UNCHANGED bus, status' = "SUCCESS",
         ~lost \/ req.count = 1
  PROVE  /\ Stored(moved') /\ Len(moved') = done'
         /\ card'.sending # NoBlock =>
              /\ card'.medium = req.medium /\ card'.sending = req.lba + done'
              /\ card'.stream <=> req.count > 1
<1>1. /\ pc = "block" /\ done' = done + 1 /\ Same(card') /\ req.op = "read"
      /\ Works /\ bus # "failing"
  BY BlockStep DEF ExactRead, Orderly, Works, Sound
<1>2. /\ Stored(moved) /\ Len(moved) = done
      /\ card.sending # NoBlock =>
           /\ card.medium = req.medium /\ card.sending = req.lba + done
           /\ card.stream <=> req.count > 1
  BY <1>1 DEF Reading
<1>3. done < req.count
  BY <1>1 DEF IInv, Waiting
<1>4. PICK x \in Received :
        /\ card' = x.card /\ status' = x.st
        /\ moved' = moved \o [k \in 1 .. Len(x.got) |-> <<card.medium, x.got[k]>>]
  BY <1>1, BlockStep
<1>5. ASSUME lost, card.sending # NoBlock PROVE Following(card.sending) = NoBlock
  <2>1. req.count = 1
    BY <1>5
  <2>2. ~card.stream
    BY <1>2, <1>5, <2>1
  <2> QED
    BY <2>2 DEF Following
<1>6. card \in Card /\ x.st = "SUCCESS"
  BY <1>4, InvFacts
<1>7. /\ card.sending # NoBlock /\ x.got = <<card.sending>>
      /\ x.card = [card EXCEPT !.sending = Following(card.sending)]
  BY <1>1, <1>5, <1>6, ReceivedBlock
<1>8. /\ card.sending # NoBlock /\ x.got = <<card.sending>>
      /\ card'.sending = Following(card.sending)
  BY <1>4, <1>6, <1>7 DEF Card
<1> DEFINE t == <<card.medium, card.sending>>
<1>9. moved' = moved \o <<t>>
  <2>1. [k \in 1 .. Len(x.got) |-> <<card.medium, x.got[k]>>] = <<t>>
    BY <1>8
  <2> QED
    BY <1>4, <2>1
<1>10. t = <<req.medium, req.lba + done>>
  BY <1>2, <1>8
<1>11. Stored(moved') /\ Len(moved') = done'
  <2> HIDE DEF t
  <2>1. Stored(moved \o <<t>>) /\ Len(moved \o <<t>>) = done + 1
    BY <1>2, <1>3, <1>10, StoredOn
  <2> QED
    BY <1>1, <1>9, <2>1
<1>12. ASSUME card'.sending # NoBlock PROVE card'.sending = req.lba + done'
  <2>1. card.sending \in Int /\ done \in Nat /\ req.lba \in Nat
    BY InvFacts, CardFields, TransferFacts DEF NoBlock, CsdBlock, Request
  <2>2. card'.sending = card.sending + 1
    BY <1>8, <1>12, <2>1, FollowingBlock, InvFacts
  <2> QED
    BY <1>1, <1>2, <1>8, <2>1, <2>2
<1>13. card'.medium = req.medium /\ (card'.stream <=> req.count > 1)
  BY <1>1, <1>2, <1>4, <1>6, <1>8, ReceivedBlock DEF Same
<1> QED
  BY <1>11, <1>12, <1>13

LEMMA ReadingBlock ==
  ASSUME IInv, Reading, TransferBlock, UNCHANGED bus PROVE Reading'
<1> SUFFICES ASSUME ExactRead'
             PROVE  /\ pc' = "block" =>
                         /\ Stored(moved)' /\ Len(moved') = done'
                         /\ card'.sending # NoBlock =>
                              /\ card'.medium = req'.medium /\ card'.sending = req'.lba + done'
                              /\ card'.stream <=> req'.count > 1
                    /\ pc' = "stop" /\ status' = "SUCCESS" =>
                         Stored(moved)' /\ Len(moved') = req'.count
  BY DEF Reading
<1>1. req' = req /\ done' = done + 1 /\ pc = "block"
  BY BlockStep
<1>2. ExactRead /\ (~lost \/ req.count = 1)
  <2>1. req.op = "read" /\ Orderly /\ (~spoiled' \/ req.count = 1)
    BY <1>1 DEF ExactRead, Orderly, Sound
  <2>2. spoiled' = (spoiled \/ lost)
    BY <2>1, BlockStep
  <2> QED
    BY <2>1, <2>2 DEF ExactRead
<1>3. ASSUME status' = "SUCCESS" PROVE Stored(moved)' /\ Len(moved') = done'
  BY <1>1, <1>2, <1>3, BlockRead DEF Stored
<1>5. ASSUME pc' = "stop", status' = "SUCCESS" PROVE done' = req.count
  <2>1. PICK n \in Nat : n = req.count
    BY TransferFacts DEF Request
  <2>2. done \in Nat
    BY TransferFacts
  <2>3. done < req.count
    BY <1>1, <1>2 DEF IInv, Waiting, ExactRead, Orderly, Works, Sound
  <2>4. ~(done' < req.count)
    <3>1. PICK x : status' = x.st /\ pc' = IF MoreBlocks(x.st) THEN "block"
                                          ELSE IF req.count > 1 THEN "stop" ELSE "idle"
      BY DEF TransferBlock
    <3>2. ~MoreBlocks(status')
      BY <1>5, <3>1
    <3> QED
      BY <1>5, <3>2 DEF MoreBlocks
  <2> QED
    BY <1>1, <2>1, <2>2, <2>3, <2>4
<1>6. pc' = "block" => status' = "SUCCESS"
  BY BlockStep
<1> QED
  BY <1>1, <1>2, <1>3, <1>5, <1>6, BlockRead

LEMMA ReadingSlot ==
  ASSUME Reading, UNCHANGED <<bus, driverVars, pc, status, lost>>, card'.sending = NoBlock
  PROVE  Reading'
<1>1. UNCHANGED <<done, req, moved, spoiled>>
  BY DEF driverVars
<1> QED
  BY <1>1 DEF Reading, ExactRead, Orderly, Sound, Stored

LEMMA NextReading ==
  ASSUME AddressesSuffice, IInv, Reading, [Next]_vars PROVE Reading'
<1>1. CASE UNCHANGED vars
  BY <1>1 DEF vars, Reading, ExactRead, Orderly, Sound, Stored
<1>2. CASE DriverStep /\ UNCHANGED bus
  <2>1. CASE TransferCommand
    BY <1>2, <2>1, ReadingCommand
  <2>2. CASE TransferBlock
    BY <1>2, <2>2, ReadingBlock
  <2>3. CASE StopWrite \/ StopRead
    BY <2>3 DEF StopWrite, StopRead, Return, Goto, Reading
  <2>4. CASE InitClocks \/ InitReset \/ InitVersion
    BY <2>4 DEF InitClocks, InitReset, InitVersion, InitCommand, Return, Goto, Reading
  <2>5. CASE InitOpCond \/ InitCapacity \/ InitBlockLength
    <3>1. pc' \in {"idle", "cmd58", "cmd16", "acmd41", "cmd9"}
      BY <2>5 DEF InitOpCond, InitCapacity, InitBlockLength, InitCommand, Return, Goto
    <3> QED
      BY <3>1 DEF Reading
  <2>6. CASE InitCsd \/ InitReadCsd
    <3>1. pc' \in {"idle", "csd"}
      BY <2>6 DEF InitCsd, InitReadCsd, Return, Goto
    <3> QED
      BY <3>1 DEF Reading
  <2> QED
    BY <1>2, <2>1, <2>2, <2>3, <2>4, <2>5, <2>6 DEF DriverStep
<1>3. CASE Call
  <2>1. pc' \in {"idle", "clocks", "command"}
    BY <1>3 DEF Call, Detect, CallTransfer, Return, Goto
  <2> QED
    BY <2>1 DEF Reading
<1>4. CASE Slot /\ UNCHANGED bus
  <2>1. CASE Remove
    BY <1>4, <2>1, RemoveCard, InvFacts, ReadingSlot
  <2>2. ASSUME NEW kind \in Kinds, Insert(kind) PROVE Reading'
    BY <1>4, <2>2, InsertCard, ReadingSlot
  <2> QED
    BY <1>4, <2>1, <2>2 DEF Slot
<1> QED
  BY <1>1, <1>2, <1>3, <1>4 DEF Next

LEMMA AllRequested ==
  ASSUME IInv, NEW s, s \in Seq((0 .. MaxMedia) \X ({Garbage, CsdBlock} \union Nat)),
         Stored(s), Len(s) = req.count
  PROVE  s = Requested
<1> DEFINE A == (0 .. MaxMedia) \X ({Garbage, CsdBlock} \union Nat)
<1>1. s \in Seq(A)
  OBVIOUS
<1> HIDE DEF A
<1>2. s = [k \in 1 .. Len(s) |-> s[k]]
  BY <1>1
<1>3. \A k \in 1 .. req.count : s[k] = <<req.medium, req.lba + k - 1>>
  BY DEF Stored
<1>4. s = [k \in 1 .. req.count |-> s[k]]
  BY <1>2
<1> QED
  BY <1>3, <1>4 DEF Requested

LEMMA MovedType ==
  ASSUME IInv, [Next]_vars
  PROVE  moved' \in Seq((0 .. MaxMedia) \X ({Garbage, CsdBlock} \union Nat))
  BY NextIInv DEF IInv, Typed, TypeOK

LEMMA ReadingInvariant ==
  ASSUME AddressesSuffice PROVE Spec => []Reading
<1>1. Init => Reading
  BY DEF Init, Reading
<1>2. IInv /\ Reading /\ [Next]_vars => Reading'
  BY NextReading
<1> QED
  BY <1>1, <1>2, InductiveInvariant, PTL DEF Spec

LEMMA StoringInvariant ==
  ASSUME AddressesSuffice PROVE Spec => []Storing
<1>1. Init => Storing
  BY DEF Init, Storing
<1>2. IInv /\ Storing /\ [Next]_vars => Storing'
  BY NextStoring
<1> QED
  BY <1>1, <1>2, InductiveInvariant, PTL DEF Spec

\* Which steps end a read.
LEMMA EndingRead ==
  ASSUME [Next]_vars, TransferEnds, req.op = "read"
  PROVE  (TransferBlock \/ StopRead) /\ UNCHANGED bus
<1>1. pc \in {"block", "stop"} /\ pc' = "idle"
  BY DEF TransferEnds
<1>2. Next
  BY <1>1 DEF vars
<1>3. ~Call
  BY <1>1 DEF Call, Detect, CallTransfer
<1>4. ~Slot
  BY <1>1 DEF Slot, Remove, Insert
<1>5. DriverStep => TransferBlock \/ StopRead
  BY <1>1 DEF DriverStep, InitClocks, InitReset, InitVersion, InitOpCond, InitCapacity,
     InitBlockLength, InitCsd, InitReadCsd, TransferCommand, StopWrite
<1> QED
  BY <1>2, <1>3, <1>4, <1>5 DEF Next

\* A block that ends a transfer is its only one.
LEMMA OnlyBlock ==
  ASSUME IInv, TransferBlock, UNCHANGED bus, pc' = "idle", Works
  PROVE  req.count = 1 /\ done' = 1
<1>1. req.count \in Nat \ {0} /\ done \in Nat
  BY TransferFacts DEF Request
<1>2. ~(req.count > 1) /\ done' = done + 1 /\ pc = "block"
  BY BlockStep
<1>3. done < req.count
  BY <1>2 DEF IInv, Waiting
<1> QED
  BY <1>1, <1>2, <1>3

LEMMA ExactReadEnds ==
  ASSUME IInv, Reading, [Next]_vars, TransferEnds, status' = "SUCCESS", req.op = "read",
         Orderly, ~spoiled' \/ req.count = 1
  PROVE  moved' = Requested
<1>1. pc \in {"block", "stop"} /\ pc' = "idle" /\ Works
  BY DEF TransferEnds, Orderly, Works
<1>2. CASE TransferBlock /\ UNCHANGED bus
  <2>1. req.count = 1 /\ done' = 1
    BY <1>1, <1>2, OnlyBlock
  <2>2. Stored(moved') /\ Len(moved') = done'
    BY <1>2, <2>1, BlockRead DEF ExactRead
  <2> QED
    BY <2>1, <2>2, MovedType, AllRequested
<1>3. CASE StopRead
  <2>1. pc = "stop" /\ status = "SUCCESS" /\ moved' = moved /\ spoiled' = spoiled
    BY <1>3 DEF StopRead, Goto, driverVars
  <2>2. Stored(moved) /\ Len(moved) = req.count
    BY <2>1 DEF Reading, ExactRead
  <2> QED
    BY <2>1, <2>2, MovedType, AllRequested
<1> QED
  BY <1>1, <1>2, <1>3, EndingRead

(* A read that reports success and missed no start token returned the      *)
(* requested blocks, in order and all of one card, wherever the tokens     *)
(* come and whatever else is missed or damaged.                            *)
THEOREM ReadExact ==
  ASSUME AddressesSuffice PROVE Spec => ReadIsExact
<1> DEFINE A == ReadSucceeds /\ Orderly /\ ~spoiled' => moved' = Requested
<1>1. IInv /\ Reading /\ [Next]_vars => [A]_vars
  BY ExactReadEnds DEF ReadSucceeds
<1> QED
  BY <1>1, InductiveInvariant, ReadingInvariant, PTL DEF Spec, ReadIsExact

(* A single-block read that reports success returned its block, although   *)
(* its start token may be missed, and a single-block write stored at its   *)
(* place.                                                                  *)
THEOREM SingleBlockExact ==
  ASSUME AddressesSuffice PROVE Spec => SingleBlockIsExact
<1> DEFINE A == TransferEnds /\ status' = "SUCCESS" /\ req.count = 1 /\ Orderly =>
                  moved' = Requested
<1>1. ASSUME IInv, Reading, Storing, [Next]_vars, TransferEnds, status' = "SUCCESS",
             req.count = 1, Orderly
      PROVE  moved' = Requested
  <2>1. CASE req.op = "read"
    BY <1>1, <2>1, ExactReadEnds
  <2>2. CASE req.op = "write"
    <3>1. pc' = "idle" /\ Works /\ req.quiet
      BY <1>1 DEF TransferEnds, Orderly, Works
    <3>2. CASE TransferBlock /\ UNCHANGED bus
      <4>1. Stored(moved') /\ Len(moved') = done'
        BY <1>1, <2>2, <3>1, <3>2, BlockStored
      <4>2. done' = req.count
        BY <1>1, <3>1, <3>2, OnlyBlock
      <4> QED
        BY <1>1, <4>1, <4>2, MovedType, AllRequested
    <3>3. ~StopWrite
      <4>1. req.count > 1 => req.count # 1
        OBVIOUS
      <4> QED
        BY <1>1, <3>1, <4>1 DEF StopWrite, IInv, Waiting
    <3> QED
      BY <1>1, <2>2, <3>2, <3>3, EndingStep
  <2> QED
    BY <1>1, <2>1, <2>2, TransferFacts DEF Request
<1>2. IInv /\ Reading /\ Storing /\ [Next]_vars => [A]_vars
  BY <1>1
<1> QED
  BY <1>2, InductiveInvariant, ReadingInvariant, StoringInvariant, PTL
     DEF Spec, SingleBlockIsExact

-----------------------------------------------------------------------------
(* Every call ends                                                         *)

\* The loop over the blocks is entered with a block left to move, on any bus.
Counting ==
  /\ pc = "command" => done = 0
  /\ pc = "block" => done < req.count

LEMMA StepsLeftIs ==
  /\ pc = "idle" => StepsLeft = 0
  /\ pc \in {"csd", "stop"} => StepsLeft = 1
  /\ pc = "cmd9" => StepsLeft = 2
  /\ pc = "cmd16" => StepsLeft = 3
  /\ pc = "cmd58" => StepsLeft = 4
  /\ pc = "acmd41" => StepsLeft = retry + 4
  /\ pc = "cmd8" => StepsLeft = Retries + 5
  /\ pc = "cmd0" => StepsLeft = Retries + 6
  /\ pc = "clocks" => StepsLeft = Retries + 7
  /\ pc = "block" => StepsLeft = req.count - done + 1
  /\ pc = "command" => StepsLeft = req.count + 2
  BY Zenon DEF StepsLeft

LEMMA StepsLeftNext ==
  /\ pc' = "idle" => StepsLeft' = 0
  /\ pc' \in {"csd", "stop"} => StepsLeft' = 1
  /\ pc' = "cmd9" => StepsLeft' = 2
  /\ pc' = "cmd16" => StepsLeft' = 3
  /\ pc' = "cmd58" => StepsLeft' = 4
  /\ pc' = "acmd41" => StepsLeft' = retry' + 4
  /\ pc' = "cmd8" => StepsLeft' = Retries + 5
  /\ pc' = "cmd0" => StepsLeft' = Retries + 6
  /\ pc' = "clocks" => StepsLeft' = Retries + 7
  /\ pc' = "block" => StepsLeft' = req'.count - done' + 1
  /\ pc' = "command" => StepsLeft' = req'.count + 2
  BY Zenon DEF StepsLeft

\* Where the steps of an initialization lead.
LEMMA InitMoves ==
  ASSUME InitClocks \/ InitReset \/ InitVersion \/ InitCapacity \/ InitBlockLength
           \/ InitCsd \/ InitReadCsd
  PROVE  \/ pc = "clocks" /\ pc' = "cmd0"
         \/ pc = "cmd0"  /\ pc' \in {"cmd8", "idle"}
         \/ pc = "cmd8"  /\ pc' \in {"acmd41", "idle"} /\ retry' = Retries
         \/ pc = "cmd58" /\ pc' \in {"cmd9", "cmd16", "idle"}
         \/ pc = "cmd16" /\ pc' \in {"cmd9", "idle"}
         \/ pc = "cmd9"  /\ pc' \in {"csd", "idle"}
         \/ pc = "csd"   /\ pc' = "idle"
<1>1. CASE InitClocks
  BY <1>1 DEF InitClocks, Goto
<1>2. CASE InitReset
  BY <1>2 DEF InitReset, InitCommand, Goto, Return
<1>3. CASE InitVersion
  BY <1>3 DEF InitVersion, Goto, Return
<1>4. CASE InitCapacity
  BY <1>4 DEF InitCapacity, Goto, Return
<1>5. CASE InitBlockLength
  BY <1>5 DEF InitBlockLength, InitCommand, Goto, Return
<1>6. CASE InitCsd
  BY <1>6 DEF InitCsd, Goto, Return
<1>7. CASE InitReadCsd
  BY <1>7 DEF InitReadCsd, Return
<1> QED
  BY <1>1, <1>2, <1>3, <1>4, <1>5, <1>6, <1>7

LEMMA OpCondMoves ==
  ASSUME InitOpCond, retry \in 1 .. Retries, Retries \in Nat
  PROVE  /\ pc = "acmd41"
         /\ \/ pc' \in {"cmd58", "cmd16", "idle"}
            \/ pc' = "acmd41" /\ retry' = retry - 1 /\ retry' > 0
<1>1. PICK y : \/ Return("TIMEOUT")
               \/ Goto(IF cardType = "SC" THEN "cmd58" ELSE "cmd16")
               \/ /\ retry' = RetriesLeft(retry)
                  /\ IF retry' <= 0 THEN Return("TIMEOUT") ELSE Goto("acmd41")
  BY DEF InitOpCond
<1>2. pc = "acmd41"
  BY DEF InitOpCond
<1> QED
  BY <1>1, <1>2 DEF RetriesLeft, Goto, Return

\* Where the steps of a transfer lead.
LEMMA TransferMoves ==
  ASSUME TransferCommand \/ TransferBlock \/ StopWrite \/ StopRead
  PROVE  /\ req' = req
         /\ \/ pc = "command" /\ pc' \in {"block", "idle"} /\ done' = done
            \/ /\ pc = "block" /\ done' = done + 1 /\ pc' \in {"block", "stop", "idle"}
               /\ pc' = "block" => done' < req.count
               /\ pc' = "stop" => req.count > 1
            \/ pc = "stop" /\ pc' = "idle"
<1>1. CASE TransferCommand
  BY <1>1 DEF TransferCommand, Goto, Return, driverVars
<1>2. CASE TransferBlock
  BY <1>2 DEF TransferBlock, MoreBlocks
<1>3. CASE StopWrite \/ StopRead
  BY <1>3 DEF StopWrite, StopRead, Goto, Return, driverVars
<1> QED
  BY <1>1, <1>2, <1>3

LEMMA Numbers ==
  ASSUME IInv
  PROVE  /\ Retries \in Nat \ {0} /\ retry \in 0 .. Retries /\ (pc = "acmd41" => retry # 0)
         /\ done \in Nat /\ req.count \in Nat \ {0}
<1>1. retry \in 0 .. Retries /\ done \in Nat /\ req \in Request /\ (pc = "acmd41" => retry # 0)
  BY DEF IInv, Typed, TypeOK
<1> QED
  BY <1>1, SpiAssumption DEF Request

\* A step of a call in progress leaves it less to do.
LEMMA StepEnds ==
  ASSUME IInv, Counting, DriverStep
  PROVE  pc # "idle" /\ StepsLeft' \in 0 .. StepsLeft - 1 /\ Counting'
<1>1. CASE InitOpCond
  <2>1. pc = "acmd41" /\ retry \in 1 .. Retries /\ Retries \in Nat
    BY <1>1, Numbers DEF InitOpCond
  <2>2. \/ pc' \in {"cmd58", "cmd16", "idle"}
        \/ pc' = "acmd41" /\ retry' = retry - 1 /\ retry' > 0
    BY <1>1, <2>1, OpCondMoves
  <2> QED
    BY <2>1, <2>2, StepsLeftIs, StepsLeftNext DEF Counting
<1>2. CASE InitClocks \/ InitReset \/ InitVersion \/ InitCapacity \/ InitBlockLength
             \/ InitCsd \/ InitReadCsd
  BY <1>2, Numbers, InitMoves, StepsLeftIs, StepsLeftNext DEF Counting
<1>3. CASE TransferCommand \/ TransferBlock \/ StopWrite \/ StopRead
  <2>1. Counting'
    BY <1>3, Numbers, TransferMoves DEF Counting
  <2>2. pc # "idle" /\ StepsLeft' \in 0 .. StepsLeft - 1
    BY <1>3, Numbers, TransferMoves, StepsLeftIs, StepsLeftNext DEF Counting
  <2> QED
    BY <2>1, <2>2
<1> QED
  BY <1>1, <1>2, <1>3 DEF DriverStep

LEMMA CallBegins ==
  ASSUME Call
  PROVE  pc = "idle" /\ StepsLeft' \in {0, Retries + 7, req'.count + 2} /\ Counting'
<1>1. /\ pc = "idle" /\ pc' \in {"clocks", "idle", "command"}
      /\ pc' = "command" => done' = 0
  BY DEF Call, Detect, CallTransfer, Goto, Return
<1> QED
  BY <1>1, StepsLeftNext DEF Counting

(* On every bus and with every card, a bring-up takes at most Retries + 7  *)
(* steps and a transfer at most two more than its blocks, whatever happens *)
(* in the slot meanwhile: what fairness has to add for the call to return  *)
(* is only that it goes on.                                                *)
THEOREM CallsBounded == Spec => CallsAreBounded
<1> DEFINE Bounded ==
      IF pc = "idle" THEN StepsLeft' \in {0, Retries + 7, req'.count + 2}
      ELSE \/ StepsLeft' \in 0 .. StepsLeft - 1
           \/ UNCHANGED <<driverVars, pc, status, lost>>
<1>1. ASSUME IInv, Counting, [Next]_vars PROVE Bounded /\ Counting'
  <2>1. CASE DriverStep
    BY <1>1, <2>1, StepEnds
  <2>2. CASE Call
    BY <2>2, CallBegins
  <2>3. CASE Slot \/ UNCHANGED vars
    <3>1. UNCHANGED <<driverVars, pc, status, lost>>
      BY <2>3 DEF Slot, Remove, Insert, vars, driverVars
    <3>2. pc = "idle" => StepsLeft' = 0
      BY <3>1, StepsLeftNext
    <3>3. Counting'
      BY <1>1, <3>1 DEF Counting, driverVars
    <3> QED
      BY <3>1, <3>2, <3>3
  <2> QED
    BY <1>1, <2>1, <2>2, <2>3 DEF Next
<1>2. Init => IInv /\ Counting
  BY InitIInv DEF Init, Counting
<1>3. IInv /\ Counting /\ [Next]_vars => (IInv /\ Counting)'
  BY <1>1, NextIInv
<1> QED
  BY <1>1, <1>2, <1>3, PTL DEF Spec, CallsAreBounded
-----------------------------------------------------------------------------
(* Intact reads                                                            *)

BlocksOf == 0 .. Capacity - 1

\* The blocks of a sequence are of the card of the request, in its order.
Ordered(s) ==
  \A k \in 1 .. Len(s) :
    /\ s[k][1] = req.medium /\ s[k][2] \in BlocksOf
    /\ k > 1 => s[k - 1][2] < s[k][2]

(* Noise may have the card send any of its blocks, but it sends them in    *)
(* order, and a card that hears the driver is the one of the request.      *)
Sending ==
  bus # "failing" =>
    /\ card.sending \in {NoBlock, CsdBlock} \union BlocksOf
    /\ pc = "command" => done = 0 /\ moved = <<>>
    /\ pc \in {"command", "block"} /\ card.mode # "sd" => card.medium = req.medium
    /\ pc = "block" /\ req.op = "read" =>
         /\ Ordered(moved) /\ Len(moved) = done /\ done < req.count
         /\ done # 0 /\ card.sending \in Nat => moved[done][2] < card.sending
    /\ pc = "stop" /\ req.op = "read" /\ status = "SUCCESS" =>
         Ordered(moved) /\ Len(moved) = req.count

LEMMA FollowingBound ==
  ASSUME NEW b \in {NoBlock, CsdBlock} \union BlocksOf
  PROVE  Following(b) = NoBlock \/ (Following(b) \in BlocksOf /\ b \in BlocksOf /\ b < Following(b))
<1>1. Capacity \in Nat \ {0}
  BY SpiAssumption
<1>2. b \in Int
  BY <1>1 DEF NoBlock, CsdBlock, BlocksOf
<1> QED
  BY <1>1, <1>2 DEF Following, BlocksOf, NoBlock, CsdBlock

\* The card sends nothing, its CSD, or a block it has.
SendsOwn(c) == c.sending \in {NoBlock, CsdBlock} \union BlocksOf

\* Nor does a command, heard or mistaken, make a card send what it has not.
LEMMA MistakenBound ==
  ASSUME card \in Card, SendsOwn(card), NEW m \in Mistaken PROVE SendsOwn(m)
<1>1. Hears("data")
  <2>1. ~Hears("data") => Mistaken = {}
    BY DEF Mistaken
  <2> QED
    BY <2>1
<1>2. \/ m = Quiet(card) \/ m = [Quiet(card) EXCEPT !.mode = "idle"]
      \/ m \in {Sends(b, t) : b \in BlocksOf, t \in BOOLEAN}
      \/ m \in {Takes(b, t) : b \in BlocksOf, t \in BOOLEAN}
  BY <1>1 DEF Mistaken, BlocksOf
<1>3. CASE m = Quiet(card)
  BY <1>3, QuietCard DEF SendsOwn
<1>4. CASE m = [Quiet(card) EXCEPT !.mode = "idle"]
  <2>1. m.sending = NoBlock
    BY <1>4, QuietCard DEF Card
  <2> QED
    BY <2>1 DEF SendsOwn
<1>5. ASSUME m \in {Sends(b, t) : b \in BlocksOf, t \in BOOLEAN} PROVE SendsOwn(m)
  <2>1. PICK b \in BlocksOf, t \in BOOLEAN : m = Sends(b, t)
    BY <1>5
  <2>2. m.sending = b
    BY <2>1 DEF Sends, Card
  <2> QED
    BY <2>1, <2>2 DEF SendsOwn
<1>6. ASSUME m \in {Takes(b, t) : b \in BlocksOf, t \in BOOLEAN} PROVE SendsOwn(m)
  <2>1. PICK b \in BlocksOf, t \in BOOLEAN : m = Takes(b, t)
    BY <1>6
  <2>2. m.sending = card.sending
    BY <2>1 DEF Takes, Card
  <2> QED
    BY <2>2 DEF SendsOwn
<1> QED
  BY <1>2, <1>3, <1>4, <1>5, <1>6

LEMMA ExchangeBound ==
  ASSUME card \in Card, SendsOwn(card), NEW c, NEW r, NEW after, SendsOwn(after),
         NEW x \in Exchange(c, r, after)
  PROVE  SendsOwn(x.card)
<1>1. \/ x.card = card \/ x.card \in Mistaken \/ x.card = after \/ x.card = Quiet(card)
      \/ x.card = Taken /\ card.receiving # NoBlock
  BY Exchanged
<1>2. SendsOwn(Quiet(card))
  BY QuietCard DEF SendsOwn
<1>3. card.receiving # NoBlock => SendsOwn(Taken)
  BY TakenOn DEF SendsOwn
<1> QED
  BY <1>1, <1>2, <1>3, MistakenBound

LEMMA AcceptedBound ==
  ASSUME card \in Card, req \in Request, SendsOwn(card) PROVE SendsOwn(Accepted)
<1> DEFINE b == BlockAt(Address(req.lba))
<1>1. b \in {NoBlock} \union BlocksOf
  <2>1. req.lba \in Nat
    BY DEF Request
  <2>2. PICK a \in Nat : a = Address(req.lba)
    BY <2>1, AddressType
  <2>3. a \div BlockBytes \in Nat /\ Capacity \in Nat \ {0}
    BY SpiAssumption, DivNat
  <2> QED
    BY <2>2, <2>3 DEF BlockAt, BlocksOf
<1>2. CASE card.mode = "ready" /\ b # NoBlock /\ req.op = "read"
  <2>1. Accepted = [card EXCEPT !.sending = b, !.stream = req.count > 1]
    BY <1>2 DEF Accepted
  <2> HIDE DEF b
  <2>2. Accepted.sending = b
    BY <2>1 DEF Card
  <2> QED
    BY <1>1, <2>2 DEF SendsOwn
<1>3. CASE ~(card.mode = "ready" /\ b # NoBlock /\ req.op = "read")
  <2>1. Accepted.sending = card.sending
    <3>1. Accepted = card \/ Accepted = [card EXCEPT !.receiving = b, !.stream = req.count > 1]
      BY <1>3 DEF Accepted
    <3> HIDE DEF b
    <3> QED
      BY <3>1 DEF Card
  <2> QED
    BY <2>1 DEF SendsOwn
<1> QED
  BY <1>2, <1>3

\* One block more, further on than the last.
LEMMA OrderedOn ==
  ASSUME IInv, Ordered(moved), Len(moved) = done, NEW b \in BlocksOf,
         done # 0 => moved[done][2] < b, card.medium = req.medium
  PROVE  LET s == moved \o <<<<card.medium, b>>>>
         IN  Ordered(s) /\ Len(s) = done + 1 /\ s[done + 1][2] = b
<1> DEFINE t == <<card.medium, b>>
           s == moved \o <<t>>
<1>1. done \in Nat
  BY TransferFacts
<1>2. t[1] = req.medium /\ t[2] = b
  OBVIOUS
<1> HIDE DEF t
<1>3. /\ Len(s) = done + 1 /\ s[done + 1] = t
      /\ \A k \in 1 .. done : s[k] = moved[k]
  BY <1>1, TransferFacts
<1> HIDE DEF s
<1>4. ASSUME NEW k \in 1 .. done + 1
      PROVE  /\ s[k][1] = req.medium /\ s[k][2] \in BlocksOf
             /\ k > 1 => s[k - 1][2] < s[k][2]
  <2>1. CASE k <= done
    <3>1. k \in 1 .. Len(moved) /\ s[k] = moved[k] /\ (k > 1 => s[k - 1] = moved[k - 1])
      BY <1>1, <1>3, <2>1
    <3> QED
      BY <3>1 DEF Ordered
  <2>2. CASE k = done + 1
    <3>1. k > 1 => s[k - 1] = moved[done] /\ done # 0
      BY <1>1, <1>3, <2>2
    <3> QED
      BY <1>2, <1>3, <2>2, <3>1
  <2> QED
    BY <1>1, <2>1, <2>2
<1>5. Ordered(s)
  BY <1>3, <1>4 DEF Ordered
<1> QED
  BY <1>2, <1>3, <1>5 DEF s, t

\* A block received without an error is further on than the last.
LEMMA OrderedBlock ==
  ASSUME IInv, Sending, bus # "failing", TransferBlock, UNCHANGED bus, req.op = "read",
         status' = "SUCCESS"
  PROVE  /\ Ordered(moved') /\ Len(moved') = done' /\ SendsOwn(card')
         /\ card'.sending \in Nat => moved'[done'][2] < card'.sending
<1>1. pc = "block" /\ done' = done + 1 /\ Same(card') /\ done \in Nat
  BY BlockStep, TransferFacts
<1>2. /\ SendsOwn(card) /\ Ordered(moved) /\ Len(moved) = done
      /\ card.mode # "sd" => card.medium = req.medium
      /\ done # 0 /\ card.sending \in Nat => moved[done][2] < card.sending
  BY <1>1 DEF Sending, SendsOwn
<1>3. PICK x \in Received :
        /\ card' = x.card /\ status' = x.st
        /\ moved' = moved \o [k \in 1 .. Len(x.got) |-> <<card.medium, x.got[k]>>]
  BY BlockStep
<1>4. Hears("data") /\ card.medium = req.medium
  BY <1>2, <1>3, ReceivedBlock, InvFacts DEF Hears
<1>5. PICK b :
        /\ b \in {card.sending, Following(card.sending)} /\ b # NoBlock /\ Expected(b)
        /\ x.got = <<b>> /\ x.card = [card EXCEPT !.sending = Following(b)]
  BY <1>3, ReceivedBlock, InvFacts
<1>6. b \in BlocksOf /\ Capacity \in Nat
  BY <1>1, <1>2, <1>5, FollowingBound, SpiAssumption DEF Expected, SendsOwn
<1>7. done # 0 => moved[done][2] < b
  <2>1. CASE b = card.sending
    BY <1>2, <1>6, <2>1 DEF BlocksOf
  <2>2. CASE b = Following(card.sending)
    <3>1. card.sending \in BlocksOf /\ card.sending < b
      BY <1>2, <1>5, <2>2, FollowingBound DEF SendsOwn
    <3>2. done # 0 => moved[done][2] < card.sending /\ moved[done][2] \in BlocksOf
      BY <1>1, <1>2, <3>1, <1>6 DEF BlocksOf, Ordered
    <3> QED
      BY <1>6, <3>1, <3>2 DEF BlocksOf
  <2> QED
    BY <1>5, <2>1, <2>2
<1>8. moved' = moved \o <<<<card.medium, b>>>>
  <2>1. [k \in 1 .. Len(x.got) |-> <<card.medium, x.got[k]>>] = <<<<card.medium, b>>>>
    BY <1>5
  <2> QED
    BY <1>3, <2>1
<1>9. Ordered(moved') /\ Len(moved') = done + 1 /\ moved'[done + 1][2] = b
  BY <1>2, <1>4, <1>6, <1>7, <1>8, OrderedOn
<1>10. card'.sending = Following(b)
  BY <1>3, <1>5, InvFacts DEF Card
<1>11. Following(b) = NoBlock \/ (Following(b) \in BlocksOf /\ b < Following(b))
  BY <1>6, FollowingBound
<1> QED
  BY <1>1, <1>9, <1>10, <1>11 DEF SendsOwn, NoBlock

\* Where no transfer is, only the card matters.
LEMMA SendingElsewhere ==
  ASSUME bus' # "failing" => SendsOwn(card)', pc' \notin {"command", "block", "stop"}
  PROVE  Sending'
  BY DEF Sending, SendsOwn

LEMMA SendingCommand ==
  ASSUME IInv, Sending, TransferCommand, UNCHANGED bus PROVE Sending'
<1> SUFFICES ASSUME bus # "failing" PROVE Sending'
  BY DEF Sending
<1>1. /\ pc = "command" /\ pc' \in {"block", "idle"} /\ UNCHANGED <<done, req, moved>>
      /\ Same(card') /\ StaysDeaf(card')
  BY CommandStep
<1>2. SendsOwn(card) /\ done = 0 /\ moved = <<>> /\ (card.mode # "sd" => card.medium = req.medium)
  BY <1>1 DEF Sending, SendsOwn
<1>3. SendsOwn(card')
  <2>1. PICK x, r : x \in Exchange(TransferCode, r, Accepted) /\ card' = x.card
    BY DEF TransferCommand, Accepted, Sends, Takes
  <2> QED
    BY <1>2, <2>1, ExchangeBound, AcceptedBound, InvFacts, TransferFacts
<1>4. req.count \in Nat \ {0}
  BY TransferFacts DEF Request
<1> QED
  BY <1>1, <1>2, <1>3, <1>4 DEF Sending, SendsOwn, Ordered, Same, StaysDeaf

\* What a received block, or the attempt, has left of the data phase.
LEMMA ReceivedSending ==
  ASSUME card \in Card, bus # "failing", NEW x \in Received
  PROVE  x.card.sending \in
           {card.sending, Following(card.sending), Following(Following(card.sending))}
<1> DEFINE b == card.sending
           next == Following(b)
           over == [card EXCEPT !.sending = next]
           past == [card EXCEPT !.sending = Following(next)]
<1>1. over.sending = next /\ past.sending = Following(next)
  BY DEF Card
<1>2. \/ \E st \in {"TIMEOUT", "CRC_ERROR"} : x = Block(st, <<>>, card)
      \/ \E st \in {"TIMEOUT", "CRC_ERROR"} : x = Block(st, <<>>, over)
      \/ x = Block("CRC_ERROR", <<>>, past)
      \/ \E got : x = Block("SUCCESS", got, past) \/ x = Block("SUCCESS", got, over)
  <2>1. CASE ~Hears("data") \/ b = NoBlock
    <3>1. x = Block("TIMEOUT", <<>>, card) \/ x = Block("CRC_ERROR", <<>>, card)
      BY <2>1 DEF Received
    <3> HIDE DEF over, past
    <3> QED
      BY <3>1
  <2>2. CASE Hears("data") /\ b # NoBlock /\ lost
    <3>1. \/ x = Block("CRC_ERROR", <<>>, over) \/ x = Block("CRC_ERROR", <<>>, card)
          \/ x = Block("CRC_ERROR", <<>>, past) \/ x = Block("TIMEOUT", <<>>, over)
          \/ x = Block("SUCCESS", <<next>>, past)
      BY <2>2 DEF Received
    <3> HIDE DEF over, past, next
    <3> QED
      BY <3>1
  <2>3. CASE Hears("data") /\ b # NoBlock /\ ~lost
    <3>1. \/ x = Block("CRC_ERROR", <<>>, over) \/ x = Block("CRC_ERROR", <<>>, card)
          \/ x = Block("SUCCESS", <<b>>, over)
      BY <2>3, CrcDetects DEF Received
    <3> HIDE DEF over, past, b
    <3> QED
      BY <3>1
  <2> QED
    BY <2>1, <2>2, <2>3
<1> HIDE DEF over, past
<1>3. x.card \in {card, over, past}
  BY <1>2, BlockFields
<1> QED
  BY <1>1, <1>3

LEMMA SendingBlock ==
  ASSUME IInv, Sending, TransferBlock, UNCHANGED bus PROVE Sending'
<1> SUFFICES ASSUME bus # "failing" PROVE Sending'
  BY DEF Sending
<1>1. /\ pc = "block" /\ done' = done + 1 /\ req' = req /\ Same(card') /\ card'.mode = card.mode
      /\ pc' \in {"block", "stop", "idle"}
      /\ pc' = "block" => status' = "SUCCESS" /\ done' < req.count
  BY BlockStep
<1>2. SendsOwn(card) /\ (card.mode # "sd" => card.medium = req.medium)
  BY <1>1 DEF Sending, SendsOwn
<1>3. SendsOwn(card')
  <2>1. CASE req.op = "read"
    <3>1. PICK x \in Received : card' = x.card
      BY <2>1, BlockStep
    <3> DEFINE next == Following(card.sending)
    <3>2. x.card.sending \in {card.sending, next, Following(next)}
      BY ReceivedSending, InvFacts
    <3>3. next \in {NoBlock} \union BlocksOf /\ Following(next) \in {NoBlock} \union BlocksOf
      <4>1. next \in {NoBlock} \union BlocksOf
        BY <1>2, FollowingBound DEF SendsOwn
      <4> HIDE DEF next
      <4> QED
        BY <4>1, FollowingBound
    <3> QED
      BY <1>2, <3>1, <3>2, <3>3 DEF SendsOwn
  <2>2. CASE req.op = "write"
    BY <1>2, <2>2, BlockStep DEF SendsOwn
  <2> QED
    BY <2>1, <2>2, TransferFacts DEF Request
<1>4. ASSUME req.op = "read", status' = "SUCCESS"
      PROVE  /\ Ordered(moved)' /\ Len(moved') = done'
             /\ card'.sending \in Nat => moved'[done'][2] < card'.sending
  BY <1>1, <1>4, OrderedBlock DEF Ordered, BlocksOf
<1>5. ASSUME pc' = "stop", status' = "SUCCESS", req.op = "read" PROVE done' = req.count
  <2>1. PICK n \in Nat : n = req.count
    BY TransferFacts DEF Request
  <2>2. done \in Nat /\ done < req.count
    BY <1>1, <1>5, TransferFacts DEF Sending
  <2>3. ~(done' < req.count)
    <3>1. PICK x : status' = x.st /\ pc' = IF MoreBlocks(x.st) THEN "block"
                                          ELSE IF req.count > 1 THEN "stop" ELSE "idle"
      BY DEF TransferBlock
    <3>2. ~MoreBlocks(status')
      BY <1>5, <3>1
    <3> QED
      BY <1>5, <3>2 DEF MoreBlocks
  <2> QED
    BY <1>1, <2>1, <2>2, <2>3
<1> QED
  BY <1>1, <1>2, <1>3, <1>4, <1>5 DEF Sending, SendsOwn, Same

\* A command of a bring-up, of detection, or after a failed read.
LEMMA BoundedInit ==
  ASSUME IInv, Sending, bus # "failing",
         \/ Detect \/ InitReset \/ InitVersion \/ InitOpCond \/ InitCapacity
         \/ InitBlockLength \/ InitCsd \/ InitReadCsd \/ StopRead
  PROVE  SendsOwn(card')
<1> DEFINE reset == [Quiet(card) EXCEPT !.mode = "idle"]
           up == [card EXCEPT !.mode = "ready"]
           csd == [card EXCEPT !.sending = CsdBlock]
<1>1. SendsOwn(card)
  BY DEF Sending, SendsOwn
<1>2. SendsOwn(reset) /\ SendsOwn(up) /\ SendsOwn(csd) /\ SendsOwn(Quiet(card))
  BY <1>1, InvFacts, QuietCard DEF SendsOwn, Card
<1> HIDE DEF reset, up, csd
<1>3. ASSUME NEW c, NEW r, NEW after \in {card, reset, up, csd, Quiet(card)},
             NEW x \in Exchange(c, r, after)
      PROVE  SendsOwn(x.card)
  BY <1>1, <1>2, <1>3, ExchangeBound, InvFacts
<1>4. ASSUME NEW x \in Received PROVE SendsOwn(x.card)
  <2> DEFINE next == Following(card.sending)
  <2>1. x.card.sending \in {card.sending, next, Following(next)}
    BY ReceivedSending, InvFacts
  <2>2. next \in {NoBlock} \union BlocksOf
    BY <1>1, FollowingBound DEF SendsOwn
  <2> HIDE DEF next
  <2>3. Following(next) \in {NoBlock} \union BlocksOf
    BY <2>2, FollowingBound
  <2> QED
    BY <1>1, <2>1, <2>2, <2>3 DEF SendsOwn
<1>5. CASE Detect
  <2>1. PICK x \in Exchange("CMD13", R1Now, card) : card' = x.card
    BY <1>5 DEF Detect
  <2> QED
    BY <1>3, <2>1
<1>6. CASE InitReset
  <2>1. PICK x \in Exchange("CMD0", "idle", reset) : card' = x.card
    BY <1>6 DEF InitReset, InitCommand, reset
  <2> QED
    BY <1>3, <2>1
<1>7. CASE InitVersion
  <2>1. PICK r : \E x \in Exchange("CMD8", r, card) : card' = x.card
    BY <1>7 DEF InitVersion
  <2> QED
    BY <1>3, <2>1
<1>8. CASE InitOpCond
  <2>1. PICK y \in Exchange("ACMD41", "idle", card) \union Exchange("ACMD41", "ready", up) :
          card' = y.card
    BY <1>8 DEF InitOpCond, up
  <2> QED
    BY <1>3, <2>1
<1>9. CASE InitCapacity
  <2>1. PICK x \in Exchange("CMD58", R1Now, card) : card' = x.card
    BY <1>9 DEF InitCapacity
  <2> QED
    BY <1>3, <2>1
<1>10. CASE InitBlockLength
  <2>1. PICK x \in Exchange("CMD16", R1Now, card) : card' = x.card
    BY <1>10 DEF InitBlockLength, InitCommand
  <2> QED
    BY <1>3, <2>1
<1>11. CASE InitCsd
  <2>1. PICK x \in Exchange("CMD9", R1Now, csd) : card' = x.card
    BY <1>11 DEF InitCsd, csd
  <2> QED
    BY <1>3, <2>1
<1>12. CASE InitReadCsd
  <2>1. PICK x \in Received : card' = x.card
    BY <1>12 DEF InitReadCsd
  <2> QED
    BY <1>4, <2>1
<1>13. CASE StopRead
  <2>1. card' = card \/ \E x \in Exchange("CMD12", "ready", Quiet(card)) : card' = x.card
    BY <1>13 DEF StopRead
  <2> QED
    BY <1>1, <1>3, <2>1
<1> QED
  BY <1>5, <1>6, <1>7, <1>8, <1>9, <1>10, <1>11, <1>12, <1>13

LEMMA SendingSlot ==
  ASSUME Sending, UNCHANGED <<bus, driverVars, pc, status, lost>>, card'.mode = "sd",
         card'.sending = NoBlock
  PROVE  Sending'
<1>1. UNCHANGED <<done, req, moved>>
  BY DEF driverVars
<1> QED
  BY <1>1 DEF Sending, Ordered, NoBlock

LEMMA NextSending ==
  ASSUME IInv, Sending, [Next]_vars PROVE Sending'
<1> SUFFICES ASSUME bus' # "failing" PROVE Sending'
  BY DEF Sending
<1>0. bus' = bus
  BY DEF Next, vars
<1>1. CASE UNCHANGED vars
  BY <1>1 DEF vars, Sending, Ordered
<1>2. CASE DriverStep /\ UNCHANGED bus
  <2>1. CASE TransferCommand
    BY <1>2, <2>1, SendingCommand
  <2>2. CASE TransferBlock
    BY <1>2, <2>2, SendingBlock
  <2>3. CASE StopWrite
    <3>1. card' = StopTokenSent \/ card' = card
      BY <2>3 DEF StopWrite
    <3>2. SendsOwn(card')
      BY <1>0, <3>1, InvFacts, QuietCard DEF StopTokenSent, Sending, SendsOwn
    <3>3. pc' = "idle"
      BY <2>3 DEF StopWrite, Return
    <3> QED
      BY <3>2, <3>3, SendingElsewhere DEF SendsOwn
  <2>4. CASE InitClocks
    <3>1. card' = card /\ pc' = "cmd0"
      BY <2>4 DEF InitClocks, Goto
    <3> QED
      BY <1>0, <3>1 DEF Sending
  <2>5. CASE \/ InitReset \/ InitVersion \/ InitOpCond \/ InitCapacity
             \/ InitBlockLength \/ InitCsd \/ InitReadCsd \/ StopRead
    <3>1. SendsOwn(card')
      BY <1>0, <2>5, BoundedInit
    <3>2. pc' \notin {"command", "block", "stop"}
      BY <2>5 DEF InitReset, InitVersion, InitOpCond, InitCapacity, InitBlockLength,
         InitCsd, InitReadCsd, StopRead, InitCommand, Return, Goto
    <3> QED
      BY <3>1, <3>2, SendingElsewhere DEF SendsOwn
  <2> QED
    BY <1>2, <2>1, <2>2, <2>3, <2>4, <2>5 DEF DriverStep
<1>3. CASE Call /\ UNCHANGED bus
  <2>1. CASE Detect
    <3>1. SendsOwn(card')
      BY <1>0, <2>1, BoundedInit
    <3>2. pc' \in {"idle", "clocks"}
      BY <2>1 DEF Detect, Return, Goto
    <3> QED
      BY <3>1, <3>2, SendingElsewhere DEF SendsOwn
  <2>2. ASSUME NEW op \in {"read", "write"}, NEW lba \in 0 .. Capacity - 1,
               NEW count \in 1 .. MaxCount, CallTransfer(op, lba, count)
        PROVE  Sending'
    <3>1. pc' = "command" /\ moved' = <<>> /\ done' = 0 /\ card' = card
            /\ req'.medium = card.medium
      BY <2>2 DEF CallTransfer, Goto
    <3> QED
      BY <1>0, <3>1 DEF Sending
  <2> QED
    BY <1>3, <2>1, <2>2 DEF Call
<1>4. CASE Slot /\ UNCHANGED bus
  <2>1. CASE Remove
    BY <1>4, <2>1, RemoveCard, InvFacts, SendingSlot
  <2>2. ASSUME NEW kind \in Kinds, Insert(kind) PROVE Sending'
    BY <1>4, <2>2, InsertCard, SendingSlot
  <2> QED
    BY <1>4, <2>1, <2>2 DEF Slot
<1> QED
  BY <1>1, <1>2, <1>3, <1>4 DEF Next

LEMMA IntactReadEnds ==
  ASSUME IInv, Sending, [Next]_vars, ReadSucceeds, bus # "failing"
  PROVE  Ordered(moved') /\ Len(moved') = req.count
<1>1. /\ pc \in {"block", "stop"} /\ pc' = "idle" /\ status' = "SUCCESS"
      /\ req.op = "read"
  BY DEF ReadSucceeds, TransferEnds
<1>2. CASE TransferBlock /\ UNCHANGED bus
  <2>1. Ordered(moved') /\ Len(moved') = done' /\ done' = done + 1
    BY <1>1, <1>2, OrderedBlock, BlockStep
  <2>2. ~(req.count > 1) /\ done < req.count
    BY <1>1, <1>2, BlockStep DEF Sending
  <2>3. done \in Nat /\ req.count \in Nat \ {0}
    BY TransferFacts DEF Request
  <2> QED
    BY <2>1, <2>2, <2>3
<1>3. CASE StopRead
  <2>1. pc = "stop" /\ status = "SUCCESS" /\ moved' = moved
    BY <1>1, <1>3 DEF StopRead, Goto, driverVars
  <2> QED
    BY <1>1, <2>1 DEF Sending
<1> QED
  BY <1>1, <1>2, <1>3, EndingRead DEF ReadSucceeds

(* A read that reports success returned as many whole blocks as it was     *)
(* asked for, of the card it was asked of and in its order, although noise *)
(* may turn commands, addresses and answers into others.                   *)
THEOREM ReadIntact == Spec => ReadIsIntact
<1> DEFINE A == ReadSucceeds /\ bus # "failing" =>
                  /\ Len(moved') = req.count
                  /\ \A k \in 1 .. Len(moved') :
                       /\ moved'[k][1] = req.medium /\ moved'[k][2] \in 0 .. Capacity - 1
                       /\ k > 1 => moved'[k - 1][2] < moved'[k][2]
<1>1. Init => Sending
  BY DEF Init, Sending
<1>2. IInv /\ Sending /\ [Next]_vars => Sending'
  BY NextSending
<1>3. IInv /\ Sending /\ [Next]_vars => [A]_vars
  BY IntactReadEnds DEF Ordered, BlocksOf
<1> QED
  BY <1>1, <1>2, <1>3, InductiveInvariant, PTL DEF Spec, ReadIsIntact
=============================================================================
